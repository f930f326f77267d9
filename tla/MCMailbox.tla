------------------------------ MODULE MCMailbox ------------------------------
(* Mailbox on a small instance: three commands of every kind, enough for a  *)
(* command to be posted over one that is being taken and for the argument   *)
(* of the first to be seen by the third.                                    *)
EXTENDS Mailbox
==============================================================================
