---------------------------- MODULE CommandSlot ----------------------------
(***************************************************************************)
(* What the one-place command slot between the Java side and the TiMidity  *)
(* engine promises about COMMANDS (not about their arguments): commands    *)
(* are numbered in the order they are posted, each is taken at most once   *)
(* and in that order, and a command that was put in an empty slot stays    *)
(* there until it is taken or replaced by a later one.                     *)
(***************************************************************************)
EXTENDS Naturals

CONSTANT MaxPosts       \* bound on the number of commands

VARIABLES
    slot,       \* number of the command in the slot, 0 when it is empty
    posted,     \* number of the latest command posted
    safe,       \* was the slot empty when that command was posted?
    held,       \* command being taken and not yet removed, 0 when none is
    last,       \* number of the last command taken, 0 at first
    count       \* how many commands were taken

slotVars == <<slot, posted, safe, held, last, count>>

Init ==
    /\ slot = 0
    /\ posted = 0
    /\ safe = TRUE
    /\ held = 0
    /\ last = 0
    /\ count = 0

Post ==
    /\ posted < MaxPosts
    /\ posted' = posted + 1
    /\ slot' = posted + 1
    /\ safe' = (slot = 0)
    /\ UNCHANGED <<held, last, count>>

Take ==
    /\ slot > last
    /\ held = 0
    /\ held' = slot
    /\ last' = slot
    /\ count' = count + 1
    /\ UNCHANGED <<slot, posted, safe>>

\* The command taken is removed, and with it one that was posted over it.
Remove ==
    /\ held # 0
    /\ slot = held \/ ~safe
    /\ slot' = 0
    /\ held' = 0
    /\ UNCHANGED <<posted, safe, last, count>>

Next == Post \/ Take \/ Remove

Spec == Init /\ [][Next]_slotVars
============================================================================
