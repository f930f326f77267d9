----------------------------- MODULE MCPlayback -----------------------------
(* Playback on small instances: two threads, so that a second one could     *)
(* start while the first is still going on.                                 *)
EXTENDS Playback, TLC

CONSTANT MaxAccidents   \* bound on the kinds of races lost in a behaviour

\* The threads are interchangeable.
ThreadSymmetry == Permutations(Threads)

FewAccidents == Cardinality(accidents) <= MaxAccidents
==============================================================================
