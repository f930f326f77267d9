---------------------------- MODULE MCWavExport ----------------------------
(* WavExport on small instances.                                            *)
EXTENDS WavExport, TLC

CONSTANT MaxMishaps   \* bound on the kinds of mishaps in a behaviour

\* The threads are interchangeable.
ThreadSymmetry == Permutations(Threads)

FewMishaps == Cardinality(mishaps) <= MaxMishaps
==============================================================================
