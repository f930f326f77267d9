---------------------------- MODULE MCSongConfig ----------------------------
(* SongConfig on small instances.                                           *)
EXTENDS SongConfig, TLC

CONSTANT MaxMishaps   \* bound on the kinds of mishaps in a behaviour

SomeButtons == {<<"speed", -1>>, <<"key", 1>>, <<"voices", -1>>}
VoiceButtons == {"voices"} \X {1, -1}

FewMishaps == Cardinality(mishaps) <= MaxMishaps
=============================================================================
