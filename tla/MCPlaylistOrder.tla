-------------------------- MODULE MCPlaylistOrder --------------------------
(* Small instances of PlaylistOrder: a list of three songs and one of a song. *)
EXTENDS PlaylistOrder, FiniteSets

CONSTANTS a, b, c, d

ThreeAndOne == {<<a, b, c>>, <<d>>}

\* A behaviour is followed until it has met two kinds of mishap.
OneSlip == Cardinality(slips) <= 1
=============================================================================
