--------------------------- MODULE MCReplayJournal ---------------------------
(* Instances of ReplayJournal for TLC. *)
EXTENDS ReplayJournal

CONSTANTS id1, id2, id3

MCIds == {id1, id2, id3}
=============================================================================
