--------------------------- MODULE MCQueueManager ---------------------------
(***************************************************************************)
(* Instances of QueueManager for TLC.                                      *)
(***************************************************************************)
EXTENDS QueueManager

\* Torrents are interchangeable: nothing compares their identifiers.
TorrentSymmetry == Permutations(Torrents)

NoPositions == {}

\* Below the front, the front, and beyond the end of a queue.
SomePositions == {-1, 0, 5}

=============================================================================
