-------------------------- MODULE MCTorrentManager --------------------------
(* Small instances of TorrentManager for TLC. *)
EXTENDS TorrentManager

\* Nothing compares torrents or info hashes but for equality; sound when no hash
\* is bad.
TorrentSymmetry == Permutations(Torrents) \cup Permutations(InfoHashes)

NoPositions == {}

OnePosition == {5}

\* The download queue is switched on and off.
SomeConfigs == {cfg \in [QueueType -> QueueConfig] : cfg["Seed"].enabled}

\* Both queues stay enabled.
EnabledConfigs == [QueueType -> [enabled : {TRUE}, max : Limits]]
=============================================================================
