--------------------------- MODULE TorrentManager ---------------------------
(***************************************************************************)
(* The life of a torrent in rpc/torrent_manager.go, composed with the      *)
(* queue of module QueueManager.                                           *)
(*                                                                         *)
(* A method of TorrentManager runs under tm.mu, calls the queue manager    *)
(* while it holds it and is one action.  Most methods leave the real work  *)
(* to a goroutine (go startTorrent, go verifyTorrentAsync, go              *)
(* startTorrentSeeding, the queue's go onTorrentActivated).  A goroutine   *)
(* keeps a pointer to the torrent, takes tm.mu some time later and writes  *)
(* the torrent's status without looking at what happened in between.       *)
(***************************************************************************)
EXTENDS QueueManager

CONSTANTS
    InfoHashes,    \* info hashes of the torrents clients add
    BadHashes,     \* the hashes whose info dictionary does not parse (Info() fails)
    Configs,       \* the queue configurations the session may have
    Calls,         \* which of StartTorrentNow and VerifyTorrent clients call
    MaxTorrents,   \* TorrentManagerConfig.MaxTorrents
    MaxPending     \* bound: goroutines of one kind pending for one torrent

ASSUME TorrentManagerAssumption ==
    /\ BadHashes \subseteq InfoHashes
    /\ Configs \subseteq [QueueType -> QueueConfig]
    /\ Calls \subseteq {"StartTorrentNow", "VerifyTorrent"}
    /\ MaxTorrents \in Nat
    /\ MaxPending \in Nat \ {0}

VARIABLES
    torrent,     \* torrent[t]: the TorrentState of id t
    pending,     \* pending[t][k]: goroutines of kind k that have not yet acted on t
    requested    \* hashes whose metadata was requested from peers

tmVars == <<vars, torrent, pending, requested>>

Status == {"Stopped", "QueuedVerify", "Verifying", "QueuedDown", "Downloading",
           "QueuedSeed", "Seeding"}

\* The goroutines: the callback of each queue; startTorrent before it looks at
\* MetaInfo and after it found it set or nil; startTorrentSeeding;
\* verifyTorrentAsync.
Kinds == QueueType \cup {"start", "startDown", "startMeta", "seed", "verify"}

\* phase tells whether the id was handed out and whether it is in tm.torrents;
\* downloaded: Downloaded equals the total size; done: PercentDone >= 1.
TorrentState ==
    [phase : {"new", "present", "removed"}, hash : InfoHashes, status : Status,
     meta : BOOLEAN, downloaded : BOOLEAN, done : BOOLEAN]

Present == {t \in Torrents : torrent[t].phase = "present"}

\* MetaInfo.Info() succeeds.
HasInfo(t) == torrent[t].meta /\ torrent[t].hash \notin BadHashes

QueuedStatus(q) == IF q = "Download" THEN "QueuedDown" ELSE "QueuedSeed"

\* A mistake: the queue type is stored as the status, both are integers.
ActiveStatusMixed(q) == q

ActiveStatus(q) == IF q = "Download" THEN "Downloading" ELSE "Seeding"

\* Determine queue type based on completion status.
QueueOf(t) == IF torrent[t].done THEN "Seed" ELSE "Download"

Started(t) == torrent[t].status \in {"Downloading", "Seeding"}

SetStatus(t, s) == torrent' = [torrent EXCEPT ![t].status = s]

CanSpawn(t, k) == pending[t][k] < MaxPending

Spawn(t, k) ==
    /\ CanSpawn(t, k)
    /\ pending' = [pending EXCEPT ![t][k] = @ + 1]

Finish(t, k) ==
    /\ pending[t][k] > 0
    /\ pending' = [pending EXCEPT ![t][k] = @ - 1]

\* Goroutine k of t goes on as, or is followed by, goroutine next.
FinishAndSpawn(t, k, next) ==
    /\ pending[t][k] > 0
    /\ CanSpawn(t, next)
    /\ pending' = [pending EXCEPT ![t][k] = @ - 1, ![t][next] = @ + 1]

-----------------------------------------------------------------------------

\* hash is that of the torrent that will be added under the id.
TMInit ==
    /\ Init
    /\ config \in Configs
    /\ torrent \in [Torrents ->
            {[phase |-> "new", hash |-> h, status |-> "Stopped", meta |-> FALSE,
              downloaded |-> FALSE, done |-> FALSE] : h \in InfoHashes}]
    /\ pending = [t \in Torrents |-> [k \in Kinds |-> 0]]
    /\ requested = {}

-----------------------------------------------------------------------------
(***************************************************************************)
(* The methods.                                                            *)
(***************************************************************************)

\* validateTorrentLimit, findDuplicateTorrent.
AddAllowed(h) ==
    /\ Cardinality(Present) < MaxTorrents
    /\ \A u \in Present : torrent[u].hash # h

AddedStatus(meta, paused, startAdded) ==
    IF paused THEN "Stopped"
    ELSE IF startAdded
         THEN IF meta THEN "Downloading" ELSE "QueuedVerify"
         ELSE IF meta THEN "Verifying" ELSE "QueuedVerify"

\* handleTorrentStartup: what AddTorrent leaves running.
AddSpawns(t, meta, paused, startAdded) ==
    \/ ~paused /\ startAdded /\ Spawn(t, "start")
    \/ ~paused /\ ~startAdded /\ meta /\ Spawn(t, "verify")
    \/ (paused \/ (~startAdded /\ ~meta)) /\ UNCHANGED pending

\* StartAddedTorrents is a session setting that may change between any two
\* calls.
AddTorrent(t, meta, paused, startAdded) ==
    /\ ~panicked
    /\ torrent[t].phase = "new"
    /\ AddAllowed(torrent[t].hash)
    /\ torrent' = [torrent EXCEPT
            ![t].phase = "present",
            ![t].meta = meta,
            ![t].status = AddedStatus(meta, paused, startAdded)]
    /\ AddSpawns(t, meta, paused, startAdded)
    /\ UNCHANGED <<vars, requested>>

\* The status is written first; a disabled queue then ignores the torrent.
StartTorrent(t) ==
    LET q == QueueOf(t)
    IN  /\ t \in Present
        /\ ~Started(t)
        /\ SetStatus(t, QueuedStatus(q))
        /\ \/ AddToQueue(t, q, 0)
           \/ ~config[q].enabled /\ LockFree /\ UNCHANGED vars
        /\ UNCHANGED <<pending, requested>>

\* ForceActivate starts the callback, StartTorrentNow starts startTorrent.
StartTorrentNow(t) ==
    LET q == QueueOf(t)
    IN  /\ t \in Present
        /\ ~Started(t)
        /\ SetStatus(t, ActiveStatus(q))
        /\ ForceActivateByCaller(t, q)
        /\ CanSpawn(t, q)
        /\ CanSpawn(t, "start")
        /\ pending' = [pending EXCEPT ![t][q] = @ + 1, ![t]["start"] = @ + 1]
        /\ UNCHANGED requested

\* A mistake: the status changes, the queue keeps the torrent.
StopTorrentQueued(t) ==
    /\ t \in Present
    /\ LockFree
    /\ SetStatus(t, "Stopped")
    /\ UNCHANGED <<vars, pending, requested>>

StopTorrent(t) ==
    /\ t \in Present
    /\ RemoveFromQueue(t)
    /\ SetStatus(t, "Stopped")
    /\ UNCHANGED <<pending, requested>>

\* A mistake: the queue keeps a torrent that is gone.
RemoveTorrentQueued(t) ==
    /\ t \in Present
    /\ LockFree
    /\ torrent' = [torrent EXCEPT ![t].phase = "removed", ![t].status = "Stopped"]
    /\ UNCHANGED <<vars, pending, requested>>

RemoveTorrent(t) ==
    /\ t \in Present
    /\ RemoveFromQueue(t)
    /\ torrent' = [torrent EXCEPT ![t].phase = "removed", ![t].status = "Stopped"]
    /\ UNCHANGED <<pending, requested>>

VerifyTorrent(t) ==
    /\ ~panicked
    /\ t \in Present
    /\ torrent[t].meta
    /\ SetStatus(t, "Verifying")
    /\ Spawn(t, "verify")
    /\ UNCHANGED <<vars, requested>>

SetTorrentQueuePosition(t, position) ==
    /\ t \in Present
    /\ SetQueuePosition(t, position)
    /\ UNCHANGED <<torrent, pending, requested>>

\* updateQueueConfiguration, reached from UpdateSessionConfig.
UpdateSessionQueues ==
    /\ \E cfg \in Configs : UpdateConfig(cfg)
    /\ UNCHANGED <<torrent, pending, requested>>

-----------------------------------------------------------------------------
(***************************************************************************)
(* The goroutines.                                                         *)
(***************************************************************************)

\* startTorrent reads MetaInfo without the lock ...
StartTorrentReads(t) ==
    /\ ~panicked
    /\ FinishAndSpawn(t, "start", IF torrent[t].meta THEN "startDown" ELSE "startMeta")
    /\ UNCHANGED <<vars, torrent, requested>>

\* ... and then takes it to write the status, whatever it is by now.
StartTorrentDownloads(t) ==
    /\ ~panicked
    /\ Finish(t, "startDown")
    /\ SetStatus(t, "Downloading")
    /\ UNCHANGED <<vars, requested>>

\* Without metadata, findPeersViaDHT asks peers for it.
StartTorrentFetches(t) ==
    /\ ~panicked
    /\ Finish(t, "startMeta")
    /\ SetStatus(t, "QueuedVerify")
    /\ requested' = requested \cup {torrent[t].hash}
    /\ UNCHANGED vars

\* A valid answer of one of the peers asked; there may be many.
HandleDownloaderResponse(t) ==
    /\ ~panicked
    /\ t \in Present
    /\ torrent[t].hash \in requested
    /\ \/ /\ torrent[t].hash \notin BadHashes
          /\ torrent' = [torrent EXCEPT ![t].meta = TRUE, ![t].status = "Downloading"]
          /\ Spawn(t, "start")
       \/ /\ torrent[t].hash \in BadHashes
          /\ torrent' = [torrent EXCEPT ![t].meta = TRUE]
          /\ UNCHANGED pending
    /\ UNCHANGED <<vars, requested>>

StartTorrentSeeding(t) ==
    /\ ~panicked
    /\ Finish(t, "seed")
    /\ SetStatus(t, "Seeding")
    /\ UNCHANGED <<vars, requested>>

\* A mistake: the early return leaves the status as it is.
VerifyFailsSilently(t) == ~HasInfo(t) /\ UNCHANGED torrent

\* The early return of verifyTorrentAsync.
VerifyFails(t) == ~HasInfo(t) /\ SetStatus(t, "Stopped")

VerifyTorrentAsync(t) ==
    /\ ~panicked
    /\ Finish(t, "verify")
    /\ \/ VerifyFails(t)
       \/ /\ HasInfo(t)
          /\ \E all \in BOOLEAN :
                torrent' = [torrent EXCEPT
                    ![t].downloaded = all,
                    ![t].status = IF all THEN "Seeding" ELSE "Downloading"]
    /\ UNCHANGED <<vars, requested>>

\* PercentDone follows Downloaded every five seconds.
UpdateStats ==
    /\ ~panicked
    /\ torrent' = [t \in Torrents |->
            IF t \in Present /\ HasInfo(t)
            THEN [torrent[t] EXCEPT !.done = torrent[t].downloaded]
            ELSE torrent[t]]
    /\ UNCHANGED <<vars, pending, requested>>

OnTorrentActivated(t, q) ==
    /\ ~panicked
    /\ \/ /\ t \in Present
          /\ torrent[t].status = QueuedStatus(q)
          /\ SetStatus(t, ActiveStatus(q))
          /\ FinishAndSpawn(t, q, IF q = "Download" THEN "start" ELSE "seed")
       \/ /\ t \notin Present \/ torrent[t].status # QueuedStatus(q)
          /\ Finish(t, q)
          /\ UNCHANGED torrent
    /\ UNCHANGED <<vars, requested>>

\* A mistake: the callback is not started.
QueueActivatesSilently(q) ==
    /\ ProcessActivate(q)
    /\ UNCHANGED <<torrent, pending, requested>>

\* The queue's own steps; the ones that activate a torrent start the callback.
QueueActivates(q) ==
    /\ ProcessActivate(q)
    /\ Spawn(Head(order[q]), q)
    /\ UNCHANGED <<torrent, requested>>

DrainActivates(t, q) ==
    /\ DrainOne(t, q)
    /\ Spawn(t, q)
    /\ UNCHANGED <<torrent, requested>>

PassSteps ==
    /\ ProcessBegin \/ \E q \in QueueType : ProcessEnd(q)
    /\ UNCHANGED <<torrent, pending, requested>>

SnapshotSteps ==
    /\ \E q \in QueueType : SnapshotQueued(q)
    /\ UNCHANGED <<torrent, pending, requested>>

-----------------------------------------------------------------------------

Clients ==
    \/ \E t \in Torrents :
        \/ \E meta, paused, startAdded \in BOOLEAN :
                AddTorrent(t, meta, paused, startAdded)
        \/ StartTorrent(t)
        \/ "StartTorrentNow" \in Calls /\ StartTorrentNow(t)
        \/ StopTorrent(t)
        \/ RemoveTorrent(t)
        \/ "VerifyTorrent" \in Calls /\ VerifyTorrent(t)
        \/ \E position \in Positions : SetTorrentQueuePosition(t, position)
    \/ UpdateSessionQueues

Network == \E t \in Torrents : HandleDownloaderResponse(t)

Goroutine(t) ==
    \/ StartTorrentReads(t)
    \/ StartTorrentDownloads(t)
    \/ StartTorrentFetches(t)
    \/ StartTorrentSeeding(t)
    \/ VerifyTorrentAsync(t)
    \/ \E q \in QueueType : OnTorrentActivated(t, q)

QueueLoop == PassSteps \/ \E q \in QueueType : QueueActivates(q)

QueueUpdate ==
    \/ SnapshotSteps
    \/ \E t \in Torrents, q \in QueueType : DrainActivates(t, q)

TMNext ==
    \/ Clients
    \/ Network
    \/ UpdateStats
    \/ QueueLoop
    \/ QueueUpdate
    \/ \E t \in Torrents : Goroutine(t)

TMSpec == TMInit /\ [][TMNext]_tmVars

\* Goroutines are scheduled by the Go runtime; clients and peers owe nothing.
\* The update competes with the loop for qm.mu, which a sync.RWMutex does not
\* keep from a waiting goroutine for ever: strong fairness.
TMFairSpec ==
    /\ TMSpec
    /\ WF_tmVars(QueueLoop)
    /\ SF_tmVars(QueueUpdate)
    /\ \A t \in Torrents : WF_tmVars(Goroutine(t))

-----------------------------------------------------------------------------
(***************************************************************************)
(* Properties.                                                             *)
(***************************************************************************)

\* The types of the variables this module adds.
TMTypeOK ==
    /\ torrent \in [Torrents -> TorrentState]
    /\ pending \in [Torrents -> [Kinds -> 0..MaxPending]]
    /\ requested \subseteq InfoHashes

\* Removing a torrent takes it out of the queues for good, whatever its
\* callbacks and the queue's loops still do.
RemovedNotQueued == \A q \in QueueType : Queued(q) \subseteq Present

\* A torrent the user has stopped keeps no place in a queue.  The exception is
\* a torrent whose info dictionary does not parse: its verification stops it
\* and leaves it in the queue.
StoppedNotQueued ==
    \A t \in Present, q \in QueueType :
        torrent[t].status = "Stopped" /\ t \in Queued(q) =>
            torrent[t].meta /\ ~HasInfo(t)

\* No torrent is stuck in Verifying: a verification that will write the status
\* is under way, however many stops, starts and answers came in between.
VerifyingHasJob ==
    \A t \in Present :
        torrent[t].status = "Verifying" => pending[t]["verify"] > 0

\* With the queues enabled a torrent shown as queued is on its way: it is in
\* that queue, or the callback that starts it is pending.
QueuedIsOnItsWay ==
    \A t \in Present, q \in QueueType :
        torrent[t].status = QueuedStatus(q) =>
            t \in Queued(q) \/ pending[t][q] > 0

\* A queued torrent is started: while a slot is free the status leaves
\* QueuedDown or QueuedSeed.
QueuedIsStarted ==
    \A t \in Torrents, q \in QueueType :
        t \in Queued(q) /\ torrent[t].status = QueuedStatus(q) ~>
            \/ torrent[t].status # QueuedStatus(q)
            \/ Cardinality(active[q]) >= config[q].max

\* "StopTorrent stops downloading/seeding a torrent": once stopped, only a
\* client starts it again.  A goroutine started earlier does so too.
StoppedStaysStopped ==
    [][\A t \in Present :
        torrent[t].status = "Stopped" /\ torrent'[t].status # "Stopped" =>
            Clients]_tmVars

=============================================================================
