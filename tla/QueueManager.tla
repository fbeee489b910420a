---------------------------- MODULE QueueManager ----------------------------
(***************************************************************************)
(* The torrent queue of rpc/queue_manager.go, with the one writer of its   *)
(* configuration, TorrentManager.updateQueueConfiguration.                 *)
(*                                                                         *)
(* Each queue (download, seed) is a map from torrent to queue item and a   *)
(* slice of torrent ids that gives the order.  The two are kept in step by *)
(* hand, so most of what can go wrong here is a disagreement between them. *)
(*                                                                         *)
(* Every exported method runs under qm.mu and is one action.  The pass of  *)
(* processQueues holds qm.mu too, but it is a loop: it is modelled one     *)
(* iteration per step, with "mutex" naming the loop that holds the lock.   *)
(* What the goroutines started by go onTorrentActivated(...) do is the     *)
(* business of the component that registers the callback: module           *)
(* TorrentManager starts one in each step that activates a torrent.        *)
(***************************************************************************)
EXTENDS Integers, Sequences, FiniteSets, SequencesExt

CONSTANTS
    Torrents,      \* torrent identifiers
    Priorities,    \* the priorities callers pass to AddToQueue
    Positions,     \* the positions callers pass to SetQueuePosition
    Limits,        \* the values of MaxActiveDownloads and MaxActiveSeeds
    ReAdds,        \* TRUE: a caller may add a torrent queued or active already
    MaxClock,      \* bound: readings of time.Now()
    MaxOrder       \* bound: length of an order slice

ASSUME ConstantsAssumption ==
    /\ Priorities \subseteq Int
    /\ Positions \subseteq Int
    /\ Limits \subseteq Nat
    /\ ReAdds \in BOOLEAN
    /\ MaxClock \in Nat
    /\ MaxOrder \in Nat

ASSUME TorrentsAssumption == IsFiniteSet(Torrents)

VARIABLES
    queue,       \* queue[q]: partial map from torrent to item (downloadQueue, seedQueue)
    order,       \* order[q]: slice of torrent ids (downloadOrder, seedOrder)
    active,      \* active[q]: set of torrents (activeDownloads, activeSeeds)
    config,      \* config[q]: queue enabled, maximum number of active torrents
    clock,       \* the last reading of time.Now()
    mutex,       \* "free", or the queue whose process loop holds qm.mu
    activeCount, \* the local variable of the process loop
    loop,        \* the background goroutine: running, cancelled, exited
    updater,     \* progress of updateQueueConfiguration
    panicked     \* a nil *QueueItem was dereferenced: the process is gone

vars == <<queue, order, active, config, clock, mutex, activeCount, loop,
          updater, panicked>>

QueueType == {"Download", "Seed"}

Other(q) == IF q = "Download" THEN "Seed" ELSE "Download"

Item == [priority : Priorities, added : 0..MaxClock, position : Nat]

QueueConfig == [enabled : BOOLEAN, max : Limits]

Queued(q) == DOMAIN queue[q]

(***************************************************************************)
(* Helpers on one queue.  items is a map, ord a slice.                     *)
(***************************************************************************)

\* The index of the first and of the last occurrence of t in ord, 0 when there
\* is none.
FirstIndex(ord, t) == SelectInSeq(ord, LAMBDA u : u = t)

LastIndex(ord, t) == SelectLastInSeq(ord, LAMBDA u : u = t)

\* A mistake: positions counted from -1.
UpdatePositionsShifted(items, ord) ==
    [t \in DOMAIN items |->
        IF Contains(ord, t)
        THEN [items[t] EXCEPT !.position = LastIndex(ord, t) - 2]
        ELSE items[t]]

\* Later entries of the slice overwrite the position written by earlier ones.
UpdatePositions(items, ord) ==
    [t \in DOMAIN items |->
        IF Contains(ord, t)
        THEN [items[t] EXCEPT !.position = LastIndex(ord, t) - 1]
        ELSE items[t]]

Without(items, t) == Restrict(items, DOMAIN items \ {t})

\* Mistakes: the positions are not refreshed; the slice keeps the removed
\* torrent.
RemoveItemsStalePositions(items, ord, t) == Without(items, t)

RemoveOrderKept(items, ord, t) == ord

\* Only a torrent that is in the map is looked for in the slice, and only its
\* first occurrence leaves the slice.
RemoveItems(items, ord, t) ==
    IF t \in DOMAIN items
    THEN UpdatePositions(Without(items, t), RemoveFirst(ord, t))
    ELSE items

RemoveOrder(items, ord, t) ==
    IF t \in DOMAIN items THEN RemoveFirst(ord, t) ELSE ord

Less(items, t, u) ==
    \/ items[t].priority > items[u].priority
    \/ /\ items[t].priority = items[u].priority
       /\ items[t].added < items[u].added

\* A mistake: the slice is not sorted after the append.
SortingsKept(items, ord) == {ord}

\* sort.Slice is not stable: any rearrangement in which no later element is
\* less than an earlier one may result.
Sortings(items, ord) ==
    LET Rearranged(p) == [i \in DOMAIN ord |-> ord[p[i]]]
    IN  {Rearranged(p) : p \in {b \in Bijection(DOMAIN ord, DOMAIN ord) :
            \A i, j \in DOMAIN ord :
                i < j => ~Less(items, ord[b[j]], ord[b[i]])}}

\* A mistake: the slice is sorted before the new item is stored.
SortPanicsEarly(items, ord) == Len(ord) > 1

\* The comparison function dereferences the item of every element it is given.
SortPanics(items, ord) ==
    Len(ord) > 1 /\ \E i \in DOMAIN ord : ord[i] \notin DOMAIN items

Clamp(position, length) ==
    IF position < 0 THEN 0
    ELSE IF position >= length THEN length - 1 ELSE position

-----------------------------------------------------------------------------

Init ==
    /\ queue = [q \in QueueType |-> <<>>]
    /\ order = [q \in QueueType |-> <<>>]
    /\ active = [q \in QueueType |-> {}]
    /\ config \in [QueueType -> QueueConfig]
    /\ clock = 0
    /\ mutex = "free"
    /\ activeCount = 0
    /\ loop = "running"
    /\ updater = [at |-> "idle", ids |-> {}]
    /\ panicked = FALSE

\* qm.mu can be taken by an exported method.
LockFree == mutex = "free" /\ ~panicked

AddEnabled(t, q) ==
    /\ ReAdds \/ t \notin Queued(q) \cup active[q]
    /\ Len(order[q]) < MaxOrder

\* A mistake: the torrent stays in the other queue.
EnqueueBoth(t, q, items, sorted) ==
    /\ queue' = [queue EXCEPT ![q] = UpdatePositions(items, sorted)]
    /\ order' = [order EXCEPT ![q] = sorted]

\* Queue q gets its new content, the other queue loses t.
Enqueue(t, q, items, sorted) ==
    LET o == Other(q)
    IN  /\ queue' = [queue EXCEPT
              ![q] = UpdatePositions(items, sorted),
              ![o] = RemoveItems(queue[o], order[o], t)]
        /\ order' = [order EXCEPT
              ![q] = sorted,
              ![o] = RemoveOrder(queue[o], order[o], t)]

AddToQueue(t, q, priority) ==
    /\ LockFree
    /\ config[q].enabled
    /\ AddEnabled(t, q)
    /\ \E now \in {clock, clock + 1} \cap 0..MaxClock :
        LET item  == [priority |-> priority, added |-> now, position |-> 0]
            items == [u \in Queued(q) \cup {t} |->
                        IF u = t THEN item ELSE queue[q][u]]
            ord   == Append(order[q], t)
        IN  /\ clock' = now
            /\ \/ /\ SortPanics(items, ord)
                  /\ panicked' = TRUE
                  /\ UNCHANGED <<queue, order>>
               \/ /\ ~SortPanics(items, ord)
                  /\ \E sorted \in Sortings(items, ord) :
                        Enqueue(t, q, items, sorted)
                  /\ UNCHANGED panicked
    /\ UNCHANGED <<active, config, mutex, activeCount, loop, updater>>

\* Both removeFrom...QueueUnsafe helpers.
RemoveFromBoth(t) ==
    /\ queue' = [q \in QueueType |-> RemoveItems(queue[q], order[q], t)]
    /\ order' = [q \in QueueType |-> RemoveOrder(queue[q], order[q], t)]

RemoveFromQueue(t) ==
    /\ LockFree
    /\ RemoveFromBoth(t)
    /\ active' = [q \in QueueType |-> active[q] \ {t}]
    /\ UNCHANGED <<config, clock, mutex, activeCount, loop, updater, panicked>>

\* moveInDownloadQueue, moveInSeedQueue: remove from the first occurrence,
\* insert at the clamped position.
MoveInQueue(t, q, position) ==
    LET cur  == FirstIndex(order[q], t)
        new  == Clamp(position, Len(order[q])) + 1
        ord  == InsertAt(RemoveAt(order[q], cur), new, t)
    IN  /\ cur # 0
        /\ new # cur
        /\ order' = [order EXCEPT ![q] = ord]
        /\ queue' = [queue EXCEPT ![q] = UpdatePositions(queue[q], ord)]

\* The download queue is looked up first.
SetQueuePosition(t, position) ==
    /\ LockFree
    /\ \/ t \in Queued("Download") /\ MoveInQueue(t, "Download", position)
       \/ /\ t \notin Queued("Download")
          /\ t \in Queued("Seed")
          /\ MoveInQueue(t, "Seed", position)
    /\ UNCHANGED <<active, config, clock, mutex, activeCount, loop, updater,
                   panicked>>

ForceActivate(t, q) ==
    /\ LockFree
    /\ RemoveFromBoth(t)
    /\ active' = [active EXCEPT ![q] = @ \cup {t}]
    /\ UNCHANGED <<config, clock, mutex, activeCount, loop, panicked>>

-----------------------------------------------------------------------------
(***************************************************************************)
(* The background goroutine.                                               *)
(***************************************************************************)

\* The queues that a pass of processQueues looks at.
Processable(q) == config[q].enabled /\ config[q].max > 0

EnterLoop(q) ==
    /\ mutex' = q
    /\ activeCount' = Cardinality(active[q])

ProcessBegin ==
    /\ LockFree
    /\ loop # "exited"
    /\ \/ Processable("Download") /\ EnterLoop("Download")
       \/ ~Processable("Download") /\ Processable("Seed") /\ EnterLoop("Seed")
    /\ UNCHANGED <<queue, order, active, config, clock, loop, updater, panicked>>

\* Mistakes: one torrent too many; the last slot is never used.
LoopContinuesOneMore(q) == activeCount <= config[q].max /\ order[q] # <<>>

LoopContinuesOneLess(q) == activeCount + 1 < config[q].max /\ order[q] # <<>>

LoopContinues(q) == activeCount < config[q].max /\ order[q] # <<>>

\* One iteration of processDownloadQueue or processSeedQueue.
ProcessActivate(q) ==
    /\ mutex = q
    /\ LoopContinues(q)
    /\ LET t == Head(order[q])
       IN  /\ queue' = [queue EXCEPT ![q] = RemoveItems(queue[q], order[q], t)]
           /\ order' = [order EXCEPT ![q] = RemoveOrder(queue[q], order[q], t)]
           /\ active' = [active EXCEPT ![q] = @ \cup {t}]
           /\ activeCount' = activeCount + 1
    /\ UNCHANGED <<config, clock, mutex, loop, updater, panicked>>

ProcessEnd(q) ==
    /\ mutex = q
    /\ ~LoopContinues(q)
    /\ \/ q = "Download" /\ Processable("Seed") /\ EnterLoop("Seed")
       \/ /\ q = "Seed" \/ ~Processable("Seed")
          /\ mutex' = "free"
          /\ activeCount' = 0
    /\ UNCHANGED <<queue, order, active, config, clock, loop, updater, panicked>>

\* Close cancels the context; the goroutine returns when it next selects.
Close ==
    /\ loop = "running"
    /\ ~panicked
    /\ loop' = "cancelled"
    /\ UNCHANGED <<queue, order, active, config, clock, mutex, activeCount,
                   updater, panicked>>

LoopExit ==
    /\ loop = "cancelled"
    /\ LockFree
    /\ loop' = "exited"
    /\ UNCHANGED <<queue, order, active, config, clock, mutex, activeCount,
                   updater, panicked>>

-----------------------------------------------------------------------------
(***************************************************************************)
(* TorrentManager.updateQueueConfiguration.  Callers hold sessionMu, so    *)
(* one update runs at a time, but qm.mu is released between its steps:     *)
(* write the configuration; for each disabled queue take a snapshot of the *)
(* queued torrents, then force-activate them one by one.                   *)
(***************************************************************************)

\* The stage that follows q, given the configuration cfg.
FirstStage(cfg) ==
    IF ~cfg["Download"].enabled THEN "SnapDownload"
    ELSE IF ~cfg["Seed"].enabled THEN "SnapSeed" ELSE "idle"

\* A mistake: the seed queue is drained only when the download queue is not.
StageAfterElse(q, cfg) == "idle"

StageAfter(q, cfg) ==
    IF q = "Download" /\ ~cfg["Seed"].enabled THEN "SnapSeed" ELSE "idle"

Snap(q) == IF q = "Download" THEN "SnapDownload" ELSE "SnapSeed"

Drain(q) == IF q = "Download" THEN "DrainDownload" ELSE "DrainSeed"

Stages == {"idle", "SnapDownload", "DrainDownload", "SnapSeed", "DrainSeed"}

Draining(q, ids) ==
    IF ids = {} THEN [at |-> StageAfter(q, config), ids |-> {}]
    ELSE [at |-> Drain(q), ids |-> ids]

UpdateConfig(cfg) ==
    /\ LockFree
    /\ updater.at = "idle"
    /\ config' = cfg
    /\ updater' = [at |-> FirstStage(cfg), ids |-> {}]
    /\ UNCHANGED <<queue, order, active, clock, mutex, activeCount, loop, panicked>>

SnapshotQueued(q) ==
    /\ LockFree
    /\ updater.at = Snap(q)
    /\ updater' = Draining(q, Queued(q))
    /\ UNCHANGED <<queue, order, active, config, clock, mutex, activeCount,
                   loop, panicked>>

DrainOne(t, q) ==
    /\ updater.at = Drain(q)
    /\ t \in updater.ids
    /\ ForceActivate(t, q)
    /\ updater' = Draining(q, updater.ids \ {t})

\* A caller's own ForceActivate.
ForceActivateByCaller(t, q) == ForceActivate(t, q) /\ UNCHANGED updater

-----------------------------------------------------------------------------

Processor ==
    \/ ProcessBegin
    \/ \E q \in QueueType : ProcessActivate(q) \/ ProcessEnd(q)
    \/ LoopExit

Updater ==
    \E q \in QueueType : SnapshotQueued(q) \/ \E t \in Torrents : DrainOne(t, q)

Callers ==
    \/ \E t \in Torrents :
        \/ RemoveFromQueue(t)
        \/ \E position \in Positions : SetQueuePosition(t, position)
        \/ \E q \in QueueType :
            \/ ForceActivateByCaller(t, q)
            \/ \E priority \in Priorities : AddToQueue(t, q, priority)
    \/ \E cfg \in [QueueType -> QueueConfig] : UpdateConfig(cfg)
    \/ Close

Next == Processor \/ Updater \/ Callers

Spec == Init /\ [][Next]_vars

\* The background goroutine and the configuration update under way are
\* scheduled by the Go runtime; callers owe no call.
FairSpec ==
    /\ Spec
    /\ WF_vars(Processor)
    /\ WF_vars(Updater)

-----------------------------------------------------------------------------
(***************************************************************************)
(* Properties.                                                             *)
(***************************************************************************)

ItemMap(items) ==
    DOMAIN items \subseteq Torrents /\ items \in [DOMAIN items -> Item]

Truthful(items, ord) ==
    \A t \in DOMAIN items :
        LET i == items[t].position + 1
        IN  i \in DOMAIN ord /\ ord[i] = t

Matching(items, ord) == IsInjective(ord) /\ Range(ord) = DOMAIN items

\* The types of the variables; a position handed out is never negative.
TypeOK ==
    /\ DOMAIN queue = QueueType
    /\ \A q \in QueueType : ItemMap(queue[q])
    /\ order \in [QueueType -> Seq(Torrents)]
    /\ active \in [QueueType -> SUBSET Torrents]
    /\ config \in [QueueType -> QueueConfig]
    /\ clock \in 0..MaxClock
    /\ mutex \in QueueType \cup {"free"}
    /\ activeCount \in Nat
    /\ loop \in {"running", "cancelled", "exited"}
    /\ updater \in [at : Stages, ids : SUBSET Torrents]
    /\ panicked \in BOOLEAN

\* GetQueuePosition tells the truth: the position kept in a queue item is an
\* index at which the order slice holds that torrent.  It holds although
\* re-added torrents occur twice in the slice and removals leave stale ids.
PositionsTruthful == \A q \in QueueType : Truthful(queue[q], order[q])

\* AddToQueue takes the torrent out of the other queue first: no torrent waits
\* to download and to seed at once.
OneQueue == Queued("Download") \cap Queued("Seed") = {}

\* A torrent is not left behind in a queue that was switched off: once
\* updateQueueConfiguration has returned, a disabled queue is empty, although
\* callers add, move and remove torrents between its critical sections.
DisabledQueueDrained ==
    updater.at = "idle" =>
        \A q \in QueueType : ~config[q].enabled => Queued(q) = {}

\* processQueues never raises the number of active torrents above the
\* configured limit (forced activations may).
ProcessingRespectsLimit ==
    [][\A q \in QueueType :
        mutex = q /\ active'[q] # active[q] =>
            Cardinality(active'[q]) <= config[q].max]_vars

\* The map and the order slice of a queue hold the same torrents, each once,
\* when callers do not add a torrent that is queued or active already.
OrderMatchesQueue == \A q \in QueueType : Matching(queue[q], order[q])

\* Under the same condition sorting never meets an id without an item, so
\* AddToQueue never panics.
NoPanic == ~panicked

\* Without manual moves, each activation of the background goroutine takes a
\* torrent before which no other queued torrent sorts: highest priority
\* first, then the longest waiting.
ActivatesBest ==
    [][\A q \in QueueType :
        mutex = q /\ order'[q] # order[q] =>
            \A t \in Queued(q) : ~Less(queue[q], t, Head(order[q]))]_vars

\* A queued torrent does not wait for ever beside a free slot: it leaves its
\* queue, or the slots fill up, or the queue is switched off or closed.
QueuedIsServed ==
    \A t \in Torrents, q \in QueueType :
        t \in Queued(q) ~>
            \/ t \notin Queued(q)
            \/ Cardinality(active[q]) >= config[q].max
            \/ ~config[q].enabled
            \/ loop # "running"

\* "Maximum number of active downloads (0 = unlimited)": with a limit of 0 a
\* queued torrent is activated sooner or later.  processQueues skips a queue
\* whose limit is 0, so this does not hold.
ZeroIsUnlimited ==
    \A t \in Torrents, q \in QueueType :
        t \in Queued(q) /\ config[q].max = 0 ~>
            \/ t \notin Queued(q)
            \/ config[q].max # 0
            \/ ~config[q].enabled
            \/ loop # "running"

=============================================================================
