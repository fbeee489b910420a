---------------------------- MODULE RoutingTable ----------------------------
(***************************************************************************)
(* The routing table of dht/routing_table.go: buckets of at most k nodes,  *)
(* the check that removes dead nodes, and the storage the table is dumped  *)
(* to and loaded from.                                                     *)
(*                                                                         *)
(* Everything runs under rt.lock, so a call of AddNode, a pass of          *)
(* checkAllBuckets, a dump and a start are one action each.  A bucket      *)
(* holds pointers to nodes: "nodes" is the slice, "info" the objects it    *)
(* points to.                                                              *)
(***************************************************************************)
EXTENDS Integers, Sequences, FiniteSets, SequencesExt

CONSTANTS
    NodeIds,        \* node ids other than the table's own
    Addrs,          \* node addresses
    Senders,        \* the pairs of id and address that messages carry
    BucketOf,       \* BucketOf[id]: bucketid(root, id)
    Buckets,        \* the buckets that have ids, in the order of the table
    K,              \* capacity of a bucket
    Dubious,        \* dubiousTimeout
    Bad,            \* badTimeout
    MaxTableTime    \* bound: the clock

ASSUME RoutingTableAssumption ==
    /\ Buckets \subseteq Nat
    /\ BucketOf \in [NodeIds -> Buckets]
    /\ Senders \subseteq NodeIds \X Addrs
    /\ K \in Nat \ {0}
    /\ Dubious \in Nat /\ Bad \in Nat /\ Dubious < Bad
    /\ MaxTableTime \in Nat

VARIABLES
    bkts,       \* bkts[b]: slice of ids, the node objects, LastChanged
    storage,    \* storage[b]: the nodes of b that were last dumped, in order
    tableNow,   \* time.Now()
    hears       \* whether messages of other nodes still arrive

tableVars == <<bkts, storage, tableNow, hears>>

EmptyBucket == [nodes |-> <<>>, info |-> <<>>, changed |-> 0]

Members(bkt) == Range(bkt.nodes)

Age(bkt, id, t) == t - bkt.info[id].changed

\* A mistake: a dubious node gives way.
IsBadEarly(bkt, id, t) == Age(bkt, id, t) > Dubious

IsBad(bkt, id, t) == Age(bkt, id, t) > Bad

\* The objects that the slice still points to.
Live(info, nodes) == Restrict(info, DOMAIN info \cap Range(nodes))

\* copy(b.Nodes[i:], b.Nodes[i+1:]): the last entry stays where it was.
ShiftLeft(nodes, i) ==
    [j \in DOMAIN nodes |->
        IF j >= i /\ j < Len(nodes) THEN nodes[j + 1] ELSE nodes[j]]

WithNode(bkt, nodes, id, addr, t) ==
    LET info == [n \in DOMAIN bkt.info \cup {id} |->
                    IF n = id THEN [addr |-> addr, changed |-> t] ELSE bkt.info[n]]
    IN  [nodes |-> Append(nodes, id), info |-> Live(info, Append(nodes, id)),
         changed |-> t]

Touched(bkt, id, t) ==
    [bkt EXCEPT !.info[id].changed = t, !.changed = t]

\* A mistake: an entry with another address is overwritten in place.
BucketAddNodeMoved(bkt, id, addr, t) ==
    IF id \in Members(bkt)
    THEN [status |-> "ExistAndUpdated",
          bkt |-> [bkt EXCEPT !.info[id] = [addr |-> addr, changed |-> t], !.changed = t]]
    ELSE IF Len(bkt.nodes) < K
    THEN [status |-> "Added", bkt |-> WithNode(bkt, bkt.nodes, id, addr, t)]
    ELSE [status |-> "NotAdded", bkt |-> bkt]

\* bucket.AddNode at time t.
BucketAddNode(bkt, id, addr, t) ==
    LET bad == SelectInSeq(bkt.nodes, LAMBDA n : IsBad(bkt, n, t))
    IN  CASE id \in Members(bkt) /\ bkt.info[id].addr = addr ->
                [status |-> "ExistAndUpdated", bkt |-> Touched(bkt, id, t)]
          [] id \in Members(bkt) /\ bkt.info[id].addr # addr ->
                [status |-> "ExistAndChanged", bkt |-> bkt]
          [] id \notin Members(bkt) /\ Len(bkt.nodes) < K ->
                [status |-> "Added", bkt |-> WithNode(bkt, bkt.nodes, id, addr, t)]
          [] id \notin Members(bkt) /\ Len(bkt.nodes) >= K /\ bad # 0 ->
                [status |-> "Added",
                 bkt |-> WithNode(bkt, ShiftLeft(bkt.nodes, bad), id, addr, t)]
          [] OTHER ->
                [status |-> "NotAdded", bkt |-> bkt]

\* The early return of CheckAllNodes.
SkipsCheck(bkt, t) == Len(bkt.nodes) = 0 \/ t - bkt.changed < Dubious

\* A mistake: the pass stops at the panic before anything is removed.
DeleteIndexesNone(nodes, indexes) ==
    [nodes |-> IF Len(indexes) = 1 THEN RemoveAt(nodes, indexes[1]) ELSE nodes,
     panic |-> Len(indexes) > 1]

\* delNodeByIndex for each index in turn; an index beyond the slice panics.
DeleteIndexes(nodes, indexes) ==
    FoldLeft(LAMBDA acc, i :
                IF acc.panic \/ i > Len(acc.nodes) THEN [acc EXCEPT !.panic = TRUE]
                ELSE [acc EXCEPT !.nodes = RemoveAt(acc.nodes, i)],
             [nodes |-> nodes, panic |-> FALSE], indexes)

\* bucket.CheckAllNodes at time t: the new bucket and whether it panicked.  The
\* ping sent to a dubious node changes nothing here; its answer is an AddNode.
CheckAllNodes(bkt, t) ==
    IF SkipsCheck(bkt, t)
    THEN [bkt |-> bkt, panic |-> FALSE]
    ELSE LET indexes == SelectSeq([i \in DOMAIN bkt.nodes |-> i],
                                  LAMBDA i : IsBad(bkt, bkt.nodes[i], t))
             del     == DeleteIndexes(bkt.nodes, indexes)
         IN  [bkt |-> [bkt EXCEPT !.nodes = del.nodes, !.info = Live(bkt.info, del.nodes)],
              panic |-> del.panic]

\* checkAllBuckets: a panic ends the pass, the buckets after it are not checked.
CheckAllBuckets(table, t) ==
    LET ends == {b \in Buckets : CheckAllNodes(table[b], t).panic}
    IN  [b \in Buckets |->
            IF \E e \in ends : e < b THEN table[b] ELSE CheckAllNodes(table[b], t).bkt]

\* What dump hands to the storage.
StoredNodes(bkt) ==
    [i \in DOMAIN bkt.nodes |->
        [id |-> bkt.nodes[i], addr |-> bkt.info[bkt.nodes[i]].addr,
         changed |-> bkt.info[bkt.nodes[i]].changed]]

\* A mistake: every stored node is taken for new.
LoadBucketFresh(nodes, t) ==
    FoldLeft(LAMBDA bkt, n : WithNode(bkt, bkt.nodes, n.id, n.addr, n.changed),
             EmptyBucket, nodes)

\* newRoutingTable: the stored nodes that are not yet dubious are added, each at
\* the time it was last heard of.
LoadBucket(nodes, t) ==
    FoldLeft(LAMBDA bkt, n : BucketAddNode(bkt, n.id, n.addr, n.changed).bkt,
             EmptyBucket,
             SelectSeq(nodes, LAMBDA n : t - n.changed < Dubious))

-----------------------------------------------------------------------------

TableInit ==
    /\ bkts = [b \in Buckets |-> EmptyBucket]
    /\ storage = [b \in Buckets |-> <<>>]
    /\ tableNow = 0
    /\ hears = TRUE

\* A mistake: the bucket's number is off by one.
AddNodeNextBucket(id, addr) ==
    LET b == CHOOSE b \in Buckets : b = BucketOf[id] + 1 \/ BucketOf[id] + 1 \notin Buckets
    IN  /\ bkts' = [bkts EXCEPT ![b] = BucketAddNode(bkts[b], id, addr, tableNow).bkt]
        /\ UNCHANGED <<storage, tableNow, hears>>

AddNode(id, addr) ==
    LET r == BucketAddNode(bkts[BucketOf[id]], id, addr, tableNow)
    IN  /\ hears
        /\ bkts' = [bkts EXCEPT ![BucketOf[id]] = r.bkt]
        /\ UNCHANGED <<storage, tableNow, hears>>

CheckTable ==
    /\ bkts' = CheckAllBuckets(bkts, tableNow)
    /\ UNCHANGED <<storage, tableNow, hears>>

\* An empty table is not dumped.
Dump ==
    /\ \E b \in Buckets : bkts[b].nodes # <<>>
    /\ storage' = [b \in Buckets |-> StoredNodes(bkts[b])]
    /\ UNCHANGED <<bkts, tableNow, hears>>

\* The process ends, with or without a last dump, and starts again.
Restart ==
    /\ bkts' = [b \in Buckets |-> LoadBucket(storage[b], tableNow)]
    /\ UNCHANGED <<storage, tableNow, hears>>

\* The network is gone.
Silence ==
    /\ hears' = FALSE
    /\ UNCHANGED <<bkts, storage, tableNow>>

TableTick ==
    /\ tableNow < MaxTableTime
    /\ tableNow' = tableNow + 1
    /\ UNCHANGED <<bkts, storage, hears>>

TableNext ==
    \/ \E s \in Senders : AddNode(s[1], s[2])
    \/ CheckTable
    \/ Dump
    \/ Restart
    \/ Silence
    \/ TableTick

TableSpec == TableInit /\ [][TableNext]_tableVars

-----------------------------------------------------------------------------
(***************************************************************************)
(* Properties.                                                             *)
(***************************************************************************)

\* Each bucket holds ids of its own, each with an address and a time that is
\* not in the future.
TableTypeOK ==
    /\ tableNow \in 0..MaxTableTime
    /\ \A b \in Buckets :
        /\ bkts[b].nodes \in Seq({id \in NodeIds : BucketOf[id] = b})
        /\ DOMAIN bkts[b].info = Members(bkts[b])
        /\ \A id \in Members(bkts[b]) :
            bkts[b].info[id] \in [addr : Addrs, changed : 0..tableNow]

AddSteps == \E s \in Senders : AddNode(s[1], s[2])

\* Every member of a bucket that goes is bad.
OnlyBadLeave ==
    \A b \in Buckets : \A id \in Members(bkts[b]) :
        id \in Members(bkts'[b]) \/ tableNow - bkts[b].info[id].changed > Bad

\* AddNode forgets a node only when it has not been heard of for badTimeout,
\* however often nodes are added, checked and loaded.
OnlyBadNodesGiveWay == [][bkts' # bkts /\ AddSteps => OnlyBadLeave]_tableVars

\* A node keeps its address until it is removed: a message that names a known id
\* and another address is discarded.
AddressesStay ==
    [][\A b \in Buckets : \A id \in Members(bkts[b]) \cap Members(bkts'[b]) :
            bkts'[b].info[id].addr = bkts[b].info[id].addr \/ Restart]_tableVars

\* No bucket holds more than k nodes, and none twice.
Sound(bkt) == Len(bkt.nodes) <= K /\ IsInjective(bkt.nodes)

\* A start from the storage gives sound buckets of good nodes, whatever state
\* was dumped.
RestartIsSound ==
    [][bkts' # bkts /\ Restart =>
        \A b \in Buckets :
            /\ Sound(bkts'[b])
            /\ \A id \in Members(bkts'[b]) : Age(bkts'[b], id, tableNow) < Dubious]_tableVars

\* Once no node is heard of any more, every bucket that is quiet for
\* dubiousTimeout loses its bad nodes, although a pass of the check may end in
\* a panic and skip the buckets that follow.
BadNodesLeave ==
    ~hears ~> \A b \in Buckets : \A id \in Members(bkts[b]) :
                IsBad(bkts[b], id, tableNow) => tableNow - bkts[b].changed < Dubious

\* "The bucket is full and remove the bad node": the bucket stays sound.  The
\* shift leaves the last node in place twice, so the bucket grows.
BucketsSound == \A b \in Buckets : Sound(bkts[b])

=============================================================================
