------------------------------ MODULE DHTSearch -----------------------------
(***************************************************************************)
(* The queries a DHT node sends: dht/transaction_manager.go and the        *)
(* request side of dht/dht_server.go.  Ping asks one node, FindNode and    *)
(* GetPeers search: an answer that lists nodes makes more queries.         *)
(*                                                                         *)
(* A query is created, then written to the socket, then entered into the   *)
(* map of transactions; each is a step, because the answer is handled by   *)
(* another goroutine.  Popping a transaction is atomic (tm.lock), and what *)
(* OnResponse does after it touches only the routing table, whose AddNode  *)
(* is atomic, and queries of its own.  Time is abstracted: the clean-up    *)
(* may find any transaction expired.                                       *)
(*                                                                         *)
(* An answer that is lost, comes from a blacklisted address or from an id  *)
(* that is known under another address is one that never arrives.  Answers *)
(* to a query that is over, and queries of other nodes, only add the       *)
(* sender to the table: Heard.                                             *)
(***************************************************************************)
EXTENDS Naturals, FiniteSets, FiniteSetsExt, SequencesExt

CONSTANTS
    Contacts,       \* the other nodes
    Target,         \* the node that a search for nodes is after, or none
    Programs,       \* which of "ping", "find_node", "get_peers" are called, by program
    Start,          \* the nodes in the routing table at first
    Listings,       \* the sets of nodes that answers list
    FirstAsked,     \* ServerConfig.K
    SearchDepth,    \* ServerConfig.SearchDepth
    Refuses,        \* whether the table may refuse a node (full bucket, read-only)
    MaxQueries      \* bound: queries in a behaviour

ASSUME DHTSearchAssumption ==
    /\ IsFiniteSet(Contacts) /\ Start \subseteq Contacts
    /\ Listings \subseteq SUBSET Contacts
    /\ Programs \subseteq SUBSET {"ping", "find_node", "get_peers"}
    /\ FirstAsked \in Nat \ {0} /\ SearchDepth \in Nat \ {0}
    /\ Refuses \in BOOLEAN
    /\ MaxQueries \in Nat

VARIABLES
    known,      \* ids in the routing table
    queries,    \* every query so far, in the order of its transaction id
    todo,       \* calls not yet made
    closed,     \* tm.exit is closed
    answered    \* queries whose answer was handled before they expired

searchVars == <<known, queries, todo, closed, answered>>

Query(kind, node, depth, visited, hops) ==
    [kind |-> kind, node |-> node, depth |-> depth, visited |-> visited,
     stage |-> "created", calls |-> <<>>, hops |-> hops]

\* The handler of the transaction has run, with t.Done in it, and the transaction
\* is gone.
Done(q, result) ==
    [queries EXCEPT ![q].stage = "over", ![q].calls = Append(@, result)]

Ask(qs, more) == qs \o SetToSeq(more)

Fits(more) == Len(queries) + Cardinality(more) <= MaxQueries

SearchInit ==
    /\ known = Start
    /\ queries = <<>>
    /\ todo \in Programs
    /\ closed = FALSE
    /\ answered = {}

-----------------------------------------------------------------------------
(***************************************************************************)
(* The calls.                                                              *)
(***************************************************************************)

Ping(n) ==
    /\ "ping" \in todo /\ Fits({n})
    /\ todo' = todo \ {"ping"}
    /\ queries' = Ask(queries, {Query("ping", n, 0, {}, 0)})
    /\ UNCHANGED <<known, closed, answered>>

\* findNode does not use its argument depth: t.Depth stays 0.
FindNode(n) ==
    /\ "find_node" \in todo /\ Fits({n})
    /\ todo' = todo \ {"find_node"}
    /\ queries' = Ask(queries, {Query("find_node", n, 0, {}, 0)})
    /\ UNCHANGED <<known, closed, answered>>

\* A mistake: the first hop is not counted.
GetPeersDeeper ==
    /\ "get_peers" \in todo
    /\ todo' = todo \ {"get_peers"}
    /\ queries' = Ask(queries, {Query("get_peers", n, SearchDepth + 1, known, 0) : n \in known})
    /\ UNCHANGED <<known, closed, answered>>

\* The FirstAsked closest nodes of the table are asked; which those are is left open.
GetPeers ==
    /\ "get_peers" \in todo
    /\ todo' = todo \ {"get_peers"}
    /\ \E ask \in SUBSET known :
        /\ Cardinality(ask) = IF Cardinality(known) < FirstAsked THEN Cardinality(known) ELSE FirstAsked
        /\ Fits(ask)
        /\ queries' = Ask(queries, {Query("get_peers", n, SearchDepth, ask, 0) : n \in ask})
    /\ UNCHANGED <<known, closed, answered>>

-----------------------------------------------------------------------------
(***************************************************************************)
(* request.                                                                *)
(***************************************************************************)

Send(q) ==
    /\ queries[q].stage = "created"
    /\ queries' = [queries EXCEPT ![q].stage = "sent"]
    /\ UNCHANGED <<known, todo, closed, answered>>

\* The write fails: the error is returned or logged, the callback is not called.
SendFails(q) ==
    /\ queries[q].stage = "created"
    /\ queries' = [queries EXCEPT ![q].stage = "failed"]
    /\ UNCHANGED <<known, todo, closed, answered>>

AddTransaction(q) ==
    /\ queries[q].stage = "sent"
    /\ queries' = [queries EXCEPT ![q].stage = "registered"]
    /\ UNCHANGED <<known, todo, closed, answered>>

-----------------------------------------------------------------------------
(***************************************************************************)
(* Answers.  PopTransaction finds a query only once it is registered.      *)
(***************************************************************************)

\* A mistake: the transaction is found whether or not it is over.
PopsOver(q) == queries[q].stage \in {"registered", "over"}

Pops(q) == queries[q].stage = "registered"

\* A mistake: the last hop asks once more.
ShouldContinueOnceMore(q) == queries[q].depth >= 1

ShouldContinueSearch(q) == queries[q].depth - 1 >= 1

\* A mistake: any node that was not visited on this path is asked.
TakenAny(q, nodes, refused) == nodes \ queries[q].visited

\* The nodes of an answer that the search asks next: processNodeList keeps
\* those that the path has not visited and that are new to the table.
Taken(q, nodes, refused) ==
    nodes \ (queries[q].visited \cup known \cup {queries[q].node} \cup refused)

\* The sender is new, or its entry is refreshed, or it is refused.
SenderAdded(n) == \/ known' = known \cup {n}
                  \/ Refuses /\ known' = known

\* The answer comes before the transaction is in the map, or after it left it.
ResponseIgnored(q) ==
    /\ queries[q].stage = "sent"
    /\ SenderAdded(queries[q].node)
    /\ answered' = answered \cup {q}
    /\ UNCHANGED <<queries, todo, closed>>

\* onPingResp, and onGetPeersResp for an answer with peers.
Response(q) ==
    /\ Pops(q)
    /\ queries[q].kind # "find_node"
    /\ SenderAdded(queries[q].node)
    /\ answered' = answered \cup {q}
    /\ queries' = Done(q, IF queries[q].kind = "ping" THEN "response" ELSE "peers")
    /\ UNCHANGED <<todo, closed>>

\* onGetPeersResp and onFindNodeResp for an answer with nodes.
NodesResponse(q, nodes) ==
    /\ Pops(q)
    /\ queries[q].kind \in {"find_node", "get_peers"}
    /\ answered' = answered \cup {q}
    /\ \E refused \in (IF Refuses THEN SUBSET (nodes \cup {queries[q].node}) ELSE {{}}) :
        LET t     == queries[q]
            taken == IF ShouldContinueSearch(q) THEN Taken(q, nodes, refused) ELSE {}
            next  == IF Target \in nodes THEN {}
                     ELSE {Query(t.kind, n, IF t.kind = "get_peers" THEN t.depth - 1 ELSE 0,
                                 t.visited \cup taken, t.hops + 1) : n \in taken}
        IN  /\ Fits(next)
            /\ queries' = Ask(Done(q, "response"), next)
            /\ known' = known \cup ({t.node} \ refused) \cup taken
    /\ UNCHANGED <<todo, closed>>

ErrorResponse(q) ==
    /\ Pops(q)
    /\ answered' = answered \cup {q}
    /\ queries' = Done(q, "error")
    /\ UNCHANGED <<known, todo, closed>>

\* handleQueryMessage and late answers.
Heard(n) ==
    /\ n \notin known
    /\ known' = known \cup {n}
    /\ UNCHANGED <<queries, todo, closed, answered>>

-----------------------------------------------------------------------------
(***************************************************************************)
(* The clean-up, and Close.                                                *)
(***************************************************************************)

\* A mistake: the transaction is deleted, its handler is not called.
TimeoutSilent(q) ==
    /\ ~closed
    /\ queries[q].stage = "registered"
    /\ queries' = [queries EXCEPT ![q].stage = "over"]
    /\ UNCHANGED <<known, todo, closed, answered>>

Timeout(q) ==
    /\ ~closed
    /\ queries[q].stage = "registered"
    /\ queries' = Done(q, "timeout")
    /\ UNCHANGED <<known, todo, closed, answered>>

Close ==
    /\ ~closed
    /\ closed' = TRUE
    /\ UNCHANGED <<known, queries, todo, answered>>

-----------------------------------------------------------------------------

Caller == GetPeers \/ (\E n \in Contacts : Ping(n) \/ FindNode(n)) \/ Close

Network ==
    \/ \E q \in DOMAIN queries :
        \/ ResponseIgnored(q) \/ Response(q) \/ ErrorResponse(q)
        \/ \E nodes \in Listings : NodesResponse(q, nodes)
    \/ \E n \in Contacts : Heard(n)

Request(q) == q \in DOMAIN queries /\ (Send(q) \/ SendFails(q) \/ AddTransaction(q))

CleanUp(q) == q \in DOMAIN queries /\ Timeout(q)

SearchNext ==
    \/ Caller
    \/ Network
    \/ \E q \in DOMAIN queries : Request(q) \/ CleanUp(q)

SearchSpec == SearchInit /\ [][SearchNext]_searchVars

-----------------------------------------------------------------------------
(***************************************************************************)
(* Properties.                                                             *)
(***************************************************************************)

Stages == {"created", "sent", "registered", "over", "failed"}

\* Queries go to nodes, at a depth within the limit, and a path never visits
\* more than there is.
SearchTypeOK ==
    /\ known \subseteq Contacts
    /\ answered \subseteq DOMAIN queries
    /\ \A q \in DOMAIN queries :
        /\ queries[q].node \in Contacts /\ queries[q].visited \subseteq Contacts
        /\ queries[q].stage \in Stages
        /\ queries[q].depth \in 0..SearchDepth

\* The handler of a query runs, and its callback is called, at most once,
\* whatever races: an answer that comes twice, an error after an answer, a
\* timeout against a late answer.
CallbackOnce == \A q \in DOMAIN queries : Len(queries[q].calls) <= 1

Asking(n) == {q \in DOMAIN queries : queries[q].kind = "get_peers" /\ queries[q].node = n}

\* One search asks no node twice, however the nodes refer to each other.
AskedOnce == \A n \in Contacts : Cardinality(Asking(n)) <= 1

\* A search asks no node that is SearchDepth hops from the nodes it began with.
WithinDepth == \A q \in DOMAIN queries : queries[q].hops < SearchDepth

\* Every query that was written to the socket ends: its handler runs for an
\* answer, an error or a timeout, as long as the server is not closed.
EveryQueryEnds ==
    \A q \in 1..MaxQueries :
        (q \in DOMAIN queries /\ queries[q].stage = "sent") ~>
            (closed \/ (q \in DOMAIN queries /\ queries[q].calls # <<>>))

\* "the callback function cb will be called when the response or error is
\* returned, or it's timeout": a query that was answered does not time out.
\* An answer that is handled before AddTransaction is dropped.
AnsweredNotTimedOut ==
    \A q \in answered : queries[q].calls # <<"timeout">>

=============================================================================
