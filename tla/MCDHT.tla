-------------------------------- MODULE MCDHT -------------------------------
(***************************************************************************)
(* Instances of the parts of a DHT node for TLC: RoutingTable, DHTSearch   *)
(* and DHTToken.  The parts share no variable, so a property of one holds  *)
(* of the whole node if and only if it holds when the others stand still.  *)
(* "part" is the part that moves: TLC checks the sum of the state spaces   *)
(* and not their product.                                                  *)
(***************************************************************************)
EXTENDS RoutingTable, DHTSearch, DHTToken

CONSTANTS n1, n2, n3, n4, a1, a2, Parts

VARIABLE part

dhtVars == <<part, tableVars, searchVars, tokenVars>>

Init == part \in Parts /\ TableInit /\ SearchInit /\ TokenInit

Next ==
    /\ UNCHANGED part
    /\ \/ part = "table" /\ TableNext /\ UNCHANGED <<searchVars, tokenVars>>
       \/ part = "search" /\ SearchNext /\ UNCHANGED <<tableVars, tokenVars>>
       \/ part = "token" /\ TokenNext /\ UNCHANGED <<tableVars, searchVars>>

Spec == Init /\ [][Next]_dhtVars

\* The loop of the routing table checks it at every tick of its ticker.  A
\* goroutine that sends goes on, and so does the clean-up of the transactions;
\* no node has to answer and nobody has to call.
FairSpec ==
    /\ Spec
    /\ WF_tableVars(part = "table" /\ CheckTable)
    /\ \A q \in 1..MaxQueries :
        /\ WF_searchVars(part = "search" /\ q \in DOMAIN queries /\ Request(q))
        /\ WF_searchVars(part = "search" /\ q \in DOMAIN queries /\ CleanUp(q))

\* Nodes n1, n2 and n3 share a bucket, n4 has the next; n1 is heard of under two
\* addresses.
SomeBuckets == [id \in NodeIds |-> IF id = n4 THEN 1 ELSE 0]

SomeSenders == NodeIds \X {a1} \cup {<<n1, a2>>}

=============================================================================
