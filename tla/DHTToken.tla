------------------------------ MODULE DHTToken ------------------------------
(***************************************************************************)
(* The tokens of get_peers and announce_peer between one DHT node, whose   *)
(* token manager is dht/token_manager.go, and the nodes that ask it, which *)
(* keep tokens in dht/peer_manager.go.  The handlers are those of          *)
(* dht/dht_server.go.                                                      *)
(*                                                                         *)
(* The token is rotated at every half of the period and the addresses are  *)
(* cleared at every period; the loop runs what is due, in either order,    *)
(* before time goes on.  Messages may be delayed, lost and repeated.       *)
(***************************************************************************)
EXTENDS Naturals

CONSTANTS
    Clients,    \* addresses of the nodes that ask
    Hashes,     \* infohashes
    Server,     \* id of the node that is asked
    Half,       \* expired / 2
    Keep,       \* how long a client keeps a token
    MaxTokenTime     \* bound: the clock

ASSUME DHTTokenAssumption ==
    /\ Half \in Nat \ {0} /\ Keep \in Nat /\ MaxTokenTime \in Nat

VARIABLES
    last, new,  \* the two tokens that are valid
    addrs,      \* addrs[c]: when c was given a token, for the addresses on record
    due,        \* tickers that have fired and were not served yet
    fired,      \* when the ticker of the half period last fired
    odd,        \* whether the ticker of the whole period fires next time
    now,        \* time.Now()
    net,        \* messages, never taken out: lost or repeated at will
    peers,      \* peers[c]: the tokens c holds, by id
    issued,     \* every token that was given out, to whom and when
    outcome     \* of the announcement that was handled last, if any

tokenVars == <<last, new, addrs, due, fired, odd, now, net, peers, issued, outcome>>

\* The clock and its two tickers.
timers == <<due, fired, odd, now>>

TokenInit ==
    /\ last = 0 /\ new = 0
    /\ addrs = [c \in {} |-> 0]
    /\ due = {} /\ fired = 0 /\ odd = FALSE
    /\ now = 0
    /\ net = {}
    /\ peers = [c \in Clients |-> {}]
    /\ issued = {}
    /\ outcome = {}

With(f, c, v) == [x \in DOMAIN f \cup {c} |-> IF x = c THEN v ELSE f[x]]

Check(c, token) == (last = token \/ new = token) /\ c \in DOMAIN addrs

-----------------------------------------------------------------------------
(***************************************************************************)
(* The node that is asked.                                                 *)
(***************************************************************************)

\* handleGetPeersQuery: Token and the reply that carries it.
HandleGetPeers(c) ==
    /\ addrs' = With(addrs, c, now)
    /\ net' = net \cup {[type |-> "token", client |-> c, token |-> new]}
    /\ issued' = issued \cup {[client |-> c, token |-> new, time |-> now]}
    /\ UNCHANGED <<last, new, timers, peers, outcome>>

\* handleAnnouncePeerQuery.
HandleAnnouncePeer(m) ==
    /\ m \in net /\ m.type = "announce"
    /\ outcome' = {[valid |-> Check(m.client, m.token),
                    accepted |-> ~Check(m.client, m.token)]}
    /\ UNCHANGED <<last, new, addrs, timers, net, peers, issued>>

\* A mistake: the token that was valid is forgotten at once.
UpdateTokenBoth ==
    /\ "update" \in due
    /\ due' = due \ {"update"}
    /\ last' = new + 1 /\ new' = new + 1
    /\ UNCHANGED <<addrs, fired, odd, now, net, peers, issued, outcome>>

\* A mistake: the older token is taken for the newer.
UpdateTokenSwapped ==
    /\ "update" \in due
    /\ due' = due \ {"update"}
    /\ last' = new + 1 /\ new' = new
    /\ UNCHANGED <<addrs, fired, odd, now, net, peers, issued, outcome>>

UpdateToken ==
    /\ "update" \in due
    /\ due' = due \ {"update"}
    /\ last' = new /\ new' = new + 1
    /\ UNCHANGED <<addrs, fired, odd, now, net, peers, issued, outcome>>

ClearAddrs ==
    /\ "clear" \in due
    /\ due' = due \ {"clear"}
    /\ addrs' = [c \in {c \in DOMAIN addrs : now - addrs[c] < 2 * Half} |-> addrs[c]]
    /\ UNCHANGED <<last, new, fired, odd, now, net, peers, issued, outcome>>

\* A mistake: the token is rotated once in a period.
FiresSlow == IF odd THEN {"update", "clear"} ELSE {}

Fires == IF odd THEN {"update", "clear"} ELSE {"update"}

TokenTick ==
    /\ now < MaxTokenTime /\ due = {}
    /\ now' = now + 1
    /\ IF now' = fired + Half
       THEN due' = Fires /\ fired' = now' /\ odd' = ~odd
       ELSE UNCHANGED <<due, fired, odd>>
    /\ UNCHANGED <<last, new, addrs, net, peers, issued, outcome>>

-----------------------------------------------------------------------------
(***************************************************************************)
(* The nodes that ask.                                                     *)
(***************************************************************************)

\* storeTokenIfPresent: the token is kept under the id of the node.
StoreToken(m) ==
    /\ m \in net /\ m.type = "token"
    /\ peers' = [peers EXCEPT ![m.client] =
                    {[id |-> Server, token |-> m.token, time |-> now]}]
    /\ UNCHANGED <<last, new, addrs, timers, net, issued, outcome>>

\* AnnouncePeer: the token is looked up under the infohash.
AnnouncePeer(c, h) ==
    /\ net' = net \cup {[type |-> "announce", client |-> c, token |-> p.token] :
                            p \in {p \in peers[c] : p.id = h}}
    /\ UNCHANGED <<last, new, addrs, timers, peers, issued, outcome>>

\* cleanupExpiredPeers.
CleanupExpiredPeers(c) ==
    /\ peers' = [peers EXCEPT ![c] = {p \in @ : now - p.time <= Keep}]
    /\ UNCHANGED <<last, new, addrs, timers, net, issued, outcome>>

\* A node that runs another implementation announces with any token it was given.
ForeignAnnounce(m) ==
    /\ m \in net /\ m.type = "token"
    /\ net' = net \cup {[m EXCEPT !.type = "announce"]}
    /\ UNCHANGED <<last, new, addrs, timers, peers, issued, outcome>>

-----------------------------------------------------------------------------

TokenNext ==
    \/ TokenTick \/ UpdateToken \/ ClearAddrs
    \/ \E c \in Clients :
        \/ HandleGetPeers(c) \/ CleanupExpiredPeers(c)
        \/ \E h \in Hashes : AnnouncePeer(c, h)
    \/ \E m \in net : HandleAnnouncePeer(m) \/ StoreToken(m) \/ ForeignAnnounce(m)

TokenSpec == TokenInit /\ [][TokenNext]_tokenVars

-----------------------------------------------------------------------------
(***************************************************************************)
(* Properties.                                                             *)
(***************************************************************************)

\* Tokens on record, in messages and with clients are tokens that were made.
TokenTypeOK ==
    /\ new \in Nat /\ last \in 0..new
    /\ now \in 0..MaxTokenTime /\ fired \in 0..now /\ odd \in BOOLEAN
    /\ due \subseteq {"update", "clear"}
    /\ DOMAIN addrs \subseteq Clients
    /\ \A c \in DOMAIN addrs : addrs[c] \in 0..now
    /\ net \subseteq [type : {"token", "announce"}, client : Clients, token : 0..new]
    /\ peers \in [Clients -> SUBSET [id : {Server}, token : 0..new, time : 0..now]]
    /\ issued \subseteq [client : Clients, token : 0..new, time : 0..now]

\* A token is good for half of the period from the time it is given out, wherever
\* in the period that was and in whichever order the tickers are served.
TokenLives == \A i \in issued : now - i.time < Half => Check(i.client, i.token)

\* A token is refused when a whole period has gone by since it was given out and
\* the tickers are served, even if the client has been given others since.
TokenDies == \A i \in issued :
    (now - i.time >= 2 * Half /\ due = {}) => ~Check(i.client, i.token)

\* "Check checks whether the token associated with the node addr is valid": an
\* announcement with a valid token is accepted.  The handler returns when Check
\* says TRUE.
ValidIsAccepted == \A o \in outcome : o.valid => o.accepted

=============================================================================
