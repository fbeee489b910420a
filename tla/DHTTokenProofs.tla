--------------------------- MODULE DHTTokenProofs ---------------------------
(***************************************************************************)
(* Proofs about DHTToken, for every number of clients and every period: a  *)
(* token is accepted for half of the period from the time it is given out  *)
(* and is refused after a whole one.                                       *)
(*                                                                         *)
(* Neither is inductive: that a token which left "last" is old enough      *)
(* depends on when the token in "new" and the one in "last" were given     *)
(* out, relative to the last time the ticker fired, and on whether the     *)
(* rotation it asked for has been done.  Window says that.                 *)
(***************************************************************************)
EXTENDS DHTToken, TLAPS

Pending == "update" \in due

\* The ticker fires in time, and what is due is served before time goes on.
Clock == now < fired + Half /\ (due # {} => now = fired)

\* When the holders of the newest, the one before and of older tokens got them.
NewWindow(i) ==
    i.token = new => IF Pending THEN fired <= i.time + Half ELSE fired <= i.time

LastWindow(i) ==
    i.token = last /\ last < new =>
        IF Pending THEN fired <= i.time + 2 * Half /\ i.time + Half <= fired
        ELSE fired <= i.time + Half /\ i.time <= fired

OldWindow(i) ==
    i.token < last => IF Pending THEN i.time + 2 * Half <= fired ELSE i.time + Half <= fired

\* An address is on record from its last token on, for a period at least.
OnRecord(i) ==
    now < i.time + 2 * Half => i.client \in DOMAIN addrs /\ i.time <= addrs[i.client]

Window ==
    /\ Clock
    /\ new <= last + 1
    /\ \A i \in issued : NewWindow(i) /\ LastWindow(i) /\ OldWindow(i) /\ OnRecord(i)

IInv == TokenTypeOK /\ Window

-----------------------------------------------------------------------------

\* At first no token has been given out, so every window is empty.
LEMMA InitIInv == TokenInit => IInv
<1> SUFFICES ASSUME TokenInit PROVE IInv
    OBVIOUS
<1> USE DHTTokenAssumption DEF TokenInit
<1>1. TokenTypeOK
    <2>1. peers \in [Clients -> SUBSET [id : {Server}, token : 0..new, time : 0..now]]
        BY Zenon
    <2>2. DOMAIN addrs = {}
        OBVIOUS
    <2>3. new \in Nat /\ last \in 0..new /\ now \in 0..MaxTokenTime /\ fired \in 0..now
        OBVIOUS
    <2> QED
        BY <2>1, <2>2, <2>3 DEF TokenTypeOK
<1>2. Window
    BY DEF Window, Clock
<1> QED
    BY <1>1, <1>2 DEF IInv

\* A reply with a token: it is new, its holder is on record from now on.
LEMMA HandleGetPeersIInv ==
    ASSUME IInv, NEW c \in Clients, HandleGetPeers(c)
    PROVE  IInv'
<1> USE DHTTokenAssumption DEF IInv, HandleGetPeers, timers
<1> DEFINE i0 == [client |-> c, token |-> new, time |-> now]
<1>1. /\ DOMAIN addrs' = DOMAIN addrs \cup {c} /\ addrs'[c] = now
      /\ \A x \in DOMAIN addrs : x # c => addrs'[x] = addrs[x]
    BY DEF With
<1>2. TokenTypeOK'
    <2>1. \A x \in DOMAIN addrs' : addrs'[x] \in 0..now
        BY <1>1 DEF TokenTypeOK
    <2> QED
        BY <1>1, <2>1 DEF TokenTypeOK
<1>3. issued' = issued \cup {i0}
    OBVIOUS
<1>4. (NewWindow(i0) /\ LastWindow(i0) /\ OldWindow(i0) /\ OnRecord(i0))'
    BY <1>1 DEF NewWindow, LastWindow, OldWindow, OnRecord, Pending, TokenTypeOK, Window, Clock
<1>5. ASSUME NEW i \in issued
      PROVE  (NewWindow(i) /\ LastWindow(i) /\ OldWindow(i) /\ OnRecord(i))'
    <2>1. NewWindow(i) /\ LastWindow(i) /\ OldWindow(i) /\ OnRecord(i)
        BY DEF Window
    <2>2. i.time \in Nat /\ i.time <= now
        BY DEF TokenTypeOK
    <2>3. (NewWindow(i) /\ LastWindow(i) /\ OldWindow(i))'
        BY <2>1 DEF NewWindow, LastWindow, OldWindow, Pending
    <2>4. OnRecord(i)'
        BY <1>1, <2>1, <2>2 DEF OnRecord
    <2> QED
        BY <2>3, <2>4
<1>6. Window'
    BY <1>3, <1>4, <1>5 DEF Window, Clock
<1> QED
    BY <1>2, <1>6

\* The rotation: the holders of the newest token move to the one before.
LEMMA UpdateTokenIInv ==
    ASSUME IInv, UpdateToken
    PROVE  IInv'
<1> USE DHTTokenAssumption DEF IInv, UpdateToken
<1>1. TokenTypeOK'
    BY DEF TokenTypeOK
<1>2. Pending /\ ~Pending' /\ now = fired
    BY DEF Pending, Window, Clock
<1>3. ASSUME NEW i \in issued
      PROVE  (NewWindow(i) /\ LastWindow(i) /\ OldWindow(i) /\ OnRecord(i))'
    <2>1. NewWindow(i) /\ LastWindow(i) /\ OldWindow(i) /\ OnRecord(i)
        BY DEF Window
    <2>2. /\ i.time \in Nat /\ i.time <= now /\ i.token \in 0..new
          /\ now \in Nat /\ fired \in Nat /\ new \in Nat /\ last \in Nat /\ Half \in Nat
          /\ last <= new /\ new <= last + 1
        BY DEF TokenTypeOK, Window
    <2>3. NewWindow(i)'
        BY <1>2, <2>2 DEF NewWindow
    <2>4. LastWindow(i)'
        BY <1>2, <2>1, <2>2 DEF LastWindow, NewWindow
    <2>5. OldWindow(i)'
        BY <1>2, <2>1, <2>2 DEF LastWindow, OldWindow
    <2>6. OnRecord(i)'
        BY <2>1 DEF OnRecord
    <2> QED
        BY <2>3, <2>4, <2>5, <2>6
<1>4. Window'
    BY <1>2, <1>3 DEF Window, Clock, TokenTypeOK
<1> QED
    BY <1>1, <1>4

\* The clearing: an address goes a period after its last token.
LEMMA ClearIInv ==
    ASSUME IInv, ClearAddrs
    PROVE  IInv'
<1> USE DHTTokenAssumption DEF IInv, ClearAddrs
<1>1. TokenTypeOK'
    BY DEF TokenTypeOK
<1>2. Pending' = Pending
    BY DEF Pending
<1>3. ASSUME NEW i \in issued
      PROVE  (NewWindow(i) /\ LastWindow(i) /\ OldWindow(i) /\ OnRecord(i))'
    <2>1. NewWindow(i) /\ LastWindow(i) /\ OldWindow(i) /\ OnRecord(i)
        BY DEF Window
    <2>2. i.time \in Nat /\ now \in Nat /\ Half \in Nat
        BY DEF TokenTypeOK
    <2>3. (NewWindow(i) /\ LastWindow(i) /\ OldWindow(i))'
        BY <1>2, <2>1 DEF NewWindow, LastWindow, OldWindow
    <2>4. OnRecord(i)'
        BY <2>1, <2>2 DEF OnRecord, TokenTypeOK
    <2> QED
        BY <2>3, <2>4
<1>4. Window'
    BY <1>3 DEF Window, Clock
<1> QED
    BY <1>1, <1>4

\* Time goes on: when the ticker fires, every window moves by half of the period.
LEMMA TickIInv ==
    ASSUME IInv, TokenTick
    PROVE  IInv'
<1> USE DHTTokenAssumption DEF IInv, TokenTick
<1>0. /\ now \in Nat /\ fired \in Nat /\ new \in Nat /\ last \in Nat /\ Half \in Nat
      /\ Half > 0 /\ MaxTokenTime \in Nat /\ now' = now + 1 /\ now' <= MaxTokenTime
    BY DEF TokenTypeOK
<1>1. TokenTypeOK'
    <2>1. due' \subseteq {"update", "clear"} /\ odd' \in BOOLEAN
        BY DEF TokenTypeOK, Fires
    <2>2. fired' \in 0..now' /\ now' \in 0..MaxTokenTime /\ 0..now \subseteq 0..now'
        BY <1>0 DEF TokenTypeOK
    <2>3. peers' \in [Clients -> SUBSET [id : {Server}, token : 0..new', time : 0..now']]
        BY <2>2 DEF TokenTypeOK
    <2>4. issued' \subseteq [client : Clients, token : 0..new', time : 0..now']
        BY <2>2 DEF TokenTypeOK
    <2> QED
        BY <2>1, <2>2, <2>3, <2>4 DEF TokenTypeOK
<1>2. ~Pending
    BY DEF Pending
<1>3. ASSUME NEW i \in issued
      PROVE  (NewWindow(i) /\ LastWindow(i) /\ OldWindow(i) /\ OnRecord(i))'
    <2>1. NewWindow(i) /\ LastWindow(i) /\ OldWindow(i) /\ OnRecord(i)
        BY DEF Window
    <2>2. i.time \in Nat /\ i.token \in Nat
        BY DEF TokenTypeOK
    <2>3. CASE now' = fired + Half
        <3>1. Pending' /\ fired' = fired + Half
            BY <2>3 DEF Pending, Fires
        <3> QED
            BY <1>0, <1>2, <2>1, <2>2, <3>1 DEF NewWindow, LastWindow, OldWindow, OnRecord
    <2>4. CASE now' # fired + Half
        <3>1. ~Pending' /\ fired' = fired
            BY <2>4 DEF Pending
        <3> QED
            BY <1>0, <1>2, <2>1, <2>2, <3>1 DEF NewWindow, LastWindow, OldWindow, OnRecord
    <2> QED
        BY <2>3, <2>4
<1>4. Clock'
    BY <1>0 DEF Window, Clock
<1>5. Window'
    BY <1>3, <1>4 DEF Window
<1> QED
    BY <1>1, <1>5

\* The other steps move messages and what clients hold; no window depends on them.
LEMMA OtherIInv ==
    ASSUME IInv, TokenTypeOK', UNCHANGED <<last, new, addrs, timers, issued>>
    PROVE  IInv'
BY DEF IInv, Window, Clock, NewWindow, LastWindow, OldWindow, OnRecord, Pending, timers

\* Every step of the node, its loop and its clients keeps the windows.
LEMMA StepIInv == IInv /\ [TokenNext]_tokenVars => IInv'
<1> SUFFICES ASSUME IInv, [TokenNext]_tokenVars PROVE IInv'
    OBVIOUS
<1> USE DHTTokenAssumption
<1>1. CASE TokenTick
    BY <1>1, TickIInv
<1>2. CASE UpdateToken
    BY <1>2, UpdateTokenIInv
<1>3. CASE ClearAddrs
    BY <1>3, ClearIInv
<1>4. CASE \E c \in Clients : HandleGetPeers(c)
    BY <1>4, HandleGetPeersIInv
<1>5. ASSUME NEW c \in Clients, CleanupExpiredPeers(c) PROVE IInv'
    <2>1. TokenTypeOK'
        BY <1>5 DEF IInv, TokenTypeOK, CleanupExpiredPeers, timers
    <2> QED
        BY <1>5, <2>1, OtherIInv DEF CleanupExpiredPeers
<1>6. ASSUME NEW c \in Clients, NEW h \in Hashes, AnnouncePeer(c, h) PROVE IInv'
    <2>1. TokenTypeOK'
        <3>1. net' \subseteq [type : {"token", "announce"}, client : Clients, token : 0..new]
            BY <1>6 DEF IInv, TokenTypeOK, AnnouncePeer
        <3> QED
            BY <1>6, <3>1 DEF IInv, TokenTypeOK, AnnouncePeer, timers
    <2> QED
        BY <1>6, <2>1, OtherIInv DEF AnnouncePeer
<1>7. ASSUME NEW m \in net, HandleAnnouncePeer(m) PROVE IInv'
    <2>1. TokenTypeOK'
        BY <1>7 DEF IInv, TokenTypeOK, HandleAnnouncePeer, timers
    <2> QED
        BY <1>7, <2>1, OtherIInv DEF HandleAnnouncePeer
<1>8. ASSUME NEW m \in net, StoreToken(m) PROVE IInv'
    <2>1. TokenTypeOK'
        BY <1>8 DEF IInv, TokenTypeOK, StoreToken, timers
    <2> QED
        BY <1>8, <2>1, OtherIInv DEF StoreToken
<1>9. ASSUME NEW m \in net, ForeignAnnounce(m) PROVE IInv'
    <2>1. TokenTypeOK'
        BY <1>9 DEF IInv, TokenTypeOK, ForeignAnnounce, timers
    <2> QED
        BY <1>9, <2>1, OtherIInv DEF ForeignAnnounce
<1>10. CASE UNCHANGED tokenVars
    <2>1. TokenTypeOK'
        BY <1>10 DEF tokenVars, IInv, TokenTypeOK
    <2> QED
        BY <1>10, <2>1, OtherIInv DEF tokenVars, timers
<1> QED
    BY <1>1, <1>2, <1>3, <1>4, <1>5, <1>6, <1>7, <1>8, <1>9, <1>10 DEF TokenNext

-----------------------------------------------------------------------------

\* Tokens are rotated, cleared and kept within their types (the token manager
\* and the token-peer manager).
THEOREM TypeCorrect == TokenSpec => []TokenTypeOK
<1>1. IInv => TokenTypeOK
    BY DEF IInv
<1> QED
    BY <1>1, InitIInv, StepIInv, PTL DEF TokenSpec

\* A token from get_peers passes Check for half of the period (5 minutes) from the
\* time it was given out, whatever else the node and its clients do.
THEOREM TokensLive == TokenSpec => []TokenLives
<1>1. ASSUME IInv PROVE TokenLives
    <2> SUFFICES ASSUME NEW i \in issued, now - i.time < Half PROVE Check(i.client, i.token)
        BY DEF TokenLives
    <2>1. OldWindow(i) /\ OnRecord(i) /\ Clock
        BY <1>1 DEF IInv, Window
    <2>2. /\ i.time \in Nat /\ now \in Nat /\ fired \in Nat /\ fired <= now /\ Half \in Nat
          /\ new \in Nat /\ last \in Nat /\ i.token \in 0..new /\ new <= last + 1
        BY <1>1, DHTTokenAssumption DEF IInv, TokenTypeOK, Window
    <2>3. ~(i.token < last)
        BY <2>1, <2>2 DEF OldWindow
    <2>4. i.token = last \/ i.token = new
        BY <2>2, <2>3
    <2>5. i.client \in DOMAIN addrs
        BY <2>1, <2>2 DEF OnRecord
    <2> QED
        BY <2>4, <2>5 DEF Check
<1> QED
    BY <1>1, InitIInv, StepIInv, PTL DEF TokenSpec

\* A token from get_peers fails Check a period (10 minutes) after it was given out,
\* once the tickers are served, even if the client got another one meanwhile.
THEOREM TokensDie == TokenSpec => []TokenDies
<1>1. ASSUME IInv PROVE TokenDies
    <2> SUFFICES ASSUME NEW i \in issued, now - i.time >= 2 * Half, due = {}
                 PROVE  ~(last = i.token \/ new = i.token)
        BY DEF TokenDies, Check
    <2>1. NewWindow(i) /\ LastWindow(i) /\ Clock /\ ~Pending
        BY <1>1 DEF IInv, Window, Pending
    <2>2. /\ i.time \in Nat /\ now \in Nat /\ fired \in Nat /\ Half \in Nat
          /\ new \in Nat /\ last \in Nat /\ last <= new
        BY <1>1, DHTTokenAssumption DEF IInv, TokenTypeOK
    <2>3. new # i.token
        BY <2>1, <2>2 DEF NewWindow, Clock
    <2>4. last # i.token
        BY <2>1, <2>2, <2>3 DEF LastWindow, Clock
    <2> QED
        BY <2>3, <2>4
<1> QED
    BY <1>1, InitIInv, StepIInv, PTL DEF TokenSpec

=============================================================================
