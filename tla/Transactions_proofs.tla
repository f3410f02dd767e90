------------------------ MODULE Transactions_proofs ------------------------
(***************************************************************************)
(* Proofs about Transactions: the election of the clipboard, for any       *)
(* number of devices, copies, sessions and events.                         *)
(***************************************************************************)
EXTENDS Transactions, TLAPS

-----------------------------------------------------------------------------
(* The inductive invariant.                                                 *)

MintedTx == 1..Len(minted)
MintRecord == [producer : {"clip", "pub"}, src : Core, dev : Nat, seq : Nat]

MintedOK == minted \in Seq(MintRecord)

\* T is a record with the table's six fields.
IsTable(T) ==
    T = [current |-> T.current, live |-> T.live, superseded |-> T.superseded,
         cached |-> T.cached, sessions |-> T.sessions, owners |-> T.owners]

\* The current clip is not marked superseded, so no session's end deletes it.
CurrentStands(T) ==
    IsTable(T) /\ T.superseded \subseteq T.live /\ T.current \notin T.superseded

TablesOK == tab = [c \in Core |-> tab[c]] /\ \A c \in Core : CurrentStands(tab[c])

\* Only minted transactions are held, and a clip is held where it was heard.
LiveOK ==
    \A c \in Core : \A t \in tab[c].live : t \in MintedTx /\ (IsClip(t) => t \in heard[c])

HeardOK ==
    /\ heard = [c \in Core |-> heard[c]]
    /\ \A c \in Core : \A t \in heard[c] : t \in MintedTx /\ IsClip(t)

NetOK ==
    /\ net \subseteq [tx : Nat, to : Core, push : BOOLEAN, checked : BOOLEAN]
    /\ \A m \in net : m.tx \in MintedTx /\ IsClip(m.tx)

\* Nobody adopts a clip.
ConnOK ==
    /\ conn \in [Conn -> [st : {"open", "adopting", "closed"}, tx : Nat,
                          reply : {"none", "manifest", "stale"}]]
    /\ \A k \in Conn : conn[k].st = "adopting" =>
         conn[k].tx \in MintedTx /\ ~IsClip(conn[k].tx)

ElectionInv == MintedOK /\ TablesOK /\ LiveOK /\ HeardOK /\ NetOK /\ ConnOK /\ ElectsTheLast

-----------------------------------------------------------------------------
(* What the operations on one table do to its current clip.                 *)

\* U is a table with T's current clip, which still stands where it stood, and
\* holds nothing new.
Spares(T, U) ==
    /\ CurrentStands(U) /\ U.current = T.current
    /\ U.live \subseteq T.live
    /\ T.current \in T.live => U.current \in U.live

\* Removing transactions other than the current clip spares it.
LEMMA RemoveSpares ==
    ASSUME NEW T, CurrentStands(T), NEW S, T.current \notin S
    PROVE  Spares(T, remove(T, S))
BY DEF remove, Spares, CurrentStands, IsTable

\* begin_session only counts.
LEMMA BeginSpares ==
    ASSUME NEW T, CurrentStands(T), NEW t
    PROVE  Spares(T, begin_session(T, t))
BY DEF begin_session, Spares, CurrentStands, IsTable

\* end_session deletes superseded clips only, and the current one is not.
LEMMA EndSpares ==
    ASSUME NEW T, CurrentStands(T), NEW t
    PROVE  Spares(T, end_session(T, t))
<1> DEFINE left == IF T.sessions[t] = 0 THEN 0 ELSE T.sessions[t] - 1
           closed == [T EXCEPT !.sessions[t] = left]
<1>1. CASE t \notin T.live
  BY <1>1 DEF end_session, Spares, CurrentStands, IsTable
<1>2. CASE t \in T.live
  <2>1. CurrentStands(closed) /\ closed.current = T.current /\ closed.live = T.live
    BY DEF CurrentStands, IsTable
  <2>2. CASE t \in T.superseded /\ left = 0
    <3>1. T.current # t
      BY <2>2 DEF CurrentStands
    <3>2. Spares(closed, remove(closed, {t}))
      <4> HIDE DEF closed
      <4> QED BY <2>1, <3>1, RemoveSpares
    <3>3. end_session(T, t) = remove(closed, {t})
      BY <1>2, <2>2 DEF end_session
    <3> HIDE DEF closed
    <3> QED BY <2>1, <3>2, <3>3 DEF Spares
  <2>3. CASE ~(t \in T.superseded /\ left = 0)
    <3>1. end_session(T, t) = closed
      BY <1>2, <2>3 DEF end_session
    <3> HIDE DEF closed
    <3> QED BY <2>1, <3>1 DEF Spares
  <2> QED BY <2>2, <2>3
<1> QED BY <1>1, <1>2

\* A published transaction is never the current clip.
LEMMA EvictSpares ==
    ASSUME NEW T, CurrentStands(T), NEW t, T.current = t => IsClip(t) \/ t \notin T.live
    PROVE  Spares(T, evict_published(T, t))
<1>1. CASE t \in T.live /\ ~IsClip(t)
  BY <1>1, RemoveSpares DEF evict_published
<1>2. CASE ~(t \in T.live /\ ~IsClip(t))
  BY <1>2 DEF evict_published, Spares, CurrentStands
<1> QED BY <1>1, <1>2

\* publish and install_adopted add an entry of their own and leave `current`.
LEMMA InstallSpares ==
    ASSUME NEW T, CurrentStands(T), NEW t, t # T.current \/ T.current \in T.live,
           NEW k, NEW U, U = publish(T, t, k) \/ U = install_adopted(T, t, k)
    PROVE  /\ CurrentStands(U) /\ U.current = T.current
           /\ U.live = T.live \cup {t}
BY DEF publish, install_adopted, CurrentStands, IsTable

\* revoke_owned_by deletes published transactions only.
LEMMA RevokeSpares ==
    ASSUME NEW T, CurrentStands(T), NEW k, T.current \in T.live => IsClip(T.current)
    PROVE  Spares(T, revoke_owned_by(T, k))
<1> DEFINE kept == [T EXCEPT !.owners = [t \in TxId |-> @[t] \ {k}]]
<1>1. CurrentStands(kept) /\ kept.current = T.current /\ kept.live = T.live
  <2>1. \A o : LET W == [T EXCEPT !.owners = o] IN
               CurrentStands(W) /\ W.current = T.current /\ W.live = T.live
    BY DEF CurrentStands, IsTable
  <2> QED BY <2>1
<1>2. T.current \notin OwnedOnlyBy(T, k)
  BY DEF OwnedOnlyBy
<1>3. revoke_owned_by(T, k) = remove(kept, OwnedOnlyBy(T, k))
  BY DEF revoke_owned_by
<1> HIDE DEF kept
<1>4. Spares(kept, remove(kept, OwnedOnlyBy(T, k)))
  BY <1>1, <1>2, RemoveSpares
<1> QED BY <1>1, <1>3, <1>4 DEF Spares

\* supersede_current and the insertion after it: the new clip is current, and
\* nothing else is new.
LEMMA MakeCurrent ==
    ASSUME NEW T, CurrentStands(T), NEW t, t \notin T.live, t # 0, 0 \notin T.live,
           T.current = 0 \/ T.current \in T.live, NEW b
    PROVE  LET U == make_current(T, t, b) IN
           CurrentStands(U) /\ U.current = t /\ t \in U.live /\ U.live \subseteq T.live \cup {t}
<1> DEFINE V == supersede_current(T)
<1>1. IsTable(V) /\ V.superseded \subseteq V.live /\ V.live \subseteq T.live
  <2>1. CASE T.current = 0
    BY <2>1 DEF supersede_current, CurrentStands
  <2>2. CASE T.current # 0
    <3> DEFINE marked == [T EXCEPT !.current = 0, !.superseded = @ \cup {T.current}]
    <3>1. IsTable(marked) /\ marked.superseded \subseteq marked.live /\ marked.live = T.live
      <4> DEFINE s == T.superseded \cup {T.current}
      <4>1. s \subseteq T.live
        BY <2>2 DEF CurrentStands
      <4>2. marked = [T EXCEPT !.current = 0, !.superseded = s]
        OBVIOUS
      <4> HIDE DEF s, marked
      <4> QED BY <4>1, <4>2 DEF CurrentStands, IsTable
    <3>2. V = remove(marked, {T.current}) \/ V = marked
      BY <2>2 DEF supersede_current
    <3> HIDE DEF marked, V
    <3> QED BY <3>1, <3>2 DEF remove, IsTable
  <2> QED BY <2>1, <2>2
<1>2. make_current(T, t, b) =
        [V EXCEPT !.live = @ \cup {t}, !.current = t, !.cached = IF b THEN @ \cup {t} ELSE @]
  BY DEF make_current
<1> HIDE DEF V
<1> QED BY <1>1, <1>2 DEF CurrentStands, IsTable

-----------------------------------------------------------------------------
(* Minting, and the order of the election.                                  *)

\* What was fixed about a transaction stays fixed.
Agrees == \A t \in MintedTx : t \in MintedTx' /\ minted'[t] = minted[t]

\* A producer adds one transaction and changes none.
LEMMA Minting ==
    ASSUME MintedOK, NEW r \in MintRecord, minted' = Append(minted, r)
    PROVE  /\ MintedOK' /\ Agrees
           /\ NextTx \in MintedTx' /\ NextTx \notin MintedTx /\ minted'[NextTx] = r
           /\ NextTx \in Nat \ {0}
BY DEF MintedOK, Agrees, MintedTx, NextTx

\* Nothing minted, nothing changed.
LEMMA NotMinting ==
    ASSUME MintedOK, minted' = minted
    PROVE  MintedOK' /\ Agrees
BY DEF MintedOK, Agrees, MintedTx

\* (seq, device_id) is a total order on the transactions.
LEMMA KeyOrder ==
    ASSUME MintedOK
    PROVE  /\ \A t, u \in MintedTx : KeyLE(t, u) \/ KeyLE(u, t)
           /\ \A t \in MintedTx : KeyLE(t, t)
           /\ \A t, u, v \in MintedTx : KeyLE(t, u) /\ KeyLE(u, v) => KeyLE(t, v)
<1>1. \A t \in MintedTx : minted[t].seq \in Nat /\ minted[t].dev \in Nat
  <2> SUFFICES ASSUME NEW t \in MintedTx
               PROVE  minted[t] \in MintRecord
    BY DEF MintRecord
  <2> QED BY DEF MintedOK, MintedTx
<1> QED BY <1>1 DEF KeyLE

-----------------------------------------------------------------------------
(* The two ways a step treats the election.                                 *)

\* The current clip of a Core, when there is one, is a clip it heard.
LEMMA CurrentIsHeard ==
    ASSUME ElectionInv, NEW c \in Core
    PROVE  /\ CurrentStands(tab[c]) /\ 0 \notin tab[c].live
           /\ tab[c].current = 0 \/ tab[c].current \in tab[c].live
           /\ tab[c].current = 0 <=> heard[c] = {}
           /\ tab[c].current \in tab[c].live => IsClip(tab[c].current)
           /\ tab[c].current # 0 => tab[c].current \in MintedTx \cap heard[c]
<1>1. 0 \notin MintedTx
  BY DEF ElectionInv, MintedOK, MintedTx
<1>2. \A t \in heard[c] : t \in MintedTx /\ IsClip(t)
  BY DEF ElectionInv, HeardOK
<1>3. CurrentStands(tab[c]) /\ 0 \notin tab[c].live
  BY <1>1 DEF ElectionInv, TablesOK, LiveOK
<1> QED BY <1>1, <1>2, <1>3 DEF ElectionInv, ElectsTheLast

\* A step that leaves every `current` standing, and adds only published
\* transactions to the tables, leaves the election as it was.
LEMMA ElectionKept ==
    ASSUME ElectionInv, MintedOK', Agrees, heard' = heard, NetOK', ConnOK',
           tab' = [c \in Core |-> tab'[c]],
           \A c \in Core :
              /\ CurrentStands(tab'[c]) /\ tab'[c].current = tab[c].current
              /\ tab[c].current \in tab[c].live => tab[c].current \in tab'[c].live
              /\ \A t \in tab'[c].live :
                   t \in tab[c].live \/ (t \in MintedTx' /\ minted'[t].producer # "clip")
    PROVE  ElectionInv'
<1>1. TablesOK'
  BY DEF TablesOK
<1>2. HeardOK'
  BY DEF ElectionInv, HeardOK, Agrees, IsClip
<1>3. LiveOK'
  BY DEF ElectionInv, LiveOK, Agrees, IsClip
<1>4. ElectsTheLast'
  <2> SUFFICES ASSUME NEW c \in Core, heard[c] # {}
               PROVE  \A t \in heard[c] : KeyLE(t, tab[c].current)'
    BY CurrentIsHeard DEF ElectionInv, ElectsTheLast
  <2>1. \A t \in heard[c] : t \in MintedTx /\ KeyLE(t, tab[c].current)
    BY DEF ElectionInv, ElectsTheLast, HeardOK
  <2>2. tab[c].current \in MintedTx /\ tab'[c].current = tab[c].current
    BY CurrentIsHeard
  <2> QED BY <2>1, <2>2 DEF KeyLE, Agrees
<1> QED BY <1>1, <1>2, <1>3, <1>4 DEF ElectionInv

\* The same for a step that touches one Core's table.
LEMMA ElectionKeptAt ==
    ASSUME ElectionInv, MintedOK', Agrees, heard' = heard, NetOK', ConnOK',
           NEW d \in Core, NEW U, tab' = [tab EXCEPT ![d] = U],
           CurrentStands(U), U.current = tab[d].current,
           tab[d].current \in tab[d].live => U.current \in U.live,
           \A t \in U.live :
              t \in tab[d].live \/ (t \in MintedTx' /\ minted'[t].producer # "clip")
    PROVE  ElectionInv'
<1>1. tab' = [c \in Core |-> tab'[c]] /\ tab'[d] = U /\ \A c \in Core \ {d} : tab'[c] = tab[c]
  BY DEF ElectionInv, TablesOK
<1>2. \A c \in Core : CurrentStands(tab[c])
  BY DEF ElectionInv, TablesOK
<1> QED BY <1>1, <1>2, ElectionKept

\* A clip that beats all its Core has heard, and that it does not hold, is
\* elected there.
LEMMA ElectionWon ==
    ASSUME ElectionInv, MintedOK', Agrees, NetOK', ConnOK',
           NEW d \in Core, NEW t \in MintedTx', minted'[t].producer = "clip",
           t \notin tab[d].live, NEW b,
           \A u \in heard[d] : KeyLE(u, t)',
           tab' = [tab EXCEPT ![d] = make_current(@, t, b)],
           heard' = [heard EXCEPT ![d] = @ \cup {t}]
    PROVE  ElectionInv'
<1>0. t # 0
  BY DEF MintedTx, MintedOK
<1> DEFINE U == make_current(tab[d], t, b)
<1>1. CurrentStands(U) /\ U.current = t /\ t \in U.live /\ U.live \subseteq tab[d].live \cup {t}
  BY <1>0, CurrentIsHeard, MakeCurrent
<1>2. /\ tab' = [c \in Core |-> tab'[c]] /\ tab'[d] = U
      /\ \A c \in Core \ {d} : tab'[c] = tab[c]
  BY DEF ElectionInv, TablesOK
<1>3. /\ heard' = [c \in Core |-> heard'[c]] /\ heard'[d] = heard[d] \cup {t}
      /\ \A c \in Core \ {d} : heard'[c] = heard[c]
  BY DEF ElectionInv, HeardOK
<1> HIDE DEF U
<1>4. TablesOK'
  BY <1>1, <1>2 DEF ElectionInv, TablesOK
<1>5. HeardOK'
  BY <1>3 DEF ElectionInv, HeardOK, Agrees, IsClip
<1>6. LiveOK'
  BY <1>1, <1>2, <1>3 DEF ElectionInv, LiveOK, Agrees, IsClip
<1>7. ElectsTheLast'
  <2> SUFFICES ASSUME NEW c \in Core
               PROVE  (IF heard[c] = {} THEN tab[c].current = 0
                       ELSE /\ tab[c].current \in heard[c] \cap tab[c].live
                            /\ \A u \in heard[c] : KeyLE(u, tab[c].current))'
    BY DEF ElectsTheLast
  <2>1. CASE c = d
    <3>1. KeyLE(t, t)'
      <4>1. minted'[t] \in MintRecord
        BY DEF MintedOK, MintedTx
      <4> QED BY <4>1 DEF KeyLE, MintRecord
    <3> QED BY <2>1, <3>1, <1>1, <1>2, <1>3
  <2>2. CASE c # d
    <3>1. heard'[c] = heard[c] /\ tab'[c] = tab[c]
      BY <2>2, <1>2, <1>3
    <3>2. CASE heard[c] = {}
      BY <3>1, <3>2 DEF ElectionInv, ElectsTheLast
    <3>3. CASE heard[c] # {}
      <4>1. \A u \in heard[c] : u \in MintedTx /\ KeyLE(u, tab[c].current)
        BY <3>3 DEF ElectionInv, ElectsTheLast, HeardOK
      <4>2. tab[c].current \in MintedTx /\ tab[c].current \in heard[c] \cap tab[c].live
        BY <3>3, CurrentIsHeard DEF ElectionInv, ElectsTheLast
      <4> QED BY <3>1, <3>3, <4>1, <4>2 DEF KeyLE, Agrees
    <3> QED BY <3>2, <3>3
  <2> QED BY <2>1, <2>2
<1> QED BY <1>4, <1>5, <1>6, <1>7 DEF ElectionInv

\* A clip that does not beat the current one is heard and changes nothing.
LEMMA ElectionLost ==
    ASSUME ElectionInv, minted' = minted, NetOK', ConnOK', tab' = tab,
           NEW d \in Core, NEW t \in MintedTx, IsClip(t),
           tab[d].current # 0, KeyLE(t, tab[d].current),
           heard' = [heard EXCEPT ![d] = @ \cup {t}]
    PROVE  ElectionInv'
<1>1. /\ heard' = [c \in Core |-> heard'[c]] /\ heard'[d] = heard[d] \cup {t}
      /\ \A c \in Core \ {d} : heard'[c] = heard[c]
  BY DEF ElectionInv, HeardOK
<1>2. MintedOK' /\ TablesOK'
  BY DEF ElectionInv, MintedOK, TablesOK
<1>3. HeardOK'
  BY <1>1 DEF ElectionInv, HeardOK, MintedTx, IsClip
<1>4. LiveOK'
  BY <1>1 DEF ElectionInv, LiveOK, MintedTx, IsClip
<1>5. ElectsTheLast'
  <2> SUFFICES ASSUME NEW c \in Core
               PROVE  (IF heard[c] = {} THEN tab[c].current = 0
                       ELSE /\ tab[c].current \in heard[c] \cap tab[c].live
                            /\ \A u \in heard[c] : KeyLE(u, tab[c].current))'
    BY DEF ElectsTheLast
  <2>1. \A u, v : KeyLE(u, v)' <=> KeyLE(u, v)
    BY DEF KeyLE
  <2>2. IF heard[c] = {} THEN tab[c].current = 0
        ELSE /\ tab[c].current \in heard[c] \cap tab[c].live
             /\ \A u \in heard[c] : KeyLE(u, tab[c].current)
    BY DEF ElectionInv, ElectsTheLast
  <2>3. CASE c = d
    BY <1>1, <2>1, <2>2, <2>3
  <2>4. CASE c # d
    BY <1>1, <2>1, <2>2, <2>4
  <2> QED BY <2>3, <2>4
<1> QED BY <1>2, <1>3, <1>4, <1>5 DEF ElectionInv

\* A session's step, or a revocation, on the table of one Core.
LEMMA ElectionSpared ==
    ASSUME ElectionInv, minted' = minted, heard' = heard, NetOK', ConnOK',
           NEW d, NEW U, d \in Core => Spares(tab[d], U),
           tab' = [tab EXCEPT ![d] = U]
    PROVE  ElectionInv'
<1>1. MintedOK' /\ Agrees
  BY NotMinting DEF ElectionInv
<1>2. CASE d \in Core
  BY <1>1, <1>2, ElectionKeptAt DEF Spares
<1>3. CASE d \notin Core
  <2>1. tab' = tab
    BY <1>3 DEF ElectionInv, TablesOK
  <2>2. tab = [c \in Core |-> tab[c]] /\ \A c \in Core : CurrentStands(tab[c])
    BY DEF ElectionInv, TablesOK
  <2> QED BY <1>1, <2>1, <2>2, ElectionKept
<1> QED BY <1>2, <1>3

\* A step that touches no table and mints nothing.
LEMMA ElectionUntouched ==
    ASSUME ElectionInv, minted' = minted, heard' = heard, tab' = tab, NetOK', ConnOK'
    PROVE  ElectionInv'
<1>1. MintedOK' /\ Agrees
  BY NotMinting DEF ElectionInv
<1>2. tab = [c \in Core |-> tab[c]] /\ \A c \in Core : CurrentStands(tab[c])
  BY DEF ElectionInv, TablesOK
<1> QED BY <1>1, <1>2, ElectionKept

\* The streams under way still carry clips.
LEMMA NetKept ==
    ASSUME ElectionInv, Agrees, net' \subseteq net
    PROVE  NetOK'
BY DEF ElectionInv, NetOK, Agrees, IsClip

\* The adopts awaited are still of published transactions.
LEMMA ConnKept ==
    ASSUME ElectionInv, Agrees, conn' = conn
    PROVE  ConnOK'
BY DEF ElectionInv, ConnOK, Agrees, IsClip

-----------------------------------------------------------------------------
(* Every action keeps the invariant.                                        *)

\* At the start nobody has heard or shows anything.
LEMMA InitElection == Init => ElectionInv
<1> SUFFICES ASSUME Init PROVE ElectionInv
  OBVIOUS
<1>1. MintedOK /\ NetOK /\ ConnOK
  BY DEF Init, MintedOK, NetOK, ConnOK
<1>2. \A c \in Core : tab[c] = EmptyTable /\ heard[c] = {}
  BY DEF Init
<1>3. TablesOK
  <2>1. CurrentStands(EmptyTable)
    BY DEF CurrentStands, IsTable, EmptyTable
  <2> QED BY <1>2, <2>1 DEF TablesOK, Init
<1>4. LiveOK /\ HeardOK /\ ElectsTheLast
  BY <1>2 DEF Init, LiveOK, HeardOK, ElectsTheLast, EmptyTable
<1> QED BY <1>1, <1>3, <1>4 DEF ElectionInv

\* A copy is floored above the current clip, so it wins at home, whatever the
\* clock reads.
LEMMA CopyStep ==
    ASSUME ElectionInv, NEW c \in Core, NEW now \in 1..MaxNow, NEW b \in BOOLEAN,
           clipboard_updated(c, now, b)
    PROVE  ElectionInv'
<1> DEFINE floor == current_seq(tab[c]) + 1
           seq == IF now > floor THEN now ELSE floor
           r == [producer |-> "clip", src |-> c, dev |-> IF member[c] THEN c ELSE 0, seq |-> seq]
<1>1. current_seq(tab[c]) \in Nat
  <2>1. CASE tab[c].current = 0
    BY <2>1 DEF current_seq
  <2>2. CASE tab[c].current # 0
    <3>1. tab[c].current \in MintedTx
      BY <2>2, CurrentIsHeard
    <3>2. minted[tab[c].current] \in MintRecord
      BY <3>1 DEF ElectionInv, MintedOK, MintedTx
    <3> QED BY <2>2, <3>2 DEF current_seq, MintRecord
  <2> QED BY <2>1, <2>2
<1>2. seq \in Nat /\ seq > current_seq(tab[c])
  <2> HIDE DEF current_seq
  <2> QED BY <1>1, BoundAssumption
<1>3. r \in MintRecord
  <2>1. (IF member[c] THEN c ELSE 0) \in Nat
    BY CoreAssumption
  <2> HIDE DEF seq
  <2> QED BY <1>2, <2>1 DEF MintRecord
<1>4. minted' = Append(minted, r)
  BY DEF clipboard_updated
<1>5. PICK t \in Nat \ {0} : t = NextTx
  BY DEF NextTx, ElectionInv, MintedOK
<1>6. /\ MintedOK' /\ Agrees /\ t \in MintedTx' /\ t \notin MintedTx
      /\ minted'[t].producer = "clip" /\ minted'[t].seq = seq
  <2>1. MintedOK' /\ Agrees /\ t \in MintedTx' /\ t \notin MintedTx /\ minted'[t] = r
    <3> HIDE DEF r
    <3> QED BY <1>3, <1>4, <1>5, Minting DEF ElectionInv
  <2> QED BY <2>1
<1> HIDE DEF r, seq
<1>7. NetOK'
  <2>1. \A m \in net' : m \in net \/ \E p \in Core :
            m = [tx |-> t, to |-> p, push |-> b, checked |-> FALSE]
    BY <1>5 DEF clipboard_updated
  <2>2. ASSUME NEW m \in net'
        PROVE  /\ m \in [tx : Nat, to : Core, push : BOOLEAN, checked : BOOLEAN]
               /\ m.tx \in MintedTx' /\ minted'[m.tx].producer = "clip"
    <3>1. CASE m \in net
      BY <1>6, <3>1 DEF ElectionInv, NetOK, IsClip, Agrees
    <3>2. CASE \E p \in Core : m = [tx |-> t, to |-> p, push |-> b, checked |-> FALSE]
      BY <1>6, <3>2
    <3> QED BY <2>1, <3>1, <3>2
  <2> QED BY <2>2 DEF NetOK, IsClip
<1>8. ConnOK'
  BY <1>6, ConnKept DEF clipboard_updated
<1>9. t \notin tab[c].live
  BY <1>6 DEF ElectionInv, LiveOK
<1>10. \A u \in heard[c] : KeyLE(u, t)'
  <2> SUFFICES ASSUME NEW u \in heard[c]
               PROVE  minted'[u].seq < minted'[t].seq
    BY DEF KeyLE
  <2>1. tab[c].current # 0 /\ tab[c].current \in MintedTx
    BY CurrentIsHeard
  <2>2. u \in MintedTx /\ KeyLE(u, tab[c].current)
    BY DEF ElectionInv, HeardOK, ElectsTheLast
  <2>3. minted[u] \in MintRecord /\ minted[tab[c].current] \in MintRecord
    BY <2>1, <2>2 DEF ElectionInv, MintedOK, MintedTx
  <2>4. minted[u].seq \in Nat /\ minted[u].seq <= current_seq(tab[c])
    BY <2>1, <2>2, <2>3 DEF KeyLE, MintRecord, current_seq
  <2>5. minted'[u].seq = minted[u].seq
    BY <1>6, <2>2 DEF Agrees
  <2> HIDE DEF current_seq
  <2> QED BY <1>1, <1>2, <1>6, <2>4, <2>5
<1>11. /\ tab' = [tab EXCEPT ![c] = make_current(@, t, b)]
       /\ heard' = [heard EXCEPT ![c] = @ \cup {t}]
  BY <1>5 DEF clipboard_updated
<1> QED BY <1>6, <1>7, <1>8, <1>9, <1>10, <1>11, ElectionWon

\* An announce wins, or is heard and loses.
LEMMA AnnounceStep ==
    ASSUME ElectionInv, NEW m \in net, recv_announce(m)
    PROVE  ElectionInv'
<1> DEFINE d == m.to
           t == m.tx
<1>1. d \in Core /\ t \in MintedTx /\ IsClip(t)
  BY DEF ElectionInv, NetOK
<1>2. minted' = minted /\ MintedOK' /\ Agrees
  BY NotMinting DEF ElectionInv, recv_announce
<1>3. NetOK' /\ ConnOK'
  BY <1>2, NetKept, ConnKept DEF recv_announce
<1>4. /\ tab' = [tab EXCEPT ![d] = announce_remote(@, t, m.push)]
      /\ heard' = [heard EXCEPT ![d] = @ \cup {t}]
  BY DEF recv_announce
<1>5. tab = [c \in Core |-> tab[c]]
  BY DEF ElectionInv, TablesOK
<1> HIDE DEF d, t
<1>6. CASE t \in tab[d].live \/ (tab[d].current # 0 /\ KeyLE(t, tab[d].current))
  <2>1. tab' = tab
    BY <1>1, <1>4, <1>5, <1>6 DEF announce_remote
  <2>2. tab[d].current # 0 /\ KeyLE(t, tab[d].current)
    <3>1. CASE t \in tab[d].live
      <4>1. t \in heard[d]
        BY <1>1, <3>1 DEF ElectionInv, LiveOK
      <4> QED BY <1>1, <4>1, CurrentIsHeard DEF ElectionInv, ElectsTheLast
    <3> QED BY <1>6, <3>1
  <2> QED BY <1>1, <1>2, <1>3, <1>4, <2>1, <2>2, ElectionLost
<1>7. CASE t \notin tab[d].live /\ (tab[d].current = 0 \/ ~KeyLE(t, tab[d].current))
  <2>1. tab' = [tab EXCEPT ![d] = make_current(@, t, m.push)]
    BY <1>4, <1>7 DEF announce_remote
  <2>2. \A u \in heard[d] : KeyLE(u, t)
    <3> SUFFICES ASSUME NEW u \in heard[d] PROVE KeyLE(u, t)
      OBVIOUS
    <3>1. tab[d].current # 0 /\ tab[d].current \in MintedTx
      BY <1>1, CurrentIsHeard
    <3>2. u \in MintedTx /\ KeyLE(u, tab[d].current)
      BY <1>1 DEF ElectionInv, HeardOK, ElectsTheLast
    <3>3. KeyLE(tab[d].current, t)
      BY <1>1, <1>7, <3>1, KeyOrder DEF ElectionInv
    <3> QED BY <1>1, <3>1, <3>2, <3>3, KeyOrder DEF ElectionInv
  <2>3. \A u \in heard[d] : KeyLE(u, t)'
    BY <1>2, <2>2 DEF KeyLE
  <2>4. t \in MintedTx' /\ minted'[t].producer = "clip"
    BY <1>1, <1>2 DEF Agrees, IsClip
  <2> QED BY <1>1, <1>2, <1>3, <1>4, <1>7, <2>1, <2>3, <2>4, ElectionWon
<1> QED BY <1>6, <1>7

\* A logout forgets what was heard together with what is shown.
LEMMA ClearStep ==
    ASSUME ElectionInv, NEW d \in Core, NEW leaves, Clear(d, leaves)
    PROVE  ElectionInv'
<1>1. minted' = minted /\ MintedOK' /\ Agrees
  BY NotMinting DEF ElectionInv, Clear
<1>2. NetOK' /\ ConnOK'
  BY <1>1, NetKept, ConnKept DEF Clear
<1>3. /\ tab' = [c \in Core |-> tab'[c]] /\ heard' = [c \in Core |-> heard'[c]]
      /\ tab'[d] = EmptyTable /\ heard'[d] = {}
      /\ \A c \in Core \ {d} : tab'[c] = tab[c] /\ heard'[c] = heard[c]
  BY DEF Clear, ElectionInv, TablesOK, HeardOK
<1>4. CurrentStands(EmptyTable) /\ EmptyTable.live = {} /\ EmptyTable.current = 0
  BY DEF CurrentStands, IsTable, EmptyTable
<1>5. TablesOK'
  BY <1>3, <1>4 DEF ElectionInv, TablesOK
<1>6. HeardOK'
  BY <1>1, <1>3 DEF ElectionInv, HeardOK, Agrees, IsClip
<1>7. LiveOK'
  BY <1>1, <1>3, <1>4 DEF ElectionInv, LiveOK, Agrees, IsClip
<1>8. ElectsTheLast'
  <2>1. \A u, v : KeyLE(u, v)' <=> KeyLE(u, v)
    BY <1>1 DEF KeyLE
  <2> QED BY <1>3, <1>4, <2>1 DEF ElectionInv, ElectsTheLast
<1> QED BY <1>1, <1>2, <1>5, <1>6, <1>7, <1>8 DEF ElectionInv

\* Publishing mints a transaction that takes no part in the election.
LEMMA PublishStep ==
    ASSUME ElectionInv, NEW k \in Conn, transactions_publish(k)
    PROVE  ElectionInv'
<1> DEFINE d == Home[k]
           r == [producer |-> "pub", src |-> Home[k], dev |-> Home[k], seq |-> 0]
<1>1. d \in Core
  BY ConnAssumption
<1>2. r \in MintRecord
  BY <1>1, CoreAssumption DEF MintRecord
<1>3. PICK t : t = NextTx
  OBVIOUS
<1>4. MintedOK' /\ Agrees /\ t \in MintedTx' /\ t \notin MintedTx /\ minted'[t] = r
  <2>1. minted' = Append(minted, r)
    BY DEF transactions_publish
  <2> HIDE DEF r
  <2> QED BY <1>2, <1>3, <2>1, Minting DEF ElectionInv
<1>5. NetOK' /\ ConnOK'
  BY <1>4, NetKept, ConnKept DEF transactions_publish
<1>6. minted'[t].producer # "clip"
  BY <1>4
<1> DEFINE U == publish(tab[d], t, k)
<1>7. tab' = [tab EXCEPT ![d] = U] /\ heard' = heard
  BY <1>3 DEF transactions_publish
<1> HIDE DEF d, r
<1>8. t # tab[d].current \/ tab[d].current \in tab[d].live
  <2>1. tab[d].current = 0 \/ tab[d].current \in tab[d].live
    BY <1>1, CurrentIsHeard
  <2>2. t # 0
    BY <1>4 DEF MintedTx, MintedOK
  <2> QED BY <2>1, <2>2
<1>9. CurrentStands(tab[d])
  BY <1>1 DEF ElectionInv, TablesOK
<1>10. CurrentStands(U) /\ U.current = tab[d].current /\ U.live = tab[d].live \cup {t}
  BY <1>8, <1>9, InstallSpares
<1> HIDE DEF U
<1> QED BY <1>1, <1>4, <1>5, <1>6, <1>7, <1>10, ElectionKeptAt

\* An adopt installs what the source published, which is no clip.
LEMMA AdoptInstallsStep ==
    ASSUME ElectionInv, NEW k \in Conn, AdoptInstalls(k)
    PROVE  ElectionInv'
<1> DEFINE d == Home[k]
           t == conn[k].tx
           U == install_adopted(tab[d], t, k)
<1>1. d \in Core
  BY ConnAssumption
<1>2. minted' = minted /\ MintedOK' /\ Agrees
  BY NotMinting DEF ElectionInv, AdoptInstalls
<1>3. t \in MintedTx /\ ~IsClip(t)
  BY DEF AdoptInstalls, ElectionInv, ConnOK
<1>4. NetOK'
  BY <1>2, NetKept DEF AdoptInstalls
<1>5. ConnOK'
  BY <1>2 DEF AdoptInstalls, AdoptDone, ElectionInv, ConnOK, Agrees, IsClip
<1>6. tab' = [tab EXCEPT ![d] = U] /\ heard' = heard
  BY DEF AdoptInstalls
<1>7. t \in MintedTx' /\ minted'[t].producer # "clip"
  BY <1>2, <1>3 DEF Agrees, IsClip
<1> HIDE DEF d, t
<1>8. t # tab[d].current \/ tab[d].current \in tab[d].live
  <2>1. tab[d].current = 0 \/ tab[d].current \in tab[d].live
    BY <1>1, CurrentIsHeard
  <2>2. t # 0
    BY <1>7 DEF MintedTx
  <2> QED BY <2>1, <2>2
<1>9. CurrentStands(tab[d])
  BY <1>1 DEF ElectionInv, TablesOK
<1>10. CurrentStands(U) /\ U.current = tab[d].current /\ U.live = tab[d].live \cup {t}
  BY <1>8, <1>9, InstallSpares
<1> HIDE DEF U
<1> QED BY <1>1, <1>2, <1>4, <1>5, <1>6, <1>7, <1>10, ElectionKeptAt

\* A table in which current is a clip survives every deletion of a session or a
\* published transaction.
LEMMA SparedAt ==
    ASSUME ElectionInv, NEW d \in Core, NEW t, NEW k
    PROVE  /\ Spares(tab[d], tab[d])
           /\ Spares(tab[d], begin_session(tab[d], t))
           /\ Spares(tab[d], end_session(tab[d], t))
           /\ Spares(tab[d], evict_published(tab[d], t))
           /\ Spares(tab[d], evict_published(end_session(tab[d], t), t))
           /\ Spares(tab[d], revoke_owned_by(tab[d], k))
<1>1. CurrentStands(tab[d]) /\ (tab[d].current \in tab[d].live => IsClip(tab[d].current))
  BY CurrentIsHeard
<1>2. Spares(tab[d], tab[d])
  BY <1>1 DEF Spares
<1>3. Spares(tab[d], begin_session(tab[d], t))
  BY <1>1, BeginSpares
<1>4. Spares(tab[d], end_session(tab[d], t))
  BY <1>1, EndSpares
<1>5. Spares(tab[d], evict_published(tab[d], t))
  BY <1>1, EvictSpares
<1>6. Spares(tab[d], evict_published(end_session(tab[d], t), t))
  <2> DEFINE E == end_session(tab[d], t)
  <2>1. CurrentStands(E) /\ (E.current = t => IsClip(t) \/ t \notin E.live)
    BY <1>1, <1>4 DEF Spares
  <2>2. Spares(E, evict_published(E, t))
    <3> HIDE DEF E
    <3> QED BY <2>1, EvictSpares
  <2> QED BY <1>4, <2>2 DEF Spares
<1>7. Spares(tab[d], revoke_owned_by(tab[d], k))
  BY <1>1, RevokeSpares
<1> QED BY <1>2, <1>3, <1>4, <1>5, <1>6, <1>7

\* The end of a session, on either side.
LEMMA FinishStep ==
    ASSUME ElectionInv, NEW i, NEW h, NEW word, NEW evicts, Finish(i, h, word, evicts)
    PROVE  ElectionInv'
<1> DEFINE d == At(i, h)
           T == end_session(tab[d], TxOf(i))
           E == IF evicts THEN evict_published(T, TxOf(i)) ELSE T
<1>1. /\ minted' = minted /\ heard' = heard /\ net' = net /\ conn' = conn
      /\ tab' = [tab EXCEPT ![d] = E]
  BY DEF Finish
<1>2. NetOK' /\ ConnOK'
  BY <1>1, NotMinting, NetKept, ConnKept DEF ElectionInv
<1>3. d \in Core => Spares(tab[d], E)
  BY SparedAt
<1> HIDE DEF d, E
<1> QED BY <1>1, <1>2, <1>3, ElectionSpared

\* The streams' steps before the election.
LEMMA StreamStep ==
    ASSUME ElectionInv, NEW m \in net, FallBack(m) \/ build_remote_tx(m)
    PROVE  ElectionInv'
<1>1. minted' = minted /\ tab' = tab /\ heard' = heard /\ conn' = conn
  BY DEF FallBack, build_remote_tx
<1>2. Agrees /\ ConnOK'
  BY <1>1, NotMinting, ConnKept DEF ElectionInv
<1>3. NetOK'
  <2> DEFINE Stream == [tx : Nat, to : Core, push : BOOLEAN, checked : BOOLEAN]
             unpushed == [m EXCEPT !.push = FALSE]
             verified == [m EXCEPT !.checked = TRUE]
  <2>1. net' = (net \ {m}) \cup {unpushed} \/ net' = (net \ {m}) \cup {verified}
    BY DEF FallBack, build_remote_tx
  <2>2. \A y \in net : y \in Stream /\ y.tx \in MintedTx /\ IsClip(y.tx)
    BY DEF ElectionInv, NetOK
  <2>3. unpushed \in Stream /\ unpushed.tx = m.tx /\ verified \in Stream /\ verified.tx = m.tx
    BY <2>2
  <2> HIDE DEF unpushed, verified
  <2> QED BY <1>1, <2>1, <2>2, <2>3 DEF NetOK, MintedTx, IsClip
<1> QED BY <1>1, <1>2, <1>3, ElectionUntouched

\* An adopt's steps that install nothing.
LEMMA AdoptStep ==
    ASSUME ElectionInv, NEW k \in Conn, NEW t \in MintedTx,
           adopt(k, t)
    PROVE  ElectionInv'
<1>1. /\ minted' = minted /\ tab' = tab /\ heard' = heard /\ net' = net /\ ~IsClip(t)
      /\ conn' = [conn EXCEPT ![k] = [st |-> "adopting", tx |-> t, reply |-> "none"]]
  BY DEF adopt
<1>2. Agrees /\ NetOK'
  BY <1>1, NotMinting, NetKept DEF ElectionInv
<1>3. t \in Nat
  BY DEF MintedTx
<1>4. ConnOK'
  BY <1>1, <1>3 DEF ElectionInv, ConnOK, MintedTx, IsClip
<1> QED BY <1>1, <1>2, <1>4, ElectionUntouched

\* The source's answer, and an adopt that ends with none.
LEMMA ReplyStep ==
    ASSUME ElectionInv, NEW k \in Conn, serve_tx_fetch(k) \/ AdoptFails(k)
    PROVE  ElectionInv'
<1>1. minted' = minted /\ tab' = tab /\ heard' = heard /\ net' = net
  BY DEF serve_tx_fetch, AdoptFails
<1>2. Agrees /\ NetOK'
  BY <1>1, NotMinting, NetKept DEF ElectionInv
<1>3. ConnOK'
  <2>1. CASE serve_tx_fetch(k)
    <3>1. \E x \in {"manifest", "stale"} : conn' = [conn EXCEPT ![k].reply = x]
      BY <2>1 DEF serve_tx_fetch
    <3> QED BY <1>1, <3>1 DEF ElectionInv, ConnOK, MintedTx, IsClip
  <2>2. CASE AdoptFails(k)
    BY <1>1, <2>2 DEF AdoptFails, AdoptDone, ElectionInv, ConnOK, MintedTx, IsClip
  <2> QED BY <2>1, <2>2
<1> QED BY <1>1, <1>2, <1>3, ElectionUntouched

\* Whatever ends a grant leaves the current clip.
LEMMA GrantEndsStep ==
    ASSUME ElectionInv, NEW k \in Conn,
           AdoptEvicts(k) \/ teardown(k) \/ \E t : transactions_revoke(k, t)
    PROVE  ElectionInv'
<1> DEFINE d == Home[k]
<1>1. /\ minted' = minted /\ heard' = heard /\ net' = net
      /\ \E U : /\ tab' = [tab EXCEPT ![d] = U]
               /\ \/ \E t : U = evict_published(tab[d], t)
                  \/ U = revoke_owned_by(tab[d], k)
  <2>1. CASE AdoptEvicts(k)
    <3>1. tab' = [tab EXCEPT ![d] = evict_published(tab[d], conn[k].tx)]
      BY <2>1 DEF AdoptEvicts
    <3> QED BY <2>1, <3>1 DEF AdoptEvicts
  <2>2. CASE teardown(k)
    <3>1. tab' = [tab EXCEPT ![d] = revoke_owned_by(tab[d], k)]
      BY <2>2 DEF teardown
    <3> QED BY <2>2, <3>1 DEF teardown
  <2>3. CASE \E t : transactions_revoke(k, t)
    <3>1. PICK t : transactions_revoke(k, t)
      BY <2>3
    <3>2. tab' = [tab EXCEPT ![d] = evict_published(tab[d], t)]
      BY <3>1 DEF transactions_revoke
    <3> QED BY <3>1, <3>2 DEF transactions_revoke
  <2> QED BY <2>1, <2>2, <2>3
<1>2. d \in Core
  BY ConnAssumption
<1>3. Agrees /\ NetOK'
  BY <1>1, NotMinting, NetKept DEF ElectionInv
<1>4. ConnOK'
  <2>1. CASE AdoptEvicts(k)
    BY <1>1, <2>1 DEF AdoptEvicts, AdoptDone, ElectionInv, ConnOK, MintedTx, IsClip
  <2>2. CASE teardown(k)
    BY <1>1, <2>2 DEF teardown, ElectionInv, ConnOK, MintedTx, IsClip
  <2>3. CASE \E t : transactions_revoke(k, t)
    BY <1>3, <2>3, ConnKept DEF transactions_revoke
  <2> QED BY <2>1, <2>2, <2>3
<1> HIDE DEF d
<1>5. PICK U : tab' = [tab EXCEPT ![d] = U] /\ Spares(tab[d], U)
  BY <1>1, <1>2, SparedAt
<1> QED BY <1>1, <1>2, <1>3, <1>4, <1>5, ElectionSpared

\* A session's steps up to its end.
LEMMA SessionStep ==
    ASSUME ElectionInv, NEW i, NEW h,
           \/ \E k, t, kind : Ask(i, k, t, kind)
           \/ serve_consumer(i) \/ Dial(i) \/ serve_session(i) \/ Arm(i, h) \/ Park(i, h)
    PROVE  ElectionInv'
<1>1. /\ minted' = minted /\ heard' = heard /\ net' = net /\ conn' = conn
      /\ tab' = tab \/ \E d, t : tab' = [tab EXCEPT ![d] = begin_session(tab[d], t)]
  <2>1. CASE (\E k, t, kind : Ask(i, k, t, kind)) \/ Dial(i) \/ Arm(i, h) \/ Park(i, h)
    BY <2>1 DEF Ask, Dial, Arm, Park
  <2>2. CASE serve_consumer(i)
    <3>1. \/ tab' = tab
          \/ tab' = [tab EXCEPT ![At(i, "near")] = begin_session(tab[At(i, "near")], TxOf(i))]
      BY <2>2 DEF serve_consumer
    <3> QED BY <2>2, <3>1 DEF serve_consumer
  <2>3. CASE serve_session(i)
    <3>1. \/ tab' = tab
          \/ tab' = [tab EXCEPT ![At(i, "far")] = begin_session(tab[At(i, "far")], TxOf(i))]
      BY <2>3 DEF serve_session
    <3> QED BY <2>3, <3>1 DEF serve_session
  <2> QED BY <2>1, <2>2, <2>3
<1>2. NetOK' /\ ConnOK'
  BY <1>1, NotMinting, NetKept, ConnKept DEF ElectionInv
<1>3. CASE tab' = tab
  BY <1>1, <1>2, <1>3, ElectionUntouched
<1>4. CASE \E d, t : tab' = [tab EXCEPT ![d] = begin_session(tab[d], t)]
  <2>1. PICK d, t : tab' = [tab EXCEPT ![d] = begin_session(tab[d], t)]
    BY <1>4
  <2>2. d \in Core => Spares(tab[d], begin_session(tab[d], t))
    BY SparedAt
  <2> QED BY <1>1, <1>2, <2>1, <2>2, ElectionSpared
<1> QED BY <1>1, <1>3, <1>4

\* Every step keeps the invariant.
LEMMA ElectionStep == ElectionInv /\ [Next]_vars => ElectionInv'
<1> SUFFICES ASSUME ElectionInv, [Next]_vars PROVE ElectionInv'
  OBVIOUS
<1>1. CASE \E c \in Core : \E now \in 1..MaxNow : \E b \in BOOLEAN :
             clipboard_updated(c, now, b)
  BY <1>1, CopyStep
<1>2. CASE \E m \in net : FallBack(m) \/ build_remote_tx(m)
  BY <1>2, StreamStep
<1>3. CASE \E m \in net : recv_announce(m)
  BY <1>3, AnnounceStep
<1>4. CASE \E c \in Core : \E leaves \in BOOLEAN : Clear(c, leaves)
  BY <1>4, ClearStep
<1>5. CASE \E k \in Conn : transactions_publish(k)
  BY <1>5, PublishStep
<1>6. CASE \E k \in Conn : serve_tx_fetch(k) \/ AdoptFails(k)
  BY <1>6, ReplyStep
<1>7. CASE \E k \in Conn : AdoptInstalls(k)
  BY <1>7, AdoptInstallsStep
<1>8. CASE \E k \in Conn : \/ AdoptEvicts(k) \/ teardown(k)
                          \/ \E t \in 1..Len(minted) : transactions_revoke(k, t)
  BY <1>8, GrantEndsStep
<1>9. CASE \E k \in Conn : \E t \in 1..Len(minted) : adopt(k, t)
  BY <1>9, AdoptStep DEF MintedTx
<1>10. CASE \E k \in Conn : \E t \in 1..Len(minted) : \E i \in Slot :
              \E kind \in {"channel", "fill"} : Ask(i, k, t, kind)
  BY <1>10, SessionStep
<1>11. CASE \E i \in Slot : \/ serve_consumer(i) \/ Dial(i) \/ serve_session(i)
                           \/ \E h \in Side : Arm(i, h) \/ Park(i, h)
  BY <1>11, SessionStep
<1>12. CASE \E i \in Slot : \/ Relayed(i) \/ Leave(i) \/ FarLeaves(i)
                           \/ \E h \in Side : Cut(i, h)
  <2>1. \E i, h, word, evicts : Finish(i, h, word, evicts)
    BY <1>12 DEF Relayed, Leave, FarLeaves, Cut
  <2> QED BY <2>1, FinishStep
<1>13. CASE UNCHANGED vars
  <2>1. minted' = minted /\ tab' = tab /\ heard' = heard /\ net' = net /\ conn' = conn
    BY <1>13 DEF vars
  <2>2. NetOK' /\ ConnOK'
    BY <2>1, NotMinting, NetKept, ConnKept DEF ElectionInv
  <2> QED BY <2>1, <2>2, ElectionUntouched
<1> QED BY <1>1, <1>2, <1>3, <1>4, <1>5, <1>6, <1>7, <1>8, <1>9, <1>10, <1>11,
           <1>12, <1>13 DEF Next

\* The global last-copier-wins of `announce_local` and `announce_remote`: for any
\* devices, connections, sessions and events, in whatever order the announces
\* arrive and whatever the clocks read, each Core shows the highest
\* (seq, device_id) among the clips it announced or was offered since it was
\* last cleared.
THEOREM ElectionCorrect == Spec => []ElectsTheLast
<1>1. Init => ElectionInv
  BY InitElection
<1>2. ElectionInv /\ [Next]_vars => ElectionInv'
  BY ElectionStep
<1>3. ElectionInv => ElectsTheLast
  BY DEF ElectionInv
<1> QED BY <1>1, <1>2, <1>3, PTL DEF Spec
=============================================================================
