-------------------------- MODULE Sessions_proofs --------------------------
(***************************************************************************)
(* Proofs about Transactions: the sessions that read, the owners that hold *)
(* and the wakes that end them, for any number of devices, connections,    *)
(* sessions and events.                                                    *)
(***************************************************************************)
EXTENDS Transactions_proofs, FiniteSetTheorems

-----------------------------------------------------------------------------
(* What is kept of one table T: C is the set of clips, R[t] the halves that *)
(* read t from it, K the connections that may own its entries.              *)

Clips == {t \in MintedTx : IsClip(t)}

TypedTable(T) ==
    IsTable(T) /\ T.sessions \in [TxId -> Nat] /\ T.owners \in [TxId -> SUBSET Conn]

CountsAt(T, R, C) ==
    /\ TypedTable(T)
    /\ \A t \in TxId \ T.live : T.sessions[t] = 0
    /\ \A t \in T.superseded : t \in C /\ t \in T.live
    /\ \A t \in T.live \cap C :
         /\ T.sessions[t] = Cardinality(R[t])
         /\ t = T.current <=> t \notin T.superseded
         /\ t \in T.superseded => R[t] # {}

\* What U lacks of T are clips that nobody read.
Unread(T, U, R, C) == \A t \in T.live : t \notin U.live => t \in C /\ R[t] = {}

\* ... and what it has beside is t.
Replaces(T, U, t, R, C) == U.live \subseteq T.live \cup {t} /\ Unread(T, U, R, C)

OwnersAt(T, K, C) ==
    /\ \A t \in TxId : T.owners[t] \subseteq K
    /\ \A t \in T.live \ C : T.owners[t] # {}

-----------------------------------------------------------------------------
(* The operations on one table.                                             *)

\* What is removed is forgotten whole, the rest is as it was.
LEMMA RemoveFields ==
    ASSUME NEW T, TypedTable(T), NEW S
    PROVE  LET U == remove(T, S) IN
           /\ TypedTable(U) /\ U.current = T.current /\ U.live = T.live \ S
           /\ U.superseded = T.superseded \ S
           /\ \A t \in TxId : /\ U.sessions[t] = IF t \in S THEN 0 ELSE T.sessions[t]
                              /\ U.owners[t] = IF t \in S THEN {} ELSE T.owners[t]
BY DEF remove, TypedTable, IsTable

\* Removing anything but clips upsets no count.
LEMMA RemoveCounts ==
    ASSUME NEW T, NEW R, NEW C, CountsAt(T, R, C), T.live \subseteq TxId,
           NEW S, S \cap C \cap T.live = {}
    PROVE  CountsAt(remove(T, S), R, C)
<1> SUFFICES ASSUME NEW U, U = remove(T, S) PROVE CountsAt(U, R, C)
  OBVIOUS
<1>1. /\ TypedTable(U) /\ U.current = T.current /\ U.live = T.live \ S
      /\ U.superseded = T.superseded \ S
      /\ \A t \in TxId : U.sessions[t] = IF t \in S THEN 0 ELSE T.sessions[t]
  BY RemoveFields DEF CountsAt
<1> QED BY <1>1 DEF CountsAt

\* Removing leaves every remaining entry its owners.
LEMMA RemoveOwners ==
    ASSUME NEW T, NEW K, NEW C, TypedTable(T), OwnersAt(T, K, C), T.live \subseteq TxId, NEW S
    PROVE  OwnersAt(remove(T, S), K, C)
<1> SUFFICES ASSUME NEW U, U = remove(T, S) PROVE OwnersAt(U, K, C)
  OBVIOUS
<1>1. /\ U.live = T.live \ S
      /\ \A t \in TxId : U.owners[t] = IF t \in S THEN {} ELSE T.owners[t]
  BY RemoveFields
<1> QED BY <1>1 DEF OwnersAt

\* A revocation, an eviction: the current clip and the counts stay.
LEMMA EvictHolds ==
    ASSUME NEW T, NEW R, NEW K, NEW t, T.live \subseteq TxId, T.live \subseteq MintedTx,
           CountsAt(T, R, Clips),
           OwnersAt(T, K, Clips)
    PROVE  LET U == evict_published(T, t) IN
           /\ CountsAt(U, R, Clips)
           /\ OwnersAt(U, K, Clips)
           /\ U.live \subseteq T.live /\ (\A u \in T.live : IsClip(u) => u \in U.live)
           /\ U = T \/ U.live = T.live \ {t}
<1>1. TypedTable(T)
  BY DEF CountsAt
<1>2. CASE t \in T.live /\ ~IsClip(t)
  <2>1. evict_published(T, t) = remove(T, {t})
    BY <1>2 DEF evict_published
  <2>2. {t} \cap Clips \cap T.live = {}
    BY <1>2 DEF Clips
  <2>3. remove(T, {t}).live = T.live \ {t}
    BY <1>1, RemoveFields
  <2>4. CountsAt(remove(T, {t}), R, Clips) /\ OwnersAt(remove(T, {t}), K, Clips)
    BY <1>1, <2>2, RemoveCounts, RemoveOwners
  <2> QED BY <1>2, <2>1, <2>3, <2>4
<1>3. CASE ~(t \in T.live /\ ~IsClip(t))
  <2>1. evict_published(T, t) = T
    BY <1>3 DEF evict_published
  <2> QED BY <2>1
<1> QED BY <1>2, <1>3

\* teardown's revoke_owned_by: the connection's name goes from every entry, and
\* the entries that named nobody else go.
LEMMA RevokeHolds ==
    ASSUME NEW T, NEW R, NEW K, NEW k, T.live \subseteq TxId, T.live \subseteq MintedTx,
           CountsAt(T, R, Clips),
           OwnersAt(T, K, Clips)
    PROVE  LET U == revoke_owned_by(T, k) IN
           /\ CountsAt(U, R, Clips)
           /\ OwnersAt(U, K \ {k}, Clips)
           /\ U.live = T.live \ OwnedOnlyBy(T, k)
           /\ \A u \in T.live : IsClip(u) => u \in U.live
<1> DEFINE o == [t \in TxId |-> T.owners[t] \ {k}]
           kept == [T EXCEPT !.owners = [t \in TxId |-> @[t] \ {k}]]
           S == OwnedOnlyBy(T, k)
<1>1. TypedTable(T)
  BY DEF CountsAt
<1>2. o \in [TxId -> SUBSET Conn] /\ \A t \in TxId : o[t] = T.owners[t] \ {k}
  BY <1>1 DEF TypedTable
<1>3. /\ TypedTable(kept) /\ kept.live = T.live /\ kept.current = T.current
      /\ kept.superseded = T.superseded /\ kept.sessions = T.sessions /\ kept.owners = o
  <2>1. kept = [T EXCEPT !.owners = o]
    OBVIOUS
  <2> HIDE DEF kept, o
  <2> QED BY <1>1, <1>2, <2>1 DEF TypedTable, IsTable
<1>4. CountsAt(kept, R, Clips)
  <2> HIDE DEF kept, o
  <2> QED BY <1>3 DEF CountsAt
<1>5. \A t \in T.live \ Clips : t \notin S => ~(T.owners[t] \subseteq {k})
  BY DEF OwnedOnlyBy, Clips
<1>6. S \cap Clips \cap kept.live = {}
  BY DEF OwnedOnlyBy, Clips
<1>7. revoke_owned_by(T, k) = remove(kept, S)
  BY DEF revoke_owned_by
<1> HIDE DEF kept, o, S
<1>8. CountsAt(remove(kept, S), R, Clips) /\ remove(kept, S).live = T.live \ S
  BY <1>3, <1>4, <1>6, RemoveCounts, RemoveFields
<1>9. OwnersAt(remove(kept, S), K \ {k}, Clips)
  <2>1. \A t \in TxId : remove(kept, S).owners[t] = IF t \in S THEN {} ELSE o[t]
    BY <1>3, RemoveFields
  <2> QED BY <1>2, <1>5, <1>8, <2>1 DEF OwnersAt
<1>10. \A u \in T.live : IsClip(u) => u \notin S
  BY DEF S, OwnedOnlyBy
<1> QED BY <1>7, <1>8, <1>9, <1>10 DEF S

\* begin_session counts the half that begins.
LEMMA BeginHolds ==
    ASSUME NEW T, NEW R, NEW Q, NEW K, NEW C, NEW w, NEW t \in TxId, t \in T.live,
           T.live \subseteq TxId, CountsAt(T, R, C), OwnersAt(T, K, C),
           IsFiniteSet(R[t]), w \notin R[t], Q[t] = R[t] \cup {w},
           \A u \in TxId \ {t} : Q[u] = R[u]
    PROVE  LET U == begin_session(T, t) IN
           CountsAt(U, Q, C) /\ OwnersAt(U, K, C) /\ U.live = T.live
<1> SUFFICES ASSUME NEW U, U = begin_session(T, t)
             PROVE  CountsAt(U, Q, C) /\ OwnersAt(U, K, C) /\ U.live = T.live
  OBVIOUS
<1>1. /\ TypedTable(U) /\ U.live = T.live /\ U.current = T.current
      /\ U.superseded = T.superseded /\ U.owners = T.owners
      /\ U.sessions = [T.sessions EXCEPT ![t] = @ + 1]
  BY DEF begin_session, CountsAt, TypedTable, IsTable
<1>2. Cardinality(Q[t]) = Cardinality(R[t]) + 1
  BY FS_AddElement
<1>3. \A u \in TxId : U.sessions[u] = IF u = t THEN T.sessions[t] + 1 ELSE T.sessions[u]
  BY <1>1 DEF CountsAt, TypedTable
<1>4. CountsAt(U, Q, C)
  <2>1. Q[t] # {}
    OBVIOUS
  <2>2. \A u \in T.live \cap C : U.sessions[u] = Cardinality(Q[u])
    BY <1>2, <1>3 DEF CountsAt
  <2>3. \A u \in T.superseded : Q[u] # {}
    BY <2>1 DEF CountsAt
  <2> QED BY <1>1, <1>3, <2>2, <2>3 DEF CountsAt
<1>5. OwnersAt(U, K, C)
  BY <1>1 DEF OwnersAt
<1> QED BY <1>1, <1>4, <1>5

\* U is T, or T without the clip t that nobody reads any more.
Leaves(T, U, t, Q, C) ==
    /\ U.live \subseteq T.live
    /\ \A u \in T.live : u \notin U.live => u = t /\ t \in C /\ Q[t] = {}

\* end_session takes the half off the count, and drops a superseded clip with
\* its last reader, never before.
LEMMA EndHolds ==
    ASSUME NEW T, NEW R, NEW Q, NEW K, NEW C, NEW w, NEW t \in TxId,
           T.live \subseteq TxId, CountsAt(T, R, C), OwnersAt(T, K, C),
           IsFiniteSet(R[t]), w \in R[t], Q[t] = R[t] \ {w},
           \A u \in TxId \ {t} : Q[u] = R[u]
    PROVE  LET U == end_session(T, t) IN
           CountsAt(U, Q, C) /\ OwnersAt(U, K, C) /\ Leaves(T, U, t, Q, C)
<1> SUFFICES ASSUME NEW U, U = end_session(T, t)
             PROVE  /\ CountsAt(U, Q, C) /\ OwnersAt(U, K, C) /\ U.live \subseteq T.live
                    /\ \A u \in T.live : u \notin U.live => u = t /\ t \in C /\ Q[t] = {}
  BY DEF Leaves
<1>1. CASE t \notin T.live
  <2>1. U = T
    BY <1>1 DEF end_session
  <2>2. CountsAt(T, Q, C)
    BY <1>1 DEF CountsAt
  <2> QED BY <2>1, <2>2
<1>2. CASE t \in T.live
  <2>1. PICK left : left = IF T.sessions[t] = 0 THEN 0 ELSE T.sessions[t] - 1
    OBVIOUS
  <2>2. PICK closed : closed = [T EXCEPT !.sessions[t] = left]
    OBVIOUS
  <2>3. T.sessions[t] \in Nat /\ left \in Nat
    BY <2>1 DEF CountsAt, TypedTable
  <2>4. /\ TypedTable(closed) /\ closed.live = T.live /\ closed.current = T.current
        /\ closed.superseded = T.superseded /\ closed.owners = T.owners
        /\ closed.sessions = [T.sessions EXCEPT ![t] = left]
    BY <2>2, <2>3 DEF CountsAt, TypedTable, IsTable
  <2>5. \A u \in TxId : closed.sessions[u] = IF u = t THEN left ELSE T.sessions[u]
    BY <2>4 DEF CountsAt, TypedTable
  <2>6. IsFiniteSet(Q[t]) /\ Cardinality(Q[t]) = Cardinality(R[t]) - 1
    BY FS_RemoveElement
  <2>7. t \in C => left = Cardinality(Q[t]) /\ T.sessions[t] # 0
    <3>1. Cardinality(R[t]) \in Nat /\ Cardinality(R[t]) # 0
      BY FS_CardinalityType, FS_EmptySet
    <3> QED BY <1>2, <2>1, <2>6, <3>1 DEF CountsAt
  <2>8. t \in C /\ left = 0 => Q[t] = {}
    BY <2>6, <2>7, FS_EmptySet
  <2>9. t \in C /\ left # 0 => Q[t] # {}
    BY <2>7, FS_EmptySet
  <2>10. OwnersAt(closed, K, C)
    BY <2>4 DEF OwnersAt
  <2>11. CASE t \in T.superseded /\ left = 0
    <3>1. U = remove(closed, {t}) /\ t \in C
      BY <1>2, <2>1, <2>2, <2>11 DEF end_session, CountsAt
    <3>2. /\ TypedTable(U) /\ U.current = T.current /\ U.live = T.live \ {t}
          /\ U.superseded = T.superseded \ {t}
          /\ \A u \in TxId : U.sessions[u] = IF u = t THEN 0 ELSE closed.sessions[u]
      <4>1. TypedTable(closed)
        BY <2>4
      <4>2. LET V == remove(closed, {t}) IN
            /\ TypedTable(V) /\ V.current = closed.current /\ V.live = closed.live \ {t}
            /\ V.superseded = closed.superseded \ {t}
            /\ \A u \in TxId : V.sessions[u] = IF u \in {t} THEN 0 ELSE closed.sessions[u]
        BY <4>1, RemoveFields
      <4> QED BY <2>4, <3>1, <4>2
    <3>3. CountsAt(U, Q, C)
      BY <2>5, <3>2 DEF CountsAt
    <3>4. OwnersAt(U, K, C)
      BY <2>4, <2>10, <3>1, RemoveOwners
    <3> QED BY <2>8, <2>11, <3>1, <3>2, <3>3, <3>4
  <2>12. CASE ~(t \in T.superseded /\ left = 0)
    <3>1. U = closed
      BY <1>2, <2>1, <2>2, <2>12 DEF end_session
    <3>2. CountsAt(closed, Q, C)
      BY <1>2, <2>4, <2>5, <2>7, <2>9, <2>12 DEF CountsAt
    <3> QED BY <2>4, <2>10, <3>1, <3>2
  <2> QED BY <2>11, <2>12
<1> QED BY <1>1, <1>2

\* publish and install_adopted add an entry that is no clip, with an owner.
LEMMA InstallHolds ==
    ASSUME NEW T, NEW R, NEW K, NEW C, NEW D, NEW t \in TxId, t \notin D, NEW k \in K \cap Conn,
           T.live \subseteq TxId, CountsAt(T, R, C), OwnersAt(T, K, C), D \cap T.live = C \cap T.live,
           NEW U, U = publish(T, t, k) \/ U = install_adopted(T, t, k)
    PROVE  CountsAt(U, R, D) /\ OwnersAt(U, K, D) /\ U.live = T.live \cup {t}
<1>1. TypedTable(T)
  BY DEF CountsAt
<1> DEFINE o == IF U = publish(T, t, k) THEN {k} ELSE T.owners[t] \cup {k}
<1>2. /\ U = [T EXCEPT !.live = @ \cup {t}, !.owners[t] = o]
      /\ o \in SUBSET Conn /\ o \subseteq K /\ o # {}
  <2>1. CASE U = publish(T, t, k)
    BY <2>1 DEF publish
  <2>2. CASE U # publish(T, t, k)
    <3>1. T.owners[t] \subseteq Conn /\ T.owners[t] \subseteq K
      BY <1>1 DEF TypedTable, OwnersAt
    <3>2. o = T.owners[t] \cup {k}
      BY <2>2
    <3>3. U = install_adopted(T, t, k)
      BY <2>2
    <3>4. U = [T EXCEPT !.live = @ \cup {t}, !.owners[t] = o]
      BY <3>2, <3>3 DEF install_adopted
    <3> QED BY <3>1, <3>2, <3>4
  <2> QED BY <2>1, <2>2
<1> HIDE DEF o
<1>3. /\ TypedTable(U) /\ U.live = T.live \cup {t} /\ U.current = T.current
      /\ U.superseded = T.superseded /\ U.sessions = T.sessions
      /\ \A u \in TxId : U.owners[u] = IF u = t THEN o ELSE T.owners[u]
  BY <1>1, <1>2 DEF TypedTable, IsTable
<1>4. CountsAt(U, R, D)
  BY <1>3 DEF CountsAt
<1>5. OwnersAt(U, K, D)
  BY <1>2, <1>3 DEF OwnersAt
<1> QED BY <1>3, <1>4, <1>5

\* supersede_current drops the current clip if nobody reads it, and leaves it to
\* its readers otherwise.
LEMMA SupersedeHolds ==
    ASSUME NEW T, NEW R, NEW K, NEW C, CountsAt(T, R, C), OwnersAt(T, K, C),
           T.live \subseteq TxId, 0 \notin T.live,
           T.current = 0 \/ T.current \in T.live \cap C, \A u \in TxId : IsFiniteSet(R[u])
    PROVE  LET V == supersede_current(T) IN
           /\ CountsAt(V, R, C) /\ OwnersAt(V, K, C) /\ V.current = 0 /\ V.live \subseteq T.live
           /\ Unread(T, V, R, C)
<1> SUFFICES ASSUME NEW V, V = supersede_current(T)
             PROVE  /\ CountsAt(V, R, C) /\ OwnersAt(V, K, C) /\ V.current = 0
                    /\ V.live \subseteq T.live
                    /\ Unread(T, V, R, C)
  OBVIOUS
<1>1. CASE T.current = 0
  BY <1>1 DEF supersede_current, Unread
<1>2. CASE T.current # 0
  <2>1. PICK cur : cur = T.current /\ cur \in T.live /\ cur \in C /\ cur \in TxId
    BY <1>2
  <2>2. PICK s : s = T.superseded \cup {cur}
    OBVIOUS
  <2>3. PICK marked : marked = [T EXCEPT !.current = 0, !.superseded = s]
    OBVIOUS
  <2>4. /\ TypedTable(marked) /\ marked.live = T.live /\ marked.current = 0
        /\ marked.superseded = s /\ marked.sessions = T.sessions /\ marked.owners = T.owners
    BY <2>3 DEF CountsAt, TypedTable, IsTable
  <2>5. T.sessions[cur] = Cardinality(R[cur]) /\ cur \notin T.superseded
    BY <2>1 DEF CountsAt
  <2>6. OwnersAt(marked, K, C)
    BY <2>4 DEF OwnersAt
  <2>7. marked = [T EXCEPT !.current = 0, !.superseded = @ \cup {T.current}]
    BY <2>1, <2>2, <2>3
  <2>8. CASE T.sessions[cur] = 0
    <3>1. V = remove(marked, {cur})
      BY <1>2, <2>1, <2>7, <2>8 DEF supersede_current
    <3>2. LET W == remove(marked, {cur}) IN
          /\ TypedTable(W) /\ W.current = marked.current /\ W.live = marked.live \ {cur}
          /\ W.superseded = marked.superseded \ {cur}
          /\ \A u \in TxId : W.sessions[u] = IF u \in {cur} THEN 0 ELSE marked.sessions[u]
      BY <2>4, RemoveFields
    <3>3. /\ TypedTable(V) /\ V.current = 0 /\ V.live = T.live \ {cur}
          /\ V.superseded = T.superseded
          /\ \A u \in TxId : V.sessions[u] = IF u = cur THEN 0 ELSE T.sessions[u]
      BY <2>2, <2>4, <2>5, <3>1, <3>2
    <3>4. CountsAt(V, R, C)
      BY <2>1, <3>3 DEF CountsAt
    <3>5. OwnersAt(V, K, C)
      BY <2>4, <2>6, <3>1, RemoveOwners
    <3>6. R[cur] = {}
      BY <2>1, <2>5, <2>8, FS_EmptySet
    <3> QED BY <2>1, <3>3, <3>4, <3>5, <3>6 DEF Unread
  <2>9. CASE T.sessions[cur] # 0
    <3>1. V = marked
      BY <1>2, <2>1, <2>7, <2>9 DEF supersede_current
    <3>2. R[cur] # {}
      BY <2>5, <2>9, FS_EmptySet
    <3>3. CountsAt(V, R, C)
      BY <2>1, <2>2, <2>4, <3>1, <3>2 DEF CountsAt
    <3> QED BY <2>4, <2>6, <3>1, <3>3 DEF Unread
  <2> QED BY <2>8, <2>9
<1> QED BY <1>1, <1>2

\* The clip that becomes current is read by nobody yet.
LEMMA MakeCurrentHolds ==
    ASSUME NEW T, NEW R, NEW K, NEW C, NEW D, CountsAt(T, R, C), OwnersAt(T, K, C),
           T.live \subseteq TxId, 0 \notin T.live,
           T.current = 0 \/ T.current \in T.live \cap C, \A u \in TxId : IsFiniteSet(R[u]),
           NEW t \in TxId \cap D, t \notin T.live, R[t] = {}, D \cap T.live = C \cap T.live,
           NEW b
    PROVE  LET U == make_current(T, t, b) IN
           CountsAt(U, R, D) /\ OwnersAt(U, K, D) /\ Replaces(T, U, t, R, C)
<1>1. PICK V : V = supersede_current(T)
  OBVIOUS
<1>2. /\ CountsAt(V, R, C) /\ OwnersAt(V, K, C) /\ V.current = 0 /\ V.live \subseteq T.live
      /\ Unread(T, V, R, C)
  <2>1. LET W == supersede_current(T) IN
        /\ CountsAt(W, R, C) /\ OwnersAt(W, K, C) /\ W.current = 0 /\ W.live \subseteq T.live
        /\ Unread(T, W, R, C)
    BY SupersedeHolds
  <2> QED BY <1>1, <2>1
<1>3. PICK U : U = make_current(T, t, b)
  OBVIOUS
<1>4. /\ TypedTable(U) /\ U.live = V.live \cup {t} /\ U.current = t
      /\ U.superseded = V.superseded /\ U.sessions = V.sessions /\ U.owners = V.owners
  <2>1. PICK x : x = IF b THEN V.cached \cup {t} ELSE V.cached
    OBVIOUS
  <2>2. U = [V EXCEPT !.live = V.live \cup {t}, !.current = t, !.cached = x]
    BY <1>1, <1>3, <2>1 DEF make_current
  <2> QED BY <1>2, <2>2 DEF CountsAt, TypedTable, IsTable
<1>5. U.sessions[t] = Cardinality(R[t])
  BY <1>2, <1>4, FS_EmptySet DEF CountsAt
<1>6. CountsAt(U, R, D)
  <2>1. t \notin V.superseded
    BY <1>2 DEF CountsAt
  <2>2. \A u \in V.live \cap D : /\ U.sessions[u] = Cardinality(R[u]) /\ u \in U.superseded
                                /\ R[u] # {} /\ u # U.current
    BY <1>2, <1>4 DEF CountsAt
  <2>3. \A u \in U.superseded : u \in D /\ u \in U.live
    BY <1>2, <1>4 DEF CountsAt
  <2>4. \A u \in TxId \ U.live : U.sessions[u] = 0
    BY <1>2, <1>4 DEF CountsAt
  <2> QED BY <1>4, <1>5, <2>1, <2>2, <2>3, <2>4 DEF CountsAt
<1>7. OwnersAt(U, K, D)
  BY <1>2, <1>4 DEF OwnersAt
<1> QED BY <1>2, <1>3, <1>4, <1>6, <1>7 DEF Unread, Replaces

\* The table of a device that was just cleared.
LEMMA EmptyHolds ==
    ASSUME NEW R, NEW K, NEW C
    PROVE  CountsAt(EmptyTable, R, C) /\ OwnersAt(EmptyTable, K, C)
BY DEF EmptyTable, CountsAt, OwnersAt, TypedTable, IsTable

-----------------------------------------------------------------------------
(* The inductive invariant.                                                 *)

\* The halves that read each transaction from c's table, the connections that
\* may own its entries.
Readers(c) == [t \in TxId |-> ReadersOf(c, t)]
Holders(c) == {k \in Conn : Home[k] = c /\ conn[k].st # "closed"}

\* What was and may still be minted stays within TxId.
BudgetOK ==
    /\ events \in [EventKind -> Nat]
    /\ Len(minted) + events["copy"] + events["publish"] <= MaxTx

\* A free slot has no half; a slot in use names a minted transaction, and its far
\* half comes after its near one and after the dial.
SlotOK(i) ==
    /\ phase[i] \in [Side -> HalfPhase]
    /\ IF slot[i].kind = "none"
       THEN slot[i] = NoSlot /\ phase[i]["near"] = "off" /\ phase[i]["far"] = "off"
       ELSE /\ slot[i] = [kind |-> slot[i].kind, by |-> slot[i].by, tx |-> slot[i].tx,
                          relay |-> slot[i].relay, dialed |-> slot[i].dialed]
            /\ slot[i].by \in Conn /\ slot[i].tx \in MintedTx
            /\ phase[i]["near"] = "granted" => phase[i]["far"] = "off"
            /\ phase[i]["far"] # "off" => slot[i].dialed

SlotsOK ==
    /\ slot = [i \in Slot |-> slot[i]] /\ phase = [i \in Slot |-> phase[i]]
    /\ \A i \in Slot : SlotOK(i)

HoldsOK ==
    \A c \in Core : /\ CountsAt(tab[c], Readers(c), Clips)
                    /\ OwnersAt(tab[c], Holders(c), Clips)

\* A clip whose announce is on its way to a Core was never there: it is not in
\* its table and nobody reads it from it, so its count starts from nothing.
NetFresh ==
    \A m \in net :
       /\ minted[m.tx].src # m.to /\ m.tx \notin tab[m.to].live
       /\ \A i \in Slot : Busy(i) /\ slot[i].tx = m.tx => Home[slot[i].by] # m.to
       /\ \A n \in net : n.tx = m.tx /\ n.to = m.to => n = m

SessionInv ==
    ElectionInv /\ BudgetOK /\ SlotsOK /\ HoldsOK /\ NetFresh /\ NoLostWake

-----------------------------------------------------------------------------
(* Halves and readers.                                                      *)

\* What a half reads, and whether it does, is as it was.
HalfKept(i, h) ==
    /\ Serving(i, h)' <=> Serving(i, h)
    /\ Serving(i, h) => At(i, h)' = At(i, h) /\ TxOf(i)' = TxOf(i)

HalvesKept == \A i \in Slot, h \in Side : HalfKept(i, h)

\* The transactions in use are within TxId, and only minted ones are held or read.
LEMMA Bounds ==
    ASSUME ElectionInv, BudgetOK
    PROVE  /\ MintedTx \subseteq TxId /\ Clips \subseteq MintedTx /\ 0 \notin MintedTx
           /\ \A c \in Core : tab[c].live \subseteq MintedTx
           /\ Len(minted) \in Nat
<1>1. Len(minted) \in Nat
  BY DEF ElectionInv, MintedOK
<1>2. events["copy"] \in Nat /\ events["publish"] \in Nat
  BY DEF BudgetOK, EventKind
<1>3. Len(minted) <= MaxTx
  BY <1>1, <1>2, BoundAssumption DEF BudgetOK
<1> QED BY <1>1, <1>3, BoundAssumption DEF MintedTx, TxId, Clips, ElectionInv, LiveOK

\* Slots are finitely many, and so are the readers of anything.
LEMMA ReadersFinite ==
    ASSUME NEW c, NEW t
    PROVE  IsFiniteSet(ReadersOf(c, t))
<1>1. IsFiniteSet(Side)
  <2>1. Side = {"near"} \cup {"far"}
    BY DEF Side
  <2> QED BY <2>1, FS_Singleton, FS_Union
<1>2. IsFiniteSet(Slot \X Side)
  BY <1>1, SlotAssumption, FS_Product
<1> QED BY <1>2, FS_Subset DEF ReadersOf

\* Where no half changes, no reader does.
LEMMA ReadersKept ==
    ASSUME HalvesKept
    PROVE  \A c : Readers(c)' = Readers(c)
<1>1. ASSUME NEW c, NEW t PROVE ReadersOf(c, t)' = ReadersOf(c, t)
  BY DEF ReadersOf, HalvesKept, HalfKept
<1> QED BY <1>1 DEF Readers

\* A step that leaves the slots and their phases alone.
LEMMA SlotsStill ==
    ASSUME ElectionInv, SlotsOK, Agrees, slot' = slot, phase' = phase
    PROVE  SlotsOK' /\ HalvesKept
<1>1. ASSUME NEW i \in Slot PROVE SlotOK(i)'
  <2>1. SlotOK(i)
    BY DEF SlotsOK
  <2> QED BY <2>1 DEF SlotOK, Agrees
<1>2. SlotsOK'
  BY <1>1 DEF SlotsOK
<1>3. ASSUME NEW i \in Slot, NEW h \in Side PROVE HalfKept(i, h)
  <2>1. (Serving(i, h)' <=> Serving(i, h)) /\ TxOf(i)' = TxOf(i)
    BY DEF Serving, Busy, TxOf
  <2>2. Serving(i, h) => slot[i].tx \in MintedTx
    BY DEF Serving, Busy, SlotsOK, SlotOK
  <2>3. Serving(i, h) => At(i, h)' = At(i, h)
    BY <2>2 DEF At, SourceOf, Agrees
  <2> QED BY <2>1, <2>3 DEF HalfKept
<1> QED BY <1>2, <1>3 DEF HalvesKept

\* The Core whose table a half reads from.
LEMMA AtCore ==
    ASSUME SessionInv, NEW i \in Slot, NEW h \in Side, Busy(i)
    PROVE  At(i, h) \in Core /\ TxOf(i) \in MintedTx /\ TxOf(i) \in TxId
<1>1. SlotOK(i) /\ slot[i].kind # "none"
  BY DEF SessionInv, SlotsOK, Busy
<1>2. slot[i].by \in Conn /\ slot[i].tx \in MintedTx /\ minted[slot[i].tx] \in MintRecord
  BY <1>1 DEF SlotOK, SessionInv, ElectionInv, MintedOK, MintedTx
<1>3. MintedTx \subseteq TxId
  BY Bounds DEF SessionInv
<1> QED BY <1>2, <1>3, ConnAssumption DEF At, TxOf, SourceOf, MintRecord

\* A parked half does not sleep through a step that removes what it reads, if
\* the step wakes it.
LEMMA WakeHeld ==
    ASSUME SessionInv, NEW i \in Slot, NEW h \in Side, HalfKept(i, h),
           <<i, h>> \in woken => <<i, h>> \in woken',
           phase'[i][h] = "parked" /\ Serving(i, h) => phase[i][h] = "parked",
           \A c \in Core : \A t \in tab[c].live \ tab'[c].live :
              <<i, h>> \in ReadersOf(c, t) /\ <<i, h>> \in notify_waiters(c) => <<i, h>> \in woken',
           Serving(i, h)', phase'[i][h] = "parked", ~LiveAt(i, h)'
    PROVE  <<i, h>> \in woken'
<1> DEFINE c == At(i, h)
           t == TxOf(i)
<1>1. Serving(i, h) /\ At(i, h)' = c /\ TxOf(i)' = t /\ phase[i][h] = "parked"
  BY DEF HalfKept
<1>2. t \notin tab'[c].live
  BY <1>1 DEF LiveAt
<1>3. CASE t \notin tab[c].live
  BY <1>1, <1>3 DEF SessionInv, NoLostWake, LiveAt
<1>4. CASE t \in tab[c].live
  <2>1. <<i, h>> \in ReadersOf(c, t) /\ <<i, h>> \in notify_waiters(c)
    BY <1>1 DEF ReadersOf, notify_waiters
  <2>2. c \in Core
    BY <1>1, AtCore DEF Serving
  <2> HIDE DEF c, t
  <2> QED BY <1>2, <1>4, <2>1, <2>2
<1> QED BY <1>3, <1>4

\* Nobody sleeps through a step that wakes all it may concern: an entry goes
\* from a table only when nobody reads it there or all its Core's waiters wake.
LEMMA WakesKept ==
    ASSUME SessionInv, HalvesKept, woken \subseteq woken',
           \A i \in Slot, h \in Side : phase'[i][h] = "parked" /\ Serving(i, h) =>
              phase[i][h] = "parked",
           \A c \in Core : \A t \in tab[c].live \ tab'[c].live :
              ReadersOf(c, t) = {} \/ notify_waiters(c) \subseteq woken'
    PROVE  NoLostWake'
<1> SUFFICES ASSUME NEW i \in Slot, NEW h \in Side, Serving(i, h)', phase'[i][h] = "parked",
                    ~LiveAt(i, h)'
             PROVE  <<i, h>> \in woken'
  BY DEF NoLostWake
<1>1. HalfKept(i, h)
  BY DEF HalvesKept
<1>2. \A c \in Core : \A t \in tab[c].live \ tab'[c].live :
         <<i, h>> \in ReadersOf(c, t) /\ <<i, h>> \in notify_waiters(c) => <<i, h>> \in woken'
  OBVIOUS
<1> QED BY <1>1, <1>2, WakeHeld

\* A session on a clip keeps it, or its Core's table was cleared.
PasteKept ==
    \A i \in Slot, h \in Side :
       Serving(i, h) /\ IsClip(TxOf(i)) /\ LiveAt(i, h) /\ Serving(i, h)' =>
          LiveAt(i, h)' \/ tab'[At(i, h)] = EmptyTable

\* What a step may remove from a table: entries that are no clip, clips that
\* nobody reads, everything.
LEMMA PasteSafe ==
    ASSUME SessionInv,
           \A i \in Slot, h \in Side : Serving(i, h) /\ Serving(i, h)' =>
              At(i, h)' = At(i, h) /\ TxOf(i)' = TxOf(i),
           \A c \in Core : \A t \in tab[c].live \ tab'[c].live : IsClip(t) =>
              ReadersOf(c, t) = {} \/ ReadersOf(c, t)' = {} \/ tab'[c] = EmptyTable
    PROVE  PasteKept
<1> SUFFICES ASSUME NEW i \in Slot, NEW h \in Side, Serving(i, h), IsClip(TxOf(i)), LiveAt(i, h),
                    Serving(i, h)', ~LiveAt(i, h)'
             PROVE  tab'[At(i, h)] = EmptyTable
  BY DEF PasteKept
<1>1. PICK c, t : c = At(i, h) /\ t = TxOf(i)
  OBVIOUS
<1>2. c \in Core
  BY <1>1, AtCore DEF Serving
<1>3. At(i, h)' = c /\ TxOf(i)' = t
  BY <1>1
<1>4. t \in tab[c].live \ tab'[c].live
  BY <1>1, <1>3 DEF LiveAt
<1>5. <<i, h>> \in ReadersOf(c, t)
  BY <1>1 DEF ReadersOf
<1>6. <<i, h>> \in ReadersOf(c, t)'
  BY <1>3 DEF ReadersOf
<1> QED BY <1>1, <1>2, <1>4, <1>5, <1>6

\* ... and a step that moves no half.
LEMMA PasteStill ==
    ASSUME SessionInv, HalvesKept,
           \A c \in Core : \A t \in tab[c].live \ tab'[c].live : IsClip(t) =>
              ReadersOf(c, t) = {} \/ tab'[c] = EmptyTable
    PROVE  PasteKept
<1>1. \A i \in Slot, h \in Side : Serving(i, h) /\ Serving(i, h)' =>
         At(i, h)' = At(i, h) /\ TxOf(i)' = TxOf(i)
  BY DEF HalvesKept, HalfKept
<1> QED BY <1>1, PasteSafe

\* The clips a table holds are the same clips after a step.
LEMMA ClipsAgree ==
    ASSUME SessionInv, Agrees, NEW S, S \subseteq MintedTx
    PROVE  Clips' \cap S = Clips \cap S
BY DEF Clips, Agrees, IsClip

\* A table that a step leaves alone.
LEMMA TableKept ==
    ASSUME SessionInv, Agrees, NEW c \in Core, tab'[c] = tab[c],
           Readers(c)' = Readers(c), Holders(c)' = Holders(c)
    PROVE  CountsAt(tab[c], Readers(c), Clips)' /\ OwnersAt(tab[c], Holders(c), Clips)'
<1>1. ASSUME NEW T, NEW R, NEW K, NEW C, NEW D, D \cap T.live = C \cap T.live,
             CountsAt(T, R, C), OwnersAt(T, K, C)
      PROVE  CountsAt(T, R, D) /\ OwnersAt(T, K, D)
  BY <1>1 DEF CountsAt, OwnersAt
<1>2. Clips' \cap tab[c].live = Clips \cap tab[c].live
  BY ClipsAgree, Bounds DEF SessionInv
<1>3. CountsAt(tab[c], Readers(c), Clips) /\ OwnersAt(tab[c], Holders(c), Clips)
  BY DEF SessionInv, HoldsOK
<1> QED BY <1>1, <1>2, <1>3

\* A step that changes one table.
LEMMA OneTable ==
    ASSUME SessionInv, Agrees, NEW d \in Core, NEW U, tab' = [tab EXCEPT ![d] = U],
           \A c \in Core \ {d} : Readers(c)' = Readers(c) /\ Holders(c)' = Holders(c),
           CountsAt(U, Readers(d)', Clips'), OwnersAt(U, Holders(d)', Clips')
    PROVE  HoldsOK' /\ tab'[d] = U /\ \A c \in Core \ {d} : tab'[c] = tab[c]
<1>1. tab'[d] = U /\ \A c \in Core \ {d} : tab'[c] = tab[c]
  BY DEF SessionInv, ElectionInv, TablesOK
<1>2. \A c \in Core \ {d} :
         CountsAt(tab[c], Readers(c), Clips)' /\ OwnersAt(tab[c], Holders(c), Clips)'
  BY <1>1, TableKept
<1> QED BY <1>1, <1>2 DEF HoldsOK

\* A step that changes no table.
LEMMA NoTable ==
    ASSUME SessionInv, Agrees, tab' = tab,
           \A c \in Core : Readers(c)' = Readers(c) /\ Holders(c)' = Holders(c)
    PROVE  HoldsOK'
BY TableKept DEF HoldsOK

\* The streams on their way, when a step adds no clip to a table.
LEMMA StreamsKept ==
    ASSUME SessionInv, Agrees, net' = net,
           \A c \in Core : \A t \in tab'[c].live : t \in tab[c].live \/ t \notin Clips,
           \A i \in Slot : Busy(i)' =>
              \/ Busy(i) /\ slot'[i].by = slot[i].by /\ slot'[i].tx = slot[i].tx
              \/ /\ slot'[i].by \in Conn
                 /\ slot'[i].tx \in tab[Home[slot'[i].by]].live
    PROVE  NetFresh'
<1> SUFFICES ASSUME NEW m \in net
             PROVE  /\ minted'[m.tx].src # m.to /\ m.tx \notin tab'[m.to].live
                    /\ \A i \in Slot : Busy(i)' /\ slot'[i].tx = m.tx => Home[slot'[i].by] # m.to
                    /\ \A n \in net : n.tx = m.tx /\ n.to = m.to => n = m
  BY DEF NetFresh
<1>1. m.to \in Core /\ m.tx \in MintedTx /\ m.tx \in Clips
  BY DEF SessionInv, ElectionInv, NetOK, Clips
<1>2. /\ minted[m.tx].src # m.to /\ m.tx \notin tab[m.to].live
      /\ \A i \in Slot : Busy(i) /\ slot[i].tx = m.tx => Home[slot[i].by] # m.to
      /\ \A n \in net : n.tx = m.tx /\ n.to = m.to => n = m
  BY DEF SessionInv, NetFresh
<1>3. minted'[m.tx] = minted[m.tx]
  BY <1>1 DEF Agrees
<1>4. m.tx \notin tab'[m.to].live
  BY <1>1, <1>2
<1>5. ASSUME NEW i \in Slot, Busy(i)', slot'[i].tx = m.tx PROVE Home[slot'[i].by] # m.to
  BY <1>2, <1>5
<1> QED BY <1>2, <1>3, <1>4, <1>5

-----------------------------------------------------------------------------
(* Every action keeps the invariant: the election and the grants.           *)

\* What is fixed about the transaction minted.
LEMMA Minted ==
    ASSUME MintedOK, NEW r, minted' = Append(minted, r), NEW t, t = NextTx
    PROVE  /\ Agrees /\ t \in MintedTx' /\ t \notin MintedTx /\ minted'[t] = r /\ t # 0
           /\ Len(minted') = Len(minted) + 1 /\ MintedTx' = MintedTx \cup {t}
BY DEF MintedOK, Agrees, MintedTx, NextTx

\* Nothing is minted, something may have been set off.
LEMMA BudgetKept ==
    ASSUME BudgetOK, ElectionInv, minted' = minted, NEW e \in EventKind,
           events' = events \/ Event(e)
    PROVE  BudgetOK'
<1>1. CASE events' = events
  BY <1>1 DEF BudgetOK
<1>2. CASE Event(e)
  <2>1. events \in [EventKind -> Nat] /\ events[e] > 0
    BY <1>2 DEF BudgetOK, Event
  <2>2. /\ events' \in [EventKind -> Nat]
        /\ events'["copy"] <= events["copy"] /\ events'["publish"] <= events["publish"]
    BY <1>2, <2>1 DEF Event, EventKind
  <2>3. Len(minted) \in Nat /\ "copy" \in EventKind /\ "publish" \in EventKind
    BY DEF ElectionInv, MintedOK, EventKind
  <2> QED BY <2>1, <2>2, <2>3, BoundAssumption DEF BudgetOK
<1> QED BY <1>1, <1>2

\* A producer uses up the event it was set off by.
LEMMA BudgetSpent ==
    ASSUME BudgetOK, ElectionInv, Len(minted') = Len(minted) + 1,
           NEW e \in {"copy", "publish"}, Event(e)
    PROVE  BudgetOK' /\ NextTx \in TxId
<1>1. events \in [EventKind -> Nat] /\ events[e] > 0 /\ e \in EventKind
  BY DEF BudgetOK, Event, EventKind
<1>2. /\ events' \in [EventKind -> Nat]
      /\ events'["copy"] + events'["publish"] = events["copy"] + events["publish"] - 1
  BY <1>1 DEF Event, EventKind
<1>3. Len(minted) \in Nat /\ "copy" \in EventKind /\ "publish" \in EventKind
  BY DEF ElectionInv, MintedOK, EventKind
<1> QED BY <1>1, <1>2, <1>3, BoundAssumption DEF BudgetOK, NextTx, TxId

\* What make_current asks of the table it is given.
LEMMA CurrentFacts ==
    ASSUME SessionInv, NEW c \in Core
    PROVE  /\ tab[c].live \subseteq TxId /\ 0 \notin tab[c].live
           /\ tab[c].current = 0 \/ tab[c].current \in tab[c].live \cap Clips
           /\ \A u \in TxId : IsFiniteSet(Readers(c)[u])
           /\ CountsAt(tab[c], Readers(c), Clips) /\ OwnersAt(tab[c], Holders(c), Clips)
           /\ tab[c].live \subseteq MintedTx
<1>1. tab[c].live \subseteq TxId /\ 0 \notin tab[c].live /\ tab[c].live \subseteq MintedTx
  BY Bounds DEF SessionInv
<1>2. tab[c].current = 0 \/ tab[c].current \in tab[c].live \cap Clips
  BY <1>1, CurrentIsHeard DEF SessionInv, Clips
<1>3. \A u \in TxId : IsFiniteSet(Readers(c)[u])
  BY ReadersFinite DEF Readers
<1> QED BY <1>1, <1>2, <1>3 DEF SessionInv, HoldsOK

\* A copy: the clip is new, so nobody reads it, and the one it replaces stays
\* with its readers.
LEMMA CopySessions ==
    ASSUME SessionInv, ElectionInv', NEW c \in Core, NEW now, NEW b, clipboard_updated(c, now, b)
    PROVE  SessionInv' /\ PasteKept
<1>1. PICK t : t = NextTx
  OBVIOUS
<1>2. PICK r : r.src = c /\ r.producer = "clip" /\ minted' = Append(minted, r)
  BY DEF clipboard_updated
<1>3. /\ Agrees /\ t \in MintedTx' /\ t \notin MintedTx /\ minted'[t] = r /\ t # 0
      /\ Len(minted') = Len(minted) + 1 /\ MintedTx' = MintedTx \cup {t}
  BY <1>1, <1>2, Minted DEF SessionInv, ElectionInv
<1>4. BudgetOK' /\ t \in TxId
  BY <1>1, <1>3, BudgetSpent DEF SessionInv, clipboard_updated
<1>5. slot' = slot /\ phase' = phase /\ woken' = woken /\ conn' = conn
  BY DEF clipboard_updated, SessionsUnchanged
<1>6. SlotsOK' /\ HalvesKept
  BY <1>3, <1>5, SlotsStill DEF SessionInv
<1>7. \A d : Readers(d)' = Readers(d) /\ Holders(d)' = Holders(d)
  BY <1>5, <1>6, ReadersKept DEF Holders
<1>8. \A d : ReadersOf(d, t) = {}
  BY <1>3 DEF ReadersOf, Serving, Busy, TxOf, SessionInv, SlotsOK, SlotOK
<1>9. t \in Clips' /\ t \notin tab[c].live /\ Clips' \cap tab[c].live = Clips \cap tab[c].live
  <2>1. tab[c].live \subseteq MintedTx
    BY CurrentFacts
  <2> QED BY <1>2, <1>3, <2>1, ClipsAgree DEF Clips, IsClip
<1> DEFINE U == make_current(tab[c], t, b)
<1>10. /\ CountsAt(U, Readers(c), Clips') /\ OwnersAt(U, Holders(c), Clips')
       /\ Replaces(tab[c], U, t, Readers(c), Clips)
  <2>1. Readers(c)[t] = {}
    BY <1>4, <1>8 DEF Readers
  <2>2. /\ tab[c].live \subseteq TxId /\ 0 \notin tab[c].live
        /\ tab[c].current = 0 \/ tab[c].current \in tab[c].live \cap Clips
        /\ \A u \in TxId : IsFiniteSet(Readers(c)[u])
        /\ CountsAt(tab[c], Readers(c), Clips) /\ OwnersAt(tab[c], Holders(c), Clips)
    BY CurrentFacts
  <2>3. t \in TxId \cap Clips' /\ t \notin tab[c].live
    BY <1>4, <1>9
  <2>4. CountsAt(U, Readers(c), Clips')
    BY <1>9, <2>1, <2>2, <2>3, MakeCurrentHolds
  <2>5. OwnersAt(U, Holders(c), Clips')
    BY <1>9, <2>1, <2>2, <2>3, MakeCurrentHolds
  <2>6. Replaces(tab[c], U, t, Readers(c), Clips)
    BY <1>9, <2>1, <2>2, <2>3, MakeCurrentHolds
  <2> QED BY <2>4, <2>5, <2>6
<1>11. tab' = [tab EXCEPT ![c] = U]
  BY <1>1 DEF clipboard_updated
<1> HIDE DEF U
<1>12. HoldsOK' /\ tab'[c] = U /\ \A d \in Core \ {c} : tab'[d] = tab[d]
  BY <1>3, <1>7, <1>10, <1>11, OneTable
<1>13. NoLostWake'
  <2>1. \A d \in Core : \A u \in tab[d].live \ tab'[d].live : ReadersOf(d, u) = {}
    <3> SUFFICES ASSUME NEW u \in tab[c].live, u \notin U.live PROVE ReadersOf(c, u) = {}
      BY <1>12
    <3>1. u \in TxId
      BY CurrentFacts
    <3> QED BY <1>10, <3>1 DEF Readers, Replaces, Unread
  <2> QED BY <1>5, <1>6, <2>1, WakesKept
<1>14. NetFresh'
  <2>1. ASSUME NEW m \in net', m \notin net
        PROVE  m.tx = t /\ m.to \in Core \ {c} /\ m.push = b /\ m.checked = FALSE /\
               m = [tx |-> t, to |-> m.to, push |-> b, checked |-> FALSE]
    BY <1>1, <2>1 DEF clipboard_updated
  <2>2. ASSUME NEW m \in net
        PROVE  m.tx \in MintedTx /\ m.tx # t /\ m.to \in Core
    BY <1>3 DEF SessionInv, ElectionInv, NetOK
  <2>3. \A d \in Core : \A u \in tab'[d].live : u \in tab[d].live \/ (d = c /\ u = t)
    BY <1>10, <1>12 DEF Replaces
  <2>4. \A d \in Core : t \notin tab[d].live
    BY <1>3, CurrentFacts
  <2>5. \A i \in Slot : Busy(i) => slot[i].tx # t
    BY <1>3 DEF SessionInv, SlotsOK, SlotOK, Busy
  <2> SUFFICES ASSUME NEW m \in net'
               PROVE  /\ minted'[m.tx].src # m.to /\ m.tx \notin tab'[m.to].live
                      /\ \A i \in Slot : Busy(i) /\ slot[i].tx = m.tx => Home[slot[i].by] # m.to
                      /\ \A n \in net' : n.tx = m.tx /\ n.to = m.to => n = m
    BY <1>5 DEF NetFresh, Busy
  <2>6. CASE m \in net
    <3>1. minted'[m.tx] = minted[m.tx]
      BY <1>3, <2>2, <2>6 DEF Agrees
    <3>2. /\ minted[m.tx].src # m.to /\ m.tx \notin tab[m.to].live
          /\ \A i \in Slot : Busy(i) /\ slot[i].tx = m.tx => Home[slot[i].by] # m.to
          /\ \A n \in net : n.tx = m.tx /\ n.to = m.to => n = m
      BY <2>6 DEF SessionInv, NetFresh
    <3> QED BY <2>1, <2>2, <2>3, <2>6, <3>1, <3>2
  <2>7. CASE m \notin net
    <3>1. \A n \in net' : n.tx = m.tx /\ n.to = m.to => n = m
      BY <2>1, <2>2, <2>7
    <3>2. m.tx = t /\ m.to \in Core \ {c}
      BY <2>1, <2>7
    <3>3. minted'[m.tx].src # m.to
      BY <1>2, <1>3, <3>2
    <3>4. m.tx \notin tab'[m.to].live
      BY <2>3, <2>4, <3>2
    <3> QED BY <2>5, <3>1, <3>2, <3>3, <3>4
  <2> QED BY <2>6, <2>7
<1>15. PasteKept
  <2>1. \A d \in Core : \A u \in tab[d].live \ tab'[d].live : ReadersOf(d, u) = {}
    <3> SUFFICES ASSUME NEW u \in tab[c].live, u \notin U.live PROVE ReadersOf(c, u) = {}
      BY <1>12
    <3>1. u \in TxId
      BY CurrentFacts
    <3> QED BY <1>10, <3>1 DEF Readers, Replaces, Unread
  <2> QED BY <1>6, <2>1, PasteStill
<1> QED BY <1>4, <1>6, <1>12, <1>13, <1>14, <1>15 DEF SessionInv

\* The streams' steps before the election: one stream changes its form.
LEMMA StreamSessions ==
    ASSUME SessionInv, ElectionInv', NEW m \in net, FallBack(m) \/ build_remote_tx(m)
    PROVE  SessionInv' /\ PasteKept
<1>1. /\ minted' = minted /\ tab' = tab /\ conn' = conn /\ events' = events
      /\ slot' = slot /\ phase' = phase /\ woken' = woken
  BY DEF FallBack, build_remote_tx, SessionsUnchanged
<1>2. Agrees
  BY <1>1, NotMinting DEF SessionInv, ElectionInv
<1>3. SlotsOK' /\ HalvesKept
  BY <1>1, <1>2, SlotsStill DEF SessionInv
<1>4. BudgetOK'
  BY <1>1 DEF SessionInv, BudgetOK
<1>5. HoldsOK'
  BY <1>1, <1>2, <1>3, ReadersKept, NoTable DEF Holders
<1>6. NoLostWake'
  BY <1>1, <1>3, WakesKept
<1>7. PICK x : net' = (net \ {m}) \cup {x} /\ x.tx = m.tx /\ x.to = m.to
  <2>1. m \in [tx : Nat, to : Core, push : BOOLEAN, checked : BOOLEAN]
    BY DEF SessionInv, ElectionInv, NetOK
  <2> DEFINE unpushed == [m EXCEPT !.push = FALSE]
             verified == [m EXCEPT !.checked = TRUE]
  <2>2. net' = (net \ {m}) \cup {unpushed} \/ net' = (net \ {m}) \cup {verified}
    BY DEF FallBack, build_remote_tx
  <2>3. /\ unpushed.tx = m.tx /\ unpushed.to = m.to
        /\ verified.tx = m.tx /\ verified.to = m.to
    BY <2>1
  <2> HIDE DEF unpushed, verified
  <2> QED BY <2>2, <2>3
<1>8. NetFresh'
  <2> SUFFICES ASSUME NEW n \in net'
               PROVE  /\ minted[n.tx].src # n.to /\ n.tx \notin tab[n.to].live
                      /\ \A i \in Slot : Busy(i) /\ slot[i].tx = n.tx => Home[slot[i].by] # n.to
                      /\ \A o \in net' : o.tx = n.tx /\ o.to = n.to => o = n
    BY <1>1 DEF NetFresh, Busy
  <2>1. \A y \in net : /\ minted[y.tx].src # y.to /\ y.tx \notin tab[y.to].live
                       /\ \A i \in Slot : Busy(i) /\ slot[i].tx = y.tx => Home[slot[i].by] # y.to
                       /\ \A o \in net : o.tx = y.tx /\ o.to = y.to => o = y
    BY DEF SessionInv, NetFresh
  <2>2. CASE n = x
    BY <1>7, <2>1, <2>2
  <2>3. CASE n # x
    BY <1>7, <2>1, <2>3
  <2> QED BY <2>2, <2>3
<1>9. PasteKept
  BY <1>1, <1>3, PasteStill
<1> QED BY <1>3, <1>4, <1>5, <1>6, <1>8, <1>9 DEF SessionInv

\* An announce delivered: the clip was never here, so nobody reads it here.
LEMMA AnnounceSessions ==
    ASSUME SessionInv, ElectionInv', NEW m \in net, recv_announce(m)
    PROVE  SessionInv' /\ PasteKept
<1> DEFINE c == m.to
           t == m.tx
<1>1. /\ minted' = minted /\ conn' = conn /\ events' = events
      /\ slot' = slot /\ phase' = phase /\ woken' = woken /\ net' = net \ {m}
      /\ tab' = [tab EXCEPT ![c] = announce_remote(tab[c], t, m.push)]
  BY DEF recv_announce, SessionsUnchanged
<1>2. Agrees /\ Clips' = Clips
  BY <1>1, NotMinting DEF SessionInv, ElectionInv, Clips, MintedTx, IsClip
<1>3. SlotsOK' /\ HalvesKept
  BY <1>1, <1>2, SlotsStill DEF SessionInv
<1>4. BudgetOK'
  BY <1>1 DEF SessionInv, BudgetOK
<1>5. \A d : Readers(d)' = Readers(d) /\ Holders(d)' = Holders(d)
  BY <1>1, <1>3, ReadersKept DEF Holders
<1>6. /\ c \in Core /\ t \in MintedTx /\ t \in Clips /\ t \in TxId
      /\ minted[t].src # c /\ t \notin tab[c].live
      /\ \A i \in Slot : Busy(i) /\ slot[i].tx = t => Home[slot[i].by] # c
      /\ \A n \in net : n.tx = t /\ n.to = c => n = m
  <2>1. c \in Core /\ t \in MintedTx /\ t \in Clips
    BY DEF SessionInv, ElectionInv, NetOK, Clips
  <2>2. t \in TxId
    BY <2>1, Bounds DEF SessionInv
  <2> QED BY <2>1, <2>2 DEF SessionInv, NetFresh
<1> HIDE DEF c, t
<1>7. ReadersOf(c, t) = {}
  BY <1>6 DEF ReadersOf, Serving, At, TxOf, SourceOf
<1>8. PICK U : /\ tab' = [tab EXCEPT ![c] = U]
              /\ CountsAt(U, Readers(c), Clips) /\ OwnersAt(U, Holders(c), Clips)
              /\ Replaces(tab[c], U, t, Readers(c), Clips)
  <2>1. /\ tab[c].live \subseteq TxId /\ 0 \notin tab[c].live
        /\ tab[c].current = 0 \/ tab[c].current \in tab[c].live \cap Clips
        /\ \A u \in TxId : IsFiniteSet(Readers(c)[u])
        /\ CountsAt(tab[c], Readers(c), Clips) /\ OwnersAt(tab[c], Holders(c), Clips)
    BY <1>6, CurrentFacts
  <2>2. Readers(c)[t] = {} /\ t \in TxId \cap Clips
    BY <1>6, <1>7 DEF Readers
  <2>3. CASE announce_remote(tab[c], t, m.push) = tab[c]
    BY <1>1, <2>1, <2>3 DEF Replaces, Unread
  <2>4. CASE announce_remote(tab[c], t, m.push) = make_current(tab[c], t, m.push)
    <3> DEFINE W == make_current(tab[c], t, m.push)
    <3>1. CountsAt(W, Readers(c), Clips)
      BY <1>6, <2>1, <2>2, MakeCurrentHolds
    <3>2. OwnersAt(W, Holders(c), Clips)
      BY <1>6, <2>1, <2>2, MakeCurrentHolds
    <3>3. Replaces(tab[c], W, t, Readers(c), Clips)
      BY <1>6, <2>1, <2>2, MakeCurrentHolds
    <3> QED BY <1>1, <2>4, <3>1, <3>2, <3>3
  <2> QED BY <2>3, <2>4 DEF announce_remote
<1>9. HoldsOK' /\ tab'[c] = U /\ \A d \in Core \ {c} : tab'[d] = tab[d]
  BY <1>2, <1>5, <1>6, <1>8, OneTable
<1>10. NoLostWake'
  <2>1. \A d \in Core : \A u \in tab[d].live \ tab'[d].live : ReadersOf(d, u) = {}
    <3> SUFFICES ASSUME NEW u \in tab[c].live, u \notin U.live PROVE ReadersOf(c, u) = {}
      BY <1>9
    <3>1. u \in TxId
      BY <1>6, CurrentFacts
    <3> QED BY <1>8, <3>1 DEF Readers, Replaces, Unread
  <2> QED BY <1>1, <1>3, <2>1, WakesKept
<1>11. NetFresh'
  <2> SUFFICES ASSUME NEW n \in net, n # m
               PROVE  /\ minted[n.tx].src # n.to /\ n.tx \notin tab'[n.to].live
                      /\ \A i \in Slot : Busy(i) /\ slot[i].tx = n.tx => Home[slot[i].by] # n.to
                      /\ \A o \in net : o.tx = n.tx /\ o.to = n.to => o = n
    BY <1>1 DEF NetFresh, Busy
  <2>1. /\ minted[n.tx].src # n.to /\ n.tx \notin tab[n.to].live /\ n.to \in Core
        /\ \A i \in Slot : Busy(i) /\ slot[i].tx = n.tx => Home[slot[i].by] # n.to
        /\ \A o \in net : o.tx = n.tx /\ o.to = n.to => o = n
    BY DEF SessionInv, NetFresh, ElectionInv, NetOK
  <2>2. n.tx \notin tab'[n.to].live
    BY <1>6, <1>8, <1>9, <2>1 DEF Replaces
  <2> QED BY <2>1, <2>2
<1>12. PasteKept
  <2>1. \A d \in Core : \A u \in tab[d].live \ tab'[d].live : ReadersOf(d, u) = {}
    <3> SUFFICES ASSUME NEW u \in tab[c].live, u \notin U.live PROVE ReadersOf(c, u) = {}
      BY <1>9
    <3>1. u \in TxId
      BY <1>6, CurrentFacts
    <3> QED BY <1>8, <3>1 DEF Readers, Replaces, Unread
  <2> QED BY <1>3, <2>1, PasteStill
<1> QED BY <1>3, <1>4, <1>9, <1>10, <1>11, <1>12 DEF SessionInv

\* A cleared table holds nothing, and all its Core's waiters wake.
LEMMA ClearSessions ==
    ASSUME SessionInv, ElectionInv', NEW c \in Core, NEW leaves, Clear(c, leaves)
    PROVE  SessionInv' /\ PasteKept
<1>1. /\ minted' = minted /\ conn' = conn /\ Event("clear") /\ net' = net
      /\ slot' = slot /\ phase' = phase /\ woken' = woken \cup notify_waiters(c)
      /\ tab' = [tab EXCEPT ![c] = EmptyTable]
  BY DEF Clear
<1>2. Agrees
  BY <1>1, NotMinting DEF SessionInv, ElectionInv
<1>3. SlotsOK' /\ HalvesKept
  BY <1>1, <1>2, SlotsStill DEF SessionInv
<1>4. BudgetOK'
  BY <1>1, BudgetKept DEF SessionInv, EventKind
<1>5. \A d : Readers(d)' = Readers(d) /\ Holders(d)' = Holders(d)
  BY <1>1, <1>3, ReadersKept DEF Holders
<1>6. CountsAt(EmptyTable, Readers(c)', Clips') /\ OwnersAt(EmptyTable, Holders(c)', Clips')
  BY EmptyHolds
<1>7. HoldsOK' /\ tab'[c] = EmptyTable /\ \A d \in Core \ {c} : tab'[d] = tab[d]
  BY <1>1, <1>2, <1>5, <1>6, OneTable
<1>8. NoLostWake'
  BY <1>1, <1>3, <1>7, WakesKept
<1>9. NetFresh'
  <2>1. \A d \in Core : tab'[d].live \subseteq tab[d].live
    BY <1>7 DEF EmptyTable
  <2> QED BY <1>1, <1>2, <2>1, StreamsKept DEF Busy
<1>10. PasteKept
  BY <1>3, <1>7, PasteStill
<1> QED BY <1>3, <1>4, <1>7, <1>8, <1>9, <1>10 DEF SessionInv

\* A connection that stays open stays a holder.
LEMMA HoldersKept ==
    ASSUME \A k \in Conn : conn'[k].st = "closed" <=> conn[k].st = "closed"
    PROVE  \A c : Holders(c)' = Holders(c)
BY DEF Holders

\* An adopt's steps that touch no table.
LEMMA AdoptSessions ==
    ASSUME SessionInv, ElectionInv', NEW k \in Conn,
           (\E t : adopt(k, t)) \/ serve_tx_fetch(k) \/ AdoptFails(k)
    PROVE  SessionInv' /\ PasteKept
<1>1. /\ minted' = minted /\ tab' = tab /\ net' = net
      /\ slot' = slot /\ phase' = phase /\ woken' = woken
      /\ events' = events \/ Event("adopt")
  BY DEF adopt, serve_tx_fetch, AdoptFails, SessionsUnchanged
<1>2. Agrees
  BY <1>1, NotMinting DEF SessionInv, ElectionInv
<1>3. SlotsOK' /\ HalvesKept
  BY <1>1, <1>2, SlotsStill DEF SessionInv
<1>4. BudgetOK'
  BY <1>1, BudgetKept DEF SessionInv, EventKind
<1>5. \A c : Holders(c)' = Holders(c)
  <2>1. conn \in [Conn -> [st : {"open", "adopting", "closed"}, tx : Nat,
                           reply : {"none", "manifest", "stale"}]]
    BY DEF SessionInv, ElectionInv, ConnOK
  <2>2. conn[k].st # "closed"
    BY DEF adopt, serve_tx_fetch, AdoptFails
  <2>3. CASE \E t : adopt(k, t)
    <3>1. PICK t : conn' = [conn EXCEPT ![k] = [st |-> "adopting", tx |-> t, reply |-> "none"]]
      BY <2>3 DEF adopt
    <3>2. \A j \in Conn : conn'[j].st = "closed" <=> conn[j].st = "closed"
      BY <2>1, <2>2, <3>1
    <3> QED BY <3>2, HoldersKept
  <2>4. CASE serve_tx_fetch(k)
    <3>1. PICK x : conn' = [conn EXCEPT ![k].reply = x]
      BY <2>4 DEF serve_tx_fetch
    <3>2. \A j \in Conn : conn'[j].st = conn[j].st
      BY <2>1, <3>1
    <3> QED BY <3>2 DEF Holders
  <2>5. CASE AdoptFails(k)
    <3>1. conn' = [conn EXCEPT ![k] = [st |-> "open", tx |-> 0, reply |-> "none"]]
      BY <2>5 DEF AdoptFails, AdoptDone
    <3>2. \A j \in Conn : conn'[j].st = "closed" <=> conn[j].st = "closed"
      BY <2>1, <2>2, <3>1
    <3> QED BY <3>2, HoldersKept
  <2> QED BY <2>3, <2>4, <2>5
<1>6. HoldsOK'
  BY <1>1, <1>2, <1>3, <1>5, ReadersKept, NoTable
<1>7. NoLostWake'
  BY <1>1, <1>3, WakesKept
<1>8. NetFresh'
  BY <1>1, <1>2, StreamsKept DEF Busy
<1>9. PasteKept
  BY <1>1, <1>3, PasteStill
<1> QED BY <1>3, <1>4, <1>6, <1>7, <1>8, <1>9 DEF SessionInv

\* Publishing: the publisher is the entry's one owner.
LEMMA PublishSessions ==
    ASSUME SessionInv, ElectionInv', NEW k \in Conn, transactions_publish(k)
    PROVE  SessionInv' /\ PasteKept
<1> DEFINE c == Home[k]
<1>0. c \in Core
  BY ConnAssumption
<1>1. PICK t : t = NextTx
  OBVIOUS
<1>2. PICK r : r.producer = "pub" /\ minted' = Append(minted, r)
  BY DEF transactions_publish
<1>3. /\ Agrees /\ t \in MintedTx' /\ t \notin MintedTx /\ minted'[t] = r /\ t # 0
      /\ Len(minted') = Len(minted) + 1 /\ MintedTx' = MintedTx \cup {t}
  BY <1>1, <1>2, Minted DEF SessionInv, ElectionInv
<1>4. BudgetOK' /\ t \in TxId
  BY <1>1, <1>3, BudgetSpent DEF SessionInv, transactions_publish
<1>5. /\ slot' = slot /\ phase' = phase /\ woken' = woken /\ conn' = conn /\ net' = net
      /\ conn[k].st = "open"
  BY DEF transactions_publish, SessionsUnchanged
<1>6. SlotsOK' /\ HalvesKept
  BY <1>3, <1>5, SlotsStill DEF SessionInv
<1>7. \A d : Readers(d)' = Readers(d) /\ Holders(d)' = Holders(d)
  BY <1>5, <1>6, ReadersKept DEF Holders
<1> DEFINE U == publish(tab[c], t, k)
<1>8. tab' = [tab EXCEPT ![c] = U]
  BY <1>1 DEF transactions_publish
<1>9. t \notin Clips' /\ Clips' \cap tab[c].live = Clips \cap tab[c].live
  <2>1. tab[c].live \subseteq MintedTx
    BY <1>0, CurrentFacts
  <2> QED BY <1>2, <1>3, <2>1, ClipsAgree DEF Clips, IsClip
<1>10. CountsAt(U, Readers(c), Clips') /\ OwnersAt(U, Holders(c), Clips')
       /\ U.live = tab[c].live \cup {t}
  <2>1. k \in Holders(c) \cap Conn
    BY <1>5 DEF Holders
  <2>2. /\ CountsAt(tab[c], Readers(c), Clips) /\ OwnersAt(tab[c], Holders(c), Clips)
        /\ tab[c].live \subseteq TxId
    BY <1>0, CurrentFacts
  <2>3. PICK W : W = U
    OBVIOUS
  <2> HIDE DEF U, c
  <2>4. W = publish(tab[c], t, k)
    BY <2>3 DEF U
  <2>5. CountsAt(W, Readers(c), Clips')
    BY <1>4, <1>9, <2>1, <2>2, <2>4, InstallHolds
  <2>6. OwnersAt(W, Holders(c), Clips')
    BY <1>4, <1>9, <2>1, <2>2, <2>4, InstallHolds
  <2>7. W.live = tab[c].live \cup {t}
    BY <1>4, <1>9, <2>1, <2>2, <2>4, InstallHolds
  <2> QED BY <2>3, <2>5, <2>6, <2>7
<1> HIDE DEF U, c
<1>11. HoldsOK' /\ tab'[c] = U /\ \A d \in Core \ {c} : tab'[d] = tab[d]
  BY <1>0, <1>3, <1>7, <1>8, <1>10, OneTable
<1>12. NoLostWake'
  BY <1>5, <1>6, <1>10, <1>11, WakesKept
<1>13. NetFresh'
  <2>1. t \notin Clips
    BY <1>3 DEF Clips
  <2>2. \A d \in Core : \A u \in tab'[d].live : u \in tab[d].live \/ u \notin Clips
    BY <1>10, <1>11, <2>1
  <2> QED BY <1>3, <1>5, <2>2, StreamsKept DEF Busy
<1>14. PasteKept
  BY <1>6, <1>10, <1>11, PasteStill
<1> QED BY <1>4, <1>6, <1>11, <1>12, <1>13, <1>14 DEF SessionInv

\* An adopter joins the owners of what it adopted, which is no clip.
LEMMA InstallSessions ==
    ASSUME SessionInv, ElectionInv', NEW k \in Conn, AdoptInstalls(k)
    PROVE  SessionInv' /\ PasteKept
<1>0. PICK c, t : c = Home[k] /\ t = conn[k].tx
  OBVIOUS
<1>1. /\ minted' = minted /\ events' = events /\ slot' = slot /\ phase' = phase
      /\ woken' = woken /\ net' = net /\ conn[k].st = "adopting"
      /\ conn' = [conn EXCEPT ![k] = [st |-> "open", tx |-> 0, reply |-> "none"]]
  BY DEF AdoptInstalls, AdoptDone, SessionsUnchanged
<1>2. Agrees /\ Clips' = Clips
  BY <1>1, NotMinting DEF SessionInv, ElectionInv, Clips, MintedTx, IsClip
<1>3. SlotsOK' /\ HalvesKept
  BY <1>1, <1>2, SlotsStill DEF SessionInv
<1>4. BudgetOK'
  BY <1>1 DEF SessionInv, BudgetOK
<1>5. \A d : Readers(d)' = Readers(d) /\ Holders(d)' = Holders(d)
  <2>1. \A j \in Conn : conn'[j].st = "closed" <=> conn[j].st = "closed"
    BY <1>1 DEF SessionInv, ElectionInv, ConnOK
  <2> QED BY <1>3, <2>1, ReadersKept, HoldersKept
<1>6. c \in Core /\ t \in TxId /\ t \notin Clips /\ k \in Holders(c) \cap Conn
  <2>1. c \in Core
    BY <1>0, ConnAssumption
  <2>2. t \in MintedTx /\ ~IsClip(t)
    BY <1>0, <1>1 DEF SessionInv, ElectionInv, ConnOK
  <2>3. MintedTx \subseteq TxId
    BY Bounds DEF SessionInv
  <2> QED BY <1>0, <1>1, <2>1, <2>2, <2>3 DEF Clips, Holders
<1>7. PICK U : U = install_adopted(tab[c], t, k)
  OBVIOUS
<1>8. tab' = [tab EXCEPT ![c] = U]
  BY <1>0, <1>7 DEF AdoptInstalls
<1>9. /\ CountsAt(tab[c], Readers(c), Clips) /\ OwnersAt(tab[c], Holders(c), Clips)
      /\ tab[c].live \subseteq TxId
  BY <1>6, CurrentFacts
<1>10. CountsAt(U, Readers(c), Clips)
  BY <1>6, <1>7, <1>9, InstallHolds
<1>11. OwnersAt(U, Holders(c), Clips)
  BY <1>6, <1>7, <1>9, InstallHolds
<1>12. U.live = tab[c].live \cup {t}
  BY <1>6, <1>7, <1>9, InstallHolds
<1>13. HoldsOK' /\ tab'[c] = U /\ \A d \in Core \ {c} : tab'[d] = tab[d]
  BY <1>2, <1>5, <1>6, <1>8, <1>10, <1>11, OneTable
<1>14. NoLostWake'
  BY <1>1, <1>3, <1>12, <1>13, WakesKept
<1>15. NetFresh'
  <2>1. \A d \in Core : \A u \in tab'[d].live : u \in tab[d].live \/ u \notin Clips
    BY <1>6, <1>12, <1>13
  <2> QED BY <1>1, <1>2, <2>1, StreamsKept DEF Busy
<1>16. PasteKept
  BY <1>3, <1>12, <1>13, PasteStill
<1> QED BY <1>3, <1>4, <1>13, <1>14, <1>15, <1>16 DEF SessionInv

\* An entry is evicted and its Core's waiters wake, all of them.
LEMMA EvictSessions ==
    ASSUME SessionInv, ElectionInv', NEW c \in Core, NEW t, Agrees, Clips' = Clips, BudgetOK',
           slot' = slot, phase' = phase, net' = net, \A d : Holders(d)' = Holders(d),
           tab' = [tab EXCEPT ![c] = evict_published(tab[c], t)],
           woken \subseteq woken', tab'[c] # tab[c] => notify_waiters(c) \subseteq woken'
    PROVE  SessionInv' /\ PasteKept
<1>1. SlotsOK' /\ HalvesKept
  BY SlotsStill DEF SessionInv
<1>2. \A d : Readers(d)' = Readers(d)
  BY <1>1, ReadersKept
<1>3. /\ CountsAt(tab[c], Readers(c), Clips) /\ OwnersAt(tab[c], Holders(c), Clips)
      /\ tab[c].live \subseteq TxId /\ tab[c].live \subseteq MintedTx
  BY CurrentFacts
<1>4. PICK U : U = evict_published(tab[c], t)
  OBVIOUS
<1>5. /\ CountsAt(U, Readers(c), Clips) /\ OwnersAt(U, Holders(c), Clips)
      /\ U.live \subseteq tab[c].live /\ \A u \in tab[c].live : IsClip(u) => u \in U.live
  <2>1. LET W == evict_published(tab[c], t) IN
           /\ CountsAt(W, Readers(c), Clips)
           /\ OwnersAt(W, Holders(c), Clips)
           /\ W.live \subseteq tab[c].live
           /\ \A u \in tab[c].live : IsClip(u) => u \in W.live
    BY <1>3, EvictHolds
  <2> QED BY <1>4, <2>1
<1>6. HoldsOK' /\ tab'[c] = U /\ \A d \in Core \ {c} : tab'[d] = tab[d]
  BY <1>2, <1>4, <1>5, OneTable
<1>7. NoLostWake'
  <2>1. \A d \in Core : \A u \in tab[d].live \ tab'[d].live : notify_waiters(d) \subseteq woken'
    <3> SUFFICES ASSUME NEW d \in Core, NEW u \in tab[d].live \ tab'[d].live
                 PROVE  notify_waiters(d) \subseteq woken'
      OBVIOUS
    <3>1. d = c /\ tab'[c] # tab[c]
      BY <1>6
    <3> QED BY <3>1
  <2> QED BY <1>1, <2>1, WakesKept
<1>8. NetFresh'
  <2>1. \A d \in Core : \A u \in tab'[d].live : u \in tab[d].live
    BY <1>5, <1>6
  <2> QED BY <2>1, StreamsKept DEF Busy
<1>9. PasteKept
  <2>1. \A d \in Core : \A u \in tab[d].live \ tab'[d].live : ~IsClip(u)
    BY <1>5, <1>6
  <2> QED BY <1>1, <2>1, PasteStill
<1> QED BY <1>1, <1>6, <1>7, <1>8, <1>9 DEF SessionInv

\* A publisher's revocation, and an adopter's on its source's word.
LEMMA RevokeSessions ==
    ASSUME SessionInv, ElectionInv', NEW k \in Conn,
           (\E t : transactions_revoke(k, t)) \/ AdoptEvicts(k)
    PROVE  SessionInv' /\ PasteKept
<1>0. PICK c : c = Home[k] /\ c \in Core
  BY ConnAssumption
<1>1. /\ minted' = minted /\ net' = net /\ slot' = slot /\ phase' = phase
      /\ events' = events \/ Event("revoke")
  BY DEF transactions_revoke, AdoptEvicts
<1>2. Agrees /\ Clips' = Clips
  BY <1>1, NotMinting DEF SessionInv, ElectionInv, Clips, MintedTx, IsClip
<1>3. BudgetOK'
  BY <1>1, BudgetKept DEF SessionInv, EventKind
<1>4. CASE \E t : transactions_revoke(k, t)
  <2>1. PICK t : transactions_revoke(k, t)
    BY <1>4
  <2>2. /\ tab' = [tab EXCEPT ![c] = evict_published(tab[c], t)]
        /\ woken' = woken \cup notify_waiters(c) /\ conn' = conn
    BY <1>0, <2>1 DEF transactions_revoke
  <2>3. \A d : Holders(d)' = Holders(d)
    BY <2>2 DEF Holders
  <2> QED BY <1>0, <1>1, <1>2, <1>3, <2>2, <2>3, EvictSessions
<1>5. CASE AdoptEvicts(k)
  <2>1. /\ tab' = [tab EXCEPT ![c] = evict_published(tab[c], conn[k].tx)]
        /\ woken' = IF tab'[c] # tab[c] THEN woken \cup notify_waiters(c) ELSE woken
        /\ conn' = [conn EXCEPT ![k] = [st |-> "open", tx |-> 0, reply |-> "none"]]
        /\ conn[k].st = "adopting"
    BY <1>0, <1>5 DEF AdoptEvicts, AdoptDone
  <2>2. \A j \in Conn : conn'[j].st = "closed" <=> conn[j].st = "closed"
    BY <2>1 DEF SessionInv, ElectionInv, ConnOK
  <2>3. \A d : Holders(d)' = Holders(d)
    BY <2>2, HoldersKept
  <2>4. woken \subseteq woken' /\ (tab'[c] # tab[c] => notify_waiters(c) \subseteq woken')
    BY <2>1
  <2> QED BY <1>0, <1>1, <1>2, <1>3, <2>1, <2>3, <2>4, EvictSessions
<1> QED BY <1>4, <1>5

\* A connection that goes: its tokens never attached, so no half goes with it,
\* and its name goes from every entry it owned.
LEMMA TeardownSessions ==
    ASSUME SessionInv, ElectionInv', NEW k \in Conn, teardown(k)
    PROVE  SessionInv' /\ PasteKept
<1>0. PICK c : c = Home[k] /\ c \in Core
  BY ConnAssumption
<1>1. PICK D : D = {i \in Slot : /\ Busy(i) /\ slot[i].by = k
                                 /\ slot[i].kind = "channel" /\ phase[i]["near"] = "granted"}
  OBVIOUS
<1>2. /\ minted' = minted /\ net' = net /\ Event("close") /\ conn[k].st = "open"
      /\ conn' = [conn EXCEPT ![k].st = "closed"]
      /\ slot' = [i \in Slot |-> IF i \in D THEN NoSlot ELSE slot[i]]
      /\ phase' = [i \in Slot |-> IF i \in D THEN [h \in Side |-> "off"] ELSE phase[i]]
      /\ tab' = [tab EXCEPT ![c] = revoke_owned_by(tab[c], k)]
      /\ woken' = IF OwnedOnlyBy(tab[c], k) # {} THEN woken \cup notify_waiters(c) ELSE woken
  BY <1>0, <1>1 DEF teardown
<1>3. Agrees /\ Clips' = Clips /\ MintedTx' = MintedTx
  BY <1>2, NotMinting DEF SessionInv, ElectionInv, Clips, MintedTx, IsClip
<1>4. BudgetOK'
  BY <1>2, BudgetKept DEF SessionInv, EventKind
<1>5. \A i \in Slot : IF i \in D THEN slot'[i] = NoSlot /\ phase'[i] = [h \in Side |-> "off"]
                                 ELSE slot'[i] = slot[i] /\ phase'[i] = phase[i]
  BY <1>2
<1>6. SlotsOK'
  <2>1. ASSUME NEW i \in Slot PROVE SlotOK(i)'
    <3>1. SlotOK(i)
      BY DEF SessionInv, SlotsOK
    <3>2. CASE i \in D
      BY <1>5, <3>2 DEF SlotOK, NoSlot, Side, HalfPhase
    <3>3. CASE i \notin D
      BY <1>3, <1>5, <3>1, <3>3 DEF SlotOK
    <3> QED BY <3>2, <3>3
  <2> QED BY <1>2, <2>1 DEF SlotsOK
<1>7. HalvesKept
  <2> SUFFICES ASSUME NEW i \in Slot, NEW h \in Side PROVE HalfKept(i, h)
    BY DEF HalvesKept
  <2>1. SlotOK(i)
    BY DEF SessionInv, SlotsOK
  <2>2. CASE i \in D
    <3>1. ~Serving(i, h)
      BY <1>1, <2>1, <2>2 DEF Serving, SlotOK, Side, Busy
    <3>2. ~Serving(i, h)'
      BY <1>5, <2>2 DEF Serving, Busy, NoSlot
    <3> QED BY <3>1, <3>2 DEF HalfKept
  <2>3. CASE i \notin D
    <3>1. slot'[i] = slot[i] /\ phase'[i] = phase[i]
      BY <1>5, <2>3
    <3> QED BY <1>2, <3>1 DEF HalfKept, Serving, Busy, At, TxOf, SourceOf
  <2> QED BY <2>2, <2>3
<1>8. \A d : Readers(d)' = Readers(d)
  BY <1>7, ReadersKept
<1>9. \A j \in Conn : conn'[j].st = IF j = k THEN "closed" ELSE conn[j].st
  BY <1>2 DEF SessionInv, ElectionInv, ConnOK
<1>10. Holders(c)' = Holders(c) \ {k} /\ \A d \in Core \ {c} : Holders(d)' = Holders(d)
  BY <1>0, <1>9 DEF Holders
<1>11. /\ CountsAt(tab[c], Readers(c), Clips) /\ OwnersAt(tab[c], Holders(c), Clips)
       /\ tab[c].live \subseteq TxId /\ tab[c].live \subseteq MintedTx
  BY <1>0, CurrentFacts
<1>12. PICK U : U = revoke_owned_by(tab[c], k)
  OBVIOUS
<1>13. /\ CountsAt(U, Readers(c), Clips) /\ OwnersAt(U, Holders(c) \ {k}, Clips)
       /\ U.live = tab[c].live \ OwnedOnlyBy(tab[c], k)
  <2>1. LET W == revoke_owned_by(tab[c], k) IN
           /\ CountsAt(W, Readers(c), Clips)
           /\ OwnersAt(W, Holders(c) \ {k}, Clips)
           /\ W.live = tab[c].live \ OwnedOnlyBy(tab[c], k)
    BY <1>11, RevokeHolds
  <2> QED BY <1>12, <2>1
<1>14. HoldsOK' /\ tab'[c] = U /\ \A d \in Core \ {c} : tab'[d] = tab[d]
  <2>1. CountsAt(U, Readers(c)', Clips') /\ OwnersAt(U, Holders(c)', Clips')
    BY <1>3, <1>8, <1>10, <1>13
  <2>2. \A d \in Core \ {c} : Readers(d)' = Readers(d) /\ Holders(d)' = Holders(d)
    BY <1>8, <1>10
  <2>3. tab' = [tab EXCEPT ![c] = U]
    BY <1>2, <1>12
  <2> QED BY <1>0, <1>3, <2>1, <2>2, <2>3, OneTable
<1>15. NoLostWake'
  <2>1. \A d \in Core : \A u \in tab[d].live \ tab'[d].live : notify_waiters(d) \subseteq woken'
    BY <1>2, <1>13, <1>14
  <2>2. woken \subseteq woken'
    BY <1>2
  <2>3. \A i \in Slot, h \in Side : phase'[i][h] = "parked" /\ Serving(i, h) =>
              phase[i][h] = "parked"
    BY <1>5
  <2> QED BY <1>7, <2>1, <2>2, <2>3, WakesKept
<1>16. NetFresh'
  <2>1. \A d \in Core : \A u \in tab'[d].live : u \in tab[d].live
    BY <1>13, <1>14
  <2>2. \A i \in Slot : Busy(i)' => Busy(i) /\ slot'[i].by = slot[i].by /\ slot'[i].tx = slot[i].tx
    BY <1>5 DEF Busy, NoSlot
  <2> QED BY <1>2, <1>3, <2>1, <2>2, StreamsKept
<1>17. PasteKept
  <2>1. \A d \in Core : \A u \in tab[d].live \ tab'[d].live : ~IsClip(u)
    BY <1>13, <1>14 DEF OwnedOnlyBy
  <2> QED BY <1>7, <2>1, PasteStill
<1> QED BY <1>4, <1>6, <1>14, <1>15, <1>16, <1>17 DEF SessionInv

-----------------------------------------------------------------------------
(* Every action keeps the invariant: the sessions.                          *)

\* A step of one half leaves every other half alone, as the invariant sees it.
OthersKept(i, h) ==
    \A j \in Slot, g \in Side : <<j, g>> # <<i, h>> =>
       /\ HalfKept(j, g)
       /\ phase'[j][g] = "parked" /\ Serving(j, g) => phase[j][g] = "parked"

\* Where nothing is granted on another connection, no stream's clip is asked for.
SameSessions ==
    \A j \in Slot : Busy(j)' => Busy(j) /\ slot'[j].by = slot[j].by /\ slot'[j].tx = slot[j].tx

\* The readers when one half starts or stops to read t from c.
LEMMA ReadersMoved ==
    ASSUME NEW i \in Slot, NEW h \in Side, OthersKept(i, h), NEW c, NEW t \in TxId,
           Serving(i, h) => At(i, h) = c /\ TxOf(i) = t,
           Serving(i, h)' => At(i, h)' = c /\ TxOf(i)' = t
    PROVE  /\ \A d : \A u \in TxId : d # c \/ u # t => ReadersOf(d, u)' = ReadersOf(d, u)
           /\ Serving(i, h)' => ReadersOf(c, t)' = ReadersOf(c, t) \cup {<<i, h>>}
           /\ ~Serving(i, h)' => ReadersOf(c, t)' = ReadersOf(c, t) \ {<<i, h>>}
           /\ ~Serving(i, h) => <<i, h>> \notin ReadersOf(c, t)
           /\ Serving(i, h) => <<i, h>> \in ReadersOf(c, t)
<1>1. \A j \in Slot, g \in Side : <<j, g>> # <<i, h>> =>
         /\ Serving(j, g)' <=> Serving(j, g)
         /\ Serving(j, g) => At(j, g)' = At(j, g) /\ TxOf(j)' = TxOf(j)
  BY DEF OthersKept, HalfKept
<1>2. ASSUME NEW d, NEW u \in TxId, NEW w \in Slot \X Side, w # <<i, h>>
      PROVE  w \in ReadersOf(d, u)' <=> w \in ReadersOf(d, u)
  BY <1>1, <1>2 DEF ReadersOf
<1>3. ASSUME NEW d, NEW u \in TxId
      PROVE  /\ <<i, h>> \in ReadersOf(d, u) <=> Serving(i, h) /\ d = c /\ u = t
             /\ <<i, h>> \in ReadersOf(d, u)' <=> Serving(i, h)' /\ d = c /\ u = t
             /\ ReadersOf(d, u) \subseteq Slot \X Side
             /\ ReadersOf(d, u)' \subseteq Slot \X Side
  BY DEF ReadersOf
<1>4. ASSUME NEW d, NEW u \in TxId, d # c \/ u # t
      PROVE  ReadersOf(d, u)' = ReadersOf(d, u)
  BY <1>2, <1>3, <1>4
<1>5. ASSUME Serving(i, h)' PROVE ReadersOf(c, t)' = ReadersOf(c, t) \cup {<<i, h>>}
  BY <1>2, <1>3, <1>5
<1>6. ASSUME ~Serving(i, h)' PROVE ReadersOf(c, t)' = ReadersOf(c, t) \ {<<i, h>>}
  BY <1>2, <1>3, <1>6
<1> QED BY <1>3, <1>4, <1>5, <1>6

\* No other half sleeps through the step of one.
LEMMA OthersWake ==
    ASSUME SessionInv, NEW i \in Slot, NEW h \in Side, OthersKept(i, h),
           woken \ {<<i, h>>} \subseteq woken',
           phase'[i][h] = "parked" => LiveAt(i, h)',
           \A c \in Core : \A t \in tab[c].live \ tab'[c].live :
              \/ ReadersOf(c, t) \subseteq {<<i, h>>}
              \/ notify_waiters(c) \ {<<i, h>>} \subseteq woken'
    PROVE  NoLostWake'
<1> SUFFICES ASSUME NEW j \in Slot, NEW g \in Side, Serving(j, g)', phase'[j][g] = "parked",
                    ~LiveAt(j, g)'
             PROVE  <<j, g>> \in woken'
  BY DEF NoLostWake
<1>1. <<j, g>> # <<i, h>>
  OBVIOUS
<1>2. HalfKept(j, g) /\ (phase'[j][g] = "parked" /\ Serving(j, g) => phase[j][g] = "parked")
  BY <1>1 DEF OthersKept
<1>3. \A c \in Core : \A t \in tab[c].live \ tab'[c].live :
         <<j, g>> \in ReadersOf(c, t) /\ <<j, g>> \in notify_waiters(c) => <<j, g>> \in woken'
  BY <1>1
<1> QED BY <1>1, <1>2, <1>3, WakeHeld

\* What a session's step never touches.
Elsewhere == minted' = minted /\ net' = net /\ conn' = conn

LEMMA ElsewhereKept ==
    ASSUME SessionInv, Elsewhere
    PROVE  /\ Agrees /\ Clips' = Clips /\ MintedTx' = MintedTx
           /\ \A c : Holders(c)' = Holders(c)
BY NotMinting DEF Elsewhere, SessionInv, ElectionInv, Clips, MintedTx, IsClip, Holders

\* transactions.open and transactions.fill: a grant that reads nothing yet.
LEMMA AskSessions ==
    ASSUME SessionInv, ElectionInv', NEW i \in Slot, NEW k \in Conn, NEW t, NEW kind \in {"channel", "fill"},
           Ask(i, k, t, kind)
    PROVE  SessionInv' /\ PasteKept
<1>1. PICK r : r = [kind |-> kind, by |-> k, tx |-> t, relay |-> FALSE, dialed |-> FALSE]
  OBVIOUS
<1>2. /\ Elsewhere /\ tab' = tab /\ woken' = woken /\ Event("ask") /\ ~Busy(i)
      /\ slot' = [slot EXCEPT ![i] = r]
      /\ phase' = [phase EXCEPT ![i]["near"] = "granted"]
      /\ t \in tab[Home[k]].live
  BY <1>1 DEF Ask, Elsewhere, is_openable
<1>3. /\ Agrees /\ MintedTx' = MintedTx /\ \A c : Holders(c)' = Holders(c)
  BY <1>2, ElsewhereKept
<1>4. BudgetOK'
  BY <1>2, BudgetKept DEF SessionInv, EventKind, Elsewhere
<1>5. /\ Home[k] \in Core /\ t \in MintedTx
  BY <1>2, ConnAssumption, CurrentFacts
<1>6. /\ SlotOK(i) /\ phase[i]["near"] = "off" /\ phase[i]["far"] = "off"
  BY <1>2 DEF SessionInv, SlotsOK, SlotOK, Busy
<1>7. /\ slot'[i] = r /\ phase'[i] = [phase[i] EXCEPT !["near"] = "granted"]
      /\ slot' = [j \in Slot |-> slot'[j]] /\ phase' = [j \in Slot |-> phase'[j]]
      /\ \A j \in Slot \ {i} : slot'[j] = slot[j] /\ phase'[j] = phase[j]
  BY <1>2 DEF SessionInv, SlotsOK
<1>8. phase'[i]["near"] = "granted" /\ phase'[i]["far"] = "off"
  BY <1>6, <1>7 DEF SlotOK, Side
<1>9. SlotsOK'
  <2>1. SlotOK(i)'
    <3>1. phase'[i] \in [Side -> HalfPhase]
      BY <1>6, <1>7 DEF SlotOK, HalfPhase
    <3>2. r = [kind |-> r.kind, by |-> r.by, tx |-> r.tx, relay |-> r.relay, dialed |-> r.dialed]
      BY <1>1
    <3>3. r.kind # "none" /\ r.by = k /\ r.tx = t
      BY <1>1
    <3> QED BY <1>3, <1>5, <1>7, <1>8, <3>1, <3>2, <3>3 DEF SlotOK
  <2>2. ASSUME NEW j \in Slot \ {i} PROVE SlotOK(j)'
    <3>1. SlotOK(j)
      BY DEF SessionInv, SlotsOK
    <3> QED BY <1>3, <1>7, <3>1 DEF SlotOK
  <2> QED BY <1>7, <2>1, <2>2 DEF SlotsOK
<1>10. HalvesKept
  <2> SUFFICES ASSUME NEW j \in Slot, NEW h \in Side PROVE HalfKept(j, h)
    BY DEF HalvesKept
  <2>1. CASE j = i
    <3>1. ~Serving(i, h)
      BY <1>2 DEF Serving
    <3>2. ~Serving(i, h)'
      BY <1>8 DEF Serving, Side
    <3> QED BY <2>1, <3>1, <3>2 DEF HalfKept
  <2>2. CASE j # i
    <3>1. slot'[j] = slot[j] /\ phase'[j] = phase[j]
      BY <1>7, <2>2
    <3> QED BY <1>2, <3>1 DEF HalfKept, Serving, Busy, At, TxOf, SourceOf, Elsewhere
  <2> QED BY <2>1, <2>2
<1>11. HoldsOK'
  BY <1>2, <1>3, <1>10, ReadersKept, NoTable
<1>12. NoLostWake'
  <2>1. \A j \in Slot, h \in Side : phase'[j][h] = "parked" /\ Serving(j, h) => phase[j][h] = "parked"
    BY <1>7, <1>2 DEF Serving
  <2> QED BY <1>2, <1>10, <2>1, WakesKept
<1>13. NetFresh'
  <2>1. \A j \in Slot : Busy(j)' =>
              \/ Busy(j) /\ slot'[j].by = slot[j].by /\ slot'[j].tx = slot[j].tx
              \/ /\ slot'[j].by \in Conn
                 /\ slot'[j].tx \in tab[Home[slot'[j].by]].live
    BY <1>1, <1>2, <1>7 DEF Busy
  <2> QED BY <1>2, <1>3, <2>1, StreamsKept DEF Elsewhere
<1>14. PasteKept
  BY <1>2, <1>10, PasteStill
<1> QED BY <1>4, <1>9, <1>11, <1>12, <1>13, <1>14 DEF SessionInv

\* One half of a session in use moves to phase x, its slot's marks to r's.
LEMMA HalfMoves ==
    ASSUME SessionInv, Elsewhere, NEW i \in Slot, NEW h \in Side, Busy(i), NEW x \in HalfPhase, NEW r,
           r = [kind |-> slot[i].kind, by |-> slot[i].by, tx |-> slot[i].tx,
                relay |-> r.relay, dialed |-> r.dialed],
           slot' = [slot EXCEPT ![i] = r], phase' = [phase EXCEPT ![i][h] = x],
           h = "near" => x # "granted" /\ (slot[i].dialed => r.dialed),
           h = "far" => phase[i]["near"] # "granted" /\ r.dialed
    PROVE  /\ SlotsOK' /\ OthersKept(i, h) /\ SameSessions
           /\ At(i, h)' = At(i, h) /\ TxOf(i)' = TxOf(i) /\ Busy(i)' /\ phase'[i][h] = x
<1>1. Agrees /\ MintedTx' = MintedTx
  BY ElsewhereKept
<1>2. SlotOK(i) /\ slot[i].kind # "none" /\ slot[i].tx \in MintedTx /\ slot[i].by \in Conn
  BY DEF SessionInv, SlotsOK, SlotOK, Busy
<1>3. /\ slot'[i] = r /\ phase'[i] = [phase[i] EXCEPT ![h] = x]
      /\ slot' = [j \in Slot |-> slot'[j]] /\ phase' = [j \in Slot |-> phase'[j]]
      /\ \A j \in Slot \ {i} : slot'[j] = slot[j] /\ phase'[j] = phase[j]
  BY DEF SessionInv, SlotsOK
<1>4. /\ phase'[i] \in [Side -> HalfPhase] /\ phase'[i][h] = x
      /\ \A g \in Side \ {h} : phase'[i][g] = phase[i][g]
  BY <1>2, <1>3 DEF SlotOK
<1>5. r.kind = slot[i].kind /\ r.by = slot[i].by /\ r.tx = slot[i].tx
  <2> DEFINE y == [kind |-> slot[i].kind, by |-> slot[i].by, tx |-> slot[i].tx,
                   relay |-> r.relay, dialed |-> r.dialed]
  <2>1. y.kind = slot[i].kind /\ y.by = slot[i].by /\ y.tx = slot[i].tx
    OBVIOUS
  <2> HIDE DEF y
  <2>2. r = y
    BY DEF y
  <2> QED BY <2>1, <2>2
<1>6. SlotsOK'
  <2>1. SlotOK(i)'
    <3>1. r = [kind |-> r.kind, by |-> r.by, tx |-> r.tx, relay |-> r.relay, dialed |-> r.dialed]
      BY <1>5
    <3>2. phase'[i]["near"] = "granted" => phase'[i]["far"] = "off"
      BY <1>2, <1>4 DEF SlotOK, Side
    <3>3. phase'[i]["far"] # "off" => r.dialed
      BY <1>2, <1>4 DEF SlotOK, Side
    <3> HIDE DEF Elsewhere
    <3> QED BY <1>1, <1>2, <1>3, <1>4, <1>5, <3>1, <3>2, <3>3 DEF SlotOK
  <2>2. ASSUME NEW j \in Slot \ {i} PROVE SlotOK(j)'
    <3>1. SlotOK(j)
      BY DEF SessionInv, SlotsOK
    <3> QED BY <1>1, <1>3, <3>1 DEF SlotOK
  <2> QED BY <1>3, <2>1, <2>2 DEF SlotsOK
<1>7. \A j \in Slot : /\ Busy(j)' <=> Busy(j)
                      /\ slot'[j].by = slot[j].by /\ slot'[j].tx = slot[j].tx
                      /\ \A g \in Side : At(j, g)' = At(j, g)
  BY <1>3, <1>5 DEF Busy, At, SourceOf, Elsewhere
<1>8. OthersKept(i, h)
  <2> SUFFICES ASSUME NEW j \in Slot, NEW g \in Side, <<j, g>> # <<i, h>>
               PROVE  /\ HalfKept(j, g)
                      /\ phase'[j][g] = "parked" /\ Serving(j, g) => phase[j][g] = "parked"
    BY DEF OthersKept
  <2>1. phase'[j][g] = phase[j][g]
    BY <1>3, <1>4
  <2> QED BY <1>7, <2>1 DEF HalfKept, Serving, TxOf
<1>9. SameSessions
  BY <1>7 DEF SameSessions
<1> QED BY <1>4, <1>6, <1>7, <1>8, <1>9 DEF TxOf

\* The record a slot's marks are written into.
LEMMA SlotRecord ==
    ASSUME SessionInv, NEW i \in Slot, Busy(i)
    PROVE  /\ slot[i] = [kind |-> slot[i].kind, by |-> slot[i].by, tx |-> slot[i].tx,
                         relay |-> slot[i].relay, dialed |-> slot[i].dialed]
           /\ slot = [slot EXCEPT ![i] = slot[i]] /\ SlotOK(i)
BY DEF SessionInv, SlotsOK, SlotOK, Busy

\* A half that moves without starting or stopping to read.
LEMMA PhaseSessions ==
    ASSUME SessionInv, ElectionInv', NEW i \in Slot, NEW h \in Side,
           (h = "far" /\ Dial(i)) \/ Arm(i, h) \/ Park(i, h)
    PROVE  SessionInv' /\ PasteKept
<1>1. Elsewhere /\ tab' = tab /\ events' = events /\ Busy(i)
  BY DEF Dial, Arm, Park, Elsewhere, Serving
<1>2. Agrees /\ MintedTx' = MintedTx /\ \A c : Holders(c)' = Holders(c)
  BY <1>1, ElsewhereKept
<1>3. BudgetOK'
  BY <1>1 DEF SessionInv, BudgetOK, Elsewhere
<1>4. /\ slot[i] = [kind |-> slot[i].kind, by |-> slot[i].by, tx |-> slot[i].tx,
                    relay |-> slot[i].relay, dialed |-> slot[i].dialed]
      /\ slot = [slot EXCEPT ![i] = slot[i]] /\ SlotOK(i)
  BY <1>1, SlotRecord
<1>5. /\ SlotsOK' /\ OthersKept(i, h) /\ SameSessions /\ HalfKept(i, h)
      /\ woken \ {<<i, h>>} \subseteq woken'
      /\ phase'[i][h] = "parked" => LiveAt(i, h)'
  <2>1. CASE h = "far" /\ Dial(i)
    <3>1. PICK r : r = [slot[i] EXCEPT !.dialed = TRUE]
      OBVIOUS
    <3>2. r = [kind |-> slot[i].kind, by |-> slot[i].by, tx |-> slot[i].tx,
               relay |-> r.relay, dialed |-> r.dialed] /\ r.dialed
      BY <1>4, <3>1
    <3>3. slot' = [slot EXCEPT ![i] = r] /\ phase' = [phase EXCEPT ![i][h] = "granted"]
          /\ woken' = woken /\ ~slot[i].dialed /\ Serving(i, "near")
      BY <2>1, <3>1 DEF Dial
    <3>4. phase[i]["near"] # "granted" /\ ~Serving(i, h)
      BY <1>1, <1>4, <2>1, <3>3 DEF Serving, SlotOK, Busy
    <3>5. "granted" \in HalfPhase /\ h # "near"
      BY <2>1 DEF HalfPhase
    <3>6. SlotsOK' /\ OthersKept(i, h) /\ SameSessions /\ phase'[i][h] = "granted"
      BY <1>1, <3>2, <3>3, <3>4, <3>5, HalfMoves
    <3>7. HalfKept(i, h)
      BY <3>4, <3>6 DEF HalfKept, Serving
    <3> QED BY <3>3, <3>6, <3>7
  <2>2. CASE Arm(i, h) \/ Park(i, h)
    <3>1. PICK x \in {"armed", "parked"} :
             /\ phase' = [phase EXCEPT ![i][h] = x] /\ slot' = slot
             /\ woken \ {<<i, h>>} \subseteq woken' /\ (x = "parked" => LiveAt(i, h))
      BY <2>2 DEF Arm, Park
    <3>2. Serving(i, h)
      BY <2>2 DEF Arm, Park
    <3>3. h = "far" => phase[i]["near"] # "granted" /\ slot[i].dialed
      BY <1>1, <1>4, <3>2 DEF Serving, SlotOK, Busy
    <3>4. x \in HalfPhase /\ x # "granted" /\ slot' = [slot EXCEPT ![i] = slot[i]]
      BY <1>4, <3>1 DEF HalfPhase
    <3>5. SlotsOK' /\ OthersKept(i, h) /\ SameSessions
      BY <1>1, <1>4, <3>1, <3>3, <3>4, HalfMoves
    <3>6. At(i, h)' = At(i, h) /\ TxOf(i)' = TxOf(i) /\ Busy(i)' /\ phase'[i][h] = x
      <4>1. h = "near" => x # "granted" /\ (slot[i].dialed => slot[i].dialed)
        BY <3>4
      <4>2. x \in HalfPhase /\ slot' = [slot EXCEPT ![i] = slot[i]]
            /\ phase' = [phase EXCEPT ![i][h] = x]
        BY <3>1, <3>4
      <4>3. slot[i] = [kind |-> slot[i].kind, by |-> slot[i].by, tx |-> slot[i].tx,
                       relay |-> slot[i].relay, dialed |-> slot[i].dialed]
        BY <1>4
      <4> QED BY <1>1, <3>3, <4>1, <4>2, <4>3, HalfMoves
    <3>7. HalfKept(i, h)
      BY <3>1, <3>2, <3>6 DEF HalfKept, Serving
    <3>8. phase'[i][h] = "parked" => LiveAt(i, h)'
      BY <1>1, <3>1, <3>6 DEF LiveAt
    <3> QED BY <3>1, <3>5, <3>7, <3>8
  <2> QED BY <2>1, <2>2
<1>6. HalvesKept
  BY <1>5 DEF HalvesKept, OthersKept
<1>7. HoldsOK'
  BY <1>1, <1>2, <1>6, ReadersKept, NoTable
<1>8. NoLostWake'
  BY <1>1, <1>5, OthersWake
<1>9. NetFresh'
  BY <1>1, <1>2, <1>5, StreamsKept DEF Elsewhere, SameSessions
<1>10. PasteKept
  BY <1>1, <1>6, PasteStill
<1> QED BY <1>3, <1>5, <1>7, <1>8, <1>9, <1>10 DEF SessionInv

\* A half begins: begin_session and the reader it counts, in one step.
LEMMA BeginSessions ==
    ASSUME SessionInv, ElectionInv', Elsewhere, events' = events, woken' = woken,
           NEW i \in Slot, NEW h \in Side, Busy(i), phase[i][h] = "granted", LiveAt(i, h), NEW r,
           r = [kind |-> slot[i].kind, by |-> slot[i].by, tx |-> slot[i].tx,
                relay |-> r.relay, dialed |-> slot[i].dialed],
           slot' = [slot EXCEPT ![i] = r], phase' = [phase EXCEPT ![i][h] = "begun"],
           tab' = [tab EXCEPT ![At(i, h)] = begin_session(tab[At(i, h)], TxOf(i))]
    PROVE  SessionInv' /\ PasteKept
<1>1. PICK c, t : c = At(i, h) /\ t = TxOf(i) /\ c \in Core /\ t \in TxId
  BY AtCore
<1>2. Agrees /\ MintedTx' = MintedTx /\ Clips' = Clips /\ \A d : Holders(d)' = Holders(d)
  BY ElsewhereKept
<1>3. BudgetOK'
  BY DEF SessionInv, BudgetOK, Elsewhere
<1>4. /\ SlotsOK' /\ OthersKept(i, h) /\ SameSessions
      /\ At(i, h)' = At(i, h) /\ TxOf(i)' = TxOf(i) /\ Busy(i)' /\ phase'[i][h] = "begun"
  <2>1. SlotOK(i)
    BY SlotRecord
  <2>2. r.dialed = slot[i].dialed
    <3> DEFINE y == [kind |-> slot[i].kind, by |-> slot[i].by, tx |-> slot[i].tx,
                     relay |-> r.relay, dialed |-> slot[i].dialed]
    <3>1. y.dialed = slot[i].dialed
      OBVIOUS
    <3> HIDE DEF y
    <3>2. r = y
      BY DEF y
    <3> QED BY <3>1, <3>2
  <2>3. h = "far" => phase[i]["near"] # "granted" /\ r.dialed
    BY <2>1, <2>2 DEF SlotOK, Busy
  <2>4. r = [kind |-> slot[i].kind, by |-> slot[i].by, tx |-> slot[i].tx,
             relay |-> r.relay, dialed |-> r.dialed]
    BY <2>2
  <2>5. "begun" \in HalfPhase /\ "begun" # "granted" /\ (slot[i].dialed => r.dialed)
    BY <2>2 DEF HalfPhase
  <2>6. SlotsOK' /\ OthersKept(i, h) /\ SameSessions
    BY <2>3, <2>4, <2>5, HalfMoves
  <2>7. At(i, h)' = At(i, h) /\ TxOf(i)' = TxOf(i) /\ Busy(i)' /\ phase'[i][h] = "begun"
    BY <2>3, <2>4, <2>5, HalfMoves
  <2> QED BY <2>6, <2>7
<1>5. ~Serving(i, h) /\ Serving(i, h)'
  BY <1>4 DEF Serving
<1>6. /\ \A d : \A u \in TxId : d # c \/ u # t => ReadersOf(d, u)' = ReadersOf(d, u)
      /\ ReadersOf(c, t)' = ReadersOf(c, t) \cup {<<i, h>>}
      /\ <<i, h>> \notin ReadersOf(c, t)
  BY <1>1, <1>4, <1>5, ReadersMoved
<1>7. /\ CountsAt(tab[c], Readers(c), Clips) /\ OwnersAt(tab[c], Holders(c), Clips)
      /\ tab[c].live \subseteq TxId
  BY <1>1, CurrentFacts
<1>8. PICK U : U = begin_session(tab[c], t)
  OBVIOUS
<1>9. t \in tab[c].live
  BY <1>1 DEF LiveAt
<1>10. /\ IsFiniteSet(Readers(c)[t]) /\ <<i, h>> \notin Readers(c)[t]
       /\ (Readers(c)')[t] = Readers(c)[t] \cup {<<i, h>>}
       /\ \A u \in TxId \ {t} : (Readers(c)')[u] = Readers(c)[u]
  BY <1>1, <1>6, ReadersFinite DEF Readers
<1>11. PICK Q : Q = Readers(c)'
  OBVIOUS
<1>12. CountsAt(U, Q, Clips) /\ OwnersAt(U, Holders(c), Clips) /\ U.live = tab[c].live
  <2>1. PICK w, R : w = <<i, h>> /\ R = Readers(c)
    OBVIOUS
  <2>2. Q[t] = R[t] \cup {w} /\ \A u \in TxId \ {t} : Q[u] = R[u]
    BY <1>10, <1>11, <2>1
  <2>3. IsFiniteSet(R[t]) /\ w \notin R[t] /\ CountsAt(tab[c], R, Clips)
    BY <1>7, <1>10, <2>1
  <2>4. LET W == begin_session(tab[c], t) IN
        CountsAt(W, Q, Clips) /\ OwnersAt(W, Holders(c), Clips) /\ W.live = tab[c].live
    <3>1. t \in TxId /\ t \in tab[c].live /\ tab[c].live \subseteq TxId
          /\ OwnersAt(tab[c], Holders(c), Clips)
      BY <1>1, <1>7, <1>9
    <3> DEFINE W == begin_session(tab[c], t)
    <3>2. CountsAt(W, Q, Clips)
      BY <2>2, <2>3, <3>1, BeginHolds
    <3>3. PICK V : V = W
      OBVIOUS
    <3> HIDE DEF W
    <3>4. V = begin_session(tab[c], t)
      BY <3>3 DEF W
    <3>5. V.live = tab[c].live /\ V.owners = tab[c].owners
      BY <2>3, <3>4 DEF begin_session, CountsAt, TypedTable, IsTable
    <3>6. OwnersAt(V, Holders(c), Clips)
      BY <3>1, <3>5 DEF OwnersAt
    <3> QED BY <3>2, <3>3, <3>5, <3>6 DEF W
  <2> QED BY <1>8, <2>4
<1>13. \A d \in Core \ {c} : Readers(d)' = Readers(d)
  BY <1>6 DEF Readers
<1>14. HoldsOK' /\ tab'[c] = U /\ \A d \in Core \ {c} : tab'[d] = tab[d]
  <2>1. CountsAt(U, Readers(c)', Clips') /\ OwnersAt(U, Holders(c)', Clips')
    BY <1>2, <1>11, <1>12
  <2>2. tab' = [tab EXCEPT ![c] = U]
    BY <1>1, <1>8
  <2>3. \A d \in Core \ {c} : Readers(d)' = Readers(d) /\ Holders(d)' = Holders(d)
    BY <1>2, <1>13
  <2> QED BY <1>1, <1>2, <2>1, <2>2, <2>3, OneTable
<1>15. \A d \in Core : tab'[d].live = tab[d].live
  BY <1>12, <1>14
<1>16. NoLostWake'
  BY <1>4, <1>15, OthersWake
<1>17. NetFresh'
  BY <1>2, <1>4, <1>15, StreamsKept DEF Elsewhere, SameSessions
<1>18. PasteKept
  <2>1. \A j \in Slot, g \in Side : Serving(j, g) /\ Serving(j, g)' =>
           At(j, g)' = At(j, g) /\ TxOf(j)' = TxOf(j)
    BY <1>4, <1>5 DEF OthersKept, HalfKept
  <2> QED BY <1>15, <2>1, PasteSafe
<1> QED BY <1>3, <1>4, <1>14, <1>16, <1>17, <1>18 DEF SessionInv

\* A half returns: it reads nothing any more, and its slot is free if the other
\* half is not there either.
LEMMA HalfReturns ==
    ASSUME SessionInv, Elsewhere, NEW i \in Slot, NEW h \in Side, Busy(i), NEW word, NEW fired,
           Return(i, h, word, fired)
    PROVE  /\ SlotsOK' /\ OthersKept(i, h) /\ SameSessions
           /\ ~Serving(i, h)' /\ phase'[i][h] = "off"
           /\ woken' = (woken \cup fired) \ {<<i, h>>}
<1>1. Agrees /\ MintedTx' = MintedTx
  BY ElsewhereKept
<1>2. SlotOK(i) /\ phase[i] \in [Side -> HalfPhase] /\ Other(h) \in Side /\ Other(h) # h
  BY DEF SessionInv, SlotsOK, SlotOK, Other, Side
<1>3. /\ phase' = [phase EXCEPT ![i][h] = "off"]
      /\ slot' = IF phase[i][Other(h)] = "off" THEN [slot EXCEPT ![i] = NoSlot] ELSE slot
      /\ woken' = (woken \cup fired) \ {<<i, h>>}
  BY DEF Return
<1>4. /\ phase'[i] = [phase[i] EXCEPT ![h] = "off"]
      /\ slot' = [j \in Slot |-> slot'[j]] /\ phase' = [j \in Slot |-> phase'[j]]
      /\ slot'[i] = IF phase[i][Other(h)] = "off" THEN NoSlot ELSE slot[i]
      /\ \A j \in Slot \ {i} : slot'[j] = slot[j] /\ phase'[j] = phase[j]
  BY <1>3 DEF SessionInv, SlotsOK
<1>5. /\ phase'[i] \in [Side -> HalfPhase] /\ phase'[i][h] = "off"
      /\ phase'[i][Other(h)] = phase[i][Other(h)]
      /\ \A g \in Side : g = h \/ g = Other(h)
  BY <1>2, <1>4 DEF HalfPhase, Other, Side
<1>6. SlotsOK'
  <2>1. SlotOK(i)'
    <3>1. CASE phase[i][Other(h)] = "off"
      <4>1. slot'[i] = NoSlot /\ phase'[i]["near"] = "off" /\ phase'[i]["far"] = "off"
        BY <1>4, <1>5, <3>1 DEF Side
      <4> QED BY <1>5, <4>1 DEF SlotOK, NoSlot
    <3>2. CASE phase[i][Other(h)] # "off"
      <4>1. slot'[i] = slot[i] /\ slot[i].kind # "none"
        BY <1>4, <3>2 DEF Busy
      <4>2. phase'[i]["near"] = "granted" => phase'[i]["far"] = "off"
        BY <1>2, <1>5, <4>1 DEF SlotOK, Side, Other
      <4>3. phase'[i]["far"] # "off" => phase[i]["far"] # "off"
        BY <1>5 DEF Side, Other
      <4> QED BY <1>1, <1>2, <1>5, <4>1, <4>2, <4>3 DEF SlotOK
    <3> QED BY <3>1, <3>2
  <2>2. ASSUME NEW j \in Slot \ {i} PROVE SlotOK(j)'
    <3>1. SlotOK(j)
      BY DEF SessionInv, SlotsOK
    <3> QED BY <1>1, <1>4, <3>1 DEF SlotOK
  <2> QED BY <1>4, <2>1, <2>2 DEF SlotsOK
<1>7. OthersKept(i, h)
  <2> SUFFICES ASSUME NEW j \in Slot, NEW g \in Side, <<j, g>> # <<i, h>>
               PROVE  /\ HalfKept(j, g)
                      /\ phase'[j][g] = "parked" /\ Serving(j, g) => phase[j][g] = "parked"
    BY DEF OthersKept
  <2>1. CASE j # i
    <3>1. slot'[j] = slot[j] /\ phase'[j] = phase[j]
      BY <1>4, <2>1
    <3> QED BY <3>1 DEF HalfKept, Serving, Busy, At, TxOf, SourceOf, Elsewhere
  <2>2. CASE j = i
    <3>1. g = Other(h) /\ phase'[i][g] = phase[i][g]
      BY <1>5, <2>2
    <3>2. CASE phase[i][g] = "off"
      BY <2>2, <3>1, <3>2 DEF HalfKept, Serving
    <3>3. CASE phase[i][g] # "off"
      <4>1. slot'[i] = slot[i]
        BY <1>4, <3>1, <3>3
      <4> QED BY <2>2, <3>1, <4>1 DEF HalfKept, Serving, Busy, At, TxOf, SourceOf, Elsewhere
    <3> QED BY <3>2, <3>3
  <2> QED BY <2>1, <2>2
<1>8. SameSessions
  BY <1>4 DEF SameSessions, Busy, NoSlot
<1>9. ~Serving(i, h)'
  BY <1>5 DEF Serving
<1> QED BY <1>3, <1>5, <1>6, <1>7, <1>8, <1>9

\* A half that found its entry gone, or its Core outside the account, returns
\* before it ever counted.
LEMMA StaleSessions ==
    ASSUME SessionInv, ElectionInv', Elsewhere, events' = events, tab' = tab,
           NEW i \in Slot, NEW h \in Side, Busy(i), phase[i][h] = "granted", NEW word,
           Return(i, h, word, {})
    PROVE  SessionInv' /\ PasteKept
<1>1. Agrees /\ \A d : Holders(d)' = Holders(d)
  BY ElsewhereKept
<1>2. BudgetOK'
  BY DEF SessionInv, BudgetOK, Elsewhere
<1>3. /\ SlotsOK' /\ OthersKept(i, h) /\ SameSessions
      /\ ~Serving(i, h)' /\ phase'[i][h] = "off"
      /\ woken' = (woken \cup {}) \ {<<i, h>>}
  BY HalfReturns
<1>4. ~Serving(i, h)
  BY DEF Serving
<1>5. HalvesKept
  BY <1>3, <1>4 DEF OthersKept, HalvesKept, HalfKept
<1>6. HoldsOK'
  BY <1>1, <1>5, ReadersKept, NoTable
<1>7. NoLostWake'
  BY <1>3, OthersWake
<1>8. NetFresh'
  BY <1>1, <1>3, StreamsKept DEF Elsewhere, SameSessions
<1>9. PasteKept
  BY <1>5, PasteStill
<1> QED BY <1>2, <1>3, <1>6, <1>7, <1>8, <1>9 DEF SessionInv

\* A half ends: end_session takes it off the count, and what it evicts wakes the
\* halves beside it.
LEMMA FinishSessions ==
    ASSUME SessionInv, ElectionInv', NEW i \in Slot, NEW h \in Side, Serving(i, h),
           NEW word, NEW evicts \in BOOLEAN, Finish(i, h, word, evicts)
    PROVE  SessionInv' /\ PasteKept
<1>0. Busy(i)
  BY DEF Serving
<1>1. PICK c, t : c = At(i, h) /\ t = TxOf(i) /\ c \in Core /\ t \in TxId
  BY <1>0, AtCore
<1>2. PICK T, E : T = end_session(tab[c], t) /\ E = IF evicts THEN evict_published(T, t) ELSE T
  OBVIOUS
<1>3. PICK F : F = IF E # T THEN notify_waiters(c) ELSE {}
  OBVIOUS
<1>4. /\ Elsewhere /\ events' = events /\ tab' = [tab EXCEPT ![c] = E]
      /\ Return(i, h, word, F)
  BY <1>1, <1>2, <1>3 DEF Finish, Elsewhere
<1>5. Agrees /\ MintedTx' = MintedTx /\ Clips' = Clips /\ \A d : Holders(d)' = Holders(d)
  BY <1>4, ElsewhereKept
<1>6. BudgetOK'
  BY <1>4 DEF SessionInv, BudgetOK, Elsewhere
<1>7. /\ SlotsOK' /\ OthersKept(i, h) /\ SameSessions
      /\ ~Serving(i, h)' /\ phase'[i][h] = "off"
      /\ woken' = (woken \cup F) \ {<<i, h>>}
  BY <1>0, <1>4, HalfReturns
<1>8. /\ \A d : \A u \in TxId : d # c \/ u # t => ReadersOf(d, u)' = ReadersOf(d, u)
      /\ ReadersOf(c, t)' = ReadersOf(c, t) \ {<<i, h>>}
      /\ <<i, h>> \in ReadersOf(c, t)
  BY <1>1, <1>7, ReadersMoved
<1>9. /\ CountsAt(tab[c], Readers(c), Clips) /\ OwnersAt(tab[c], Holders(c), Clips)
      /\ tab[c].live \subseteq TxId /\ tab[c].live \subseteq MintedTx
  BY <1>1, CurrentFacts
<1>10. PICK Q, R, w : Q = Readers(c)' /\ R = Readers(c) /\ w = <<i, h>>
  OBVIOUS
<1>11. /\ IsFiniteSet(R[t]) /\ w \in R[t] /\ Q[t] = R[t] \ {w}
       /\ \A u \in TxId \ {t} : Q[u] = R[u]
  BY <1>1, <1>8, <1>10, ReadersFinite DEF Readers
<1>12. /\ CountsAt(T, Q, Clips) /\ OwnersAt(T, Holders(c), Clips)
       /\ T.live \subseteq tab[c].live
       /\ \A u \in tab[c].live : u \notin T.live => u = t /\ Q[t] = {}
  <2>1. CountsAt(tab[c], R, Clips)
    BY <1>9, <1>10
  <2>2. LET W == end_session(tab[c], t) IN
           /\ CountsAt(W, Q, Clips) /\ OwnersAt(W, Holders(c), Clips) /\ W.live \subseteq tab[c].live
           /\ \A u \in tab[c].live : u \notin W.live => u = t /\ t \in Clips /\ Q[t] = {}
    <3>1. t \in TxId /\ tab[c].live \subseteq TxId /\ OwnersAt(tab[c], Holders(c), Clips)
      BY <1>1, <1>9
    <3> DEFINE W == end_session(tab[c], t)
    <3>2. CountsAt(W, Q, Clips)
      BY <1>11, <2>1, <3>1, EndHolds
    <3>3. OwnersAt(W, Holders(c), Clips)
      BY <1>11, <2>1, <3>1, EndHolds
    <3>4. Leaves(tab[c], W, t, Q, Clips)
      BY <1>11, <2>1, <3>1, EndHolds
    <3> QED BY <3>2, <3>3, <3>4 DEF Leaves
  <2> QED BY <1>2, <2>2
<1>13. /\ CountsAt(E, Q, Clips) /\ OwnersAt(E, Holders(c), Clips) /\ E.live \subseteq T.live
       /\ \A u \in T.live : IsClip(u) => u \in E.live
  <2>1. CASE ~evicts
    BY <1>2, <1>12, <2>1
  <2>2. CASE evicts
    <3>1. T.live \subseteq TxId /\ T.live \subseteq MintedTx
      BY <1>9, <1>12
    <3>2. LET W == evict_published(T, t) IN
           /\ CountsAt(W, Q, Clips)
           /\ OwnersAt(W, Holders(c), Clips)
           /\ W.live \subseteq T.live /\ (\A u \in T.live : IsClip(u) => u \in W.live)
      BY <1>12, <3>1, EvictHolds
    <3> QED BY <1>2, <2>2, <3>2
  <2> QED BY <2>1, <2>2
<1>14. HoldsOK' /\ tab'[c] = E /\ \A d \in Core \ {c} : tab'[d] = tab[d]
  <2>1. CountsAt(E, Readers(c)', Clips') /\ OwnersAt(E, Holders(c)', Clips')
    BY <1>5, <1>10, <1>13
  <2>2. \A d \in Core \ {c} : Readers(d)' = Readers(d) /\ Holders(d)' = Holders(d)
    BY <1>5, <1>8 DEF Readers
  <2> QED BY <1>1, <1>4, <1>5, <2>1, <2>2, OneTable
<1>15. ReadersOf(c, t)' = Q[t]
  BY <1>1, <1>10 DEF Readers
<1>16. NoLostWake'
  <2>1. \A d \in Core : \A u \in tab[d].live \ tab'[d].live :
              \/ ReadersOf(d, u) \subseteq {<<i, h>>}
              \/ notify_waiters(d) \ {<<i, h>>} \subseteq woken'
    <3> SUFFICES ASSUME NEW u \in tab[c].live, u \notin E.live
                 PROVE  \/ ReadersOf(c, u) \subseteq {<<i, h>>}
                        \/ notify_waiters(c) \ {<<i, h>>} \subseteq woken'
      BY <1>14
    <3>1. CASE u \in T.live
      BY <1>3, <1>7, <3>1
    <3>2. CASE u \notin T.live
      <4>1. u = t /\ ReadersOf(c, t)' = {}
        BY <1>12, <1>15, <3>2
      <4> QED BY <1>8, <4>1
    <3> QED BY <3>1, <3>2
  <2>2. woken \ {<<i, h>>} \subseteq woken'
    BY <1>7
  <2> QED BY <1>7, <2>1, <2>2, OthersWake
<1>17. NetFresh'
  <2>1. \A d \in Core : \A u \in tab'[d].live : u \in tab[d].live
    BY <1>12, <1>13, <1>14
  <2> QED BY <1>4, <1>5, <1>7, <2>1, StreamsKept DEF Elsewhere, SameSessions
<1>18. PasteKept
  <2>1. \A j \in Slot, g \in Side : Serving(j, g) /\ Serving(j, g)' =>
           At(j, g)' = At(j, g) /\ TxOf(j)' = TxOf(j)
    BY <1>7 DEF OthersKept, HalfKept
  <2>2. \A d \in Core : \A u \in tab[d].live \ tab'[d].live : IsClip(u) => ReadersOf(d, u)' = {}
    BY <1>12, <1>13, <1>14, <1>15
  <2> QED BY <2>1, <2>2, PasteSafe
<1> QED BY <1>6, <1>7, <1>14, <1>16, <1>17, <1>18 DEF SessionInv

\* The near half's task starts: it counts itself, or finds its entry gone.
LEMMA ConsumerSessions ==
    ASSUME SessionInv, ElectionInv', NEW i \in Slot, serve_consumer(i)
    PROVE  SessionInv' /\ PasteKept
<1>1. Elsewhere /\ events' = events /\ Busy(i) /\ phase[i]["near"] = "granted" /\ "near" \in Side
  BY DEF serve_consumer, Elsewhere, Side
<1>2. CASE tab' = tab /\ Return(i, "near", "none", {})
  BY <1>1, <1>2, StaleSessions
<1>3. CASE ~(tab' = tab /\ Return(i, "near", "none", {}))
  <2>1. PICK x : slot' = [slot EXCEPT ![i].relay = x]
    BY <1>3 DEF serve_consumer
  <2>2. /\ LiveAt(i, "near") /\ woken' = woken
        /\ tab' = [tab EXCEPT ![At(i, "near")] = begin_session(tab[At(i, "near")], TxOf(i))]
        /\ phase' = [phase EXCEPT ![i]["near"] = "begun"]
    BY <1>3 DEF serve_consumer
  <2>3. PICK r : r = [slot[i] EXCEPT !.relay = x]
    OBVIOUS
  <2>4. slot[i] = [kind |-> slot[i].kind, by |-> slot[i].by, tx |-> slot[i].tx,
                   relay |-> slot[i].relay, dialed |-> slot[i].dialed]
    BY <1>1, SlotRecord
  <2>5. r = [kind |-> slot[i].kind, by |-> slot[i].by, tx |-> slot[i].tx,
             relay |-> r.relay, dialed |-> slot[i].dialed]
    BY <2>3, <2>4
  <2>6. slot' = [slot EXCEPT ![i] = r]
    BY <2>1, <2>3
  <2> QED BY <1>1, <2>2, <2>5, <2>6, BeginSessions
<1> QED BY <1>2, <1>3

\* The far half's task starts on the source.
LEMMA SourceSessions ==
    ASSUME SessionInv, ElectionInv', NEW i \in Slot, serve_session(i)
    PROVE  SessionInv' /\ PasteKept
<1>1. Elsewhere /\ events' = events /\ Busy(i) /\ phase[i]["far"] = "granted" /\ "far" \in Side
  BY DEF serve_session, Elsewhere, Side
<1>2. CASE \E word : tab' = tab /\ Return(i, "far", word, {})
  BY <1>1, <1>2, StaleSessions
<1>3. CASE ~\E word : tab' = tab /\ Return(i, "far", word, {})
  <2>1. /\ LiveAt(i, "far") /\ woken' = woken /\ slot' = slot
        /\ tab' = [tab EXCEPT ![At(i, "far")] = begin_session(tab[At(i, "far")], TxOf(i))]
        /\ phase' = [phase EXCEPT ![i]["far"] = "begun"]
    BY <1>3 DEF serve_session
  <2>2. /\ slot[i] = [kind |-> slot[i].kind, by |-> slot[i].by, tx |-> slot[i].tx,
                      relay |-> slot[i].relay, dialed |-> slot[i].dialed]
        /\ slot' = [slot EXCEPT ![i] = slot[i]]
    BY <1>1, <2>1, SlotRecord
  <2>3. PICK r : r = slot[i]
    OBVIOUS
  <2>4. /\ r = [kind |-> slot[i].kind, by |-> slot[i].by, tx |-> slot[i].tx,
                relay |-> r.relay, dialed |-> slot[i].dialed]
        /\ slot' = [slot EXCEPT ![i] = r]
    BY <2>2, <2>3
  <2> QED BY <1>1, <2>1, <2>4, BeginSessions
<1> QED BY <1>2, <1>3

\* Every way a serving half ends.
LEMMA EndSessions ==
    ASSUME SessionInv, ElectionInv', NEW i \in Slot,
           Relayed(i) \/ Leave(i) \/ FarLeaves(i) \/ \E h \in Side : Cut(i, h)
    PROVE  SessionInv' /\ PasteKept
<1>1. "near" \in Side /\ "far" \in Side /\ FALSE \in BOOLEAN
  BY DEF Side
<1>2. CASE Relayed(i)
  <2>1. PICK x \in BOOLEAN : x = (frame[i] = "stale")
    OBVIOUS
  <2>2. Serving(i, "near") /\ Finish(i, "near", "none", x)
    BY <1>2, <2>1 DEF Relayed
  <2> QED BY <1>1, <2>2, FinishSessions
<1>3. CASE Leave(i)
  <2>1. Serving(i, "near") /\ Finish(i, "near", "none", FALSE)
    BY <1>3 DEF Leave
  <2> QED BY <1>1, <2>1, FinishSessions
<1>4. CASE FarLeaves(i)
  <2>1. Serving(i, "far") /\ Finish(i, "far", "gone", FALSE)
    BY <1>4 DEF FarLeaves
  <2> QED BY <1>1, <2>1, FinishSessions
<1>5. CASE \E h \in Side : Cut(i, h)
  <2>1. PICK h \in Side : Cut(i, h)
    BY <1>5
  <2>2. PICK x \in BOOLEAN : x = (slot[i].kind = "fill" /\ h = "near")
    OBVIOUS
  <2>3. Serving(i, h) /\ Finish(i, h, "stale", x)
    BY <2>1, <2>2 DEF Cut
  <2> QED BY <2>3, FinishSessions
<1> QED BY <1>2, <1>3, <1>4, <1>5

-----------------------------------------------------------------------------
(* The theorems.                                                            *)

LEMMA InitSession == Init => SessionInv
<1> SUFFICES ASSUME Init PROVE SessionInv
  OBVIOUS
<1>1. ElectionInv
  BY InitElection
<1>2. BudgetOK
  BY BoundAssumption DEF Init, BudgetOK, EventKind
<1>3. \A i \in Slot : slot[i] = NoSlot /\ phase[i] = [h \in Side |-> "off"]
  BY DEF Init
<1>4. SlotsOK
  BY <1>3 DEF Init, SlotsOK, SlotOK, NoSlot, Side, HalfPhase
<1>5. \A i \in Slot, h \in Side : ~Serving(i, h)
  BY <1>3 DEF Serving, Busy, NoSlot
<1>6. HoldsOK
  <2>1. \A c \in Core : tab[c] = EmptyTable
    BY DEF Init
  <2> QED BY <2>1, EmptyHolds DEF HoldsOK
<1>7. NetFresh /\ NoLostWake
  BY <1>5 DEF Init, NetFresh, NoLostWake
<1> QED BY <1>1, <1>2, <1>4, <1>6, <1>7 DEF SessionInv

LEMMA SessionsNext == SessionInv /\ Next => SessionInv' /\ PasteKept
<1> SUFFICES ASSUME SessionInv, Next PROVE SessionInv' /\ PasteKept
  OBVIOUS
<1>1. ElectionInv'
  BY ElectionStep DEF SessionInv
<1>2. CASE \E c \in Core : \E now \in 1..MaxNow : \E b \in BOOLEAN : clipboard_updated(c, now, b)
  BY <1>1, <1>2, CopySessions
<1>3. CASE \E m \in net : FallBack(m) \/ build_remote_tx(m) \/ recv_announce(m)
  BY <1>1, <1>3, StreamSessions, AnnounceSessions
<1>4. CASE \E c \in Core : \E leaves \in BOOLEAN : Clear(c, leaves)
  BY <1>1, <1>4, ClearSessions
<1>5. ASSUME NEW k \in Conn,
             \/ transactions_publish(k) \/ teardown(k)
             \/ serve_tx_fetch(k) \/ AdoptFails(k) \/ AdoptInstalls(k) \/ AdoptEvicts(k)
             \/ \E t \in 1..Len(minted) :
                  \/ transactions_revoke(k, t) \/ adopt(k, t)
                  \/ \E i \in Slot : \E kind \in {"channel", "fill"} : Ask(i, k, t, kind)
      PROVE  SessionInv' /\ PasteKept
  <2>1. CASE transactions_publish(k)
    BY <1>1, <2>1, PublishSessions
  <2>2. CASE teardown(k)
    BY <1>1, <2>2, TeardownSessions
  <2>3. CASE serve_tx_fetch(k) \/ AdoptFails(k) \/ \E t \in 1..Len(minted) : adopt(k, t)
    BY <1>1, <2>3, AdoptSessions
  <2>4. CASE AdoptInstalls(k)
    BY <1>1, <2>4, InstallSessions
  <2>5. CASE AdoptEvicts(k) \/ \E t \in 1..Len(minted) : transactions_revoke(k, t)
    BY <1>1, <2>5, RevokeSessions
  <2>6. CASE \E t \in 1..Len(minted), i \in Slot, kind \in {"channel", "fill"} : Ask(i, k, t, kind)
    BY <1>1, <2>6, AskSessions
  <2> QED BY <1>5, <2>1, <2>2, <2>3, <2>4, <2>5, <2>6
<1>6. ASSUME NEW i \in Slot,
             \/ serve_consumer(i) \/ Dial(i) \/ serve_session(i)
             \/ Relayed(i) \/ Leave(i) \/ FarLeaves(i)
             \/ \E h \in Side : Arm(i, h) \/ Park(i, h) \/ Cut(i, h)
      PROVE  SessionInv' /\ PasteKept
  <2>1. CASE serve_consumer(i)
    BY <1>1, <2>1, ConsumerSessions
  <2>2. CASE serve_session(i)
    BY <1>1, <2>2, SourceSessions
  <2>3. CASE Dial(i)
    <3>1. "far" \in Side
      BY DEF Side
    <3> QED BY <1>1, <2>3, <3>1, PhaseSessions
  <2>4. CASE \E h \in Side : Arm(i, h) \/ Park(i, h)
    BY <1>1, <2>4, PhaseSessions
  <2>5. CASE Relayed(i) \/ Leave(i) \/ FarLeaves(i) \/ \E h \in Side : Cut(i, h)
    BY <1>1, <2>5, EndSessions
  <2> QED BY <1>6, <2>1, <2>2, <2>3, <2>4, <2>5
<1> QED BY <1>2, <1>3, <1>4, <1>5, <1>6 DEF Next

\* A step that changes nothing.
LEMMA SessionsStutter == SessionInv /\ UNCHANGED vars => SessionInv'
<1> SUFFICES ASSUME SessionInv, UNCHANGED vars PROVE SessionInv'
  OBVIOUS
<1>1. /\ minted' = minted /\ tab' = tab /\ net' = net /\ conn' = conn /\ slot' = slot
      /\ phase' = phase /\ woken' = woken /\ events' = events
  BY DEF vars
<1>2. ElectionInv'
  BY ElectionStep DEF SessionInv
<1>3. Agrees
  BY <1>1, NotMinting DEF SessionInv, ElectionInv
<1>4. SlotsOK' /\ HalvesKept
  BY <1>1, <1>3, SlotsStill DEF SessionInv
<1>5. BudgetOK'
  BY <1>1 DEF SessionInv, BudgetOK
<1>6. HoldsOK'
  BY <1>1, <1>3, <1>4, ReadersKept, NoTable DEF Holders
<1>7. NoLostWake' /\ NetFresh'
  BY <1>1, <1>3, <1>4, WakesKept, StreamsKept DEF Busy
<1> QED BY <1>2, <1>4, <1>5, <1>6, <1>7 DEF SessionInv

\* The inductive invariant holds of every reachable state.
LEMMA SessionInvariant == Spec => []SessionInv
<1>1. SessionInv /\ [Next]_vars => SessionInv'
  BY SessionsNext, SessionsStutter
<1> QED BY <1>1, InitSession, PTL DEF Spec

\* Whatever the interleaving of copies, announces, reads and ends, a clip's
\* session count is the number of halves that read it, it is in the table exactly
\* while it is current or read, and no superseded clip leaks
\* (clipboard.rs `supersede_current`, `begin_session`, `end_session`).
THEOREM ClipsHeld == Spec => []ClipsHeldByReaders
<1>1. SessionInv => ClipsHeldByReaders
  <2> SUFFICES ASSUME SessionInv, NEW c \in Core, NEW t \in tab[c].live, IsClip(t)
               PROVE  /\ tab[c].sessions[t] = Cardinality(ReadersOf(c, t))
                      /\ t = tab[c].current <=> t \notin tab[c].superseded
                      /\ t \in tab[c].superseded => ReadersOf(c, t) # {}
    BY DEF ClipsHeldByReaders
  <2>1. t \in TxId /\ t \in tab[c].live \cap Clips /\ CountsAt(tab[c], Readers(c), Clips)
    BY CurrentFacts DEF Clips
  <2>2. Readers(c)[t] = ReadersOf(c, t)
    BY <2>1 DEF Readers
  <2> QED BY <2>1, <2>2 DEF CountsAt
<1> QED BY <1>1, SessionInvariant, PTL

\* No half of a session parks on a transaction that is gone without its wake
\* pending, for every way an entry goes: revocation, eviction, the end of its last
\* owner, the clearing of the table, the end of a superseded clip's last reader
\* (the `enable`d `Notified` of datachannel.rs, checked before it is awaited).
THEOREM WakesArrive == Spec => []NoLostWake
BY SessionInvariant, PTL DEF SessionInv

\* Every published or adopted entry is owned, by connections of its own Core that
\* have not been torn down (`publish`, `install_adopted`, `revoke_owned_by`).
THEOREM GrantsHeld == Spec => []GrantsHaveHolders
<1>1. SessionInv => GrantsHaveHolders
  <2> SUFFICES ASSUME SessionInv, NEW c \in Core, NEW t \in tab[c].live, ~IsClip(t)
               PROVE  /\ tab[c].owners[t] # {}
                      /\ \A k \in tab[c].owners[t] : Home[k] = c /\ conn[k].st # "closed"
    BY DEF GrantsHaveHolders
  <2>1. t \in TxId /\ t \in tab[c].live \ Clips /\ OwnersAt(tab[c], Holders(c), Clips)
    BY CurrentFacts DEF Clips
  <2> QED BY <2>1 DEF OwnersAt, Holders
<1> QED BY <1>1, SessionInvariant, PTL

\* No step takes a clip from under a session that goes on reading it, but the
\* clearing of the whole table: a copy, an announce and the end of another reader
\* all leave it (`supersede_current` marks, `end_session` counts).
THEOREM PastesFinish == Spec => PasteNotCutByCopy
<1>1. SessionInv /\ Next => PasteKept
  BY SessionsNext
<1>2. SessionInv /\ [Next]_vars => [PasteKept]_vars
  BY <1>1
<1>3. Spec => [][PasteKept]_vars
  BY <1>2, SessionInvariant, PTL DEF Spec
<1> QED BY <1>3 DEF PasteNotCutByCopy, PasteKept
=============================================================================
