-------------------------- MODULE SyncRounds_proofs --------------------------
(***************************************************************************)
(* Proofs about SyncRounds: what a member's clock, watermarks and legs may *)
(* claim, for any number of members, paths, contents, legs and crashes.    *)
(***************************************************************************)
EXTENDS SyncRounds, FiniteSetTheorems, WellFoundedInduction, TLAPS

-----------------------------------------------------------------------------
(* The largest of the vvs: what merge_max computes. *)

\* A bounded set of naturals has a largest element.
LEMMA LargestNatural ==
    ASSUME NEW S, S \subseteq Nat, S # {}, NEW b \in Nat, \A x \in S : x <= b
    PROVE  \E n \in S : \A m \in S : n >= m
<1> DEFINE T == {b - x : x \in S}
           R == {ss \in Nat \X Nat : ss[1] < ss[2]}
<1>1. T \subseteq Nat /\ T # {}
  <2>1. \A x \in S : x \in Nat /\ x <= b
    OBVIOUS
  <2>2. \A x \in S : b - x \in Nat
    BY <2>1
  <2> QED BY <2>2
<1>2. IsWellFoundedOn(R, Nat)
  BY NatLessThanWellFounded DEF OpToRel
<1>3. \E t \in T : \A y \in T : ~ (<<y, t>> \in R)
  BY <1>1, <1>2, WFMin
<1>3a. PICK t \in T : \A y \in T : ~ (y < t)
  BY <1>1, <1>3
<1>4. PICK n \in S : t = b - n
  OBVIOUS
<1>5. ASSUME NEW m \in S PROVE n >= m
  <2>1. ~ (b - m < b - n)
    BY <1>3a, <1>4
  <2>2. m \in Nat /\ n \in Nat
    OBVIOUS
  <2> QED BY <2>1, <2>2
<1> QED BY <1>4, <1>5

\* A vv whose components stay under a bound.
Below(v, B) == v \in VV /\ \A k \in Device : v[k] <= B[k]

\* The join is one of its parts in every component, and covers each of them.
IsJoin(j, base, S) ==
    /\ j \in VV
    /\ \A k \in Device : j[k] = base[k] \/ \E v \in S : j[k] = v[k]
    /\ \A k \in Device : j[k] >= base[k] /\ \A v \in S : j[k] >= v[k]

LEMMA JoinIsJoin ==
    ASSUME NEW B \in VV, NEW base, Below(base, B), NEW S, \A v \in S : Below(v, B)
    PROVE  IsJoin(JoinAll(base, S), base, S)
<1>1. /\ DOMAIN base = Device
      /\ \A k \in Device : base[k] \in Nat /\ base[k] <= B[k] /\ B[k] \in Nat
      /\ \A v \in S : \A k \in Device : v[k] \in Nat /\ v[k] <= B[k]
  BY DEF Below, VV
<1>2. ASSUME NEW k \in Device
      PROVE  /\ JoinAll(base, S)[k] \in {base[k]} \cup {v[k] : v \in S}
             /\ \A m \in {base[k]} \cup {v[k] : v \in S} : JoinAll(base, S)[k] >= m
  <2> DEFINE X == {base[k]} \cup {v[k] : v \in S}
  <2>1. X \subseteq Nat /\ X # {} /\ \A x \in X : x <= B[k]
    BY <1>1
  <2>2. \E n \in X : \A m \in X : n >= m
    BY <1>1, <2>1, LargestNatural
  <2>3. JoinAll(base, S)[k] = CHOOSE n \in X : \A m \in X : n >= m
    BY <1>1 DEF JoinAll
  <2> QED BY <2>2, <2>3
<1>3. \A k \in Device : JoinAll(base, S)[k] \in Nat
  BY <1>1, <1>2
<1>4. JoinAll(base, S) \in VV
  BY <1>1, <1>3 DEF JoinAll, VV
<1> QED BY <1>2, <1>4 DEF IsJoin

\* What bounds the parts bounds the join.
LEMMA JoinBelow ==
    ASSUME NEW B \in VV, NEW base, Below(base, B), NEW S, \A v \in S : Below(v, B)
    PROVE  Below(JoinAll(base, S), B)
<1>1. IsJoin(JoinAll(base, S), base, S)
  BY JoinIsJoin
<1> QED BY <1>1 DEF IsJoin, Below

LEMMA PairBelow ==
    ASSUME NEW B \in VV, NEW a, Below(a, B), NEW b, Below(b, B)
    PROVE  /\ Below(Join(a, b), B)
           /\ \A k \in Device : Join(a, b)[k] = a[k] \/ Join(a, b)[k] = b[k]
           /\ \A k \in Device : Join(a, b)[k] >= a[k] /\ Join(a, b)[k] >= b[k]
<1>1. \A v \in {b} : Below(v, B)
  OBVIOUS
<1>2. Below(JoinAll(a, {b}), B) /\ IsJoin(JoinAll(a, {b}), a, {b})
  BY <1>1, JoinBelow, JoinIsJoin
<1> QED BY <1>2 DEF Join, IsJoin

-----------------------------------------------------------------------------
(* What a device may hold: every vv of it under the bound B, which maps    *)
(* each device to its clock.                                               *)

OKVersion(e, B) == e.path \in Path /\ Below(e.vv, B)

OKState(s, B) ==
    /\ s = [idx |-> s.idx, pend |-> s.pend, park |-> s.park, wm |-> s.wm, clk |-> s.clk]
    /\ s.idx = [p \in Path |-> s.idx[p]]
    /\ \A p \in Path : Below(s.idx[p].vv, B)
    /\ \A e \in s.pend \cup s.park : OKVersion(e, B)
    /\ s.wm = [q \in Device |-> s.wm[q]]
    /\ \A q \in Device : Below(s.wm[q], B)
    /\ s.clk \in Nat

OKSituation(r, B) ==
    /\ r = [vv |-> r.vv, c |-> r.c, pend |-> r.pend, park |-> r.park, bump |-> r.bump]
    /\ Below(r.vv, B)
    /\ \A e \in r.pend \cup r.park : OKVersion(e, B)

\* Clocks only grow, and what was under them stays under them.
LEMMA Higher ==
    ASSUME NEW B \in VV, NEW C \in VV, \A k \in Device : B[k] <= C[k]
    PROVE  /\ \A v : Below(v, B) => Below(v, C)
           /\ \A e : OKVersion(e, B) => OKVersion(e, C)
           /\ \A s : OKState(s, B) => OKState(s, C)
<1>1. ASSUME NEW v, Below(v, B) PROVE Below(v, C)
  BY <1>1 DEF Below, VV
<1>2. ASSUME NEW e, OKVersion(e, B) PROVE OKVersion(e, C)
  BY <1>1, <1>2 DEF OKVersion
<1>3. ASSUME NEW s, OKState(s, B) PROVE OKState(s, C)
  BY <1>1, <1>2, <1>3 DEF OKState
<1> QED BY <1>1, <1>2, <1>3

LEMMA Settled ==
    ASSUME NEW S, NEW p, NEW vv
    PROVE  Settle(S, p, vv) \subseteq S
BY DEF Settle

-----------------------------------------------------------------------------
(* The passes of drain_pending keep a path's situation under the bound. *)

LEMMA LandedOK ==
    ASSUME NEW B \in VV, NEW r, OKSituation(r, B), NEW e, OKVersion(e, B)
    PROVE  OKSituation(Landed(r, e), B)
<1>1. Below(Join(e.vv, r.vv), B)
  BY PairBelow DEF OKSituation, OKVersion
<1>2. Settle(r.pend, e.path, e.vv) \subseteq r.pend
  BY Settled
<1> QED BY <1>1, <1>2 DEF Landed, OKSituation, OKVersion

LEMMA RetriedOK ==
    ASSUME NEW B \in VV, NEW r, OKSituation(r, B), NEW q \in Retried(r)
    PROVE  OKSituation(q, B)
<1>1. CASE r.park = {}
  BY <1>1 DEF Retried
<1>2. CASE r.park # {}
  <2>1. PICK e \in r.park : e = CHOOSE f \in r.park : TRUE
    BY <1>2
  <2>2. \/ q = [r EXCEPT !.park = {}]
        \/ q = [r EXCEPT !.pend = Settle(@, e.path, e.vv)]
        \/ q = Landed(r, e)
    BY <1>2, <2>1 DEF Retried
  <2>3. OKVersion(e, B)
    BY DEF OKSituation
  <2>4. CASE q = [r EXCEPT !.park = {}]
    BY <2>4 DEF OKSituation
  <2>5. CASE q = [r EXCEPT !.pend = Settle(@, e.path, e.vv)]
    <3>1. Settle(r.pend, e.path, e.vv) \subseteq r.pend
      BY Settled
    <3> QED BY <2>5, <3>1 DEF OKSituation
  <2>6. CASE q = Landed(r, e)
    BY <2>3, <2>6, LandedOK
  <2> QED BY <2>2, <2>4, <2>5, <2>6
<1> QED BY <1>1, <1>2

LEMMA QuietedOK ==
    ASSUME NEW B \in VV, NEW r, OKSituation(r, B), NEW q \in Quieted(r)
    PROVE  OKSituation(q, B)
<1> DEFINE kept == {e \in r.pend : ~Covers(r.vv, e.vv)}
<1>1. PICK M \in SUBSET kept :
        q = [r EXCEPT !.vv   = JoinAll(@, Vvs(M)),
                      !.pend = kept \ M,
                      !.bump = @ \/ \E e \in M : e.c # r.c]
  BY DEF Quieted
<1>2. \A v \in Vvs(M) : Below(v, B)
  BY DEF Vvs, OKSituation, OKVersion
<1>3. Below(JoinAll(r.vv, Vvs(M)), B)
  BY <1>2, JoinBelow DEF OKSituation
<1> QED BY <1>1, <1>3 DEF OKSituation

LEMMA BuriedOK ==
    ASSUME NEW B \in VV, NEW r, OKSituation(r, B), NEW q \in Buried(r)
    PROVE  OKSituation(q, B)
<1>1. CASE q = r
  BY <1>1
<1>2. CASE \E e \in r.pend :
             q = [r EXCEPT !.vv = e.vv, !.c = Gone, !.pend = Settle(@, e.path, e.vv)]
  <2>1. PICK e \in r.pend :
          q = [r EXCEPT !.vv = e.vv, !.c = Gone, !.pend = Settle(@, e.path, e.vv)]
    BY <1>2
  <2>2. Settle(r.pend, e.path, e.vv) \subseteq r.pend
    BY Settled
  <2>3. Below(e.vv, B)
    BY DEF OKSituation, OKVersion
  <2> QED BY <2>1, <2>2, <2>3 DEF OKSituation
<1>3. q = r \/ \E e \in r.pend :
             q = [r EXCEPT !.vv = e.vv, !.c = Gone, !.pend = Settle(@, e.path, e.vv)]
  BY DEF Buried
<1> QED BY <1>1, <1>2, <1>3

LEMMA PathDrainsOK ==
    ASSUME NEW B \in VV, NEW s, OKState(s, B), NEW p \in Path, NEW q \in PathDrains(s, p)
    PROVE  OKSituation(q, B)
<1>1. OKSituation(Situation(s, p), B)
  BY DEF OKState, OKSituation, Situation, At
<1>2. PICK r \in Retried(Situation(s, p)) : \E t \in Quieted(r) : q \in Buried(t)
  BY DEF PathDrains
<1>3. PICK t \in Quieted(r) : q \in Buried(t)
  BY <1>2
<1>4. OKSituation(r, B)
  BY <1>1, RetriedOK
<1>5. OKSituation(t, B)
  BY <1>4, QuietedOK
<1> QED BY <1>3, <1>5, BuriedOK

-----------------------------------------------------------------------------
(* The whole drain: ticks are counted, so the set of paths has to be finite. *)

LEMMA PathsFinite == IsFiniteSet(Path)
<1>1. IsFiniteSet(Content)
  BY BoundsAssumption, FS_Interval DEF Content
<1> QED BY <1>1, BoundsAssumption, FS_Product DEF Path

LEMMA Ticks ==
    ASSUME NEW paths, paths \subseteq Path
    PROVE  /\ Cardinality(paths) \in Nat
           /\ \A p : Upto(paths, p) \in Nat /\ Upto(paths, p) <= Cardinality(paths)
<1>1. IsFiniteSet(paths)
  BY PathsFinite, FS_Subset
<1>2. Cardinality(paths) \in Nat
  BY <1>1, FS_CardinalityType
<1>3. ASSUME NEW p PROVE Upto(paths, p) \in Nat /\ Upto(paths, p) <= Cardinality(paths)
  <2> DEFINE S == {q \in paths : PathKey(q) <= PathKey(p)}
  <2>1. S \subseteq paths
    OBVIOUS
  <2>2. IsFiniteSet(S) /\ Cardinality(S) <= Cardinality(paths)
    BY <1>1, <2>1, FS_Subset
  <2>3. Cardinality(S) \in Nat
    BY <2>2, FS_CardinalityType
  <2> QED BY <2>2, <2>3 DEF Upto
<1> QED BY <1>2, <1>3

\* Raising the component of d in a vv and in the bound.
LEMMA Raised ==
    ASSUME NEW B \in VV, NEW d \in Device, NEW n \in Nat, NEW t \in Nat, t <= n,
           NEW v, Below(v, B)
    PROVE  Below([v EXCEPT ![d] = t], [B EXCEPT ![d] = n])
BY DEF Below, VV

LEMMA RaisedBound ==
    ASSUME NEW B \in VV, NEW d \in Device, NEW n \in Nat, B[d] <= n
    PROVE  /\ [B EXCEPT ![d] = n] \in VV
           /\ \A k \in Device : B[k] <= [B EXCEPT ![d] = n][k]
           /\ [B EXCEPT ![d] = n][d] = n
BY DEF VV

\* drain_pending moves d's clock by the ticks it takes, keeps every vv under
\* the clocks, and touches no watermark.
DrainOK(d, s, B, r) ==
    /\ r.clk \in Nat /\ r.clk >= s.clk
    /\ OKState(r, [B EXCEPT ![d] = r.clk])
    /\ r.wm = s.wm

LEMMA DrainedOK ==
    ASSUME NEW B \in VV, NEW d \in Device, NEW s, OKState(s, B), B[d] = s.clk,
           NEW z \in Drained(d, s)
    PROVE  DrainOK(d, s, B, z)
<1> DEFINE busy == Busy(s)
           drains == [p \in busy |-> PathDrains(s, p)]
           all == UNION {drains[p] : p \in busy}
<1>1. busy \subseteq Path
  BY DEF Busy, OKState, OKVersion
<1>2. PICK r \in [busy -> all] :
        /\ \A p \in busy : r[p] \in drains[p]
        /\ z = LET bumped == {p \in busy : r[p].bump} IN
             [s EXCEPT
                !.idx  = [p \in Path |->
                            IF p \notin busy THEN @[p]
                            ELSE [vv |-> IF p \in bumped
                                         THEN [r[p].vv EXCEPT ![d] = s.clk + Upto(bumped, p)]
                                         ELSE r[p].vv,
                                  c  |-> r[p].c]],
                !.pend = UNION {r[p].pend : p \in busy},
                !.park = UNION {r[p].park : p \in busy},
                !.clk  = @ + Cardinality(bumped)]
  BY DEF Drained
<1>3. ASSUME NEW p \in busy PROVE OKSituation(r[p], B)
  <2>1. r[p] \in PathDrains(s, p)
    BY <1>2
  <2>2. p \in Path
    BY <1>1
  <2> QED BY <2>1, <2>2, PathDrainsOK
<1>4. PICK bumped : bumped = {p \in busy : r[p].bump}
  OBVIOUS
<1>5. /\ Cardinality(bumped) \in Nat
      /\ \A p : Upto(bumped, p) \in Nat /\ Upto(bumped, p) <= Cardinality(bumped)
  <2>1. bumped \subseteq Path
    BY <1>1, <1>4
  <2> QED BY <2>1, Ticks
<1>6. PICK n : n = s.clk + Cardinality(bumped)
  OBVIOUS
<1>7. n \in Nat /\ n >= s.clk /\ s.clk \in Nat
  BY <1>5, <1>6 DEF OKState
<1>8. PICK C : C = [B EXCEPT ![d] = n]
  OBVIOUS
<1>9. C \in VV /\ \A k \in Device : B[k] <= C[k]
  BY <1>7, <1>8, RaisedBound
<1>10. PICK idx : idx = [p \in Path |->
                            IF p \notin busy THEN s.idx[p]
                            ELSE [vv |-> IF p \in bumped
                                         THEN [r[p].vv EXCEPT ![d] = s.clk + Upto(bumped, p)]
                                         ELSE r[p].vv,
                                  c  |-> r[p].c]]
  OBVIOUS
<1>11. PICK pend : pend = UNION {r[p].pend : p \in busy}
  OBVIOUS
<1>12. PICK park : park = UNION {r[p].park : p \in busy}
  OBVIOUS
<1>13. z = [s EXCEPT !.idx = idx, !.pend = pend, !.park = park, !.clk = n]
  BY <1>2, <1>4, <1>6, <1>10, <1>11, <1>12
<1>14. z = [idx |-> idx, pend |-> pend, park |-> park, wm |-> s.wm, clk |-> n]
  BY <1>13 DEF OKState
<1>15. ASSUME NEW p \in Path PROVE Below(idx[p].vv, C)
  <2>1. CASE p \notin busy
    <3>1. idx[p] = s.idx[p] /\ Below(s.idx[p].vv, B)
      BY <1>10, <2>1 DEF OKState
    <3> QED BY <3>1, <1>9, Higher
  <2>2. CASE p \in busy /\ p \in bumped
    <3>1. idx[p].vv = [r[p].vv EXCEPT ![d] = s.clk + Upto(bumped, p)]
      BY <1>10, <2>2
    <3>2. PICK t \in Nat : t = s.clk + Upto(bumped, p) /\ t <= n
      BY <1>5, <1>6, <1>7
    <3>3. Below(r[p].vv, B)
      BY <1>3, <2>2 DEF OKSituation
    <3>4. Below([r[p].vv EXCEPT ![d] = t], [B EXCEPT ![d] = n])
      BY <1>7, <3>2, <3>3, Raised
    <3> QED BY <1>8, <3>1, <3>2, <3>4
  <2>3. CASE p \in busy /\ p \notin bumped
    <3>1. idx[p].vv = r[p].vv
      BY <1>10, <2>3
    <3>2. Below(r[p].vv, B)
      BY <1>3, <2>3 DEF OKSituation
    <3> QED BY <1>9, <3>1, <3>2, Higher
  <2> QED BY <2>1, <2>2, <2>3
<1>16. ASSUME NEW e \in pend \cup park PROVE OKVersion(e, C)
  <2>1. \E p \in busy : e \in r[p].pend \cup r[p].park
    BY <1>11, <1>12
  <2>2. OKVersion(e, B)
    BY <2>1, <1>3 DEF OKSituation
  <2> QED BY <2>2, <1>9, Higher
<1>17. OKState(s, C)
  BY <1>9, Higher
<1>18. OKState(z, C)
  <2>1. idx = [p \in Path |-> idx[p]]
    BY <1>10
  <2>2. s.wm = [q \in Device |-> s.wm[q]] /\ \A q \in Device : Below(s.wm[q], C)
    BY <1>17 DEF OKState
  <2> QED BY <1>7, <1>14, <1>15, <1>16, <2>1, <2>2 DEF OKState
<1> QED BY <1>7, <1>8, <1>14, <1>18 DEF DrainOK

-----------------------------------------------------------------------------
(* advertised(): monotone in the clock and the watermarks. *)

LEMMA AdvertisedOK ==
    ASSUME NEW B \in VV, NEW d \in Device, NEW s, OKState(s, B), s.clk <= B[d]
    PROVE  /\ Below(Advertised(d, s), B)
           /\ IsJoin(Advertised(d, s), [Zero EXCEPT ![d] = s.clk], {s.wm[q] : q \in Device})
<1>1. Below([Zero EXCEPT ![d] = s.clk], B)
  BY DEF Below, Zero, VV, OKState
<1>2. \A v \in {s.wm[q] : q \in Device} : Below(v, B)
  BY DEF OKState
<1> QED BY <1>1, <1>2, JoinIsJoin, JoinBelow DEF Advertised

LEMMA AdvertisedGrows ==
    ASSUME NEW B \in VV, NEW d \in Device, NEW s, NEW t,
           OKState(s, B), OKState(t, B), t.clk <= B[d], s.clk <= t.clk,
           \A q \in Device : Covers(t.wm[q], s.wm[q])
    PROVE  Covers(Advertised(d, t), Advertised(d, s))
<1>1. s.clk \in Nat /\ t.clk \in Nat /\ B[d] \in Nat
  BY DEF OKState, VV
<1>2. s.clk <= B[d]
  BY <1>1
<1>3. PICK x : x = Advertised(d, s)
  OBVIOUS
<1>4. PICK y : y = Advertised(d, t)
  OBVIOUS
<1>5. PICK a : a = [Zero EXCEPT ![d] = s.clk]
  OBVIOUS
<1>6. PICK b : b = [Zero EXCEPT ![d] = t.clk]
  OBVIOUS
<1>7. IsJoin(x, a, {s.wm[q] : q \in Device}) /\ IsJoin(y, b, {t.wm[q] : q \in Device})
  BY <1>2, <1>3, <1>4, <1>5, <1>6, AdvertisedOK
<1>8. x \in VV /\ y \in VV
  BY <1>7 DEF IsJoin
<1>9. ASSUME NEW k \in Device PROVE y[k] >= x[k]
  <2>1. x[k] \in Nat /\ y[k] \in Nat
    BY <1>8 DEF VV
  <2>2. CASE x[k] = a[k]
    <3>1. a[k] <= b[k] /\ a[k] \in Nat /\ b[k] \in Nat
      BY <1>1, <1>5, <1>6 DEF Zero
    <3>2. y[k] >= b[k]
      BY <1>7 DEF IsJoin
    <3> QED BY <2>1, <2>2, <3>1, <3>2
  <2>3. ASSUME NEW q \in Device, x[k] = s.wm[q][k] PROVE y[k] >= x[k]
    <3>1. y[k] >= t.wm[q][k]
      BY <1>7 DEF IsJoin
    <3>2. t.wm[q] \in VV /\ s.wm[q] \in VV
      BY DEF OKState, Below
    <3>3. t.wm[q][k] >= s.wm[q][k] /\ t.wm[q][k] \in Nat
      BY <3>2 DEF Covers, VV
    <3> QED BY <2>1, <2>3, <3>1, <3>3
  <2>4. x[k] = a[k] \/ \E q \in Device : x[k] = s.wm[q][k]
    BY <1>7 DEF IsJoin
  <2> QED BY <2>2, <2>3, <2>4
<1>10. DOMAIN y = Device
  BY <1>8 DEF VV
<1> QED BY <1>3, <1>4, <1>9, <1>10 DEF Covers

LEMMA CoversTransitive ==
    ASSUME NEW a \in VV, NEW b \in VV, NEW c \in VV, Covers(a, b), Covers(b, c)
    PROVE  Covers(a, c)
BY DEF Covers, VV

-----------------------------------------------------------------------------
(* The inductive invariant: every vv of the system is under the clocks of  *)
(* the devices it names; a leg's vv, and a watermark, is under what its    *)
(* sender still advertises.                                                *)

Clocks == [d \in Device |-> st[d].clk]

Claimed(q, v) == Covers(Advertised(q, st[q]), v)

OKLeg(m) ==
    /\ m = [from |-> m.from, to |-> m.to, kind |-> m.kind, vv |-> m.vv,
            delta |-> m.delta, complete |-> m.complete]
    /\ m.from \in Device /\ m.to \in Device
    /\ Below(m.vv, Clocks) /\ Claimed(m.from, m.vv)
    /\ \A e \in m.delta : OKVersion(e, Clocks)

StatesOK ==
    /\ st = [d \in Device |-> st[d]]
    /\ Clocks \in VV
    /\ \A d \in Device : OKState(st[d], Clocks)
    /\ \A d, q \in Device : Claimed(q, st[d].wm[q])

RoundInv ==
    /\ StatesOK
    /\ \A m \in net \cup partial : OKLeg(m)
    /\ \A v \in made : Below(v.vv, Clocks)

\* What a handler of d may leave: vvs under the clocks once d's has moved, and
\* watermarks that grew by what their peers had claimed.
MayBecome(d, s) ==
    /\ s.clk >= st[d].clk
    /\ OKState(s, [Clocks EXCEPT ![d] = s.clk])
    /\ \A q \in Device : Covers(s.wm[q], st[d].wm[q]) /\ Claimed(q, s.wm[q])

\* A step that moves d to such a state loses nothing of what was claimed.
LEMMA Moved ==
    ASSUME StatesOK, NEW d \in Device, NEW s, MayBecome(d, s), st' = [st EXCEPT ![d] = s]
    PROVE  /\ StatesOK'
           /\ Clocks' = [Clocks EXCEPT ![d] = s.clk]
           /\ \A v : Below(v, Clocks) => Below(v, Clocks')
           /\ \A e : OKVersion(e, Clocks) => OKVersion(e, Clocks')
           /\ \A q \in Device : \A v \in VV : Claimed(q, v) => Claimed(q, v)'
<1>1. \A q \in Device : st'[q] = IF q = d THEN s ELSE st[q]
  BY DEF StatesOK
<1>2. st' = [q \in Device |-> st'[q]]
  BY DEF StatesOK
<1>3. Clocks' = [Clocks EXCEPT ![d] = s.clk]
  <2>1. Clocks' = [q \in Device |-> st'[q].clk]
    BY DEF Clocks
  <2>2. Clocks = [q \in Device |-> st[q].clk]
    BY DEF Clocks
  <2>3. \A q \in Device : st'[q].clk = IF q = d THEN s.clk ELSE st[q].clk
    BY <1>1
  <2> QED BY <2>1, <2>2, <2>3
<1>4. s.clk \in Nat /\ Clocks[d] <= s.clk /\ Clocks \in VV
  BY DEF MayBecome, OKState, StatesOK, Clocks
<1>5. Clocks' \in VV /\ \A k \in Device : Clocks[k] <= Clocks'[k]
  BY <1>3, <1>4, RaisedBound
<1>6. PICK B : B = Clocks
  OBVIOUS
<1>7. PICK C : C = Clocks'
  OBVIOUS
<1>8. /\ \A v : Below(v, B) => Below(v, C)
      /\ \A e : OKVersion(e, B) => OKVersion(e, C)
      /\ \A z : OKState(z, B) => OKState(z, C)
  BY <1>4, <1>5, <1>6, <1>7, Higher
<1>9. \A q \in Device : OKState(st[q], C)
  BY <1>6, <1>8 DEF StatesOK
<1>10. OKState(s, C)
  BY <1>3, <1>7 DEF MayBecome
<1>11. ASSUME NEW q \in Device PROVE Covers(Advertised(q, st'[q]), Advertised(q, st[q]))
  <2>1. OKState(st'[q], C)
    BY <1>1, <1>9, <1>10
  <2>2. st'[q].clk <= C[q] /\ st[q].clk <= st'[q].clk
    BY <1>1, <1>5, <1>7, <2>1 DEF Clocks, VV, MayBecome, OKState
  <2>3. ASSUME NEW x \in Device PROVE Covers(st'[q].wm[x], st[q].wm[x])
    <3>1. CASE q = d
      BY <1>1, <3>1 DEF MayBecome
    <3>2. CASE q # d
      <4>1. st[q].wm[x] \in VV /\ st'[q] = st[q]
        BY <1>1, <1>9, <3>2 DEF OKState, Below
      <4> QED BY <4>1 DEF Covers, VV
    <3> QED BY <3>1, <3>2
  <2> QED BY <1>5, <1>7, <1>9, <2>1, <2>2, <2>3, AdvertisedGrows
<1>12. ASSUME NEW q \in Device PROVE Advertised(q, st'[q]) \in VV /\ Advertised(q, st[q]) \in VV
  <2>1. OKState(st'[q], C)
    BY <1>1, <1>9, <1>10
  <2>2. st'[q].clk <= C[q] /\ st[q].clk <= C[q]
    BY <1>1, <1>5, <1>7, <1>9, <2>1 DEF Clocks, VV, MayBecome, OKState
  <2>3. Below(Advertised(q, st'[q]), C) /\ Below(Advertised(q, st[q]), C)
    BY <1>5, <1>7, <1>9, <2>1, <2>2, AdvertisedOK
  <2> QED BY <2>3 DEF Below
<1>13. ASSUME NEW q \in Device, NEW v \in VV, Claimed(q, v) PROVE Covers(Advertised(q, st'[q]), v)
  BY <1>11, <1>12, <1>13, CoversTransitive DEF Claimed
<1>14. ASSUME NEW x \in Device, NEW q \in Device PROVE Covers(Advertised(q, st'[q]), st'[x].wm[q])
  <2>1. CASE x = d
    <3>1. Claimed(q, s.wm[q]) /\ s.wm[q] \in VV
      BY <1>10 DEF MayBecome, OKState, Below
    <3> QED BY <1>1, <1>13, <2>1, <3>1
  <2>2. CASE x # d
    <3>1. Claimed(q, st[x].wm[q]) /\ st[x].wm[q] \in VV
      BY <1>9 DEF StatesOK, OKState, Below
    <3> QED BY <1>1, <1>13, <2>2, <3>1
  <2> QED BY <2>1, <2>2
<1>15. \A q \in Device : OKState(st'[q], C)
  BY <1>1, <1>9, <1>10
<1>16. StatesOK'
  BY <1>2, <1>5, <1>7, <1>14, <1>15 DEF StatesOK, Claimed
<1>17. \A q \in Device : \A v \in VV : Claimed(q, v) => Claimed(q, v)'
  BY <1>13 DEF Claimed
<1> QED BY <1>3, <1>6, <1>7, <1>8, <1>16, <1>17

\* The legs that were there, and those the step adds.
LEMMA LegStays ==
    ASSUME StatesOK, NEW m, OKLeg(m),
           \A v : Below(v, Clocks) => Below(v, Clocks'),
           \A e : OKVersion(e, Clocks) => OKVersion(e, Clocks'),
           \A q \in Device : \A v \in VV : Claimed(q, v) => Claimed(q, v)'
    PROVE  OKLeg(m)'
<1>1. m.vv \in VV
  BY DEF OKLeg, Below
<1> QED BY <1>1 DEF OKLeg

\* A death forgets which openers were answered.
LEMMA Forgotten ==
    ASSUME NEW d, NEW legs, NEW n \in Forget(d, legs)
    PROVE  \E m \in legs : \E kind : n = [m EXCEPT !.kind = kind]
BY DEF Forget

LEMMA LegForgotten ==
    ASSUME NEW m, OKLeg(m), NEW kind
    PROVE  OKLeg([m EXCEPT !.kind = kind])
<1>1. PICK n : n = [m EXCEPT !.kind = kind]
  OBVIOUS
<1>2. n = [from |-> m.from, to |-> m.to, kind |-> kind, vv |-> m.vv,
           delta |-> m.delta, complete |-> m.complete]
  BY <1>1 DEF OKLeg
<1>3. OKLeg(n)
  BY <1>2 DEF OKLeg
<1> QED BY <1>1, <1>3

-----------------------------------------------------------------------------
(* The parts of the handlers. *)

\* A drain from a state of d that is under the clocks.
LEMMA DrainedMayBecome ==
    ASSUME StatesOK, NEW d \in Device, NEW s, MayBecome(d, s), NEW r \in Drained(d, s)
    PROVE  MayBecome(d, r)
<1>1. PICK B : B = [Clocks EXCEPT ![d] = s.clk]
  OBVIOUS
<1>2. s.clk \in Nat /\ Clocks[d] <= s.clk /\ Clocks \in VV
  BY DEF MayBecome, OKState, StatesOK, Clocks
<1>3. B \in VV /\ B[d] = s.clk
  BY <1>1, <1>2, RaisedBound
<1>4. OKState(s, B)
  BY <1>1 DEF MayBecome
<1>5. DrainOK(d, s, B, r)
  BY <1>3, <1>4, DrainedOK
<1>6. [B EXCEPT ![d] = r.clk] = [Clocks EXCEPT ![d] = r.clk]
  BY <1>1, <1>2 DEF VV
<1>7. st[d].clk \in Nat /\ r.clk \in Nat /\ r.clk >= s.clk /\ s.clk >= st[d].clk
  BY <1>2, <1>5 DEF DrainOK, MayBecome, StatesOK, OKState
<1> QED BY <1>2, <1>5, <1>6, <1>7 DEF DrainOK, MayBecome

\* The state of d before anything happened to it.
LEMMA Unmoved ==
    ASSUME StatesOK, NEW d \in Device
    PROVE  /\ MayBecome(d, st[d])
           /\ [Clocks EXCEPT ![d] = st[d].clk] = Clocks
           /\ Clocks[d] = st[d].clk /\ st[d].clk \in Nat
<1>1. [Clocks EXCEPT ![d] = st[d].clk] = Clocks
  BY DEF Clocks
<1>2. OKState(st[d], Clocks) /\ st[d].clk \in Nat
  BY DEF StatesOK, OKState
<1>3. ASSUME NEW q \in Device PROVE Covers(st[d].wm[q], st[d].wm[q])
  <2>1. st[d].wm[q] \in VV
    BY <1>2 DEF OKState, Below
  <2> QED BY <2>1 DEF Covers, VV
<1>4. \A q \in Device : Claimed(q, st[d].wm[q])
  BY DEF StatesOK
<1> QED BY <1>1, <1>2, <1>3, <1>4 DEF MayBecome, Clocks

\* A change of the index and the pending and parked sets, at most one clock
\* tick or two further, with the watermarks left alone.
LEMMA Changed ==
    ASSUME StatesOK, NEW d \in Device, NEW s, NEW n \in Nat, n >= st[d].clk,
           OKState(s, [Clocks EXCEPT ![d] = n]), s.clk = n, s.wm = st[d].wm
    PROVE  MayBecome(d, s)
<1>1. MayBecome(d, st[d])
  BY Unmoved
<1> QED BY <1>1 DEF MayBecome

\* Absorbed versions come from the pending set and the page.
LEMMA AbsorbedOK ==
    ASSUME NEW s, NEW delta, NEW a \in Absorbs(s, delta)
    PROVE  a.pend \subseteq s.pend \cup delta
<1>1. PICK all : all = Maximal(s.pend \cup {e \in delta : Fresh(s, e)})
  OBVIOUS
<1>2. all \subseteq s.pend \cup delta
  BY <1>1 DEF Maximal
<1>3. \E refused : a = [pend |-> all \ refused, all_absorbed |-> refused = {}]
  BY <1>1 DEF Absorbs
<1> QED BY <1>2, <1>3

\* try_complete(): a leg under the clocks claims nothing of ours that we do
\* not know, so the clock does not jump; the watermark joins what the sender
\* has claimed.
LEMMA CompletedMayBecome ==
    ASSUME StatesOK, NEW m, OKLeg(m), NEW z \in Completed(m.to, m)
    PROVE  MayBecome(m.to, z)
<1>1. PICK d : d = m.to
  OBVIOUS
<1>2. d \in Device /\ m.from \in Device /\ Clocks \in VV
  BY <1>1 DEF OKLeg, StatesOK
<1>3. OKState(st[d], Clocks)
  BY <1>2 DEF StatesOK
<1>4. PICK s : s = st[d]
  OBVIOUS
<1>5. PICK claim : claim = JoinAll(m.vv, Vvs(m.delta))[d]
  OBVIOUS
<1>6. claim \in Nat /\ claim <= s.clk /\ s.clk \in Nat
  <2>1. \A v \in Vvs(m.delta) : Below(v, Clocks)
    BY DEF Vvs, OKLeg, OKVersion
  <2>2. Below(JoinAll(m.vv, Vvs(m.delta)), Clocks)
    BY <1>2, <2>1, JoinBelow DEF OKLeg
  <2>3. s.clk = Clocks[d] /\ s.clk \in Nat
    BY <1>2, <1>4, Unmoved
  <2> QED BY <1>2, <1>5, <2>2, <2>3 DEF Below, VV
<1>7. (IF claim > s.clk THEN claim ELSE s.clk) = s.clk
  BY <1>6
<1>8. PICK a \in Absorbs(s, m.delta) :
        z \in {[r EXCEPT !.wm[m.from] = IF Watermark(m, a.all_absorbed)
                                        THEN Join(@, m.vv) ELSE @] :
                 r \in Drained(d, [s EXCEPT !.pend = a.pend,
                                   !.clk = IF claim > s.clk THEN claim ELSE s.clk])}
  BY <1>1, <1>4, <1>5 DEF Completed
<1>9. PICK t : t = [s EXCEPT !.pend = a.pend, !.clk = s.clk]
  OBVIOUS
<1>10. PICK r \in Drained(d, t) :
         z = [r EXCEPT !.wm[m.from] = IF Watermark(m, a.all_absorbed)
                                      THEN Join(@, m.vv) ELSE @]
  BY <1>7, <1>8, <1>9
<1>11. t = [idx |-> s.idx, pend |-> a.pend, park |-> s.park, wm |-> s.wm, clk |-> s.clk]
  BY <1>3, <1>4, <1>9 DEF OKState
<1>12. OKState(t, Clocks)
  <2>1. a.pend \subseteq s.pend \cup m.delta
    BY AbsorbedOK
  <2>2. \A e \in a.pend : OKVersion(e, Clocks)
    BY <1>3, <1>4, <2>1 DEF OKState, OKLeg
  <2> QED BY <1>3, <1>4, <1>11, <2>2 DEF OKState
<1>13. MayBecome(d, t)
  <2>1. [Clocks EXCEPT ![d] = st[d].clk] = Clocks /\ st[d].clk \in Nat
    BY <1>2, Unmoved
  <2>2. t.clk = st[d].clk /\ t.wm = st[d].wm
    BY <1>4, <1>11
  <2>3. st[d].clk >= st[d].clk
    BY <2>1
  <2> QED BY <1>2, <1>12, <2>1, <2>2, <2>3, Changed
<1>14. MayBecome(d, r)
  BY <1>2, <1>10, <1>13, DrainedMayBecome
<1>15. PICK C : C = [Clocks EXCEPT ![d] = r.clk]
  OBVIOUS
<1>16. /\ OKState(r, C) /\ C \in VV /\ r.clk \in Nat
       /\ \A k \in Device : Clocks[k] <= C[k]
  <2>1. OKState(r, C) /\ r.clk >= st[d].clk /\ r.clk \in Nat
    BY <1>14, <1>15 DEF MayBecome, OKState
  <2>2. Clocks[d] <= r.clk
    BY <1>2, <2>1, Unmoved
  <2> QED BY <1>2, <1>15, <2>1, <2>2, RaisedBound
<1>17. PICK w : w = IF Watermark(m, a.all_absorbed) THEN Join(r.wm[m.from], m.vv)
                    ELSE r.wm[m.from]
  OBVIOUS
<1>18. z = [idx |-> r.idx, pend |-> r.pend, park |-> r.park,
            wm |-> [r.wm EXCEPT ![m.from] = w], clk |-> r.clk]
  BY <1>10, <1>16, <1>17 DEF OKState
<1>19. Below(r.wm[m.from], C) /\ Below(m.vv, C)
  <2>1. Below(r.wm[m.from], C)
    BY <1>2, <1>16 DEF OKState
  <2>2. Below(m.vv, Clocks)
    BY DEF OKLeg
  <2> QED BY <1>2, <1>16, <2>1, <2>2, Higher
<1>20. PICK j : j = Join(r.wm[m.from], m.vv)
  OBVIOUS
<1>21. /\ Below(j, C)
       /\ \A k \in Device : j[k] = r.wm[m.from][k] \/ j[k] = m.vv[k]
       /\ \A k \in Device : j[k] >= r.wm[m.from][k]
  BY <1>16, <1>19, <1>20, PairBelow
<1>22. w = j \/ w = r.wm[m.from]
  BY <1>17, <1>20
<1>23. Below(w, C) /\ Covers(w, r.wm[m.from])
  <2>1. Below(w, C)
    BY <1>19, <1>21, <1>22
  <2>2. r.wm[m.from] \in VV /\ w \in VV
    BY <1>19, <2>1 DEF Below
  <2>3. \A k \in Device : w[k] >= r.wm[m.from][k]
    BY <1>21, <1>22, <2>2 DEF VV
  <2> QED BY <2>1, <2>2, <2>3 DEF Covers, VV
<1>24. Claimed(m.from, w)
  <2>1. Claimed(m.from, m.vv) /\ Claimed(m.from, r.wm[m.from])
    BY <1>2, <1>14 DEF OKLeg, MayBecome
  <2>2. Below(Advertised(m.from, st[m.from]), Clocks)
    <3>1. OKState(st[m.from], Clocks) /\ st[m.from].clk <= Clocks[m.from]
      BY <1>2, Unmoved DEF StatesOK
    <3> QED BY <1>2, <3>1, AdvertisedOK
  <2>3. DOMAIN Advertised(m.from, st[m.from]) = Device
    BY <2>2 DEF Below, VV
  <2> QED BY <1>21, <1>22, <2>1, <2>3 DEF Claimed, Covers
<1>25. ASSUME NEW q \in Device
       PROVE  Below(z.wm[q], C) /\ Covers(z.wm[q], st[d].wm[q]) /\ Claimed(q, z.wm[q])
  <2>1. z.wm[q] = IF q = m.from THEN w ELSE r.wm[q]
    BY <1>16, <1>18 DEF OKState
  <2>2. Below(r.wm[q], C) /\ Covers(r.wm[q], st[d].wm[q]) /\ Claimed(q, r.wm[q])
    BY <1>14, <1>16 DEF MayBecome, OKState
  <2>3. st[d].wm[q] \in VV
    BY <1>3 DEF OKState, Below
  <2>4. CASE q = m.from
    <3>1. w \in VV /\ r.wm[q] \in VV
      BY <1>23, <2>2 DEF Below
    <3>2. Covers(w, st[d].wm[q])
      BY <1>23, <2>2, <2>3, <2>4, <3>1, CoversTransitive
    <3> QED BY <1>23, <1>24, <2>1, <2>4, <3>2
  <2> QED BY <2>1, <2>2, <2>4
<1>26. OKState(z, C)
  <2>1. z.wm = [q \in Device |-> z.wm[q]]
    BY <1>16, <1>18 DEF OKState
  <2>2. z.clk = r.clk /\ z.idx = r.idx /\ z.pend = r.pend /\ z.park = r.park
    BY <1>18
  <2>3. z = [idx |-> z.idx, pend |-> z.pend, park |-> z.park, wm |-> z.wm, clk |-> z.clk]
    BY <1>18
  <2> QED BY <1>16, <1>25, <2>1, <2>2, <2>3 DEF OKState
<1>27. z.clk = r.clk /\ r.clk >= st[d].clk
  BY <1>14, <1>18 DEF MayBecome
<1> QED BY <1>1, <1>15, <1>25, <1>26, <1>27 DEF MayBecome

\* A state of d with a new index and pending or parked sets, under the clock n.
LEMMA Rewritten ==
    ASSUME StatesOK, NEW d \in Device, NEW n \in Nat, n >= st[d].clk, NEW C,
           C = [Clocks EXCEPT ![d] = n], NEW idx, NEW pend, NEW park, NEW s,
           idx = [p \in Path |-> idx[p]],
           \A p \in Path : Below(idx[p].vv, C),
           \A e \in pend \cup park : OKVersion(e, C),
           s = [idx |-> idx, pend |-> pend, park |-> park, wm |-> st[d].wm, clk |-> n]
    PROVE  MayBecome(d, s)
<1>1. C \in VV /\ \A k \in Device : Clocks[k] <= C[k]
  <2>1. Clocks[d] <= n /\ Clocks \in VV
    BY Unmoved DEF StatesOK
  <2> QED BY <2>1, RaisedBound
<1>2. OKState(st[d], C)
  BY <1>1, Higher DEF StatesOK
<1>3. OKState(s, C)
  BY <1>2 DEF OKState
<1> QED BY <1>3, Changed

\* What a raised clock of d keeps under it, of what was there and of new ticks.
LEMMA Tick ==
    ASSUME StatesOK, NEW d \in Device, NEW n \in Nat, n >= st[d].clk, NEW C,
           C = [Clocks EXCEPT ![d] = n]
    PROVE  /\ C \in VV
           /\ \A v : Below(v, Clocks) => Below(v, C)
           /\ \A e : OKVersion(e, Clocks) => OKVersion(e, C)
           /\ \A v : \A t \in Nat : Below(v, Clocks) /\ t <= n => Below([v EXCEPT ![d] = t], C)
           /\ Below(Zero, Clocks)
<1>1. Clocks[d] <= n /\ Clocks \in VV
  BY Unmoved DEF StatesOK
<1>2. C \in VV /\ \A k \in Device : Clocks[k] <= C[k]
  BY <1>1, RaisedBound
<1>3. PICK B : B = Clocks
  OBVIOUS
<1>4. (\A v : Below(v, B) => Below(v, C)) /\ (\A e : OKVersion(e, B) => OKVersion(e, C))
  BY <1>1, <1>2, <1>3, Higher
<1>5. ASSUME NEW v, NEW t \in Nat, Below(v, B), t <= n PROVE Below([v EXCEPT ![d] = t], C)
  BY <1>1, <1>3, <1>5, Raised
<1>6. Below(Zero, B)
  BY <1>1, <1>3 DEF Below, Zero, VV
<1> QED BY <1>2, <1>3, <1>4, <1>5, <1>6

\* materialize_conflict(): both new vvs carry ticks of ours.
LEMMA KeptBothOK ==
    ASSUME StatesOK, NEW d \in Device, NEW e, OKVersion(e, Clocks)
    PROVE  MayBecome(d, KeptBoth(d, st[d], e))
<1> DEFINE s == st[d]
           ours == EntryAt(s.idx, e.path)
           winner == IF VersionId(ours) < VersionId(e) THEN ours ELSE e
           loser == IF winner = ours THEN e ELSE ours
           copy == <<e.path[1], loser.c>>
<1>1. /\ OKState(s, Clocks) /\ s.clk \in Nat /\ e.path \in Path /\ Clocks \in VV
      /\ Below(e.vv, Clocks)
  BY DEF StatesOK, OKState, OKVersion
<1>2. PICK ticks \in {1, 2} : ticks = IF s.idx[copy].c = loser.c THEN 1 ELSE 2
  OBVIOUS
<1>3. PICK copied : copied = IF ticks = 1 THEN s.idx
                  ELSE [s.idx EXCEPT ![copy] =
                          [vv |-> [Zero EXCEPT ![d] = s.clk + 1], c |-> loser.c]]
  OBVIOUS
<1>4. PICK idx : idx = [copied EXCEPT ![e.path] =
                  [vv |-> [Join(ours.vv, e.vv) EXCEPT ![d] = s.clk + ticks],
                   c  |-> winner.c]]
  OBVIOUS
<1>5. PICK n \in Nat : n = s.clk + ticks /\ n >= s.clk /\ s.clk + 1 <= n
  <2>1. PICK c \in Nat : c = s.clk
    BY <1>1
  <2>2. c + ticks \in Nat /\ c + ticks >= c /\ c + 1 <= c + ticks
    BY <1>2
  <2> QED BY <2>1, <2>2
<1>6. PICK pend : pend = Settle(s.pend, e.path, e.vv)
  OBVIOUS
<1>7. PICK z : z = KeptBoth(d, s, e)
  OBVIOUS
<1>8. z = [s EXCEPT !.idx = idx, !.clk = n, !.pend = pend]
  BY <1>2, <1>3, <1>4, <1>5, <1>6, <1>7 DEF KeptBoth
<1>9. z = [idx |-> idx, pend |-> pend, park |-> s.park, wm |-> s.wm, clk |-> n]
  BY <1>1, <1>8 DEF OKState
<1>10. PICK C : C = [Clocks EXCEPT ![d] = n]
  OBVIOUS
<1>11. /\ \A v : Below(v, Clocks) => Below(v, C)
       /\ \A f : OKVersion(f, Clocks) => OKVersion(f, C)
       /\ \A v : \A t \in Nat : Below(v, Clocks) /\ t <= n => Below([v EXCEPT ![d] = t], C)
       /\ Below(Zero, Clocks)
  BY <1>5, <1>10, Tick
<1>12. Below(Join(ours.vv, e.vv), Clocks)
  <2>1. Below(ours.vv, Clocks)
    BY <1>1 DEF EntryAt, OKState
  <2> QED BY <1>1, <2>1, PairBelow
<1>13. PICK v1 : v1 = [Zero EXCEPT ![d] = s.clk + 1]
  OBVIOUS
<1>14. PICK v2 : v2 = [Join(ours.vv, e.vv) EXCEPT ![d] = n]
  OBVIOUS
<1>15. Below(v1, C) /\ Below(v2, C)
  <2>1. s.clk + 1 \in Nat /\ s.clk + 1 <= n /\ n <= n
    BY <1>1, <1>5
  <2>2. Below(v1, C)
    BY <1>11, <1>13, <2>1
  <2>3. Below(v2, C)
    BY <1>5, <1>11, <1>12, <1>14, <2>1
  <2> QED BY <2>2, <2>3
<1>16. /\ copied = [p \in Path |-> copied[p]]
       /\ \A p \in Path : copied[p] = s.idx[p] \/ copied[p].vv = v1
  <2>1. s.idx = [p \in Path |-> s.idx[p]]
    BY <1>1 DEF OKState
  <2>2. CASE copied = s.idx
    BY <2>1, <2>2
  <2>3. PICK x : x = [vv |-> v1, c |-> loser.c]
    OBVIOUS
  <2>4. PICK y : y = copy
    OBVIOUS
  <2>5. CASE copied = [s.idx EXCEPT ![y] = x]
    BY <2>1, <2>3, <2>5
  <2> QED BY <1>3, <1>13, <2>2, <2>3, <2>4, <2>5
<1>17. /\ idx = [p \in Path |-> idx[p]]
       /\ \A p \in Path : idx[p] = copied[p] \/ idx[p].vv = v2
  <2>1. PICK x : x = [vv |-> v2, c |-> winner.c]
    OBVIOUS
  <2>2. idx = [copied EXCEPT ![e.path] = x]
    BY <1>4, <1>5, <1>14, <2>1
  <2> QED BY <1>16, <2>1, <2>2
<1>18. ASSUME NEW p \in Path PROVE Below(idx[p].vv, C)
  <2>1. Below(s.idx[p].vv, C)
    BY <1>1, <1>11 DEF OKState
  <2> QED BY <1>15, <1>16, <1>17, <2>1
<1>19. \A f \in pend \cup s.park : OKVersion(f, C)
  BY <1>1, <1>6, <1>11, Settled DEF OKState
<1>20. MayBecome(d, z)
  BY <1>5, <1>9, <1>10, <1>17, <1>18, <1>19, Rewritten
<1> QED BY <1>7, <1>20

\* apply_staged(): landed, parked or kept beside ours.
LEMMA AppliedOK ==
    ASSUME StatesOK, NEW d \in Device, NEW e, OKVersion(e, Clocks),
           NEW z \in Applied(d, st[d], e)
    PROVE  MayBecome(d, z)
<1>1. PICK s : s = st[d]
  OBVIOUS
<1>2. /\ OKState(s, Clocks) /\ s.clk \in Nat /\ e.path \in Path /\ Clocks \in VV
      /\ Below(e.vv, Clocks)
  BY <1>1 DEF StatesOK, OKState, OKVersion
<1>3. CASE z = KeptBoth(d, s, e)
  BY <1>1, <1>3, KeptBothOK
<1>4. CASE z = [s EXCEPT !.park = {f \in @ : f.path # e.path} \cup {e}]
  <2>1. PICK park : park = {f \in s.park : f.path # e.path} \cup {e}
    OBVIOUS
  <2>2. z = [idx |-> s.idx, pend |-> s.pend, park |-> park, wm |-> s.wm, clk |-> s.clk]
    BY <1>2, <1>4, <2>1 DEF OKState
  <2>3. /\ s.idx = [p \in Path |-> s.idx[p]]
        /\ \A p \in Path : Below(s.idx[p].vv, Clocks)
        /\ \A f \in s.pend \cup park : OKVersion(f, Clocks)
    BY <1>2, <2>1 DEF OKState
  <2>4. Clocks = [Clocks EXCEPT ![d] = s.clk] /\ s.clk >= st[d].clk
    BY <1>1, <1>2, Unmoved
  <2> QED BY <1>1, <1>2, <2>2, <2>3, <2>4, Rewritten
<1> DEFINE r == Landed(Situation(s, e.path), e)
           tick == IF r.bump THEN s.clk + 1 ELSE s.clk
<1>5. CASE z = [s EXCEPT
            !.idx[e.path] = [vv |-> IF r.bump THEN [r.vv EXCEPT ![d] = tick] ELSE r.vv,
                             c |-> r.c],
            !.clk = tick,
            !.pend = Settle(@, e.path, e.vv)]
  <2>1. OKSituation(r, Clocks)
    <3>1. OKSituation(Situation(s, e.path), Clocks)
      BY <1>2 DEF OKState, OKSituation, Situation, At
    <3> QED BY <1>2, <3>1, LandedOK
  <2>2. PICK v : v = r.vv
    OBVIOUS
  <2>3. Below(v, Clocks)
    BY <2>1, <2>2 DEF OKSituation
  <2>4. PICK n \in Nat : n = tick /\ n >= s.clk
    <3>1. s.clk + 1 \in Nat /\ s.clk + 1 >= s.clk /\ s.clk >= s.clk
      BY <1>2
    <3> QED BY <1>2, <3>1
  <2>5. PICK w : w = IF r.bump THEN [r.vv EXCEPT ![d] = tick] ELSE r.vv
    OBVIOUS
  <2>6. PICK c : c = r.c
    OBVIOUS
  <2> HIDE DEF r, tick
  <2>7. PICK C : C = [Clocks EXCEPT ![d] = n]
    OBVIOUS
  <2>8. /\ \A x : Below(x, Clocks) => Below(x, C)
        /\ \A f : OKVersion(f, Clocks) => OKVersion(f, C)
        /\ \A x : \A t \in Nat : Below(x, Clocks) /\ t <= n => Below([x EXCEPT ![d] = t], C)
    BY <1>1, <2>4, <2>7, Tick
  <2>9. Below(w, C)
    <3>1. n <= n
      BY <2>4
    <3> QED BY <2>2, <2>3, <2>4, <2>5, <2>8, <3>1
  <2>10. PICK pend : pend = Settle(s.pend, e.path, e.vv)
    OBVIOUS
  <2>11. PICK idx : idx = [s.idx EXCEPT ![e.path] = [vv |-> w, c |-> c]]
    OBVIOUS
  <2>12. z = [s EXCEPT !.idx = idx, !.clk = n, !.pend = pend]
    BY <1>5, <2>4, <2>5, <2>6, <2>10, <2>11
  <2>13. z = [idx |-> idx, pend |-> pend, park |-> s.park, wm |-> s.wm, clk |-> n]
    BY <1>2, <2>12 DEF OKState
  <2>14. idx = [p \in Path |-> idx[p]] /\ \A p \in Path : Below(idx[p].vv, C)
    BY <1>2, <2>8, <2>9, <2>11 DEF OKState
  <2>15. \A f \in pend \cup s.park : OKVersion(f, C)
    BY <1>2, <2>8, <2>10, Settled DEF OKState
  <2> QED BY <1>1, <2>4, <2>7, <2>13, <2>14, <2>15, Rewritten
<1>6. \/ z = KeptBoth(d, s, e)
      \/ z = [s EXCEPT
            !.idx[e.path] = [vv |-> IF r.bump THEN [r.vv EXCEPT ![d] = tick] ELSE r.vv,
                             c |-> r.c],
            !.clk = tick,
            !.pend = Settle(@, e.path, e.vv)]
      \/ z = [s EXCEPT !.park = {f \in @ : f.path # e.path} \cup {e}]
  BY <1>1 DEF Applied
<1> QED BY <1>3, <1>4, <1>5, <1>6

\* fold_scan(): the version of a local change takes the next clock value.
Scanned(d, p, c) ==
    [st[d] EXCEPT !.idx[p] = [vv |-> [@.vv EXCEPT ![d] = st[d].clk + 1], c |-> c],
                  !.clk = @ + 1]
LEMMA ScannedOK ==
    ASSUME StatesOK, NEW d \in Device, NEW p \in Path, NEW c
    PROVE  MayBecome(d, Scanned(d, p, c))
<1>0. PICK z : z = Scanned(d, p, c)
  OBVIOUS
<1>1. PICK s : s = st[d]
  OBVIOUS
<1>2. OKState(s, Clocks) /\ s.clk \in Nat /\ Clocks \in VV
  BY <1>1 DEF StatesOK, OKState
<1>3. PICK n \in Nat : n = s.clk + 1 /\ n >= s.clk
  BY <1>2
<1>4. PICK C : C = [Clocks EXCEPT ![d] = n]
  OBVIOUS
<1>5. /\ \A x : Below(x, Clocks) => Below(x, C)
      /\ \A f : OKVersion(f, Clocks) => OKVersion(f, C)
      /\ \A x : \A t \in Nat : Below(x, Clocks) /\ t <= n => Below([x EXCEPT ![d] = t], C)
  BY <1>1, <1>3, <1>4, Tick
<1>6. PICK w : w = [s.idx[p].vv EXCEPT ![d] = n]
  OBVIOUS
<1>7. Below(w, C)
  <2>1. n <= n /\ Below(s.idx[p].vv, Clocks)
    BY <1>2, <1>3 DEF OKState
  <2> QED BY <1>3, <1>5, <1>6, <2>1
<1>8. PICK idx : idx = [s.idx EXCEPT ![p] = [vv |-> w, c |-> c]]
  OBVIOUS
<1>9. z = [s EXCEPT !.idx = idx, !.clk = n]
  BY <1>0, <1>1, <1>3, <1>6, <1>8 DEF Scanned
<1>10. z = [idx |-> idx, pend |-> s.pend, park |-> s.park, wm |-> s.wm, clk |-> n]
  BY <1>2, <1>9 DEF OKState
<1>11. idx = [x \in Path |-> idx[x]] /\ \A x \in Path : Below(idx[x].vv, C)
  BY <1>2, <1>5, <1>7, <1>8 DEF OKState
<1>12. \A f \in s.pend \cup s.park : OKVersion(f, C)
  BY <1>2, <1>5 DEF OKState
<1>13. MayBecome(d, z)
  <2>1. n >= st[d].clk
    BY <1>1, <1>3
  <2>2. PICK pend : pend = s.pend
    OBVIOUS
  <2>3. PICK park : park = s.park
    OBVIOUS
  <2>4. z = [idx |-> idx, pend |-> pend, park |-> park, wm |-> st[d].wm, clk |-> n]
    BY <1>1, <1>10, <2>2, <2>3
  <2>5. \A f \in pend \cup park : OKVersion(f, C)
    BY <1>12, <2>2, <2>3
  <2> QED BY <1>4, <1>11, <2>1, <2>4, <2>5, Rewritten
<1> QED BY <1>0, <1>13

-----------------------------------------------------------------------------
(* answer_head(): what is sent is what the sender holds and advertises. *)

\* A leg d may send once it holds s.
Sendable(d, s, m) ==
    /\ m = [from |-> m.from, to |-> m.to, kind |-> m.kind, vv |-> m.vv,
            delta |-> m.delta, complete |-> m.complete]
    /\ m.from = d /\ m.to \in Device /\ m.vv = Advertised(d, s)
    /\ \A e \in m.delta : (\E p \in Path : e = EntryAt(s.idx, p)) \/ e \in s.pend

LEMMA AnswersSendable ==
    ASSUME NEW d \in Device, NEW s, NEW m, m.from \in Device, NEW b, NEW a \in Answers(d, s, m, b)
    PROVE  Sendable(d, s, a)
<1>1. a = [from |-> d, to |-> m.from,
           kind |-> IF m.kind = "opener" THEN "answer" ELSE "closing",
           vv |-> Advertised(d, s),
           delta |-> IF b THEN Delta(s, m.vv) ELSE {},
           complete |-> b]
  BY DEF Answers
<1>2. \A e \in Delta(s, m.vv) : (\E p \in Path : e = EntryAt(s.idx, p)) \/ e \in s.pend
  BY DEF Delta
<1>3. \A e \in a.delta : (\E p \in Path : e = EntryAt(s.idx, p)) \/ e \in s.pend
  BY <1>1, <1>2
<1> QED BY <1>1, <1>3 DEF Sendable

\* A sent leg is under the clocks of the state in which d holds s.
LEMMA SentOK ==
    ASSUME StatesOK', NEW d \in Device, NEW m, Sendable(d, st'[d], m)
    PROVE  OKLeg(m)'
<1>1. PICK s : s = st'[d]
  OBVIOUS
<1>2. PICK C : C = Clocks'
  OBVIOUS
<1>3. OKState(s, C) /\ C \in VV
  BY <1>1, <1>2 DEF StatesOK
<1>4. s.clk <= C[d]
  <2>1. C[d] = s.clk
    BY <1>1, <1>2 DEF Clocks
  <2> QED BY <1>3, <2>1 DEF OKState
<1>5. Below(Advertised(d, s), C)
  BY <1>3, <1>4, AdvertisedOK
<1>6. m.vv = Advertised(d, s) /\ m.from = d
  BY <1>1 DEF Sendable
<1>7. Covers(Advertised(d, st'[d]), m.vv)
  <2>1. Advertised(d, s) \in VV
    BY <1>5 DEF Below
  <2> QED BY <1>1, <1>6, <2>1 DEF Covers, VV
<1>8. ASSUME NEW e \in m.delta PROVE OKVersion(e, C)
  <2>1. CASE e \in s.pend
    BY <1>3, <2>1 DEF OKState
  <2>2. ASSUME NEW p \in Path, e = EntryAt(s.idx, p) PROVE OKVersion(e, C)
    BY <1>3, <2>2 DEF EntryAt, OKVersion, OKState
  <2> QED BY <1>1, <2>1, <2>2 DEF Sendable
<1> QED BY <1>2, <1>5, <1>6, <1>7, <1>8 DEF OKLeg, Sendable, Claimed

\* persist(), whole or torn, after a handler of d.
LEMMA PersistOK ==
    ASSUME RoundInv, NEW d \in Device, NEW s, MayBecome(d, s),
           NEW received, NEW kept, kept \subseteq partial,
           NEW sent, \A m \in sent : Sendable(d, s, m),
           NEW spent, NEW owing, Persist(d, s, received, kept, sent, spent, owing)
    PROVE  RoundInv'
<1>1. StatesOK /\ (\A m \in net \cup partial : OKLeg(m)) /\ \A v \in made : Below(v.vv, Clocks)
  BY DEF RoundInv
<1>2. CASE /\ st' = [st EXCEPT ![d] = s]
           /\ net' = (net \ received) \cup sent
           /\ partial' = kept
           /\ made' = made \cup Ticked(d, s)
  <2>1. /\ StatesOK'
        /\ \A v : Below(v, Clocks) => Below(v, Clocks')
        /\ \A e : OKVersion(e, Clocks) => OKVersion(e, Clocks')
        /\ \A q \in Device : \A v \in VV : Claimed(q, v) => Claimed(q, v)'
    BY <1>1, <1>2, Moved
  <2>2. st'[d] = s /\ OKState(s, Clocks')
    BY <1>1, <1>2, <2>1 DEF StatesOK
  <2>3. ASSUME NEW m \in net \cup partial PROVE OKLeg(m)'
    BY <1>1, <2>1, LegStays
  <2>4. ASSUME NEW m \in sent PROVE OKLeg(m)'
    <3>1. Sendable(d, st'[d], m)
      BY <2>2
    <3> QED BY <2>1, <3>1, SentOK
  <2>5. \A m \in net' \cup partial' : OKLeg(m)'
    BY <1>2, <2>3, <2>4
  <2>6. ASSUME NEW v \in Ticked(d, s) PROVE Below(v.vv, Clocks')
    BY <2>2 DEF Ticked, EntryAt, OKState
  <2>7. \A v \in made' : Below(v.vv, Clocks')
    BY <1>1, <1>2, <2>1, <2>6
  <2> QED BY <2>1, <2>5, <2>7 DEF RoundInv
<1>3. CASE /\ st' = [st EXCEPT ![d] = [s EXCEPT !.idx = st[d].idx, !.clk = @ + 1]]
           /\ net' = Forget(d, net \ received)
           /\ partial' = {m \in kept : m.to # d}
           /\ UNCHANGED made
  <2>1. PICK t : t = [s EXCEPT !.idx = st[d].idx, !.clk = @ + 1]
    OBVIOUS
  <2>2. MayBecome(d, t)
    <3>1. PICK B : B = [Clocks EXCEPT ![d] = s.clk]
      OBVIOUS
    <3>2. OKState(s, B) /\ s.clk \in Nat /\ s.clk >= st[d].clk /\ st[d].clk \in Nat
      BY <1>1, <3>1, Unmoved DEF MayBecome, OKState
    <3>3. PICK n \in Nat : n = s.clk + 1 /\ n >= s.clk /\ n >= st[d].clk
      BY <3>2
    <3>4. t = [idx |-> st[d].idx, pend |-> s.pend, park |-> s.park, wm |-> s.wm, clk |-> n]
      BY <2>1, <3>2, <3>3 DEF OKState
    <3>5. PICK C : C = [Clocks EXCEPT ![d] = n]
      OBVIOUS
    <3>6. C \in VV /\ \A v : Below(v, Clocks) => Below(v, C)
      BY <1>1, <3>3, <3>5, Tick
    <3>7. OKState(s, C)
      <4>1. B \in VV /\ B[d] <= n /\ Clocks \in VV
        BY <1>1, <3>1, <3>2, <3>3, RaisedBound, Unmoved DEF StatesOK
      <4>2. C = [B EXCEPT ![d] = n]
        BY <3>1, <3>5, <4>1 DEF VV
      <4>3. \A k \in Device : B[k] <= C[k]
        BY <3>3, <4>1, <4>2, RaisedBound
      <4> QED BY <3>2, <3>6, <4>1, <4>3, Higher
    <3>8. /\ st[d].idx = [p \in Path |-> st[d].idx[p]]
          /\ \A p \in Path : Below(st[d].idx[p].vv, C)
      BY <1>1, <3>6 DEF StatesOK, OKState
    <3>9. OKState(t, C)
      BY <3>3, <3>4, <3>7, <3>8 DEF OKState
    <3> QED BY <3>3, <3>4, <3>5, <3>9 DEF MayBecome
  <2>3. /\ StatesOK'
        /\ \A v : Below(v, Clocks) => Below(v, Clocks')
        /\ \A e : OKVersion(e, Clocks) => OKVersion(e, Clocks')
        /\ \A q \in Device : \A v \in VV : Claimed(q, v) => Claimed(q, v)'
    BY <1>1, <1>3, <2>1, <2>2, Moved
  <2>4. ASSUME NEW m \in net' PROVE OKLeg(m)'
    <3>1. PICK x \in net : \E kind : m = [x EXCEPT !.kind = kind]
      BY <1>3, Forgotten
    <3>2. OKLeg(m)
      BY <1>1, <3>1, LegForgotten
    <3> QED BY <1>1, <2>3, <3>2, LegStays
  <2>5. ASSUME NEW m \in partial' PROVE OKLeg(m)'
    <3>1. OKLeg(m)
      BY <1>1, <1>3
    <3> QED BY <1>1, <2>3, <3>1, LegStays
  <2> QED BY <1>1, <1>3, <2>3, <2>4, <2>5 DEF RoundInv
<1> QED BY <1>2, <1>3 DEF Persist

-----------------------------------------------------------------------------
(* The actions. *)

\* A step that leaves the devices as they are.
LEMMA SameStates ==
    ASSUME RoundInv, UNCHANGED <<st, made>>,
           \A m \in net' \cup partial' : m \in net \cup partial \/ \E d \in Device : Sendable(d, st[d], m)
    PROVE  RoundInv'
<1>1. StatesOK' /\ Clocks' = Clocks
  BY DEF RoundInv, StatesOK, Clocks, Claimed
<1>2. ASSUME NEW m \in net \cup partial PROVE OKLeg(m)'
  <2>1. OKLeg(m)
    BY DEF RoundInv
  <2> QED BY <1>1, <2>1 DEF OKLeg, Claimed
<1>3. ASSUME NEW m, NEW d \in Device, Sendable(d, st[d], m) PROVE OKLeg(m)'
  BY <1>1, <1>3, SentOK
<1>4. \A v \in made' : Below(v.vv, Clocks')
  BY <1>1 DEF RoundInv
<1> QED BY <1>1, <1>2, <1>3, <1>4 DEF RoundInv

LEMMA LocalChangeOK ==
    ASSUME RoundInv, NEW d \in Device, NEW p \in Path, NEW c, LocalChange(d, p, c)
    PROVE  RoundInv'
<1>1. PICK z : z = Scanned(d, p, c)
  OBVIOUS
<1>2. StatesOK
  BY DEF RoundInv
<1>3. MayBecome(d, z)
  BY <1>1, <1>2, ScannedOK
<1>4. PICK r \in Drained(d, z) : \E owing : Persist(d, r, {}, partial, {}, 1, owing)
  BY <1>1 DEF LocalChange, Scanned
<1>5. MayBecome(d, r)
  BY <1>2, <1>3, DrainedMayBecome
<1>6. \A m \in {} : Sendable(d, r, m)
  OBVIOUS
<1> QED BY <1>4, <1>5, <1>6, PersistOK

LEMMA OpenRoundOK ==
    ASSUME RoundInv, NEW d \in Device, NEW q \in Device, OpenRound(d, q)
    PROVE  RoundInv'
<1>1. PICK m : m = [from |-> d, to |-> q, kind |-> "opener",
                    vv |-> Advertised(d, st[d]), delta |-> {}, complete |-> FALSE]
  OBVIOUS
<1>2. Sendable(d, st[d], m)
  BY <1>1 DEF Sendable
<1>3. net' = net \cup {m} /\ UNCHANGED <<st, partial, made>>
  BY <1>1 DEF OpenRound
<1> QED BY <1>2, <1>3, SameStates

LEMMA RecvLegOK ==
    ASSUME RoundInv, NEW m \in net, NEW b, RecvLeg(m, b)
    PROVE  RoundInv'
<1>1. StatesOK /\ OKLeg(m)
  BY DEF RoundInv
<1>2. m.to \in Device /\ m.from \in Device
  BY <1>1 DEF OKLeg
<1>3. PICK r \in Completed(m.to, m) :
        Persist(m.to, r, {m}, partial, Answers(m.to, r, m, b), 0, owed)
  BY DEF RecvLeg
<1>4. MayBecome(m.to, r)
  BY <1>1, CompletedMayBecome
<1>5. PICK sent : sent = Answers(m.to, r, m, b)
  OBVIOUS
<1>6. \A a \in sent : Sendable(m.to, r, a)
  BY <1>2, <1>5, AnswersSendable
<1>7. Persist(m.to, r, {m}, partial, sent, 0, owed)
  BY <1>3, <1>5
<1> QED BY <1>2, <1>4, <1>6, <1>7, PersistOK

LEMMA RecvHeadFirstOK ==
    ASSUME RoundInv, NEW m \in net, NEW b, RecvHeadFirst(m, b)
    PROVE  RoundInv'
<1>1. m.to \in Device /\ m.from \in Device
  BY DEF RoundInv, OKLeg
<1>2. \A a \in Answers(m.to, st[m.to], m, b) : Sendable(m.to, st[m.to], a)
  BY <1>1, AnswersSendable
<1>3. /\ UNCHANGED <<st, made>> /\ partial' = partial \cup {m}
      /\ net' = (net \ {m}) \cup Answers(m.to, st[m.to], m, b)
  BY DEF RecvHeadFirst
<1> QED BY <1>1, <1>2, <1>3, SameStates

LEMMA RecvLastPageOK ==
    ASSUME RoundInv, NEW m \in partial, RecvLastPage(m)
    PROVE  RoundInv'
<1>1. StatesOK /\ OKLeg(m)
  BY DEF RoundInv
<1>2. m.to \in Device
  BY <1>1 DEF OKLeg
<1>3. PICK r \in Completed(m.to, m) : Persist(m.to, r, {}, partial \ {m}, {}, 0, owed)
  BY DEF RecvLastPage
<1>4. MayBecome(m.to, r)
  BY <1>1, CompletedMayBecome
<1>5. (\A a \in {} : Sendable(m.to, r, a)) /\ partial \ {m} \subseteq partial
  OBVIOUS
<1> QED BY <1>2, <1>3, <1>4, <1>5, PersistOK

LEMMA FinishPullOK ==
    ASSUME RoundInv, NEW d \in Device, NEW e, FinishPull(d, e)
    PROVE  RoundInv'
<1>1. StatesOK
  BY DEF RoundInv
<1>2. OKVersion(e, Clocks)
  BY <1>1 DEF FinishPull, StatesOK, OKState
<1>3. PICK s \in Applied(d, st[d], e) :
        \E r \in Drained(d, s) : Persist(d, r, {}, partial, {}, 0, owed)
  BY DEF FinishPull
<1>4. PICK r \in Drained(d, s) : Persist(d, r, {}, partial, {}, 0, owed)
  BY <1>3
<1>5. MayBecome(d, s)
  BY <1>1, <1>2, AppliedOK
<1>6. MayBecome(d, r)
  BY <1>1, <1>5, DrainedMayBecome
<1>7. \A m \in {} : Sendable(d, r, m)
  OBVIOUS
<1> QED BY <1>4, <1>6, <1>7, PersistOK

LEMMA CrashOK ==
    ASSUME RoundInv, NEW d \in Device, Crash(d)
    PROVE  RoundInv'
<1>1. StatesOK /\ (\A m \in net \cup partial : OKLeg(m)) /\ \A v \in made : Below(v.vv, Clocks)
  BY DEF RoundInv
<1>2. PICK s : s = st[d]
  OBVIOUS
<1>3. OKState(s, Clocks) /\ s.clk \in Nat
  BY <1>1, <1>2 DEF StatesOK, OKState
<1>4. PICK n : n = s.clk + 1
  OBVIOUS
<1>5. n \in Nat /\ n >= st[d].clk
  BY <1>2, <1>3, <1>4
<1>6. PICK C : C = [Clocks EXCEPT ![d] = n]
  OBVIOUS
<1>7. /\ \A v : Below(v, Clocks) => Below(v, C)
      /\ \A e : OKVersion(e, Clocks) => OKVersion(e, C)
  BY <1>1, <1>5, <1>6, Tick
<1>8. PICK t : t = [s EXCEPT !.clk = n]
  OBVIOUS
<1>9. t = [idx |-> s.idx, pend |-> s.pend, park |-> s.park, wm |-> st[d].wm, clk |-> n]
  BY <1>2, <1>3, <1>8 DEF OKState
<1>10. MayBecome(d, t)
  <2>1. PICK idx : idx = s.idx
    OBVIOUS
  <2>2. PICK pend : pend = s.pend
    OBVIOUS
  <2>3. PICK park : park = s.park
    OBVIOUS
  <2>4. idx = [p \in Path |-> idx[p]] /\ \A p \in Path : Below(idx[p].vv, C)
    BY <1>3, <1>7, <2>1 DEF OKState
  <2>5. \A e \in pend \cup park : OKVersion(e, C)
    BY <1>3, <1>7, <2>2, <2>3 DEF OKState
  <2>6. t = [idx |-> idx, pend |-> pend, park |-> park, wm |-> st[d].wm, clk |-> n]
    BY <1>9, <2>1, <2>2, <2>3
  <2> QED BY <1>1, <1>5, <1>6, <2>4, <2>5, <2>6, Rewritten
<1>11. st' = [st EXCEPT ![d] = t]
  <2>1. st' = [st EXCEPT ![d].clk = @ + 1]
    BY DEF Crash
  <2>2. st = [q \in Device |-> st[q]]
    BY <1>1 DEF StatesOK
  <2> QED BY <1>2, <1>4, <1>8, <2>1, <2>2
<1>12. /\ StatesOK'
       /\ \A v : Below(v, Clocks) => Below(v, Clocks')
       /\ \A e : OKVersion(e, Clocks) => OKVersion(e, Clocks')
       /\ \A q \in Device : \A v \in VV : Claimed(q, v) => Claimed(q, v)'
  BY <1>1, <1>10, <1>11, Moved
<1>13. ASSUME NEW m \in net' PROVE OKLeg(m)'
  <2>1. net' = Forget(d, net)
    BY DEF Crash
  <2>2. PICK x \in net : \E kind : m = [x EXCEPT !.kind = kind]
    BY <2>1, Forgotten
  <2>3. OKLeg(m)
    BY <1>1, <2>2, LegForgotten
  <2> QED BY <1>1, <1>12, <2>3, LegStays
<1>14. ASSUME NEW m \in partial' PROVE OKLeg(m)'
  <2>1. OKLeg(m)
    BY <1>1 DEF Crash
  <2> QED BY <1>1, <1>12, <2>1, LegStays
<1>15. made' = made
  BY DEF Crash
<1> QED BY <1>1, <1>12, <1>13, <1>14, <1>15 DEF RoundInv

-----------------------------------------------------------------------------
(* The theorems. *)

LEMMA InitRoundInv == Init => RoundInv
<1> SUFFICES ASSUME Init PROVE RoundInv
  OBVIOUS
<1>1. /\ st = [d \in Device |-> st[d]]
      /\ \A d \in Device :
           st[d] = [idx |-> [p \in Path |-> Absent], pend |-> {}, park |-> {},
                    wm |-> [q \in Device |-> Zero], clk |-> 0]
  BY DEF Init
<1>2. Clocks = Zero /\ Zero \in VV
  BY <1>1 DEF Clocks, Zero, VV
<1>3. Below(Zero, Zero)
  BY DEF Below, Zero, VV
<1>4. \A d \in Device : OKState(st[d], Zero)
  BY <1>1, <1>3 DEF OKState, Absent
<1>5. ASSUME NEW d \in Device, NEW q \in Device PROVE Claimed(q, st[d].wm[q])
  <2>1. st[q].clk <= Zero[q] /\ OKState(st[q], Zero)
    BY <1>1, <1>4 DEF Zero
  <2>2. Below(Advertised(q, st[q]), Zero)
    BY <1>2, <2>1, AdvertisedOK
  <2>3. st[d].wm[q] = Zero
    BY <1>1
  <2> QED BY <2>2, <2>3 DEF Claimed, Covers, Below, Zero, VV
<1>6. net = {} /\ partial = {} /\ made = {}
  BY DEF Init
<1> QED BY <1>1, <1>2, <1>4, <1>5, <1>6 DEF RoundInv, StatesOK

LEMMA StepRoundInv == RoundInv /\ [Next]_vars => RoundInv'
<1> SUFFICES ASSUME RoundInv, [Next]_vars PROVE RoundInv'
  OBVIOUS
<1>1. ASSUME NEW d \in Device, NEW p \in Path, NEW c \in Content, LocalChange(d, p, c)
      PROVE  RoundInv'
  BY <1>1, LocalChangeOK
<1>2. ASSUME NEW d \in Device, NEW q \in Device, OpenRound(d, q) PROVE RoundInv'
  BY <1>2, OpenRoundOK
<1>3. ASSUME NEW m \in net, NEW b \in BOOLEAN, RecvLeg(m, b) PROVE RoundInv'
  BY <1>3, RecvLegOK
<1>4. ASSUME NEW m \in net, NEW b \in BOOLEAN, RecvHeadFirst(m, b) PROVE RoundInv'
  BY <1>4, RecvHeadFirstOK
<1>5. ASSUME NEW m \in net, LoseLeg(m) PROVE RoundInv'
  <2>1. net' = net \ {m} /\ UNCHANGED <<st, partial, made>>
    BY <1>5 DEF LoseLeg
  <2> QED BY <2>1, SameStates
<1>6. ASSUME NEW m \in partial, RecvLastPage(m) PROVE RoundInv'
  BY <1>6, RecvLastPageOK
<1>7. ASSUME NEW m \in partial, ExpireRound(m) PROVE RoundInv'
  <2>1. partial' = partial \ {m} /\ UNCHANGED <<st, net, made>>
    BY <1>7 DEF ExpireRound
  <2> QED BY <2>1, SameStates
<1>8. ASSUME NEW d \in Device, NEW e \in st[d].pend, FinishPull(d, e) PROVE RoundInv'
  BY <1>8, FinishPullOK
<1>9. ASSUME NEW d \in Device, Crash(d) PROVE RoundInv'
  BY <1>9, CrashOK
<1>10. ASSUME UNCHANGED vars PROVE RoundInv'
  <2>1. UNCHANGED <<st, net, partial, made>>
    BY <1>10 DEF vars
  <2> QED BY <2>1, SameStates
<1> QED BY <1>1, <1>2, <1>3, <1>4, <1>5, <1>6, <1>7, <1>8, <1>9, <1>10 DEF Next

LEMMA RoundInvariant == Spec => []RoundInv
BY InitRoundInv, StepRoundInv, PTL DEF Spec

\* Among honest members the self-component guard of try_complete never fires:
\* no version, watermark or leg ever carries more of a device's component than
\* its clock, whatever is lost, reordered, torn or crashed, for any devices,
\* paths and contents (engine.rs:1901-1920).
THEOREM ClaimsPossible == Spec => []NoImpossibleClaim
<1>1. ASSUME RoundInv PROVE NoImpossibleClaim
  <2>1. \A q \in Device : Clocks[q] = st[q].clk
    BY DEF Clocks
  <2>2. ASSUME NEW d \in Device, NEW v \in made PROVE v.vv[d] <= st[d].clk
    BY <1>1, <2>1 DEF RoundInv, Below
  <2>3. ASSUME NEW d \in Device, NEW q \in Device PROVE st[q].wm[d][d] <= st[d].clk
    BY <1>1, <2>1 DEF RoundInv, StatesOK, OKState, Below
  <2>4. ASSUME NEW d \in Device, NEW m \in net \cup partial PROVE m.vv[d] <= st[d].clk
    BY <1>1, <2>1 DEF RoundInv, OKLeg, Below
  <2> QED BY <2>2, <2>3, <2>4 DEF NoImpossibleClaim
<1> QED BY <1>1, RoundInvariant, PTL

\* A watermark kept for a peer never runs ahead of what that peer advertises
\* now: joins only ever add what the peer's own legs claimed, and what a peer
\* advertises never shrinks (engine.rs:2250-2254).
THEOREM WatermarksBehind == Spec => []WatermarkBehindPeer
<1>1. ASSUME RoundInv PROVE WatermarkBehindPeer
  BY <1>1 DEF RoundInv, StatesOK, Claimed, WatermarkBehindPeer
<1> QED BY <1>1, RoundInvariant, PTL
=============================================================================
