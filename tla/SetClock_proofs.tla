--------------------------- MODULE SetClock_proofs ---------------------------
(***************************************************************************)
(* Proofs about SetClock, for every block size, ceiling and horizon.       *)
(*                                                                         *)
(* TypeOK is inductive as it stands and carries the ceiling argument: no   *)
(* clock value passes the canonical integer limit.  Freshness needs two    *)
(* strengthenings.  EraInv ties the lease to the generation in use and to  *)
(* the wall clock; it holds whatever the disk does.  BlockInv ties memory  *)
(* to the lease and needs lease writes that do not fail.                   *)
(***************************************************************************)
EXTENDS SetClock, TLAPS

\* No generation of the future has issued anything, the lease on disk is the
\* one the open clock runs on, and without a lease the present is unused.
EraInv ==
    /\ \A g \in Seconds : g > now => issued[g] = 0
    /\ lease # NoLease => lease.gen <= now
    /\ up => lease # NoLease /\ lease.gen = generation
    /\ ReinstallIsFresh

\* Memory never runs ahead of the lease, and nothing issued is beyond either.
BlockInv ==
    /\ up => /\ lease.reserved = reserved
             /\ current <= reserved
             /\ issued[generation] <= current
    /\ DiskCoversIssued

USE BlockAssumption, CeilingAssumption, MaxNowAssumption, FaultAssumption

\* The two shapes of reserve(): what it does to the reservation and to the
\* lease, successful or not (clock.rs:87-94).
LEMMA ReserveLemma ==
    ASSUME NEW g \in Seconds, NEW c \in Nat, NEW ok \in BOOLEAN,
           lease \in Lease \cup {NoLease}, Reserve(g, c, ok)
    PROVE  /\ c <= Ceiling
           /\ reserved' = c + Block
           /\ reserved' \in 0..IntegerLimit
           /\ lease' \in Lease \cup {NoLease}
           /\ lease' # lease => lease' = [gen |-> g, reserved |-> c + Block]
           /\ ok => lease' = [gen |-> g, reserved |-> c + Block]
           /\ ~LeaseWriteMayFail => lease' = [gen |-> g, reserved |-> c + Block]
           /\ lease' # NoLease \/ lease = NoLease
  <1> DEFINE doc == [gen |-> g, reserved |-> c + Block]
  <1>1. c <= Ceiling
    BY DEF Reserve, ReserveRefused
  <1>2. doc \in Lease /\ doc # NoLease
    BY DEF Lease, NoLease, Seconds
  <1>3. lease' \in {lease, doc} /\ (ok => lease' = doc)
                                 /\ (~LeaseWriteMayFail => lease' = doc)
    BY DEF Reserve, WriteLease
  <1> QED
    BY <1>1, <1>2, <1>3 DEF Reserve, IntegerLimit

\* The clock's state keeps its types; in particular `current`, `reserved` and
\* every issued value stay within the canonical integer limit, whatever is
\* claimed by peers, whatever writes fail (clock.rs:31-33, 88-90, 130-132).
THEOREM TypeCorrect == Spec => []TypeOK
<1>1. Init => TypeOK
  <2> SUFFICES ASSUME Init PROVE TypeOK
    OBVIOUS
  <2>1. up \in BOOLEAN /\ lease \in Lease \cup {NoLease}
    BY Zenon DEF Init
  <2>2. 0 \in Seconds /\ 0 \in 0..IntegerLimit /\ 0 \in 0..Ceiling
    BY DEF IntegerLimit, Seconds
  <2> QED
    BY <2>1, <2>2 DEF Init, TypeOK
<1>2. TypeOK /\ [Next]_vars => TypeOK'
  <2> SUFFICES ASSUME TypeOK, [Next]_vars PROVE TypeOK'
    OBVIOUS
  <2> USE DEF TypeOK
  <2>1. CASE OpenPresent
    <3>1. lease.gen \in Seconds /\ lease.reserved \in Nat /\ ResumePoint \in Nat
      BY <2>1 DEF OpenPresent, Lease, ResumePoint, Maximum
    <3>2. PICK ok \in BOOLEAN : Reserve(lease.gen, ResumePoint, ok) /\ up' = ok
      BY <2>1 DEF OpenPresent
    <3> QED
      BY <2>1, <3>1, <3>2, ReserveLemma DEF OpenPresent, IntegerLimit
  <2>2. CASE OpenAbsent
    <3>1. PICK ok \in BOOLEAN : Reserve(MintedGeneration, 0, ok) /\ up' = ok
      BY <2>2 DEF OpenAbsent
    <3> QED
      BY <2>2, <3>1, ReserveLemma DEF OpenAbsent, IntegerLimit, MintedGeneration
  <2>3. CASE TickInBlock
    BY <2>3 DEF TickInBlock, IssueNext, Maximum, IntegerLimit, Seconds
  <2>4. CASE TickNewBlock
    <3>1. PICK ok \in BOOLEAN : /\ Reserve(generation, current, ok)
                                /\ IF ok THEN IssueNext ELSE UNCHANGED <<current, issued>>
      BY <2>4 DEF TickNewBlock
    <3>2. current <= Ceiling /\ reserved' \in 0..IntegerLimit /\ lease' \in Lease \cup {NoLease}
      BY <3>1, ReserveLemma
    <3>3. current' \in 0..IntegerLimit /\ issued' \in [Seconds -> 0..IntegerLimit]
      <4>1. CASE ok
        <5>1. IssueNext
          BY <3>1, <4>1
        <5> QED
          BY <5>1, <3>2 DEF IssueNext, Maximum, IntegerLimit
      <4>2. CASE ~ok
        BY <3>1, <4>2
      <4> QED
        BY <4>1, <4>2
    <3> QED
      BY <2>4, <3>2, <3>3 DEF TickNewBlock
  <2>5. CASE \E claim \in 0..Ceiling : JumpAbove(claim)
    <3>1. PICK claim \in 0..Ceiling : JumpAbove(claim)
      BY <2>5
    <3>2. reserved' \in 0..IntegerLimit /\ lease' \in Lease \cup {NoLease}
      <4>1. CASE claim >= reserved
        <5>1. PICK ok \in BOOLEAN : Reserve(generation, claim, ok)
          BY <3>1, <4>1 DEF JumpAbove
        <5> QED
          BY <5>1, ReserveLemma
      <4>2. CASE ~(claim >= reserved)
        BY <3>1, <4>2 DEF JumpAbove
      <4> QED
        BY <4>1, <4>2
    <3> QED
      BY <3>1, <3>2 DEF JumpAbove, IntegerLimit
  <2>6. CASE \E v \in 0..Ceiling : PersistIndex(v)
    BY <2>6 DEF PersistIndex, Seconds
  <2>7. CASE Crash
    BY <2>7 DEF Crash
  <2>8. CASE Wipe
    BY <2>8 DEF Wipe, Seconds
  <2>9. CASE Elapse
    BY <2>9 DEF Elapse, Seconds
  <2>10. CASE UNCHANGED vars
    BY <2>10 DEF vars
  <2> QED
    BY <2>1, <2>2, <2>3, <2>4, <2>5, <2>6, <2>7, <2>8, <2>9, <2>10 DEF Next
<1> QED
  BY <1>1, <1>2, PTL DEF Spec

\* EraInv is inductive given the types.
LEMMA EraHolds == Spec => []EraInv
<1>1. Init => EraInv
  BY DEF Init, EraInv, ReinstallIsFresh, MintedGeneration, NoLease, Seconds
<1>2. TypeOK /\ EraInv /\ [Next]_vars => EraInv'
  <2> SUFFICES ASSUME TypeOK, EraInv, [Next]_vars PROVE EraInv'
    OBVIOUS
  <2> USE DEF TypeOK, EraInv, ReinstallIsFresh, MintedGeneration
  <2>1. CASE OpenPresent
    <3>1. lease.gen \in Seconds /\ lease.reserved \in Nat /\ ResumePoint \in Nat
      BY <2>1 DEF OpenPresent, Lease, ResumePoint, Maximum
    <3>2. PICK ok \in BOOLEAN : Reserve(lease.gen, ResumePoint, ok) /\ up' = ok
      BY <2>1 DEF OpenPresent
    <3>3. lease' # NoLease /\ lease'.gen = lease.gen
      BY <2>1, <3>1, <3>2, ReserveLemma DEF OpenPresent
    <3> QED
      BY <2>1, <3>3 DEF OpenPresent
  <2>2. CASE OpenAbsent
    <3>1. PICK ok \in BOOLEAN : Reserve(now, 0, ok) /\ up' = ok
      BY <2>2 DEF OpenAbsent
    <3>2. /\ lease' = NoLease \/ lease' = [gen |-> now, reserved |-> 0 + Block]
          /\ ok => lease' = [gen |-> now, reserved |-> 0 + Block]
      BY <2>2, <3>1, ReserveLemma DEF OpenAbsent
    <3>3. [gen |-> now, reserved |-> 0 + Block] # NoLease
      BY DEF NoLease, Seconds
    <3>4. lease' # NoLease => lease'.gen = now
      BY <3>2
    <3>5. up' => lease' # NoLease
      BY <3>1, <3>2, <3>3
    <3> QED
      BY <2>2, <3>4, <3>5 DEF OpenAbsent, Seconds
  <2>3. CASE TickInBlock
    BY <2>3 DEF TickInBlock, IssueNext, Seconds
  <2>4. CASE TickNewBlock
    <3>1. PICK ok \in BOOLEAN : /\ Reserve(generation, current, ok)
                                /\ IF ok THEN IssueNext ELSE UNCHANGED <<current, issued>>
      BY <2>4 DEF TickNewBlock
    <3>2. up /\ lease # NoLease /\ lease.gen = generation
      BY <2>4 DEF TickNewBlock
    <3>3. lease' # NoLease /\ lease'.gen = generation
      BY <3>1, <3>2, ReserveLemma DEF IntegerLimit
    <3>4. \A g \in Seconds : g > now => issued'[g] = 0
      <4>1. CASE ok
        BY <4>1, <3>1, <3>2 DEF IssueNext, Seconds
      <4>2. CASE ~ok
        BY <4>2, <3>1
      <4> QED
        BY <4>1, <4>2
    <3> QED
      BY <2>4, <3>2, <3>3, <3>4 DEF TickNewBlock
  <2>5. CASE \E claim \in 0..Ceiling : JumpAbove(claim)
    <3>1. PICK claim \in 0..Ceiling : JumpAbove(claim)
      BY <2>5
    <3>2. lease' # NoLease /\ lease'.gen = generation
      <4>1. CASE claim >= reserved
        <5>1. PICK ok \in BOOLEAN : Reserve(generation, claim, ok)
          BY <3>1, <4>1 DEF JumpAbove
        <5> QED
          BY <3>1, <5>1, ReserveLemma DEF JumpAbove
      <4>2. CASE ~(claim >= reserved)
        BY <3>1, <4>2 DEF JumpAbove
      <4> QED
        BY <4>1, <4>2
    <3> QED
      BY <3>1, <3>2 DEF JumpAbove
  <2>6. CASE \E v \in 0..Ceiling : PersistIndex(v)
    BY <2>6 DEF PersistIndex
  <2>7. CASE Crash
    BY <2>7 DEF Crash
  <2>8. CASE Wipe
    BY <2>8 DEF Wipe, Seconds
  <2>9. CASE Elapse
    BY <2>9 DEF Elapse, Seconds, Lease
  <2>10. CASE UNCHANGED vars
    BY <2>10 DEF vars
  <2> QED
    BY <2>1, <2>2, <2>3, <2>4, <2>5, <2>6, <2>7, <2>8, <2>9, <2>10 DEF Next
<1> QED
  BY <1>1, <1>2, TypeCorrect, PTL DEF Spec

\* Whatever the disk does, the generation a lease-less open would mint has
\* issued nothing: a reinstall never continues an old history
\* (clock.rs:10-14, 71-76).
THEOREM ReinstallFresh == Spec => []ReinstallIsFresh
<1>1. EraInv => ReinstallIsFresh
  BY DEF EraInv
<1> QED
  BY <1>1, EraHolds, PTL

\* With lease writes that do not fail, BlockInv is inductive given EraInv.
LEMMA BlockHolds ==
    ASSUME ~LeaseWriteMayFail
    PROVE  Spec => []BlockInv
<1>1. Init => BlockInv
  BY DEF Init, BlockInv, DiskCoversIssued, NoLease, Seconds
<1>2. TypeOK /\ EraInv /\ BlockInv /\ [Next]_vars => BlockInv'
  <2> SUFFICES ASSUME TypeOK, EraInv, BlockInv, [Next]_vars PROVE BlockInv'
    OBVIOUS
  <2> USE DEF TypeOK, BlockInv, DiskCoversIssued, IntegerLimit
  <2>0. up => lease # NoLease /\ lease.gen = generation /\ lease.reserved = reserved
    BY DEF EraInv
  <2>1. CASE OpenPresent
    <3>1. lease.gen \in Seconds /\ lease.reserved \in Nat
      BY <2>1 DEF OpenPresent, Lease
    <3>2. ResumePoint \in Nat /\ ResumePoint >= lease.reserved
      BY <3>1 DEF ResumePoint, Maximum
    <3>3. PICK ok \in BOOLEAN : Reserve(lease.gen, ResumePoint, ok) /\ up' = ok
      BY <2>1 DEF OpenPresent
    <3>4. /\ reserved' = ResumePoint + Block
          /\ lease' = [gen |-> lease.gen, reserved |-> ResumePoint + Block]
      BY <3>1, <3>2, <3>3, ReserveLemma
    <3>5. issued[lease.gen] <= lease.reserved /\ issued[lease.gen] \in Nat
      BY <2>1, <3>1 DEF OpenPresent
    <3> QED
      BY <2>1, <3>1, <3>2, <3>4, <3>5 DEF OpenPresent
  <2>2. CASE OpenAbsent
    <3>1. PICK ok \in BOOLEAN : Reserve(now, 0, ok) /\ up' = ok
      BY <2>2 DEF OpenAbsent, MintedGeneration
    <3>2. /\ reserved' = 0 + Block
          /\ lease' = [gen |-> now, reserved |-> 0 + Block]
      BY <3>1, ReserveLemma
    <3>3. issued[now] = 0
      BY <2>2 DEF OpenAbsent, EraInv, ReinstallIsFresh, MintedGeneration
    <3> QED
      BY <2>2, <3>2, <3>3 DEF OpenAbsent, MintedGeneration
  <2>3. CASE TickInBlock
    BY <2>0, <2>3 DEF TickInBlock, IssueNext, Maximum
  <2>4. CASE TickNewBlock
    <3>1. PICK ok \in BOOLEAN : /\ Reserve(generation, current, ok)
                                /\ IF ok THEN IssueNext ELSE UNCHANGED <<current, issued>>
      BY <2>4 DEF TickNewBlock
    <3>2. /\ reserved' = current + Block
          /\ lease' = [gen |-> generation, reserved |-> current + Block]
      BY <3>1, ReserveLemma
    <3>3. up /\ issued[generation] <= current /\ issued[generation] \in Nat
      BY <2>4 DEF TickNewBlock
    <3>4. generation' = generation /\ up' = up
      BY <2>4 DEF TickNewBlock
    <3>5. CASE ok
      BY <3>1, <3>2, <3>3, <3>4, <3>5 DEF IssueNext, Maximum
    <3>6. CASE ~ok
      BY <3>1, <3>2, <3>3, <3>4, <3>6
    <3> QED
      BY <3>5, <3>6
  <2>5. CASE \E claim \in 0..Ceiling : JumpAbove(claim)
    <3>1. PICK claim \in 0..Ceiling : JumpAbove(claim)
      BY <2>5
    <3>2. /\ up /\ claim > current /\ current' = claim /\ up' = up
          /\ generation' = generation /\ issued' = issued
      BY <3>1 DEF JumpAbove
    <3>3. CASE claim >= reserved
      <4>1. PICK ok \in BOOLEAN : Reserve(generation, claim, ok)
        BY <3>1, <3>3 DEF JumpAbove
      <4>2. /\ reserved' = claim + Block
            /\ lease' = [gen |-> generation, reserved |-> claim + Block]
        BY <4>1, ReserveLemma
      <4> QED
        BY <2>0, <3>2, <4>2
    <3>4. CASE ~(claim >= reserved)
      <4>1. reserved' = reserved /\ lease' = lease
        BY <3>1, <3>4 DEF JumpAbove
      <4> QED
        BY <2>0, <3>2, <3>4, <4>1
    <3> QED
      BY <3>3, <3>4
  <2>6. CASE \E v \in 0..Ceiling : PersistIndex(v)
    BY <2>6 DEF PersistIndex
  <2>7. CASE Crash
    BY <2>7 DEF Crash
  <2>8. CASE Wipe
    BY <2>8 DEF Wipe
  <2>9. CASE Elapse
    BY <2>9 DEF Elapse
  <2>10. CASE UNCHANGED vars
    BY <2>10 DEF vars
  <2> QED
    BY <2>1, <2>2, <2>3, <2>4, <2>5, <2>6, <2>7, <2>8, <2>9, <2>10 DEF Next
<1> QED
  BY <1>1, <1>2, TypeCorrect, EraHolds, PTL DEF Spec

\* The clock's promise (clock.rs:4-8) for every block size and ceiling: as long
\* as lease writes succeed, no sequence of ticks, jumps, crashes, reopenings
\* and reinstalls ever issues a value twice.
THEOREM ClockNeverReissues ==
    ASSUME ~LeaseWriteMayFail
    PROVE  Spec => []NeverReissued
<1>1. TypeOK /\ BlockInv => NeverReissued
  BY DEF TypeOK, BlockInv, NeverReissued
<1> QED
  BY <1>1, TypeCorrect, BlockHolds, PTL

\* The invariant stated inside open(): the reservation on disk covers every
\* value ever issued in its generation.
THEOREM LeaseCoversIssued ==
    ASSUME ~LeaseWriteMayFail
    PROVE  Spec => []DiskCoversIssued
<1>1. BlockInv => DiskCoversIssued
  BY DEF BlockInv
<1> QED
  BY <1>1, BlockHolds, PTL
=============================================================================
