------------------------------ MODULE SetClock ------------------------------
(***************************************************************************)
(* The durable per-set clock of the sync engine (sync/src/clock.rs).       *)
(*                                                                         *)
(* A device stamps each of its versions with a value of its own vv         *)
(* component `self@gen`.  Values are issued from memory; the only thing    *)
(* fsynced is a lease (generation, reserved), written BEFORE the block it  *)
(* covers is used.  The process may crash between any two operations; the  *)
(* set's directory may be wiped (a reinstall), which loses lease and index *)
(* together and is followed by a new generation.                           *)
(***************************************************************************)
EXTENDS Integers

CONSTANTS
    Block,              \* RESERVE_BLOCK
    Ceiling,            \* CLOCK_CEILING = 2^53 - 1 - RESERVE_BLOCK
    MaxNow,             \* bound: the last unix second explored
    LeaseWriteMayFail   \* may write_private_atomic return an error?

ASSUME BlockAssumption   == Block \in Nat \ {0}
ASSUME CeilingAssumption == Ceiling \in Nat
ASSUME MaxNowAssumption  == MaxNow \in Nat
ASSUME FaultAssumption   == LeaseWriteMayFail \in BOOLEAN

\* The canonical integer limit 2^53 - 1 that every clock value must respect.
IntegerLimit == Ceiling + Block

Seconds == 0..MaxNow

\* The lease file, `gen` and `reserved`; `gen = -1` when the file is absent.
NoLease == [gen |-> -1, reserved |-> 0]
Lease   == [gen : Seconds, reserved : Nat]

VARIABLES
    lease,      \* clock.lease on disk
    up,         \* is a SetClock open in memory?
    generation, \* SetClock.generation
    current,    \* SetClock.current
    reserved,   \* SetClock.reserved
    indexed,    \* index.max_component(self@g) of the persisted index, per g
    now,        \* unix seconds
    issued      \* history: highest value tick() ever returned, per generation

vars == <<lease, up, generation, current, reserved, indexed, now, issued>>

TypeOK ==
    /\ lease \in Lease \cup {NoLease}
    /\ up \in BOOLEAN
    /\ generation \in Seconds
    /\ current \in 0..IntegerLimit
    /\ reserved \in 0..IntegerLimit
    /\ indexed \in [Seconds -> 0..Ceiling]
    /\ now \in Seconds
    /\ issued \in [Seconds -> 0..IntegerLimit]

Init ==
    /\ lease = NoLease
    /\ up = FALSE
    /\ generation = 0
    /\ current = 0
    /\ reserved = 0
    /\ indexed = [g \in Seconds |-> 0]
    /\ now = 0
    /\ issued = [g \in Seconds |-> 0]

Maximum(a, b) == IF a >= b THEN a ELSE b

\* write_private_atomic: temp, fsync, rename, directory fsync.  On success the
\* lease is the new one.  An error leaves the old one when it came before the
\* rename, the new one when only the directory fsync failed.
MutLeaseOnce(doc, ok) == ok /\ lease' = IF lease = NoLease THEN doc ELSE lease
WriteLease(doc, ok) ==
    IF ok
    THEN lease' = doc
    ELSE LeaseWriteMayFail /\ lease' \in {lease, doc}

\* reserve(), called with the clock at c in generation g: refuses past the
\* ceiling, else raises the in-memory reservation and writes the lease.
MutReserveRefused(c) == FALSE
ReserveRefused(c) == c > Ceiling
Reserve(g, c, ok) ==
    /\ ~ReserveRefused(c)
    /\ reserved' = c + Block
    /\ WriteLease([gen |-> g, reserved |-> c + Block], ok)

\* Where a present lease resumes: at the reservation or at the index's own
\* high-water mark, whichever is higher.
MutResumePoint == indexed[lease.gen]
ResumePoint == Maximum(lease.reserved, indexed[lease.gen])

\* The generation an absent lease mints: the wall clock's second.
MutMintedGeneration == 0
MintedGeneration == now

\* open() with the lease file present; it always reserves (current >= reserved)
\* and an error anywhere leaves no clock in memory.
OpenPresent ==
    /\ ~up /\ lease # NoLease
    /\ \E ok \in BOOLEAN : Reserve(lease.gen, ResumePoint, ok) /\ up' = ok
    /\ generation' = lease.gen
    /\ current' = ResumePoint
    /\ UNCHANGED <<indexed, now, issued>>

\* open() with no lease: mint a generation from the wall clock, start at zero.
OpenAbsent ==
    /\ ~up /\ lease = NoLease
    /\ \E ok \in BOOLEAN : Reserve(MintedGeneration, 0, ok) /\ up' = ok
    /\ generation' = MintedGeneration
    /\ current' = 0
    /\ UNCHANGED <<indexed, now, issued>>

\* The value tick() hands out: recorded in the history.
IssueNext ==
    /\ current' = current + 1
    /\ issued' = [issued EXCEPT ![generation] = Maximum(@, current + 1)]

\* tick() inside the reserved block.
TickInBlock ==
    /\ up /\ current + 1 <= reserved
    /\ IssueNext
    /\ UNCHANGED <<lease, up, generation, reserved, indexed, now>>

\* tick() at the end of the block: reserve first; a failed write issues
\* nothing this time, the in-memory reservation stays raised.
TickNewBlock ==
    /\ up /\ current + 1 > reserved
    /\ \E ok \in BOOLEAN :
          /\ Reserve(generation, current, ok)
          /\ IF ok THEN IssueNext ELSE UNCHANGED <<current, issued>>
    /\ UNCHANGED <<up, generation, indexed, now>>

\* jump_above(claim): a peer's head or entry claims more of our component than
\* we issued.  Claims at or below current, or past the ceiling, change nothing.
JumpAbove(claim) ==
    /\ up /\ claim > current /\ claim <= Ceiling
    /\ current' = claim
    /\ IF claim >= reserved
       THEN \E ok \in BOOLEAN : Reserve(generation, claim, ok)
       ELSE UNCHANGED <<lease, reserved>>
    /\ UNCHANGED <<up, generation, indexed, now, issued>>

\* The engine persists its index: the highest own component among its entries
\* is at most the current clock (an entry claiming more jumped the clock), and
\* may be lower than before when entries were superseded.
PersistIndex(v) ==
    /\ up /\ v <= current /\ v <= Ceiling
    /\ indexed' = [indexed EXCEPT ![generation] = v]
    /\ UNCHANGED <<lease, up, generation, current, reserved, now, issued>>

\* The process dies: memory is lost, the disk stays.
Crash ==
    /\ up
    /\ up' = FALSE
    /\ UNCHANGED <<lease, generation, current, reserved, indexed, now, issued>>

\* A reinstall loses the set's directory, lease and index together.  It takes
\* more than a second of a wall clock that does not run backwards, which is
\* what makes the next generation new.
Wipe ==
    /\ ~up /\ now < MaxNow
    /\ lease' = NoLease
    /\ indexed' = [g \in Seconds |-> 0]
    /\ now' = now + 1
    /\ UNCHANGED <<up, generation, current, reserved, issued>>

Elapse ==
    /\ now < MaxNow
    /\ now' = now + 1
    /\ UNCHANGED <<lease, up, generation, current, reserved, indexed, issued>>

Next ==
    \/ OpenPresent \/ OpenAbsent
    \/ TickInBlock \/ TickNewBlock
    \/ \E claim \in 0..Ceiling : JumpAbove(claim)
    \/ \E v \in 0..Ceiling : PersistIndex(v)
    \/ Crash \/ Wipe \/ Elapse

Spec == Init /\ [][Next]_vars

-----------------------------------------------------------------------------
\* The promise of clock.rs:4-8: whatever crashes, jumps and reinstalls came
\* before, the value the next tick() returns was never returned before in this
\* generation, and is above every value that was.
NeverReissued == up => issued[generation] < current + 1

\* The comment inside open(): the reservation ON DISK covers every value this
\* incarnation may issue before its next persist.  It is what a crash falls
\* back on.
DiskCoversIssued ==
    lease # NoLease => issued[lease.gen] <= lease.reserved

\* A reinstall starts a history of its own: while no lease is on disk, the
\* generation open() is about to mint has issued nothing, also when lease
\* writes fail (clock.rs:10-14).
ReinstallIsFresh == lease = NoLease => issued[MintedGeneration] = 0
=============================================================================
