------------------------------ MODULE MCAgree ------------------------------
(* What devices that never meet in one place come to agree on: the clock a   *)
(* member of a sync set counts with (SetClock) and who is a member           *)
(* (SyncMembership: three devices that invite one another in any order),     *)
(* both under their own names; and, as INSTANCEs over x1 ... x10, two        *)
(* members that leave and reinstall, and the plane of the account's screens  *)
(* (InputPlane).  One part is at work in a behaviour.                        *)
EXTENDS SetClock, SyncMembership

CONSTANT Parts   \* the parts a run takes up

\* The part at work, and its variables: the INSTANCEs below name them.
VARIABLES part, x1, x2, x3, x4, x5, x6, x7, x8, x9, x10

\* What may happen: drags, replugged screens, rounds lost, one save of such an
\* operation that fails, the ways a device stops.
PlaneSc(settled, gone, new, drags, changes, losses, unsaved, how) ==
  [settled |-> settled, gone |-> gone, new |-> new,
   drags |-> drags, changes |-> changes, losses |-> losses, unsaved |-> unsaved,
   faults |-> IF unsaved = {} THEN 0 ELSE 1,
   stops |-> IF how = {} THEN 0 ELSE 1, how |-> how]

PlaneScenarios ==
  { PlaneSc({1}, {}, {2}, 1, 0, 1, {}, {}),
    PlaneSc({1, 2, 3}, {}, {}, 1, 0, 0, {}, {}),
    PlaneSc({1, 2, 3}, {}, {}, 0, 0, 0, {}, {"struck"}),
    PlaneSc({1, 2}, {}, {}, 1, 1, 1, {}, {"restarted"}),
    PlaneSc({1, 2}, {}, {}, 2, 0, 0, {"place"}, {"restarted"}),
    PlaneSc({1, 2}, {}, {}, 1, 0, 0, {}, {"reinstalled"}) }

L == INSTANCE SyncMembership WITH
  view <- x1, key <- x2, open <- x3, net <- x4, signed <- x5, got <- x6,
  Device <- {1, 2}, Creator <- 1, UnverifiedCap <- 2, MaxSigned <- 5,
  MaxMessages <- 1, MayLeave <- TRUE, MayReinstall <- TRUE
P == INSTANCE InputPlane WITH
  desk <- x1, life <- x2, shown <- x3, key <- x4, plane <- x5, disk <- x6,
  due <- x7, net <- x8, struck <- x9, sc <- x10, Nodes <- 1..3,
  Lists <- {1, 2}, Spots <- {1, 2}, MaxSeq <- 16, Scenarios <- PlaneScenarios

-----------------------------------------------------------------------------
(* One part is at work in a behaviour; a variable it has no use for is 0.    *)

AgreeInit ==
  /\ part \in Parts
  /\ \/ /\ part = "clock" /\ Init /\ MemberInit
        /\ x1 = 0 /\ x2 = 0 /\ x3 = 0 /\ x4 = 0 /\ x5 = 0 /\ x6 = 0 /\ x7 = 0
        /\ x8 = 0 /\ x9 = 0 /\ x10 = 0
     \/ /\ part = "order" /\ MemberInit /\ Init
        /\ x1 = 0 /\ x2 = 0 /\ x3 = 0 /\ x4 = 0 /\ x5 = 0 /\ x6 = 0 /\ x7 = 0
        /\ x8 = 0 /\ x9 = 0 /\ x10 = 0
     \/ /\ part = "leave" /\ L!MemberInit /\ Init /\ MemberInit
        /\ x7 = 0 /\ x8 = 0 /\ x9 = 0 /\ x10 = 0
     \/ /\ part = "plane" /\ P!Init /\ Init /\ MemberInit

AgreeNext ==
  \/ /\ part = "clock" /\ Next
     /\ UNCHANGED <<part, view, key, open, net, signed, got, x1, x2, x3, x4,
                     x5, x6, x7, x8, x9, x10>>
  \/ /\ part = "order" /\ MemberNext
     /\ UNCHANGED <<part, lease, up, generation, current, reserved, indexed,
                     now, issued, x1, x2, x3, x4, x5, x6, x7, x8, x9, x10>>
  \/ /\ part = "leave" /\ L!MemberNext
     /\ UNCHANGED <<part, lease, up, generation, current, reserved, indexed,
                     now, issued, view, key, open, net, signed, got, x7, x8,
                     x9, x10>>
  \/ /\ part = "plane" /\ P!Next
     /\ UNCHANGED <<part, lease, up, generation, current, reserved, indexed,
                     now, issued, view, key, open, net, signed, got>>

Agreevars == <<part, lease, up, generation, current, reserved, indexed, now,
             issued, view, key, open, net, signed, got, x1, x2, x3, x4, x5,
             x6, x7, x8, x9, x10>>

\* What each part takes to be fair, stated of the part at work.
AgreeFairness ==
  /\ \A n \in (1..3) :
       /\ WF_(P!pvars)(part = "plane" /\ P!Open(n))
       /\ WF_(P!pvars)(part = "plane" /\ P!SetDirectory(n))
       /\ WF_(P!pvars)(part = "plane" /\ P!Monitors(n))
       /\ SF_(P!pvars)(part = "plane" /\ P!Sweep(n))
       /\ \A m \in (1..3) \ {n} :
            /\ WF_(P!pvars)(part = "plane" /\ P!LayoutRound(n, m))
            /\ WF_(P!pvars)(part = "plane" /\ P!Revoked(n, m))
            /\ WF_(P!pvars)(part = "plane" /\ P!Arrives(n, m))

AgreeSpec == AgreeInit /\ [][AgreeNext]_Agreevars /\ AgreeFairness

-----------------------------------------------------------------------------
(* A device never signs two records about itself under one key with seqs     *)
(* that do not grow, through leaves, reinstallations and the floors seeded    *)
(* from what others say of it (next_seq, own; see SeqsIncrease of             *)
(* SyncMembership).                                                           *)
LeaverSeqsIncrease == part = "leave" => L!SeqsIncrease

(* The terminal a device verified of another is never measured lower: not by *)
(* a key rotation, only by a marker (pin_direct, drop_stranger; see           *)
(* DoorNeverSlips of SyncMembership).                                         *)
LeaverDoorNeverSlips == [][part = "leave" => L!DoorHolds]_Agreevars

(* Whatever order the rounds, drags, screen changes, lost messages, restarts  *)
(* and reinstallations come in, the devices that are running end up holding   *)
(* one plane (the rounds of session.rs and the merge of plane.rs): sessions   *)
(* are not refused PLANE_STALE for ever.                                      *)
PlanesConverge == <>[](part = "plane" => P!OnePlane)
=============================================================================
