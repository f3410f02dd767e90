------------------------------ MODULE MCInput ------------------------------
(* Input sessions and what captures for them: three machines whose users     *)
(* gesture while things go wrong (InputSession, under its own names), and    *)
(* as INSTANCEs over x1, x2, ..., the layout the cursor crosses (Crossing)   *)
(* and the back ends: PortalCapture on Wayland, CaptureLoop on X11, Windows  *)
(* and macOS.  One part is at work in a behaviour.                           *)
EXTENDS MCInputSession

CONSTANT Parts   \* the parts a run takes up

\* The part at work, and its variables: the INSTANCEs below name them.
VARIABLES part, x1, x2, x3, x4, x5, x6, x7, x8, x9

(* Three devices with one screen of 3 x 3 each, this device's own at the     *)
(* origin.                                                                   *)
Screen(id, x, y) == [id |-> id, at |-> <<x, y>>, size |-> <<3, 3>>]
Entry1(v, list) == [verified |-> v, list |-> list]

\* Where a neighbour may stand: flush, a point away, below, shifted, or dragged
\* over this device's screen, by a point or by most of it.
Flush == {<<3, 0>>, <<4, 0>>, <<0, 3>>, <<3, 1>>, <<-3, 0>>, <<0, -4>>, <<2, 0>>, <<1, 1>>}
Third == {<<6, 0>>, <<7, 0>>, <<3, 4>>, <<-3, 3>>}

Alone == Entry1(TRUE, {Screen(1, 0, 0)})

DeskPlanes ==
  {[monitors |-> [n \in 1..3 |-> Alone],
    spots |-> (<<1, 1>> :> <<0, 0>>) @@ (<<2, 1>> :> t[1]) @@ (<<3, 1>> :> t[2])] :
     t \in Flush \X Third}
  \* nobody placed anything; the third is a stranger, or a ghost of it is kept
  \union {[monitors |-> [n \in 1..3 |-> IF n = 3 THEN Entry1(v, {Screen(1, 0, 0)}) ELSE Alone],
           spots |-> s] :
            v \in BOOLEAN,
            s \in {[k \in {} |-> <<0, 0>>], (<<3, 2>> :> <<3, 0>>)}}

DeskSteps == 
  {<<1, 0>>, <<-1, 0>>, <<0, 1>>, <<0, -1>>, <<2, 0>>, <<-2, 0>>, <<0, -2>>, <<0, 2>>,
   <<1, 1>>}

\* The default guards, on this scale, and each of the others towards device 2.
Plain == [dead |-> 1, mods |-> FALSE, wall |-> FALSE, tap |-> FALSE,
          drive |-> TRUE]
DeskGuardSets ==
  {[n \in 1..3 |-> IF n = 2 THEN g ELSE Plain] :
     g \in {Plain, [Plain EXCEPT !.mods = TRUE], [Plain EXCEPT !.wall = TRUE],
            [Plain EXCEPT !.tap = TRUE], [Plain EXCEPT !.drive = FALSE]}}

\* The portal's calls that may fail.
PortalFaults ==
  {"create", "connect", "nopointer", "zones", "barriers", "noplace", "enable",
   "disable", "release", "stream", "remote", "nokeyboard", "notify"}

C == INSTANCE Crossing WITH
  plane <- x1, present <- x2, guards <- x3, mods <- x4, at <- x5, dwell <- x6,
  left <- x7, drv <- x8, moves <- x9, Nodes <- 1..3, Own <- 1,
  Planes <- DeskPlanes, Steps <- DeskSteps, Snap <- 1,
  GuardSets <- DeskGuardSets, MaxMoves <- 3
P == INSTANCE PortalCapture WITH
  cap <- x1, lp <- x2, pt <- x3, eng <- x4, net <- x5, MaxAct <- 2,
  MaxFaults <- 1, MaxMoves <- 1, MaxGest <- 2, Capacity <- 2, MaxInject <- 0,
  Faults <- PortalFaults
T == INSTANCE PortalCapture WITH
  cap <- x1, lp <- x2, pt <- x3, eng <- x4, net <- x5, MaxAct <- 1,
  MaxFaults <- 1, MaxMoves <- 1, MaxGest <- 1, Capacity <- 2, MaxInject <- 1,
  Faults <- PortalFaults
L == INSTANCE CaptureLoop WITH
  os <- x1, be <- x2, srv <- x3, eng <- x4, net <- x5,
  Systems <- {"x11", "windows", "mac"}, Capacity <- 2, MaxKeys <- 1,
  MaxGest <- 3, MaxFaults <- 1, ByGesture <- FALSE

-----------------------------------------------------------------------------
(* One part is at work in a behaviour; a variable it has no use for is 0.    *)

InputInit ==
  /\ part \in Parts
  /\ \/ /\ part = "sessions" /\ Init
        /\ x1 = 0 /\ x2 = 0 /\ x3 = 0 /\ x4 = 0 /\ x5 = 0 /\ x6 = 0 /\ x7 = 0
        /\ x8 = 0 /\ x9 = 0
     \/ /\ part = "crossing" /\ C!Init /\ Init
     \/ /\ part = "portal" /\ P!Init /\ Init
        /\ x6 = 0 /\ x7 = 0 /\ x8 = 0 /\ x9 = 0
     \/ /\ part = "typing" /\ T!Init /\ Init
        /\ x6 = 0 /\ x7 = 0 /\ x8 = 0 /\ x9 = 0
     \/ /\ part = "capture" /\ L!Init /\ Init
        /\ x6 = 0 /\ x7 = 0 /\ x8 = 0 /\ x9 = 0

InputNext ==
  \/ /\ part = "sessions" /\ Next
     /\ UNCHANGED <<part, x1, x2, x3, x4, x5, x6, x7, x8, x9>>
  \/ /\ part = "crossing" /\ C!Next
     /\ UNCHANGED <<part, eng, pair, open, task, dials, notices, wire,
                     revoked, hung, events>>
  \/ /\ part = "portal" /\ P!Next
     /\ UNCHANGED <<part, eng, pair, open, task, dials, notices, wire,
                     revoked, hung, events, x6, x7, x8, x9>>
  \/ /\ part = "typing" /\ T!Next
     /\ UNCHANGED <<part, eng, pair, open, task, dials, notices, wire,
                     revoked, hung, events, x6, x7, x8, x9>>
  \/ /\ part = "capture" /\ L!Next
     /\ UNCHANGED <<part, eng, pair, open, task, dials, notices, wire,
                     revoked, hung, events, x6, x7, x8, x9>>

Inputvars == <<part, eng, pair, open, task, dials, notices, wire, revoked,
             hung, events, x1, x2, x3, x4, x5, x6, x7, x8, x9>>

InputSpec == InputInit /\ [][InputNext]_Inputvars

\* ... and with engines that do what they have to.
FairInputSpec == InputSpec /\ Fairness

-----------------------------------------------------------------------------
(* The cursor's edges hold together, on planes with overlaps, gaps and ghosts: *)
(* the cursor of a driven device is inside one of its screens (clamp_to), and  *)
(* where no two screens overlap that is the one integrate finds under it;      *)
(* devices with the same plane build the same layout (lay_out); and a screen   *)
(* that is there and can be left towards another can be left from there as     *)
(* well (shared; see Crossing).                                                *)
EdgesSound ==
  part = "crossing" => C!CursorOnTheirs /\ C!SameLayout /\ C!MutualEdges

(* A capture belongs to its activation and ends with it.  On Wayland, motions *)
(* read from the second socket belong to the activation they are counted in,  *)
(* every portal session has an owner, and Off means that nothing is captured, *)
(* whichever call fails but Disable itself (wayland.rs).  Once the queues are *)
(* empty, an X11 loop swallows exactly while its engine drives; a Windows or  *)
(* macOS loop, whose full channel may drop a lost capture, at least swallows  *)
(* and pins for no session that has ended, but for a pointer macOS has yet to *)
(* couple again, which it retries.  No key stays down on the far              *)
(* machine that its owner let go of, unless the channel dropped an upcall or  *)
(* the capture ended behind upcalls not yet read (x11.rs, windows.rs,         *)
(* macos.rs).                                                                 *)
CaptureSound ==
  /\ part = "portal" => P!MotionsBelong /\ P!SessionsHeld /\ P!OffMeansOff
  /\ part = "typing" => T!MotionsBelong /\ T!SessionsHeld /\ T!OffMeansOff
  /\ part = "capture" => L!ModesAgree /\ L!NoStrandedKey
=============================================================================
