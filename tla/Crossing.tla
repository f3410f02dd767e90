------------------------------ MODULE Crossing ------------------------------
(***************************************************************************)
(* Where the pointer goes: the layout and the crossing graph every device  *)
(* derives from the plane (src/input/src/graph.rs), the guards of an edge  *)
(* (src/input/src/settings.rs), and the pointer half of the engine         *)
(* (on_motion, press_edge, crossing, integrate of src/input/src/           *)
(* session.rs): resting against an edge, crossing it, moving the virtual   *)
(* cursor over the others' screens and coming home.                        *)
(*                                                                         *)
(* The plane is small: screens are a few points wide, SNAP and DEAD_CORNER *)
(* one point.  A peer's channel is warm exactly while it is reachable, and *)
(* a session it is asked for is accepted; sessions themselves are          *)
(* InputSession.                                                           *)
(***************************************************************************)
EXTENDS Integers, Sequences, FiniteSets, FiniteSetsExt, Functions

CONSTANTS
  Nodes,    \* 1..N, in the order of their node ids
  Own,      \* this device
  Planes,   \* the layout documents to start from
  Steps,    \* the deltas a motion may carry
  Snap,     \* SNAP
  GuardSets,  \* the settings by neighbour: records dead, mods, wall, tap, drive
  MaxMoves  \* bound on the motions of a run

VARIABLES
  plane,    \* monitors of each node (verified, list) and the placed spots
  present,  \* the devices reachable now
  guards,   \* Settings: the guards of the edges to each node, and Peer.drive
  mods,     \* mods_held: the required modifier is down
  at,       \* last_pointer, in this device's own desktop coordinates
  dwell,    \* the edge pressed, how it was reached, and where along it
  left,     \* the edges touched and left a moment ago
  drv,      \* the session this device drives
  moves     \* motions so far

cvars == <<plane, present, guards, mods, at, dwell, left, drv, moves>>

NoDwell == [seg |-> <<>>, along |-> 0, tapped |-> FALSE]
NoDrive == [node |-> 0, on |-> <<>>, cursor |-> <<0, 0>>, from |-> <<>>, home |-> <<0, 0>>]

(***************************************************************************)
(* Rectangles.  A side is an axis (1 is x) and a direction.                *)
(***************************************************************************)
Sides == {"left", "right", "top", "bottom"}
Axis(side) == IF side \in {"left", "right"} THEN 1 ELSE 2
Lo(p, axis) == p.at[axis]
Hi(p, axis) == p.at[axis] + p.size[axis]
Key(p) == <<p.node, p.id>>
Before(j, k) == j[1] < k[1] \/ (j[1] = k[1] /\ j[2] < k[2])

\* Placed::contains
Contains(p, q) == \A a \in {1, 2} : q[a] >= Lo(p, a) /\ q[a] < Hi(p, a)
Bounded(v, lo, hi) == Max({lo, Min({v, hi})})

\* The inverse of Placed::to_own
ToPlane(p, q) == [a \in {1, 2} |-> p.at[a] + q[a] - p.own[a]]

(***************************************************************************)
(* The layout, a function of the document alone.                           *)
(***************************************************************************)
Put(n, m, where, here) ==
  [node |-> n, id |-> m.id, at |-> where, size |-> m.size, own |-> m.at, present |-> here]

Spotted(pl, n, m) == <<n, m.id>> \in DOMAIN pl.spots
Unplaced(pl, n) ==
  /\ pl.monitors[n].list # {}
  /\ \A m \in pl.monitors[n].list : ~Spotted(pl, n, m)

\* A spot without its screen keeps its place when its device has a verified
\* record: a ghost of the usual size.
GhostKnown(pl, n) == pl.monitors[n].list # {}
GhostGate(pl, n) == pl.monitors[n].verified
Ghosts(pl) ==
  {[node |-> k[1], id |-> k[2], at |-> pl.spots[k], size |-> <<3, 3>>,
    own |-> <<0, 0>>, present |-> FALSE] :
     k \in {j \in DOMAIN pl.spots :
              /\ GhostGate(pl, j[1])
              /\ \A m \in pl.monitors[j[1]].list : m.id # j[2]}}

\* lay_out: the spots, the ghosts, then the devices nobody placed, appended to
\* the right in the order of their ids, each as one block.
LayOut(pl, here) ==
  LET known == {n \in Nodes : pl.monitors[n].verified}
      placed == UNION {{Put(n, m, IF Spotted(pl, n, m) THEN pl.spots[<<n, m.id>>] ELSE m.at,
                            n \in here) : m \in pl.monitors[n].list} :
                         n \in {x \in known : ~Unplaced(pl, x)}}
      Block(out, n) ==
        LET list == pl.monitors[n].list
            edge == Max({0} \union {Hi(p, 1) : p \in out})
            corner == [a \in {1, 2} |-> Min({m.at[a] : m \in list})]
        IN  {Put(n, m, <<edge + m.at[1] - corner[1], m.at[2] - corner[2]>>, n \in here) :
               m \in list}
      upto[k \in 0..Cardinality(Nodes)] ==
        IF k = 0 THEN placed \union Ghosts(pl)
        ELSE IF k \in known /\ Unplaced(pl, k)
             THEN upto[k - 1] \union Block(upto[k - 1], k)
             ELSE upto[k - 1]
  IN  upto[Cardinality(Nodes)]

Placed == LayOut(plane, present)
At(key) == CHOOSE p \in Placed : Key(p) = key

(***************************************************************************)
(* The crossing graph.                                                     *)
(***************************************************************************)
\* shared: the two edges lie within SNAP of each other, on either side.
AbutsAhead(from, to, side) ==
  IF side \in {"right", "bottom"}
  THEN Lo(to, Axis(side)) - Hi(from, Axis(side)) \in 0..Snap
  ELSE Lo(from, Axis(side)) - Hi(to, Axis(side)) \in 0..(Snap - 1)
Abuts(from, to, side) ==
  LET a == Axis(side)
      gap == IF side \in {"right", "bottom"} THEN Lo(to, a) - Hi(from, a)
             ELSE Lo(from, a) - Hi(to, a)
  IN  gap \in -Snap..Snap
Stretch(from, to, side) ==
  LET a == 3 - Axis(side)
  IN  <<Max({Lo(from, a), Lo(to, a)}), Min({Hi(from, a), Hi(to, a)})>>
Shared(from, to, side) ==
  /\ Abuts(from, to, side)
  /\ Stretch(from, to, side)[1] < Stretch(from, to, side)[2]

\* derive, from the point of view of one device.
SegmentsOf(placed, own) ==
  {[from |-> Key(p), to |-> Key(q), side |-> s,
    lo |-> Stretch(p, q, s)[1], hi |-> Stretch(p, q, s)[2]] :
     <<p, q, s>> \in {t \in placed \X placed \X Sides :
                        /\ t[1].node = own
                        /\ t[2].node # own /\ t[2].present
                        /\ Shared(t[1], t[2], t[3])}}

\* at_edge: the side pushed past, and the first segment there, in the order of
\* the graph, that the guards of its neighbour let through.
Over(p, q, side) ==
  LET a == Axis(side)
  IN  IF side \in {"left", "top"} THEN Lo(p, a) - q[a] ELSE q[a] - (Hi(p, a) - 1)
Pushed(p, q, side) ==
  /\ Over(p, q, side) > 0
  /\ \A s \in Sides : Over(p, q, s) < Over(p, q, side)
                      \/ (Over(p, q, s) = Over(p, q, side)
                          /\ (side = "left" \/ s = "bottom" \/ s = side
                              \/ (side = "right" /\ s = "top")))
Along(p, q, side) ==
  LET a == 3 - Axis(side) IN Bounded(q[a], Lo(p, a), Max({Hi(p, a) - 1, Lo(p, a)}))
Admits(seg, g, along) ==
  /\ ~g.wall
  /\ along >= seg.lo + g.dead /\ along < seg.hi - g.dead
  /\ g.mods => mods
Candidates(p, q) ==
  {seg \in SegmentsOf(Placed, Own) :
     /\ seg.from = Key(p)
     /\ Pushed(p, q, seg.side)
     /\ Admits(seg, guards[seg.to[1]], Along(p, q, seg.side))}
AtEdge(p, q) ==
  IF Contains(p, q) \/ Candidates(p, q) = {} THEN {}
  ELSE {CHOOSE seg \in Candidates(p, q) :
          \A other \in Candidates(p, q) : seg = other \/ Before(seg.to, other.to)}

\* entry_point, and crossing_x or crossing_y of the virtual cursor: the first
\* point inside the far screen, at the height the pointer left.
Entry(seg, along) ==
  LET to == At(seg.to)
      across == IF seg.side \in {"right", "bottom"} THEN Lo(to, Axis(seg.side))
                ELSE Hi(to, Axis(seg.side)) - 1
  IN  IF Axis(seg.side) = 1 THEN <<across, along>> ELSE <<along, across>>

(***************************************************************************)
(* The engine.                                                             *)
(***************************************************************************)
EdgeKey(seg) == <<seg.from, seg.to, seg.side>>

\* forget_dwell
ForgetDwell ==
  /\ dwell' = NoDwell
  /\ left' = IF dwell = NoDwell THEN left ELSE left \union {EdgeKey(dwell.seg)}

\* press_edge: the same edge keeps its dwell, another one starts its own; with
\* the double tap asked for, only an edge left a moment ago counts.
PressEdge(seg, along) ==
  IF dwell # NoDwell /\ EdgeKey(dwell.seg) = EdgeKey(seg)
  THEN dwell' = [dwell EXCEPT !.along = along] /\ UNCHANGED left
  ELSE /\ dwell' = [seg |-> seg, along |-> along,
                    tapped |-> guards[seg.to[1]].tap => EdgeKey(seg) \in left]
       /\ left' = IF dwell = NoDwell THEN left ELSE left \union {EdgeKey(dwell.seg)}

\* The pointer of the machine itself, which the OS keeps on its screens.
ScreenAt(q) ==
  {m \in plane.monitors[Own].list :
     \A a \in {1, 2} : q[a] >= m.at[a] /\ q[a] < m.at[a] + m.size[a]}
Moved(d) ==
  LET q == [a \in {1, 2} |-> at[a] + d[a]]
      m == CHOOSE m \in ScreenAt(at) : TRUE
  IN  IF ScreenAt(q) # {} THEN q
      ELSE [a \in {1, 2} |-> Bounded(q[a], m.at[a], m.at[a] + m.size[a] - 1)]

\* own_to_plane: the first of this device's rectangles, ghosts among them, whose
\* own coordinates hold the point.
OwnRect(q) ==
  LET under == {p \in Placed : /\ p.node = Own
                               /\ \A a \in {1, 2} : q[a] >= p.own[a] /\ q[a] < p.own[a] + p.size[a]}
  IN  {p \in under : \A other \in under : p = other \/ Before(Key(p), Key(other))}

\* on_motion while nothing is driven: the point the hand meant is the position
\* plus the delta.
OnMotion(d) ==
  /\ drv = NoDrive
  /\ at' = Moved(d)
  /\ \E p \in OwnRect(at') :
       LET here == ToPlane(p, at')
           q == [a \in {1, 2} |-> here[a] + d[a]]
       IN  IF AtEdge(p, q) = {} THEN ForgetDwell
           ELSE \E seg \in AtEdge(p, q) : PressEdge(seg, q[3 - Axis(seg.side)])
  /\ UNCHANGED drv

\* integrate: the first present screen under the virtual cursor decides.
FirstAt(q) ==
  LET under == {p \in Placed : p.present /\ Contains(p, q)}
  IN  {p \in under : \A other \in under : p = other \/ Before(Key(p), Key(other))}
ClampUnbounded(key, q) == q
ClampTo(key, q) ==
  LET p == At(key)
  IN  [a \in {1, 2} |-> Bounded(q[a], Lo(p, a), Max({Hi(p, a) - 1, Lo(p, a)}))]
BringHome == drv' = NoDrive /\ at' = drv.home
Integrate(d) ==
  LET q == [a \in {1, 2} |-> drv.cursor[a] + d[a]]
  IN  /\ drv # NoDrive
      /\ \/ /\ FirstAt(q) = {}
            /\ drv' = [drv EXCEPT !.cursor = ClampTo(drv.on, q)]
            /\ UNCHANGED at
         \/ \E p \in FirstAt(q) :
              \/ /\ p.node = drv.node
                 /\ drv' = [drv EXCEPT !.on = Key(p), !.cursor = q]
                 /\ UNCHANGED at
              \/ p.node = Own /\ BringHome
              \/ /\ p.node \notin {Own, drv.node}
                 /\ IF ~guards[p.node].drive
                    THEN drv' = [drv EXCEPT !.cursor = ClampTo(drv.on, q)]
                    ELSE drv' = [drv EXCEPT !.node = p.node, !.on = Key(p), !.cursor = q]
                 /\ UNCHANGED at
      /\ UNCHANGED <<dwell, left>>

\* A motion event, whoever is driven.
Move(d) ==
  /\ moves < MaxMoves
  /\ moves' = moves + 1
  /\ OnMotion(d) \/ Integrate(d)
  /\ UNCHANGED <<plane, present, guards, mods>>

\* crossing, once the dwell has lasted: a session with the far device, unless
\* start_session refuses one.
Cross ==
  /\ dwell # NoDwell /\ dwell.tapped /\ drv = NoDrive
  /\ dwell.seg.to[1] \in present
  /\ drv' = IF ~guards[dwell.seg.to[1]].drive THEN drv
            ELSE [node |-> dwell.seg.to[1], on |-> dwell.seg.to, from |-> dwell.seg.from,
                  cursor |-> Entry(dwell.seg, dwell.along), home |-> at]
  /\ ForgetDwell
  /\ UNCHANGED <<plane, present, guards, mods, at, moves>>

\* crossing, the channel not warm within CROSS_OPEN_BOUND.
NotWarm ==
  /\ dwell # NoDwell /\ dwell.seg.to[1] \notin present
  /\ ForgetDwell
  /\ UNCHANGED <<plane, present, guards, mods, at, drv, moves>>

\* input.take: the middle of one of its screens.
Take(n) ==
  /\ drv = NoDrive /\ n \in present \ {Own} /\ guards[n].drive
  /\ \E p \in {x \in Placed : x.node = n /\ x.present} :
       /\ \A other \in {x \in Placed : x.node = n /\ x.present} :
            p = other \/ Before(Key(p), Key(other))
       /\ drv' = [node |-> n, on |-> Key(p), from |-> <<>>, home |-> at,
                  cursor |-> [a \in {1, 2} |-> Lo(p, a) + p.size[a] \div 2]]
  /\ UNCHANGED <<plane, present, guards, mods, at, dwell, left, moves>>

\* The hotkey or input.release.
Release ==
  /\ drv # NoDrive
  /\ BringHome
  /\ UNCHANGED <<plane, present, guards, mods, dwell, left, moves>>

\* A device comes or goes: the graph is rebuilt, and a session with it ends.
Reachable(n) ==
  /\ n # Own /\ moves < MaxMoves
  /\ moves' = moves + 1
  /\ present' = IF n \in present THEN present \ {n} ELSE present \union {n}
  /\ IF drv.node = n THEN BringHome ELSE UNCHANGED <<drv, at>>
  /\ UNCHANGED <<plane, guards, mods, dwell, left>>

\* The required modifier goes down or up.
Modifier ==
  /\ \E n \in Nodes : guards[n].mods
  /\ mods' = ~mods
  /\ UNCHANGED <<plane, present, guards, at, dwell, left, drv, moves>>

Init ==
  /\ plane \in Planes
  /\ present \in {Nodes, {Own}}
  /\ guards \in GuardSets
  /\ mods = FALSE
  /\ at \in {[a \in {1, 2} |-> m.at[a] + m.size[a] - 1] : m \in plane.monitors[Own].list}
  /\ dwell = NoDwell
  /\ left = {}
  /\ drv = NoDrive
  /\ moves = 0

Next ==
  \/ \E d \in Steps : Move(d)
  \/ \E n \in Nodes : Take(n) \/ Reachable(n)
  \/ Cross \/ NotWarm \/ Release \/ Modifier

Spec == Init /\ [][Next]_cvars

(***************************************************************************)
(* Properties.                                                             *)
(***************************************************************************)
\* No two screens that are there overlap.
Apart ==
  \A p, q \in {x \in Placed : x.present} :
    p = q \/ \E a \in {1, 2} : Hi(p, a) <= Lo(q, a) \/ Hi(q, a) <= Lo(p, a)

\* The virtual cursor is inside the screen it is drawn on, which is there and
\* belongs to the device being driven (clamp_to, entry_point): one over nothing,
\* or over a third device, sends positions the driven device does not have.
\* Where no two screens overlap it is also the screen integrate finds under the
\* cursor: one of our own there would bring the session home at the next motion,
\* whichever way the hand goes.  On a plane with overlaps the first screen in the
\* order of the keys is found, and the code promises no more than the first half.
CursorOnTheirs ==
  drv # NoDrive =>
    /\ \E p \in Placed : /\ Key(p) = drv.on /\ p.node = drv.node /\ p.present
                         /\ Contains(p, drv.cursor)
    /\ Apart => \E p \in FirstAt(drv.cursor) : Key(p) = drv.on

\* The rectangles do not depend on what the plane id leaves out: who is
\* reachable, and the entries held unverified.  Two devices that agreed on the
\* id while laying out differently would send each other wrong coordinates.
Rectangles(placed) == {<<Key(p), p.at, p.size>> : p \in placed}
Hashed(pl) == [pl EXCEPT !.monitors =
                 [n \in Nodes |-> IF @[n].verified THEN @[n]
                                  ELSE [verified |-> FALSE, list |-> {}]]]
SameLayout == Rectangles(Placed) = Rectangles(LayOut(Hashed(plane), Nodes))

\* A screen that is away keeps its place and its edges are walls: nobody leaves
\* through an edge of a screen that is not there.
GhostsAreWalls == dwell # NoDwell => At(dwell.seg.from).present

\* An edge that leads from a screen that is there to another device leads back,
\* over the same stretch, on planes with overlaps too: every device derives the
\* same crossings from its own side.
Opposite(side) == CASE side = "left" -> "right" [] side = "right" -> "left"
                    [] side = "top" -> "bottom" [] side = "bottom" -> "top"
MutualEdges ==
  \A n \in present : \A seg \in SegmentsOf(Placed, n) :
    At(seg.from).present =>
    \E back \in SegmentsOf(Placed, seg.to[1]) :
      /\ back.from = seg.to /\ back.to = seg.from
      /\ back.side = Opposite(seg.side)
      /\ back.lo = seg.lo /\ back.hi = seg.hi
=============================================================================
