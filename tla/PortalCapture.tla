---------------------------- MODULE PortalCapture ----------------------------
(***************************************************************************)
(* The Wayland back end of the input satellite: the InputCapture session   *)
(* (Capture and Decoder), the loop that owns it (WaylandLoop), and the two *)
(* sockets it reads: D-Bus signals and the EI event stream, which arrive   *)
(* in no common order.  The compositor and its portal are external; the    *)
(* engine is the part of session.rs that listens to the back end and       *)
(* chooses the capture mode.  Any one portal call of a step may fail.      *)
(* Source: input/src/wayland.rs, input/src/wayland_portal.rs,              *)
(* input/src/session.rs.                                                   *)
(***************************************************************************)
EXTENDS Naturals, Sequences, SequencesExt, FiniteSets

CONSTANTS MaxAct,     \* activations the compositor starts
          MaxFaults,  \* portal calls that fail
          Faults,     \* the calls that may fail
          MaxMoves,   \* screen changes, forced deactivations and closes
          MaxGest,    \* times the set of warm peers changes, and sessions end
          Capacity,   \* slots of the event channel to the engine
          MaxInject   \* batches a peer asks this machine to type

VARIABLES
  cap,   \* struct Capture and its Decoder
  lp,    \* struct WaylandLoop
  pt,    \* the compositor, its portal and the EI stream
  eng,   \* the engine: who drives, what was asked for, the capabilities read
  net    \* cmds: Queue; sigs: the portal's signals; evs: the event channel

vars == <<cap, lp, pt, eng, net>>

NoCap == [sess |-> 0, phase |-> "idle", act |-> 0, stale |-> FALSE, zser |-> 0,
          ann |-> 0, dact |-> 0, conf |-> FALSE]

\* A fresh loop: nothing wanted, nothing granted, nothing published.
FreshLoop ==
  [want |-> "off", warp |-> FALSE, remote |-> 0, refused |-> FALSE, any |-> FALSE,
   held |-> <<>>, caps |-> [capture |-> TRUE, keys |-> TRUE], mons |-> 0,
   pc |-> "cmds", ended |-> FALSE]
build == [cap |-> NoCap, lp |-> FreshLoop]

(* The compositor: one capture session, its zones, one live activation.    *)
NoPortal == [sess |-> 0, enabled |-> FALSE, act |-> 0, edge |-> "live", serial |-> 1,
             ei |-> <<>>, next |-> 1, opened |-> 0, faults |-> 0, moves |-> 0, rem |-> 0,
             dialogs |-> 0, emul |-> 0, still |-> FALSE]   \* still (ghost): a Disable failed

Init ==
  /\ cap = build.cap /\ lp = build.lp /\ pt = NoPortal
  /\ eng = [driving |-> FALSE, warm |-> FALSE, sent |-> "none", capture |-> TRUE,
            gest |-> 0, inj |-> 0, bad |-> FALSE]
  /\ net = [cmds |-> <<>>, sigs |-> <<>>, evs |-> <<>>]

(***************************************************************************)
(* The portal's methods, on a bundle s = [c, p, err]; f names the call     *)
(* that fails in this step.                                                *)
(***************************************************************************)
\* An activation ends: the EI stream says so after what it already carries.
Ended(p) ==
  [p EXCEPT !.act = 0, !.emul = 0,
            !.ei = IF p.emul # 0 THEN Append(@, [k |-> "stop", n |-> p.emul]) ELSE @]

\* Bus: CreateSession raises the dialog, ConnectToEIS opens a fresh stream,
\* SetPointerBarriers suspends and ends the activation, Release gives it back.
CaptureCreateSession(p) == [p EXCEPT !.dialogs = @ + 1]
CaptureConnect(p) == [p EXCEPT !.opened = @ + 1, !.sess = p.opened + 1, !.ei = <<>>]
CaptureSetBarriers(p) == [Ended(p) EXCEPT !.enabled = FALSE]
CaptureEnable(p) == [p EXCEPT !.enabled = TRUE, !.still = FALSE]
CaptureDisable(p) == [Ended(p) EXCEPT !.enabled = FALSE]
CaptureRelease(p, id) == IF p.act = id THEN Ended(p) ELSE p
RemoteStart(p) == [p EXCEPT !.rem = 1]
PortalClose(p) ==
  [p EXCEPT !.sess = 0, !.enabled = FALSE, !.act = 0, !.emul = 0, !.ei = <<>>, !.still = FALSE]

\* Capture::die.
Die(s, why) ==
  [s EXCEPT !.c = [NoCap EXCEPT !.phase = "dead", !.ann = s.c.ann],
            !.p = IF s.c.sess # 0 THEN PortalClose(s.p) ELSE s.p,
            !.err = why]

\* Decoder::deactivated.
Deactivated(c) == [c EXCEPT !.dact = 0, !.conf = FALSE]

\* Decoder::activated.
\* (mutant: what the stream announced is taken to be this activation)
ActivatedTrusting(c, id) == [c EXCEPT !.dact = id, !.conf = c.ann # 0]
Activated(c, id) == [c EXCEPT !.dact = id, !.conf = c.ann = id]

Enable(s, f) ==
  IF f = "enable" THEN Die(s, "other")
  ELSE [s EXCEPT !.c.phase = "armed", !.p = CaptureEnable(@)]

\* Capture::rearm_barriers: SetPointerBarriers suspends and ends the activation.
RearmBarriers(s, f) ==
  IF s.c.sess = 0 THEN [s EXCEPT !.err = "closed"]
  ELSE IF f \in {"zones", "barriers"} THEN [s EXCEPT !.err = "other"]
  ELSE LET set == [s EXCEPT !.p = CaptureSetBarriers(@),
                            !.c = [Deactivated(@) EXCEPT !.zser = s.p.serial, !.stale = FALSE,
                                                         !.phase = "suspended"]]
       IN  IF f = "noplace" THEN Die(set, "other") ELSE Enable(set, f)

\* Capture::begin: CreateSession raises the consent dialog, then ConnectToEIS.
Begin(s, f) ==
  LET asked == [s EXCEPT !.p = CaptureCreateSession(@)] IN
  IF f = "create" THEN [asked EXCEPT !.err = "refused"]
  ELSE IF f = "connect" THEN [asked EXCEPT !.err = "other", !.p = PortalClose(CaptureConnect(@))]
  ELSE [asked EXCEPT !.p = CaptureConnect(@), !.c.sess = s.p.opened + 1]

\* Capture::arm, from Idle.
\* (mutant: a failure after the grant returns with the session still open)
ArmFreshLeaky(s, f) ==
  LET b == Begin(s, f) IN
  IF b.err # "" THEN b
  ELSE LET r == RearmBarriers(b, f) IN
       IF r.err # "" /\ r.c.phase # "dead" THEN [r EXCEPT !.c.sess = 0] ELSE r
ArmFresh(s, f) ==
  LET b == Begin(s, f) IN
  IF b.err # "" THEN b
  ELSE IF f = "nopointer" THEN Die(b, "refused")
  ELSE LET r == RearmBarriers(b, f) IN
       IF r.err # "" /\ r.c.phase # "dead" THEN Die(r, r.err) ELSE r

Arm(s, f) ==
  CASE s.c.phase \in {"armed", "active"} -> s
    [] s.c.phase = "dead" -> [s EXCEPT !.err = "other"]
    [] s.c.phase = "suspended" /\ s.c.stale -> RearmBarriers(s, f)
    [] s.c.phase = "suspended" /\ ~s.c.stale ->
         IF s.c.sess = 0 THEN [s EXCEPT !.err = "closed"] ELSE Enable(s, f)
    [] s.c.phase = "idle" -> ArmFresh(s, f)

\* Capture::stop: Release of the live activation; a release that cannot be
\* confirmed ends the session.
Stop(s, f) ==
  IF s.c.phase # "active" \/ s.c.sess = 0 THEN s
  ELSE IF f = "release" THEN Die(s, "")
  ELSE [s EXCEPT !.c = [Deactivated(@) EXCEPT !.phase = "armed", !.act = 0],
                 !.p = CaptureRelease(@, s.c.act)]

\* Capture::disarm.  A Disable that fails is warned of and counts as done.
\* (mutant: an armed capture is taken to have nothing to stop)
DisarmBelieving(s, f) ==
  IF s.c.phase = "dead" THEN s
  ELSE LET t == Stop(s, f) IN
       IF t.c.sess = 0 THEN [t EXCEPT !.c.phase = "idle"]
       ELSE [t EXCEPT !.c = [Deactivated(@) EXCEPT !.phase = "suspended"],
                      !.p = IF s.c.phase = "active" THEN CaptureDisable(@) ELSE @]
Disarm(s, f) ==
  IF s.c.phase = "dead" THEN s
  ELSE LET t == Stop(s, f) IN
       IF t.c.sess = 0 THEN [t EXCEPT !.c.phase = "idle"]
       ELSE [t EXCEPT !.c = [Deactivated(@) EXCEPT !.phase = "suspended"],
                      !.p = IF f = "disable" THEN [@ EXCEPT !.still = TRUE] ELSE CaptureDisable(@)]

\* Capture::signal; the result's err is "zones" when the barriers must be placed again.
SignalIn(s, g, f) ==
  IF s.c.sess # g.s THEN s
  ELSE CASE g.k = "activated" ->
              IF s.c.phase # "armed" THEN s
              ELSE LET on == [s EXCEPT !.c.phase = "active", !.c.act = g.n] IN
                   IF ~g.at THEN Stop(on, f) ELSE [on EXCEPT !.c = Activated(@, g.n)]
         [] g.k = "deactivated" ->
              IF s.c.phase = "active" /\ s.c.act = g.n
              THEN [s EXCEPT !.c = [Deactivated(@) EXCEPT !.phase = "armed", !.act = 0]] ELSE s
         [] g.k = "disabled" -> [s EXCEPT !.c = [Deactivated(@) EXCEPT !.phase = "suspended", !.act = 0]]
         [] g.k = "zones" ->
              IF g.n = s.c.zser THEN s
              ELSE LET t == Stop(s, f) IN
                   IF t.c.phase = "dead" THEN t
                   ELSE [t EXCEPT !.c = [Deactivated(@) EXCEPT !.stale = TRUE, !.phase = "suspended"],
                                  !.err = "zones"]
         [] g.k = "closed" -> [s EXCEPT !.c = [NoCap EXCEPT !.phase = "dead", !.ann = s.c.ann]]

(***************************************************************************)
(* Upcalls: a moment is dropped when the channel is full, a fact is held.  *)
(***************************************************************************)
Facts == {"lost", "caps", "mons"}

\* WaylandLoop::emit, on [held, evs]: the held facts first.
Emit(o, e) ==
  LET room == Capacity - Len(o.evs)
      n == IF room < Len(o.held) THEN room ELSE Len(o.held)
      evs == o.evs \o [i \in 1..n |-> [k |-> o.held[i], n |-> 0, edge |-> "live"]]
      held == SubSeq(o.held, n + 1, Len(o.held))
  IN  IF Len(evs) < Capacity THEN [held |-> held, evs |-> Append(evs, e)]
      ELSE [held |-> IF e.k \in Facts /\ ~Contains(held, e.k) THEN Append(held, e.k) ELSE held,
            evs |-> evs]

Fact(k) == [k |-> k, n |-> 0, edge |-> "live"]

\* WaylandLoop::publish: MonitorsChanged stands for both when both moved.
Publish(l, c, o) ==
  LET caps == [capture |-> c.phase # "dead", keys |-> ~l.refused]
      moved == IF c.zser # l.mons THEN <<Fact("mons")>>
               ELSE IF caps # l.caps THEN <<Fact("caps")>> ELSE <<>>
  IN  [l |-> [l EXCEPT !.caps = caps, !.mons = c.zser],
       o |-> IF moved = <<>> THEN o ELSE Emit(o, moved[1])]

Out == [held |-> lp.held, evs |-> net.evs]

\* The end of a step of the loop: what the bundle s and the upcalls o left.
Commit(s, l, o, cmds, sigs) ==
  /\ cap' = s.c
  /\ pt' = s.p
  /\ lp' = [l EXCEPT !.held = o.held]
  /\ net' = [net EXCEPT !.cmds = cmds, !.sigs = sigs, !.evs = o.evs]

\* lost(), when a step left an error, then publish().
Report(s, l) ==
  LET o == IF s.err # "" THEN Emit(Out, Fact("lost")) ELSE Out IN Publish(l, s.c, o)

\* The call that fails in this step, charged to the budget.
Fault(f) == f = "none" \/ (f \in Faults /\ pt.faults < MaxFaults)
S0(f) == [c |-> cap, p |-> IF f = "none" THEN pt ELSE [pt EXCEPT !.faults = @ + 1], err |-> ""]

(***************************************************************************)
(* The loop: commands, then signals, then one poll of the stream.          *)
(***************************************************************************)
Head1 == Head(net.cmds)

SetCapture(f) ==
  /\ lp.pc = "cmds" /\ net.cmds # <<>> /\ Head1 \in {"off", "watch", "swallow"}
  /\ LET on == Head1 # "off"
         l == [lp EXCEPT !.want = Head1, !.refused = IF on THEN FALSE ELSE @,
                         !.warp = IF on THEN @ ELSE FALSE]
         s == IF on THEN Arm(S0(f), f) ELSE Disarm(Stop(S0(f), f), f)
         r == Report(s, l)
     IN  Commit(s, r.l, r.o, Tail(net.cmds), net.sigs)
  /\ UNCHANGED eng

Warp ==
  /\ lp.pc = "cmds" /\ net.cmds # <<>> /\ Head1 = "warp"
  /\ lp' = [lp EXCEPT !.warp = @ \/ cap.phase = "active"]
  /\ net' = [net EXCEPT !.cmds = Tail(@)]
  /\ UNCHANGED <<cap, pt, eng>>

\* Exit, and run's tail: Capture::close and the injection session's close.
Exit ==
  /\ lp.pc = "cmds" /\ net.cmds # <<>> /\ Head1 = "exit"
  /\ LET s == Stop(S0("none"), "none") IN
     /\ cap' = NoCap
     /\ pt' = [(IF s.c.sess # 0 THEN PortalClose(s.p) ELSE s.p) EXCEPT !.rem = 0]
  /\ lp' = [lp EXCEPT !.ended = TRUE, !.remote = 0, !.pc = "ended"]
  /\ UNCHANGED <<eng, net>>

\* inject, release and remote_session: the session is asked for on the first
\* batch; a refusal is remembered until the next gesture.
Inject(f) ==
  /\ lp.pc = "cmds" /\ net.cmds # <<>> /\ Head1 = "inject"
  /\ LET start == lp.remote = 0 /\ ~lp.refused
         refusedNow == start /\ f \in {"remote", "nokeyboard"}
         session == ~refusedNow /\ (start \/ lp.remote # 0)
         failed == session /\ f = "notify"
         l == [lp EXCEPT !.refused = @ \/ refusedNow \/ failed,
                         !.remote = IF session /\ ~failed THEN 1 ELSE 0]
         s == S0(f)
         t == [s EXCEPT !.p = IF start /\ ~refusedNow THEN RemoteStart(@) ELSE @]
         o1 == IF refusedNow THEN Publish(l, cap, Out).o ELSE Out
         o2 == IF session /\ ~failed THEN o1 ELSE Emit(o1, Fact("refused"))
         r == IF failed THEN Publish(l, cap, o2)
              ELSE [l |-> IF refusedNow THEN Publish(l, cap, Out).l ELSE l, o |-> o2]
     IN  Commit(t, r.l, r.o, Tail(net.cmds), net.sigs)
  /\ UNCHANGED eng

Signal(f) ==
  /\ lp.pc = "sigs" /\ net.sigs # <<>>
  /\ LET s == SignalIn(S0(f), Head(net.sigs), f)
         again == s.err = "zones" /\ lp.want # "off"
         t == IF again THEN RearmBarriers([s EXCEPT !.err = ""], f) ELSE [s EXCEPT !.err = ""]
         l == [lp EXCEPT !.any = TRUE]
         r == IF t.err # "" THEN Report(t, l) ELSE [l |-> l, o |-> Out]
     IN  Commit(t, r.l, r.o, net.cmds, Tail(net.sigs))
  /\ UNCHANGED eng

\* pump between its parts: every signal taken is followed by a publish.
Turn ==
  \/ /\ lp.pc = "cmds" /\ net.cmds = <<>>
     /\ net.sigs # <<>> \/ (cap.phase \in {"armed", "active"} /\ pt.ei # <<>>)
     /\ lp' = [lp EXCEPT !.pc = "sigs", !.any = FALSE]
     /\ UNCHANGED <<cap, pt, eng, net>>
  \/ /\ lp.pc = "sigs" /\ net.sigs = <<>>
     /\ LET l == [lp EXCEPT !.pc = "poll", !.warp = @ /\ (~lp.any \/ cap.phase = "active")]
            r == IF lp.any THEN Publish(l, cap, Out) ELSE [l |-> l, o |-> Out]
        IN  /\ lp' = [r.l EXCEPT !.held = r.o.held]
            /\ net' = [net EXCEPT !.evs = r.o.evs]
     /\ UNCHANGED <<cap, pt, eng>>

\* Decoder::decode on one event of the stream.
DecodeOne(c, e) ==
  CASE e.k = "start" -> [c EXCEPT !.ann = e.n, !.conf = c.dact = e.n]
    [] e.k = "stop" -> [c EXCEPT !.ann = 0, !.conf = FALSE]
    [] OTHER -> c

\* Capture::poll: one event, nothing, or the end of the stream.
Poll(f) ==
  /\ lp.pc = "poll"
  /\ LET l == [lp EXCEPT !.pc = "cmds"]
         reads == cap.phase \in {"armed", "active"}
     IN  \/ /\ ~reads \/ pt.ei = <<>>
            /\ f = "none"
            /\ lp' = l /\ UNCHANGED <<cap, pt, eng, net>>
         \/ /\ reads /\ pt.ei # <<>> /\ f = "none"
            /\ LET e == Head(pt.ei)
                   s == [S0(f) EXCEPT !.c = DecodeOne(@, e), !.p.ei = Tail(@)]
                   o == IF e.k = "motion" /\ cap.conf
                        THEN Emit(Out, [k |-> "motion", n |-> e.n, edge |-> e.edge]) ELSE Out
               IN  /\ Commit(s, l, o, net.cmds, net.sigs)
                   \* the history the gate is judged by: a movement of another crossing
                   /\ eng' = [eng EXCEPT !.bad = @ \/ (e.k = "motion" /\ cap.conf /\ e.n # cap.act)]
         \/ /\ reads /\ f = "stream"
            /\ LET s == Die(S0(f), "ended")
                   o == Emit(Out, Fact("lost"))
                   r == Publish(l, s.c, o)
               IN  Commit(s, r.l, r.o, net.cmds, net.sigs)
            /\ UNCHANGED eng

(***************************************************************************)
(* The compositor.                                                         *)
(***************************************************************************)
Sig(k, n, at) == [k |-> k, s |-> pt.sess, n |-> n, at |-> at]

Activate ==
  /\ pt.enabled /\ pt.act = 0 /\ pt.next <= MaxAct
  /\ \E edge \in {"live", "dead"}, at \in BOOLEAN :
       /\ pt' = [pt EXCEPT !.act = pt.next, !.emul = pt.next, !.next = @ + 1, !.edge = edge,
                           !.ei = @ \o <<[k |-> "start", n |-> pt.next],
                                         [k |-> "motion", n |-> pt.next, edge |-> edge]>>]
       /\ net' = [net EXCEPT !.sigs = Append(@, Sig("activated", pt.next, at))]
  /\ UNCHANGED <<cap, lp, eng>>

\* The compositor takes the pointer back, suspends, moves the screens, or closes.
Compositor ==
  /\ pt.sess # 0 /\ pt.moves < MaxMoves
  /\ LET p == [pt EXCEPT !.moves = @ + 1] IN
     \/ /\ pt.act # 0
        /\ pt' = Ended(p)
        /\ net' = [net EXCEPT !.sigs = Append(@, Sig("deactivated", pt.act, TRUE))]
     \/ /\ pt.enabled
        /\ pt' = [Ended(p) EXCEPT !.enabled = FALSE]
        /\ net' = [net EXCEPT !.sigs = Append(@, Sig("disabled", 0, TRUE))]
     \/ /\ pt' = [p EXCEPT !.serial = @ + 1]
        /\ net' = [net EXCEPT !.sigs = Append(@, Sig("zones", pt.serial + 1, TRUE))]
     \/ /\ pt' = PortalClose(p)
        /\ net' = [net EXCEPT !.sigs = Append(@, Sig("closed", 0, TRUE))]
  /\ UNCHANGED <<cap, lp, eng>>

(***************************************************************************)
(* The engine: apply_capture, bring_home and on_backend.                   *)
(***************************************************************************)
\* apply_capture, on [e, cmds].
ApplyCapture(e, cmds) ==
  LET want == IF e.driving THEN "swallow" ELSE IF e.capture /\ e.warm THEN "watch" ELSE "off"
      wasOn == e.sent \in {"watch", "swallow"}
  IN  IF e.sent = want \/ ~(e.capture \/ (want = "off" /\ wasOn)) THEN [e |-> e, cmds |-> cmds]
      ELSE [e |-> [e EXCEPT !.sent = want], cmds |-> Append(cmds, want)]

EngineTo(a, evs) ==
  /\ eng.inj <= MaxInject
  /\ eng' = a.e
  /\ net' = [net EXCEPT !.cmds = a.cmds, !.evs = evs]
  /\ UNCHANGED <<cap, lp, pt>>

\* A peer becomes warm, or the last one is lost; a session ends and the pointer
\* comes home; a peer types here; the engine stops (force_capture_off, request_exit).
EngineMoves ==
  \/ /\ eng.gest < MaxGest /\ ~eng.driving
     /\ EngineTo(ApplyCapture([eng EXCEPT !.warm = ~@, !.gest = @ + 1], net.cmds), net.evs)
  \/ /\ eng.gest < MaxGest /\ eng.driving
     /\ EngineTo(ApplyCapture([eng EXCEPT !.driving = FALSE, !.gest = @ + 1],
                              Append(net.cmds, "warp")), net.evs)
  \/ /\ eng.inj = MaxInject
     /\ EngineTo([e |-> [eng EXCEPT !.inj = @ + 1], cmds |-> net.cmds \o <<"off", "exit">>], net.evs)
  \/ /\ eng.inj < MaxInject
     /\ EngineTo([e |-> [eng EXCEPT !.inj = @ + 1], cmds |-> Append(net.cmds, "inject")], net.evs)

\* on_backend: a crossing, a lost capture, new capabilities, new screens.
OnBackend ==
  /\ net.evs # <<>>
  /\ LET v == Head(net.evs)
         fresh == [eng EXCEPT !.capture = lp.caps.capture]
         home == [fresh EXCEPT !.driving = FALSE]
         cmds(e) == IF eng.driving /\ ~e.driving THEN Append(net.cmds, "warp") ELSE net.cmds
     IN  EngineTo(
           CASE v.k = "motion" /\ v.edge = "live" /\ ~eng.driving /\ eng.capture /\ eng.warm ->
                  ApplyCapture([eng EXCEPT !.driving = TRUE], net.cmds)
             [] v.k = "lost" -> ApplyCapture([home EXCEPT !.sent = "none"], cmds(home))
             [] v.k = "caps" -> LET e == IF lp.caps.capture THEN fresh ELSE home
                                IN  ApplyCapture(e, cmds(e))
             [] v.k = "mons" -> ApplyCapture(fresh, net.cmds)
             [] OTHER -> [e |-> eng, cmds |-> net.cmds],
           Tail(net.evs))

LoopStep == \E f \in Faults \cup {"none"} :
  /\ Fault(f)
  /\ SetCapture(f) \/ Inject(f) \/ Signal(f) \/ Poll(f)

Next == LoopStep \/ Warp \/ Exit \/ Turn \/ Activate \/ Compositor \/ EngineMoves \/ OnBackend

Spec == Init /\ [][Next]_vars

(***************************************************************************)
(* Properties.                                                             *)
(***************************************************************************)
\* A movement the loop reports belongs to the activation it believes in, though
\* signals and stream arrive on two sockets (Decoder: "nothing is reported until
\* the two agree").
MotionsBelong == ~eng.bad

\* The portal holds no capture session open that the back end has lost: whatever
\* fails in arm, a session is either the current one or closed.
SessionsHeld == pt.sess # 0 => cap.sess = pt.sess

\* Once the loop has been told Off, the compositor is not capturing, whatever
\* activation was in flight and whichever other call failed (set_capture: "nothing is
\* being captured when this returns").  One call is excused, a Disable that failed:
\* the loop takes the capture for suspended all the same, and the compositor may go
\* on capturing until the session is enabled again or closed.
OffMeansOff == lp.want = "off" => pt.act = 0 \/ pt.still

\* Everything said has been heard.
AtRest == /\ net.cmds = <<>> /\ net.sigs = <<>> /\ net.evs = <<>> /\ lp.held = <<>>
          /\ lp.pc = "cmds" /\ (cap.phase \in {"armed", "active"} => pt.ei = <<>>)

\* An activation on an edge that leads nowhere is given back by the engine
\* (struct Capture: "released by the engine through [Capture::stop]").
DeadEdgeReleased == AtRest /\ pt.act # 0 => pt.edge = "live"

\* A capture that is gone ends the session that used it (BackendEvent::CaptureLost:
\* "Every session using it ends").
LossEndsDriving == AtRest /\ cap.phase = "dead" => ~eng.driving

\* The dialog is raised by what a person does, never again by a refusal.
DialogsAsked == pt.dialogs <= eng.gest
=============================================================================
