----------------------------- MODULE CaptureLoop -----------------------------
(***************************************************************************)
(* The capture half of the X11, Windows and macOS back ends: the command   *)
(* queue the engine writes, the grab, hooks or event tap that a mode stands *)
(* for, the event channel back, and what each platform does when the       *)
(* system refuses or takes the mechanism away.  Key events on X11 arrive    *)
(* on two streams (raw while watching, core while grabbed) through one     *)
(* socket, after the requests that switched them.                          *)
(* Source: input/src/x11.rs, input/src/windows.rs, input/src/macos.rs,     *)
(* input/src/session.rs.                                                   *)
(***************************************************************************)
EXTENDS Naturals, Sequences, SequencesExt, FiniteSets

CONSTANTS Systems,   \* the platforms explored
          Capacity,  \* slots of the event channel
          MaxKeys,   \* key presses of the user
          MaxGest,   \* changes of who drives and who is reachable
          MaxFaults, \* refusals and removals by the system
          ByGesture     \* may a session start by a gesture, with no crossing seen

VARIABLES
  os,   \* the platform, chosen once
  be,   \* the back end's loop and what it shares with its hooks
  srv,  \* the system: keys down, the Caps Lock, the mechanism as it is
  eng,  \* the engine's half
  net   \* cmds, evs, and xq: the X server's events

vars == <<os, be, srv, eng, net>>

Keys == {"key", "caps"}

\* A fresh back end (create): nothing captured, capabilities from the grant.
create == [mode |-> "off", on |-> FALSE, confined |-> FALSE, lock |-> FALSE, ok |-> TRUE,
           grant |-> TRUE, broken |-> FALSE, flagged |-> FALSE, recouple |-> FALSE,
           held |-> <<>>, dropped |-> FALSE, gap |-> FALSE, gone |-> FALSE]

\* No command to the loop, no event to the engine, nothing from the X server.
NothingQueued == [cmds |-> <<>>, evs |-> <<>>, xq |-> <<>>]

Init ==
  /\ os \in Systems
  /\ be = create
  /\ srv = [down |-> {}, lock |-> FALSE, grab |-> FALSE, raw |-> FALSE, alive |-> TRUE,
            pinned |-> FALSE, listen |-> TRUE, faults |-> 0, presses |-> 0, crosses |-> 0, un |-> FALSE]
  /\ eng = [driving |-> FALSE, warm |-> FALSE, sent |-> "none", capture |-> TRUE,
            confined |-> FALSE, fwd |-> {}, gest |-> 0, gone |-> FALSE]
  /\ net = NothingQueued

(***************************************************************************)
(* Upcalls.  o = [b, evs].                                                 *)
(***************************************************************************)
Ev(k) == [k |-> k, key |-> "key", down |-> FALSE]
Facts == {"lost", "caps"}

\* Windows and macOS count everything that does not fit as dropped.
SharedEmit(o, e) ==
  IF Len(o.evs) < Capacity THEN [o EXCEPT !.evs = Append(@, e)] ELSE [o EXCEPT !.b.dropped = TRUE]

\* X11 keeps a fact that does not fit, one per kind (control_kind).
\* (mutant: X11 drops a fact as it drops a moment)
EmitAllMoments(o, e) == SharedEmit(o, e)
Emit(o, e) ==
  IF os = "x11" /\ e.k \in Facts /\ Len(o.evs) = Capacity
  THEN [o EXCEPT !.b.held = IF Contains(@, e.k) THEN @ ELSE Append(@, e.k)]
  ELSE SharedEmit(o, e)

\* What capabilities() answers: a hook refusal is remembered on Windows, a grant
\* or a broken tap on macOS.
CapsOf(b) ==
  CASE os = "x11" -> TRUE
    [] os = "windows" -> b.ok
    [] os = "mac" -> b.grant /\ ~b.broken

(***************************************************************************)
(* set_capture, per platform, on r = [b, s, evs]; f: the system refuses.   *)
(***************************************************************************)
\* ungrab: a request with no reply, so the server obeys it later.
Ungrab(r) == [r EXCEPT !.b.on = FALSE, !.s.un = @ \/ r.b.on]

\* read_state: the server's word on the Caps Lock, at the time of the reply.
ReadState(r) == [r EXCEPT !.b.lock = r.s.lock]

\* grab: both grabs, or neither and a CaptureLost.  The reply is awaited, so every
\* earlier request has been obeyed.
Grab(r, f) ==
  IF r.b.on THEN r
  ELSE IF f THEN LET o == Emit([b |-> [r.b EXCEPT !.mode = "watch", !.confined = FALSE],
                                evs |-> r.evs], Ev("lost"))
                 IN  [r EXCEPT !.b = o.b, !.evs = o.evs, !.s.grab = FALSE, !.s.un = FALSE]
  ELSE [r EXCEPT !.b.on = TRUE, !.s.grab = TRUE, !.s.un = FALSE]

SetCaptureX11(r, mode, f) ==
  IF mode = r.b.mode THEN r
  ELSE LET m == [r EXCEPT !.b.mode = mode] IN
       CASE mode = "off" -> [Ungrab(m) EXCEPT !.b.confined = FALSE, !.s.raw = FALSE]
         [] mode = "watch" -> ReadState([Ungrab(m) EXCEPT !.s.raw = TRUE])
         [] mode = "swallow" -> Grab([m EXCEPT !.s.raw = TRUE], f)

\* Both hooks, or none, the capability lowered and a CaptureLost.
SetCaptureWindows(r, mode, f) ==
  IF mode = "off" THEN [r EXCEPT !.b.mode = "off", !.b.on = FALSE]
  ELSE IF r.b.on THEN [r EXCEPT !.b.mode = mode]
  ELSE LET b == IF f THEN [r.b EXCEPT !.mode = "off", !.ok = FALSE]
                     ELSE [r.b EXCEPT !.mode = mode, !.on = TRUE, !.ok = TRUE]
           o1 == IF b.ok # r.b.ok THEN Emit([b |-> b, evs |-> r.evs], Ev("caps"))
                 ELSE [b |-> b, evs |-> r.evs]
           o2 == IF f THEN Emit(o1, Ev("lost")) ELSE o1
       IN  [r EXCEPT !.b = o2.b, !.evs = o2.evs]

\* tap_failed: off, a retry owed by periodic, and a CaptureLost.
TapFailed(r) ==
  LET o == Emit([b |-> [r.b EXCEPT !.mode = "off", !.broken = TRUE, !.on = FALSE],
                 evs |-> r.evs], Ev("lost"))
  IN  [r EXCEPT !.b = o.b, !.evs = o.evs]

CreateTap(r, f) ==
  IF f THEN TapFailed(r)
  ELSE [r EXCEPT !.b.on = TRUE, !.b.broken = FALSE, !.b.flagged = FALSE, !.s.alive = TRUE]

SetCaptureMac(r, mode, f) ==
  IF mode = r.b.mode THEN r
  ELSE IF mode = "off" THEN [r EXCEPT !.b.mode = "off", !.b.on = FALSE, !.b.flagged = FALSE]
  ELSE IF r.b.on THEN [r EXCEPT !.b.mode = mode]
  ELSE IF ~r.s.listen
       THEN LET o == Emit([b |-> [r.b EXCEPT !.mode = "off"], evs |-> r.evs], Ev("lost"))
            IN  [r EXCEPT !.b = o.b, !.evs = o.evs]
  ELSE CreateTap([r EXCEPT !.b.mode = mode], f)

SetCapture(r, mode, f) ==
  CASE os = "x11" -> SetCaptureX11(r, mode, f)
    [] os = "windows" -> SetCaptureWindows(r, mode, f)
    [] os = "mac" -> SetCaptureMac(r, mode, f)

R0(f) == [b |-> be, s |-> IF f THEN [srv EXCEPT !.faults = @ + 1] ELSE srv, evs |-> net.evs]

(***************************************************************************)
(* The loop.                                                               *)
(***************************************************************************)
\* process_cmds: on X11 every command is queued; the other two pin the pointer on
\* the engine's thread (Confine below).
ProcessCmd == \E f \in BOOLEAN :
  /\ net.cmds # <<>> /\ ~be.gone
  /\ f => srv.faults < MaxFaults
  /\ LET c == Head(net.cmds)
         r == IF c \in {"off", "watch", "swallow"} THEN SetCapture(R0(f), c, f)
              ELSE [R0(FALSE) EXCEPT !.b.confined = c = "pin", !.s.pinned = c = "pin"]
         \* history: a capture ended with its upcalls unread, or after the next session began
         gap == r.b.mode = "off" /\ be.mode # "off" /\ (net.evs # <<>> \/ net.xq # <<>> \/ eng.driving)
     IN  /\ be' = [r.b EXCEPT !.gap = @ \/ gap]
         /\ srv' = [r.s EXCEPT !.pinned = IF os = "x11" THEN r.b.confined ELSE @]
         /\ net' = [net EXCEPT !.cmds = Tail(@), !.evs = r.evs]
  /\ UNCHANGED <<os, eng>>

\* run, periodic: the engine's end is gone (request_exit, or the channel closed under
\* the loop): release_everything, and the loop is left.
\* (mutant: the pointer is left as it was)
ReleaseClipped(b) == [on |-> FALSE, pinned |-> b.confined]
ReleaseEverything(b) == [on |-> FALSE, pinned |-> FALSE]
Leave ==
  /\ eng.gone /\ ~be.gone
  /\ be' = [create EXCEPT !.gone = TRUE]
  /\ srv' = [srv EXCEPT !.raw = FALSE, !.un = FALSE, !.grab = ReleaseEverything(be).on,
                        !.pinned = ReleaseEverything(be).pinned]
  /\ net' = [cmds |-> <<>>, evs |-> <<>>, xq |-> <<>>]
  /\ UNCHANGED <<os, eng>>

\* retry_deferred.
RetryDeferred ==
  /\ be.held # <<>> /\ Len(net.evs) < Capacity /\ ~eng.gone
  /\ be' = [be EXCEPT !.held = Tail(@)]
  /\ net' = [net EXCEPT !.evs = Append(@, Ev(Head(be.held)))]
  /\ UNCHANGED <<os, srv, eng>>

\* on_key: the lock is tracked, and its release says nothing.
OnKey(b, e) ==
  LET b1 == IF e.key = "caps" /\ e.down THEN [b EXCEPT !.lock = ~@] ELSE b
  IN  IF e.key # "caps" \/ e.down
      THEN Emit([b |-> b1, evs |-> net.evs], [k |-> "key", key |-> e.key, down |-> e.down])
      ELSE [b |-> b1, evs |-> net.evs]

\* on_motion: what the engine's graph takes for a crossing.
OnMotion(b) == Emit([b |-> b, evs |-> net.evs], [k |-> "cross", key |-> "edge", down |-> TRUE])
OnInput(b, e) == IF e.key = "edge" THEN OnMotion(b) ELSE OnKey(b, e)

\* drain_x, on_event: a raw press is not taken while grabbed; a release of either
\* stream and a core press always are.
\* (mutant: a raw release is gated as a raw press is)
TakesGated(e) == e.core \/ ~be.on
Takes(e) == e.core \/ ~e.down \/ ~be.on

DrainX ==
  /\ os = "x11" /\ net.xq # <<>> /\ ~be.gone
  /\ LET e == Head(net.xq)
         o == IF Takes(e) THEN OnInput(be, e) ELSE [b |-> be, evs |-> net.evs]
     IN  /\ be' = o.b
         /\ net' = [net EXCEPT !.xq = Tail(@), !.evs = o.evs]
  /\ UNCHANGED <<os, srv, eng>>

\* periodic, macOS: the grants are polled, a disabled tap is enabled or rebuilt, a
\* broken one is retried through the engine, the pointer is coupled again.
PeriodicMac == \E f \in BOOLEAN :
  /\ os = "mac" /\ ~be.gone
  /\ f => srv.faults < MaxFaults
  /\ \/ /\ be.grant # srv.listen /\ ~f
        /\ LET o == Emit([b |-> [be EXCEPT !.grant = srv.listen], evs |-> net.evs], Ev("caps"))
           IN  be' = o.b /\ net' = [net EXCEPT !.evs = o.evs] /\ UNCHANGED srv
     \/ /\ be.broken /\ ~f
        /\ LET o == Emit([b |-> [be EXCEPT !.broken = FALSE], evs |-> net.evs], Ev("caps"))
           IN  be' = o.b /\ net' = [net EXCEPT !.evs = o.evs] /\ UNCHANGED srv
     \/ /\ be.mode # "off" /\ (be.flagged \/ (be.on /\ ~srv.alive))
        /\ LET r0 == [R0(f) EXCEPT !.b.flagged = FALSE]
               r == IF f THEN CreateTap(r0, f) ELSE [r0 EXCEPT !.s.alive = TRUE]
               o == Emit([b |-> r.b, evs |-> r.evs], Ev("caps"))
           IN  be' = o.b /\ srv' = r.s /\ net' = [net EXCEPT !.evs = o.evs]
     \/ /\ be.recouple /\ ~be.confined /\ ~f
        /\ be' = [be EXCEPT !.recouple = FALSE]
        /\ srv' = [srv EXCEPT !.pinned = FALSE]
        /\ UNCHANGED net
  /\ UNCHANGED <<os, eng>>

(***************************************************************************)
(* The system.                                                             *)
(***************************************************************************)
\* The X server obeys the ungrab that was only sent.
Ungrabbed ==
  /\ srv.un
  /\ srv' = [srv EXCEPT !.un = FALSE, !.grab = FALSE]
  /\ UNCHANGED <<os, be, eng, net>>

\* The Windows hooks and the macOS tap run at once, in the mode they read.
KeyboardHook(e) ==
  IF be.on /\ be.mode # "off" THEN OnKey(be, e) ELSE [b |-> be, evs |-> net.evs]
MouseHook ==
  IF be.on /\ be.mode # "off" THEN OnMotion(be) ELSE [b |-> be, evs |-> net.evs]
TapBody(e) ==
  IF be.on /\ srv.alive /\ be.mode # "off" THEN OnInput(be, e) ELSE [b |-> be, evs |-> net.evs]

\* A key moves, or the pointer over an edge (which only a watching back end takes for
\* a crossing): on X11 one event on the stream the server is serving, elsewhere a hook.
Moves == \E key \in Keys \cup {"edge"} :
  LET down == key \notin srv.down
      s == IF key = "edge" THEN [srv EXCEPT !.crosses = @ + 1]
           ELSE [srv EXCEPT !.down = IF down THEN @ \cup {key} ELSE @ \ {key},
                            !.lock = IF key = "caps" /\ down THEN ~@ ELSE @,
                            !.presses = IF down THEN @ + 1 ELSE @]
      e == [key |-> key, down |-> down, core |-> srv.grab]
      o == IF os = "mac" THEN TapBody(e) ELSE IF key = "edge" THEN MouseHook ELSE KeyboardHook(e)
  IN  /\ key # "edge" /\ down => srv.presses < MaxKeys
      /\ key = "edge" => srv.crosses < MaxGest /\ be.mode = "watch" /\ ~srv.grab
      /\ srv' = s
      /\ IF os = "x11"
         THEN /\ net' = IF srv.grab \/ srv.raw THEN [net EXCEPT !.xq = Append(@, e)] ELSE net
              /\ UNCHANGED be
         ELSE be' = o.b /\ net' = [net EXCEPT !.evs = o.evs]
      /\ UNCHANGED <<os, eng>>

\* macOS disables a slow tap (tap_body says so), or moves the grant.
TapDisabled ==
  /\ os = "mac" /\ srv.faults < MaxFaults
  /\ \/ /\ be.on /\ srv.alive
        /\ LET o == Emit([b |-> [be EXCEPT !.flagged = TRUE], evs |-> net.evs], Ev("lost"))
           IN  be' = o.b /\ net' = [net EXCEPT !.evs = o.evs]
        /\ srv' = [srv EXCEPT !.alive = FALSE, !.faults = @ + 1]
     \/ /\ srv' = [srv EXCEPT !.listen = ~@, !.faults = @ + 1]
        /\ UNCHANGED <<be, net>>
  /\ UNCHANGED <<os, eng>>

(***************************************************************************)
(* The engine's half: apply_capture, confine, on_accepted, bring_home.     *)
(* a = [e, b, s, cmds].                                                    *)
(***************************************************************************)
ApplyCapture(a) ==
  LET e == a.e
      want == IF e.driving THEN "swallow" ELSE IF e.capture /\ e.warm THEN "watch" ELSE "off"
      wasOn == e.sent \in {"watch", "swallow"}
  IN  IF e.sent = want \/ ~(e.capture \/ (want = "off" /\ wasOn)) THEN a
      ELSE [a EXCEPT !.e.sent = want, !.cmds = Append(@, want)]

\* The back end's confine: queued on X11; the clip is set at once on Windows; macOS
\* may fail to couple the pointer again, and the loop then retries.
ConfineX11(a, pin) == [a EXCEPT !.cmds = Append(@, IF pin THEN "pin" ELSE "free")]
ConfineWindows(a, pin) == [a EXCEPT !.b.confined = pin, !.s.pinned = pin]
ConfineMac(a, pin, f) ==
  IF f /\ ~pin THEN [a EXCEPT !.b.confined = FALSE, !.b.recouple = TRUE, !.s.faults = @ + 1]
  ELSE [a EXCEPT !.b.confined = pin, !.s.pinned = pin]

Confine(a, pin, f) ==
  IF ~(a.e.capture \/ (~pin /\ a.e.confined)) THEN a
  ELSE LET e == [a EXCEPT !.e.confined = pin] IN
       CASE os = "x11" -> ConfineX11(e, pin)
         [] os = "windows" -> ConfineWindows(e, pin)
         [] os = "mac" -> ConfineMac(e, pin, f)

\* on_accepted: the pointer is pinned, then the capture becomes a swallow.
OnAccepted(a) == ApplyCapture(Confine([a EXCEPT !.e.driving = TRUE, !.e.fwd = {}], TRUE, FALSE))

\* bring_home.
\* (mutant: the pointer is left pinned)
BringHomePinned(a, f) ==
  IF ~a.e.driving THEN a ELSE ApplyCapture([a EXCEPT !.e.driving = FALSE, !.e.fwd = {}])
BringHome(a, f) ==
  IF ~a.e.driving THEN a
  ELSE ApplyCapture(Confine([a EXCEPT !.e.driving = FALSE, !.e.fwd = {}], FALSE, f))

A0 == [e |-> eng, b |-> be, s |-> srv, cmds |-> net.cmds]
Engine(a, evs) ==
  /\ eng' = a.e /\ be' = a.b /\ srv' = a.s
  /\ net' = [net EXCEPT !.cmds = a.cmds, !.evs = evs]
  /\ UNCHANGED os

\* A coupling that fails is a fault of macOS alone.
MayFail(f) == f => os = "mac" /\ srv.faults < MaxFaults

\* The mechanism a watching engine relies on is in place.
InPlace == be.mode = "watch" /\ (os # "x11" => be.on) /\ (os = "mac" => srv.alive)

EngineMoves == \E f \in BOOLEAN :
  /\ eng.gest < MaxGest /\ MayFail(f)
  /\ LET a == [A0 EXCEPT !.e.gest = @ + 1] IN
     \/ ~f /\ ~eng.driving /\ Engine(ApplyCapture([a EXCEPT !.e.warm = ~@]), net.evs)
     \/ ~f /\ ~eng.driving /\ eng.sent = "watch" /\ ByGesture /\ Engine(OnAccepted(a), net.evs)
     \/ eng.driving /\ Engine(BringHome(a, f), net.evs)
     \* the component ends, in order or with a panic mid-session
     \/ ~f /\ Engine([a EXCEPT !.e.gone = TRUE, !.e.driving = FALSE, !.e.fwd = {}, !.e.gest = MaxGest], <<>>)

\* on_backend.
OnBackend == \E f \in BOOLEAN :
  /\ net.evs # <<>> /\ MayFail(f) /\ ~eng.gone
  /\ LET v == Head(net.evs)
         fresh == [A0 EXCEPT !.e.capture = CapsOf(be)]
         home == BringHome(fresh, f)
     IN  Engine(
           CASE v.k = "lost" -> ApplyCapture([home EXCEPT !.e.sent = "none"])
             [] v.k = "caps" -> ApplyCapture(IF CapsOf(be) THEN fresh ELSE home)
             [] v.k = "cross" -> IF eng.driving \/ ~eng.warm \/ ~eng.capture THEN A0 ELSE OnAccepted(A0)
             [] v.k = "key" -> IF ~eng.driving \/ v.key = "caps" THEN A0
                               ELSE [A0 EXCEPT !.e.fwd = IF v.down THEN @ \cup {v.key} ELSE @ \ {v.key}],
           Tail(net.evs))
  /\ f => eng.driving

Next == \/ Leave \/ ProcessCmd \/ RetryDeferred \/ DrainX \/ PeriodicMac
        \/ Ungrabbed \/ Moves \/ TapDisabled \/ EngineMoves \/ OnBackend

\* The loops turn, the X server answers and the engine reads its channel; the user
\* and the system owe nothing.
Fairness ==
  /\ WF_vars(Leave) /\ WF_vars(ProcessCmd) /\ WF_vars(RetryDeferred) /\ WF_vars(DrainX)
  /\ WF_vars(PeriodicMac) /\ WF_vars(Ungrabbed) /\ WF_vars(OnBackend)

Spec == Init /\ [][Next]_vars /\ Fairness

(***************************************************************************)
(* Properties.                                                             *)
(***************************************************************************)
AtRest == (eng.gone => be.gone) /\ net.cmds = <<>> /\ net.evs = <<>> /\ net.xq = <<>> /\ be.held = <<>> /\ ~srv.un

\* Once everything said has been heard, X11 swallows and pins exactly while a
\* session drives, even when the channel was full as the grab was refused (emit:
\* a fact is kept), and no platform swallows or pins without a session (apply_capture).
ModesAgree ==
  AtRest => /\ os = "x11" => (be.on <=> eng.driving) /\ (srv.grab <=> eng.driving)
            /\ be.on /\ be.mode = "swallow" => eng.driving
            /\ srv.pinned => eng.driving \/ be.recouple

\* No key stays down on the far machine that its owner has let go of: the release
\* of a stroke in flight when a grab comes or goes is taken (on_event), as long as
\* the channel never overflowed and no capture ended behind the upcalls it made (gap).
NoStrandedKey == AtRest /\ ~be.dropped /\ ~be.gap => eng.fwd \subseteq srv.down

\* A capture the system refused or took away comes back while somebody could be
\* driven: the macOS loop polls the grant, the tap and the coupling (periodic).
Wanted == eng.warm /\ ~eng.driving /\ ~eng.gone /\ (os = "mac" => srv.listen)
CaptureReturns == <>(be.dropped) \/ (os = "windows") \/ []<>(~Wanted \/ InPlace)

\* The Windows hooks come back after a refusal (set_capture: "the latch is not one
\* way").
HooksReturn == []<>(~Wanted \/ InPlace)

\* In Watch, with nothing in flight, the loop's Caps Lock is the server's
\* (set_capture: "the server's own state IS the truth").
LocksTracked == AtRest /\ os = "x11" /\ be.mode = "watch" => be.lock = srv.lock
=============================================================================
