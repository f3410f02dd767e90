---------------------------- MODULE InputSession ----------------------------
(***************************************************************************)
(* Input sessions between machines: who drives whom, over which channel, and *)
(* what the engine has asked its own desktop for meanwhile (the two session  *)
(* halves of input/src/session.rs and the loop of input/src/orchestrator.rs).*)
(*                                                                         *)
(* An engine is one thread.  Its state is a record, a handler is a function  *)
(* from the record to the record, and the frames a turn sends collect in     *)
(* `tx` and reach their pipes when the turn ends with Engine::pump.  A       *)
(* channel is a pipe with a task at each end.  The tasks and the Core name   *)
(* the peer to the engine, never the pipe, so an old pipe can still speak    *)
(* after its successor is attached.                                         *)
(*                                                                         *)
(* Left out: the pointer and the plane (a `start` may be refused for a stale *)
(* plane), the keys held on a target (module InputKeys), and pings, of which *)
(* the watchdogs keep what matters: they fire for a machine that hangs, or   *)
(* for a path that is silent for as long as they wait.                       *)
(***************************************************************************)
EXTENDS Integers, SequencesExt

CONSTANTS
    Nodes,      \* the machines
    Drives,     \* pairs <<n, m>>: at first, n's settings let it drive m
    Grants,     \* pairs <<n, m>>: at first, m allows n to drive it
    Pipes,      \* the channels of a run
    Warm,       \* [Pipes -> <<dialler, acceptor>> of those warm at first, or <<>>]
    Dialling,   \* pairs <<n, m>>: at first, n's Core still dials m
    MaxKeys,    \* bound on the keystrokes on their way on one pipe
    Kinds,      \* the kinds of event a run has
    MaxEvents   \* bound on what users, desktops, networks and crashes do

ASSUME SessionAssumption ==
    /\ IsFiniteSet(Nodes)
    /\ Drives \subseteq Nodes \X Nodes /\ Grants \subseteq Nodes \X Nodes
    /\ Warm \in [Pipes -> {<<>>} \union (Nodes \X Nodes)] /\ 0 \notin Pipes
    /\ Dialling \subseteq Nodes \X Nodes
    /\ MaxKeys \in Nat /\ MaxEvents \in Nat

VARIABLES
    eng,        \* [Nodes -> the engine's record]
    pair,       \* [Pipes -> <<dialler, acceptor>>, or <<>> before it is made]
    open,       \* the pipes that carry bytes
    task,       \* [Pipes -> [Nodes -> none, offered, wait, run or done]]
    dials,      \* <<n, m>>: n's Core is asked for a channel to m
    notices,    \* <<n, p, reason>>: n's Core has yet to say why p is closed
    wire,       \* [Pipes -> [Nodes -> the frames on their way to a machine]]
    revoked,    \* <<n, m>>: m is no longer a device of n's account
    hung,       \* the machines whose engine has stopped taking turns
    events      \* what a run has left of MaxEvents

channels == <<pair, open, task, dials, notices>>
vars == <<eng, pair, open, task, dials, notices, wire, revoked, hung, events>>

\* Options are sequences of at most one element.
None == <<>>
Some(x) == <<x>>

-----------------------------------------------------------------------------
(* The engine's record and its handlers.                                    *)

\* struct Peer: no channel, nothing known.
ColdPeer == [link |-> "cold", out |-> 0, hi |-> FALSE, next |-> 1, take |-> FALSE,
             backoff |-> FALSE]

\* A peer whose channel goes: the next attach starts its numbers again.
Cooled(peer) == [peer EXCEPT !.link = "cold", !.out = 0, !.hi = FALSE, !.next = 1]

\* Engine::open: only the settings outlive the process.  `known` is the directory,
\* `typed` a ghost: the machines that typed here without a grant.
FreshEngine(old) ==
    [driving |-> None, driven |-> None, peers |-> [m \in Nodes |-> ColdPeer],
     sent |-> "unset", confined |-> FALSE, able |-> old.able, typable |-> old.typable,
     allowed |-> old.allowed, drives |-> old.drives, locked |-> old.locked,
     known |-> old.known, openDue |-> TRUE, opening |-> {}, asks |-> {}, tx |-> <<>>,
     typed |-> old.typed]

DrivesNow(s, m) == s.driving # None /\ s.driving[1].node = m
DrivenBy(s, m) == s.driven # None /\ s.driven[1].node = m

\* Every frame names a session, and is matched by node and number.
IsDriving(s, m, k) == DrivesNow(s, m) /\ s.driving[1].session = k
IsDriven(s, m, k) == DrivenBy(s, m) /\ s.driven[1].session = k

Frame(tag, k) == [tag |-> tag, session |-> k]

\* write_frame: into the outbox of the live channel; no channel, no frame.
Send(s, m, frame) ==
    IF s.peers[m].out = 0 THEN s
    ELSE [s EXCEPT !.tx = Append(@, [pipe |-> s.peers[m].out, to |-> m, frame |-> frame])]

\* apply_capture.  Swallow while driving, Watch while a session could start, else
\* Off; and stopping what was started never asks for the capability.
WantCapture(s) ==
    IF s.driving # None THEN "swallow"
    ELSE IF s.driven = None /\ s.able /\ \E m \in s.drives : s.peers[m].link = "warm"
         THEN "watch" ELSE "off"

\* (mutant: stopping a capture asks for the capability, as starting one does)
ApplyCaptureGated(s) == IF s.able THEN [s EXCEPT !.sent = WantCapture(s)] ELSE s

ApplyCapture(s) ==
    IF s.able \/ (WantCapture(s) = "off" /\ s.sent \in {"watch", "swallow"})
    THEN [s EXCEPT !.sent = WantCapture(s)] ELSE s

Confine(s, pin) ==
    IF s.able \/ (~pin /\ s.confined) THEN [s EXCEPT !.confined = pin] ELSE s

\* bring_home_quietly: the far side has ended it already.
BringHomeQuietly(s) ==
    IF s.driving = None THEN s
    ELSE ApplyCapture(Confine([s EXCEPT !.driving = None], FALSE))

\* bring_home: a target that has accepted is told, if there is a channel (the `rel`
\* before the `stop` is about held keys).
BringHome(s) ==
    IF s.driving = None \/ ~s.driving[1].accepted THEN BringHomeQuietly(s)
    ELSE LET d == s.driving[1]
         IN  BringHomeQuietly(Send(s, d.node, Frame("stop", d.session)))

\* end_driven; `tell` is whether the source gets an `end`.
EndDriven(s, tell) ==
    IF s.driven = None THEN s
    ELSE LET d == s.driven[1]
             gone == [s EXCEPT !.driven = None]
         IN  ApplyCapture(IF tell THEN Send(gone, d.node, Frame("end", d.session)) ELSE gone)

\* (mutant: only the target's half goes with its channel, the source drives on)
TearDownHalf(s, m) ==
    LET cut == [s EXCEPT !.peers[m] = [Cooled(@) EXCEPT !.take = FALSE]]
    IN  ApplyCapture(IF DrivenBy(cut, m) THEN EndDriven(cut, FALSE) ELSE cut)

\* tear_down: the outbox goes first, then both halves.
TearDown(s, m) ==
    LET cut == [s EXCEPT !.peers[m] = [Cooled(@) EXCEPT !.take = FALSE]]
        home == IF DrivesNow(cut, m) THEN BringHome(cut) ELSE cut
    IN  ApplyCapture(IF DrivenBy(home, m) THEN EndDriven(home, FALSE) ELSE home)

\* end_everything, and every other loop over the peers.
TearDownAll(s, gone) ==
    LET each == SetToSeq(gone)
        torn[i \in 0 .. Len(each)] == IF i = 0 THEN s ELSE TearDown(torn[i - 1], each[i])
    IN  torn[Len(each)]

\* start_session: nothing unless this machine and the channel are free for it.
CanStart(s, m) ==
    /\ s.driving = None /\ s.driven = None /\ s.able /\ m \in s.drives
    /\ s.peers[m].link = "warm" /\ s.peers[m].out # 0

\* (mutant: the number is taken after the counter moved back)
StartSessionOff(s, m) ==
    IF ~CanStart(s, m) THEN s
    ELSE LET k == s.peers[m].next - 1
         IN  [Send(s, m, Frame("start", k)) EXCEPT
                !.peers[m].next = k + 2,
                !.driving = Some([node |-> m, session |-> k, accepted |-> FALSE])]

StartSession(s, m) ==
    IF ~CanStart(s, m) THEN s
    ELSE LET k == s.peers[m].next
         IN  [Send(s, m, Frame("start", k)) EXCEPT
                !.peers[m].next = k + 1,
                !.driving = Some([node |-> m, session |-> k, accepted |-> FALSE])]

-----------------------------------------------------------------------------
(* The end of a turn: Engine::pump.  The watchdogs are actions of their own. *)

WantsWarm(s, m) == s.able /\ m \in s.known /\ m \in s.drives

\* sync_channels: a trigger dials every wanted machine that is cold, one in backoff
\* only if that has run out; what we dialled and want no more is dropped.
SyncChannels(s) ==
    LET cold == {m \in Nodes : s.openDue /\ WantsWarm(s, m) /\ s.peers[m].link = "cold"}
        ready == {m \in cold : ~s.peers[m].backoff \/ s.peers[m].out # 0}
        drop == {m \in Nodes : /\ m \in s.known /\ ~WantsWarm(s, m)
                               /\ s.peers[m].out # 0 /\ pair[s.peers[m].out][2] = m
                               /\ ~DrivesNow(s, m) /\ ~DrivenBy(s, m)}
        after(dialled) ==
            [s EXCEPT !.openDue = FALSE, !.asks = dialled,
                      !.peers = [m \in Nodes |->
                          IF m \in dialled THEN [s.peers[m] EXCEPT !.link = "warming",
                                                                   !.backoff = FALSE]
                          ELSE IF m \in drop THEN Cooled(s.peers[m])
                          ELSE s.peers[m]]]
    IN  {after(ready \union late) : late \in SUBSET (cold \ ready)}

\* parked_takes: the takes whose channel is warm are used up; one of them starts,
\* or none when they waited too long.
ParkedTakes(s) ==
    LET ready == {m \in Nodes : /\ s.peers[m].take
                                /\ s.peers[m].link = "warm" /\ s.peers[m].out # 0}
        used == [s EXCEPT !.peers = [m \in Nodes |->
                     [s.peers[m] EXCEPT !.take = @ /\ m \notin ready]]]
    IN  IF s.driving # None \/ s.driven # None \/ ready = {} THEN {s}
        ELSE {used} \union {StartSession(used, m) : m \in ready}

\* run_effects / open_channel: no second dial while one is under way.
RunEffects(s) == [s EXCEPT !.opening = @ \union s.asks, !.asks = {}, !.tx = <<>>]

\* The frames of a turn reach the pipes that still carry bytes.
Posted(tx, w) ==
    [p \in Pipes |-> [m \in Nodes |->
        LET mail == SelectSeq(tx, LAMBDA t : p \in open /\ t.pipe = p /\ t.to = m)
        IN  w[p][m] \o [i \in DOMAIN mail |-> mail[i].frame]]]

\* A turn of n whose handler leaves s, with the wire w and the dials d it left.
TurnOn(n, s, w, d) ==
    \E warmed \in SyncChannels(s) : \E done \in ParkedTakes(warmed) :
        /\ eng' = [eng EXCEPT ![n] = RunEffects(done)]
        /\ dials' = d \union {<<n, m>> : m \in done.asks \ done.opening}
        /\ wire' = Posted(done.tx, w)

Turn(n, s) == TurnOn(n, s, wire, dials)

Awake(n) == n \notin hung
Spend(kind) == kind \in Kinds /\ events > 0 /\ events' = events - 1

-----------------------------------------------------------------------------
(* Channels: what the Core and the channel tasks do.                        *)

Ends(p) == {pair[p][i] : i \in DOMAIN pair[p]}
Other(p, n) == CHOOSE m \in Ends(p) : m # n
Between(n, m) == {p \in open : Ends(p) = {n, m}}

\* (Core) A dial is answered: one channel per pair, so the older one is replaced
\* where the dial was made, and merely over at the far end or replaced there too.
CoreOpens(n, m) ==
    \E p \in Pipes : \E far \in {"REPLACED", "CLOSED"} :
        LET old == Between(n, m)
        IN  /\ <<n, m>> \in dials /\ {<<n, m>>, <<m, n>>} \intersect revoked = {}
            /\ pair[p] = <<>>
            /\ dials' = dials \ {<<n, m>>}
            /\ pair' = [pair EXCEPT ![p] = <<n, m>>]
            /\ open' = (open \ old) \union {p}
            /\ task' = [task EXCEPT ![p] = [@ EXCEPT ![n] = "wait", ![m] = "offered"]]
            /\ notices' = notices \union {<<n, q, "REPLACED">> : q \in old}
                                  \union {<<m, q, far>> : q \in old}
            /\ UNCHANGED <<eng, wire, revoked, hung, events>>

\* on_peer_channel: the acceptor starts to attach to what a peer opened.
OnPeerChannel(n, p) ==
    LET m == Other(p, n)
    IN  /\ Awake(n) /\ task[p][n] = "offered" /\ m \in eng[n].known
        /\ task' = [task EXCEPT ![p][n] = "wait"]
        /\ Turn(n, [eng[n] EXCEPT !.opening = @ \union {m}])
        /\ UNCHANGED <<pair, open, notices, revoked, hung, events>>

\* Attached.  The outbox of an older task is dropped, the handshake goes out, the
\* numbers start again at 1, and no session is ended.  The dialler's Core answers
\* only once the acceptor has attached.
Attach(n, p) ==
    LET m == Other(p, n)
        s == [eng[n] EXCEPT
                !.opening = @ \ {m},
                !.peers[m] = [Cooled(@) EXCEPT !.out = p, !.link = "warming"]]
    IN  /\ Awake(n) /\ p \in open /\ task[p][n] = "wait"
        /\ n = pair[p][1] => task[p][m] \in {"run", "done"}
        /\ task' = [task EXCEPT ![p][n] = "run"]
        /\ Turn(n, Send(s, m, Frame("hi", 0)))
        /\ UNCHANGED <<pair, open, notices, revoked, hung, events>>

\* OpenFailed: the Core refused the dial, or the pipe was gone before the attach.
\* Whatever channel there was loses its outbox; no session is ended.
OnOpenFailed(s, m) ==
    [s EXCEPT !.opening = @ \ {m},
              !.peers[m] = [Cooled(@) EXCEPT !.backoff = TRUE]]

DialFails(n, m) ==
    /\ Awake(n) /\ <<n, m>> \in dials /\ Spend("dial")
    /\ TurnOn(n, OnOpenFailed(eng[n], m), wire, dials \ {<<n, m>>})
    /\ UNCHANGED <<pair, open, task, notices, revoked, hung>>

AttachFails(n, p) ==
    /\ Awake(n) /\ p \notin open /\ task[p][n] = "wait"
    /\ task' = [task EXCEPT ![p][n] = "done"]
    /\ Turn(n, OnOpenFailed(eng[n], Other(p, n)))
    /\ UNCHANGED <<pair, open, notices, revoked, hung, events>>

\* Ended: a task stops because its pipe is closed or its outbox was dropped, and
\* says so of the PEER, whichever channel the engine holds by then.
TaskEnds(n, p) ==
    LET m == Other(p, n)
        s == [eng[n] EXCEPT !.opening = @ \ {m}]
    IN  /\ Awake(n) /\ task[p][n] = "run"
        /\ p \notin open \/ eng[n].peers[m].out # p
        /\ task' = [task EXCEPT ![p][n] = "done"]
        /\ open' = open \ {p}
        /\ notices' = IF p \in open THEN notices \union (Ends(p) \X {p} \X {"CLOSED"})
                      ELSE notices
        /\ TurnOn(n, TearDown(s, m), [wire EXCEPT ![p][n] = <<>>], dials)
        /\ UNCHANGED <<pair, revoked, hung, events>>

\* on_channel_closed, after the teardown that a channel only just attached is
\* spared: a revoked device loses its grant and its peer entry, a leave every
\* grant, and a channel replaced or idle is warmed again.
AfterClosed(s, m, reason) ==
    CASE reason = "REPLACED" -> [s EXCEPT !.openDue = TRUE]
      [] reason = "NO_DIRECT_PATH" -> [s EXCEPT !.peers[m].backoff = TRUE]
      [] reason = "DEVICE_REVOKED" ->
            [s EXCEPT !.allowed = @ \ {m}, !.drives = @ \ {m}, !.peers[m] = ColdPeer]
      [] reason = "ACCOUNT_LEFT" -> [TearDownAll(s, Nodes) EXCEPT !.allowed = {}, !.drives = {}]
      [] reason = "LOGGED_OUT" -> TearDownAll(s, Nodes)
      [] OTHER -> s

ChannelClosed(n, p, reason) ==
    LET m == Other(p, n)
        s == [eng[n] EXCEPT !.opening = @ \ {m}]
    IN  /\ Awake(n) /\ <<n, p, reason>> \in notices /\ m \in s.known
        /\ notices' = notices \ {<<n, p, reason>>}
        /\ \E fresh \in {FALSE} \union {s.peers[m].out # 0} :
            Turn(n, AfterClosed(IF fresh THEN s ELSE TearDown(s, m), m, reason))
        /\ UNCHANGED <<pair, open, task, revoked, hung, events>>

\* A notification about a device the directory no longer names is dropped.
NoticeDropped(n, p, reason) ==
    /\ Awake(n) /\ <<n, p, reason>> \in notices /\ Other(p, n) \notin eng[n].known
    /\ notices' = notices \ {<<n, p, reason>>}
    /\ Turn(n, eng[n])
    /\ UNCHANGED <<pair, open, task, revoked, hung, events>>

\* (Core) The network, a cap or the idle sweep ends a pipe.
Cut(p) ==
    \E reason \in {"CLOSED", "REPLACED", "NO_DIRECT_PATH"} :
        /\ p \in open /\ Spend("cut")
        /\ open' = open \ {p}
        /\ notices' = notices \union (Ends(p) \X {p} \X {reason})
        /\ UNCHANGED <<eng, pair, task, dials, wire, revoked, hung>>

\* (Core) n's Core ends its pipes: to a device it revokes, or all of them with the
\* session or the account.
CoreEnds(n, gone, reason) ==
    LET mine == {p \in open : \E m \in gone : Ends(p) = {n, m}}
    IN  /\ open' = open \ mine
        /\ notices' = notices \union ({n} \X mine \X {reason})
                              \union {<<Other(p, n), p, "CLOSED">> : p \in mine}
        /\ UNCHANGED <<eng, pair, task, dials, wire, hung>>

Revoke(n, m) ==
    /\ n # m /\ <<n, m>> \notin revoked /\ Spend("revoke")
    /\ revoked' = revoked \union {<<n, m>>}
    /\ CoreEnds(n, {m}, "DEVICE_REVOKED")

Leave(n, reason) ==
    /\ Spend("leave") /\ CoreEnds(n, Nodes, reason) /\ UNCHANGED revoked

\* set_directory: a device that left takes its channel and its sessions with it.
SetDirectory(n) ==
    LET now == {m \in Nodes \ {n} : <<n, m>> \notin revoked}
        gone == eng[n].known \ now
        s == TearDownAll(eng[n], gone)
    IN  /\ Awake(n) /\ eng[n].known # now
        /\ Turn(n, [s EXCEPT !.known = now, !.openDue = TRUE,
                             !.peers = [m \in Nodes |-> IF m \in gone THEN ColdPeer
                                                        ELSE s.peers[m]]])
        /\ UNCHANGED <<pair, open, task, notices, revoked, hung, events>>

\* The slow sweep, or a directory in which only somebody's reachability changed.
Sweep(n) ==
    /\ Awake(n) /\ Spend("sweep")
    /\ Turn(n, [eng[n] EXCEPT !.openDue = TRUE])
    /\ UNCHANGED <<pair, open, task, notices, revoked, hung>>

-----------------------------------------------------------------------------
(* Frames.                                                                  *)

\* busy_with: driving, or driven by somebody else.
Busy(s, m) == s.driving # None \/ (s.driven # None /\ ~DrivenBy(s, m))

\* on_start.  A session the same source left is ended first.
OnStart(s, m, k, stale) ==
    IF m \notin s.allowed \/ Busy(s, m) \/ stale \/ ~s.typable \/ s.locked
    THEN Send(s, m, Frame("no", k))
    ELSE ApplyCapture([Send(EndDriven(s, FALSE), m, Frame("ok", k)) EXCEPT
                          !.driven = Some([node |-> m, session |-> k])])

\* on_accepted: only now is the pointer pinned.
OnAccepted(s, m, k) ==
    IF ~IsDriving(s, m, k) \/ s.driving[1].accepted THEN s
    ELSE ApplyCapture(Confine([s EXCEPT !.driving[1].accepted = TRUE,
                                        !.peers[m].take = FALSE], TRUE))

\* on_refused, and an `end` of what we drive: home, and leave that machine alone.
OnRefused(s, m, k) ==
    IF IsDriving(s, m, k) THEN [BringHomeQuietly(s) EXCEPT !.peers[m].backoff = TRUE] ELSE s

\* on_hi.
OnHi(s, m) == ApplyCapture([s EXCEPT !.peers[m] = [@ EXCEPT !.hi = TRUE, !.link = "warm"]])

\* apply_flow: the keys of the session we are driven in are typed.
ApplyFlow(s, m, k) ==
    IF IsDriven(s, m, k) /\ m \notin s.allowed THEN [s EXCEPT !.typed = @ \union {m}] ELSE s

\* on_frame.
OnFrame(s, m, f, stale) ==
    CASE f.tag = "hi"    -> OnHi(s, m)
      [] f.tag = "start" -> OnStart(s, m, f.session, stale)
      [] f.tag = "ok"    -> OnAccepted(s, m, f.session)
      [] f.tag = "no"    -> OnRefused(s, m, f.session)
      [] f.tag = "key"   -> ApplyFlow(s, m, f.session)
      [] f.tag \in {"stop", "end"} /\ IsDriven(s, m, f.session) -> EndDriven(s, FALSE)
      [] f.tag = "end"   -> OnRefused(s, m, f.session)
      [] f.tag = "stop" /\ IsDriving(s, m, f.session) -> BringHomeQuietly(s)
      [] OTHER           -> s

\* on_frames: a batch that opens a channel must open with its handshake.
OnFrames(s, m, batch, stale) ==
    IF m \notin s.known THEN s
    ELSE IF ~s.peers[m].hi /\ Head(batch).tag # "hi" THEN TearDown(s, m)
    ELSE LET read[i \in 0 .. Len(batch)] ==
               IF i = 0 THEN s ELSE OnFrame(read[i - 1], m, batch[i], stale)
         IN  read[Len(batch)]

\* on_inbound: a task hands over a batch of its frames, and a closed pipe's last
\* ones too.  `stale` is whether the two planes differ meanwhile.
Deliver(n, p) ==
    \E k \in 1 .. Len(wire[p][n]) : \E stale \in BOOLEAN :
        LET batch == SubSeq(wire[p][n], 1, k)
        IN  /\ Awake(n) /\ task[p][n] = "run"
            /\ stale => \E i \in 1 .. k : batch[i].tag = "start"
            /\ TurnOn(n, OnFrames(eng[n], Other(p, n), batch, stale),
                      [wire EXCEPT ![p][n] = SubSeq(@, k + 1, Len(@))], dials)
            /\ UNCHANGED <<pair, open, task, notices, revoked, hung, events>>

-----------------------------------------------------------------------------
(* The machine's own user and its desktop: one turn each.                   *)

UserTurn(n, s) ==
    /\ Awake(n) /\ Turn(n, s)
    /\ UNCHANGED <<pair, open, task, notices, revoked, hung>>

\* input.take: a session if the channel is warm, and the wish parked if it is not.
Take(n, m) ==
    LET asked == [eng[n] EXCEPT !.openDue = TRUE,
                     !.peers[m] = [@ EXCEPT !.backoff = FALSE, !.take = TRUE]]
    IN  /\ m \in eng[n].known /\ eng[n].able /\ ~eng[n].locked
        /\ eng[n].driving = None /\ eng[n].driven = None
        /\ UserTurn(n, [StartSession(asked, m) EXCEPT !.peers[m].take = ~CanStart(asked, m)])
        /\ Spend("take")

\* The pointer rests against the edge towards m: press_edge, then crossing.
Cross(n, m) ==
    /\ m \in eng[n].known /\ eng[n].able /\ ~eng[n].locked
    /\ eng[n].driving = None /\ eng[n].driven = None
    /\ UserTurn(n, IF eng[n].peers[m].link = "warm" THEN StartSession(eng[n], m)
                   ELSE [eng[n] EXCEPT !.openDue = TRUE])
    /\ Spend("cross")

\* integrate: the pointer of a session walks on to a third machine's screen.
HandOver(n, m) ==
    /\ eng[n].driving # None /\ eng[n].driving[1].accepted /\ ~DrivesNow(eng[n], m)
    /\ m \in eng[n].drives /\ eng[n].peers[m].link = "warm" /\ eng[n].peers[m].out # 0
    /\ UserTurn(n, StartSession(BringHome(eng[n]), m))
    /\ Spend("hand")

\* on_key: a key of the user's goes to the target that accepted.
Type(n) ==
    /\ eng[n].driving # None /\ eng[n].driving[1].accepted
    /\ LET d == eng[n].driving[1]
           p == eng[n].peers[d.node].out
       IN  /\ p \in open
           /\ Len(SelectSeq(wire[p][d.node], LAMBDA f : f.tag = "key")) < MaxKeys
           /\ UserTurn(n, Send(eng[n], d.node, Frame("key", d.session)))
    /\ UNCHANGED events

\* input.release, the hotkey, and the pointer that walks back: the half there is ends.
Release(n) ==
    /\ eng[n].driving # None \/ eng[n].driven # None
    /\ UserTurn(n, IF eng[n].driving # None THEN BringHome(eng[n])
                   ELSE EndDriven(eng[n], TRUE))
    /\ Spend("release")

\* input.lock: both halves end, and a `start` or a take is refused from here on.
Lock(n, locked) ==
    LET s == [eng[n] EXCEPT !.locked = locked]
    IN  /\ locked # eng[n].locked /\ Spend("lock")
        /\ UserTurn(n, IF locked THEN EndDriven(BringHome(s), TRUE) ELSE s)

\* (mutant: the grant goes and the session it allowed stays)
AllowOnly(n, m, allowed) ==
    LET s == [eng[n] EXCEPT !.allowed = IF allowed THEN @ \union {m} ELSE @ \ {m}]
    IN  /\ m \in s.known /\ s # eng[n] /\ UserTurn(n, s) /\ Spend("allow")

\* input.allow: a grant withdrawn ends the session it allowed.
Allow(n, m, allowed) ==
    LET s == [eng[n] EXCEPT !.allowed = IF allowed THEN @ \union {m} ELSE @ \ {m}]
    IN  /\ m \in s.known /\ s # eng[n]
        /\ UserTurn(n, IF ~allowed /\ DrivenBy(s, m) THEN EndDriven(s, TRUE) ELSE s)
        /\ Spend("allow")

\* input.drive.
Drive(n, m, allowed) ==
    LET s == [eng[n] EXCEPT !.drives = IF allowed THEN @ \union {m} ELSE @ \ {m}]
    IN  /\ m \in s.known /\ s # eng[n]
        /\ UserTurn(n, IF ~allowed /\ DrivesNow(s, m) THEN BringHome(s) ELSE s)
        /\ Spend("drive")

\* CapabilitiesChanged: each half that has lost what it needs ends.
CapabilitiesChanged(n, able, typable) ==
    LET s == [eng[n] EXCEPT !.able = able, !.typable = typable]
        home == IF able THEN s ELSE BringHome(s)
    IN  /\ s # eng[n] /\ Spend("caps")
        /\ UserTurn(n, ApplyCapture(IF typable THEN home ELSE EndDriven(home, TRUE)))

\* MonitorsChanged, and input.place: the screens change, with them who is adjacent.
\* The capabilities are read again and no session ends for want of one.
MonitorsChanged(n, able, typable) ==
    LET s == [eng[n] EXCEPT !.able = able, !.typable = typable]
    IN  UserTurn(n, [ApplyCapture(s) EXCEPT !.openDue = TRUE]) /\ Spend("desk")

\* CaptureLost: what the engine believed it had is gone, the capability perhaps too.
CaptureLost(n, able, typable) ==
    LET s == [eng[n] EXCEPT !.able = able, !.typable = typable]
    IN  UserTurn(n, ApplyCapture([BringHome(s) EXCEPT !.sent = "unset"])) /\ Spend("desk")

-----------------------------------------------------------------------------
(* Watchdogs, hangs and crashes.                                            *)

\* The source's watchdog: no pong for SOURCE_STALL in a session that was accepted,
\* because the target hangs, the channel is new and the session is not, or the
\* path was silent for that long.
Stall(n) ==
    /\ eng[n].driving # None /\ eng[n].driving[1].accepted
    /\ UserTurn(n, BringHome(eng[n]))
    /\ \/ /\ \/ eng[n].driving[1].node \in hung
             \/ ~eng[n].peers[eng[n].driving[1].node].hi
          /\ UNCHANGED events
       \/ Spend("freeze")

\* The target's: no frame for SESSION_IDLE.
Idle(n) ==
    /\ eng[n].driven # None
    /\ UserTurn(n, EndDriven(eng[n], TRUE))
    /\ (eng[n].driven[1].node \in hung /\ UNCHANGED events) \/ Spend("freeze")

\* An engine stops taking turns; its process and its pipes live on.
Hang(n) ==
    /\ Awake(n) /\ Spend("hang")
    /\ hung' = hung \union {n}
    /\ UNCHANGED <<eng, pair, open, task, dials, notices, wire, revoked>>

\* shutdown.
Shutdown(s) == EndDriven(BringHome(s), TRUE)

\* The process ends, with its shutdown or by a crash, and is started again.
Restart(n, politely) ==
    LET mine == {p \in Pipes : n \in Ends(p)}
        last == IF politely THEN Shutdown(eng[n]) ELSE eng[n]
        posted == Posted(last.tx, wire)
    IN  /\ politely => Awake(n)
        /\ Spend("restart")
        /\ hung' = hung \ {n}
        /\ open' = open \ mine
        /\ task' = [p \in Pipes |-> IF p \in mine THEN [task[p] EXCEPT ![n] = "done"]
                                    ELSE task[p]]
        /\ notices' = {x \in notices : x[1] # n}
                        \union {<<Other(p, n), p, "CLOSED">> : p \in mine \intersect open}
        /\ dials' = {d \in dials : d[1] # n}
        /\ wire' = [p \in Pipes |-> IF p \in mine THEN [posted[p] EXCEPT ![n] = <<>>]
                                    ELSE posted[p]]
        /\ eng' = [eng EXCEPT ![n] = FreshEngine([@ EXCEPT !.known = {}])]
        /\ UNCHANGED <<pair, revoked>>

-----------------------------------------------------------------------------

\* The engines have just been started; or they have learned the directory and the
\* channels in Warm are up, as they are soon after, with a dial of the other side
\* perhaps still under way.
Started(n) ==
    LET s == FreshEngine([able |-> TRUE, typable |-> TRUE, locked |-> FALSE, typed |-> {},
                          known |-> {}, allowed |-> {m \in Nodes : <<m, n>> \in Grants},
                          drives |-> {m \in Nodes : <<n, m>> \in Drives}])
        up(m) == {p \in Pipes : Warm[p] \in {<<n, m>>, <<m, n>>}}
        peer(m) == IF up(m) = {} THEN ColdPeer
                   ELSE [ColdPeer EXCEPT !.out = CHOOSE p \in up(m) : TRUE, !.hi = TRUE,
                                         !.link = "warm"]
    IN  IF \A m \in Nodes : up(m) = {} THEN s
        ELSE ApplyCapture([s EXCEPT !.known = Nodes \ {n}, !.openDue = FALSE,
                                    !.opening = {m \in Nodes : <<n, m>> \in Dialling},
                                    !.peers = [m \in Nodes |-> peer(m)]])

Init ==
    /\ eng = [n \in Nodes |-> Started(n)]
    /\ pair = Warm
    /\ open = {p \in Pipes : Warm[p] # <<>>}
    /\ task = [p \in Pipes |-> [n \in Nodes |-> IF n \in Ends(p) THEN "run" ELSE "none"]]
    /\ dials = Dialling /\ notices = {} /\ revoked = {} /\ hung = {}
    /\ wire = [p \in Pipes |-> [n \in Nodes |-> <<>>]]
    /\ events = MaxEvents

Reasons == {"CLOSED", "REPLACED", "NO_DIRECT_PATH", "DEVICE_REVOKED", "ACCOUNT_LEFT",
            "LOGGED_OUT"}

\* One end of a pipe.
PipeStep(n, p) ==
    /\ n \in Ends(p)
    /\ \/ OnPeerChannel(n, p) \/ Attach(n, p) \/ AttachFails(n, p) \/ TaskEnds(n, p)
       \/ Deliver(n, p)
       \/ \E reason \in Reasons : ChannelClosed(n, p, reason) \/ NoticeDropped(n, p, reason)

\* One machine and another.
PairStep(n, m) ==
    \/ CoreOpens(n, m) \/ DialFails(n, m) \/ Revoke(n, m)
    \/ Take(n, m) \/ Cross(n, m) \/ HandOver(n, m)
    \/ \E yes \in BOOLEAN : Allow(n, m, yes) \/ Drive(n, m, yes)

\* One machine by itself.
NodeStep(n) ==
    \/ SetDirectory(n) \/ Sweep(n) \/ Type(n) \/ Release(n)
    \/ Stall(n) \/ Idle(n) \/ Hang(n)
    \/ \E yes \in BOOLEAN : \/ Lock(n, yes) \/ Restart(n, yes)
                            \/ \E able \in BOOLEAN : \/ CapabilitiesChanged(n, able, yes)
                                                     \/ MonitorsChanged(n, able, yes)
                                                     \/ CaptureLost(n, able, yes)
    \/ \E reason \in {"ACCOUNT_LEFT", "LOGGED_OUT"} : Leave(n, reason)

Next ==
    \/ \E n \in Nodes : NodeStep(n)
    \/ \E n, m \in Nodes : PairStep(n, m)
    \/ \E p \in Pipes : Cut(p)
    \/ \E n \in Nodes : \E p \in Pipes : PipeStep(n, p)

Spec == Init /\ [][Next]_vars

\* What an engine that does not hang has to do: a frame or the end of a task to take,
\* a directory to read, a watchdog whose machine is silent for good.
Pending(n) ==
    /\ Awake(n)
    /\ \/ eng[n].known # {m \in Nodes \ {n} : <<n, m>> \notin revoked}
       \/ \E p \in Pipes : /\ task[p][n] = "run"
                            /\ \/ wire[p][n] # <<>> \/ p \notin open
                               \/ eng[n].peers[Other(p, n)].out # p
       \/ /\ eng[n].driving # None /\ eng[n].driving[1].accepted
          /\ eng[n].driving[1].node \in hung
       \/ eng[n].driven # None /\ eng[n].driven[1].node \in hung

\* ... and the step that does it.
EngineStep(n) ==
    \/ Stall(n) \/ Idle(n) \/ SetDirectory(n)
    \/ \E p \in Pipes : n \in Ends(p) /\ (TaskEnds(n, p) \/ Deliver(n, p))

\* No engine leaves such work for ever: weak fairness of the step, its guard spelled
\* out so that it leaves out a watchdog that only a silent path would fire.
Fairness == \A n \in Nodes : []<>~Pending(n) \/ []<><<EngineStep(n)>>_vars

FairSpec == Spec /\ Fairness

-----------------------------------------------------------------------------
(* Properties.                                                              *)

Options(S) == {None} \union {Some(x) : x \in S}
Numbers == 1 .. MaxEvents + 1

\* The fields hold what their declarations say, and a turn leaves no frame behind.
TypeOK ==
    /\ \A n \in Nodes :
        /\ eng[n].driving \in Options([node : Nodes, session : Numbers, accepted : BOOLEAN])
        /\ eng[n].driven \in Options([node : Nodes, session : Numbers])
        /\ eng[n].sent \in {"unset", "off", "watch", "swallow"}
        /\ eng[n].tx = <<>> /\ eng[n].asks = {}
        /\ \A m \in Nodes :
            /\ eng[n].peers[m].link \in {"cold", "warming", "warm"}
            /\ eng[n].peers[m].out \in Pipes \union {0}
            /\ eng[n].peers[m].out # 0 => Ends(eng[n].peers[m].out) = {n, m}
    /\ \A p \in open : pair[p] # <<>>

\* A keyboard is swallowed only while a session drives, a pointer pinned only while
\* the session was accepted, and no machine drives and is driven at once: however
\* a session ended, its machine has its keyboard and its pointer back
\* (apply_capture's "a swallow that outlives its session leaves a machine with a
\* dead keyboard").
HandsBack ==
    \A n \in Nodes :
        /\ eng[n].sent = "swallow" => eng[n].driving # None
        /\ eng[n].confined => eng[n].driving # None /\ eng[n].driving[1].accepted
        /\ eng[n].driving = None \/ eng[n].driven = None

\* Nobody types on a machine that does not allow it (on_start's first check, and
\* every way a grant can end while a session runs): input.allow, leaving the account,
\* a restart.  The one way that leaves the session is a revocation whose notice
\* comes within CLOSURE_GRACE of an attach (on_channel_closed).
TypesOnlyWithGrant ==
    \A n \in Nodes : \A m \in eng[n].typed : <<n, m>> \in revoked

Holds(n) == n \notin hung /\ eng[n].driving # None /\ eng[n].driving[1].accepted
Served(n) == LET m == eng[n].driving[1].node IN m \notin hung /\ DrivenBy(eng[m], n)

\* A keyboard comes home: a machine whose accepted session is served by nobody,
\* because its target hangs, restarted, ended it or lost the channel, leaves that
\* session on its own.
ComesHome ==
    \A n \in Nodes : (Holds(n) /\ ~Served(n)) ~> (Holds(n) => Served(n))

\* Nothing is on its way: no frame, no end of a task, no dial, no notice.
Quiet == dials = {} /\ notices = {} /\ \A n \in Nodes : ~Pending(n)

\* A target is told when its source goes home, as bring_home's comment has it ("tell
\* the target if the pipe still lives"): once all is quiet, nobody is driven by a
\* machine that does not drive it.
Unheld ==
    Quiet => \A n, m \in Nodes : DrivenBy(eng[n], m) => DrivesNow(eng[m], n)

=============================================================================
