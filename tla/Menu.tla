-------------------------------- MODULE Menu --------------------------------
(***************************************************************************)
(* The contextual-menu manager (menu/src): the loop that mirrors the       *)
(* Core's directory (orchestrator.rs, targets.rs), the applier that        *)
(* renders the list onto the desktop's menus (applier.rs), and the         *)
(* couriers, one process per click, whose gestures are gathered into       *)
(* transfers (channel.rs, clicks.rs, main.rs).                             *)
(*                                                                         *)
(* A device record is reduced to whether it can be offered; the Core       *)
(* recomputes that for every device when the server link moves, and tells  *)
(* only the session change.                                                *)
(***************************************************************************)
EXTENDS Naturals, Sequences, FiniteSets, SequencesExt

CONSTANTS Peers,       \* the other devices of the account
          Couriers,    \* the clicks of the run
          HeldCap,     \* BUFFERED_EVENTS_CAP
          BatchCap,    \* MAX_BATCH_PATHS
          MaxClients,  \* MAX_CONCURRENT_CLIENTS
          Scenarios    \* budgets of what the outside may do

VARIABLES core,      \* what the Core would answer: [in, key, devs, leaving]
          wire,      \* the events sent to the manager, not yet received
          mgr,       \* the drive loop: [up, gen, primed, held, dir, render, retry]
          reads,     \* the snapshots being taken or waiting to be applied
          list,      \* the published target list and whether the applier saw it
          app,       \* the applier: [st, want, shown]
          click,     \* each courier: [st, dev, here, ans]
          batch,     \* per device, the couriers gathered and not yet sent
          sent,      \* the transfers issued: [dev, of]
          sc         \* the budgets left

vars == <<core, wire, mgr, reads, list, app, click, batch, sent, sc>>

-----------------------------------------------------------------------------
(* The Core, as the manager sees it.                                       *)

SessionEv(in) == [k |-> "session", in |-> in, dev |-> {}, on |-> FALSE]
DeviceEv(d, on) == [k |-> "device", in |-> FALSE, dev |-> {d}, on |-> on]
Connected == [k |-> "connected", in |-> FALSE, dev |-> {}, on |-> FALSE]
Disconnected == [k |-> "disconnected", in |-> FALSE, dev |-> {}, on |-> FALSE]

Linked == mgr.up /\ \A i \in 1..Len(wire) : wire[i].k # "disconnected"
Tell(evs) == wire' = IF Linked THEN wire \o evs ELSE wire
Spend(what) == sc[what] > 0 /\ sc' = [sc EXCEPT ![what] = @ - 1]

\* A login, a logout or the server link moving: reachability is recomputed
\* for every device, the session change is the only word of it.
CoreSession(in, devs) ==
  /\ Spend("session")
  /\ core' = [core EXCEPT !.in = in, !.devs = devs]
  /\ Tell(<<SessionEv(in)>>)
  /\ UNCHANGED <<mgr, reads, list, app, click, batch, sent>>

\* device.added, online, updated, offline or removed.
CoreDevice(d) ==
  /\ Spend("device")
  /\ core' = [core EXCEPT !.devs = IF d \in @ THEN @ \ {d} ELSE @ \cup {d}]
  /\ Tell(<<DeviceEv(d, d \notin core.devs)>>)
  /\ UNCHANGED <<mgr, reads, list, app, click, batch, sent>>

\* The account key is installed (account.setup, account.join, a pairing): the
\* attestation is published, no session change is told.
CoreInstall ==
  /\ Spend("install")
  /\ ~core.key
  /\ core' = [core EXCEPT !.key = TRUE]
  /\ UNCHANGED <<wire, mgr, reads, list, app, click, batch, sent>>

\* Struck off: the trust root goes first, the notices follow.
CoreStruck ==
  /\ Spend("struck")
  /\ core.key
  /\ core' = [core EXCEPT !.key = FALSE, !.leaving = TRUE]
  /\ UNCHANGED <<wire, mgr, reads, list, app, click, batch, sent>>

CoreLeaves ==
  /\ core.leaving
  /\ core' = [core EXCEPT !.leaving = FALSE, !.in = FALSE, !.devs = {}]
  /\ Tell(SetToSeq({DeviceEv(d, FALSE) : d \in core.devs})
            \o <<SessionEv(FALSE)>>)
  /\ UNCHANGED <<mgr, reads, list, app, click, batch, sent, sc>>

CoreLost ==
  /\ Spend("lost")
  /\ Linked
  /\ wire' = Append(wire, Disconnected)
  /\ UNCHANGED <<core, mgr, reads, list, app, click, batch, sent>>

-----------------------------------------------------------------------------
(* The drive loop.                                                         *)

NoDir == [in |-> FALSE, key |-> FALSE, devs |-> {}]

Targets(dir) == IF dir.in /\ dir.key THEN dir.devs ELSE {}

\* publish: only a list that differs wakes the applier.
Published(l, targets) ==
  IF l.now = targets THEN l ELSE [now |-> targets, seen |-> FALSE]

IngestDevice(dir, ev) ==
  [dir EXCEPT !.devs = IF ev.on THEN @ \cup ev.dev ELSE @ \ ev.dev]
IngestSession(dir, ev) == [dir EXCEPT !.in = ev.in]
Ingest(dir, ev) ==
  IF ev.k = "session" THEN IngestSession(dir, ev) ELSE IngestDevice(dir, ev)

Begin(m) == [m EXCEPT !.gen = @ + 1, !.primed = FALSE, !.held = <<>>]
SpawnSnapshot(m) ==
  reads \cup {[gen |-> Begin(m).gen, step |-> "session", dir |-> NoDir]}

AcceptsAny(generation) == generation > 0
Accepts(generation) == generation = mgr.gen
ReplayedNever(dir, held) == dir
Replayed(dir, held) == FoldLeft(Ingest, dir, held)
ReplayAgain(held) == \E i \in 1..Len(held) : held[i].k = "session"

Holds(m) == Len(m.held) < HeldCap

\* What hides the whole menu and starts over.
HideAndResync(m) ==
  /\ mgr' = Begin([m EXCEPT !.render = FALSE])
  /\ list' = Published(list, {})
  /\ reads' = SpawnSnapshot(m)

Render ==
  /\ mgr.up /\ mgr.render
  /\ mgr' = [mgr EXCEPT !.render = FALSE]
  /\ list' = Published(list, Targets(mgr.dir))
  /\ UNCHANGED <<core, wire, reads, app, click, batch, sent, sc>>

\* SNAPSHOT_RETRY, two seconds: an end of the connection already queued is
\* always read first.
Retry ==
  /\ Linked /\ mgr.retry
  /\ mgr' = Begin([mgr EXCEPT !.retry = FALSE])
  /\ reads' = SpawnSnapshot(mgr)
  /\ UNCHANGED <<core, wire, list, app, click, batch, sent, sc>>

\* take_snapshot: three requests, each answered from the Core of its moment.
NextRead == [session |-> "account", account |-> "devices", devices |-> "taken"]

TakeSnapshot(r) ==
  /\ r.step \in DOMAIN NextRead
  /\ Linked
  /\ reads' = (reads \ {r}) \cup
       {[r EXCEPT !.step = NextRead[r.step],
                  !.dir = CASE r.step = "session" -> [@ EXCEPT !.in = core.in]
                            [] r.step = "account" -> [@ EXCEPT !.key = core.key]
                            [] r.step = "devices" -> [@ EXCEPT !.devs = core.devs]]}
  /\ UNCHANGED <<core, wire, mgr, list, app, click, batch, sent, sc>>

\* A request that times out, or finds the connection gone.
SnapshotFails(r) ==
  /\ r.step \in DOMAIN NextRead
  /\ IF Linked THEN Spend("timeout") ELSE UNCHANGED sc
  /\ reads' = (reads \ {r}) \cup {[r EXCEPT !.step = "failed"]}
  /\ UNCHANGED <<core, wire, mgr, list, app, click, batch, sent>>

SnapshotFailed(r) ==
  /\ mgr.up /\ r.step = "failed"
  /\ reads' = reads \ {r}
  /\ mgr' = [mgr EXCEPT !.retry = @ \/ Accepts(r.gen)]
  /\ UNCHANGED <<core, wire, list, app, click, batch, sent, sc>>

SnapshotTaken(r) ==
  /\ mgr.up /\ r.step = "taken"
  /\ \/ /\ ~Accepts(r.gen)
        /\ reads' = reads \ {r}
        /\ UNCHANGED <<mgr, list>>
     \/ /\ Accepts(r.gen)
        /\ \E m \in {[mgr EXCEPT !.dir = Replayed(r.dir, mgr.held),
                                 !.retry = FALSE]} :
             IF ReplayAgain(mgr.held)
               THEN /\ mgr' = Begin([m EXCEPT !.render = FALSE])
                    /\ list' = Published(list, {})
                    /\ reads' = SpawnSnapshot(m) \ {r}
               ELSE /\ mgr' = [m EXCEPT !.primed = TRUE, !.held = <<>>,
                                        !.render = TRUE]
                    /\ reads' = reads \ {r}
                    /\ UNCHANGED list
  /\ UNCHANGED <<core, wire, app, click, batch, sent, sc>>

\* The session moved while primed: what is held describes the state before.
SessionMovedRenders(ev) ==
  /\ mgr' = Begin([mgr EXCEPT !.dir = IngestSession(@, ev)])
  /\ list' = Published(list, {})
  /\ reads' = SpawnSnapshot(mgr)
SessionMoved(ev) == HideAndResync([mgr EXCEPT !.dir = IngestSession(@, ev)])

OnEvent ==
  /\ mgr.up /\ wire # <<>>
  /\ wire' = Tail(wire)
  /\ LET ev == Head(wire) IN
     \/ /\ ev.k = "connected"
        /\ HideAndResync([mgr EXCEPT !.dir = NoDir, !.retry = FALSE])
     \/ /\ ev.k = "session" /\ mgr.primed
        /\ SessionMoved(ev)
     \/ /\ ev.k = "device" /\ mgr.primed
        /\ mgr' = [mgr EXCEPT !.dir = IngestDevice(@, ev), !.render = TRUE]
        /\ UNCHANGED <<list, reads>>
     \/ /\ ev.k \in {"session", "device"} /\ ~mgr.primed
        /\ IF Holds(mgr)
             THEN /\ mgr' = [mgr EXCEPT !.held = Append(@, ev)]
                  /\ UNCHANGED reads
             ELSE /\ mgr' = Begin(mgr)
                  /\ reads' = SpawnSnapshot(mgr)
        /\ UNCHANGED list
     \/ /\ ev.k = "disconnected"
        /\ mgr' = [mgr EXCEPT !.up = FALSE]
        /\ UNCHANGED <<list, reads>>
  /\ UNCHANGED <<core, app, click, batch, sent, sc>>

-----------------------------------------------------------------------------
(* The applier: one rewrite at a time, the latest list wins.               *)

AppliedOver(ok) == IF ok THEN app.want ELSE app.shown

\* One apply over the surfaces: a refusal, or a panic, leaves what was there.
Apply(ok) ==
  /\ app.st \in {"apply", "last"}
  /\ IF ok THEN UNCHANGED sc ELSE Spend("refuse")
  /\ app' = [app EXCEPT !.shown = AppliedOver(ok),
                        !.st = CASE @ = "last" -> "gone"
                                 [] @ = "apply" /\ ok -> "idle"
                                 [] @ = "apply" /\ ~ok -> "backoff"]
  /\ UNCHANGED <<core, wire, mgr, reads, list, click, batch, sent>>

\* The backoff runs out: the same list again.
Again ==
  /\ app.st = "backoff"
  /\ app' = [app EXCEPT !.st = "apply"]
  /\ UNCHANGED <<core, wire, mgr, reads, list, click, batch, sent, sc>>

\* changed(): a new list, else the sender gone and the final empty render.
Changed ==
  /\ app.st \in {"idle", "backoff"}
  /\ \/ /\ ~list.seen
        /\ app' = [app EXCEPT !.st = "apply", !.want = list.now]
        /\ list' = [list EXCEPT !.seen = TRUE]
     \/ /\ list.seen /\ ~mgr.up
        /\ app' = [app EXCEPT !.st = "last", !.want = {}]
        /\ UNCHANGED list
  /\ UNCHANGED <<core, wire, mgr, reads, click, batch, sent, sc>>

-----------------------------------------------------------------------------
(* The couriers.                                                           *)

\* The desktop runs a menu entry: any it was ever shown, stale ones too.
Courier(c, d) ==
  /\ click[c].st = "none"
  /\ click' = [click EXCEPT ![c] = [@ EXCEPT !.st = "asked", !.dev = d]]
  /\ UNCHANGED <<core, wire, mgr, reads, list, app, batch, sent, sc>>

\* No manager listens: the click fails there and then.
NoManager(c) ==
  /\ click[c].st = "asked" /\ ~mgr.up
  /\ click' = [click EXCEPT ![c].st = "done"]
  /\ UNCHANGED <<core, wire, mgr, reads, list, app, batch, sent, sc>>

\* Bounded: beyond the cap a courier waits in the socket's backlog.
Served == {c \in Couriers : click[c].st \in {"served", "queued", "batched"}}
Accept(c) ==
  /\ click[c].st = "asked" /\ mgr.up
  /\ Cardinality(Served) < MaxClients
  /\ click' = [click EXCEPT ![c].st = "served"]
  /\ UNCHANGED <<core, wire, mgr, reads, list, app, batch, sent, sc>>

\* The list is asked again here: a stale entry goes no further.
Act(c) ==
  /\ click[c].st = "served" /\ mgr.up
  /\ click' = [click EXCEPT ![c].st =
                 IF click[c].dev \in list.now THEN "queued" ELSE "done"]
  /\ UNCHANGED <<core, wire, mgr, reads, list, app, batch, sent, sc>>

Transfer(d, waiters) == [dev |-> d, of |-> waiters, st |-> "asked"]
FlushedKept(d, b, sends) ==
  [b |-> b, s |-> Append(sends, Transfer(d, b[d]))]
Flushed(d, b, sends) ==
  [b |-> [b EXCEPT ![d] = {}], s |-> Append(sends, Transfer(d, b[d]))]

\* One click joins its device's batch; a full batch goes at once.
Admit(c) ==
  /\ mgr.up /\ click[c].st = "queued"
  /\ click' = [click EXCEPT ![c].st = "batched"]
  /\ \E d \in {click[c].dev} :
       \E b \in {[batch EXCEPT ![d] = @ \cup {c}]} :
         IF Cardinality(b[d]) >= BatchCap
           THEN /\ batch' = Flushed(d, b, sent).b
                /\ sent' = Flushed(d, b, sent).s
           ELSE batch' = b /\ UNCHANGED sent
  /\ UNCHANGED <<core, wire, mgr, reads, list, app, sc>>

\* The quiet window, or its ceiling, ends.
FlushDue(d) ==
  /\ mgr.up /\ batch[d] # {}
  /\ batch' = Flushed(d, batch, sent).b
  /\ sent' = Flushed(d, batch, sent).s
  /\ UNCHANGED <<core, wire, mgr, reads, list, app, click, sc>>

\* files.send answers (a transfer, or a refusal): every courier still waiting
\* is told the same.
SendAnswered(t, ok) ==
  /\ mgr.up /\ sent[t].st = "asked"
  /\ ok => Linked
  /\ sent' = [sent EXCEPT ![t].st = IF ok THEN "accepted" ELSE "refused"]
  /\ click' = [c \in Couriers |->
       IF c \in sent[t].of /\ click[c].st = "batched"
         THEN [click[c] EXCEPT !.st = "done", !.ans = IF ok /\ click[c].here THEN t ELSE 0]
         ELSE click[c]]
  /\ UNCHANGED <<core, wire, mgr, reads, list, app, batch, sc>>

\* CLIENT_TIMEOUT: the courier hangs up, its click is carried all the same.
HangsUp(c) ==
  /\ Spend("hangup")
  /\ click[c].st \in {"asked", "served", "queued", "batched"}
  /\ click' = [click EXCEPT ![c].here = FALSE]
  /\ UNCHANGED <<core, wire, mgr, reads, list, app, batch, sent>>

-----------------------------------------------------------------------------
(* The process: asked to stop, killed, started again by the supervisor.    *)

Stop ==
  /\ Spend("stop")
  /\ mgr.up
  /\ mgr' = [mgr EXCEPT !.up = FALSE]
  /\ UNCHANGED <<core, wire, reads, list, app, click, batch, sent>>

Kill ==
  /\ Spend("kill")
  /\ mgr.up
  /\ mgr' = [mgr EXCEPT !.up = FALSE]
  /\ app' = [app EXCEPT !.st = "gone"]
  /\ UNCHANGED <<core, wire, reads, list, click, batch, sent>>

FreshMgr == [up |-> TRUE, gen |-> 0, primed |-> FALSE, held |-> <<>>,
             dir |-> NoDir, render |-> FALSE, retry |-> FALSE]

\* run() starts the applier on an empty list: the sweep of what was left.
Restart ==
  /\ ~mgr.up /\ app.st = "gone"
  /\ mgr' = FreshMgr
  /\ wire' = <<Connected>>
  /\ reads' = {}
  /\ list' = [now |-> {}, seen |-> TRUE]
  /\ app' = [app EXCEPT !.st = "apply", !.want = {}]
  /\ click' = [c \in Couriers |-> IF click[c].st \in {"served", "queued", "batched"}
                 THEN [click[c] EXCEPT !.st = "done"] ELSE click[c]]
  /\ batch' = [d \in Peers |-> {}]
  /\ sent' = [t \in 1..Len(sent) |->
                [sent[t] EXCEPT !.st = IF @ = "asked" THEN "lost" ELSE @]]
  /\ UNCHANGED <<core, sc>>

-----------------------------------------------------------------------------

\* The device that can be offered at the start; the menus show what an earlier
\* run left there.
Here == CHOOSE d \in Peers : TRUE

Init ==
  /\ sc \in Scenarios
  /\ core = [in |-> sc.in, key |-> sc.key, devs |-> {Here}, leaving |-> FALSE]
  /\ wire = <<Connected>>
  /\ mgr = FreshMgr
  /\ reads = {}
  /\ list = [now |-> {}, seen |-> TRUE]
  /\ app = [st |-> "apply", want |-> {}, shown |-> Peers]
  /\ click = [c \in Couriers |-> [st |-> "none", dev |-> Here, here |-> TRUE,
                                ans |-> 0]]
  /\ batch = [d \in Peers |-> {}]
  /\ sent = <<>>

Reading ==
  \E r \in reads : \/ TakeSnapshot(r) \/ SnapshotFailed(r) \/ SnapshotTaken(r)
Applying == Apply(TRUE) \/ Again \/ Changed
Looping == Render \/ Retry \/ OnEvent \/ Restart
Carrying ==
  \/ \E c \in Couriers : NoManager(c) \/ Accept(c) \/ Act(c) \/ Admit(c)
  \/ \E d \in Peers : FlushDue(d)
  \/ \E t \in 1..Len(sent), ok \in BOOLEAN : SendAnswered(t, ok)

Next ==
  \/ \E in \in BOOLEAN, devs \in SUBSET Peers : CoreSession(in, devs)
  \/ \E d \in Peers : CoreDevice(d)
  \/ CoreInstall
  \/ CoreStruck
  \/ CoreLeaves
  \/ CoreLost
  \/ Looping
  \/ Reading
  \/ \E r \in reads : SnapshotFails(r)
  \/ Applying
  \/ Apply(FALSE)
  \/ \E c \in Couriers, d \in Peers : sc.click /\ Courier(c, d)
  \/ Carrying
  \/ \E c \in Couriers : HangsUp(c)
  \/ Stop
  \/ Kill

\* Every task of the manager runs when it can, a killed or stopped manager is
\* started again, and a snapshot whose connection is gone fails.
CutOff == \E r \in reads : ~Linked /\ SnapshotFails(r)
Fairness ==
  /\ WF_vars(Looping) /\ WF_vars(Reading) /\ WF_vars(Applying)
  /\ WF_vars(CoreLeaves)
  /\ WF_vars(CutOff)

Spec == Init /\ [][Next]_vars /\ Fairness

-----------------------------------------------------------------------------
(* What the manager promises.                                              *)

\* A list is published only while the directory behind it is vouched for: from
\* a session change, handled or held, to the snapshot that answers it, nothing
\* is offered (the disarmed render of orchestrator.rs:322-329 and 290-296).
OffersVouched == mgr.up /\ ~mgr.primed => list.now = {}

\* A click is carried once: an accepted courier's file is in the transfer it
\* was told of, to the device it named, and in no other (clicks.rs, "never a
\* file left behind").
ClicksCarried ==
  /\ \A c \in Couriers : click[c].ans > 0 =>
       /\ c \in sent[click[c].ans].of
       /\ sent[click[c].ans].dev = click[c].dev
  /\ \A t, u \in 1..Len(sent) : t # u => sent[t].of \cap sent[u].of = {}

\* Once the Core stops changing, the desktop shows exactly the Core's targets:
\* through held and overflowing buffers, superseded and failed snapshots,
\* refused rewrites and restarts (doc/architecture.md, "the current list of
\* targets").
Current == app.shown = Targets(core)
MenuSettles == <>[]Current

=============================================================================
