------------------------------ MODULE GuiStore ------------------------------
(***************************************************************************)
(* The graphical interface's store (gui/ui/src/lib/store.svelte.ts) behind *)
(* the shell's bridge (gui/src/bridge.rs).  The bridge forwards the        *)
(* client's events, in order, to a webview that may not be listening yet,  *)
(* and keeps a snapshot of the connection.  The store re-reads the whole   *)
(* of the Core's state (`resync`) on every connection and every            *)
(* session.changed, sets aside what is notified meanwhile and replays it.  *)
(* Requests are answered one by one, each from the state the Core is in    *)
(* when it answers; an answer may reach the store before or after the      *)
(* notifications emitted around it.                                        *)
(*                                                                         *)
(* One record, a version number, stands for the directory and for the      *)
(* input engine's state, both replaced whole by what notifies them;        *)
(* `session` is whether an account is signed in.  The Core holds one       *)
(* pairing.                                                                *)
(***************************************************************************)
EXTENDS Naturals, Sequences

(* What may happen in a behaviour: the number of changes of the directory  *)
(* and of the session, of requests that time out, of losses of the IPC     *)
(* connection and of gestures; which gestures ("refresh", "decide",        *)
(* "save", "rename", "logout", "setup", "join", "pair", "confirm",         *)
(* "cancel"; "left" is being struck off the account); and whether the      *)
(* account is one without a server.                                        *)
CONSTANT Scenarios

VARIABLES
  core,   \* the Core: [up, logged, dev, attested, pairing, left]
  shell,  \* the bridge: its snapshot, and the status it is about to emit
  wire,   \* events emitted to the webview and not handled yet
  boot,   \* how far start() has got
  store,  \* the store's state
  reads,  \* the resnapshot in flight: each read "asked", "failed" or answered
  retry,  \* the retry timer is armed
  act,    \* the action that holds `busy`: [what, stage]
  code,   \* the recovery code: "none", "shown", "kept", "gone"
  sc      \* the scenario: what may still happen

vars == <<core, shell, wire, boot, store, reads, retry, act, code, sc>>

Reads == {"session", "account", "devices"}
Idle == [r \in Reads |-> <<"none">>]
Asked == [r \in Reads |-> <<"asked">>]
InFlight == reads # Idle

NoAct == [what |-> "none", stage |-> "none"]
Busy == act # NoAct

Note(k, v) == [k |-> k, v |-> v]

(* The account without a server: no session, ever (store.serverless).      *)
Serverless == sc.local

-----------------------------------------------------------------------------
(* The bridge.                                                             *)

(* connection_snapshot and publish_connection: the snapshot is updated,    *)
(* THEN the event is emitted.                                              *)
SnapshotLast == FALSE
SnapshotFirst == TRUE

(* The status the client reports: the snapshot takes it, the event is on   *)
(* its way (two steps of the bridge's task).                               *)
ClientReports(up) ==
  /\ shell.due = <<>>
  /\ shell' = IF SnapshotFirst
              THEN [snap |-> up, due |-> <<Note("conn", up)>>]
              ELSE [shell EXCEPT !.due = <<Note("snap", up)>>]
  /\ wire' = IF SnapshotFirst THEN wire
             ELSE Append(wire, Note("conn", up))

PublishRest ==
  /\ shell.due # <<>>
  /\ IF shell.due[1].k = "conn"
     THEN /\ wire' = Append(wire, shell.due[1])
          /\ shell' = [shell EXCEPT !.due = <<>>]
     ELSE /\ shell' = [snap |-> shell.due[1].v, due |-> <<>>]
          /\ UNCHANGED wire
  /\ UNCHANGED <<core, boot, store, reads, retry, act, code, sc>>

(* bridge_loop handles the events in order: a notification is emitted only *)
(* once the status before it is.                                           *)
Emits(notes) ==
  /\ shell.due = <<>>
  /\ wire' = wire \o notes

-----------------------------------------------------------------------------
(* The Core.                                                               *)

Bump(b) == sc' = [sc EXCEPT ![b] = @ - 1]

Connects ==
  /\ core.up = 0
  /\ core' = [core EXCEPT !.up = 1]
  /\ ClientReports(1)
  /\ UNCHANGED <<boot, store, reads, retry, act, code, sc>>

(* The connection is lost: what was asked and not answered fails.          *)
Failed(f) == [r \in Reads |-> IF f[r] = <<"asked">> THEN <<"failed">> ELSE f[r]]

Drops ==
  /\ core.up = 1
  /\ sc.drops > 0
  /\ core' = [core EXCEPT !.up = 0]
  /\ ClientReports(0)
  /\ reads' = Failed(reads)
  /\ act' = IF act.stage \in {"sent", "answered", "browser", "refused", "reread"}
            THEN [act EXCEPT !.stage = "failed"] ELSE act
  /\ Bump("drops")
  /\ UNCHANGED <<boot, store, retry, code>>

(* Events only reach the components that are connected.                    *)
Tell(notes) == IF core.up = 1 THEN Emits(notes) ELSE UNCHANGED wire

DeviceChanges ==
  /\ sc.dev > 0
  /\ core' = [core EXCEPT !.dev = @ + 1]
  /\ Tell(<<Note("device", core.dev + 1)>>)
  /\ Bump("dev")
  /\ UNCHANGED <<shell, boot, store, reads, retry, act, code>>

SessionChanges ==
  /\ ~Serverless
  /\ sc.session > 0
  /\ core' = [core EXCEPT !.logged = 1 - @]
  /\ Tell(<<Note("session", 1 - core.logged)>>)
  /\ Bump("session")
  /\ UNCHANGED <<shell, boot, store, reads, retry, act, code>>

(* account_key::leave: struck off the account by another device.           *)
StruckOff ==
  /\ core.attested = 1
  /\ ~core.left
  /\ "left" \in sc.script
  /\ core' = [core EXCEPT !.attested = 0, !.logged = 0, !.left = TRUE]
  /\ Tell(<<Note("session", 0), Note("left", 0)>>)
  /\ UNCHANGED <<shell, boot, store, reads, retry, act, code, sc>>

(* The Core's own side of the pairing it holds: the code is taken, or the  *)
(* pairing ends (completed, declined, expired).                            *)
PairingClaimed ==
  /\ core.pairing = "offered"
  /\ core' = [core EXCEPT !.pairing = "claimed"]
  /\ Tell(<<Note("claimed", 0)>>)
  /\ UNCHANGED <<shell, boot, store, reads, retry, act, code, sc>>

PairingFails ==
  /\ core.pairing \in {"offered", "claimed", "approving"}
  /\ core' = [core EXCEPT !.pairing = "over"]
  /\ Tell(<<Note("failed", 0)>>)
  /\ UNCHANGED <<shell, boot, store, reads, retry, act, code, sc>>

(* A confirmation that went through the browser comes back.                *)
PairingCompletes ==
  /\ core.pairing = "approving"
  /\ core' = [core EXCEPT !.pairing = "over"]
  /\ Tell(<<Note("completed", 0)>>)
  /\ UNCHANGED <<shell, boot, store, reads, retry, act, code, sc>>

-----------------------------------------------------------------------------
(* The store: resync.                                                      *)

(* resync(): a fresh generation asks everything again and owns the buffer; *)
(* an earlier one withdraws when its answers come.  Refused outright by a  *)
(* client that has no connection.                                          *)
Resync(s) ==
  /\ reads' = IF core.up = 1 THEN Asked ELSE [r \in Reads |-> <<"failed">>]
  /\ store' = [s EXCEPT !.buffer = <<>>]
  /\ retry' = FALSE

ResyncIfConnected(s) ==
  IF s.conn = 1 THEN Resync(s) ELSE store' = s /\ UNCHANGED <<reads, retry>>

(* A connected interface whose session read failed asks again later.       *)
RetryNever == FALSE
ScheduleRetry == TRUE

ReadNow(r) == CASE r = "session" -> core.logged
                [] r = "account" -> core.attested
                [] r = "devices" -> core.dev

Answer(r) ==
  /\ reads[r] = <<"asked">>
  /\ core.up = 1
  /\ act.stage # "reread"
  /\ reads' = [reads EXCEPT ![r] = <<"ok", ReadNow(r)>>]
  /\ UNCHANGED <<core, shell, wire, boot, store, retry, act, code, sc>>

TimesOut(r) ==
  /\ reads[r] = <<"asked">>
  /\ sc.timeouts > 0
  /\ reads' = [reads EXCEPT ![r] = <<"failed">>]
  /\ Bump("timeouts")
  /\ UNCHANGED <<core, shell, wire, boot, store, retry, act, code>>

Upsert(s, v) == [s EXCEPT !.devices = v]

(* #apply, for a notification that is replayed or handled at once.  A      *)
(* pairing event answers the flow on screen, if there is one.              *)
Apply(s, n) ==
  CASE n.k = "session" -> [s EXCEPT !.session = n.v]
    [] n.k = "left" -> [s EXCEPT !.notice = "left"]
    [] n.k = "device" -> Upsert(s, n.v)
    [] n.k = "claimed" /\ s.pairing # "none" -> [s EXCEPT !.pairing = "confirm"]
    [] n.k = "completed" /\ s.pairing # "none" ->
         [s EXCEPT !.pairing = "none", !.notice = "linked"]
    [] n.k = "failed" /\ s.pairing # "none" ->
         [s EXCEPT !.pairing = "none", !.notice = "unlinked"]
    [] OTHER -> s

(* Whether #apply asks for a resnapshot.                                   *)
Again(s, n) == \/ n.k \in {"session", "left"}
               \/ n.k = "completed" /\ s.pairing # "none"

ApplyAll(s, notes) ==
  LET f[i \in 0..Len(notes)] == IF i = 0 THEN s ELSE Apply(f[i - 1], notes[i])
  IN f[Len(notes)]

AgainAll(s, notes) ==
  \E i \in 1..Len(notes) : Again(ApplyAll(s, SubSeq(notes, 1, i - 1)), notes[i])

Sticky(notice) == notice \in {"left", "linked", "unlinked"}

(* The snapshot as it is applied once every read has settled.              *)
Snapshot(s) ==
  LET hold == s.holding /\ reads["session"][2] = 1
  IN [s EXCEPT !.session = reads["session"][2],
               !.holding = hold,
               !.account = IF reads["account"][1] = "ok" THEN reads["account"][2]
                           ELSE IF hold THEN @ ELSE 2,
               !.devices = IF reads["devices"][1] = "ok" THEN reads["devices"][2] ELSE 0,
               !.devicesError = reads["devices"][1] # "ok",
               !.primed = TRUE,
               !.notice = IF Sticky(@) THEN @ ELSE "none",
               !.buffer = <<>>]

(* The action that was waiting for a resnapshot lets `busy` go.            *)
Waited == IF act.stage = "resync" THEN NoAct ELSE act

(* The resync whose session read failed drops its buffer and tries later;  *)
(* any other one applies what it read, then what was notified meanwhile.   *)
SettleFailed ==
  /\ InFlight
  /\ \A r \in Reads : reads[r] # <<"asked">>
  /\ reads["session"] = <<"failed">>
  /\ reads' = Idle
  /\ store' = [store EXCEPT !.buffer = <<>>, !.notice = "error"]
  /\ retry' = ScheduleRetry
  /\ act' = Waited
  /\ UNCHANGED <<core, shell, wire, boot, code, sc>>

Settle ==
  /\ InFlight
  /\ \A r \in Reads : reads[r] # <<"asked">>
  /\ reads["session"] # <<"failed">>
  /\ act' = Waited
  /\ LET s == Snapshot(store)
         t == ApplyAll(s, store.buffer)
     IN IF AgainAll(s, store.buffer) /\ t.conn = 1
        THEN Resync(t)
        ELSE store' = t /\ reads' = Idle /\ UNCHANGED retry
  /\ UNCHANGED <<core, shell, wire, boot, code, sc>>

RetryFires ==
  /\ retry
  /\ IF store.conn = 1 THEN Resync(store)
     ELSE retry' = FALSE /\ UNCHANGED <<store, reads>>
  /\ UNCHANGED <<core, shell, wire, boot, act, code, sc>>

-----------------------------------------------------------------------------
(* The store: start() and the events.                                      *)

(* The listeners are attached one after the other, the notifications       *)
(* first; then the shell's snapshot is read.                               *)
Subscribe ==
  /\ boot \in {"new", "notes"}
  /\ boot' = IF boot = "new" THEN "notes" ELSE "both"
  /\ UNCHANGED <<core, shell, wire, store, reads, retry, act, code, sc>>

ReadShell ==
  /\ boot = "both"
  /\ boot' = IF shell.snap = 1 THEN "read-up" ELSE "read-down"
  /\ UNCHANGED <<core, shell, wire, store, reads, retry, act, code, sc>>

(* #setConnection.                                                         *)
SetConnection(v) ==
  IF v = 1 THEN Resync([store EXCEPT !.conn = 1])
  ELSE store' = [store EXCEPT !.conn = 0] /\ UNCHANGED <<reads, retry>>

(* The snapshot is dropped when an event came first (#sawConnectionEvent). *)
UseShell ==
  /\ boot \in {"read-up", "read-down"}
  /\ boot' = "done"
  /\ IF store.saw THEN UNCHANGED <<store, reads, retry>>
     ELSE SetConnection(IF boot = "read-up" THEN 1 ELSE 0)
  /\ UNCHANGED <<core, shell, wire, act, code, sc>>

HandleConnection ==
  /\ wire # <<>>
  /\ Head(wire).k = "conn"
  /\ wire' = Tail(wire)
  /\ IF boot \in {"new", "notes"} THEN UNCHANGED <<store, reads, retry>>
     ELSE IF Head(wire).v = 1
     THEN Resync([store EXCEPT !.conn = 1, !.saw = TRUE])
     ELSE store' = [store EXCEPT !.conn = 0, !.saw = TRUE]
          /\ UNCHANGED <<reads, retry>>
  /\ UNCHANGED <<core, shell, boot, act, code, sc>>

(* #onNotification: buffered behind a resnapshot, dropped before the first *)
(* one, applied at once otherwise.                                         *)
HandleNote ==
  /\ wire # <<>>
  /\ Head(wire).k # "conn"
  /\ wire' = Tail(wire)
  /\ LET n == Head(wire)
         t == Apply(store, n)
     IN IF boot = "new" THEN UNCHANGED <<store, reads, retry>>
        ELSE IF InFlight
        THEN store' = [store EXCEPT !.buffer = Append(@, n)] /\ UNCHANGED <<reads, retry>>
        ELSE IF ~store.primed THEN UNCHANGED <<store, reads, retry>>
        ELSE IF Again(store, n) THEN ResyncIfConnected(t)
        ELSE store' = t /\ UNCHANGED <<reads, retry>>
  /\ UNCHANGED <<core, shell, boot, act, code, sc>>

-----------------------------------------------------------------------------
(* The gestures.  Each needs the interface to be connected and not busy;   *)
(* `busy` is held until the Core has answered.                             *)

Gesture(g) ==
  /\ g \in sc.script
  /\ boot = "done"
  /\ store.conn = 1
  /\ store.primed
  /\ ~Busy
  /\ sc.gestures > 0
  /\ Bump("gestures")

Sent(what) ==
  act' = [what |-> what, stage |-> IF core.up = 1 THEN "sent" ELSE "failed"]

(* The Approvals view's "Refresh".                                         *)
Refresh ==
  /\ Gesture("refresh")
  /\ Resync(store)
  /\ UNCHANGED <<core, shell, wire, boot, act, code>>

(* The portal of App.svelte: no account joined yet, or a code on screen.   *)
Door(s) == s.session = 1 \/ Serverless
Portal(s) == s.primed /\ Door(s) /\ (s.holding \/ s.account = 0)

(* createAccount holds the portal BEFORE the round trip.                   *)
HoldLate(s) == s
Hold(s) == [s EXCEPT !.holding = TRUE]

Begin(what) ==
  /\ Gesture(what)
  /\ CASE what \in {"setup", "join"} -> Portal(store)
       [] what = "pair" -> store.pairing = "none" /\ core.pairing = "none"
       [] what = "confirm" -> store.pairing = "confirm"
       [] what = "cancel" -> store.pairing # "none"
       [] what = "logout" -> store.session = 1
       [] OTHER -> TRUE
  /\ Sent(what)
  /\ LET s == [store EXCEPT !.notice = "none"]
     IN store' = CASE what = "setup" -> Hold(s)
                   [] what = "cancel" -> [s EXCEPT !.pairing = "none"]
                   [] OTHER -> s
  /\ UNCHANGED <<core, shell, wire, boot, reads, retry, code>>

Logout == Begin("logout")
Save == Begin("save")
CreateAccount == Begin("setup")
JoinAccount == Begin("join")
StartPairing == Begin("pair")
ConfirmPairing == Begin("confirm")
CancelPairing == Begin("cancel")
Rename == Begin("rename")
Decide == Begin("decide")

(* The Core answers, and what it changes it notifies (rule 1: no state is  *)
(* taken from an answer).  session.reload may refuse the file it was given; a   *)
(* confirmation seals the account key at once, goes through the browser    *)
(* first, or names a pairing that is over.                                 *)
Serve ==
  /\ act.stage = "sent"
  /\ core.up = 1
  /\ \/ /\ act.what = "save"
        /\ act' = [act EXCEPT !.stage = "refused"]
        /\ UNCHANGED <<core, wire>>
     \/ /\ act.what = "confirm"
        /\ core.pairing # "claimed"
        /\ act' = [act EXCEPT !.stage = "failed"]
        /\ UNCHANGED <<core, wire>>
     \/ /\ act.what = "confirm"
        /\ core.pairing = "claimed"
        /\ \E p \in {"over", "approving"} :
             /\ core' = [core EXCEPT !.pairing = p]
             /\ act' = [act EXCEPT !.stage = IF p = "over" THEN "answered" ELSE "browser"]
             /\ IF p = "over" THEN Emits(<<Note("completed", 0)>>) ELSE UNCHANGED wire
     \/ /\ act.what = "rename"
        /\ act' = [act EXCEPT !.stage = "answered"]
        /\ core' = [core EXCEPT !.dev = @ + 1]
        /\ Emits(<<Note("device", core.dev + 1)>>)
     \/ /\ act.what = "logout"
        /\ act' = [act EXCEPT !.stage = "answered"]
        /\ core' = [core EXCEPT !.logged = 0]
        /\ Emits(<<Note("session", 0)>>)
     \/ /\ act.what \notin {"confirm", "rename", "logout"}
        /\ act' = [act EXCEPT !.stage = "answered"]
        /\ core' = CASE act.what \in {"setup", "join"} -> [core EXCEPT !.attested = 1]
                     [] act.what = "pair" -> [core EXCEPT !.pairing = "offered"]
                     [] act.what = "cancel" -> [core EXCEPT !.pairing = "over"]
                     [] OTHER -> core
        /\ UNCHANGED wire
  /\ UNCHANGED <<shell, boot, store, reads, retry, code, sc>>

ActTimesOut ==
  /\ act.stage = "sent"
  /\ sc.timeouts > 0
  /\ act' = [act EXCEPT !.stage = "failed"]
  /\ Bump("timeouts")
  /\ UNCHANGED <<core, shell, wire, boot, store, reads, retry, code>>

(* The answer: a decision, a saved configuration and a joined account      *)
(* resnapshot under the lock, the new account's code is shown, the pairing's code is shown.     *)
Answered ==
  /\ act.stage = "answered"
  /\ CASE act.what \in {"decide", "save", "join"} ->
            /\ act' = IF store.conn = 1 THEN [act EXCEPT !.stage = "resync"] ELSE NoAct
            /\ ResyncIfConnected(store)
            /\ UNCHANGED code
       [] act.what = "setup" ->
            /\ act' = NoAct
            /\ store' = [store EXCEPT !.holding = @]
            /\ code' = "shown"
            /\ UNCHANGED <<reads, retry>>
       [] act.what = "pair" ->
            /\ act' = NoAct
            /\ store' = [store EXCEPT !.pairing = "showing"]
            /\ UNCHANGED <<reads, retry, code>>
       [] act.what \in {"confirm", "cancel", "rename", "logout"} ->
            /\ act' = NoAct
            /\ UNCHANGED <<store, reads, retry, code>>
  /\ UNCHANGED <<core, shell, wire, boot, sc>>

(* The browser is asked to approve: the flow, if it is still on screen,    *)
(* says so.                                                                *)
Browser ==
  /\ act.stage = "browser"
  /\ act' = NoAct
  /\ store' = [store EXCEPT !.notice = "browser",
                            !.pairing = IF @ = "none" THEN @ ELSE "confirming"]
  /\ UNCHANGED <<core, shell, wire, boot, reads, retry, code, sc>>

ActFails ==
  /\ act.stage = "failed"
  /\ act' = NoAct
  /\ store' = [store EXCEPT !.notice = "error",
                            !.holding = IF act.what = "setup" THEN FALSE ELSE @]
  /\ UNCHANGED <<core, shell, wire, boot, reads, retry, code, sc>>

(* A refused reload: session.status is read back and written as it is.     *)
Reread ==
  /\ act.stage = "refused"
  /\ act' = IF core.up = 1 THEN [what |-> "save", stage |-> "reread"]
            ELSE [act EXCEPT !.stage = "failed"]
  /\ store' = [store EXCEPT !.reread = core.logged]
  /\ UNCHANGED <<core, shell, wire, boot, reads, retry, code, sc>>

WriteBack ==
  /\ act.stage = "reread"
  /\ act' = NoAct
  /\ store' = [store EXCEPT !.session = store.reread, !.notice = "error"]
  /\ UNCHANGED <<core, shell, wire, boot, reads, retry, code, sc>>

(* finishOnboarding: "I've saved the code".                                *)
Finish ==
  /\ code = "shown"
  /\ code' = "kept"
  /\ ResyncIfConnected([store EXCEPT !.holding = FALSE])
  /\ UNCHANGED <<core, shell, wire, boot, act, sc>>

(* The code lives in the portal's view: it goes with it.                   *)
PortalDown == code = "shown" /\ ~Portal(store)

Unmounted ==
  /\ PortalDown
  /\ code' = "gone"
  /\ UNCHANGED <<core, shell, wire, boot, store, reads, retry, act, sc>>

-----------------------------------------------------------------------------
StoreInit ==
  [conn |-> 0, saw |-> FALSE, session |-> 0, account |-> 2, devices |-> 0,
   devicesError |-> FALSE, pairing |-> "none", primed |-> FALSE,
   holding |-> FALSE, buffer |-> <<>>, notice |-> "none", reread |-> 0]

Init ==
  /\ sc \in Scenarios
  /\ core = [up |-> 0, logged |-> IF sc.local THEN 0 ELSE 1, dev |-> 1,
             attested |-> IF "setup" \in sc.script THEN 0 ELSE 1,
             pairing |-> "none", left |-> FALSE]
  /\ shell = [snap |-> 0, due |-> <<>>]
  /\ wire = <<>>
  /\ boot = "new"
  /\ store = StoreInit
  /\ reads = Idle
  /\ retry = FALSE
  /\ act = NoAct
  /\ code = "none"

Environment == \/ Drops \/ DeviceChanges \/ SessionChanges \/ StruckOff
               \/ PairingClaimed \/ PairingFails \/ PairingCompletes
Human == \/ Refresh \/ Logout \/ Save \/ CreateAccount \/ JoinAccount
         \/ StartPairing \/ ConfirmPairing \/ CancelPairing
         \/ Rename \/ Decide \/ Finish
Deliver == HandleConnection \/ HandleNote
Booting == Subscribe \/ ReadShell \/ UseShell
Acting == Serve \/ Answered \/ Browser \/ ActFails \/ Reread \/ WriteBack

(* A view is unmounted in the turn that takes its portal down.             *)
Next ==
  \/ Unmounted
  \/ /\ ~PortalDown
     /\ \/ Connects \/ PublishRest \/ Environment
        \/ \E r \in Reads : Answer(r) \/ TimesOut(r)
        \/ SettleFailed \/ Settle \/ RetryFires
        \/ Booting \/ Deliver \/ Human \/ Acting \/ ActTimesOut

(* The client redials for ever, the bridge and the webview handle what     *)
(* they are given, the Core answers, timers fire.  Nothing makes the       *)
(* human, the Core's own changes or a fault happen.                        *)
Fairness ==
  /\ WF_vars(Connects) /\ WF_vars(PublishRest)
  /\ \A r \in Reads : WF_vars(Answer(r))
  /\ WF_vars(SettleFailed) /\ WF_vars(Settle) /\ WF_vars(RetryFires)
  /\ WF_vars(Booting) /\ WF_vars(Deliver) /\ WF_vars(Acting)
  /\ WF_vars(Unmounted)


Spec == Init /\ [][Next]_vars /\ Fairness

-----------------------------------------------------------------------------
(* PROPERTIES                                                              *)

(* An interface ends up connected, primed, and showing the session and the *)
(* directory the Core holds, or saying that the directory could not be     *)
(* read: whatever was lost, timed out, replayed or overtaken on the way.   *)
(* The store's rules 1 to 3 and "connected => sooner or later primed"      *)
(* (store.svelte.ts:3-37).                                                 *)
Settled ==
  /\ store.conn = 1 /\ store.primed
  /\ store.session = core.logged
  /\ (store.devices = core.dev \/ store.devicesError)
StoreSettles == <>[]Settled

(* A recovery code on screen stays there until its owner says it is saved: *)
(* whatever resnapshot reads the attestation meanwhile, only the end of    *)
(* the session takes the portal down (onboardingPending, :379-385, 606-612)*)
CodeHeld == code = "shown" => Portal(store) \/ (~Serverless /\ store.session = 0)

(* The notice that this device was struck off its account, once it has     *)
(* reached the store, is shown (store.svelte.ts:720-725: "this sentence is *)
(* the only account of it the human gets").                                *)
DepartureTold ==
  (\E i \in 1..Len(store.buffer) : store.buffer[i].k = "left") ~> (store.notice = "left")

(* A pairing screen does not outlive the pairing it shows.                 *)
PairingEnds == (store.pairing # "none" /\ core.pairing = "over") ~> (store.pairing = "none")
=============================================================================
