------------------------------- MODULE Shares -------------------------------
(***************************************************************************)
(* Files shared from the phone's share sheet (gui-mobile/src/share.rs, the *)
(* share half of gui/ui/src/lib/store.svelte.ts) and the holds that keep   *)
(* the process alive while they travel (gui-mobile/src/keepalive.rs).      *)
(*                                                                         *)
(* A share is copied to a directory of its own by a Kotlin worker, one at  *)
(* a time; adopted by the Rust side, which sweeps what it does not know;   *)
(* offered to the human by the webview; sent by the Core; and its copy     *)
(* dropped when nobody needs it.  Four actors touch the copies: the        *)
(* copying thread, the share worker's queue, the webview through commands  *)
(* that are handled in order but later, and the Core reading the files.    *)
(***************************************************************************)
EXTENDS Naturals, Sequences, FiniteSets

(* The scenarios: how many file shares, text shares and sign-ins, whether  *)
(* the connection to the Core may be lost and the webview die (`reliable`  *)
(* when neither can).                                                      *)
CONSTANT Scenarios

VARIABLES
  worker,  \* the copy under way: a share, or 0
  disk,    \* the shares whose directory exists
  shares,  \* SHARES: the directories Rust has adopted
  last,    \* LAST: the status retained for a webview that is not there yet
  queue,   \* statuses on their way to the share worker
  text,    \* the share worker is pushing a text
  bus,     \* events emitted to the webview
  calls,   \* commands of the webview not handled yet
  ui,      \* the webview: boot, pendingShare, #shareOfTransfer, transfers
  xfer,    \* what has become of each share's files.send
  answer,  \* its answer: "none", "ok", "no"
  work,    \* keepalive::Work
  timers,  \* the expiry timers running
  conn,    \* the connection to the Core
  sc

vars == <<worker, disk, shares, last, queue, text, bus, calls, ui, xfer, answer,
          work, timers, conn, sc>>

Ids == DOMAIN xfer

None == [p |-> "none", id |-> 0]
Status(p, id) == [p |-> p, id |-> id]

-----------------------------------------------------------------------------
(* keepalive.rs.                                                           *)

(* publish: what the foreground service is told.                           *)
Published == IF work.transfers # {} \/ work.send > 0 THEN "transfer"
             ELSE IF work.shares > 0 THEN "share"
             ELSE IF work.auth > 0 THEN "auth" ELSE "none"

(* note: a relayed transfer.* notification.                                *)
NoteStarted(w, i) == [w EXCEPT !.transfers = @ \union {i}]
NoteEnded(w, i) == [w EXCEPT !.transfers = @ \ {i}]

(* connection: a lost connection drops the holds whose end can no longer   *)
(* be heard.                                                               *)
OnLossDeaf(w) == w
OnLoss(w) == [w EXCEPT !.transfers = {}]

(* keep_alive: a declared hold starts, with a timer of its own, or ends.   *)
KeepOn(kind) ==
  /\ work' = [work EXCEPT ![kind] = work.n + 1, !.n = @ + 1]
  /\ timers' = timers \union {<<kind, work.n + 1>>}

KeepOff(kind) ==
  /\ work' = [work EXCEPT ![kind] = 0]
  /\ UNCHANGED timers

(* expire: only the hold whose deadline has passed is dropped; a newer one *)
(* has a timer of its own.  The Core answers a files.send well inside      *)
(* SEND_TTL.                                                               *)
Expire ==
  \E t \in timers :
    /\ \A u \in timers : u[1] = t[1] => u[2] >= t[2]
    /\ t[1] = "send" => \A i \in Ids : xfer[i] # "asked"
    /\ timers' = timers \ {t}
    /\ work' = IF work[t[1]] <= t[2] THEN [work EXCEPT ![t[1]] = 0] ELSE work
    /\ UNCHANGED <<worker, disk, shares, last, queue, text, bus, calls, ui, xfer,
                   answer, conn, sc>>

-----------------------------------------------------------------------------
(* The Rust side of a share.                                               *)

Forgotten(l, i) == IF l.p = "pick" /\ l.id = i THEN None ELSE l

(* discard: the adopted directory is removed, the open question forgotten. *)
Discard(i) ==
  /\ shares' = shares \ {i}
  /\ disk' = IF i \in shares THEN disk \ {i} ELSE disk
  /\ last' = Forgotten(last, i)

(* file_share_status("preparing"): the copying thread itself drops the     *)
(* share still waiting for a destination (discard_pending).                *)
Waiting == last.p = "pick"

StartCopy ==
  /\ worker = 0
  /\ sc.files > 0
  /\ \E i \in Ids :
       /\ xfer[i] = "new"
       /\ \A j \in Ids : xfer[j] = "new" => i <= j
       /\ xfer' = [xfer EXCEPT ![i] = "copying"]
       /\ worker' = i
       /\ IF Waiting
          THEN /\ shares' = shares \ {last.id}
               /\ disk' = ((IF last.id \in shares THEN disk \ {last.id} ELSE disk)
                           \union {i})
               /\ last' = None
          ELSE disk' = disk \union {i} /\ UNCHANGED <<shares, last>>
  /\ queue' = Append(queue, Status("preparing", 0))
  /\ sc' = [sc EXCEPT !.files = @ - 1]
  /\ UNCHANGED <<text, bus, calls, ui, answer, work, timers, conn>>

CopyFails ==
  /\ worker # 0
  /\ disk' = disk \ {worker}
  /\ queue' = Append(queue, Status("error", 0))
  /\ xfer' = [xfer EXCEPT ![worker] = "dropped"]
  /\ worker' = 0
  /\ UNCHANGED <<shares, last, text, bus, calls, ui, answer, work, timers, conn, sc>>

(* file_share_status("pick") and register: the directory is adopted, and   *)
(* every directory nobody has adopted is a leftover.  A share whose files  *)
(* are not there is dropped.                                               *)
Copied ==
  /\ worker # 0
  /\ IF worker \in disk
     THEN /\ shares' = shares \union {worker}
          /\ disk' = disk \intersect (shares \union {worker})
          /\ queue' = Append(queue, Status("pick", worker))
          /\ xfer' = [xfer EXCEPT ![worker] = "offered"]
     ELSE /\ xfer' = [xfer EXCEPT ![worker] = "dropped"]
          /\ UNCHANGED <<shares, disk, queue>>
  /\ worker' = 0
  /\ UNCHANGED <<last, text, bus, calls, ui, answer, work, timers, conn, sc>>

TextShared ==
  /\ sc.texts > 0
  /\ sc' = [sc EXCEPT !.texts = @ - 1]
  /\ queue' = Append(queue, Status("text", 0))
  /\ UNCHANGED <<worker, disk, shares, last, text, bus, calls, ui, xfer, answer,
                 work, timers, conn>>

(* emit: retained, then sent to whoever listens.                           *)
Emit(s) == last' = s /\ bus' = Append(bus, s)

(* run: one share at a time; a text holds the process while it is pushed.  *)
Run ==
  /\ ~text
  /\ queue # <<>>
  /\ queue' = Tail(queue)
  /\ IF Head(queue).p = "text"
     THEN /\ text' = TRUE
          /\ work' = [work EXCEPT !.shares = @ + 1]
          /\ Emit(Status("sending", 0))
     ELSE /\ Emit(Head(queue))
          /\ UNCHANGED <<text, work>>
  /\ UNCHANGED <<worker, disk, shares, calls, ui, xfer, answer, timers, conn, sc>>

(* share_text: refused, reported or unconfirmed after REPORT_TIMEOUT.      *)
TextDone ==
  /\ text
  /\ text' = FALSE
  /\ work' = [work EXCEPT !.shares = @ - 1]
  /\ \E p \in {"done", "error"} : Emit(Status(p, 0))
  /\ UNCHANGED <<worker, disk, shares, queue, calls, ui, xfer, answer, timers, conn, sc>>

-----------------------------------------------------------------------------
(* The webview.                                                            *)

Call(c, i) == [c |-> c, id |-> i]

(* #dropPending.                                                           *)
DropPending(keep) ==
  IF ui.pending # 0 /\ ui.pending # keep THEN <<Call("discard", ui.pending)>> ELSE <<>>

(* #applyShare.                                                            *)
ApplyShare(s, u) ==
  CASE s.p = "pick" -> /\ ui' = [u EXCEPT !.pending = s.id]
                       /\ calls' = calls \o DropPending(s.id)
    [] s.p = "preparing" -> /\ ui' = [u EXCEPT !.pending = 0]
                            /\ calls' = calls \o DropPending(0)
    [] OTHER -> ui' = u /\ UNCHANGED calls

(* start(): subscribe, then read the retained status, unless an event came.*)
(* What was emitted before the reply reaches the webview before it, and    *)
(* the commands of a page that died are handled before another loads.      *)
UiSubscribes ==
  /\ ui.boot = "new"
  /\ calls = <<>>
  /\ ui' = [ui EXCEPT !.boot = "listening"]
  /\ UNCHANGED <<worker, disk, shares, last, queue, text, bus, calls, xfer, answer,
                 work, timers, conn, sc>>

UiReads ==
  /\ ui.boot = "listening"
  /\ bus = <<>>
  /\ IF last # None /\ ~ui.saw THEN ApplyShare(last, [ui EXCEPT !.boot = "done"])
     ELSE ui' = [ui EXCEPT !.boot = "done"] /\ UNCHANGED calls
  /\ UNCHANGED <<worker, disk, shares, last, queue, text, bus, xfer, answer,
                 work, timers, conn, sc>>

Release(i) == IF i \in ui.carried THEN <<Call("discard", i)>> ELSE <<>>

(* An event: a share's status, or a transfer that started or ended.  The   *)
(* one that ended releases the share it carried (#releaseShare).           *)
UiHandles ==
  /\ bus # <<>>
  /\ bus' = Tail(bus)
  /\ LET e == Head(bus) IN
     IF ui.boot = "new" THEN UNCHANGED <<ui, calls>>
     ELSE CASE e.p = "started" -> /\ ui' = [ui EXCEPT !.active = @ \union {e.id}]
                                  /\ UNCHANGED calls
            [] e.p = "ended" ->
                 /\ ui' = [ui EXCEPT !.carried = @ \ {e.id}, !.active = @ \ {e.id},
                             !.ended = IF e.id \in ui.active THEN @ \union {e.id} ELSE @]
                 /\ calls' = calls \o Release(e.id)
            [] OTHER -> ApplyShare(e, [ui EXCEPT !.saw = TRUE])
  /\ UNCHANGED <<worker, disk, shares, last, queue, text, xfer, answer, work, timers,
                 conn, sc>>

(* sendShare: the share is taken before anything can await.                *)
TakenNever(i) == <<>>
Taken(i) == <<Call("taken", i)>>

SendShare ==
  /\ ui.boot = "done"
  /\ ui.pending # 0
  /\ ui' = [ui EXCEPT !.pending = 0, !.sending = @ \union {ui.pending}]
  /\ calls' = calls \o Taken(ui.pending) \o <<Call("send", ui.pending)>>
  /\ UNCHANGED <<worker, disk, shares, last, queue, text, bus, xfer, answer, work,
                 timers, conn, sc>>

CancelShare ==
  /\ ui.boot = "done"
  /\ ui.pending # 0
  /\ ui' = [ui EXCEPT !.pending = 0]
  /\ calls' = calls \o DropPending(0)
  /\ UNCHANGED <<worker, disk, shares, last, queue, text, bus, xfer, answer, work,
                 timers, conn, sc>>

(* The answer of files.send: a refusal drops the copy; a transfer that has *)
(* already ended is released at once, nothing will say it again.           *)
EndedBefore(i) == i \in ui.ended

SendAnswered ==
  \E i \in ui.sending :
    /\ answer[i] # "none"
    /\ answer' = [answer EXCEPT ![i] = "none"]
    /\ ui' = [ui EXCEPT !.sending = @ \ {i},
                        !.carried = IF answer[i] = "ok" /\ ~EndedBefore(i)
                                    THEN @ \union {i} ELSE @]
    /\ calls' = calls \o <<Call("sent", i)>>
                \o (IF answer[i] = "no" \/ EndedBefore(i)
                    THEN <<Call("discard", i)>> ELSE <<>>)
    /\ UNCHANGED <<worker, disk, shares, last, queue, text, bus, xfer, work, timers,
                   conn, sc>>

SignIn ==
  /\ ui.boot = "done"
  /\ sc.auths > 0
  /\ sc' = [sc EXCEPT !.auths = @ - 1]
  /\ calls' = Append(calls, Call("auth", 0))
  /\ UNCHANGED <<worker, disk, shares, last, queue, text, bus, ui, xfer, answer, work,
                 timers, conn>>

UiDies ==
  /\ sc.deaths > 0
  /\ ui.boot # "new"
  /\ sc' = [sc EXCEPT !.deaths = @ - 1]
  /\ ui' = [boot |-> "new", saw |-> FALSE, pending |-> 0, sending |-> {},
            carried |-> {}, active |-> {}, ended |-> {}]
  /\ UNCHANGED <<worker, disk, shares, last, queue, text, bus, calls, xfer, answer,
                 work, timers, conn>>

(* The shell handles a command; files.send goes on to the Core.            *)
Handle ==
  /\ calls # <<>>
  /\ calls' = Tail(calls)
  /\ LET c == Head(calls) IN
     CASE c.c = "taken" -> /\ last' = Forgotten(last, c.id)
                           /\ UNCHANGED <<shares, disk, xfer, answer, work, timers>>
       [] c.c = "discard" -> Discard(c.id) /\ UNCHANGED <<xfer, answer, work, timers>>
       [] c.c = "send" -> /\ KeepOn("send")
                          /\ IF conn
                             THEN xfer' = [xfer EXCEPT ![c.id] = "asked"] /\ UNCHANGED answer
                             ELSE answer' = [answer EXCEPT ![c.id] = "no"] /\ UNCHANGED xfer
                          /\ UNCHANGED <<shares, disk, last>>
       [] c.c = "sent" -> KeepOff("send") /\ UNCHANGED <<shares, disk, last, xfer, answer>>
       [] c.c = "auth" -> KeepOn("auth") /\ UNCHANGED <<shares, disk, last, xfer, answer>>
  /\ UNCHANGED <<worker, queue, text, bus, ui, conn, sc>>

-----------------------------------------------------------------------------
(* The Core.                                                               *)

(* files.send freezes the manifest of files that exist, and the transfer   *)
(* announces itself; the answer and the announcement race.                 *)
CoreAccepts ==
  \E i \in Ids :
    /\ xfer[i] = "asked"
    /\ conn
    /\ IF i \in disk
       THEN xfer' = [xfer EXCEPT ![i] = "accepted"] /\ answer' = [answer EXCEPT ![i] = "ok"]
       ELSE xfer' = [xfer EXCEPT ![i] = "dropped"] /\ answer' = [answer EXCEPT ![i] = "no"]
    /\ UNCHANGED <<worker, disk, shares, last, queue, text, bus, calls, ui, work,
                   timers, conn, sc>>

CoreRefuses ==
  \E i \in Ids :
    /\ xfer[i] = "asked"
    /\ conn
    /\ xfer' = [xfer EXCEPT ![i] = "dropped"]
    /\ answer' = [answer EXCEPT ![i] = "no"]
    /\ UNCHANGED <<worker, disk, shares, last, queue, text, bus, calls, ui, work,
                   timers, conn, sc>>

Tell(p, i) ==
  IF conn THEN /\ bus' = Append(bus, Status(p, i))
               /\ work' = IF p = "started" THEN NoteStarted(work, i) ELSE NoteEnded(work, i)
  ELSE UNCHANGED <<bus, work>>

TransferStarts ==
  \E i \in Ids :
    /\ xfer[i] = "accepted"
    /\ xfer' = [xfer EXCEPT ![i] = "active"]
    /\ Tell("started", i)
    /\ UNCHANGED <<worker, disk, shares, last, queue, text, calls, ui, answer, timers,
                   conn, sc>>

TransferEnds ==
  \E i \in Ids :
    /\ xfer[i] = "active"
    /\ xfer' = [xfer EXCEPT ![i] = "over"]
    /\ Tell("ended", i)
    /\ UNCHANGED <<worker, disk, shares, last, queue, text, calls, ui, answer, timers,
                   conn, sc>>

(* session.changed lands: the browser round trip is over.                  *)
SignedIn ==
  /\ work.auth > 0
  /\ conn
  /\ work' = [work EXCEPT !.auth = 0]
  /\ UNCHANGED <<worker, disk, shares, last, queue, text, bus, calls, ui, xfer, answer,
                 timers, conn, sc>>

(* The connection is lost; what was asked and not answered is answered     *)
(* "disconnected", whatever the Core made of it.                           *)
Lost ==
  /\ conn
  /\ sc.losses > 0
  /\ sc' = [sc EXCEPT !.losses = @ - 1]
  /\ conn' = FALSE
  /\ work' = OnLoss(work)
  /\ answer' = [i \in Ids |-> IF xfer[i] = "asked" \/ answer[i] = "ok" THEN "no"
                              ELSE answer[i]]
  /\ xfer' = [i \in Ids |-> IF xfer[i] = "asked" THEN "dropped" ELSE xfer[i]]
  /\ UNCHANGED <<worker, disk, shares, last, queue, text, bus, calls, ui, timers>>

Redialled ==
  /\ ~conn
  /\ conn' = TRUE
  /\ UNCHANGED <<worker, disk, shares, last, queue, text, bus, calls, ui, xfer, answer,
                 work, timers, sc>>

-----------------------------------------------------------------------------
Init ==
  /\ sc \in Scenarios
  /\ worker = 0
  /\ disk = {}
  /\ shares = {}
  /\ last = None
  /\ queue = <<>>
  /\ text = FALSE
  /\ bus = <<>>
  /\ calls = <<>>
  /\ ui = [boot |-> "new", saw |-> FALSE, pending |-> 0, sending |-> {},
           carried |-> {}, active |-> {}, ended |-> {}]
  /\ xfer = [i \in 1..sc.files |-> "new"]
  /\ answer = [i \in 1..sc.files |-> "none"]
  /\ work = [transfers |-> {}, shares |-> 0, send |-> 0, auth |-> 0, n |-> 0]
  /\ timers = {}
  /\ conn = TRUE

Shell == Run \/ TextDone \/ Handle \/ Expire
Webview == UiSubscribes \/ UiReads \/ UiHandles \/ SendAnswered
Core == CoreAccepts \/ CoreRefuses \/ TransferStarts \/ TransferEnds \/ SignedIn
        \/ Redialled
Human == StartCopy \/ TextShared \/ SendShare \/ CancelShare \/ SignIn
Faults == UiDies \/ Lost \/ CopyFails

Next == Shell \/ Webview \/ Core \/ Human \/ Copied \/ Faults

(* Every queue is drained, timers fire, transfers and texts end, the       *)
(* client redials.  Nothing makes the human answer or the browser return.  *)
Fairness ==
  /\ WF_vars(Run) /\ WF_vars(TextDone) /\ WF_vars(Handle) /\ WF_vars(Expire)
  /\ WF_vars(Webview) /\ WF_vars(Copied \/ CopyFails)
  /\ WF_vars(CoreAccepts) /\ WF_vars(TransferStarts) /\ WF_vars(TransferEnds)
  /\ WF_vars(Redialled)


Spec == Init /\ [][Next]_vars /\ Fairness

-----------------------------------------------------------------------------
(* PROPERTIES                                                              *)

(* The copy a transfer is reading is there until the transfer ends: no     *)
(* later share, no sweep, no picker left open takes it away (share.rs:     *)
(* register, discard_pending, share_taken; store.svelte.ts sendShare).     *)
(* With the connection to the Core kept: see the README for a lost one.    *)
CopyKept ==
  \A i \in Ids : (xfer[i] \in {"accepted", "active"} /\ sc.reliable) => i \in disk

(* The process is let go: whatever the webview, the browser or the         *)
(* connection do, every hold ends (keepalive.rs:29-33, "Every hold is      *)
(* bounded").                                                              *)
NoHold == Published = "none"
HoldsEnd == <>[]NoHold

(* A files.send waiting to be accepted holds the process up.               *)
SendsHeld == \A i \in Ids : xfer[i] = "asked" => Published = "transfer"
=============================================================================
