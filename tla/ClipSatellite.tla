--------------------------- MODULE ClipSatellite ---------------------------
(***************************************************************************)
(* The clipboard satellite (clipboard/): the orchestrator that talks to    *)
(* the Core, and the three back ends that own the operating system's       *)
(* clipboard.  The Core's election is external and reduced to a counter:   *)
(* transactions are numbered in the order the Core elected them, so a      *)
(* larger number supersedes a smaller one.                                 *)
(*                                                                         *)
(* What is offered, copied or pasted is named by its origin: a remote clip *)
(* by its transaction, a local copy by its number.  0 stands for nothing.  *)
(*                                                                         *)
(* The X11 loop handles commands and X events one at a time.  Windows and  *)
(* macOS block their loop inside a paste until PasteSync resolves, so      *)
(* commands wait and only the answers get through.                         *)
(***************************************************************************)
EXTENDS Naturals, Sequences, FiniteSets

CONSTANTS Systems,      \* the back ends to consider: a subset of the three
          MaxTx,        \* transactions the Core elects
          MaxCopies,    \* copies made by other programs of this machine
          MaxPastes,    \* pastes made by programs of this machine
          MaxReads      \* requests for bytes the Core forwards

VARIABLES
  os,      \* which back end runs
  sel,     \* the OS clipboard: who owns it ("none", "app", "us") and what is on it
  xq,      \* what the OS has to tell us: X events, or one posted change notice
  be,      \* the back end's own state
  cmds,    \* commands to the back end's loop, in order
  evs,     \* backend events to the orchestrator, in order
  orc,     \* the orchestrator: promise, announced, the request it awaits
  core,    \* the Core: transactions elected, the current one, its origin
  notes,   \* notifications and requests from the Core, in order
  tasks,   \* spawned tasks: pastes being fetched, reads being served
  served,  \* history: bytes answered to the Core for a transaction
  pasted   \* history: bytes given to local programs

vars == <<os, sel, xq, be, cmds, evs, orc, core, notes, tasks, served, pasted>>

Us == "us"
Idle == [k |-> "idle", gen |-> 0, copy |-> 0, tx |-> 0]
NoAnnounce == [tx |-> 0, gen |-> 0]
NoPaste == [token |-> 0, asked |-> 0]

\* The struct Backend of each system as create/new leaves it.  `reading` is
\* the synchronous read of a foreign copy, `stash` the owner change noticed
\* during it, `slot` the single outcome PasteSync holds.
Backend0 ==
  [owned |-> FALSE, advertised |-> 0, foreign |-> FALSE, files |-> 0,
   cacheGen |-> 0, cache |-> 0, nextGen |-> 1, nextToken |-> 1,
   pending |-> NoPaste, reading |-> FALSE, stash |-> "",
   slot |-> [k |-> "none", token |-> 0, tx |-> 0], sends |-> {}]

Init ==
  /\ os \in Systems
  /\ sel = [who |-> "none", id |-> 0]
  /\ xq = <<>> /\ cmds = <<>> /\ evs = <<>> /\ notes = <<>>
  /\ be = Backend0
  /\ orc = [promise |-> 0, announced |-> NoAnnounce, wait |-> Idle]
  /\ core = [txs |-> 0, cur |-> 0, copyOf |-> [t \in 1..MaxTx |-> 0],
             kind |-> [t \in 1..MaxTx |-> "none"], copies |-> 0, reads |-> 0]
  /\ tasks = {} /\ served = {} /\ pasted = {}

-----------------------------------------------------------------------------
\* The world: other programs and other devices.

\* What the OS tells us when the owner goes from `old` to `new`.  X11 queues a
\* SelectionClear to a displaced owner and an XFixes notice; Windows posts one
\* WM_CLIPBOARDUPDATE; macOS only moves changeCount.
Notices(old, new) ==
  CASE os = "x11" ->
         (IF old = Us /\ new # Us THEN <<"clear">> ELSE <<>>) \o <<new>>
    [] OTHER -> IF xq = <<>> THEN <<"changed">> ELSE <<>>

OwnerBecomes(who, id) ==
  /\ sel' = [who |-> who, id |-> id]
  /\ xq' = xq \o Notices(sel.who, who)

\* Another program copies something, or gives its copy up.
AppCopies ==
  /\ core.copies < MaxCopies
  /\ core' = [core EXCEPT !.copies = @ + 1]
  /\ OwnerBecomes("app", core.copies + 1)
  /\ UNCHANGED <<os, be, cmds, evs, orc, notes, tasks, served, pasted>>

AppClears ==
  /\ sel.who = "app"
  /\ OwnerBecomes("none", 0)
  /\ UNCHANGED <<os, be, cmds, evs, orc, core, notes, tasks, served, pasted>>

\* Another device announces a clip, inline or files, or an empty one.
RemoteAnnounces(kind) ==
  /\ core.txs < MaxTx
  /\ core' = [core EXCEPT !.txs = @ + 1, !.cur = core.txs + 1,
                          !.kind[core.txs + 1] = kind]
  /\ notes' = Append(notes, [k |-> "updated", tx |-> core.txs + 1])
  /\ UNCHANGED <<os, sel, xq, be, cmds, evs, orc, tasks, served, pasted>>

\* Another device pastes our current clip: the Core forwards get_data.
RemotePastes ==
  /\ core.reads < MaxReads /\ core.cur # 0 /\ core.copyOf[core.cur] # 0
  /\ core' = [core EXCEPT !.reads = @ + 1]
  /\ notes' = Append(notes, [k |-> "get", tx |-> core.cur])
  /\ UNCHANGED <<os, sel, xq, be, cmds, evs, orc, tasks, served, pasted>>

-----------------------------------------------------------------------------
\* The orchestrator.

Push(c) == cmds' = Append(cmds, c)
Cmd(k, token, tx) == [k |-> k, token |-> token, tx |-> tx]

\* offer_clip: a files clip goes by its own seam, with a fetcher bound to it.
OfferCmd(t) == Cmd(IF core.kind[t] = "files" THEN "offer_files" ELSE "offer", 0, t)

\* on_remote_updated
OnRemoteUpdated(t) ==
  /\ IF core.kind[t] = "empty"
       THEN /\ orc' = [orc EXCEPT !.promise = 0]
            /\ Push(Cmd("release", 0, 0))
            /\ be' = [be EXCEPT !.slot = IF os = "x11" THEN @
                                         ELSE [k |-> "abort", token |-> 0, tx |-> 0]]
       ELSE /\ orc' = [orc EXCEPT !.promise = t, !.announced = NoAnnounce]
            /\ Push(OfferCmd(t))
            /\ UNCHANGED be
  /\ UNCHANGED <<tasks, core>>

\* dispatch_get_data: the generation is captured now, the bytes are asked for
\* by a task of their own.
DispatchGetData(t) ==
  /\ tasks' = tasks \cup {[k |-> "serve", token |-> 0, tx |-> t,
                           gen |-> IF orc.announced.tx = t THEN orc.announced.gen ELSE 0]}
  /\ UNCHANGED <<orc, cmds, be, core>>

\* resync on Connected: clipboard.current is promised unless it is ours.
Resync ==
  /\ IF core.cur = 0 \/ core.copyOf[core.cur] # 0 \/ core.kind[core.cur] = "empty"
       THEN UNCHANGED <<orc, cmds>>
       ELSE /\ orc' = [orc EXCEPT !.promise = core.cur]
            /\ Push(OfferCmd(core.cur))
  /\ UNCHANGED <<tasks, be, core>>

Listening == orc.wait = Idle

\* on_ipc_event: the next event of the Core.
OnIpcEvent ==
  /\ Listening /\ notes # <<>>
  /\ notes' = Tail(notes)
  /\ LET n == Head(notes) IN
       CASE n.k = "updated" -> OnRemoteUpdated(n.tx)
         [] n.k = "get" -> DispatchGetData(n.tx)
         [] n.k = "connected" -> Resync
  /\ UNCHANGED <<os, sel, xq, evs, served, pasted>>

\* dispatch_paste: a promised format is fetched by a task under the CURRENT
\* promise; otherwise the paste fails at once.
DispatchPaste(token) ==
  IF orc.promise # 0 /\ core.kind[orc.promise] = "inline"
    THEN /\ tasks' = tasks \cup {[k |-> "fetch", token |-> token, tx |-> orc.promise, gen |-> 0]}
         /\ UNCHANGED <<cmds, be>>
    ELSE /\ UNCHANGED tasks
         /\ IF os = "x11"
              THEN Push(Cmd("paste_failed", token, 0)) /\ UNCHANGED be
              ELSE UNCHANGED cmds /\ be' = [be EXCEPT !.slot = [k |-> "refuse", token |-> token, tx |-> 0]]

\* on_backend_event: announce and clear suspend the orchestrator on the
\* Core's reply.
OnBackendEvent ==
  /\ Listening /\ evs # <<>>
  /\ evs' = Tail(evs)
  /\ LET e == Head(evs) IN
       CASE e.k = "copied" ->
              /\ orc' = [orc EXCEPT !.wait = [k |-> "announce", gen |-> e.gen, copy |-> e.copy, tx |-> 0]]
              /\ UNCHANGED <<tasks, cmds, be>>
         [] e.k = "cleared" ->
              /\ orc' = [orc EXCEPT !.wait = [k |-> "clear", gen |-> 0, copy |-> 0, tx |-> 0]]
              /\ UNCHANGED <<tasks, cmds, be>>
         [] e.k = "paste" -> DispatchPaste(e.gen) /\ UNCHANGED orc
  /\ UNCHANGED <<os, sel, xq, core, notes, served, pasted>>

\* The Core elects our announce (external): a new transaction of our origin.
CoreElects ==
  /\ ~Listening /\ orc.wait.tx = 0 /\ core.txs < MaxTx
  /\ LET t == core.txs + 1 IN
       /\ core' = [core EXCEPT !.txs = t, !.cur = t, !.copyOf[t] = orc.wait.copy,
                               !.kind[t] = IF orc.wait.k = "clear" THEN "empty" ELSE "inline"]
       /\ orc' = [orc EXCEPT !.wait.tx = t]
  /\ UNCHANGED <<os, sel, xq, be, cmds, evs, notes, tasks, served, pasted>>

\* announce and clear resume with the reply, or with an error that changes
\* nothing.
Replied ==
  /\ ~Listening /\ orc.wait.tx # 0
  /\ orc' = [promise |-> 0, wait |-> Idle,
             announced |-> IF orc.wait.k = "clear" THEN NoAnnounce
                           ELSE [tx |-> orc.wait.tx, gen |-> orc.wait.gen]]
  /\ UNCHANGED <<os, sel, xq, be, cmds, evs, core, notes, tasks, served, pasted>>

Refused ==
  /\ ~Listening /\ orc.wait.tx = 0
  /\ orc' = [orc EXCEPT !.wait = Idle]
  /\ UNCHANGED <<os, sel, xq, be, cmds, evs, core, notes, tasks, served, pasted>>

\* A request or an event queue that fails, and a reconnection that replays
\* the connection event.
Reconnects ==
  /\ Listening /\ notes = <<>> /\ core.reads < MaxReads
  /\ core' = [core EXCEPT !.reads = @ + 1]
  /\ notes' = <<[k |-> "connected", tx |-> 0]>>
  /\ UNCHANGED <<os, sel, xq, be, cmds, evs, orc, tasks, served, pasted>>

-----------------------------------------------------------------------------
\* The tasks.

\* serve_get_data asks the loop; without a generation it answers CLIP_STALE.
ServeGetData(k) ==
  /\ k.k = "serve"
  /\ tasks' = tasks \ {k}
  /\ IF k.gen = 0 THEN UNCHANGED cmds ELSE Push(Cmd("provide", k.gen, k.tx))
  /\ UNCHANGED <<os, sel, xq, be, evs, orc, core, notes, served, pasted>>

\* consume_paste: the transaction is opened and fetched; it may be stale by
\* now, or fail.  X11 gets the answer as a command, PasteSync resolves it here.
ConsumePaste(k) ==
  /\ k.k = "fetch"
  /\ tasks' = tasks \ {k}
  /\ \E ok \in {TRUE, FALSE} :
       /\ ok => core.cur = k.tx
       /\ IF os = "x11"
            THEN /\ Push(Cmd(IF ok THEN "deliver" ELSE "paste_failed", k.token, k.tx))
                 /\ UNCHANGED be
            ELSE /\ be' = [be EXCEPT !.slot = [k |-> IF ok THEN "bytes" ELSE "refuse",
                                               token |-> k.token, tx |-> k.tx]]
                 /\ UNCHANGED cmds
  /\ UNCHANGED <<os, sel, xq, evs, orc, core, notes, served, pasted>>

-----------------------------------------------------------------------------
\* The back ends' common parts.

Emit(e) == evs' = Append(evs, e)
Event(k, gen, copy) == [k |-> k, gen |-> gen, copy |-> copy]

\* A cache that does not look at the generation (a mutant of CacheGet).
CacheGetAny(gen) == be.cache

\* Cache::get, gated on the generation.
CacheGet(gen) == IF be.cacheGen = gen THEN be.cache ELSE 0

\* What a read stores and emits: a copy read becomes the next generation; an
\* unreadable one invalidates the cache and, if it vouched for something,
\* announces a clear (supersede_local).
Captured(s, copy) ==
  IF copy # 0
    THEN [s EXCEPT !.cacheGen = s.nextGen, !.cache = copy, !.nextGen = s.nextGen + 1]
    ELSE [s EXCEPT !.cache = 0]
CaptureEvents(s, copy) ==
  CASE copy # 0 -> <<Event("copied", s.nextGen, copy)>>
    [] copy = 0 /\ s.cache # 0 -> <<Event("cleared", 0, 0)>>
    [] OTHER -> <<>>

\* Cmd::Provide
Provide(c) ==
  /\ served' = IF CacheGet(c.token) = 0 THEN served
               ELSE served \cup {[tx |-> c.tx, copy |-> CacheGet(c.token)]}
  /\ UNCHANGED <<be, sel, xq, pasted>>

-----------------------------------------------------------------------------
\* X11.

Released(s) == [s EXCEPT !.owned = FALSE, !.advertised = 0]
DropFiles(s) == [s EXCEPT !.files = 0]
Refuse(s) == [s EXCEPT !.pending = NoPaste]

\* take_ownership: SetSelectionOwner for the advertised targets; the reply
\* confirms it.
TakeOwnership(s, t) ==
  /\ be' = [s EXCEPT !.owned = TRUE]
  /\ IF sel.who = Us THEN sel' = [sel EXCEPT !.id = t] /\ xq' = Append(xq, Us)
                     ELSE OwnerBecomes(Us, t)

\* release_ownership: gives the selection up if it believes it owns it; the
\* X server takes it from whoever owns it by now.
ReleaseOwnership(s) ==
  /\ be' = Released(s)
  /\ IF s.owned THEN OwnerBecomes("none", 0) ELSE UNCHANGED <<sel, xq>>

\* An offer that leaves the pending paste standing (a mutant of OnOffer).
OnOfferKeepsPaste(t) ==
  TakeOwnership([DropFiles(be) EXCEPT !.cache = 0, !.advertised = t], t)

\* on_offer: the pending paste is refused, the local capture and the files
\* offer are dropped, the new targets advertised.
OnOffer(t) ==
  TakeOwnership([DropFiles(Refuse(be)) EXCEPT !.cache = 0, !.advertised = t], t)

\* on_offer_files: FUSE, else WebDAV unless the clip is sensitive; else the
\* selection is given up.
OnOfferFiles(t) ==
  \E mounted \in {TRUE, FALSE} :
    IF mounted
      THEN TakeOwnership([Refuse(be) EXCEPT !.cache = 0, !.advertised = t, !.files = t], t)
      ELSE ReleaseOwnership([DropFiles(Refuse(be)) EXCEPT !.cache = 0])

\* on_deliver: only the pending token is answered, in one property or as an
\* INCR send the requestor drains at its own pace.
OnDeliver(c) ==
  /\ UNCHANGED <<sel, xq>>
  /\ IF be.pending.token # c.token THEN UNCHANGED <<be, pasted>>
     ELSE \E incr \in {TRUE, FALSE} :
            /\ be' = [Refuse(be) EXCEPT
                        !.sends = IF incr THEN @ \cup {[asked |-> be.pending.asked, got |-> c.tx]} ELSE @]
            /\ pasted' = IF incr THEN pasted
                         ELSE pasted \cup {[asked |-> be.pending.asked, got |-> c.tx]}

OnPasteFailed(c) ==
  /\ be' = IF be.pending.token = c.token THEN Refuse(be) ELSE be
  /\ UNCHANGED <<sel, xq, pasted>>

\* process_cmds, one command at a time; none is taken during a read.
ProcessX11 ==
  /\ os = "x11" /\ cmds # <<>> /\ ~be.reading
  /\ cmds' = Tail(cmds)
  /\ LET c == Head(cmds) IN
       CASE c.k = "provide" -> Provide(c)
         [] c.k = "offer" -> OnOffer(c.tx) /\ UNCHANGED <<served, pasted>>
         [] c.k = "offer_files" -> OnOfferFiles(c.tx) /\ UNCHANGED <<served, pasted>>
         [] c.k = "deliver" -> OnDeliver(c) /\ UNCHANGED served
         [] c.k = "paste_failed" -> OnPasteFailed(c) /\ UNCHANGED served
         [] c.k = "release" -> ReleaseOwnership(DropFiles(Refuse(be))) /\ UNCHANGED <<served, pasted>>
  /\ UNCHANGED <<os, evs, orc, core, notes, tasks>>

\* dispatch_xcb_event on SelectionClear, in the loop or inside a read.
OnSelectionClear(s) ==
  IF s.owned THEN DropFiles(Released(s)) ELSE s

\* on_clipboard_update: our own ownership is an echo, no owner is a clear if
\* the last one was foreign, a foreign one starts a read.
OnClipboardUpdate(who) ==
  CASE who = Us -> /\ be' = [be EXCEPT !.foreign = FALSE, !.stash = ""]
                   /\ UNCHANGED evs
    [] who = "none" -> /\ be' = [be EXCEPT !.foreign = FALSE, !.stash = ""]
                       /\ evs' = IF be.foreign THEN Append(evs, Event("cleared", 0, 0)) ELSE evs
    [] OTHER -> /\ be' = [be EXCEPT !.foreign = TRUE, !.stash = "", !.reading = TRUE]
                /\ UNCHANGED evs

\* The sub-loops of a read (wait_selection_notify, wait_property_new_value)
\* only remember the last owner change.
Stash(who) == be' = [be EXCEPT !.stash = who] /\ UNCHANGED evs

\* drain_xcb outside a read; wait_selection_notify and wait_property_new_value
\* inside one, where an owner change is only stashed.
DrainXcb ==
  /\ os = "x11" /\ xq # <<>>
  /\ xq' = Tail(xq)
  /\ LET e == Head(xq) IN
       IF e = "clear"
         THEN be' = OnSelectionClear(be) /\ UNCHANGED evs
         ELSE IF be.reading THEN Stash(e)
         ELSE OnClipboardUpdate(e)
  /\ UNCHANGED <<os, sel, cmds, orc, core, notes, tasks, served, pasted>>

\* The loop acts on a stashed owner change once the queue is drained.
ActOnStash ==
  /\ os = "x11" /\ be.stash # "" /\ ~be.reading /\ xq = <<>>
  /\ OnClipboardUpdate(be.stash)
  /\ UNCHANGED <<os, sel, xq, cmds, orc, core, notes, tasks, served, pasted>>

\* read_and_announce_copy: the conversions reach whoever owns the selection
\* now; they may time out, exceed the cap or find nothing usable.  A read that
\* finds our own window is refused by ourselves.
ReadAndAnnounce ==
  /\ os = "x11" /\ be.reading
  /\ \E copy \in {0} \cup (IF sel.who = "app" THEN {sel.id} ELSE {}) :
       /\ be' = [Captured(be, copy) EXCEPT !.reading = FALSE]
       /\ evs' = evs \o CaptureEvents(be, copy)
  /\ UNCHANGED <<os, sel, xq, cmds, orc, core, notes, tasks, served, pasted>>

\* on_selection_request and start_deferred: a files target is answered from
\* the mount at once, an inline one becomes THE pending paste (the one before
\* it is refused) and is asked of the orchestrator.
OnSelectionRequest ==
  /\ os = "x11" /\ sel.who = Us /\ be.nextToken <= MaxPastes
  /\ be.advertised # 0
  /\ IF be.files # 0
       THEN /\ pasted' = pasted \cup {[asked |-> be.advertised, got |-> be.files]}
            /\ be' = [be EXCEPT !.nextToken = @ + 1]
            /\ UNCHANGED evs
       ELSE /\ be' = [be EXCEPT !.nextToken = @ + 1,
                                !.pending = [token |-> be.nextToken, asked |-> be.advertised]]
            /\ Emit(Event("paste", be.nextToken, 0))
            /\ UNCHANGED pasted
  /\ UNCHANGED <<os, sel, xq, cmds, orc, core, notes, tasks, served>>

\* check_paste_timeout
PasteTimesOut ==
  /\ os = "x11" /\ be.pending # NoPaste
  /\ be' = Refuse(be)
  /\ UNCHANGED <<os, sel, xq, cmds, evs, orc, core, notes, tasks, served, pasted>>

\* advance_incr_send to its end, or check_incr_timeouts.
IncrSendEnds(s) ==
  /\ s \in be.sends
  /\ be' = [be EXCEPT !.sends = @ \ {s}]
  /\ \/ pasted' = pasted \cup {s}
     \/ UNCHANGED pasted
  /\ UNCHANGED <<os, sel, xq, cmds, evs, orc, core, notes, tasks, served>>

-----------------------------------------------------------------------------
\* Windows and macOS: the loop blocks inside a paste.

Blocking == os # "x11"
InPaste == be.pending # NoPaste

\* What the OS clipboard becomes when we offer or withdraw.  Windows posts
\* itself a notice; macOS remembers the new changeCount, so the notice of
\* whatever came before is gone.
OursBecomes(who, id) ==
  /\ sel' = [who |-> who, id |-> id]
  /\ xq' = IF os = "mac" THEN <<>> ELSE <<"changed">>

\* relinquish: only what is still ours is emptied (GetClipboardOwner, the OLE
\* object, or changeCount since our own last change).
StillOurs == sel.who = Us /\ (os = "mac" => xq = <<>>)
Relinquish(s) ==
  /\ be' = [s EXCEPT !.owned = FALSE, !.files = 0, !.advertised = 0]
  /\ IF StillOurs THEN OursBecomes("none", 0) ELSE UNCHANGED <<sel, xq>>

\* on_offer of Windows: the formats are promised with delayed rendering.
Promise(t) ==
  /\ be' = [be EXCEPT !.cache = 0, !.owned = TRUE, !.advertised = t, !.files = 0]
  /\ OursBecomes(Us, t)

\* on_offer_files of Windows: an OLE object that pulls on demand; one that
\* cannot be built or set leaves the clipboard given up.
PromiseOle(t) ==
  \/ /\ be' = [be EXCEPT !.cache = 0, !.owned = TRUE, !.advertised = t, !.files = t]
     /\ OursBecomes(Us, t)
  \/ Relinquish([be EXCEPT !.cache = 0])

\* on_offer_files of macOS: a skeleton of empty leaves whose presenters fill
\* them at the first read; no leaf, no directory: the pasteboard is given up.
PromiseSkeleton(t) ==
  \/ /\ be' = [be EXCEPT !.cache = 0, !.owned = TRUE, !.advertised = t, !.files = t]
     /\ OursBecomes(Us, t)
  \/ Relinquish([be EXCEPT !.cache = 0])

\* process_cmds of Windows and of macOS, between two pastes.
ProcessBlocking ==
  /\ Blocking /\ cmds # <<>> /\ ~InPaste
  /\ cmds' = Tail(cmds)
  /\ LET c == Head(cmds) IN
       CASE c.k = "provide" -> Provide(c)
         [] c.k = "offer" -> Promise(c.tx) /\ UNCHANGED <<served, pasted>>
         [] c.k = "offer_files" ->
              /\ IF os = "mac" THEN PromiseSkeleton(c.tx) ELSE PromiseOle(c.tx)
              /\ UNCHANGED <<served, pasted>>
         [] c.k = "release" -> Relinquish(be) /\ UNCHANGED <<served, pasted>>
  /\ UNCHANGED <<os, evs, orc, core, notes, tasks>>

\* What a read of the clipboard as it is now can give: the copy of whoever
\* owns it, or nothing usable.
Readable == {0} \cup (IF sel.who = "app" THEN {sel.id} ELSE {})

ReadNow ==
  \E copy \in Readable :
    /\ be' = [Captured(be, copy) EXCEPT !.owned = FALSE, !.files = 0, !.advertised = 0]
    /\ evs' = evs \o CaptureEvents(be, copy)

\* on_clipboard_update of Windows: our own offers are recognised by owner.
OnClipboardUpdateWindows ==
  /\ os = "windows" /\ xq # <<>> /\ ~InPaste
  /\ xq' = <<>>
  /\ IF sel.who = Us THEN UNCHANGED <<be, evs>> ELSE ReadNow
  /\ UNCHANGED <<os, sel, cmds, orc, core, notes, tasks, served, pasted>>

\* poll_change_count of macOS: whatever moved changeCount since our own last
\* change is foreign.
PollChangeCount ==
  /\ os = "mac" /\ xq # <<>> /\ ~InPaste
  /\ xq' = <<>>
  /\ ReadNow
  /\ UNCHANGED <<os, sel, cmds, orc, core, notes, tasks, served, pasted>>

\* on_render_format / on_provide: PasteSync is reset, a token asked for, and
\* the loop waits.  A files promise is read through its own object.
RenderFormat ==
  /\ Blocking /\ sel.who = Us /\ ~InPaste /\ be.nextToken <= MaxPastes
  /\ IF be.files # 0
       THEN /\ pasted' = pasted \cup {[asked |-> sel.id, got |-> be.files]}
            /\ be' = [be EXCEPT !.nextToken = @ + 1]
            /\ UNCHANGED evs
       ELSE /\ be' = [be EXCEPT !.nextToken = @ + 1, !.slot.k = "none",
                                !.pending = [token |-> be.nextToken, asked |-> sel.id]]
            /\ Emit(Event("paste", be.nextToken, 0))
            /\ UNCHANGED pasted
  /\ UNCHANGED <<os, sel, xq, cmds, orc, core, notes, tasks, served>>

\* PasteSync::wait takes what the slot holds: its own token answers or refuses
\* it, an abort ends it, anything else is dropped.
PasteSyncWakes ==
  /\ Blocking /\ InPaste /\ be.slot.k # "none"
  /\ LET mine == be.slot.k = "abort" \/ be.slot.token = be.pending.token
         done == [be EXCEPT !.slot.k = "none"] IN
       /\ be' = IF mine THEN [done EXCEPT !.pending = NoPaste] ELSE done
       /\ pasted' = IF mine /\ be.slot.k = "bytes"
                      THEN pasted \cup {[asked |-> be.pending.asked, got |-> be.slot.tx]}
                      ELSE pasted
  /\ UNCHANGED <<os, sel, xq, cmds, evs, orc, core, notes, tasks, served>>

PasteSyncTimesOut ==
  /\ Blocking /\ InPaste
  /\ be' = [be EXCEPT !.pending = NoPaste]
  /\ UNCHANGED <<os, sel, xq, cmds, evs, orc, core, notes, tasks, served, pasted>>

-----------------------------------------------------------------------------
Next ==
  \/ AppCopies \/ AppClears
  \/ \E kind \in {"inline", "files", "empty"} : RemoteAnnounces(kind)
  \/ RemotePastes \/ Reconnects
  \/ OnIpcEvent \/ OnBackendEvent \/ CoreElects \/ Replied \/ Refused
  \/ \E k \in tasks : ServeGetData(k) \/ ConsumePaste(k)
  \/ ProcessX11 \/ DrainXcb \/ ActOnStash \/ ReadAndAnnounce
  \/ OnSelectionRequest \/ PasteTimesOut
  \/ \E s \in be.sends : IncrSendEnds(s)
  \/ ProcessBlocking \/ OnClipboardUpdateWindows \/ PollChangeCount \/ RenderFormat
  \/ PasteSyncWakes \/ PasteSyncTimesOut

Spec == Init /\ [][Next]_vars

-----------------------------------------------------------------------------
\* Bytes answered for a transaction are the bytes of the very copy that
\* transaction announced, whatever was copied, offered or cleared between the
\* announce, the request and the answer (orchestrator.rs dispatch_get_data,
\* Cache::get of each back end).
ServesWhatWasAnnounced ==
  \A s \in served : s.copy = core.copyOf[s.tx]

\* On X11 a program that asked for the clip on offer gets that clip or a
\* refusal, never the bytes of the clip that replaced it: an offer refuses
\* the pending paste before it is advertised, and answers follow offers in
\* the same queue (x11.rs on_offer, on_deliver).
PastesWhatWasOffered ==
  os = "x11" => \A p \in pasted : p.got = p.asked

\* The same on every system: not what the blocking back ends do.
PastesWhatWasAsked == \A p \in pasted : p.got = p.asked

\* "A remote copy that reaches us has won the global convergence: it
\* supersedes our own announce" (orchestrator.rs on_remote_updated).
RemoteCopyWon ==
  [][(orc.announced # NoAnnounce /\ orc'.announced = NoAnnounce /\ orc'.promise # 0)
       => orc'.promise > orc.announced.tx]_vars

\* When nothing is under way, a selection our window owns has its offer
\* advertised: a paste is never refused by an owner that forgot its promise
\* (x11.rs on_offer_files, release_ownership).
Quiet == xq = <<>> /\ cmds = <<>> /\ ~be.reading /\ be.stash = ""
OwnedIsOffered == (os = "x11" /\ Quiet /\ sel.who = Us) => be.advertised # 0

\* "release must not wipe another app's clipboard" (clipboard/tests/macos.rs):
\* a copy of another program leaves the clipboard only by another program's
\* hand or for a remote clip.
CopyKept ==
  [][(sel.who = "app" /\ sel'.who = "none") => core' = core /\ cmds' = cmds]_vars
=============================================================================
