---------------------------- MODULE Transactions ----------------------------
(***************************************************************************)
(* The Core's read grants: the clipboard's global election, the published  *)
(* and adopted transactions, and the sessions that read them               *)
(* (core/src/clipboard.rs, clipnet.rs, datachannel.rs and the              *)
(* `clipboard.*` and `transactions.*` handlers of core/src/conn.rs).       *)
(*                                                                         *)
(* A transaction is the right to read a frozen set of resources.  A CLIP   *)
(* is announced to every other device, which elects the highest            *)
(* (seq, device_id); the one it replaces lives on until its last reader    *)
(* leaves.  A PUBLISHED transaction stands outside the election; other     *)
(* devices adopt it, and it ends by a revocation or with its last owning   *)
(* connection.  A session is a near half on the reading Core and, when the *)
(* bytes are on another device, a far half there: each half is a task that *)
(* parks on the Core's one reset `Notify`, which stores no permit.         *)
(*                                                                         *)
(* The bytes, the formats and the manifests are left out: no decision here *)
(* depends on them but whether a clip's bytes came along (`materialized`). *)
(***************************************************************************)
EXTENDS Integers, FiniteSets, Sequences

CONSTANTS
    Core,        \* the account's devices: positive numbers, ordered as device ids
    Conn,        \* control connections; a ConnId is never used twice
    Home,        \* Home[k]: the Core that connection k belongs to
    Slot,        \* places for sessions: the bound on sessions open at once
    MaxNow,      \* bound on the wall clock a copy may read
    MaxTx,       \* bound on the transactions minted
    Workloads    \* how often each event is set off: one of these is chosen at first

ASSUME CoreAssumption == Core \subseteq Nat \ {0} /\ Core # {}
ASSUME ConnAssumption == Home \in [Conn -> Core]
ASSUME SlotAssumption == IsFiniteSet(Slot)
\* What people and components set off; every other step follows from these.
EventKind == {"copy", "publish", "adopt", "revoke", "ask", "close", "clear"}
ASSUME BoundAssumption ==
    /\ MaxNow \in Nat /\ MaxTx \in Nat
    /\ \A w \in Workloads : w \in [EventKind -> Nat] /\ w["copy"] + w["publish"] <= MaxTx

TxId == 1..MaxTx
Side == {"near", "far"}

VARIABLES
    minted,   \* sequence: minted[t] is what the producer fixed about tx t
    tab,      \* tab[c]: the ClipboardState of Core c
    member,   \* member[c]: c still holds the account's directory
    net,      \* clip_announce / clip_push streams; one never delivered stays here
    conn,     \* conn[k]: the control connection, and the adopt it awaits
    slot,     \* slot[i]: what session i reads, for whom
    phase,    \* phase[i][h]: how far the task of half h has come
    woken,    \* halves whose latched `Notified` has fired
    frame,    \* frame[i]: the terminal word the far half left on the stream
    heard,    \* history: the clips c announced or was offered since its last clear
    events    \* events[e]: how many events of kind e are still to come

vars == <<minted, tab, member, net, conn, slot, phase, woken, frame, heard, events>>

Event(e) == events[e] > 0 /\ events' = [events EXCEPT ![e] = @ - 1]

-----------------------------------------------------------------------------
(* Identity of a transaction.                                               *)

IsClip(t) == minted[t].producer = "clip"
SourceOf(t) == minted[t].src
NextTx == Len(minted) + 1

\* `(tx.seq, &tx.device_id)`, compared as Rust compares tuples.
KeyLE(t, u) ==
    \/ minted[t].seq < minted[u].seq
    \/ minted[t].seq = minted[u].seq /\ minted[t].dev <= minted[u].dev

-----------------------------------------------------------------------------
(* ClipboardState: `current` and the table, as functions of the old state.  *)

EmptyTable == [current |-> 0, live |-> {}, superseded |-> {}, cached |-> {},
               sessions |-> [t \in TxId |-> 0], owners |-> [t \in TxId |-> {}]]

remove(T, S) ==
    [current |-> T.current, live |-> T.live \ S, superseded |-> T.superseded \ S,
     cached |-> T.cached \ S,
     sessions |-> [t \in TxId |-> IF t \in S THEN 0 ELSE T.sessions[t]],
     owners |-> [t \in TxId |-> IF t \in S THEN {} ELSE T.owners[t]]]

current_seq(T) == IF T.current = 0 THEN 0 ELSE minted[T.current].seq

\* Mutant: a clip nobody reads is marked and never dropped.
supersede_current_keeps(T) ==
    IF T.current = 0 THEN T
    ELSE [T EXCEPT !.current = 0, !.superseded = @ \cup {T.current}]

\* Mutant: the old clip goes at once, readers or not.
supersede_current_drops(T) ==
    IF T.current = 0 THEN T ELSE remove([T EXCEPT !.current = 0], {T.current})

supersede_current(T) ==
    IF T.current = 0 THEN T
    ELSE LET marked == [T EXCEPT !.current = 0, !.superseded = @ \cup {T.current}]
         IN  IF T.sessions[T.current] = 0 THEN remove(marked, {T.current}) ELSE marked

\* What `announce_local` and a winning `announce_remote` do to the table.
make_current(T, t, bytes) ==
    [supersede_current(T) EXCEPT !.live = @ \cup {t}, !.current = t,
                                 !.cached = IF bytes THEN @ \cup {t} ELSE @]

\* Mutant: the device id does not break a tie.
announce_remote_no_tie(T, t, bytes) ==
    IF t \in T.live \/ (T.current # 0 /\ minted[t].seq <= minted[T.current].seq) THEN T
    ELSE make_current(T, t, bytes)

announce_remote(T, t, bytes) ==
    IF t \in T.live \/ (T.current # 0 /\ KeyLE(t, T.current)) THEN T
    ELSE make_current(T, t, bytes)

is_openable(T, t) == t \in T.live \ T.superseded

begin_session(T, t) == [T EXCEPT !.sessions[t] = @ + 1]

\* Mutant: the count is not saturating.
end_session_wraps(T, t) ==
    IF t \notin T.live THEN T
    ELSE LET closed == [T EXCEPT !.sessions[t] = @ - 1]
         IN  IF t \in T.superseded /\ closed.sessions[t] = 0
             THEN remove(closed, {t}) ELSE closed

end_session(T, t) ==
    IF t \notin T.live THEN T
    ELSE LET left == IF T.sessions[t] = 0 THEN 0 ELSE T.sessions[t] - 1
             closed == [T EXCEPT !.sessions[t] = left]
         IN  IF t \in T.superseded /\ left = 0 THEN remove(closed, {t}) ELSE closed

publish(T, t, k) == [T EXCEPT !.live = @ \cup {t}, !.owners[t] = {k}]

\* The adopter joins the owners; a first adopter installs the entry.
install_adopted(T, t, k) == [T EXCEPT !.live = @ \cup {t}, !.owners[t] = @ \cup {k}]

\* `evict_published` and `revoke` on a published id: gone now, whoever reads it.
evict_published(T, t) == IF t \in T.live /\ ~IsClip(t) THEN remove(T, {t}) ELSE T

OwnedOnlyBy(T, k) == {t \in T.live : ~IsClip(t) /\ T.owners[t] \subseteq {k}}
\* Mutant: only the sole owner's entries are looked at.
revoke_owned_by_sole(T, k) == remove(T, OwnedOnlyBy(T, k))

revoke_owned_by(T, k) ==
    LET kept == [T EXCEPT !.owners = [t \in TxId |-> @[t] \ {k}]]
    IN  remove(kept, OwnedOnlyBy(T, k))

-----------------------------------------------------------------------------
(* Sessions and the reset `Notify`.                                         *)

NoSlot == [kind |-> "none"]
Busy(i) == slot[i].kind # "none"
\* The Core a half runs on: the reader's, or the transaction's source.
At(i, h) == IF h = "near" THEN Home[slot[i].by] ELSE SourceOf(slot[i].tx)
TxOf(i) == slot[i].tx
\* Between its begin_session and its end_session.
Serving(i, h) == Busy(i) /\ phase[i][h] \in {"begun", "armed", "parked"}
LiveAt(i, h) == TxOf(i) \in tab[At(i, h)].live

\* `notify_waiters` reaches the waiters enabled at this instant, and no other.
notify_waiters(c) ==
    {w \in Slot \X Side : /\ Serving(w[1], w[2]) /\ At(w[1], w[2]) = c
                          /\ phase[w[1]][w[2]] # "begun"}

\* A half's task returns.  The slot is free once neither half is there.
Other(h) == IF h = "near" THEN "far" ELSE "near"
Return(i, h, word, fired) ==
    LET last == phase[i][Other(h)] = "off"
    IN  /\ phase' = [phase EXCEPT ![i][h] = "off"]
        /\ slot' = IF last THEN [slot EXCEPT ![i] = NoSlot] ELSE slot
        /\ frame' = [frame EXCEPT ![i] = IF last THEN "none"
                                         ELSE IF h = "far" THEN word ELSE @]
        /\ woken' = (woken \cup fired) \ {<<i, h>>}

-----------------------------------------------------------------------------
Init ==
    /\ minted = <<>>
    /\ tab = [c \in Core |-> EmptyTable]
    /\ member = [c \in Core |-> TRUE]
    /\ net = {}
    /\ conn = [k \in Conn |-> [st |-> "open", tx |-> 0, reply |-> "none"]]
    /\ slot = [i \in Slot |-> NoSlot]
    /\ phase = [i \in Slot |-> [h \in Side |-> "off"]]
    /\ woken = {}
    /\ frame = [i \in Slot |-> "none"]
    /\ heard = [c \in Core |-> {}]
    /\ events \in Workloads

SessionsUnchanged == UNCHANGED <<slot, phase, woken, frame>>
-----------------------------------------------------------------------------
(* The election.                                                            *)

\* clipboard.updated: `now` is whatever the wall clock reads.  The seq is
\* floored above the current clip's.  A device outside an account has no
\* device_id (0) and no peers.
clipboard_updated(c, now, bytes) ==
    /\ Event("copy")
    /\ LET t == NextTx
           floor == current_seq(tab[c]) + 1
       IN  /\ minted' = Append(minted, [producer |-> "clip", src |-> c,
                                        dev |-> IF member[c] THEN c ELSE 0,
                                        seq |-> IF now > floor THEN now ELSE floor])
           /\ tab' = [tab EXCEPT ![c] = make_current(@, t, bytes)]
           /\ net' = net \cup
                 {[tx |-> t, to |-> p, push |-> bytes, checked |-> FALSE] :
                    p \in IF member[c] THEN Core \ {c} ELSE {}}
           /\ heard' = [heard EXCEPT ![c] = @ \cup {t}]
    /\ UNCHANGED <<member, conn>> /\ SessionsUnchanged

\* NO_DIRECT_PATH: the bytes may not ride the relays, the announce may.
FallBack(m) ==
    /\ m.push /\ ~m.checked
    /\ net' = (net \ {m}) \cup {[m EXCEPT !.push = FALSE]}
    /\ UNCHANGED <<minted, tab, member, conn, heard, events>> /\ SessionsUnchanged

\* The claimed source must resolve in the receiver's directory, or the
\* announce is dropped.  A clip_push then awaits its blobs.
build_remote_tx(m) ==
    /\ m.push /\ ~m.checked /\ member[m.to]
    /\ net' = (net \ {m}) \cup {[m EXCEPT !.checked = TRUE]}
    /\ UNCHANGED <<minted, tab, member, conn, heard, events>> /\ SessionsUnchanged

\* recv_announce, and recv_push once the blobs are there.
recv_announce(m) ==
    /\ IF m.push THEN m.checked ELSE member[m.to]
    /\ net' = net \ {m}
    /\ tab' = [tab EXCEPT ![m.to] = announce_remote(@, m.tx, m.push)]
    /\ heard' = [heard EXCEPT ![m.to] = @ \cup {m.tx}]
    /\ UNCHANGED <<minted, member, conn, events>> /\ SessionsUnchanged

\* clear_all and the wake: a logout, or the account striking the device off
\* (its directory goes first, `leaves`).
Clear(c, leaves) ==
    /\ Event("clear")
    /\ leaves => member[c]
    /\ tab' = [tab EXCEPT ![c] = EmptyTable]
    /\ member' = [member EXCEPT ![c] = @ /\ ~leaves]
    /\ woken' = woken \cup notify_waiters(c)
    /\ heard' = [heard EXCEPT ![c] = {}]
    /\ UNCHANGED <<minted, net, conn, slot, phase, frame>>
-----------------------------------------------------------------------------
(* Publishers and adopters.                                                 *)

transactions_publish(k) ==
    /\ conn[k].st = "open" /\ Event("publish")
    /\ minted' = Append(minted, [producer |-> "pub", src |-> Home[k],
                                 dev |-> Home[k], seq |-> 0])
    /\ tab' = [tab EXCEPT ![Home[k]] = publish(@, NextTx, k)]
    /\ UNCHANGED <<member, net, conn, heard>> /\ SessionsUnchanged

\* An unknown id is a no-op, a clip is refused.
transactions_revoke(k, t) ==
    LET c == Home[k] IN
    /\ Event("revoke")
    /\ conn[k].st = "open" /\ t \in tab[c].live /\ ~IsClip(t)
    /\ tab' = [tab EXCEPT ![c] = evict_published(@, t)]
    /\ woken' = woken \cup notify_waiters(c)
    /\ UNCHANGED <<minted, member, net, conn, slot, phase, frame, heard>>

\* transactions.adopt up to its await: the connection serves nothing else,
\* its own teardown included, until the exchange is over.
adopt(k, t) ==
    /\ Event("adopt")
    /\ conn[k].st = "open" /\ ~IsClip(t) /\ SourceOf(t) # Home[k]
    /\ member[Home[k]]
    /\ conn' = [conn EXCEPT ![k] = [st |-> "adopting", tx |-> t, reply |-> "none"]]
    /\ UNCHANGED <<minted, tab, member, net, heard>> /\ SessionsUnchanged

\* The source answers; one outside the account answers nobody.
serve_tx_fetch(k) ==
    /\ conn[k].st = "adopting" /\ conn[k].reply = "none"
    /\ LET s == SourceOf(conn[k].tx) IN
         /\ member[s]
         /\ conn' = [conn EXCEPT ![k].reply =
                       IF conn[k].tx \in tab[s].live THEN "manifest" ELSE "stale"]
    /\ UNCHANGED <<minted, tab, member, net, heard, events>> /\ SessionsUnchanged

AdoptDone(k) == conn' = [conn EXCEPT ![k] = [st |-> "open", tx |-> 0, reply |-> "none"]]

\* Nothing usable in time: DEVICE_OFFLINE.
AdoptFails(k) ==
    /\ conn[k].st = "adopting"
    /\ AdoptDone(k)
    /\ UNCHANGED <<minted, tab, member, net, heard, events>> /\ SessionsUnchanged

AdoptInstalls(k) ==
    /\ conn[k].st = "adopting" /\ conn[k].reply = "manifest"
    /\ tab' = [tab EXCEPT ![Home[k]] = install_adopted(@, conn[k].tx, k)]
    /\ AdoptDone(k)
    /\ UNCHANGED <<minted, member, net, heard, events>> /\ SessionsUnchanged

\* The source's own word that it no longer backs the id.
AdoptEvicts(k) ==
    LET c == Home[k] IN
    /\ conn[k].st = "adopting" /\ conn[k].reply = "stale"
    /\ tab' = [tab EXCEPT ![c] = evict_published(@, conn[k].tx)]
    /\ woken' = IF tab'[c] # tab[c] THEN woken \cup notify_waiters(c) ELSE woken
    /\ AdoptDone(k)
    /\ UNCHANGED <<minted, member, net, slot, phase, frame, heard, events>>

\* The read loop has ended: tokens that never attached are reclaimed, and the
\* published transactions lose this owner.
teardown(k) ==
    LET c == Home[k]
        dropped == {i \in Slot : /\ Busy(i) /\ slot[i].by = k
                                 /\ slot[i].kind = "channel" /\ phase[i]["near"] = "granted"}
    IN  /\ Event("close")
        /\ conn[k].st = "open"
        /\ conn' = [conn EXCEPT ![k].st = "closed"]
        /\ slot' = [i \in Slot |-> IF i \in dropped THEN NoSlot ELSE slot[i]]
        /\ phase' = [i \in Slot |-> IF i \in dropped THEN [h \in Side |-> "off"] ELSE phase[i]]
        /\ tab' = [tab EXCEPT ![c] = revoke_owned_by(@, k)]
        /\ woken' = IF OwnedOnlyBy(tab[c], k) # {} THEN woken \cup notify_waiters(c) ELSE woken
        /\ UNCHANGED <<minted, member, net, frame, heard>>
-----------------------------------------------------------------------------
(* Sessions.                                                                *)

\* transactions.open mints a token; transactions.fill spawns the task.  A clip
\* whose bytes are elsewhere needs its source reachable (open only).
Ask(i, k, t, kind) ==
    LET c == Home[k] IN
    /\ Event("ask")
    /\ ~Busy(i) /\ conn[k].st = "open"
    /\ is_openable(tab[c], t)
    /\ kind = "fill" => t \notin tab[c].cached   \* bytes that came along are no files
    /\ kind = "channel" /\ t \notin tab[c].cached /\ SourceOf(t) # c => member[c]
    /\ slot' = [slot EXCEPT ![i] = [kind |-> kind, by |-> k, tx |-> t,
                                    relay |-> FALSE, dialed |-> FALSE]]
    /\ phase' = [phase EXCEPT ![i]["near"] = "granted"]
    /\ UNCHANGED <<minted, tab, member, net, conn, woken, frame, heard>>

\* serve_consumer (the token attaches) or run_fill: begin_session, or TX_STALE.
serve_consumer(i) ==
    LET c == At(i, "near") t == TxOf(i) IN
    /\ Busy(i) /\ phase[i]["near"] = "granted"
    /\ \/ /\ LiveAt(i, "near")
          /\ tab' = [tab EXCEPT ![c] = begin_session(@, t)]
          /\ slot' = [slot EXCEPT ![i].relay = t \notin tab[c].cached /\ SourceOf(t) # c]
          /\ phase' = [phase EXCEPT ![i]["near"] = "begun"]
          /\ UNCHANGED <<woken, frame>>
       \/ /\ ~LiveAt(i, "near")
          /\ Return(i, "near", "none", {})
          /\ UNCHANGED tab
    /\ UNCHANGED <<minted, member, net, conn, heard, events>>

\* The relay: pipe_consumer dials before it arms, a fill dials meanwhile.
Dial(i) ==
    /\ Serving(i, "near") /\ slot[i].relay /\ ~slot[i].dialed
    /\ member[At(i, "near")]
    /\ slot' = [slot EXCEPT ![i].dialed = TRUE]
    /\ phase' = [phase EXCEPT ![i]["far"] = "granted"]
    /\ UNCHANGED <<minted, tab, member, net, conn, woken, frame, heard, events>>

\* serve_session on the source: the same entry point, always local there.
serve_session(i) ==
    LET s == At(i, "far") IN
    /\ Busy(i) /\ phase[i]["far"] = "granted"
    /\ \/ /\ member[s] /\ LiveAt(i, "far")
          /\ tab' = [tab EXCEPT ![s] = begin_session(@, TxOf(i))]
          /\ phase' = [phase EXCEPT ![i]["far"] = "begun"]
          /\ UNCHANGED <<slot, woken, frame>>
       \/ /\ member[s] /\ ~LiveAt(i, "far")
          /\ Return(i, "far", "stale", {})
          /\ UNCHANGED tab
       \/ /\ ~member[s]
          /\ Return(i, "far", "gone", {})
          /\ UNCHANGED tab
    /\ UNCHANGED <<minted, member, net, conn, heard, events>>

\* `reset.enable()`: first of all, and again at each wake, BEFORE the check.
Arm(i, h) ==
    /\ Serving(i, h)
    /\ \/ phase[i][h] = "begun"
          /\ h = "near" /\ slot[i].relay /\ slot[i].kind = "channel" => slot[i].dialed
       \/ phase[i][h] = "parked" /\ <<i, h>> \in woken
    /\ phase' = [phase EXCEPT ![i][h] = "armed"]
    /\ woken' = woken \ {<<i, h>>}
    /\ UNCHANGED <<minted, tab, member, net, conn, slot, frame, heard, events>>

\* Mutant: no liveness check after the waiter is enabled.
Park_unchecked(i, h) ==
    /\ Serving(i, h) /\ phase[i][h] = "armed"
    /\ phase' = [phase EXCEPT ![i][h] = "parked"]
    /\ UNCHANGED <<minted, tab, member, net, conn, slot, woken, frame, heard, events>>

\* `is_live`: the half parks (READs and FETCHes are served from there).
Park(i, h) ==
    /\ Serving(i, h) /\ phase[i][h] = "armed" /\ LiveAt(i, h)
    /\ phase' = [phase EXCEPT ![i][h] = "parked"]
    /\ UNCHANGED <<minted, tab, member, net, conn, slot, woken, frame, heard, events>>

\* The half returns and end_session runs.  A relayed TX_STALE, and any TX_STALE
\* of a fill, also evicts the published entry and wakes its siblings.
Finish(i, h, word, evicts) ==
    LET c == At(i, h)
        T == end_session(tab[c], TxOf(i))
        E == IF evicts THEN evict_published(T, TxOf(i)) ELSE T
    IN  /\ tab' = [tab EXCEPT ![c] = E]
        /\ Return(i, h, word, IF E # T THEN notify_waiters(c) ELSE {})
        /\ UNCHANGED <<minted, member, net, conn, heard, events>>

\* The entry is gone: seen by the check after a wake, by the next READ or
\* FETCH, or between two chunks.
Cut(i, h) ==
    /\ Serving(i, h) /\ ~LiveAt(i, h)
    /\ \/ phase[i][h] = "armed"
       \/ phase[i][h] = "parked" /\ ~(h = "near" /\ slot[i].relay)
    /\ Finish(i, h, "stale", slot[i].kind = "fill" /\ h = "near")

\* The relay reads the far half's last word: TX_STALE, or a stream that ended.
Relayed(i) ==
    /\ Serving(i, "near") /\ frame[i] # "none"
    /\ \/ slot[i].kind = "fill"               \* biased: the fill before the reset
       \/ phase[i]["near"] = "parked" /\ <<i, "near">> \notin woken
    /\ Finish(i, "near", "none", frame[i] = "stale")

\* The consumer closes or stalls, a fill completes, fails or is cancelled, the
\* dial fails.
Leave(i) ==
    /\ Serving(i, "near")
    /\ \/ slot[i].kind = "fill" \/ phase[i]["near"] = "parked"
       \/ phase[i]["near"] = "begun" /\ slot[i].relay /\ ~slot[i].dialed
    /\ Finish(i, "near", "none", FALSE)

\* The far half sees its stream end: the reader left, or the network did.
FarLeaves(i) ==
    /\ Serving(i, "far") /\ phase[i]["far"] = "parked"
    /\ Finish(i, "far", "gone", FALSE)
-----------------------------------------------------------------------------
Next ==
    \/ \E c \in Core : \E now \in 1..MaxNow : \E b \in BOOLEAN : clipboard_updated(c, now, b)
    \/ \E m \in net : FallBack(m) \/ build_remote_tx(m) \/ recv_announce(m)
    \/ \E c \in Core : \E leaves \in BOOLEAN : Clear(c, leaves)
    \/ \E k \in Conn :
         \/ transactions_publish(k) \/ teardown(k)
         \/ serve_tx_fetch(k) \/ AdoptFails(k) \/ AdoptInstalls(k) \/ AdoptEvicts(k)
         \/ \E t \in 1..Len(minted) :
              \/ transactions_revoke(k, t) \/ adopt(k, t)
              \/ \E i \in Slot : \E kind \in {"channel", "fill"} : Ask(i, k, t, kind)
    \/ \E i \in Slot :
         \/ serve_consumer(i) \/ Dial(i) \/ serve_session(i)
         \/ Relayed(i) \/ Leave(i) \/ FarLeaves(i)
         \/ \E h \in Side : Arm(i, h) \/ Park(i, h) \/ Cut(i, h)

Spec == Init /\ [][Next]_vars

-----------------------------------------------------------------------------
(* Properties.                                                              *)

HalfPhase == {"off", "granted", "begun", "armed", "parked"}
Table ==
    [current : TxId \cup {0}, live : SUBSET TxId, superseded : SUBSET TxId,
     cached : SUBSET TxId, sessions : [TxId -> 0..Cardinality(Slot \X Side)],
     owners : [TxId -> SUBSET Conn]]

\* Every variable keeps its type; the tables name minted transactions only.
TypeOK ==
    /\ Len(minted) <= MaxTx /\ events \in [EventKind -> Nat]
    /\ \A t \in 1..Len(minted) :
         minted[t] \in [producer : {"clip", "pub"}, src : Core, dev : Core \cup {0}, seq : Nat]
    /\ tab \in [Core -> Table]
    /\ \A c \in Core : tab[c].live \subseteq 1..Len(minted)
    /\ member \in [Core -> BOOLEAN]
    /\ net \subseteq [tx : 1..Len(minted), to : Core, push : BOOLEAN, checked : BOOLEAN]
    /\ conn \in [Conn -> [st : {"open", "adopting", "closed"}, tx : TxId \cup {0},
                         reply : {"none", "manifest", "stale"}]]
    /\ \A i \in Slot : Busy(i) =>
         slot[i] \in [kind : {"channel", "fill"}, by : Conn, tx : TxId,
                     relay : BOOLEAN, dialed : BOOLEAN]
    /\ phase \in [Slot -> [Side -> HalfPhase]]
    /\ woken \subseteq Slot \X Side
    /\ frame \in [Slot -> {"none", "stale", "gone"}]
    /\ heard \in [Core -> SUBSET TxId]

\* The global last-copier-wins (`announce_local`'s floor, `announce_remote`'s
\* strict order): whatever the clocks read and in whatever order the announces
\* come, each Core shows the highest (seq, device_id) of all it announced or was
\* offered since it was last cleared, so Cores that heard the same copies show
\* the same clip.
ElectsTheLast ==
    \A c \in Core :
       IF heard[c] = {} THEN tab[c].current = 0
       ELSE /\ tab[c].current \in heard[c] \cap tab[c].live
            /\ \A t \in heard[c] : KeyLE(t, tab[c].current)

ReadersOf(c, t) ==
    {w \in Slot \X Side : Serving(w[1], w[2]) /\ At(w[1], w[2]) = c /\ TxOf(w[1]) = t}

\* A clip in the table is the current one or is held by a session that reads it,
\* and its count is the number of those sessions, local and relayed to other
\* devices alike: a superseded clip neither leaks nor goes under a reader.
ClipsHeldByReaders ==
    \A c \in Core : \A t \in {u \in tab[c].live : IsClip(u)} :
       /\ tab[c].sessions[t] = Cardinality(ReadersOf(c, t))
       /\ t = tab[c].current <=> t \notin tab[c].superseded
       /\ t \in tab[c].superseded => ReadersOf(c, t) # {}

\* A new copy never cuts a paste in flight (supersede_current, end_session): a
\* session on a clip loses it to nothing but the clearing of its Core's table.
PasteNotCutByCopy ==
    [][\A i \in Slot, h \in Side :
         Serving(i, h) /\ IsClip(TxOf(i)) /\ LiveAt(i, h) /\ Serving(i, h)' =>
            LiveAt(i, h)' \/ tab'[At(i, h)] = EmptyTable]_vars

\* No session sleeps through its revocation (the latched waiters of serve_local,
\* pipe_consumer and run_fill): a half parked on a transaction that is gone from
\* its Core has its wake pending, whoever removed the entry.
NoLostWake ==
    \A i \in Slot, h \in Side :
       Serving(i, h) /\ phase[i][h] = "parked" /\ ~LiveAt(i, h) => <<i, h>> \in woken

\* A grant dies with its holder (teardown, install_adopted's co-owners): every
\* published or adopted entry has an owner, and each owner is a connection of
\* that Core that is still there to give it up.
GrantsHaveHolders ==
    \A c \in Core : \A t \in {u \in tab[c].live : ~IsClip(u)} :
       /\ tab[c].owners[t] # {}
       /\ \A k \in tab[c].owners[t] : Home[k] = c /\ conn[k].st # "closed"
=============================================================================
