------------------------------ MODULE Transfers -----------------------------
(***************************************************************************)
(* Files sent from device to device: the sender freezes a manifest, opens  *)
(* a stream (a direct one when the payload is over the relays' cap) and    *)
(* writes offer and bodies; the receiver writes part files, then, under    *)
(* one lock for the whole process, picks free names and renames, then      *)
(* acknowledges.  Several transfers arrive at once in one folder, which    *)
(* the user writes in too.                                                 *)
(***************************************************************************)
EXTENDS Naturals, Sequences, FiniteSets, SequencesExt

CONSTANTS TransferScenarios   \* what is sent and what may happen: see TrInit

Nobody == 0
NoPath == <<>>

VARIABLES
    ts,      \* the scenario: acts, budget, picks (what each sender sends), over (payloads over the cap)
    tr,      \* tr[t]: the two ends of a transfer and its stream
    fsys,    \* the receive folder: a set of [p, t, i]; t = 0 for what the user put there,
             \* where i is the transfer that had already picked that name (ghost)
    parts,   \* part files: <<t, i>>
    naming,  \* the holder of COMMIT_NAMING
    tspent

tvars == <<ts, tr, fsys, parts, naming, tspent>>

Transfer == DOMAIN ts.picks
TrSpends(act) == act \in ts.acts /\ tspent < ts.budget /\ tspent' = tspent + 1

(***************************************************************************)
(* Names.  A name is its stem and the number of its suffix; a path is a    *)
(* name or a name and a leaf under it.                                     *)
(***************************************************************************)
(* unique_rel, unique_child_name: the first suffix nothing has. *)
FirstFree(stem, taken) == CHOOSE k \in 0..Cardinality(taken) :
    /\ <<stem, k>> \notin taken /\ \A j \in 0..(k - 1) : <<stem, j>> \in taken

(* freeze_manifest: a folder's leaves in order, or the folder itself when it has none;
   tops made unique among themselves. *)
Frozen(picks) ==
    LET add(acc, pick) ==
            LET top == <<pick.stem, FirstFree(pick.stem, acc.used)>>
                entries == IF ~pick.dir THEN << [top |-> top, leaf |-> Nobody, dir |-> FALSE] >>
                           ELSE IF pick.leaves = 0 THEN << [top |-> top, leaf |-> Nobody, dir |-> TRUE] >>
                           ELSE [l \in 1..pick.leaves |-> [top |-> top, leaf |-> l, dir |-> FALSE]]
            IN [used |-> acc.used \cup {top}, files |-> acc.files \o entries]
    IN FoldLeft(add, [used |-> {}, files |-> <<>>], picks).files
Manifest(t) == Frozen(ts.picks[t])

TakenTops == {<<f.p[1], f.p[2]>> : f \in fsys}
UniqueChild(top) == <<top[1], FirstFree(top[1], TakenTops)>>
InFolder(e) == e.leaf # Nobody \/ e.dir
Dest(t, e) == IF InFolder(e) THEN Append(tr[t].tops[e.top], e.leaf) ELSE Append(UniqueChild(e.top), Nobody)

(***************************************************************************)
(* The sender.                                                             *)
(***************************************************************************)
Sender(t, s) == tr' = [tr EXCEPT ![t].snd = s]
Drop(t, s) == tr' = [tr EXCEPT ![t].snd = s, ![t].cut = TRUE]

(* start_send, run_send. *)
StartSend(t) ==
    /\ tr[t].snd = "idle"
    /\ Sender(t, "opening")
    /\ UNCHANGED <<ts, fsys, parts, naming, tspent>>

(* open_for_payload, require_direct: over the cap, only a direct path will do. *)
Opened(t) ==
    /\ tr[t].snd = "opening" /\ (t \in ts.over => tr[t].direct)
    /\ tr' = [tr EXCEPT ![t].snd = "sending", ![t].rcv = "offer"]
    /\ UNCHANGED <<ts, fsys, parts, naming, tspent>>
OpenFails(t) ==
    /\ tr[t].snd = "opening" /\ TrSpends("fail")
    /\ Sender(t, IF t \in ts.over /\ ~tr[t].direct THEN "nodirect" ELSE "failed")
    /\ UNCHANGED <<ts, fsys, parts, naming>>

(* send_transfer: entry after entry, then the acknowledgment. *)
SendEntry(t) ==
    /\ tr[t].snd = "sending" /\ ~tr[t].cut
    /\ LET k == tr[t].sent + 1 IN
       tr' = [tr EXCEPT ![t].sent = k, ![t].snd = IF k = Len(Manifest(t)) THEN "ack" ELSE "sending"]
    /\ UNCHANGED <<ts, fsys, parts, naming, tspent>>
SourceShrank(t) ==
    /\ tr[t].snd = "sending" /\ TrSpends("fail")
    /\ Drop(t, "failed")
    /\ UNCHANGED <<ts, fsys, parts, naming>>
Finished(t) ==
    /\ tr[t].snd = "ack" /\ tr[t].acked
    /\ Sender(t, "ok")
    /\ UNCHANGED <<ts, fsys, parts, naming, tspent>>
(* A stream that ends under the sender, policed or not; ACK_TIMEOUT. *)
SendFails(t) ==
    /\ tr[t].snd \in {"sending", "ack"}
    /\ \/ tr[t].cut /\ Sender(t, IF tr[t].policed THEN "nodirect" ELSE "failed") /\ UNCHANGED tspent
       \/ tr[t].snd = "ack" /\ TrSpends("slow") /\ Drop(t, "failed")
    /\ UNCHANGED <<ts, fsys, parts, naming>>
CancelSend(t) ==
    /\ tr[t].snd \in {"opening", "sending", "ack"} /\ TrSpends("cancel")
    /\ Drop(t, "cancelled")
    /\ UNCHANGED <<ts, fsys, parts, naming>>

(* The path of the stream changes; watch_direct gives an over-cap one DIRECT_PATH_GRACE
   to find a direct path again, then closes it. *)
PathChanges(t) ==
    /\ tr[t].snd \in {"opening", "sending", "ack"} /\ TrSpends("path")
    /\ LET now == ~tr[t].direct IN
       tr' = [tr EXCEPT ![t].direct = now, ![t].grace = t \in ts.over /\ tr[t].snd # "opening" /\ ~now]
    /\ UNCHANGED <<ts, fsys, parts, naming>>
GraceOver(t) ==
    /\ tr[t].grace /\ ~tr[t].direct /\ tr[t].snd \in {"sending", "ack"}
    /\ tr' = [tr EXCEPT ![t].policed = TRUE, ![t].cut = TRUE, ![t].grace = FALSE]
    /\ UNCHANGED <<ts, fsys, parts, naming, tspent>>
StreamBreaks(t) ==
    /\ tr[t].snd \in {"sending", "ack"} /\ ~tr[t].cut /\ TrSpends("break")
    /\ tr' = [tr EXCEPT ![t].cut = TRUE]
    /\ UNCHANGED <<ts, fsys, parts, naming>>

(***************************************************************************)
(* The receiver.                                                           *)
(***************************************************************************)
Entry(t, i) == Manifest(t)[i]
Released == [t \in Transfer |-> {<<t, i>> : i \in 1..Len(Manifest(t))}]
(* Dropping what was received removes every part that was not committed. *)
GiveUp(t, s) ==
    /\ tr' = [tr EXCEPT ![t].rcv = s, ![t].cut = TRUE, ![t].pick = NoPath]
    /\ parts' = parts \ Released[t]
    /\ naming' = IF naming = t THEN Nobody ELSE naming

(* serve_incoming, serve_transfer. *)
RecvOffer(t) ==
    /\ tr[t].rcv = "offer" /\ ~tr[t].cut
    /\ tr' = [tr EXCEPT ![t].rcv = "body"]
    /\ UNCHANGED <<ts, fsys, parts, naming, tspent>>
(* receive_to_parts: a part per file, in the order of the manifest. *)
RecvEntry(t) ==
    /\ tr[t].rcv = "body" /\ tr[t].got < tr[t].sent
    /\ LET i == tr[t].got + 1 IN
       /\ tr' = [tr EXCEPT ![t].got = i]
       /\ parts' = IF Entry(t, i).dir THEN parts ELSE parts \cup {<<t, i>>}
    /\ UNCHANGED <<ts, fsys, naming, tspent>>
RecvFails(t) ==
    /\ tr[t].rcv \in {"offer", "body"} /\ tr[t].cut
    /\ GiveUp(t, "failed")
    /\ UNCHANGED <<ts, fsys, tspent>>
(* files.cancel only ends a reception that is not committing yet. *)
CancelRecv(t) ==
    /\ tr[t].rcv = "body" /\ TrSpends("cancel")
    /\ GiveUp(t, "cancelled")
    /\ UNCHANGED <<ts, fsys>>

(* commit_parts: the lock, a fresh folder for every top that is one, then the names of
   the root files picked and every part renamed, in order. *)
MayNameAlways(t) == TRUE
MayName(t) == naming = Nobody
TakeNaming(t) ==
    /\ tr[t].rcv = "body" /\ tr[t].got = Len(Manifest(t)) /\ MayName(t)
    /\ naming' = t
    /\ tr' = [tr EXCEPT ![t].rcv = "tops"]
    /\ UNCHANGED <<ts, fsys, parts, tspent>>
FolderTops(t) == {Entry(t, i).top : i \in {j \in 1..Len(Manifest(t)) : InFolder(Entry(t, j))}}
MakeTop(t) ==
    /\ tr[t].rcv = "tops"
    /\ LET left == FolderTops(t) \ DOMAIN tr[t].tops IN
       IF left = {} THEN tr' = [tr EXCEPT ![t].rcv = "names"] /\ UNCHANGED fsys
       ELSE LET i == CHOOSE j \in 1..Len(Manifest(t)) : /\ Entry(t, j).top \in left
                                                        /\ \A m \in 1..(j - 1) : Entry(t, m).top \notin left
                top == Entry(t, i).top
                chosen == UniqueChild(top)
            IN /\ tr' = [tr EXCEPT ![t].tops = [x \in DOMAIN @ \cup {top} |-> IF x = top THEN chosen ELSE @[x]]]
               /\ fsys' = fsys \cup {[p |-> Append(chosen, Nobody), t |-> t, i |-> Nobody]}
    /\ UNCHANGED <<ts, parts, naming, tspent>>
PickDest(t) ==
    /\ tr[t].rcv = "names" /\ tr[t].pick = NoPath /\ tr[t].done < Len(Manifest(t))
    /\ tr' = [tr EXCEPT ![t].pick = Dest(t, Entry(t, tr[t].done + 1))]
    /\ UNCHANGED <<ts, fsys, parts, naming, tspent>>
(* A rename replaces what is there; a directory entry is its folder, made above. *)
CommitEntry(t) ==
    /\ tr[t].rcv = "names" /\ tr[t].pick # NoPath
    /\ LET i == tr[t].done + 1 IN
       /\ fsys' = IF Entry(t, i).dir THEN fsys
                  ELSE {f \in fsys : f.p # tr[t].pick} \cup {[p |-> tr[t].pick, t |-> t, i |-> i]}
       /\ parts' = parts \ {<<t, i>>}
       /\ tr' = [tr EXCEPT ![t].done = i, ![t].pick = NoPath]
    /\ UNCHANGED <<ts, naming, tspent>>
CommitFails(t) ==
    /\ tr[t].rcv \in {"tops", "names"} /\ TrSpends("fail")
    /\ GiveUp(t, "failed")
    /\ UNCHANGED <<ts, fsys>>
(* write_ack, once everything has its name. *)
AckWhenReceived(t) == tr[t].rcv \in {"tops", "names"}
AckWhen(t) == tr[t].rcv = "names" /\ tr[t].done = Len(Manifest(t))
WriteAck(t) ==
    /\ AckWhen(t)
    /\ tr' = [tr EXCEPT ![t].rcv = "done", ![t].acked = ~tr[t].cut]
    /\ naming' = IF naming = t THEN Nobody ELSE naming
    /\ UNCHANGED <<ts, fsys, parts, tspent>>

(* The receiving Core stops: its handlers are dropped where they stand. *)
CoreStops ==
    /\ TrSpends("stop")
    /\ LET running == {t \in Transfer : tr[t].rcv \in {"offer", "body", "tops", "names"}} IN
       /\ tr' = [t \in Transfer |-> IF t \in running THEN [tr[t] EXCEPT !.rcv = "failed", !.cut = TRUE, !.pick = NoPath]
                                    ELSE tr[t]]
       /\ parts' = {x \in parts : x[1] \notin running}
    /\ naming' = Nobody
    /\ UNCHANGED <<ts, fsys>>

(* The user saves a file in the folder, at any time: between the choice of a name and
   the rename nothing holds that name. *)
PickedBy(p) == {t \in Transfer : tr[t].pick = p}
UserSaves(stem) ==
    /\ TrSpends("user")
    /\ LET p == Append(UniqueChild(<<stem, 0>>), Nobody) IN
       fsys' = fsys \cup {[p |-> p, t |-> 0, i |-> IF PickedBy(p) = {} THEN Nobody
                                                  ELSE CHOOSE t \in PickedBy(p) : TRUE]}
    /\ UNCHANGED <<ts, tr, parts, naming>>

NewTransfer(direct) == [snd |-> "idle", rcv |-> "none", sent |-> 0, got |-> 0, done |-> 0, tops |-> <<>>, pick |-> NoPath,
                        cut |-> FALSE, acked |-> FALSE, direct |-> direct, grace |-> FALSE, policed |-> FALSE]
TrInit ==
    /\ ts \in TransferScenarios
    /\ tr \in {[t \in Transfer |-> NewTransfer(d)] : d \in (IF ts.over = {} THEN {TRUE} ELSE BOOLEAN)}
    /\ fsys = {} /\ parts = {} /\ naming = Nobody /\ tspent = 0
TrStep(t) == \/ StartSend(t) \/ Opened(t) \/ OpenFails(t) \/ SendEntry(t) \/ SourceShrank(t) \/ Finished(t) \/ SendFails(t)
             \/ CancelSend(t) \/ PathChanges(t) \/ GraceOver(t) \/ StreamBreaks(t)
             \/ RecvOffer(t) \/ RecvEntry(t) \/ RecvFails(t) \/ CancelRecv(t) \/ TakeNaming(t) \/ MakeTop(t) \/ PickDest(t)
             \/ CommitEntry(t) \/ CommitFails(t) \/ WriteAck(t)
TrNext == (\E t \in Transfer : TrStep(t)) \/ CoreStops \/ UserSaves("a")
TrSpec == TrInit /\ [][TrNext]_tvars

(***************************************************************************)
(* Properties.                                                             *)
(***************************************************************************)
(* A sender that reports a transfer finished has delivered all of it: every file it
   froze is in the folder, its own bytes under a name of their own, and the files of one
   source folder are still together (send_transfer waits for write_ack, which comes after
   commit_parts). *)
DeliveredWhole == \A t \in Transfer : tr[t].snd = "ok" =>
    LET landed(i) == {f \in fsys : f.t = t /\ f.i = i}
        topOf(f) == <<f.p[1], f.p[2]>>
    IN /\ \A i \in 1..Len(Manifest(t)) : ~Entry(t, i).dir => landed(i) # {}
       /\ \A i, j \in 1..Len(Manifest(t)) : \A f \in landed(i), g \in landed(j) :
            (Entry(t, i).top = Entry(t, j).top) <=> (topOf(f) = topOf(g))

(* What a transfer has put in the receive folder stays, and so does what the user put
   there before a name was picked (unique_child_name under COMMIT_NAMING): not even two
   transfers that bring the same names at once, one of them dropped half way, replace any
   of it or put a file in a folder that was not made for it.  A rename replaces one thing
   only, a file the user saved under the very name the transfer had picked and not yet
   renamed to (unique_dest, then commit_to). *)
Kept == /\ \A f \in fsys \ fsys' : f.t = 0 /\ f.i # Nobody /\ tr[f.i].pick = f.p
        /\ \A f, g \in fsys' : (f.p[1] = g.p[1] /\ f.p[2] = g.p[2]) => f.t = g.t
NothingReplaced == [][Kept]_tvars
=============================================================================
