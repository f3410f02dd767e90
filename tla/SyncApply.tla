------------------------------ MODULE SyncApply -----------------------------
(***************************************************************************)
(* One member's folder: the disk its user edits, the index the walks keep, *)
(* the versions received and not yet applied, and the member at the other  *)
(* end.  A folder holds a directory and a file in it.  The walk runs off   *)
(* the loop, path by path, against a snapshot of the index; what it saw is *)
(* folded into the index of the moment it ends.  With one other member the *)
(* versions a path waits for form a chain, so pending holds at most one.   *)
(***************************************************************************)
EXTENDS Naturals, FiniteSets, FiniteSetsExt, TLC

CONSTANT ApplyScenarios   \* what a behaviour may do, and how often: see ApplyInit

Dir == "dir"
File == "file"
Path == {Dir, File}

VARIABLES
    sn,        \* the scenario: acts (what may happen), budget (how many times in all)
    disk,      \* disk[p]: what is at p, 0 nothing; a directory's content is 1
    rooted,    \* SetState.root: the set has a folder here
    idx,       \* SetState.index
    pend,      \* pend[p]: SetState.pending, the versions absorbed and not applied
    parkd,     \* SetState.parked: a version whose bytes are staged but cannot land, or NoEntry
    tick,      \* the set clock of this member
    walk,      \* the walk under way: its snapshot, what it saw, the path it is at
    ridx,      \* the other member's index
    got,       \* got[p]: the version of theirs the last round brought, behind the watermark
    rtick, next, used,
    removed,   \* contents the user took off this disk
    buried,    \* contents a fold tombstoned here
    lost       \* contents the engine took off the disk that no index ever held

avars == <<sn, disk, rooted, idx, pend, parkd, tick, walk, ridx, got, rtick, next, used, removed, buried, lost>>

(* Entries; a version vector has one component per member. *)
Vv(l, r) == [l |-> l, r |-> r]
Entry(hash, dead, vv) == [hash |-> hash, dead |-> dead, vv |-> vv]
NoEntry == Entry(0, TRUE, Vv(0, 0))
Covers(a, b) == a.l >= b.l /\ a.r >= b.r
Concurrent(a, b) == ~Covers(a, b) /\ ~Covers(b, a)
MergeMax(a, b) == Vv(Max({a.l, b.l}), Max({a.r, b.r}))
Live(e) == ~e.dead
Held(e) == e.vv # Vv(0, 0)

Spend(act) == act \in sn.acts /\ used < sn.budget /\ used' = used + 1
NoWalk == [at |-> "off", snap |-> [p \in Path |-> NoEntry], pend |-> {}, seen |-> [p \in Path |-> 0]]

(***************************************************************************)
(* The user's own hands on the folder.                                     *)
(***************************************************************************)
UserWrites ==
    /\ rooted /\ Spend("write")
    /\ disk' = [disk EXCEPT ![Dir] = 1, ![File] = next]
    /\ next' = next + 1
    /\ removed' = removed \cup ({disk[File]} \ {0})
    /\ UNCHANGED <<sn, rooted, idx, pend, parkd, tick, walk, ridx, got, rtick, buried, lost>>

UserDeletes(p) ==
    /\ rooted /\ disk[p] # 0 /\ Spend("delete") /\ (p = Dir => disk[File] = 0)
    /\ disk' = [disk EXCEPT ![p] = 0]
    /\ removed' = removed \cup {disk[p]}
    /\ UNCHANGED <<sn, rooted, idx, pend, parkd, tick, walk, ridx, got, rtick, next, buried, lost>>

(***************************************************************************)
(* The other member.                                                       *)
(***************************************************************************)
Bump(vv) == [vv EXCEPT !.r = rtick + 1]

RemoteEdits ==
    /\ Spend("redit")
    /\ ridx' = [ridx EXCEPT ![File] = Entry(next, FALSE, Bump(@.vv)),
                            ![Dir] = IF Live(@) THEN @ ELSE Entry(1, FALSE, Bump(@.vv))]
    /\ rtick' = rtick + 1 /\ next' = next + 1
    /\ UNCHANGED <<sn, disk, rooted, idx, pend, parkd, tick, walk, got, removed, buried, lost>>

RemoteDeletes(p) ==
    /\ Live(ridx[p]) /\ (p = Dir => ~Live(ridx[File])) /\ Spend("rdelete")
    /\ ridx' = [ridx EXCEPT ![p] = Entry(0, TRUE, Bump(@.vv))]
    /\ rtick' = rtick + 1
    /\ UNCHANGED <<sn, disk, rooted, idx, pend, parkd, tick, walk, got, next, removed, buried, lost>>

(* version_id: the order that settles which of two concurrent versions keeps the path. *)
Wins(e, f) == e.hash < f.hash

(* A round the other way: a version of ours that covers theirs is taken, a tombstone
   of ours concurrent with their live entry loses to it, and of two live ones both
   are kept. *)
RemoteTakes(p) ==
    /\ rooted /\ Held(idx[p])
    /\ \/ /\ Covers(idx[p].vv, ridx[p].vv) /\ idx[p] # ridx[p]
          /\ ridx' = [ridx EXCEPT ![p] = idx[p]]
          /\ UNCHANGED rtick
       \/ /\ Concurrent(idx[p].vv, ridx[p].vv) /\ Live(ridx[p])
          /\ ridx' = [ridx EXCEPT ![p].vv = Bump(MergeMax(@, idx[p].vv)),
                                  ![p].hash = IF Live(idx[p]) /\ Wins(idx[p], ridx[p]) THEN idx[p].hash ELSE @]
          /\ rtick' = rtick + 1
    /\ UNCHANGED <<sn, disk, rooted, idx, pend, parkd, tick, walk, got, next, used, removed, buried, lost>>

(***************************************************************************)
(* Applying what was received.  The state an application works on is       *)
(* threaded as a record, the way the methods mutate SetState.              *)
(***************************************************************************)
S == [disk |-> disk, idx |-> idx, pend |-> pend, parkd |-> parkd, tick |-> tick, lost |-> lost]
Becomes(s) == /\ disk' = s.disk /\ idx' = s.idx /\ pend' = s.pend /\ parkd' = s.parkd
              /\ tick' = s.tick /\ lost' = s.lost

SettlePending(s, p, vv) == [s EXCEPT !.pend[p] = {e \in @ : ~Covers(vv, e.vv)}]
(* What a removal or a rename over the file destroys that no index ever held. *)
Unrecognised(s) == {s.disk[File]} \ {0, s.idx[File].hash}

(* apply_staged: where the index has a live entry, an occupant it does not recognise
   fails the application. *)
LocallyMoved(s) == Live(s.idx[File]) /\ s.disk[File] \notin {0, s.idx[File].hash}
ApplyOutcome(s, e) ==
    LET ours == s.idx[File] IN
    CASE Held(ours) /\ Concurrent(e.vv, ours.vv) /\ Live(ours) -> "conflict"
      [] Held(ours) /\ ~Covers(e.vv, ours.vv) /\ Covers(ours.vv, e.vv) -> "failed"
      [] LocallyMoved(s) /\ ~Concurrent(e.vv, ours.vv) -> "failed"
      [] OTHER -> "landed"

(* record_landed: one that resurrects a tombstone takes both histories and a tick. *)
LandedAsSent(s, e) ==
    SettlePending([s EXCEPT !.disk[File] = e.hash, !.disk[Dir] = 1, !.idx[File] = e,
                            !.lost = @ \cup Unrecognised(s)], File, e.vv)
RecordLanded(s, e) ==
    LET ours == s.idx[File]
        resurrects == Held(ours) /\ Concurrent(e.vv, ours.vv)
        vv == IF resurrects THEN [MergeMax(e.vv, ours.vv) EXCEPT !.l = s.tick + 1] ELSE e.vv
    IN SettlePending([s EXCEPT !.disk[File] = e.hash, !.disk[Dir] = 1,
                               !.idx[File] = Entry(e.hash, FALSE, vv),
                               !.tick = IF resurrects THEN @ + 1 ELSE @,
                               !.lost = @ \cup Unrecognised(s)], File, e.vv)

(* materialize_conflict: both versions are kept, the one that loses the path in a
   copy beside it.  What is on the disk at the path moves to the copy unread. *)
KeepBoth(s, e) ==
    LET localWins == Wins(s.idx[File], e)
        vv == [MergeMax(e.vv, s.idx[File].vv) EXCEPT !.l = s.tick + 2]
        hash == IF localWins THEN s.idx[File].hash ELSE e.hash
    IN SettlePending([s EXCEPT !.idx[File] = Entry(hash, FALSE, vv), !.tick = @ + 2,
                               !.disk[File] = IF localWins THEN @ ELSE hash,
                               !.disk[Dir] = 1], File, e.vv)

(* retry_parked, at the head of every drain; what is still blocked leaves pending. *)
RetryParked(s, blocked) ==
    LET e == s.parkd IN
    CASE e = NoEntry -> s
      [] e # NoEntry /\ Held(s.idx[File]) /\ Covers(s.idx[File].vv, e.vv) -> [s EXCEPT !.parkd = NoEntry]
      [] OTHER -> IF ~blocked /\ ApplyOutcome(s, e) = "landed"
                  THEN RecordLanded([s EXCEPT !.parkd = NoEntry], e)
                  ELSE SettlePending(s, File, e.vv)

(* drain_pending, first pass: covered versions go, equal contents and losing
   tombstones merge into ours. *)
Mergeable(ours, e) == /\ Concurrent(e.vv, ours.vv)
                      /\ (e.dead = ours.dead /\ e.hash = ours.hash) \/ (e.dead /\ Live(ours))
QuietedSilently(s, p) ==
    LET ours == s.idx[p] IN
    [s EXCEPT !.pend[p] = {e \in @ : ~(Held(ours) /\ (Covers(ours.vv, e.vv) \/ Mergeable(ours, e)))}]
Quieted(s, p) ==
    LET ours == s.idx[p]
        newer == {e \in s.pend[p] : ~(Held(ours) /\ Covers(ours.vv, e.vv))}
        merged == {e \in newer : Held(ours) /\ Mergeable(ours, e)}
        vv == FoldSet(LAMBDA e, acc : MergeMax(acc, e.vv), ours.vv, merged)
        beats == \E e \in merged : e.dead /\ Live(ours)
    IN [s EXCEPT !.pend[p] = newer \ merged,
                 !.idx[p].vv = IF beats THEN [vv EXCEPT !.l = s.tick + 1] ELSE vv,
                 !.tick = IF beats THEN @ + 1 ELSE @]

Dominates(s, p, e) == ~Held(s.idx[p]) \/ Covers(e.vv, s.idx[p].vv)

(* apply_file_tombstone. *)
FileTomb(s) ==
    LET tombs == {e \in s.pend[File] : e.dead /\ Dominates(s, File, e)}
        t == CHOOSE t \in tombs : TRUE
    IN IF tombs = {} THEN s
       ELSE SettlePending([s EXCEPT !.disk[File] = 0, !.idx[File] = t,
                                    !.lost = @ \cup Unrecognised(s)], File, t.vv)

(* apply_pending_dirs. *)
DirMade(s) ==
    LET made == {e \in s.pend[Dir] : Live(e) /\ Dominates(s, Dir, e)}
        e == CHOOSE e \in made : TRUE
    IN IF made = {} THEN s
       ELSE SettlePending([s EXCEPT !.disk[Dir] = 1, !.idx[Dir] = e], Dir, e.vv)

(* apply_dir_tombstone: a live or awaited descendant, or a directory the tombstone
   does not dominate, resurrects the chain; a directory still full waits. *)
Revived(s, p, vv) ==
    IF Live(s.idx[p]) /\ Held(s.idx[p])
    THEN [s EXCEPT !.idx[p].vv = [MergeMax(@, vv) EXCEPT !.l = s.tick + 1], !.tick = @ + 1]
    ELSE s
DirTomb(s) ==
    LET tombs == {e \in s.pend[Dir] : e.dead}
        t == CHOOSE t \in tombs : TRUE
        survives == Live(s.idx[File]) \/ (\E e \in s.pend[File] : Live(e)) \/ ~Dominates(s, Dir, t)
    IN IF tombs = {} THEN s
       ELSE IF survives THEN SettlePending(Revived(Revived(s, File, t.vv), Dir, t.vv), Dir, t.vv)
       ELSE IF s.disk[File] # 0 THEN s
       ELSE SettlePending([s EXCEPT !.disk[Dir] = 0, !.idx[Dir] = t], Dir, t.vv)

(* drain_pending: its passes in order. *)
DrainPending(s, blocked) ==
    \E s1 \in {RetryParked(s, blocked)} : \E s2 \in {Quieted(s1, Dir)} : \E s3 \in {Quieted(s2, File)} :
    \E s4 \in {FileTomb(s3)} : \E s5 \in {DirMade(s4)} : \E s6 \in {DirTomb(s5)} : Becomes(s6)
Blocks == IF "block" \in sn.acts THEN BOOLEAN ELSE {FALSE}

(* absorb_entry for what a round brought, then the drain of the round's end. *)
Absorbed(s, p, e) ==
    IF ~Held(e) \/ (Held(s.idx[p]) /\ Covers(s.idx[p].vv, e.vv)) THEN s
    ELSE LET kept == {h \in s.pend[p] : ~Covers(e.vv, h.vv)} IN
         [s EXCEPT !.pend[p] = IF \E h \in kept : Covers(h.vv, e.vv) THEN kept ELSE kept \cup {e}]
Receive ==
    /\ rooted /\ ridx # got /\ got' = ridx
    /\ LET sent(s, p) == IF ridx[p] = got[p] THEN s ELSE Absorbed(s, p, ridx[p])
       IN \E s1 \in {sent(S, Dir)} : \E s2 \in {sent(s1, File)}, blocked \in Blocks : DrainPending(s2, blocked)
    /\ UNCHANGED <<sn, rooted, walk, ridx, rtick, next, used, removed, buried>>

(* finish_pull: the bytes of the awaited version are staged; they land, conflict, fail
   and wait for the next walk, or cannot be renamed into place and are parked. *)
FinishPull ==
    /\ rooted
    /\ \E e \in pend[File], blocked \in Blocks :
         /\ Live(e) /\ ApplyOutcome(S, e) # "failed"
         /\ LET landed == IF blocked THEN [S EXCEPT !.parkd = e] ELSE RecordLanded(S, e)
            IN \E s \in {IF ApplyOutcome(S, e) = "landed" THEN landed ELSE KeepBoth(S, e)} :
                 DrainPending(s, blocked)
    /\ UNCHANGED <<sn, rooted, walk, ridx, got, rtick, next, used, removed, buried>>

(***************************************************************************)
(* Walks.                                                                  *)
(***************************************************************************)
(* start_scan, scan_inputs: one walk per set at a time, on a copy of the index. *)
StartScan ==
    /\ rooted /\ walk.at = "off"
    /\ walk' = [at |-> Dir, snap |-> idx, pend |-> {p \in Path : pend[p] # {}}, seen |-> [p \in Path |-> 0]]
    /\ UNCHANGED <<sn, disk, rooted, idx, pend, parkd, tick, ridx, got, rtick, next, used, removed, buried, lost>>

(* walk_dir: a path is read when the walk gets to it, and a file under a directory
   that is not there is not met. *)
Observe(p) ==
    /\ walk.at = p
    /\ walk' = [walk EXCEPT !.seen[p] = IF p = File /\ walk.seen[Dir] = 0 THEN 0 ELSE disk[p],
                            !.at = IF p = Dir THEN File ELSE "done"]
    /\ UNCHANGED <<sn, disk, rooted, idx, pend, parkd, tick, ridx, got, rtick, next, used, removed, buried, lost>>

(* reconcile_dir, reconcile_file and the end of observe: against the SNAPSHOT. *)
Changed(w, p) == w.seen[p] # 0 /\ ~(Live(w.snap[p]) /\ w.snap[p].hash = w.seen[p])
Missing(w, p) == Live(w.snap[p]) /\ w.seen[p] = 0 /\ p \notin w.pend

(* fold: into the index of NOW, each change behind a tick. *)
FoldChanged(s, p) ==
    IF Changed(walk, p)
    THEN [s EXCEPT !.idx[p] = Entry(walk.seen[p], FALSE, [@.vv EXCEPT !.l = s.tick + 1]), !.tick = @ + 1]
    ELSE s
FoldMissing(s, p) ==
    IF Missing(walk, p) /\ Live(s.idx[p])
    THEN [s EXCEPT !.idx[p] = Entry(0, TRUE, [@.vv EXCEPT !.l = s.tick + 1]), !.tick = @ + 1]
    ELSE s

(* fold_scan. *)
FoldScan ==
    /\ walk.at = "done"
    /\ \E s1 \in {FoldChanged(S, Dir)} : \E s2 \in {FoldChanged(s1, File)} : \E s3 \in {FoldMissing(s2, File)} :
       \E s4 \in {FoldMissing(s3, Dir)}, blocked \in Blocks : DrainPending(s4, blocked)
    /\ buried' = buried \cup {idx[p].hash : p \in {q \in Path : Missing(walk, q) /\ Live(idx[q])}}
    /\ walk' = NoWalk
    /\ UNCHANGED <<sn, rooted, ridx, got, rtick, next, used, removed>>

(* A directory or a file that cannot be read ends the walk, and nothing is folded. *)
WalkFailed ==
    /\ walk.at \in Path /\ Spend("fail")
    /\ walk' = NoWalk
    /\ UNCHANGED <<sn, disk, rooted, idx, pend, parkd, tick, ridx, got, rtick, next, removed, buried, lost>>

(***************************************************************************)
(* Leaving and coming back.                                                *)
(***************************************************************************)
(* sign_status(Left): the folder is let go and what was pending with it; the index stays,
   and so does a walk under way, which is folded when it ends (fold_scan). *)
Leave ==
    /\ rooted /\ Spend("leave")
    /\ rooted' = FALSE /\ pend' = [p \in Path |-> {}] /\ parkd' = NoEntry
    /\ UNCHANGED <<sn, disk, idx, tick, walk, ridx, got, rtick, next, removed, buried, lost>>

(* A walk goes on over the root it was started on; nobody changes a folder that was left. *)
WalkedOut(w) ==
    LET seen == [p \in Path |-> IF w.at = Dir \/ (w.at = File /\ p = File) THEN disk[p] ELSE w.seen[p]]
    IN  IF w.at \notin Path THEN w
        ELSE [w EXCEPT !.at = "done", !.seen = [seen EXCEPT ![File] = IF seen[Dir] = 0 THEN 0 ELSE @]]

(* accept of a fresh invitation: the root is the folder the user picked, here a new one. *)
Accept ==
    /\ ~rooted
    /\ rooted' = TRUE /\ disk' = [p \in Path |-> 0]
    /\ walk' = WalkedOut(walk)
    /\ UNCHANGED <<sn, idx, pend, parkd, tick, ridx, got, rtick, next, used, removed, buried, lost>>

ApplyInit ==
    LET e(h) == Entry(h, FALSE, Vv(0, 1)) IN
    /\ sn \in ApplyScenarios
    /\ disk = (Dir :> 1 @@ File :> 2) /\ idx = (Dir :> e(1) @@ File :> e(2)) /\ ridx = idx /\ got = idx
    /\ rooted = TRUE /\ pend = [p \in Path |-> {}] /\ parkd = NoEntry
    /\ tick = 0 /\ rtick = 1 /\ next = 3 /\ used = 0 /\ walk = NoWalk
    /\ removed = {} /\ buried = {} /\ lost = {}

Walking == StartScan \/ (\E p \in Path : Observe(p)) \/ FoldScan
ApplyNext == \/ UserWrites \/ RemoteEdits \/ WalkFailed \/ Leave \/ Accept
             \/ Receive \/ FinishPull \/ Walking
             \/ \E p \in Path : UserDeletes(p) \/ RemoteDeletes(p) \/ RemoteTakes(p)
(* The orchestrator rescans on a cadence, rounds recur, a need is pulled again, and a
   destination is not locked for ever. *)
Unlocked == FoldScan /\ parkd # NoEntry /\ parkd' = NoEntry
Fairness ==
  /\ WF_avars(Walking) /\ WF_avars(Receive) /\ WF_avars(FinishPull) /\ WF_avars(Accept)
  /\ SF_avars(Unlocked)
  /\ \A p \in Path : WF_avars(RemoteTakes(p))
ApplySpec == ApplyInit /\ [][ApplyNext]_avars /\ Fairness

(***************************************************************************)
(* Properties.                                                             *)
(***************************************************************************)
(* What the walks tombstone is what the user took off the disk (fold_scan):
   neither a pull that is still under way nor an application between a walk and
   its fold, nor a change of folder, passes for a gesture of the user. *)
BuriedWereRemoved == buried \subseteq removed

(* The engine destroys no content that no index ever held (apply_staged,
   apply_file_tombstone): an edit not walked yet is still there, or in a copy. *)
NothingDestroyed == lost = {}

(* The index of a path never goes back to a version it had covered, whatever the
   order in which staged bytes, tombstones, parked renames and a walk's fold reach
   it (apply_staged, drain_pending, retry_parked, fold). *)
Advances == \A p \in Path : Covers(idx'[p].vv, idx[p].vv)
IndexAdvances == [][Advances]_avars

(* Once the hands are off the folder, the disk, this index and the other member's
   come to agree and stay so (fold_scan, drain_pending, finish_pull): no version
   oscillates between the two, no tombstone waits for ever. *)
Agree == /\ idx = ridx
         /\ \A p \in Path : disk[p] = IF Live(idx[p]) THEN idx[p].hash ELSE 0
FolderSettles == <>[]Agree
=============================================================================
