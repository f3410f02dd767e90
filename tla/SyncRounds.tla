----------------------------- MODULE SyncRounds -----------------------------
(***************************************************************************)
(* Reconciliation of one synchronized set among its active members         *)
(* (sync/src/engine.rs): rounds, watermarks, the pending set, what drains  *)
(* without bytes, what a finished pull lands, keep-both conflicts.         *)
(*                                                                         *)
(* A member opens a round with its advertised vv; the answer carries every *)
(* entry that vv does not cover; only a complete answering leg advances    *)
(* the receiver's watermark for the sender, and the advertised vv is the   *)
(* own clock joined with the watermarks.  Messages are best effort: each   *)
(* is sent from a task of its own, so legs are lost and reordered, and a   *)
(* head may overtake the pages it declares.                                *)
(*                                                                         *)
(* Membership is settled here (every device Active, pinned, with a root);  *)
(* SyncMembership models it.  Paths are files.  A path is a pair           *)
(* <<base, tag>>: tag 0 is the plain name, tag c > 0 the conflict copy     *)
(* that holds losing content c.                                            *)
(***************************************************************************)
EXTENDS VersionVectors, FiniteSets

CONSTANTS
    Device,
    Base,             \* base file names (naturals)
    MaxContent,       \* contents are 1..MaxContent
    Writes,           \* what the users of each device write, of 1..MaxContent
    MaxEvents,        \* bound: local changes and deaths explored
    MaxLegs,          \* bound: legs in flight when a round is opened
    PendingPerPath,   \* PENDING_PER_PATH
    VersionId(_),     \* version_id(): an arbitrary total order on versions
    MayLock,          \* may an application hold a destination open?
    MayCrash,         \* may the process die between two handlers?
    MayTear           \* may it die between the two writes of persist()?

ASSUME BoundsAssumption ==
    /\ MaxContent \in Nat \ {0} /\ MaxEvents \in Nat /\ MaxLegs \in Nat
    /\ PendingPerPath \in Nat \ {0}
    /\ Base \subseteq Nat /\ IsFiniteSet(Base)
    /\ Writes \in [Device -> SUBSET (1..MaxContent)]
ASSUME FaultsAssumption ==
    MayLock \in BOOLEAN /\ MayCrash \in BOOLEAN /\ MayTear \in BOOLEAN

Gone    == 0                        \* the content of a tombstone
Content == 0..MaxContent
Path    == Base \X Content
VV      == [Device -> Nat]
Zero    == [k \in Device |-> 0]
Version == [path : Path, vv : VV, c : Content]

\* No entry is an entry with the empty vv: every version descends from it and
\* none is concurrent with it, as the code's `None` arms have it.
Absent == [vv |-> Zero, c |-> Gone]

VARIABLES
    st,       \* per device: idx (index), pend (pending), park (parked),
              \* wm (watermarks), clk (clock.current)
    net,      \* legs sent and not received
    partial,  \* inflight: legs whose head arrived before their pages
    events,   \* local changes and deaths so far
    made,     \* history: every version that took a clock tick (a merge of
              \* two histories without a tick is no new version)
    owed      \* history: contents a user wrote and no user replaced

vars == <<st, net, partial, events, made, owed>>

State == [idx : [Path -> [vv : VV, c : Content]], pend : SUBSET Version,
          park : SUBSET Version, wm : [Device -> VV], clk : Nat]
Leg == [from : Device, to : Device, kind : {"opener", "answer", "closing"},
        vv : VV, delta : SUBSET Version, complete : BOOLEAN]

TypeOK ==
    /\ st \in [Device -> State]
    /\ \A d \in Device, p \in Path :
          Cardinality({e \in st[d].pend : e.path = p}) <= PendingPerPath
    /\ net \subseteq Leg /\ partial \subseteq Leg
    /\ events \in 0..MaxEvents
    /\ made \subseteq Version /\ owed \subseteq Content

Init ==
    /\ st = [d \in Device |->
               [idx |-> [p \in Path |-> Absent], pend |-> {}, park |-> {},
                wm |-> [q \in Device |-> Zero], clk |-> 0]]
    /\ net = {} /\ partial = {} /\ events = 0 /\ made = {} /\ owed = {}

-----------------------------------------------------------------------------
\* The index entry of p, as it travels.
EntryAt(idx, p) == [path |-> p, vv |-> idx[p].vv, c |-> idx[p].c]

At(versions, p) == {e \in versions : e.path = p}
Vvs(versions)   == {e.vv : e \in versions}

\* settle_pending(): drop the versions of p that vv covers.
Settle(versions, p, vv) ==
    {e \in versions : ~(e.path = p /\ Covers(vv, e.vv))}

\* advertised(): own clock joined with the watermarks, never the index.
Advertised(d, s) ==
    JoinAll([Zero EXCEPT ![d] = s.clk], {s.wm[q] : q \in Device})

\* The delta of answer_head(): every entry the peer's vv does not cover, in
\* the index and in the pending set.
MutDelta(s, theirs) ==
    {e \in {EntryAt(s.idx, p) : p \in Path} : ~Covers(theirs, e.vv)}
Delta(s, theirs) ==
    {e \in {EntryAt(s.idx, p) : p \in Path} \cup s.pend : ~Covers(theirs, e.vv)}

-----------------------------------------------------------------------------
(* drain_pending(), one path at a time.  A path's situation is [vv, c, pend, *)
(* park, bump]: its index entry, the pending and parked versions of it, and  *)
(* whether the entry takes a clock tick of its own.  The order of versions   *)
(* within a path is left open, so each pass yields a set of outcomes.        *)

Situation(s, p) ==
    [vv |-> s.idx[p].vv, c |-> s.idx[p].c, pend |-> At(s.pend, p),
     park |-> At(s.park, p), bump |-> FALSE]

\* record_landed(): version e takes the path; beating a tombstone it is
\* concurrent with, it is merged and bumped past it.
Landed(r, e) ==
    [vv   |-> IF Concurrent(e.vv, r.vv) THEN Join(e.vv, r.vv) ELSE e.vv,
     c    |-> e.c,
     pend |-> Settle(r.pend, e.path, e.vv),
     park |-> r.park \ {e},
     bump |-> Concurrent(e.vv, r.vv)]

\* retry_parked(): superseded bytes are released; else the version goes back
\* through the gate, lands, or (still locked, or now in conflict with a live
\* entry) leaves the pending set and stays parked.
MutRetried(r) ==
    {[r EXCEPT !.vv = e.vv, !.c = e.c, !.park = {}] : e \in r.park}
      \cup {r : x \in IF r.park = {} THEN {0} ELSE {}}
Retried(r) ==
    IF r.park = {} THEN {r}
    ELSE LET e == CHOOSE e \in r.park : TRUE
             stuck == [r EXCEPT !.pend = Settle(@, e.path, e.vv)] IN
         IF Covers(r.vv, e.vv) THEN {[r EXCEPT !.park = {}]}
         ELSE IF Concurrent(e.vv, r.vv) /\ r.c # Gone THEN {stuck}
         ELSE {stuck, Landed(r, e)}

\* The quiet pass: old news is dropped; versions concurrent with ours merge
\* when their content is ours or when they are tombstones of a live entry
\* (the edit wins and is bumped).  A version that the merge already covers
\* when its turn comes is left for the next drain.
Mergeable(r, e) ==
    /\ Concurrent(e.vv, r.vv)
    /\ e.c = r.c \/ (e.c = Gone /\ r.c # Gone)
MutQuieted(r) ==
    LET kept   == {e \in r.pend : ~Covers(r.vv, e.vv)}
        merged == {e \in kept : Concurrent(e.vv, r.vv)} IN
    {[r EXCEPT !.vv = JoinAll(@, Vvs(merged)), !.pend = kept \ merged]}
Quieted(r) ==
    LET kept      == {e \in r.pend : ~Covers(r.vv, e.vv)}
        mergeable == {e \in kept : Mergeable(r, e)} IN
    {[r EXCEPT !.vv   = JoinAll(@, Vvs(M)),
               !.pend = kept \ M,
               !.bump = @ \/ \E e \in M : e.c # r.c] :
       M \in {M \in SUBSET mergeable :
                \A e \in mergeable \ M : Covers(JoinAll(r.vv, Vvs(M)), e.vv)}}

\* The tombstone pass: a pending tombstone that dominates removes the file and
\* takes the entry; it stays pending while the file cannot be removed.
Buried(r) ==
    LET tombs == {e \in r.pend : e.c = Gone}
        ready == {e \in tombs : ~r.bump /\ Covers(e.vv, r.vv)} IN
    {[r EXCEPT !.vv = e.vv, !.c = Gone, !.pend = Settle(@, e.path, e.vv)] :
       e \in ready}
      \cup {r : x \in IF MayLock \/ tombs = {} \/ tombs # ready THEN {0} ELSE {}}

PathDrains(s, p) ==
    UNION {UNION {Buried(q) : q \in Quieted(r)} : r \in Retried(Situation(s, p))}

\* Paths in BTreeMap order, so that ticks of one handler are distinct.
PathKey(p)     == p[1] * (MaxContent + 1) + p[2]
Upto(paths, p) == Cardinality({q \in paths : PathKey(q) <= PathKey(p)})

\* The whole of drain_pending(): one outcome per path, ticks in path order.
Busy(s) == {e.path : e \in s.pend \cup s.park}
Drained(d, s) ==
    LET busy   == Busy(s)
        drains == [p \in busy |-> PathDrains(s, p)]
        all    == UNION {drains[p] : p \in busy} IN
    {LET bumped == {p \in busy : r[p].bump} IN
     [s EXCEPT
        !.idx  = [p \in Path |->
                    IF p \notin busy THEN @[p]
                    ELSE [vv |-> IF p \in bumped
                                 THEN [r[p].vv EXCEPT ![d] = s.clk + Upto(bumped, p)]
                                 ELSE r[p].vv,
                          c  |-> r[p].c]],
        !.pend = UNION {r[p].pend : p \in busy},
        !.park = UNION {r[p].park : p \in busy},
        !.clk  = @ + Cardinality(bumped)] :
     r \in {r \in [busy -> all] : \A p \in busy : r[p] \in drains[p]}}

-----------------------------------------------------------------------------
\* persist() at the end of every handler: meta.json (pending, parked,
\* watermarks), then index.json.  A death between the two reopens with the new
\* meta and the old index; the clock resumes past its reservation, the rounds
\* in flight and the legs not yet sent are gone; a walk's change that index.json
\* missed is met again by the next walk, so nobody owes it yet.  `spent` counts
\* the handler's own event against MaxEvents.
Forget(d, legs) ==
    {[m EXCEPT !.kind = IF m.to = d /\ @ = "answer" THEN "closing" ELSE @] : m \in legs}
Ticked(d, s) ==
    {EntryAt(s.idx, p) : p \in {p \in Path : s.idx[p].vv[d] > st[d].clk}}
Persist(d, s, received, kept, sent, spent, owing) ==
    \/ /\ st' = [st EXCEPT ![d] = s]
       /\ net' = (net \ received) \cup sent
       /\ partial' = kept
       /\ made' = made \cup Ticked(d, s)
       /\ events' = events + spent
       /\ owed' = owing
    \/ /\ MayTear /\ events + spent < MaxEvents
       /\ st' = [st EXCEPT ![d] = [s EXCEPT !.idx = st[d].idx, !.clk = @ + 1]]
       /\ net' = Forget(d, net \ received)
       /\ partial' = {m \in kept : m.to # d}
       /\ events' = events + spent + 1
       /\ UNCHANGED <<made, owed>>

-----------------------------------------------------------------------------
\* fold_scan() of a walk that met one difference at p: new content, or the
\* file gone.  The new version descends from the index's.
LocalChange(d, p, c) ==
    LET s == st[d]
        changed == [s EXCEPT !.idx[p] = [vv |-> [@.vv EXCEPT ![d] = s.clk + 1], c |-> c],
                             !.clk = @ + 1] IN
    /\ events < MaxEvents
    /\ c # s.idx[p].c
    /\ c \in Writes[d] \/ c = Gone
    /\ p[2] = 0 \/ c = Gone        \* a conflict copy is kept or deleted
    /\ \E r \in Drained(d, changed) :
          Persist(d, r, {}, partial, {}, 1, (owed \ {s.idx[p].c}) \cup ({c} \ {Gone}))

\* pump() and opener(): a head with our advertised vv and no delta.
OpenRound(d, q) ==
    /\ q # d
    /\ Cardinality(net) + Cardinality(partial) < MaxLegs
    /\ net' = net \cup {[from |-> d, to |-> q, kind |-> "opener",
                         vv |-> Advertised(d, st[d]), delta |-> {}, complete |-> FALSE]}
    /\ UNCHANGED <<st, partial, events, made, owed>>

\* answer_head(): an opener and the answer to our opener are answered, the
\* answer to our answer closes the exchange.  A throttled answer carries no
\* delta and declares itself incomplete.
Answers(d, s, m, with_delta) ==
    IF m.kind = "closing" THEN {}
    ELSE {[from |-> d, to |-> m.from,
           kind |-> IF m.kind = "opener" THEN "answer" ELSE "closing",
           vv |-> Advertised(d, s),
           delta |-> IF with_delta THEN Delta(s, m.vv) ELSE {},
           complete |-> with_delta]}

\* absorb_entry() over a page: dominated versions are dropped on both sides;
\* past PENDING_PER_PATH concurrent versions of a path an entry is refused.
Fresh(s, e) == ~Covers(s.idx[e.path].vv, e.vv)
Maximal(versions) ==
    {e \in versions : \A f \in versions :
        f.path = e.path /\ Covers(f.vv, e.vv) => f.vv = e.vv}
MutAbsorbs(s, delta) ==
    {LET all == Maximal(s.pend \cup {e \in delta : Fresh(s, e)}) IN
     [pend |-> all, all_absorbed |-> TRUE]}
Absorbs(s, delta) ==
    LET all == Maximal(s.pend \cup {e \in delta : Fresh(s, e)})
        crowded == {p \in Path : Cardinality(At(all, p)) > PendingPerPath} IN
    {[pend |-> all \ refused, all_absorbed |-> refused = {}] :
       refused \in {R \in SUBSET (all \ s.pend) :
                      /\ \A e \in R : e.path \in crowded
                      /\ \A p \in crowded : Cardinality(At(all \ R, p)) = PendingPerPath}}

\* try_complete(): all pages are here.  The clock jumps above a claim about our
\* own component, entries join the pending set, the drain runs, and a complete
\* leg that was absorbed whole advances the watermark.
MutWatermark(m, all_absorbed) == TRUE
Watermark(m, all_absorbed) == m.complete /\ all_absorbed
Completed(d, m) ==
    LET s == st[d]
        claim == JoinAll(m.vv, Vvs(m.delta))[d]
        jumped == IF claim > s.clk THEN claim ELSE s.clk IN
    UNION {{[r EXCEPT !.wm[m.from] = IF Watermark(m, a.all_absorbed)
                                     THEN Join(@, m.vv) ELSE @] :
              r \in Drained(d, [s EXCEPT !.pend = a.pend, !.clk = jumped])} :
           a \in Absorbs(s, m.delta)}

\* on_head() when every page is already buffered (or arrives with it).
RecvLeg(m, with_delta) ==
    \E r \in Completed(m.to, m) :
       Persist(m.to, r, {m}, partial, Answers(m.to, r, m, with_delta), 0, owed)

\* on_head() ahead of its pages: the answer leaves now, nothing is absorbed.
RecvHeadFirst(m, with_delta) ==
    /\ m.complete
    /\ partial' = partial \cup {m}
    /\ net' = (net \ {m}) \cup Answers(m.to, st[m.to], m, with_delta)
    /\ UNCHANGED <<st, events, made, owed>>

\* The last page of a leg whose head came first.
RecvLastPage(m) ==
    \E r \in Completed(m.to, m) : Persist(m.to, r, {}, partial \ {m}, {}, 0, owed)

\* A leg is lost on the way: sends are best effort.
LoseLeg(m) ==
    /\ net' = net \ {m}
    /\ UNCHANGED <<st, partial, events, made, owed>>

\* A page never came: prune_buffers() retires the round after ROUND_TTL_SECS.
ExpireRound(m) ==
    /\ partial' = partial \ {m}
    /\ UNCHANGED <<st, net, events, made, owed>>

-----------------------------------------------------------------------------
\* materialize_conflict(): the lower version id keeps the plain path under a vv
\* that dominates both, the loser's content gets a path and a history of its
\* own unless that path already holds it.
MutKeptBoth(d, s, e) ==
    LET ours   == EntryAt(s.idx, e.path)
        winner == IF VersionId(ours) < VersionId(e) THEN ours ELSE e IN
    [s EXCEPT
       !.idx[e.path] = [vv |-> [Join(ours.vv, e.vv) EXCEPT ![d] = s.clk + 1],
                        c  |-> winner.c],
       !.clk = @ + 1,
       !.pend = Settle(@, e.path, e.vv)]
KeptBoth(d, s, e) ==
    LET ours   == EntryAt(s.idx, e.path)
        winner == IF VersionId(ours) < VersionId(e) THEN ours ELSE e
        loser  == IF winner = ours THEN e ELSE ours
        copy   == <<e.path[1], loser.c>>
        ticks  == IF s.idx[copy].c = loser.c THEN 1 ELSE 2
        copied == IF ticks = 1 THEN s.idx
                  ELSE [s.idx EXCEPT ![copy] =
                          [vv |-> [Zero EXCEPT ![d] = s.clk + 1], c |-> loser.c]] IN
    [s EXCEPT
       !.idx = [copied EXCEPT ![e.path] =
                  [vv |-> [Join(ours.vv, e.vv) EXCEPT ![d] = s.clk + ticks],
                   c  |-> winner.c]],
       !.clk = @ + ticks,
       !.pend = Settle(@, e.path, e.vv)]

\* apply_staged() of the verified bytes of version e.
Applied(d, s, e) ==
    LET r == Landed(Situation(s, e.path), e)
        tick == IF r.bump THEN s.clk + 1 ELSE s.clk
        landed == [s EXCEPT
            !.idx[e.path] = [vv |-> IF r.bump THEN [r.vv EXCEPT ![d] = tick] ELSE r.vv,
                             c |-> r.c],
            !.clk = tick,
            !.pend = Settle(@, e.path, e.vv)] IN
    IF Concurrent(e.vv, s.idx[e.path].vv) /\ s.idx[e.path].c # Gone
    THEN {KeptBoth(d, s, e)}
    ELSE {landed} \cup
         {[s EXCEPT !.park = {f \in @ : f.path # e.path} \cup {e}] :
            x \in IF MayLock THEN {0} ELSE {}}

\* finish_pull(): the bytes of a pending live version, served by a peer whose
\* watermark covers it and whose file holds that content, are applied; then
\* the drain runs.  The newest pending version is the one pulled; which of the
\* concurrent ones that is depends on arrival order and is left open.
FinishPull(d, e) ==
    /\ e \in st[d].pend /\ e.c # Gone
    /\ ~Covers(st[d].idx[e.path].vv, e.vv)
    /\ \E q \in Device \ {d} : Covers(st[d].wm[q], e.vv) /\ st[q].idx[e.path].c = e.c
    /\ \E s \in Applied(d, st[d], e) :
          \E r \in Drained(d, s) : Persist(d, r, {}, partial, {}, 0, owed)

\* The process dies between two handlers and reopens from its files: only the
\* rounds in flight, the memory of rounds sent and some clock values are lost.
MutCrash(d) ==
    /\ MayCrash
    /\ events < MaxEvents
    /\ events' = events + 1
    /\ st' = [st EXCEPT ![d].clk = 0]
    /\ net' = Forget(d, net)
    /\ partial' = {m \in partial : m.to # d}
    /\ UNCHANGED <<made, owed>>
MutCrashForgetsPeers(d) ==
    /\ MayCrash
    /\ events < MaxEvents
    /\ events' = events + 1
    /\ st' = [st EXCEPT ![d].clk = @ + 1,
                       ![d].wm = [q \in Device |-> Zero]]
    /\ net' = Forget(d, net)
    /\ partial' = {m \in partial : m.to # d}
    /\ UNCHANGED <<made, owed>>
Crash(d) ==
    /\ MayCrash
    /\ events < MaxEvents
    /\ events' = events + 1
    /\ st' = [st EXCEPT ![d].clk = @ + 1]
    /\ net' = Forget(d, net)
    /\ partial' = {m \in partial : m.to # d}
    /\ UNCHANGED <<made, owed>>

Next ==
    \/ \E d \in Device, p \in Path, c \in Content : LocalChange(d, p, c)
    \/ \E d, q \in Device : OpenRound(d, q)
    \/ \E m \in net, b \in BOOLEAN : RecvLeg(m, b) \/ RecvHeadFirst(m, b)
    \/ \E m \in net : LoseLeg(m)
    \/ \E m \in partial : RecvLastPage(m) \/ ExpireRound(m)
    \/ \E d \in Device : \E e \in st[d].pend : FinishPull(d, e)
    \/ \E d \in Device : Crash(d)

Spec == Init /\ [][Next]_vars

\* What the code and a recovering link give: the safety tick opens rounds for
\* ever; an opener, and an answer that is not throttled, arrive some time when
\* they are sent again and again; a need asked again and again is served some
\* time; nothing stays in flight, or buffered, for ever.
Reaches(q, kind) ==
    \E m \in net :
       /\ m.to = q /\ m.kind = kind
       /\ m.complete \/ kind = "opener"
       /\ RecvLeg(m, TRUE)
Pull(d)  == \E e \in st[d].pend : FinishPull(d, e)
Settles  == \/ \E m \in net : LoseLeg(m) \/ \E b \in BOOLEAN : RecvLeg(m, b)
            \/ \E m \in partial : ExpireRound(m)
Fairness ==
    /\ \A d \in Device :
          /\ \A q \in Device \ {d} : SF_vars(OpenRound(d, q))
          /\ SF_vars(Reaches(d, "opener")) /\ SF_vars(Reaches(d, "answer"))
          /\ SF_vars(Pull(d))
    /\ WF_vars(Settles)
FairSpec == Spec /\ Fairness

-----------------------------------------------------------------------------
\* A conflict copy made again over the tombstone of an earlier one starts a
\* history of its own: materialize_conflict() gives it a vv from nothing.
Restarted(s, p) == p[2] # 0 /\ s.idx[p].c # Gone

\* Version v is accounted for at a device: its index, pending set or parked
\* set holds v or a version that supersedes it.
Accounted(s, v) ==
    \/ Covers(s.idx[v.path].vv, v.vv) \/ Restarted(s, v.path)
    \/ \E e \in s.pend \cup s.park : e.path = v.path /\ Covers(e.vv, v.vv)

\* The watermark rule (doc/sync-engine.md section 3, engine.rs:2434-2437): a
\* device never advertises a vv that covers a version it does not account for.
\* Nobody would ever send it that version again: it would be a permanent hole.
NoHole ==
    \A d \in Device : \A v \in made :
        Covers(Advertised(d, st[d]), v.vv) => Accounted(st[d], v)

\* Among honest members the self-component guard of try_complete never fires:
\* no version, watermark or leg carries more of a device's component than that
\* device's own clock, crashes included (engine.rs:1901-1920).
NoImpossibleClaim ==
    \A d \in Device :
        /\ \A v \in made : v.vv[d] <= st[d].clk
        /\ \A q \in Device : st[q].wm[d][d] <= st[d].clk
        /\ \A m \in net \cup partial : m.vv[d] <= st[d].clk

\* A watermark kept for a peer never runs ahead of what the peer itself still
\* advertises: pump_needs asks that peer for bytes on the strength of it
\* (engine.rs:2250-2254).
WatermarkBehindPeer ==
    \A d, q \in Device : Covers(Advertised(q, st[q]), st[d].wm[q])

\* The lossless doctrine (doc/sync-engine.md section 7): content a user wrote
\* and no user replaced or deleted stays live in some member's index, through
\* concurrent edits, deletions and conflict resolution.
NoEditLost ==
    \A c \in owed : \E d \in Device, p \in Path : st[d].idx[p].c = c

\* No handler replaces an index entry by one that does not descend from it: a
\* stale leg, a late pull or a parked retry never turns a file back.  Only a
\* deleted conflict copy may start over.
IndexNeverRegresses ==
    [][\A d \in Device, p \in Path :
          \/ Covers(st'[d].idx[p].vv, st[d].idx[p].vv)
          \/ st[d].idx[p].c = Gone /\ Restarted(st'[d], p)]_vars

\* All members hold the same versions and have nothing left to fetch.
Converged ==
    \A d, q \in Device : st[d].idx = st[q].idx /\ st[d].pend = {}

\* Once users stop editing, lossy and reordered rounds bring every member to
\* the same versions on every path, for good: no oscillation between a
\* deletion and an edit, no conflict re-detected for ever.
Convergence == <>[]Converged
=============================================================================
