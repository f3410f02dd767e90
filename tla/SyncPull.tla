------------------------------ MODULE SyncPull ------------------------------
(***************************************************************************)
(* How bytes travel between sync engines (sync/src/engine.rs, executed by  *)
(* sync/src/orchestrator.rs): the needer asks a source for pending paths,  *)
(* the source publishes them as a transaction of its Core and offers it,   *)
(* the needer's Core fills from it, and a done retires the transaction.    *)
(*                                                                         *)
(* One needer, several sources.  A message, a call to the Core and its     *)
(* answer each run in a task of their own: the sets below have no order.   *)
(* The needer's counter never repeats a need id; ids that nothing refers   *)
(* to any more are used again here, so that runs need no bound on time.    *)
(***************************************************************************)
EXTENDS Naturals, FiniteSets, SequencesExt

CONSTANTS
    Path,             \* pending paths (naturals: BTreeMap order)
    Sources,          \* the sources, in the order the pump meets them
    Covered,          \* [source -> paths its watermark covers]
    Holds,            \* [source -> covered paths live in its index at first]
    NeedsPerPeer,     \* NEEDS_PER_PEER
    PublishedPerPeer, \* PUBLISHED_PER_PEER
    MaxId,            \* bound: need ids in use at a time
    MayLeave,         \* may a source leave the set?
    MayRestart        \* may an engine die and start again?

Source == Range(Sources)
Id     == 1..MaxId

ASSUME PullAssumption ==
    /\ Path \subseteq Nat /\ Path # {}
    /\ NeedsPerPeer \in Nat \ {0} /\ PublishedPerPeer \in Nat \ {0}
    /\ Covered \in [Source -> SUBSET Path] /\ Holds \in [Source -> SUBSET Path]
    /\ \A s \in Source : Holds[s] \subseteq Covered[s]

VARIABLES
    pending,  \* paths whose bytes the needer still lacks
    needs,    \* open needs: [id, peer, paths, pull]
    hot,      \* strikes of a path, counted to 2
    refused,  \* <<source, paths>>: that peer said it cannot serve them
    early,    \* outcomes that came before the transfer's id was known
    loop,     \* what waits for the needer's event loop
    fills,    \* adopt-and-fill tasks: [id, peer, paths, running]
    net,      \* messages in flight: [kind, peer, id, paths]
    src       \* per source: active, holds, publishing, published (need ids),
              \* tasks (calls to its Core), live (transactions of its Core)

needer == <<pending, needs, hot, refused, early, loop, fills>>
vars   == <<pending, needs, hot, refused, early, loop, fills, net, src>>

Need    == [id : Id, peer : Source, paths : SUBSET Path, pull : {"none", "offered", "started"}]
Fill    == [id : Id, peer : Source, paths : SUBSET Path, running : BOOLEAN]
Message == [kind : {"need", "offer", "done", "cannot"}, peer : Source, id : Id,
            paths : SUBSET Path]
Event   == [kind : {"started", "failed", "outcome"}, id : Id, landed : SUBSET Path]
Task    == [call : {"publish", "published", "publish_failed", "revoke"}, id : Id,
            paths : SUBSET Path]

TypeOK ==
    /\ pending \subseteq Path
    /\ needs \subseteq Need
    /\ hot \in [Path -> 0..2]
    /\ refused \subseteq Source \X SUBSET Path
    /\ early \subseteq Event /\ loop \subseteq Event
    /\ fills \subseteq Fill /\ net \subseteq Message
    /\ src \in [Source -> [active : BOOLEAN, holds : SUBSET Path, publishing : SUBSET Id,
                           published : SUBSET Id, tasks : SUBSET Task,
                           live : SUBSET Id]]

Init ==
    /\ pending = Path
    /\ needs = {} /\ hot = [p \in Path |-> 0] /\ refused = {}
    /\ early = {} /\ loop = {} /\ fills = {} /\ net = {}
    /\ src = [s \in Source |-> [active |-> TRUE, holds |-> Holds[s],
                                publishing |-> {}, published |-> {}, tasks |-> {}, live |-> {}]]

Ids(S)   == {x.id : x \in S}
InUse    == Ids(needs) \cup Ids(early) \cup Ids(loop) \cup Ids(fills) \cup Ids(net)
              \cup UNION {src[s].publishing \cup src[s].published \cup src[s].live
                            \cup Ids(src[s].tasks) : s \in Source}
FreeIds  == Id \ InUse
MinOf(S) == CHOOSE x \in S : \A y \in S : x <= y

-----------------------------------------------------------------------------
(* The needer: pump_needs(), peer after peer.                               *)

Claimed(open) == UNION {n.paths : n \in open}
Struck        == {p \in Path : hot[p] > 1}

\* The chunk for one peer: what nobody was asked for, the peer did not refuse
\* and its watermark covers.  A struck path goes alone, after all the others.
Chunk(open, s) ==
    LET free     == pending \ Claimed(open)
        eligible == {p \in free \cap Covered[s] :
                       \A r \in refused : r[1] = s => p \notin r[2]}
        struck   == eligible \cap Struck IN
    IF free \ Struck # {} THEN eligible \ Struck
    ELSE IF struck # {} THEN {MinOf(struck)} ELSE {}

Asked(open, s) ==
    IF \/ Cardinality({n \in open : n.peer = s}) >= NeedsPerPeer
       \/ Chunk(open, s) = {} \/ FreeIds \ Ids(open) = {}
    THEN open
    ELSE open \cup {[id |-> MinOf(FreeIds \ Ids(open)), peer |-> s,
                     paths |-> Chunk(open, s), pull |-> "none"]}

\* One pump: needs past NEED_TTL_SECS are reclaimed, then every reachable peer
\* is asked for what is left.
PumpNeeds(reachable, expired) ==
    LET kept == needs \ expired
        open == FoldLeft(Asked, kept, SelectSeq(Sources, LAMBDA s : s \in reachable)) IN
    /\ open # needs
    /\ needs' = open
    /\ net' = net \cup {[kind |-> "need", peer |-> n.peer, id |-> n.id, paths |-> n.paths] :
                          n \in open \ kept}
    /\ early' = {e \in early : e.id \in Ids(kept)}
    /\ UNCHANGED <<pending, hot, refused, loop, fills, src>>

\* REFUSAL_TTL_SECS passed: the peer may be asked again for the paths it
\* refused, all of them at once (they carry one timestamp).
RefusalExpires(r) ==
    /\ refused' = refused \ {r}
    /\ UNCHANGED <<pending, needs, hot, early, loop, fills, net, src>>

\* on_offer(): only for our own need, from the peer we asked, once.
OnOffer(m) ==
    LET mine == {n \in needs : n.id = m.id /\ n.peer = m.peer /\ n.pull = "none"} IN
    /\ m.kind = "offer"
    /\ net' = net \ {m}
    /\ needs' = (needs \ mine) \cup {[n EXCEPT !.pull = "offered"] : n \in mine}
    /\ fills' = fills \cup {[id |-> n.id, peer |-> n.peer, paths |-> n.paths,
                             running |-> FALSE] : n \in mine}
    /\ UNCHANGED <<pending, hot, refused, early, loop, src>>

\* on_cannot(): the need is released and the refusal remembered.
OnCannot(m) ==
    LET mine == {n \in needs : n.id = m.id /\ n.peer = m.peer} IN
    /\ m.kind = "cannot"
    /\ net' = net \ {m}
    /\ needs' = needs \ mine
    /\ refused' = refused \cup {<<n.peer, n.paths>> : n \in mine}
    /\ UNCHANGED <<pending, hot, early, loop, fills, src>>

\* (mutant: strikes do not saturate)
MutFinishPull(n, landed) ==
    /\ needs' = needs \ {n}
    /\ pending' = pending \ landed
    /\ hot' = [p \in Path |-> IF p \in landed THEN 0
                              ELSE IF p \in n.paths THEN hot[p] + 1 ELSE hot[p]]
    /\ net' = net \cup {[kind |-> "done", peer |-> n.peer, id |-> n.id, paths |-> {}] :
                          x \in IF landed = n.paths THEN {0} ELSE {}}

\* finish_pull(): what landed leaves the pending set and its strikes, what did
\* not is struck; a pull that landed whole is done.
FinishPull(n, landed) ==
    /\ needs' = needs \ {n}
    /\ pending' = pending \ landed
    /\ hot' = [p \in Path |-> IF p \in landed THEN 0
                              ELSE IF p \in n.paths /\ hot[p] < 2 THEN hot[p] + 1
                              ELSE hot[p]]
    /\ net' = net \cup {[kind |-> "done", peer |-> n.peer, id |-> n.id, paths |-> {}] :
                          x \in IF landed = n.paths THEN {0} ELSE {}}

\* on_pull_started(): the outcome that came first is applied now.
OnPullStarted(e) ==
    LET mine == {n \in needs : n.id = e.id /\ n.pull # "none"}
        told == {o \in early : o.id = e.id} IN
    /\ e.kind = "started"
    /\ loop' = loop \ {e}
    /\ \/ /\ mine = {}
          /\ UNCHANGED <<pending, needs, hot, early, net>>
       \/ /\ mine # {} /\ told = {}
          /\ needs' = (needs \ mine) \cup {[n EXCEPT !.pull = "started"] : n \in mine}
          /\ UNCHANGED <<pending, hot, early, net>>
       \/ \E n \in mine, o \in told :
             early' = early \ {o} /\ FinishPull(n, o.landed)
    /\ UNCHANGED <<refused, fills, src>>

\* on_pull_failed(): the need is dropped, the next pump asks again.
OnPullFailed(e) ==
    /\ e.kind = "failed"
    /\ loop' = loop \ {e}
    /\ needs' = {n \in needs : n.id # e.id}
    /\ UNCHANGED <<pending, hot, refused, early, fills, net, src>>

\* (mutant: an outcome that comes before the transfer's id is dropped)
MutOnTransferOutcome(e) ==
    LET mine == {n \in needs : n.id = e.id /\ n.pull = "started"} IN
    /\ e.kind = "outcome"
    /\ loop' = loop \ {e}
    /\ \/ \E n \in mine : FinishPull(n, e.landed)
       \/ mine = {} /\ UNCHANGED <<pending, needs, hot, net>>
    /\ UNCHANGED <<refused, early, fills, src>>

\* on_transfer_outcome(): applied to the need that names the transfer, else
\* remembered for the pull under way; outcomes that no open need will ask for
\* are forgotten here, where the code lets EARLY_OUTCOMES_MAX evict them.
OnTransferOutcome(e) ==
    LET mine == {n \in needs : n.id = e.id /\ n.pull = "started"} IN
    /\ e.kind = "outcome"
    /\ loop' = loop \ {e}
    /\ \/ \E n \in mine : FinishPull(n, e.landed) /\ UNCHANGED early
       \/ /\ mine = {}
          /\ early' = early \cup {e : n \in {n \in needs : n.id = e.id /\ n.pull # "none"}}
          /\ UNCHANGED <<pending, needs, hot, net>>
    /\ UNCHANGED <<refused, fills, src>>

-----------------------------------------------------------------------------
(* The needer's Core, through the adopt-and-fill task of execute().         *)

\* transactions.adopt and transactions.fill: refused when the transaction is
\* gone, or the peer is; else the transfer runs and its id is on its way.
AdoptFill(f) ==
    /\ ~f.running
    /\ \/ /\ f.id \in src[f.peer].live
          /\ fills' = (fills \ {f}) \cup {[f EXCEPT !.running = TRUE]}
          /\ loop' = loop \cup {[kind |-> "started", id |-> f.id, landed |-> {}]}
       \/ /\ fills' = fills \ {f}
          /\ loop' = loop \cup {[kind |-> "failed", id |-> f.id, landed |-> {}]}
    /\ UNCHANGED <<pending, needs, hot, refused, early, net, src>>

\* transfer.finished or transfer.failed: some of the files are staged whole and
\* apply, the others changed under the pull or could not land.
FillEnds(f, landed) ==
    /\ f.running
    /\ fills' = fills \ {f}
    /\ loop' = loop \cup {[kind |-> "outcome", id |-> f.id, landed |-> landed]}
    /\ UNCHANGED <<pending, needs, hot, refused, early, net, src>>

-----------------------------------------------------------------------------
(* A source.                                                                *)

Revokes(ids) == {[call |-> "revoke", id |-> i, paths |-> {}] : i \in ids}

\* on_need(): refused aloud when a path is not live here; a peer at its budget
\* supersedes its own oldest transaction, or is ignored while all its slots are
\* publishes in flight.
\* (mutant: publishes in flight are not counted)
MutSlots(r) == Cardinality(r.published)
Slots(r) == Cardinality(r.published) + Cardinality(r.publishing)
Serve(r, m) ==
    IF Slots(r) < PublishedPerPeer
    THEN {[r EXCEPT !.publishing = @ \cup {m.id},
                    !.tasks = @ \cup {[call |-> "publish", id |-> m.id, paths |-> m.paths]}]}
    ELSE {[r EXCEPT !.published = @ \ {old},
                    !.publishing = @ \cup {m.id},
                    !.tasks = @ \cup {[call |-> "publish", id |-> m.id, paths |-> m.paths]}
                                \cup Revokes({old})] : old \in r.published}
OnNeed(m) ==
    LET r == src[m.peer] IN
    /\ m.kind = "need"
    /\ \/ /\ ~r.active \/ (m.paths \subseteq r.holds /\ Serve(r, m) = {})
          /\ net' = net \ {m}
          /\ UNCHANGED src
       \/ /\ r.active /\ ~(m.paths \subseteq r.holds)
          /\ net' = (net \ {m}) \cup {[m EXCEPT !.kind = "cannot", !.paths = {}]}
          /\ UNCHANGED src
       \/ /\ r.active /\ m.paths \subseteq r.holds
          /\ net' = net \ {m}
          /\ \E t \in Serve(r, m) : src' = [src EXCEPT ![m.peer] = t]
    /\ UNCHANGED needer

\* transactions.publish in the source's Core.
CorePublishes(s, t, ok) ==
    /\ t.call = "publish"
    /\ src' = [src EXCEPT
         ![s].tasks = (@ \ {t}) \cup
            {[t EXCEPT !.call = IF ok THEN "published" ELSE "publish_failed"]},
         ![s].live = IF ok THEN @ \cup {t.id} ELSE @]
    /\ UNCHANGED <<needer, net>>

\* (mutant: a transaction whose slot is gone is left alive)
MutOnPublished(s, t) ==
    /\ t.call = "published"
    /\ src' = [src EXCEPT ![s].publishing = @ \ {t.id},
                          ![s].published = IF t.id \in src[s].publishing
                                           THEN @ \cup {t.id} ELSE @,
                          ![s].tasks = @ \ {t}]
    /\ net' = net \cup {[kind |-> "offer", peer |-> s, id |-> t.id, paths |-> t.paths] :
                           x \in src[s].publishing \cap {t.id}}
    /\ UNCHANGED needer

\* on_published(): offered, or revoked when the slot is gone.
OnPublished(s, t) ==
    /\ t.call = "published"
    /\ IF t.id \in src[s].publishing
       THEN /\ src' = [src EXCEPT ![s].publishing = @ \ {t.id},
                                  ![s].published = @ \cup {t.id},
                                  ![s].tasks = @ \ {t}]
            /\ net' = net \cup {[kind |-> "offer", peer |-> s, id |-> t.id, paths |-> t.paths]}
       ELSE /\ src' = [src EXCEPT ![s].tasks = (@ \ {t}) \cup Revokes({t.id})]
            /\ UNCHANGED net
    /\ UNCHANGED needer

\* on_publish_failed(): the needer is told.
OnPublishFailed(s, t) ==
    /\ t.call = "publish_failed"
    /\ src' = [src EXCEPT ![s].publishing = @ \ {t.id}, ![s].tasks = @ \ {t}]
    /\ net' = net \cup {[kind |-> "cannot", peer |-> s, id |-> t.id, paths |-> {}]}
    /\ UNCHANGED needer

\* transactions.revoke in the source's Core.
CoreRevokes(s, t) ==
    /\ t.call = "revoke"
    /\ src' = [src EXCEPT ![s].tasks = @ \ {t}, ![s].live = @ \ {t.id}]
    /\ UNCHANGED <<needer, net>>

\* on_done(): only the peer the slot was published for ends it.
OnDone(m) ==
    LET held == src[m.peer].published \cap {m.id} IN
    /\ m.kind = "done"
    /\ net' = net \ {m}
    /\ src' = [src EXCEPT ![m.peer].published = @ \ held,
                          ![m.peer].tasks = @ \cup Revokes(held)]
    /\ UNCHANGED needer

\* The source's own pull lands: a relay now has the bytes of what it carried.
OwnPullLands(s) ==
    /\ src[s].active /\ src[s].holds # Covered[s]
    /\ src' = [src EXCEPT ![s].holds = Covered[s]]
    /\ UNCHANGED <<needer, net>>

\* sign_status(left): nothing published outlives the gesture.
Leave(s) ==
    /\ MayLeave /\ src[s].active
    /\ src' = [src EXCEPT ![s].active = FALSE,
                          ![s].tasks = @ \cup Revokes(src[s].published),
                          ![s].published = {}, ![s].publishing = {}]
    /\ UNCHANGED <<needer, net>>

\* The source's engine dies: its Core ends every transaction of the connection.
SourceRestart(s) ==
    /\ MayRestart /\ (src[s].live # {} \/ src[s].tasks # {})
    /\ src' = [src EXCEPT ![s].publishing = {}, ![s].published = {},
                          ![s].tasks = {}, ![s].live = {}]
    /\ UNCHANGED <<needer, net>>

\* The needer's engine dies: pending is on disk, the rest was memory.
NeederRestart ==
    /\ MayRestart /\ needs # {}
    /\ needs' = {} /\ hot' = [p \in Path |-> 0] /\ refused' = {} /\ early' = {}
    /\ loop' = {} /\ fills' = {}
    /\ UNCHANGED <<pending, net, src>>

\* peers.send is best effort, and a need inside SERVE_INTERVAL_SECS is ignored.
Lose(m) ==
    /\ net' = net \ {m}
    /\ UNCHANGED <<needer, src>>

Next ==
    \/ \E reachable \in SUBSET Source, expired \in SUBSET needs : PumpNeeds(reachable, expired)
    \/ \E r \in refused : RefusalExpires(r)
    \/ \E m \in net : OnNeed(m) \/ OnOffer(m) \/ OnCannot(m) \/ OnDone(m) \/ Lose(m)
    \/ \E e \in loop : OnPullStarted(e) \/ OnPullFailed(e) \/ OnTransferOutcome(e)
    \/ \E f \in fills : AdoptFill(f) \/ \E landed \in SUBSET f.paths : FillEnds(f, landed)
    \/ \E s \in Source : \E t \in src[s].tasks :
          \/ \E ok \in BOOLEAN : CorePublishes(s, t, ok)
          \/ OnPublished(s, t) \/ OnPublishFailed(s, t) \/ CoreRevokes(s, t)
    \/ \E s \in Source : OwnPullLands(s) \/ Leave(s) \/ SourceRestart(s)
    \/ NeederRestart

Spec == Init /\ [][Next]_vars

\* What the code's scheduling and a recovering link give.  The safety tick pumps
\* for ever, needs and refusals run out, tasks and the event loop are served;
\* a message, a publish, an adopt and a whole transfer that are tried again and
\* again succeed some time.  From some time on, engines stay up and no need runs
\* out while its answer is on its way (NEED_TTL_SECS is ten minutes).
Works(s) == \E t \in src[s].tasks :
               OnPublished(s, t) \/ OnPublishFailed(s, t) \/ CoreRevokes(s, t)
Handles  == \E e \in loop : OnPullStarted(e) \/ OnPullFailed(e) \/ OnTransferOutcome(e)
Fills    == \E f \in fills : f.id \in src[f.peer].live /\ AdoptFill(f)
                               /\ \E g \in fills' : g.id = f.id
Settles  == \/ \E m \in net : Lose(m)
            \/ \E f \in fills : AdoptFill(f) \/ FillEnds(f, {})
Underway == Ids(net) \cup Ids(loop) \cup Ids(fills)
              \cup UNION {Ids(src[s].tasks) : s \in Source}
Calm ==
    /\ (loop' = loop /\ fills' = fills /\ src' = src /\ net \subseteq net')
          => Ids(needs \ needs') \cap Underway = {}
    /\ ~NeederRestart /\ \A s \in Source : ~SourceRestart(s)
Fairness ==
    /\ <>[][Calm]_vars
    /\ SF_vars(PumpNeeds(Source, {}))
    /\ WF_vars(\E n \in needs : PumpNeeds(Source, {n}))
    /\ WF_vars(\E r \in refused : RefusalExpires(r))
    /\ SF_vars(\E m \in net : OnNeed(m)) /\ SF_vars(\E m \in net : OnOffer(m))
    /\ SF_vars(\E s \in Source : \E t \in src[s].tasks : CorePublishes(s, t, TRUE))
    /\ SF_vars(Fills) /\ SF_vars(\E f \in fills : FillEnds(f, f.paths))
    /\ \A s \in Source : WF_vars(Works(s)) /\ WF_vars(OwnPullLands(s))
    /\ WF_vars(Handles) /\ WF_vars(Settles)
FairSpec == Spec /\ Fairness

-----------------------------------------------------------------------------
\* "Nothing leaks" (doc/sync-engine.md:446-448): a transaction alive in a
\* source's Core is one its engine still accounts for, or is about to.
NothingLeaks ==
    \A s \in Source : \A i \in src[s].live :
        \/ i \in src[s].published
        \/ \E t \in src[s].tasks : t.id = i /\ t.call \in {"published", "revoke"}

\* "At most 2 concurrent published transactions per peer": what a source's Core
\* serves one member, beyond what is being revoked, stays within the slots,
\* publishes in flight included (engine.rs:1194-1217).
SlotsBounded ==
    \A s \in Source :
        Cardinality({i \in src[s].live :
            ~\E t \in src[s].tasks : t.id = i /\ t.call = "revoke"}) <= PublishedPerPeer

\* Some time the needer has everything that the watermark of a member that
\* stays reachable covers: losses, expiries, refusals, strikes, superseded
\* transactions and restarts only delay it, and neither a path that keeps
\* failing nor one the relay does not hold yet starves the rest of its batch
\* for ever (engine.rs:1449-1452, 2230-2246; doc/sync-engine.md:452-457).
Fetched ==
    \A s \in Source : \A p \in Covered[s] :
        [](src[s].active) => <>(p \notin pending)
=============================================================================
