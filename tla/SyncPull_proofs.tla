--------------------------- MODULE SyncPull_proofs ---------------------------
(***************************************************************************)
(* Proofs about SyncPull: what a source's Core keeps alive, for any paths, *)
(* sources, budgets and need ids.                                          *)
(***************************************************************************)
EXTENDS SyncPull, TLAPS

\* A call to the Core, and the record of a source, have their fields.
IsTask(t) == t = [call |-> t.call, id |-> t.id, paths |-> t.paths]
IsSource(r) ==
    /\ r = [active |-> r.active, holds |-> r.holds, publishing |-> r.publishing,
            published |-> r.published, tasks |-> r.tasks, live |-> r.live]
    /\ \A t \in r.tasks : IsTask(t)

\* A transaction alive in the Core of the source r is known to its engine.
Told(r, i) == \E t \in r.tasks : t.id = i /\ t.call \in {"published", "revoke"}
Known(r) == \A i \in r.live : i \in r.published \/ Told(r, i)

SourcesOK ==
    /\ src = [s \in Source |-> src[s]]
    /\ \A s \in Source : IsSource(src[s]) /\ Known(src[s])

-----------------------------------------------------------------------------
\* Revoking the ids of S is a task for each.
LEMMA Revoking ==
    ASSUME NEW S
    PROVE  /\ \A i \in S : \E t \in Revokes(S) : t.id = i /\ t.call = "revoke"
           /\ \A t \in Revokes(S) : IsTask(t)
<1>1. ASSUME NEW i \in S PROVE \E t \in Revokes(S) : t.id = i /\ t.call = "revoke"
  <2>1. PICK t : t = [call |-> "revoke", id |-> i, paths |-> {}]
    OBVIOUS
  <2>2. t \in Revokes(S) /\ t.id = i /\ t.call = "revoke"
    BY <2>1 DEF Revokes
  <2> QED BY <2>2
<1>2. ASSUME NEW t \in Revokes(S) PROVE IsTask(t)
  <2>1. PICK i \in S : t = [call |-> "revoke", id |-> i, paths |-> {}]
    BY DEF Revokes
  <2> QED BY <2>1 DEF IsTask
<1> QED BY <1>1, <1>2

\* A step that changes the record of one source, to a known one.
LEMMA OneSource ==
    ASSUME SourcesOK, NEW s \in Source, NEW r, IsSource(r), Known(r), src' = [src EXCEPT ![s] = r]
    PROVE  SourcesOK'
<1>1. /\ src' = [x \in Source |-> src'[x]]
      /\ \A x \in Source : src'[x] = IF x = s THEN r ELSE src[x]
  BY DEF SourcesOK
<1> QED BY <1>1 DEF SourcesOK

\* What is told stays told while its tasks stay.
LEMMA StillKnown ==
    ASSUME NEW r, Known(r), NEW q, q.live \subseteq r.live,
           \A i \in q.live : i \in r.published => i \in q.published \/ Told(q, i),
           \A t \in r.tasks : t.id \in q.live /\ t.call \in {"published", "revoke"} =>
              t \in q.tasks \/ t.id \in q.published \/ Told(q, t.id)
    PROVE  Known(q)
BY DEF Known, Told

\* on_need: what a slot gives up for the new publish is revoked.
LEMMA NeedKnown ==
    ASSUME NEW r, IsSource(r), Known(r), NEW m, NEW q \in Serve(r, m)
    PROVE  IsSource(q) /\ Known(q)
<1>1. PICK pub : pub = [call |-> "publish", id |-> m.id, paths |-> m.paths] /\ IsTask(pub)
  <2> DEFINE p == [call |-> "publish", id |-> m.id, paths |-> m.paths]
  <2>1. IsTask(p)
    BY DEF IsTask
  <2> QED BY <2>1
<1>2. CASE q = [r EXCEPT !.publishing = @ \cup {m.id}, !.tasks = @ \cup {pub}]
  <2>1. /\ IsSource(q) /\ q.live = r.live /\ q.published = r.published
        /\ r.tasks \subseteq q.tasks
    BY <1>1, <1>2 DEF IsSource
  <2> QED BY <2>1, StillKnown
<1>3. ASSUME NEW old, q = [r EXCEPT !.published = @ \ {old}, !.publishing = @ \cup {m.id},
                                    !.tasks = @ \cup {pub} \cup Revokes({old})]
      PROVE  IsSource(q) /\ Known(q)
  <2>1. PICK R : R = Revokes({old}) /\ \A t \in R : IsTask(t)
    BY Revoking
  <2>2. /\ IsSource(q) /\ q.live = r.live /\ q.published = r.published \ {old}
        /\ q.tasks = r.tasks \cup {pub} \cup R
    BY <1>1, <1>3, <2>1 DEF IsSource
  <2>3. Told(q, old)
    <3>1. \E t \in R : t.id = old /\ t.call = "revoke"
      BY <2>1, Revoking
    <3> QED BY <2>2, <3>1 DEF Told
  <2> QED BY <2>2, <2>3, StillKnown
<1>4. \/ q = [r EXCEPT !.publishing = @ \cup {m.id}, !.tasks = @ \cup {pub}]
      \/ \E old \in r.published :
            q = [r EXCEPT !.published = @ \ {old}, !.publishing = @ \cup {m.id},
                          !.tasks = @ \cup {pub} \cup Revokes({old})]
  BY <1>1 DEF Serve
<1> QED BY <1>2, <1>3, <1>4

\* The Core answers a publish: what is alive now has its word on the way.
LEMMA PublishKnown ==
    ASSUME SourcesOK, NEW s \in Source, NEW t \in src[s].tasks, NEW ok \in BOOLEAN,
           CorePublishes(s, t, ok)
    PROVE  SourcesOK'
<1>1. PICK r : r = src[s] /\ IsSource(r) /\ Known(r) /\ t.call = "publish" /\ t \in r.tasks /\ IsTask(t)
  BY DEF SourcesOK, CorePublishes, IsSource
<1>2. PICK word : word = IF ok THEN "published" ELSE "publish_failed"
  OBVIOUS
<1>3. PICK u : u = [t EXCEPT !.call = word] /\ u.call = word /\ u.id = t.id /\ IsTask(u)
  <2> DEFINE v == [t EXCEPT !.call = word]
  <2>1. v.call = word /\ v.id = t.id /\ IsTask(v)
    BY <1>1 DEF IsTask
  <2> QED BY <2>1
<1>4. PICK q : q = [r EXCEPT !.tasks = (@ \ {t}) \cup {u},
                            !.live = IF ok THEN @ \cup {t.id} ELSE @]
  OBVIOUS
<1>5. src' = [src EXCEPT ![s] = q]
  <2>1. src' = [src EXCEPT ![s].tasks = (@ \ {t}) \cup {u},
                          ![s].live = IF ok THEN @ \cup {t.id} ELSE @]
    BY <1>2, <1>3 DEF CorePublishes
  <2> QED BY <1>1, <1>4, <2>1 DEF SourcesOK
<1>6. /\ IsSource(q) /\ q.published = r.published /\ q.tasks = (r.tasks \ {t}) \cup {u}
      /\ q.live = IF ok THEN r.live \cup {t.id} ELSE r.live
  BY <1>1, <1>3, <1>4 DEF IsSource
<1>7. ASSUME NEW i \in q.live PROVE i \in q.published \/ Told(q, i)
  <2>1. CASE i \in r.live
    <3>1. CASE i \in r.published
      BY <1>6, <3>1
    <3>2. CASE Told(r, i)
      BY <1>1, <1>6, <3>2 DEF Told
    <3> QED BY <1>1, <2>1, <3>1, <3>2 DEF Known
  <2>2. CASE i \notin r.live
    <3>1. ok /\ i = t.id
      BY <1>6, <1>7, <2>2
    <3> QED BY <1>2, <1>3, <1>6, <3>1 DEF Told
  <2> QED BY <2>1, <2>2
<1> QED BY <1>5, <1>6, <1>7, OneSource DEF Known

\* The engine hears that its transaction is there: it takes its slot, or goes.
LEMMA PublishedKnown ==
    ASSUME SourcesOK, NEW s \in Source, NEW t \in src[s].tasks, OnPublished(s, t)
    PROVE  SourcesOK'
<1>1. PICK r : r = src[s] /\ IsSource(r) /\ Known(r)
  BY DEF SourcesOK
<1>2. CASE t.id \in r.publishing
  <2>1. PICK q : q = [r EXCEPT !.publishing = @ \ {t.id}, !.published = @ \cup {t.id},
                              !.tasks = @ \ {t}]
    OBVIOUS
  <2>2. src' = [src EXCEPT ![s] = q]
    <3>1. src' = [src EXCEPT ![s].publishing = @ \ {t.id}, ![s].published = @ \cup {t.id},
                             ![s].tasks = @ \ {t}]
      BY <1>1, <1>2 DEF OnPublished
    <3> QED BY <1>1, <2>1, <3>1 DEF SourcesOK
  <2>3. /\ IsSource(q) /\ q.published = r.published \cup {t.id} /\ q.tasks = r.tasks \ {t}
        /\ q.live = r.live
    BY <1>1, <2>1 DEF IsSource
  <2>4. Known(q)
    BY <1>1, <2>3, StillKnown
  <2> QED BY <2>2, <2>3, <2>4, OneSource
<1>3. CASE t.id \notin r.publishing
  <2>1. PICK R : R = Revokes({t.id}) /\ \A u \in R : IsTask(u)
    BY Revoking
  <2>2. PICK q : q = [r EXCEPT !.tasks = (@ \ {t}) \cup R]
    OBVIOUS
  <2>3. src' = [src EXCEPT ![s] = q]
    <3>1. src' = [src EXCEPT ![s].tasks = (@ \ {t}) \cup R]
      BY <1>1, <1>3, <2>1 DEF OnPublished
    <3> QED BY <1>1, <2>2, <3>1 DEF SourcesOK
  <2>4. /\ IsSource(q) /\ q.published = r.published /\ q.tasks = (r.tasks \ {t}) \cup R
        /\ q.live = r.live
    BY <1>1, <2>1, <2>2 DEF IsSource
  <2>5. Told(q, t.id)
    <3>1. \E u \in R : u.id = t.id /\ u.call = "revoke"
      BY <2>1, Revoking
    <3> QED BY <2>4, <3>1 DEF Told
  <2>6. Known(q)
    BY <1>1, <2>4, <2>5, StillKnown
  <2> QED BY <2>3, <2>4, <2>6, OneSource
<1> QED BY <1>2, <1>3

\* A publish that failed made nothing live; a revoke that was served unmade it.
LEMMA AnsweredKnown ==
    ASSUME SourcesOK, NEW s \in Source, NEW t \in src[s].tasks,
           OnPublishFailed(s, t) \/ CoreRevokes(s, t)
    PROVE  SourcesOK'
<1>1. PICK r : r = src[s] /\ IsSource(r) /\ Known(r)
  BY DEF SourcesOK
<1>2. CASE OnPublishFailed(s, t)
  <2>1. PICK q : q = [r EXCEPT !.publishing = @ \ {t.id}, !.tasks = @ \ {t}]
    OBVIOUS
  <2>2. src' = [src EXCEPT ![s] = q] /\ t.call = "publish_failed"
    <3>1. src' = [src EXCEPT ![s].publishing = @ \ {t.id}, ![s].tasks = @ \ {t}]
          /\ t.call = "publish_failed"
      BY <1>2 DEF OnPublishFailed
    <3> QED BY <1>1, <2>1, <3>1 DEF SourcesOK
  <2>3. /\ IsSource(q) /\ q.published = r.published /\ q.tasks = r.tasks \ {t} /\ q.live = r.live
    BY <1>1, <2>1 DEF IsSource
  <2>4. Known(q)
    BY <1>1, <2>2, <2>3, StillKnown
  <2> QED BY <2>2, <2>3, <2>4, OneSource
<1>3. CASE CoreRevokes(s, t)
  <2>1. PICK q : q = [r EXCEPT !.tasks = @ \ {t}, !.live = @ \ {t.id}]
    OBVIOUS
  <2>2. src' = [src EXCEPT ![s] = q]
    <3>1. src' = [src EXCEPT ![s].tasks = @ \ {t}, ![s].live = @ \ {t.id}]
      BY <1>3 DEF CoreRevokes
    <3> QED BY <1>1, <2>1, <3>1 DEF SourcesOK
  <2>3. /\ IsSource(q) /\ q.published = r.published /\ q.tasks = r.tasks \ {t}
        /\ q.live = r.live \ {t.id}
    BY <1>1, <2>1 DEF IsSource
  <2>4. Known(q)
    BY <1>1, <2>3, StillKnown
  <2> QED BY <2>2, <2>3, <2>4, OneSource
<1> QED BY <1>2, <1>3

\* What the engine gives up on its own, for a done or on leaving, it revokes.
LEMMA GivenUpKnown ==
    ASSUME SourcesOK, NEW s \in Source, NEW S, NEW a, NEW p, NEW q,
           q = [src[s] EXCEPT !.active = a, !.tasks = @ \cup Revokes(S),
                              !.published = @ \ S, !.publishing = p],
           src' = [src EXCEPT ![s] = q]
    PROVE  SourcesOK'
<1>1. PICK r : r = src[s] /\ IsSource(r) /\ Known(r)
  BY DEF SourcesOK
<1>2. PICK R : R = Revokes(S) /\ \A u \in R : IsTask(u)
  BY Revoking
<1>3. /\ IsSource(q) /\ q.published = r.published \ S /\ q.tasks = r.tasks \cup R
      /\ q.live = r.live
  BY <1>1, <1>2 DEF IsSource
<1>4. \A i \in S : Told(q, i)
  <2>1. \A i \in S : \E u \in R : u.id = i /\ u.call = "revoke"
    BY <1>2, Revoking
  <2> QED BY <1>3, <2>1 DEF Told
<1>5. Known(q)
  BY <1>1, <1>3, <1>4, StillKnown
<1> QED BY <1>3, <1>5, OneSource

-----------------------------------------------------------------------------
LEMMA InitSources == Init => SourcesOK
<1> SUFFICES ASSUME Init, NEW s \in Source PROVE IsSource(src[s]) /\ Known(src[s])
  BY DEF Init, SourcesOK
<1>1. PICK r : r = src[s]
  OBVIOUS
<1>2. r = [active |-> TRUE, holds |-> Holds[s], publishing |-> {}, published |-> {},
           tasks |-> {}, live |-> {}]
  BY <1>1 DEF Init
<1>3. IsSource(r) /\ r.live = {}
  BY <1>2 DEF IsSource
<1> QED BY <1>1, <1>3 DEF Known

\* A message that names no source finds nobody: nothing changes.
LEMMA NoSource ==
    ASSUME SourcesOK, NEW s, s \notin Source, NEW q, src' = [src EXCEPT ![s] = q]
    PROVE  SourcesOK'
<1>1. src' = src
  BY DEF SourcesOK
<1> QED BY <1>1 DEF SourcesOK

\* A need and a done, at the source they name.
LEMMA MessageKnown ==
    ASSUME SourcesOK, NEW m, OnNeed(m) \/ OnDone(m)
    PROVE  SourcesOK'
<1>1. CASE src' = src
  BY <1>1 DEF SourcesOK
<1>2. CASE src' # src /\ OnNeed(m)
  <2>1. PICK q \in Serve(src[m.peer], m) : src' = [src EXCEPT ![m.peer] = q]
    BY <1>2 DEF OnNeed
  <2>2. CASE m.peer \notin Source
    BY <2>1, <2>2, NoSource
  <2>3. CASE m.peer \in Source
    <3>1. IsSource(src[m.peer]) /\ Known(src[m.peer])
      BY <2>3 DEF SourcesOK
    <3>2. IsSource(q) /\ Known(q)
      BY <3>1, NeedKnown
    <3> QED BY <2>1, <2>3, <3>2, OneSource
  <2> QED BY <2>2, <2>3
<1>3. CASE OnDone(m)
  <2>1. PICK s : s = m.peer
    OBVIOUS
  <2>2. PICK S : S = src[s].published \cap {m.id}
    OBVIOUS
  <2>3. src' = [src EXCEPT ![s].published = @ \ S, ![s].tasks = @ \cup Revokes(S)]
    BY <1>3, <2>1, <2>2 DEF OnDone
  <2>4. CASE s \notin Source
    BY <2>3, <2>4 DEF SourcesOK
  <2>5. CASE s \in Source
    <3>1. PICK r : r = src[s] /\ IsSource(r)
      BY <2>5 DEF SourcesOK
    <3>2. PICK q : q = [r EXCEPT !.published = @ \ S, !.tasks = @ \cup Revokes(S)]
      OBVIOUS
    <3>3. src' = [src EXCEPT ![s] = q]
      BY <2>3, <2>5, <3>1, <3>2 DEF SourcesOK
    <3>4. PICK R : R = Revokes(S)
      OBVIOUS
    <3>5. q = [r EXCEPT !.active = r.active, !.tasks = @ \cup R,
                        !.published = @ \ S, !.publishing = r.publishing]
      BY <3>1, <3>2, <3>4 DEF IsSource
    <3> QED BY <2>5, <3>1, <3>3, <3>4, <3>5, GivenUpKnown
  <2> QED BY <2>4, <2>5
<1> QED BY <1>1, <1>2, <1>3

\* What happens to a source by itself.
LEMMA SourceKnown ==
    ASSUME SourcesOK, NEW s \in Source, OwnPullLands(s) \/ Leave(s) \/ SourceRestart(s)
    PROVE  SourcesOK'
<1>1. PICK r : r = src[s] /\ IsSource(r) /\ Known(r)
  BY DEF SourcesOK
<1>2. CASE OwnPullLands(s)
  <2>1. PICK q : q = [r EXCEPT !.holds = Covered[s]]
    OBVIOUS
  <2>2. src' = [src EXCEPT ![s] = q]
    BY <1>1, <1>2, <2>1 DEF OwnPullLands, SourcesOK
  <2>3. IsSource(q) /\ q.live = r.live /\ q.published = r.published /\ q.tasks = r.tasks
    BY <1>1, <2>1 DEF IsSource
  <2>4. Known(q)
    BY <1>1, <2>3 DEF Known, Told
  <2> QED BY <2>2, <2>3, <2>4, OneSource
<1>3. CASE Leave(s)
  <2>1. PICK S : S = r.published
    OBVIOUS
  <2>2. PICK q : q = [r EXCEPT !.active = FALSE, !.tasks = @ \cup Revokes(S),
                              !.published = {}, !.publishing = {}]
    OBVIOUS
  <2>3. src' = [src EXCEPT ![s] = q]
    <3>1. src' = [src EXCEPT ![s].active = FALSE, ![s].tasks = @ \cup Revokes(S),
                             ![s].published = {}, ![s].publishing = {}]
      BY <1>1, <1>3, <2>1 DEF Leave
    <3> QED BY <1>1, <2>2, <3>1 DEF SourcesOK
  <2>4. PICK R : R = Revokes(S)
    OBVIOUS
  <2>5. q = [r EXCEPT !.active = FALSE, !.tasks = @ \cup R, !.published = @ \ S, !.publishing = {}]
    BY <1>1, <2>1, <2>2, <2>4 DEF IsSource
  <2> QED BY <1>1, <2>3, <2>4, <2>5, GivenUpKnown
<1>4. CASE SourceRestart(s)
  <2>1. PICK q : q = [r EXCEPT !.publishing = {}, !.published = {}, !.tasks = {}, !.live = {}]
    OBVIOUS
  <2>2. src' = [src EXCEPT ![s] = q]
    <3>1. src' = [src EXCEPT ![s].publishing = {}, ![s].published = {}, ![s].tasks = {},
                             ![s].live = {}]
      BY <1>4 DEF SourceRestart
    <3> QED BY <1>1, <2>1, <3>1 DEF SourcesOK
  <2>3. IsSource(q) /\ q.live = {}
    BY <1>1, <2>1 DEF IsSource
  <2>4. Known(q)
    BY <2>3 DEF Known
  <2> QED BY <2>2, <2>3, <2>4, OneSource
<1> QED BY <1>2, <1>3, <1>4

LEMMA SourcesStep == SourcesOK /\ [Next]_vars => SourcesOK'
<1> SUFFICES ASSUME SourcesOK, [Next]_vars PROVE SourcesOK'
  OBVIOUS
<1>1. CASE src' = src
  BY <1>1 DEF SourcesOK
<1>2. CASE \E m \in net : OnNeed(m) \/ OnDone(m)
  BY <1>2, MessageKnown
<1>3. ASSUME NEW s \in Source, NEW t \in src[s].tasks,
             \/ \E ok \in BOOLEAN : CorePublishes(s, t, ok)
             \/ OnPublished(s, t) \/ OnPublishFailed(s, t) \/ CoreRevokes(s, t)
      PROVE  SourcesOK'
  BY <1>3, PublishKnown, PublishedKnown, AnsweredKnown
<1>4. CASE \E s \in Source : OwnPullLands(s) \/ Leave(s) \/ SourceRestart(s)
  BY <1>4, SourceKnown
<1>5. ASSUME Next, src' # src
      PROVE  \/ \E m \in net : OnNeed(m) \/ OnDone(m)
             \/ \E s \in Source : \E t \in src[s].tasks :
                  \/ \E ok \in BOOLEAN : CorePublishes(s, t, ok)
                  \/ OnPublished(s, t) \/ OnPublishFailed(s, t) \/ CoreRevokes(s, t)
             \/ \E s \in Source : OwnPullLands(s) \/ Leave(s) \/ SourceRestart(s)
  BY <1>5 DEF Next, PumpNeeds, RefusalExpires, OnOffer, OnCannot, Lose, OnPullStarted,
              OnPullFailed, OnTransferOutcome, AdoptFill, FillEnds, NeederRestart
<1> QED BY <1>1, <1>2, <1>3, <1>4, <1>5 DEF vars

\* A transaction alive in a source's Core is one its engine still accounts for,
\* or is about to: through superseded slots, publishes that outlive their slot,
\* dones, leaves, failures and restarts, in any order (engine.rs `on_need`,
\* `on_published`, `on_done`, `sign_status`).
THEOREM NoLeak == Spec => []NothingLeaks
<1>1. SourcesOK => NothingLeaks
  BY DEF SourcesOK, NothingLeaks, Known, Told
<1> QED BY <1>1, InitSources, SourcesStep, PTL DEF Spec
=============================================================================
