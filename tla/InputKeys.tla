----------------------------- MODULE InputKeys -----------------------------
(***************************************************************************)
(* The keyboard of a machine that is being driven: the held set, the plan   *)
(* of a keystroke and the crash guard (input/src/keys.rs, the target half   *)
(* of input/src/session.rs, input/src/store.rs).                            *)
(*                                                                         *)
(* The engine is one thread.  A handler changes its memory at once, and the *)
(* process may die between any two of the steps the world can see: a write  *)
(* of held.json, one key posted to the OS.  Those steps are kept in `job`,  *)
(* so memory is read only where job is empty.  A key the engine pressed     *)
(* stays down when the process dies.                                        *)
(***************************************************************************)
EXTENDS Integers, SequencesExt

CONSTANTS
    Mods,       \* the modifier keys of this machine
    Chars,      \* its other keys
    Bit,        \* the canonical bit each modifier key means, [Mods -> ...]
    BitOrder,   \* mods::holdable_bits: the bits, in the order they are pressed
    Layout,     \* mods::LAYOUT: the bits that choose a character
    ModKey,     \* ModKeys: the key learned for a bit, for the bits that have one
    Symbols,    \* the answers to a symbol: [prefix: <<>> or <<[mods, code]>>, mods, code]
    PressMax,   \* HELD_PRESS_MAX
    MaxCrashes, MaxSaveFails, MaxTurns   \* bounds of the runs; MaxTurns counts withdrawn grants
                                         \* and silences together

Keys == Mods \union Chars

\* What the engine thread has for a key: a press or a release.
Down(k) == [key |-> k, down |-> TRUE]
Up(k) == [key |-> k, down |-> FALSE]

\* A string injection or the press of a lock: the OS is left with no key down.
Text == [key |-> "text", down |-> TRUE]

ASSUME KeysAssumption ==
    /\ Mods \intersect Chars = {} /\ "text" \notin Keys
    /\ \A b \in DOMAIN ModKey : ModKey[b] \in Mods /\ Bit[ModKey[b]] = b
    /\ Layout \subseteq ToSet(BitOrder) /\ ToSet(BitOrder) = {Bit[m] : m \in Mods}
    /\ BitOrder \in Seq(ToSet(BitOrder))
    /\ \A s \in Symbols : s.code \in Chars /\ (s.prefix # <<>> => s.prefix[1].code \in Chars)
    /\ PressMax \in Nat /\ MaxCrashes \in Nat /\ MaxSaveFails \in Nat /\ MaxTurns \in Nat

VARIABLES
    alive,      \* is the process running?
    driven,     \* Engine::driven: is a session typing here?
    held,       \* Engine::held, in press order
    stranded,   \* Engine::stranded
    onDisk,     \* Engine::held_on_disk, what the engine takes the file to hold
    caps,       \* Engine::caps.inject_keys
    job,        \* the visible steps left of the handler that is running
    disk,       \* held.json
    down,       \* OS: the keys that are down because this program pressed them
    grant,      \* OS: may this program inject now?
    silent,     \* OS: are ordinary injections being refused (secure field, lock screen)?
    saveFailed, \* ghost: the last write the guard wanted did not reach the file
    lost,       \* ghost: keys a crash left down and outside the file
    muted,      \* ghost: keys whose release the OS refused or discarded, while the
                \* engine took itself for able to type
    budget      \* crashes, failed writes, withdrawn grants and silences to come

vars == <<alive, driven, held, stranded, onDisk, caps, job, disk, down, grant,
          silent, saveFailed, lost, muted, budget>>

-----------------------------------------------------------------------------
(* The held set (Held): distinct keys in press order.                       *)

\* (mutant: a repeated press enters the key again)
PressTwice(h, k) == Append(h, k)

Press(h, k) == IF k \in ToSet(h) THEN h ELSE Append(h, k)
Absorb(h, other) ==
    LET with[i \in 0 .. Len(other)] == IF i = 0 THEN h ELSE Press(with[i - 1], other[i])
    IN  with[Len(other)]

\* What of q is in S, in order: a recursive function, which the proofs can unfold.
Among(q, S) ==
    LET kept[i \in 0 .. Len(q)] ==
          IF i = 0 THEN <<>>
          ELSE IF q[i] \in S THEN Append(kept[i - 1], q[i]) ELSE kept[i - 1]
    IN  kept[Len(q)]

Release(h, ks) == Among(h, ToSet(h) \ ks)
ReleasePlan(h) == Reverse(h)

ModBits(h) == {Bit[k] : k \in ToSet(h) \intersect Mods}
KeysFor(h, bits) == Among(h, {k \in Mods : Bit[k] \in bits})

\* Held::to_value: the file carries the modifiers alone.
ToValue(h) == Among(h, Mods)

-----------------------------------------------------------------------------
(* The plan of a keystroke.  A plan under construction is what it has       *)
(* emitted, the set it works on, the widest set so far and the modifiers it  *)
(* added itself.                                                            *)

Ups(ks) == [i \in DOMAIN ks |-> Up(ks[i])]
Downs(ks) == [i \in DOMAIN ks |-> Down(ks[i])]

\* dance: is there a key here for every modifier that has to be added?
CanDance(p, want) == want \ ModBits(p.work) \subseteq DOMAIN ModKey

\* dance, then Dance::apply: hold exactly the layout modifiers `want` names.
Dance(p, want, before) ==
    LET have == ModBits(p.work)
        release == Reverse(KeysFor(p.work, (have \intersect Layout) \ want))
        bits == Among(BitOrder, want \ have)
        press == [i \in DOMAIN bits |-> ModKey[bits[i]]]
    IN  [acts  |-> p.acts \o Ups(release) \o Downs(press),
         work  |-> Absorb(Release(p.work, ToSet(release)), press),
         peak  |-> Absorb(p.peak, press),
         added |-> Absorb(Release(p.added, ToSet(release)),
                          Among(press, Mods \ ToSet(before)))]

\* One key struck inside the plan: it is down for a moment, so it is in the peak.
Strike(p, k) ==
    [p EXCEPT !.acts = @ \o <<Down(k), Up(k)>>, !.peak = Press(@, k)]

\* (mutant: what the dance took away is not pressed back)
RestoreHalf(p, before) ==
    [acts |-> p.acts \o Ups(Reverse(p.added)),
     held |-> Release(p.work, ToSet(p.added)), peak |-> p.peak]

\* The end of press_plan: let go of what the plan added, press back what it took.
Restore(p, before) ==
    LET kept == Release(p.work, ToSet(p.added))
        back == Among(before, Mods \ ToSet(kept))
    IN  [acts |-> p.acts \o Ups(Reverse(p.added)) \o Downs(back),
         held |-> Absorb(kept, back),
         peak |-> p.peak]

Fresh(h) == [acts |-> <<>>, work |-> h, peak |-> h, added |-> <<>>]

\* press_plan for a symbol: the dead key first, then the base key, atomically.
\* No plan (the empty sequence) when a modifier has no key or the set is full.
SymbolPlan(h, s) ==
    LET p0 == Fresh(h)
        p1 == IF s.prefix = <<>> THEN p0
              ELSE Strike(Dance(p0, s.prefix[1].mods, h), s.prefix[1].code)
        p2 == Strike(Dance(p1, s.mods, h), s.code)
    IN  IF \/ Len(h) >= PressMax
           \/ s.prefix # <<>> /\ ~CanDance(p0, s.prefix[1].mods)
           \/ ~CanDance(p1, s.mods)
        THEN <<>> ELSE <<Restore(p2, h)>>

\* (mutant: only the modifiers are entered in the held set)
PressPlanModsOnly(h, k) ==
    IF Len(h) >= PressMax THEN <<>>
    ELSE <<[acts |-> <<Down(k)>>, peak |-> Press(h, k),
            held |-> IF k \in Mods THEN Press(h, k) ELSE h]>>

\* press_plan for a position: the key follows its own press and release frames.
PressPlan(h, k) ==
    IF Len(h) >= PressMax THEN <<>>
    ELSE <<[acts |-> <<Down(k)>>, held |-> Press(h, k), peak |-> Press(h, k)]>>

\* keys::release_plan: never release what we did not press.
LetGoPlan(h, k) ==
    <<[acts |-> IF k \in ToSet(h) THEN <<Up(k)>> ELSE <<>>,
       held |-> Release(h, {k}), peak |-> h]>>

\* text_plan and lock_plan: something is injected and the held set is left alone.
TextPlan(h) == <<[acts |-> <<Text>>, held |-> h, peak |-> h]>>

\* Every plan the frames of a source can ask for with `h` held.
Plans(h) ==
    {PressPlan(h, k) : k \in Keys} \union {LetGoPlan(h, k) : k \in Keys}
        \union {SymbolPlan(h, s) : s \in Symbols} \union {TextPlan(h)}

-----------------------------------------------------------------------------
(* The steps of a handler that the world can see.                           *)

Save(h) == <<[op |-> "save", rec |-> ToValue(h)]>>
Inject(acts) == <<[op |-> "inject", acts |-> acts]>>
ReleaseAll(h) == <<[op |-> "release", acts |-> Ups(ReleasePlan(h))]>>
Exit == <<[op |-> "exit"]>>

\* release_held: [held, stranded, job] when the held set `h` is let go of.
ReleaseHeld(h, strand, able) ==
    LET left == IF able THEN strand ELSE Absorb(strand, h)
    IN  IF h = <<>> THEN [held |-> h, stranded |-> strand, job |-> <<>>]
        ELSE [held |-> <<>>, stranded |-> left, job |-> ReleaseAll(h) \o Save(left)]

\* refresh_caps and drain_stranded: what is stranded and what is done about it
\* once the capabilities read `able`.
DrainStranded(h, strand, able) ==
    IF strand = <<>> \/ ~able THEN [stranded |-> strand, job |-> <<>>]
    ELSE [stranded |-> <<>>, job |-> ReleaseAll(strand) \o Save(h)]

\* (mutant: the record is deleted whether or not the release can land)
OpenGuardDeletes(found, able) ==
    [stranded |-> <<>>,
     job |-> IF found = <<>> THEN <<>> ELSE ReleaseAll(found) \o Save(<<>>)]

\* Engine::open: the record found is released if this machine can type, and
\* kept, on disk and in `stranded`, if it cannot.
OpenGuard(found, able) ==
    IF found # <<>> /\ able
    THEN [stranded |-> <<>>, job |-> ReleaseAll(found) \o Save(<<>>)]
    ELSE [stranded |-> found, job |-> <<>>]

\* (mutant: the file is written once, with the set the batch ends with)
KeyJobEndState(plan, strand) ==
    IF plan.acts = <<>> THEN <<>>
    ELSE Save(Absorb(plan.held, strand)) \o Inject(plan.acts)

\* The end of apply_key: the peak is on disk before the batch is handed over, and
\* the set the batch ends with after it.
KeyJob(plan, strand) ==
    IF plan.acts = <<>> THEN <<>>
    ELSE Save(Absorb(plan.peak, strand)) \o Inject(plan.acts)
         \o Save(Absorb(plan.held, strand))

Ready == alive /\ job = <<>>

-----------------------------------------------------------------------------
(* The operating system.                                                    *)

\* The grant comes or goes, at any point of a handler: the engine reads it again
\* when it comes to it (CapabilitiesChanged, RefreshCaps), and types on till then.
GrantTurns ==
    /\ \/ grant /\ budget.turns > 0
          /\ budget' = [budget EXCEPT !.turns = @ - 1]
       \/ ~grant /\ UNCHANGED budget
    /\ grant' = ~grant
    /\ UNCHANGED <<alive, driven, held, stranded, onDisk, caps, job, disk, down,
                   silent, saveFailed, lost, muted>>

\* A password field takes the keyboard, the screen locks, or either ends, at any
\* point of a handler.
SilenceTurns ==
    /\ \/ ~silent /\ budget.turns > 0
          /\ budget' = [budget EXCEPT !.turns = @ - 1]
       \/ silent /\ UNCHANGED budget
    /\ silent' = ~silent
    /\ UNCHANGED <<alive, driven, held, stranded, onDisk, caps, job, disk, down,
                   grant, saveFailed, lost, muted>>

\* The process dies.  What it pressed stays down, and its memory is gone.
Crash ==
    /\ alive /\ budget.crashes > 0
    /\ budget' = [budget EXCEPT !.crashes = @ - 1]
    /\ lost' = lost \union (down \ ToSet(disk))
    /\ alive' = FALSE /\ driven' = FALSE
    /\ held' = <<>> /\ stranded' = <<>> /\ onDisk' = <<>> /\ job' = <<>>
    /\ saveFailed' = FALSE
    /\ UNCHANGED <<caps, disk, down, grant, silent, muted>>

-----------------------------------------------------------------------------
(* The engine.                                                              *)

\* Engine::open, then the first refresh_caps of Engine::start.
Open ==
    LET o == OpenGuard(disk, grant)
    IN  /\ ~alive
        /\ alive' = TRUE /\ caps' = grant
        /\ held' = <<>> /\ stranded' = o.stranded /\ onDisk' = disk /\ job' = o.job
        /\ UNCHANGED <<driven, disk, down, grant, silent, saveFailed, lost, budget, muted>>

\* The end of on_start: the four checks that are not about keys are the source's
\* and the settings'; this machine must be able to be driven.  A session the same
\* source left open ends first, and its keys go before the new set begins.
OnStart ==
    LET r == ReleaseHeld(held, stranded, caps)
    IN  /\ Ready /\ caps
        /\ driven' = TRUE
        /\ held' = r.held /\ stranded' = r.stranded /\ job' = r.job
        /\ UNCHANGED <<alive, onDisk, caps, disk, down, grant, silent, saveFailed,
                       lost, budget, muted>>

\* apply_key, for any plan the source's frame can ask for.
ApplyKey ==
    /\ Ready /\ driven /\ caps
    /\ \E plan \in Plans(held) :
        /\ plan # <<>>
        /\ held' = plan[1].held
        /\ job' = KeyJob(plan[1], stranded)
    /\ UNCHANGED <<alive, driven, stranded, onDisk, caps, disk, down, grant, silent,
                   saveFailed, lost, budget, muted>>

\* A `rel` frame, or the layout changed: everything held goes, the session stays.
OnReleaseAll ==
    LET r == ReleaseHeld(held, stranded, caps)
    IN  /\ Ready /\ held # <<>>
        /\ held' = r.held /\ stranded' = r.stranded /\ job' = r.job
        /\ UNCHANGED <<alive, driven, onDisk, caps, disk, down, grant, silent,
                       saveFailed, lost, budget, muted>>

\* end_driven: a stop frame, a dead channel, the idle watchdog, a gesture.
EndDriven ==
    LET r == ReleaseHeld(held, stranded, caps)
    IN  /\ Ready /\ driven
        /\ driven' = FALSE
        /\ held' = r.held /\ stranded' = r.stranded /\ job' = r.job
        /\ UNCHANGED <<alive, onDisk, caps, disk, down, grant, silent, saveFailed,
                       lost, budget, muted>>

\* BackendEvent::CapabilitiesChanged: the stranded record is tried again first,
\* and a session this machine can no longer serve ends.
CapabilitiesChanged ==
    LET d == DrainStranded(held, stranded, grant)
        r == IF driven /\ ~grant THEN ReleaseHeld(held, d.stranded, grant)
             ELSE [held |-> held, stranded |-> d.stranded, job |-> <<>>]
    IN  /\ Ready
        /\ caps' = grant
        /\ driven' = (driven /\ grant)
        /\ held' = r.held /\ stranded' = r.stranded /\ job' = d.job \o r.job
        /\ UNCHANGED <<alive, onDisk, disk, down, grant, silent, saveFailed, lost,
                       budget, muted>>

\* The other re-reads of the capabilities (MonitorsChanged, CaptureLost): no
\* session ends, and the stranded record is tried again all the same.
RefreshCaps ==
    LET d == DrainStranded(held, stranded, grant)
    IN  /\ Ready
        /\ caps' = grant
        /\ stranded' = d.stranded /\ job' = d.job
        /\ UNCHANGED <<alive, driven, held, onDisk, disk, down, grant, silent,
                       saveFailed, lost, budget, muted>>

\* Engine::shutdown: the last handler of a process that ends in good order.
Shutdown ==
    LET r == ReleaseHeld(held, stranded, caps)
    IN  /\ Ready /\ budget.crashes > 0
        /\ budget' = [budget EXCEPT !.crashes = @ - 1]
        /\ driven' = FALSE
        /\ held' = r.held /\ stranded' = r.stranded /\ job' = r.job \o Exit
        /\ UNCHANGED <<alive, onDisk, caps, disk, down, grant, silent, saveFailed, lost, muted>>

-----------------------------------------------------------------------------
(* The steps of the handler that is running.                                *)

Step(op) == alive /\ job # <<>> /\ Head(job).op = op

\* write_held and write_value: nothing to do when the file already says so, and a
\* write that fails leaves both the file and the engine's word about it alone.
StepSave ==
    LET rec == Head(job).rec
    IN  /\ Step("save")
        /\ job' = Tail(job)
        /\ \/ /\ disk' = (IF rec = onDisk THEN disk ELSE rec)
              /\ onDisk' = rec /\ saveFailed' = FALSE
              /\ UNCHANGED budget
           \/ /\ rec # onDisk /\ budget.saves > 0
              /\ budget' = [budget EXCEPT !.saves = @ - 1]
              /\ saveFailed' = TRUE
              /\ UNCHANGED <<disk, onDisk>>
        /\ UNCHANGED <<alive, driven, held, stranded, caps, down, grant, silent, lost, muted>>

\* A batch that send let through, by what it was.
Posting(op) == IF op = "inject" THEN "typing" ELSE "freeing"

\* The keys a batch leaves up: let go of, and not pressed again.
EndsUp(acts) ==
    {acts[i].key : i \in {i \in DOMAIN acts :
        ~acts[i].down /\ \A j \in i + 1 .. Len(acts) : acts[j] # Down(acts[i].key)}}

\* The head of send: an injection is refused whole without the grant, or while a
\* secure field or a lock screen silences it; a release asks about the grant alone.
\* What a refusal leaves down is on file if the engine knew that it cannot type.
StepSend ==
    LET cmd == Head(job)
        sent == grant /\ (cmd.op = "release" \/ ~silent)
    IN  /\ Step("inject") \/ Step("release")
        /\ job' = IF sent THEN <<[op |-> Posting(cmd.op), acts |-> cmd.acts]>> \o Tail(job)
                  ELSE Tail(job)
        /\ muted' = IF sent \/ ~caps THEN muted ELSE muted \union (EndsUp(cmd.acts) \intersect down)
        /\ UNCHANGED <<alive, driven, held, stranded, onDisk, caps, disk, down, grant,
                       silent, saveFailed, lost, budget>>

\* The rest of a batch after its first action.
AndThen(cmd) ==
    LET rest == Tail(cmd.acts)
    IN  IF rest = <<>> THEN Tail(job) ELSE <<[op |-> cmd.op, acts |-> rest]>> \o Tail(job)

Lands(cmd) == grant /\ (cmd.op = "freeing" \/ ~silent)

\* One action reaches the OS, and lands.
StepPost ==
    LET act == Head(Head(job).acts)
    IN  /\ Step("typing") \/ Step("freeing")
        /\ Lands(Head(job))
        /\ job' = AndThen(Head(job))
        /\ down' = IF act.key \notin Keys THEN down
                   ELSE IF act.down THEN down \union {act.key} ELSE down \ {act.key}
        /\ lost' = lost \ {act.key} /\ muted' = muted \ {act.key}
        /\ UNCHANGED <<alive, driven, held, stranded, onDisk, caps, disk, grant, silent,
                       saveFailed, budget>>

\* One action reaches an OS that discards it: the grant went, or the silence came,
\* after the head of send had asked.  Nobody is told.
StepDiscarded ==
    LET act == Head(Head(job).acts)
    IN  /\ Step("typing") \/ Step("freeing")
        /\ ~Lands(Head(job))
        /\ job' = AndThen(Head(job))
        /\ muted' = IF ~act.down /\ caps THEN muted \union ({act.key} \intersect down) ELSE muted
        /\ UNCHANGED <<alive, driven, held, stranded, onDisk, caps, disk, down, grant, silent,
                       saveFailed, lost, budget>>

\* The process ends after its last handler: its memory goes, the file stays.
StepExit ==
    /\ Step("exit")
    /\ alive' = FALSE
    /\ lost' = lost \union (down \ ToSet(disk))
    /\ held' = <<>> /\ stranded' = <<>> /\ onDisk' = <<>> /\ job' = <<>>
    /\ saveFailed' = FALSE
    /\ UNCHANGED <<driven, caps, disk, down, grant, silent, budget, muted>>

-----------------------------------------------------------------------------

\* The engine has just opened on a machine that can type, with no record.
Init ==
    /\ alive = TRUE /\ driven = FALSE
    /\ held = <<>> /\ stranded = <<>> /\ onDisk = <<>> /\ disk = <<>>
    /\ caps = TRUE /\ grant = TRUE /\ silent = FALSE
    /\ job = <<>> /\ down = {}
    /\ saveFailed = FALSE /\ lost = {} /\ muted = {}
    /\ budget = [crashes |-> MaxCrashes, saves |-> MaxSaveFails, turns |-> MaxTurns]

Running == StepSave \/ StepSend \/ StepPost \/ StepDiscarded \/ StepExit

Next ==
    \/ GrantTurns \/ SilenceTurns \/ Crash
    \/ Open \/ OnStart \/ ApplyKey \/ OnReleaseAll \/ EndDriven
    \/ CapabilitiesChanged \/ RefreshCaps \/ Shutdown
    \/ Running

Spec == Init /\ [][Next]_vars

\* A handler runs to its end, the Core restarts the component (the supervisor's
\* work), the OS tells the engine of a grant, and a withdrawn grant is given back.
Fairness ==
    /\ WF_vars(Running) /\ WF_vars(Open) /\ WF_vars(CapabilitiesChanged)
    /\ WF_vars(GrantTurns /\ ~grant)

FairSpec == Spec /\ Fairness

-----------------------------------------------------------------------------
(* Properties.                                                              *)

Commands ==
    [op : {"save"}, rec : Seq(Mods)]
        \union [op : {"inject", "release", "typing", "freeing"},
                acts : Seq([key : Keys \union {"text"}, down : BOOLEAN])]
        \union [op : {"exit"}]

\* The variables have their types: the held set, the stranded record and the file
\* never name a key twice, and the file names modifiers alone.
TypeOK ==
    /\ alive \in BOOLEAN /\ driven \in BOOLEAN /\ caps \in BOOLEAN
    /\ grant \in BOOLEAN /\ silent \in BOOLEAN /\ saveFailed \in BOOLEAN
    /\ \A h \in {held, stranded} : h \in Seq(Keys) /\ IsInjective(h)
    /\ \A h \in {onDisk, disk} : h \in Seq(Mods) /\ IsInjective(h)
    /\ job \in Seq(Commands)
    /\ down \subseteq Keys /\ lost \subseteq Keys /\ muted \subseteq Keys

\* The crash guard (apply_key, open): at every instant, in the middle of a batch
\* too, a modifier this program has down is named by held.json, so a process
\* that dies now leaves a record of it.  Only a write that failed excuses one, or a
\* release the OS refused or discarded when the engine took itself for able: the
\* record then forgets a key that is down (apply_key, release_held).
Guarded ==
    /\ ~saveFailed => (down \intersect Mods) \ (lost \union muted) \subseteq ToSet(disk)
    /\ budget.saves = MaxSaveFails => lost \intersect Mods \subseteq muted

\* Between two handlers every key that is down is one the engine still answers
\* for: it is in `held` or in `stranded`, unless a crash took the memory of it or
\* its release was refused or discarded while the engine took itself for able.
Owned ==
    Ready => down \ (lost \union muted) \subseteq ToSet(held) \union ToSet(stranded)

\* The keys that are down after the first n actions of a batch, if `from` were down
\* before it: every release of one is followed by a press.
After(from, acts, n) ==
    {k \in from \union {acts[i].key : i \in {i \in 1 .. n : acts[i].down}} :
        \A i \in 1 .. n : acts[i] = Up(k) => \E j \in i + 1 .. n : acts[j] = Down(k)}

\* The stroke of a symbol puts the machine back exactly as it was (press_plan):
\* after it the modifiers that are down are the ones held before it, which the
\* plan's own held set says too, and on the way it let go only of keys that were
\* held or that it pressed itself.
StrokeRestores ==
    Ready => \A s \in Symbols : \A plan \in ToSet(SymbolPlan(held, s)) :
        LET mine == ToSet(held) \intersect Mods
        IN  /\ After(mine, plan.acts, Len(plan.acts)) \intersect Mods = mine
            /\ ToSet(plan.held) \intersect Mods = mine
            /\ \A i \in DOMAIN plan.acts :
                ~plan.acts[i].down =>
                    plan.acts[i].key \in After(mine, plan.acts, i - 1)

\* Every re-read of the capabilities drains the stranded record: it is never kept
\* by an engine that knows it can type (refresh_caps).
DrainedWhenAble == Ready /\ caps => stranded = <<>>

\* A modifier a dead process left down, and on record, comes up in the end: the
\* next start releases it, or keeps the record until it can.  It stays down only when
\* the grant went between the start's reading it and the release.
Unstuck ==
    \A k \in Mods :
        (~alive /\ k \in down \intersect ToSet(disk)) ~> (k \notin down \/ k \in muted)

=============================================================================
