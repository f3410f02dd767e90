# 1Device (universal-link): a TLA+ model of its distributed core

This directory is a verification project for the Rust workspace of 1Device:
modules that model its components, TLC configurations that check them on small
instances, and TLAPS proofs that hold for every value of the constants.
`PROJECT.json` is its index: components, runs, mutants, the map from definitions
to source lines, findings, hazards, theorems.

Paths below are relative to `src/`.

## 1. The system

1Device joins the computers and phones of one account: a shared clipboard, file
transfer, synchronized folders, one keyboard and mouse over several machines.

| Part | State it keeps | Operations | Talks to |
|---|---|---|---|
| **server** (`server`) | device directory, connections, pairing sessions, revocations | authenticate, enrol, revoke, presence, pairing relay | every Core, over a WebSocket |
| **Core** (`core`, run by `daemon`) | IPC registry and grants, server session, directory and account key, transactions, peer streams and channels | `hello`, enrolment, `session.*`, `devices.*`, `clipboard.*`, `transactions.*`, `peers.*`, pairing | server; other Cores (data plane); local components (IPC) |
| **client library** (`client`) | pending requests, subscriptions, the connection cycle | connect, request, notify, reconnect with backoff | the local Core |
| **sync engine** (`sync`) | per set: membership view, index, pending, parked, watermarks, clock lease, rounds in flight, needs and offers | gestures (create, invite, accept, leave, pause), walks, rounds, pulls, conflict resolution | its peers, through `peers.send`; the Core's transactions for bytes |
| **clipboard component** (`clipboard`) | the announced copy, the promised paste, open sessions | copied, offer, render, lost | Core; OS clipboard |
| **input component** (`input`) | layout plane, crossing graph, per peer channels, the two halves of a driving session, held keys | cross, drive, return, grant, held-key hygiene | its peers, through `peers.channel`; OS input |
| **menu component** (`menu`) | target list, clicks being gathered | render targets, turn clicks into one `files.send` | Core; desktop shells |
| **front ends** (`gui`, `gui-mobile`, `tray`) | mirrors of the Core's state | user gestures | Core |
| **daemon supervisor** (`daemon`) | children and their restart budget | spawn, restart, stop | components |

Messages between devices are best effort everywhere: a `peers.send` runs in a
task of its own, so sends are lost and overtake each other; only one stream
orders its own bytes. Every component restarts on its own and reconnects.

### What is hard in each, and what makes it correct

* **Set clock** (`sync/src/clock.rs`). Versions are named by (device,
  generation, counter). Correct when no name is ever issued twice, through
  deaths, failed writes, reinstalls and claims of peers. Hard: the lease is on
  disk, the counter in memory.
* **Rounds** (`sync/src/engine.rs`). Anti-entropy with watermarks: a device
  advertises what it accounts for, a peer sends what that does not cover.
  Correct when advertising never covers a version the device could lose (it
  would never be sent again), when no user's edit disappears, and when members
  end up equal. Hard: legs lost and reordered, heads ahead of their pages,
  relays that hold a version only as pending, locked destinations, deaths
  between two files, deletions concurrent with edits.
* **Membership** (`sync/src/membership.rs`). A set of signed records gossiped in
  any order; the view is derived. Correct when the same records give the same
  view, when a member's later word beats its earlier ones, when a closed door
  stays closed through key rotations, and an invitation opens it. Hard: chains
  of invitations heard backwards, terminals, reinstalls.
* **Needs and offers** (`sync/src/engine.rs`, `sync/src/orchestrator.rs`). Bytes
  are asked of a peer, published as a transaction, pulled, retired. Correct when
  a path has one need, published transactions stay under the cap and end, and a
  path that can be served is. Hard: outcomes before starts, expiries racing
  offers, a source that leaves.
* **Walk and apply** (`sync/src/scan.rs`, `engine.rs`). The disk changes under
  the index while a walk runs off the event loop. Correct when no local edit is
  overwritten unseen and no deletion is invented.
* **Transactions and data plane** (`core/src/clipboard.rs`, `clipnet.rs`,
  `datachannel.rs`). The right to read a frozen set of resources: minted by a copy
  or a publication, opened, superseded, revoked. Correct when the last copy wins on
  every device, when a new copy leaves a paste in flight alone and the old clip goes
  with its last reader, when no session sleeps through a revocation, and when a
  grant ends with its last holder. Hard: announces in any order under unequal
  clocks, sessions relayed to another device, wakes that store no permit, an adopt
  awaited while its connection or its source goes.
* **Pairing** (`core/src/pairing.rs`, `server/src/pairing.rs`). The account key
  crosses an untrusted rendezvous. Correct when only the confirmed device gets
  it, once, within its attempts and its time.
* **Directory** (`core/src/directory.rs`, `account_key.rs`, `dirsync.rs`).
  Correct when a struck-off device never comes back by gossip.
* **IPC** (`core/src/conn.rs`, `state.rs`, `client/src/conn.rs`). Correct when a
  request has one answer, tokens enrol once, exclusivity of a role holds, and
  state events go out in the order of the transitions.
* **Input keys** (`input/src/keys.rs`, `session.rs`, `store.rs`). What a driven
  machine has pressed on behalf of its source. Correct when every modifier that is
  down is on disk before it can be lost, when every key that is down is answered
  for, and when a stroke leaves the modifiers as it found them. Hard: deaths in the
  middle of a batch, grants that come and go, a record found by a machine that
  cannot release it.
* **Input session** (`input/src/session.rs`, `orchestrator.rs`). Correct when a
  machine outside a session has its keyboard and its pointer, none drives while it
  is driven, nothing is typed without a grant, and a keyboard whose target is gone
  comes home. Hard: channels replaced under a session, notices that name the peer
  and not the channel, gestures racing frames, hung peers.

## 2. Modules

| Module | Models | Kind |
|---|---|---|
| `SetClock` | `sync/src/clock.rs` and its lease file | component |
| `VersionVectors` | `sync/src/vv.rs` | operators |
| `SyncRounds` | rounds, pending, drain, conflicts, persistence of `sync/src/engine.rs` | component, distributed |
| `SyncMembership` | `sync/src/membership.rs` and the engine's gestures over it | component, distributed |
| `SyncPull` | needs, offers and pulls of `sync/src/engine.rs`, the tasks of `sync/src/orchestrator.rs` | component, distributed |
| `SyncApply` | one folder on disk: walks (`scan.rs`), staged bytes, tombstones, parked renames, leave and accept (`engine.rs`) | component |
| `Transactions` | the election, grants and sessions of `core/src/clipboard.rs`, `clipnet.rs`, `datachannel.rs`, `conn.rs` | component, distributed |
| `Handover` | what joining an account promises | abstract specification |
| `Pairing` | `core/src/pairing.rs`, `server/src/pairing.rs`, `account_key::install` | component, distributed; implements `Handover` |
| `Directory` | `core/src/directory.rs`, `dirsync.rs`, `account_key.rs`, `session.rs`, the server's `state.rs` | component, distributed |
| `Login` | `core/src/login.rs`, the session task of `session.rs`, `lib.rs` | component |
| `Transfers` | files between devices, `core/src/dataplane.rs` | component |
| `PeerChannels` | `core/src/peerchannel.rs` | component |
| `Reach` | what a device claims of where it is, `core/src/dataplane.rs`, `daemon/src/dataplane.rs` | component |
| `Ipc` | `core/src/conn.rs`, `state.rs`, `client/src/conn.rs`, `daemon/src/supervisor.rs`, `child.rs` | component |
| `ClipSatellite` | `clipboard/src/orchestrator.rs` and its X11, Windows and macOS owners | component |
| `ClipFiles` | pasted files: `clipboard/src/{webdav,fuse,windows_ole,macos}.rs`, `client/src/channel.rs`, the Core that serves them | component |
| `InputKeys` | the held set, plans and crash guard of `input/src/keys.rs`, `session.rs`, `store.rs` | component |
| `InputSession` | sessions and channels of `input/src/session.rs`, `orchestrator.rs` | component, distributed |
| `InputPlane` | `input/src/plane.rs` and the layout rounds | component, distributed |
| `Crossing` | `input/src/graph.rs` and the pointer half of `session.rs` | component |
| `PortalCapture` | `input/src/wayland.rs`, `wayland_portal.rs` | component |
| `CaptureLoop` | the capture half of `input/src/{x11,windows,macos}.rs` | component |
| `GuiStore` | `gui/ui/src/lib/store.svelte.ts`, `gui/src/bridge.rs` | component |
| `Shares` | `gui-mobile/src/share.rs`, `keepalive.rs` and the store's share half | component |
| `Menu` | `menu/src` | component |
| `*_proofs` | the theorems about a component | proofs |
| `MCAgree`, `MCCore`, `MCFronts`, `MCInput` | small instances of several components, one at work in a behaviour | model checking |
| other `MC*` | small instances of one component | model checking |

A component keeps one state machine; where two components meet, each models the
other's side as what its own code relies on. `InputSession` meets `PeerChannels` in
its pipes and notices, `SyncPull` meets `Transactions` in publish, adopt and fill,
`ClipFiles` meets it in a session's frames, `ClipSatellite` in the numbers the Core
elects, `Pairing` and `Directory` in the roots and records a join leaves behind.

`MCAgree`, `MCCore`, `MCFronts` and `MCInput` put several components under one run: a
variable `part`, fixed by the initial state, says which is at work. The base component
(`SetClock` with `SyncMembership`, `Pairing`, `InputSession`; `MCFronts` has none) keeps its names; the
others are INSTANCEs whose variables are `x1`, `x2`, ... by position, at 0 where a part
has no use for them. A property of such a run is the conjunction, over the parts, of
`part = "p" => P!Property`; its mutants are one per part.

### SetClock

One device's clock: `generation`, `clock`, `reserved` in memory, the `disk`
lease, the `index` claim, what was `issued` (history). `TickInBlock` and
`TickNewBlock` are `tick()`; `JumpAbove` is `jump_above()`; `OpenPresent` and
`OpenAbsent` the two arms of `open()`; `PersistIndex` stands for the index file
whose greatest component `open()` consults. `LeaseWriteMayFail` opens the error
path of `reserve()`. The counter is bounded by `Ceiling`, as `CLOCK_CEILING`
bounds it in the code; `MaxNow` bounds the wall clock that mints generations.

### SyncRounds

State per device: `idx`, `pend`, `park`, `wm`, `clk` are the fields of
`SetState`; `net` and `partial` hold the legs in flight and those whose head came
before their pages. One action per handler; each runs the drain and `persist()`
at its end, as every handler of the engine does.

| Action | Code |
|---|---|
| `LocalChange` | `fold_scan` of a walk that met one difference |
| `OpenRound` | `pump`, `opener` |
| `RecvLeg`, `RecvHeadFirst`, `RecvLastPage` | `on_head`, `buffer_page`, `try_complete`, `answer_head` |
| `ExpireRound` | `prune_buffers` |
| `FinishPull` | `finish_pull`, `apply_staged`, `materialize_conflict` |
| `Crash` | process death, `from_meta` |
| `LoseLeg` | a best-effort send that never arrives |

Abstractions. A version is (path, vv, content); content 0 is a tombstone. The
order of the versions of one path inside the pending vector is left open (every
order is explored). A path is a pair of a base name and a tag: tag 0 is the plain
name, tag c the conflict copy that holds content c. Users edit plain names and
may delete copies. A refused entry at the cap is any of the new ones. A death
wastes one clock value, which is what `SetClock` guarantees. `made` records
the versions that took a tick; a merge of two histories without a tick makes no
version. Membership is settled, paths are files; failed writes of `persist()`
and staged bytes that vanish are left out. `Writes` restricts which contents the
users of a device write, as an input.

### SyncMembership

`view` is one device's `SetMembership` (records, pins, floors, the unverified
stash), `key` the generation of its engine key, `open` its open invitations, `net`
the messages in flight, `signed` and `got` the histories the properties compare.
Actions: the gestures `Invite`, `Accept`, `Decline`, `Pause`, `Resume`, `Leave`;
`SendInvite`, `SendHead`; `RecvInvite`, `RecvAck`, `RecvHead`, `RecvMarker`;
`Lose`; `Reinstall`. Absorption, the fixpoint of `reverify` and the derived
`effective` status are operators; a page of records is folded in the order
`all_records` sends it.

Abstractions. A head may be sent to any device the view names or pins (the
engine's schedule is narrower). `at` orders signatures globally. Endorsements
(verified, never issued by the engine), descriptor signatures, `SEQ_MAX` and the
device cap are left out.

### SyncPull

`SyncRounds` lets a pull happen; `SyncPull` is how it happens. The needer's state
is `pending`, `needs`, `hot`, `refused`, `early` (fields of `SetState`), `loop` (what
waits on the event loop's channels) and `fills` (the adopt-and-fill tasks); `src`
is each source: its standing, what it holds live, `publishing` and `published`,
the calls to its Core under way and the transactions alive there.

| Action | Code |
|---|---|
| `PumpNeeds`, `RefusalExpires` | `pump_needs`, its reclaim and its refusal clock |
| `OnNeed`, `OnPublished`, `OnPublishFailed`, `OnDone` | the source's handlers |
| `OnOffer`, `OnCannot`, `OnPullStarted`, `OnPullFailed`, `OnTransferOutcome` | the needer's handlers; `FinishPull` is `finish_pull` |
| `CorePublishes`, `CoreRevokes`, `AdoptFill`, `FillEnds` | the tasks `execute()` spawns, and the Core's notification |
| `OwnPullLands` | the relay gets the bytes it lacked |
| `Leave`, `SourceRestart`, `NeederRestart`, `Lose` | `sign_status`, process death, a message that never arrives |

Abstractions. One needer, whose pending set only shrinks. A transaction, its
transfer and its staging directory are named by the need they serve. Need ids
nothing refers to are used again, where the code's persisted counter goes on: no
step tells the difference. A pump reclaims any set of needs, and a refusal runs
out at any time. Strikes are counted to 2, where they begin to matter. Left out:
the chunk caps and the basename rule, disk-full and size guards, pauses, the
evictions at `EARLY_OUTCOMES_MAX` and `REFUSALS_MAX`; `SERVE_INTERVAL_SECS` is one
of the ways a need is lost.

### Transactions

`tab[c]` is the `ClipboardState` of Core `c`: `current`, the ids in the table, and of
each entry whether it is superseded, whether its bytes came along, its session count
and its owners. What a producer fixes for good (producer, source, seq, device id) is
in `minted`. `conn[k]` is a control connection with the adopt it awaits. A session has
a near half on the reading Core and, when it is relayed, a far half on the source;
`phase` is how far the task of each has come, `woken` the halves whose latched
`Notified` has fired, `frame` the word the far half left on the stream. `Arm`, then the
liveness check of `Park` or `Cut`, is the order of `serve_local`, `pipe_consumer` and
`run_fill`; `notify_waiters` reaches only the halves that are armed at that instant.

| Action | Code |
|---|---|
| `clipboard_updated`, `FallBack`, `build_remote_tx`, `recv_announce` | the copy with `propagate` and `propagate_materialized`; a push refused for want of a direct path; the check and the election of `recv_announce` and `recv_push` |
| `Clear` | `session_logout`, and the account striking the device off (`account_key.rs`) |
| `transactions_publish`, `transactions_revoke`, `teardown` | the handlers of `conn.rs` |
| `adopt`, `serve_tx_fetch`, `AdoptInstalls`, `AdoptEvicts`, `AdoptFails` | `adopt` before and after its await, the source's answer |
| `Ask`, `serve_consumer`, `Dial`, `serve_session` | `transactions.open` and `fill`, the start of the task on each side |
| `Arm`, `Park`, `Cut`, `Relayed`, `Leave`, `FarLeaves` | the loops and ends of `serve_local`, `pipe_consumer`, `run_fill`, each with `end_session` and `evict_stale_published` |

Abstractions. Bytes, formats, manifests and ranges are left out; a clip's bytes came
along or not. A `READ`, a `FETCH` or a chunk is the parked phase. Device ids are
numbers, 0 outside an account. Announces are sent to every other device and may stay
on the way for ever. An adopt goes to the device its ticket names. A Core's stop is
left out. `heard` is a history: the clips a Core announced or was offered since it was
last cleared.

### InputKeys

One driven machine. `held`, `stranded`, `onDisk`, `caps` and `driven` are fields of
`Engine`; `disk` is `held.json`; `down`, `grant` and `silent` belong to the OS. The
engine is one thread, so a handler changes its memory at once; what the world sees
of it (a write of the file, an injection, key by key) waits in `job`, and a process
may die between any two of those steps. The plan of a keystroke is computed by
operators with the structure of `press_plan`: `Dance` (release the layout
modifiers that are in the way, press the missing ones), `Strike`, `Restore`.

| Action | Code |
|---|---|
| `Open` | `Engine::open`, `start` |
| `OnStart`, `ApplyKey`, `OnReleaseAll`, `EndDriven` | `on_start`, `apply_key`, the `rel` frame, `end_driven` |
| `CapabilitiesChanged`, `RefreshCaps` | the re-reads of the capabilities in `on_backend` |
| `Shutdown`, `StepExit` | `Engine::shutdown` |
| `StepSave`, `StepSend`, `StepPost`, `StepDiscarded` | `write_value` and `save_held`, the back end's `send` and `post` |
| `Crash`, `GrantTurns`, `SilenceTurns` | process death, the OS (external) |

Abstractions. A symbol is the answer of the resolver: an optional dead key with its
modifiers, a key and its modifiers. Injection is synchronous, as on Windows and
macOS, and posts a batch key by key. The grant and the silence turn at any instant, in the
middle of a batch too; `send` asks before a batch (`StepSend`), the engine hears when it
reads its capabilities again, and what the OS discards in between is lost without a word
(`StepDiscarded`). Ghosts: `lost` (down, and outside the file, when a process died),
`muted` (down because the OS refused or discarded the release while the engine took
itself for able), `saveFailed`.

### InputSession

`eng[n]` is a machine's `Engine` as a record; a handler is an operator from record
to record, so a turn is the composition the code runs: the handler, then the parts
of `pump` (`SyncChannels`, `ParkedTakes`), then `RunEffects`. A channel is a pipe
with a task at each end (`task`), which the Core makes, replaces and ends
(`CoreOpens`, `Cut`, `Revoke`, `Leave`) and reports on by peer, not by pipe
(`notices`).

| Action | Code |
|---|---|
| `OnPeerChannel`, `Attach`, `DialFails`, `AttachFails`, `TaskEnds` | `orchestrator.rs`: `on_peer_channel`, `open_channel`, `attach_and_run`, `channel_task`; `attach`, `on_open_failed`, `on_channel_ended` |
| `ChannelClosed`, `NoticeDropped` | `on_channel_closed`, `on_peer_channel_closed` |
| `Deliver` | `on_inbound`, `on_frames`, `on_frame` and the handler of each frame |
| `Take`, `Release`, `Lock`, `Allow`, `Drive` | the gestures of `serve` |
| `Cross`, `HandOver`, `Type` | `on_motion` to `crossing`, `integrate`, `on_key` |
| `CapabilitiesChanged`, `MonitorsChanged`, `CaptureLost` | `on_backend` |
| `Stall`, `Idle`, `Sweep`, `SetDirectory` | `watchdogs`, `layout_rounds`, `set_directory` |
| `Hang`, `Restart` | external; `Restart` may begin with `shutdown` |

Abstractions. The pointer, the crossing graph and the plane are choices: a `start`
may be refused for a stale plane, any warm driven machine may be adjacent.
`CLOSURE_GRACE` is a choice wherever a channel is attached. Pings are left out: a
watchdog fires without cost for a machine that hangs, and at the cost of an event
(`freeze`) for a path that stays silent. Outboxes are unbounded. `Warm` and `Dialling` say
where a run starts: which channels are up, and whose Core is still dialling (nobody's in
the runs: a dial that crosses a take multiplies the states of every one of them beyond
what TLC can finish; the theorems hold for any).

### SyncApply

A folder holds a directory and a file in it; `disk` is what the user edits, `idx` the
index, `pend` and `parkd` the version received and the bytes that wait for a lock,
`walk` a walk under way with the snapshot it compares with, `ridx` and `got` the other
member. `FoldScan` is the fold of a walk that ends (with `retry_parked` and the drain
after it), `Receive` and `FinishPull` the arrival of a version and of its bytes
(`apply_staged`, `apply_file_tombstone`, directories among them), `Leave` and `Accept` the
change of root. With one other member the versions a path waits for form a chain.

### Pairing and Handover

`Handover` has two variables, the keys devices hold and the decisions humans took and
nobody has used. `Pairing` is everything that carries them: `slot` (the one pairing a
device keeps), `job` (the interface's call under way), `tasks` (spawned completions and
LAN tails), `inbox` (what the server sent), `sess` (the server's rendezvous), `lan`
(streams). Epochs number the pairings; a channel key is the pair of epochs whose
ephemeral secrets it came from, a sealed bundle opens under its own key alone. Server
events carry no pairing id and are applied to whatever the slot holds, as
`on_server_event` does. `KeysByDecision` is `Handover`'s specification with `root` for
the keys and the history `granted` for the decisions.

| Action | Code |
|---|---|
| `Offer`, `OfferLan`, `Accept`, `AcceptLan`, `Confirm`, `Cancel`, `TypeCode` | the calls `pairing.*`, `account.setup`, `account.join` |
| `CreateReplied`, `ClaimReplied`, `CancelReplied`, `ApproveReplied`, `Reauthenticated` | their ends |
| `PairingCreate`, `PairingClaim`, `PairingApprove`, `PairingCancel`, `ConnEnds`, `Sweep` | `server/src/pairing.rs` |
| `Deliver`, `Expire` | `on_server_event`, the expiry |
| `RecvLanPair`, `LanAnswered`, `LanSponsor`, `LanJoiner` | the LAN's two tails |
| `StowKey`, `CommitRoot`, `EnterAccount`, `EnrollOnGrant` | `install` in its two halves, and what follows |
| `DirectLost`, `SessionLost`, `SessionBack`, `Unreachable`, `StreamLost`, `Leave` | faults; `account_key::leave` |

### Directory, Login

`Directory`: every device's copy of the records (`dir`), its tombstones (`rev`), its own
record, the server's entries, queues and commands, rosters on the way (`mail`). Records
are signed by the device they describe; the server's rename drops the signature and the
device signs again. Snapshots, events, rosters, strikes and restarts come in any order.
`Login`: the one login slot, flows, the token, the session task and its abort handle,
the ways a session ends.

### Transfers, PeerChannels, Reach

`Transfers`: a manifest frozen, sent, written to part files, named under `COMMIT_NAMING`,
renamed and acknowledged, several at once into a folder the user writes in too.
`PeerChannels`: attempts dialled and joined, tokens, the registry and its era, pipes told
to stop. `Reach`: the endpoint, the watchers, the record's claim and the interface's
list of near devices, each woken by `Notify`s that coalesce.

### Ipc

An interface, a backend of an exclusive role and a third party without a token; a
connection's task handles one frame at a time and its out queue drops what it has no
room for. `Hello` is the admission by token (file, spawn, enrolled) with its scopes,
`Forward` and `Deliver` the facade's relay, `Teardown` a connection's end;
`Dial`, `Up`, `LinkLost`, `EstablishTimeout`, `AskTimeout` the client's cycle; `Spawn`,
`ChildDies`, `CoreRestarts` the supervisor and the world.

### ClipSatellite, ClipFiles

`ClipSatellite`: the orchestrator's tables, the commands and events between it and the
owner, the operating system's selection. X11 handles commands and X events one at a
time; Windows and macOS block their loop inside a paste. `ClipFiles`: two readers, one
shared channel whose requests may be dropped half way, the Core's frozen manifest over
files that go on changing, the macOS fill.

### InputPlane, Crossing, PortalCapture, CaptureLoop

`InputPlane`: each device's signed screens and the one arrangement, last writer wins by
(seq, by, sig), exchanged in rounds that get lost. `Crossing`: screens three points wide,
`SNAP` and `DEAD_CORNER` of one point, the layout every device derives, the walk of the
virtual cursor. `PortalCapture`: D-Bus signals and the EI stream in no common order, one
failing portal call. `CaptureLoop`: the command queue, the grab, hooks or tap a mode
stands for, a bounded event channel, raw and core streams on X11.

### GuiStore, Shares, Menu

`GuiStore`: `resync` re-reads everything on a connection or a session change, sets events
aside and replays them; a version number stands for the directory. `Shares`: copies of
what a phone was handed, from the copying thread to the Core that reads them, and the
holds that keep the process alive. `Menu`: the manager's snapshot and held events, the
applier, couriers whose clicks are gathered into batches.

## 3. Runs

| Run | Instance | Checks |
|---|---|---|
| `agree` | clock: block 2, ceiling 4, writes that succeed or take the process down; membership: 3 devices, 4 signatures, nobody leaves; 2 devices, 5 signatures, leaves and reinstalls; plane: 2 devices at work, fair | types (the ceiling), `NeverReissued`, `DiskCoversIssued`, `ReinstallIsFresh`; `SameRecordsSameView`; `LeaverSeqsIncrease`, `LeaverDoorNeverSlips`; `PlanesConverge` |
| `transactions` | 2 Cores, 3 connections, 2 sessions, clocks 1..2, six mixes of up to 3 copies, a publication, 2 adopts, 2 sessions, a revocation, a close, a clear | `ElectsTheLast`, `ClipsHeldByReaders`, `PasteNotCutByCopy`, `NoLostWake`, `GrantsHaveHolders` |
| `rounds_lossless` | 2 devices, 2 contents, 3 edits or deaths, locks, torn writes | `NoEditLost`, `NoImpossibleClaim`, `WatermarkBehindPeer` |
| `rounds_relay` | 3 devices, 1 content, 1 pending version per path, deaths | `NoHole` |
| `rounds_converge` | 2 devices, 3 edits, fair | `Convergence` |
| `pull` | 1 needer, 1 relay, 2 paths, 1 need and 1 slot at a time, fair | `NothingLeaks`, `Fetched` |
| `input` | sessions: 3 machines around a hub, one channel per pair, any 2 events of 17 kinds, 1 key on the wire; crossing: 3 devices, 3 moves of presence and every walk; planes with gaps, ghosts and overlaps; portal and typing: 2 activations, one failing call of 13, `Disable` among them; capture: 3 systems, 3 gestures, 1 fault | `HandsBack`, `TypesOnlyWithGrant`, `EdgesSound`, `CaptureSound` |
| `session_home` | 2 machines, a second channel, 3 takes, cuts, hangs, restarts or sweeps; fair | `ComesHome` |
| `keys_guard` | 3 modifiers, 1 key, 2 symbols, set of 2; one crash, one failed write, one withdrawn grant or silence at any instant (`MaxTurns`); fair | `Guarded`, `StrokeRestores`, `Unstuck` |
| `core` | pairing: 3 devices, 2 accounts, up to 3 pairings, a typed code, a fault, with and without a server; directory: 5 scenarios of up to 3 acts; login: 3 flows, 2 ends; transfers: 2 at once; channels: 2 dialled, 1 joined, one mass cut; clipboard: 2 transactions, up to 2 copies, a paste and a read | `KeysByDecision`, `OneSponsor`; `DirectorySound`; `TokenHasSession`; `DeliveriesSound`, `NothingReplaced`; `ClipboardSound` |
| `fronts` | ipc: 4 connections, queue of 2, 5 scenarios; gui: 8 scenarios of up to 3 changes, timeouts, losses, gestures; shares: up to 2; menu: 2 devices, 2 couriers, 6 scenarios; reach: 4 moves; files: 2 readers of 2 blocks, one change, drop, stall; folder: 4 scenarios of up to 3 acts; fair | `FrontsSound`, `PasteSound`, `IndexAdvances`, `FrontsSettle`, `WorkSettles` |
| `session_orphan` | 2 machines, a take and a release | violates `Unheld` |

What a conjunction of several components says of each:

* `DirectorySound`: a struck-off node never comes back, no two records of one seq
  differ, and with nothing in flight everyone holds the server's record of every
  connected device (`Directory`).
* `DeliveriesSound`: a transfer reported finished is whole in the folder (`Transfers`); a
  role and device have one pipe not told to stop, and no pipe authorised before a mass
  cut outlives it (`PeerChannels`). `NothingReplaced`: no transfer replaces what
  another delivered, or what the user had there when the name was picked; a file the user
  saves between choice and rename is excused, and the run reaches that case.
* `ClipboardSound`: bytes served are those of the generation announced, a paste never
  brings a clip superseded before it was asked for (`ClipSatellite`).
* `EdgesSound`: the virtual cursor is inside a screen of the device it drives, which on a
  plane without overlaps is the one found under it, equal planes give equal layouts, an edge one can leave by can be left from the other side
  (`Crossing`). `CaptureSound`: reported motions belong to their activation, every portal
  session has an owner, off means off but for a `Disable` that failed (`PortalCapture`); on
  X11 the loop's mode is the engine's once queues are empty, on Windows and macOS, whose
  full channel may drop a loss, the loop swallows for no session that ended; no key stays
  down that nobody will release, as long as the channel dropped nothing and no capture
  ended behind its upcalls (`CaptureLoop`).
* `FrontsSound`: an answer is the answer to its own request (`Ipc`), a recovery code stays
  on screen until it is saved (`GuiStore`), a copy is there while it is read (`Shares`), the
  menu offers only devices the session vouches for and carries every click it took
  (`Menu`). `PasteSound`: readers get the bytes they asked for and hear a fill's outcome
  (`ClipFiles`). `FrontsSettle` and `WorkSettles`: in the end interfaces show what the Core
  holds, holds are released, a backend serves again, the record claims the present
  addresses, pastes have ended, folder, index and the other member agree.

Scenarios. Where the product of all that may happen is too large, an initial state
carries a scenario: which kinds of acts may happen and how many. The scenarios of a
module together hold every kind, and pair each with those it can race.

Bounds. `MaxLegs` counts the legs in flight when a round is opened: an answer and
a closing leg still follow, and a leg held in `partial` still meets a later round.
Two devices and three events reach edit/edit, edit/delete and delete/delete
concurrency, a conflict resolved on both sides, and an edit on top of a
resolution; three devices are needed, and enough, for a relay. Three devices and
four signatures give a chain of two invitations and both acceptances, or one of them
with a pause or a decline; two devices and five signatures give invite, accept, leave or
reinstall, invite again, accept again. In `SyncPull` one need at a time still
leaves answers, tasks and transactions of reclaimed needs behind: two ids are in
use together, so a slot is superseded, a need meets a slot that is still
publishing, and a late offer, refusal or outcome meets a newer need. In
`Transactions` only what people and components set off is counted, in mixes: three
copies with a clear, copies with readers, and a publication shared by two adopters
with readers, revoked, closed and cleared; everything that follows is free. Copies and
publications meet in no mix: they share the reset `Notify` and nothing else. In
`InputKeys` two shifts with one bit and an AltGr make every kind of dance, a set of
two meets its cap, and one crash can fall on every step of every batch and of the
shutdown. In `InputSession` an event is what users, desktops and networks do:
everything they set off (dials, attaches, frames, closures, watchdogs of hung
machines) is free, so two events reach a gesture racing any fault, and three reach a
take, the loss of its channel and a fault on the second one. Deadlock is checked in
`keys_guard` alone: elsewhere users may stop and the bounds end every run.

Symmetry is used in safety runs only. In `input` it exchanges the two outer
machines together with their channels: the hub's settings and the channels warm at
first are the same on both sides, and the order in which a loop over the peers
tears them down does not show in the result. In `transactions` it exchanges the
sessions' slots, and the two connections of the second Core. In the runs of `SyncRounds` it
permutes the devices, which nothing there distinguishes. `VersionId` orders versions by content and weight
of their vector, neither of which depends on a device's name.

Fairness (`FairSpec` of `SyncRounds`). The safety tick re-opens rounds for ever, a
peer's answer is throttled only when one was sent a moment ago, and a need is
asked again after every failure: so rounds are opened again and again, and strong
fairness of receiving an opener, of an answer that is not throttled and of a
pull says that a link which recovers again and again delivers some of them.
Weak fairness of `Settles` says that nothing is in flight for ever. Nothing is
assumed of particular messages, or of closing legs.

Fairness (`FairSpec` of `SyncPull`). The pump runs on every tick, TTLs run out,
spawned tasks and the loop's channels are served: weak fairness. Strong fairness
of handling a need and an offer, of a publish, an adopt and a whole transfer says
that what is tried again and again succeeds some time; a relay's own pull lands
some time. `<>[][Calm]_vars` is partial synchrony: from some time on engines
stay up and no need runs out while its answer is on the way (`NEED_TTL_SECS` is ten
minutes and `on_pull_started` restarts it). Refusals and dones may be lost for ever.
Without `WF_vars(OwnPullLands)` `Fetched` fails: a refused need remembers all its paths
with one timestamp, so they are asked together again for ever while one of them
cannot be served (listed under the hazards).

Fairness (`FairSpec` of `InputKeys`). A handler runs to its end, the supervisor starts
the component again, the OS tells the engine of a grant, and a withdrawn grant is
given back some time. Nothing is assumed of sessions, of silences or of writes.

Fairness (`FairSpec` of `InputSession`). An engine that does not hang takes the frames
and the ends of tasks that wait on its loop, reads a directory that changed, and
its watchdogs fire for a machine that hangs. It is weak fairness of `EngineStep`
with the guard (`Pending`) written out. Nothing is assumed of the Core's closure
notices, of dials, or of a watchdog for a machine that answers.

Fairness of the parts of `fronts` and of the plane: loops turn, queues are drained, timers
fire, the client redials, the supervisor starts a child again, the Core answers; weak
fairness of each, stated of the part at work. Strong fairness is used three times: of a
backend's steps on its connection (`Ipc`: a dial that keeps being refused is kept up), of
a sweep of layout rounds (`InputPlane`: it waits for the rounds under way, so its timer
elapses again and again), and of a fold that finds the destination unlocked
(`SyncApply`: no program holds a file for ever). Nothing makes a human act, a fault happen
or a message that was lost arrive.

### What the violations show

* `session_orphan`: `bring_home` sends `stop` only for an accepted session. A source
  that goes home before the `ok` leaves its target driven by nobody, with nothing
  left on its way that would end it: the pings of the warm channel keep its idle
  watchdog quiet. (`Unheld` speaks of quiet states, so a finite run refutes it.)

### Where the code and its documents differ

Each of these is a trace TLC finds when the bound or the excuse named here is
changed, or when the property named here is checked in its module. Such properties
stay in their modules with the sentence they take from the code or its documents;
no run checks them, because what the runs say is what holds.

Folders (`sync`):

* `SetClock.NeverReissued` with `LeaseWriteMayFail = TRUE`: `reserve()` raises `reserved`
  before the write it needs has succeeded; after a failed write the rest of the block
  is issued without a lease.
* `SyncRounds.NoHole` with `MayTear = TRUE`: `meta.json` and `index.json` are two writes;
  what moved from pending into the index is in neither after a death between them.
  With `MayLock = TRUE` and three devices: a version parked on a locked destination is
  neither in the index nor in the pending set, so `answer_head` does not serve it,
  while the advertised vv covers it. `rounds_relay` excludes both.
* `SyncMembership.SameRecordsSameView` with `MayLeave = TRUE` and three devices: an
  invitation is judged by its inviter's standing when it arrives; after the inviter's
  `left` it is parked for ever. `LeaverDoorNeverSlips` excuses the marker of a
  reinstalled leaver, which makes `drop_stranger` erase the floor its rotation left.
* `SyncApply`: leaving drops what is pending and keeps the watermarks, so after a
  re-accept the peer is not asked again for it (`FolderSettles` with a leave and a
  remote edit). `BuriedWereRemoved` fails on a rejoin (`engine.rs:729-754`,
  `scan.rs:153`), `NothingDestroyed` too (`doc/sync-engine.md:524-528`, `engine.rs:2600`,
  `2903`). A walk started before a leave is folded
  after a re-accept into another folder (`engine.rs:968-989` does not ask which root was
  walked); a stale walk may fold a tombstone that the next walk heals. A parked version
  concurrent with a local edit is not materialised by `retry_parked`.
* `SyncPull`: a relay whose origin never comes back keeps the slot, and starves the paths
  it shares with others (`engine.rs:1512`).

Account (`core`, `server`):

* `Pairing.AttestedHoldsKey`: the root is in place before the records that attest it, and
  the two may part (`account_key.rs:330-367`).
* `Directory`: an enrolment again drops the twin entry (`session.rs:783-795`); the
  scenarios leave it out.
* `Login.ServesTheSession`: the session task served is not always the one last
  logged in (`core/src/session.rs:174-176`).
* `PeerChannels.LosersTold`: a channel that lost a race is not told
  (`peerchannel.rs:374-380` against `631-690`).
* `Reach.NearShown`: a near device found while the record is being written is not shown
  until the next change (`dataplane.rs:373-377`).
* `Transfers`: a file the user saves between the choice of a free name and the rename is
  overwritten (`dataplane.rs:1112-1114`, against "Nothing is ever overwritten",
  `dataplane.rs:1051`): `Kept` excuses that file, and TLC finds the folder shrinking
  (`fsys \subseteq fsys'` violated) without the excuse. A crash
  leaves `.part` files, a commit that fails half way leaves the files it committed.
* `Ipc.BackendReturns` with a backend that dies, a link that breaks and an event: the
  backend ends where the supervisor takes it for done (`sync/src/main.rs:130`).
  `RevokedIsCut`: a revoked grant does not cut the connections it admitted
  (`state.rs:1089`, `doc/core-api.md:1064`).

Clipboard:

* `Transactions`: a session outlives its revoked entry, the id is adopted again, and the
  session reads on under an entry that never counted it (`clipboard.rs:483`); so
  `ClipsHeldByReaders` speaks of clips. A push checked against the directory may be
  installed after the account was left (`clipnet.rs:433`), while "The account's read
  grants do not outlive it" (`account_key.rs:506`).
* `ClipSatellite.RemoteCopyWon` (`orchestrator.rs:329-330`), `OwnedIsOffered`
  (`x11.rs:1506-1509` against `622-633`), `PastesWhatWasAsked`, `CopyKept`. On Windows a
  relinquish may race an owner's announcement; an eager read may mix the formats of two
  owners.
* `ClipFiles.FillIsAnnounced` (`doc/core-api.md:779-782`, `clipnet.rs:897-931`). The
  FETCH timeout may cut a DATA frame; `collect` leaves frames behind when it hits its
  limit (`client/src/channel.rs:261-264`); a fill creates a retired temporary directory
  again.

Input:

* `Guarded` without `muted`: a key whose release meets a password field, a lock screen or a
  grant that went before the engine heard of it stays down with no record (`send` refuses
  the batch, `macos.rs:1009-1028`, or the OS discards what is left of it; `apply_key` has
  already adopted the plan's set, `session.rs:1570-1573`), while `keys.rs:348` takes the
  set for "what the engine pressed on THIS machine and has not released".
* A take parked on a cold channel starts on a machine locked meanwhile
  (`parked_takes` does not ask), and `MonitorsChanged` before the `ok` makes
  `apply_capture` swallow for a session that has no watchdog yet.
* `InputPlane`: a third device keeps the loser of a tie it never compared
  (`plane.rs:973-977`); a garbled plane file forgets the device's key (`store.rs:158`).
* `Crossing`: on a plane with overlaps the screen found under the cursor may be another
  than the one it is drawn on, even one of our own (`session.rs:2480`; a person can drag a
  plane into that, `doc/input-sharing.md:742-744`), so `CursorOnTheirs` asks its second
  half only of planes without overlaps (`Apart`); the rest of `EdgesSound` holds on them.
  `MutualEdges` asks only of screens that are there. A gap of at most
  `SNAP` is crossed on the way out and not by a slow push on the way back.
* `PortalCapture.DeadEdgeReleased`, `LossEndsDriving`, `DialogsAsked`. A `Disable` that fails
  is logged and the loop goes on as if the capture were off (`wayland.rs:2279`, against
  `2856-2858`): the run makes it fail, and `OffMeansOff` without `pt.still` is violated.
* `CaptureLoop.HooksReturn` (`windows.rs:2165-2169`), `LocksTracked`, `CaptureReturns`; a full
  event channel drops control facts on Windows and macOS (`windows.rs:477`,
  `macos.rs:750`), so `ModesAgree` asks agreement of X11 alone, and a key-up on X11
  (`x11.rs:924`), so `NoStrandedKey` excuses a channel that overflowed (`be.dropped`).

Interfaces:

* `GuiStore.CodeHeld` for a serverless account (`store.svelte.ts:612` against `379-384`),
  `DepartureTold` (`599` against `720-725`), `PairingEnds`.
* `Shares.SendsHeld`; a `files.send` that ends "disconnected" after it was accepted deletes
  the copy the Core still reads (`store.svelte.ts:1526-1530`).
* `Menu.MenuSettles` when the key is installed while the session is up
  (`core/src/conn.rs:922-956`, `doc/architecture.md:479`, `menu/src/targets.rs:50-55`).


## 4. Proofs

`SetClock_proofs` proves, for every `Block`, `Ceiling` and `MaxNow`:

* `TypeCorrect`: `Spec => []TypeOK`.
* `ReinstallFresh`: `Spec => []ReinstallIsFresh`, failed writes included.
* `ClockNeverReissues` and `LeaseCoversIssued`: under the assumption
  `LeaseWriteMayFail = FALSE`, `Spec => []NeverReissued` and
  `Spec => []DiskCoversIssued`.

`NeverReissued` is not inductive: nothing in it says why the value after `clock`
is new. The inductive invariant adds that everything issued in the current
generation is at most `clock`, that `clock` is within the reservation, that the
reservation is what the lease on disk says, and that every generation issued so
far is below the next one to be minted. Each is preserved by one argument per
action; `OpenPresent` needs the lease (the counter resumes above it),
`OpenAbsent` the generations.

`Transactions_proofs` proves `ElectionCorrect`, `Spec => []ElectsTheLast`, for any
devices, connections, sessions, clocks and events. `ElectsTheLast` says that `current`
is the greatest clip heard and is in the table; to be kept it needs that `current` is
not marked superseded (else a session's end deletes it), that no published
transaction is ever `current` (else a revocation does: every clip in a table was heard
there, and streams carry clips while adopts name none), and that what is minted stays
minted. Operations on a table fall into two kinds: those that spare the current clip
(`Spares`: begin, end, evict, revoke) and `make_current`. A step of the first kind
keeps the election (`ElectionKept`), an announce wins (`ElectionWon`) or loses
(`ElectionLost`), and each action is one of them. The proof uses that (seq, device id)
is a total order and that a copy is floored above `current`. It assumes nothing of
delivery: a Core that never hears of a copy is not bound by it.

`Sessions_proofs` extends it to sessions and grants, for any devices, connections, slots
and events: `ClipsHeld` (`[]ClipsHeldByReaders`), `WakesArrive` (`[]NoLostWake`),
`GrantsHeld` (`[]GrantsHaveHolders`) and the action property `PastesFinish`
(`PasteNotCutByCopy`). They share one invariant, `SessionInv`: the election's, and
* `BudgetOK`: what is minted and what may still be is at most `MaxTx`, so an id is fresh;
* `SlotsOK`: a free slot has no half, and a far half only comes after the dial;
* `HoldsOK`: per table, the count of a clip is the number of halves that read it and the
  owners of an entry are connections that are there;
* `NetFresh`: a clip whose announce is still on its way was never in the table it goes to
  and nobody reads it there, so its count starts from nothing.
`SlotAssumption` (finitely many slots) makes the number of readers a number.

`SyncPull_proofs` proves `NoLeak`, `Spec => []NothingLeaks`, for any paths, sources and
budgets. `NothingLeaks` needs only the types of a source's record beside it
(`SourcesOK`); the argument is per handler: a transaction leaves `published` only into a
revoke task of the same step, and a publish that is no longer wanted when its answer comes
becomes one too.

`SyncRounds_proofs` proves, with lost and reordered legs, locks, crashes and torn
answers, `ClaimsPossible` (`[]NoImpossibleClaim`) and `WatermarksBehind`
(`[]WatermarkBehindPeer`). The invariant `RoundInv` bounds *every* version vector of the
system (index, pending, parked, watermarks, legs, what was made) by the devices' own
clocks, and every watermark and leg by what its sender advertises now. Neither
half stands alone: a watermark grows by a leg's vector, a leg carries an advertisement,
and an advertisement is the maximum over an index whose entries came from legs. That an
advertisement only grows needs the maximum of a bounded set of naturals, proved from the
well-foundedness of the naturals, and finitely many paths (`IsFiniteSet(Base)`).

`Pairing_proofs` proves the refinement `KeysFollowDecisions`,
`PairSpec => KeysByDecision`, that is, `Pairing` implements `Handover` under `keys <- root,
grants <- granted`, for any devices, accounts and starting points and any number of
pairings, codes and faults. `Confirm` and `TypeCode` are `Decide`, the successful
`CommitRoot` is `Take`, `Leave` is `Forget`, every other step leaves keys and decisions
alone. The one hard step is `Take`: the decision has to be there when a task commits,
long after the human said yes. The invariant `PairInv` carries it through bundles,
messages, streams and tasks:
* `Handed(key)`, of whatever is sealed for a channel: one end of the channel never joins
  (`NeverJoins`: its slot and tasks are a sponsor's), and the other has the decision still
  in `granted`, or is `Spent` (no call, slot or task of that pairing can take a key any
  more). `BundleOK` asks it of the bundles of calls, streams and messages in an inbox;
* a task at `stow` or `commit` has its own decision (`TaskOK`), and no two tasks serve one epoch,
  so the decision one of them uses up is no other's;
* a slot and a task of one epoch agree, and a call that is still to take its slot has
  neither (`SlotsOK`, `JobsOK`): nothing takes an epoch up again, so `NeverJoins` and
  `Spent` once true stay true (`Orderly`, `NeverJoinsStays`, `SpentStays`).
Steps that start nothing are `Winding` and handled by one lemma, those that start or move
a pairing on are `Moves`. TLC checked `PairInv` on the states of the `core` run before it was
proved. It assumes that a starting point gives each device an account's key or none
(`WorldsAssumption`), and what the model says of the cryptography: a bundle opens under
the key it was sealed for and no other.

`InputSession_proofs` proves `HandsBackTheorem` (`[]HandsBack`) and
`TypesOnlyWithGrantTheorem` (`[]TypesOnlyWithGrant`), for finitely many machines and any
pipes, settings and events. Most of what a handler does to the engine is undone or
finished by the next call of the same handler, so both proofs are about what each operator
keeps of the record it is given.
* `HandsBack`: `Kept` (no machine drives while it is driven, and the pin needs an accepted
  session) holds between any two calls of a handler; the swallow may outlive its session
  until `apply_capture`, which every handler calls, makes it follow (`Sound`).
* `TypesOnlyWithGrant`: `Granted` says that whoever drives a machine is allowed or was
  revoked. Nearly every operator starts no session here and touches no grant (`Spared`);
  `on_start`, `apply_flow`, `input.allow`, `on_channel_closed` and the restart are argued
  one by one. A leave needs that a teardown of all peers ends the session whoever drives
  it, and a revocation that its notice comes after it, of a pipe whose two ends do not
  change (`NoticesOK`).
The two loops, over a batch's frames and over the peers torn down, are recursive functions:
each proof about them shows first that the function exists, then goes by induction over
its domain. `SessionAssumption` asks for finitely many machines (the loop over the peers
ends) and that channels warm at first join two of them.

`InputKeys_proofs` proves `GuardedTheorem` (`[]Guarded`) and `StrokeRestoresTheorem`
(`[]StrokeRestores`), for any keyboard, layout and symbols.
* `StrokeRestores` is a property of plans: its invariant is only that `held` has no key
  twice (`HeldOK`), and the work is in what `SymbolPlan` leaves down of what it pressed and
  lifted, key by key (`EndsUp`, `Absorb`, `Among`).
* `Guarded` has to hold between two keys of a batch, where the file, the keyboard and the
  memory disagree, and with a grant that goes before it or under it, heard or unheard. `GuardInv` says what is left of the job: it is one of four shapes
  (`JobOK`: at rest; a save; what is left of a batch and then a save; a save, a stroke and
  then a save), and for each, a batch presses only modifiers the file names by then, and a
  save names every modifier the engine has down (`Watched`). A handler starts one shape,
  and each command or key posted turns a shape into the next. A release that is refused or
  discarded moves its key to `muted` if the engine took itself for able, and is on the
  record to be written if it did not (`SendOK`).
`KeysAssumption` says what a layout is: modifiers are no characters, a bit has one key, the
bits a layout may ask for are those there are modifiers of.

Only model-checked: `OneSponsor` of `Pairing` (it needs, besides `PairInv`, that the
server's answers and sessions agree on the roles), the contents of rounds
(`NoEditLost`, `NoHole`), `SyncMembership`, the crossing graph, the back ends and the plane,
`Directory`, `Login`, `Transfers` and the front ends.
Liveness (`Convergence`, `Fetched`, `ComesHome`, `Unstuck`, `FrontsSettle`,
`WorkSettles`, `PlanesConverge`) is out of the prover's reach, and so are facts about the fold and the
fixpoint of `SyncMembership` for inputs of every size.


## 5. Plan

Done: the modules of section 2, their runs, the theorems of section 4.

Left to prove, by what they say of the system: `OneSponsor` in `Pairing_proofs`; that an
index never regresses and that a round loses nothing (`SyncRounds.NoEditLost`,
`NoHole`, which need an invariant over every copy of a version); the roots and
records of `Directory`, the delivery of `Transfers`. Left to model: a second
source in `SyncPull`, re-enrolment in `Directory`, a layout that changes while a session
drives in `Crossing`, the queues of the injecting back ends.

A run is one question; as modules arrive, instances that ask the same
question are merged rather than added.

## 6. Not modelled

The menu surfaces of each desktop, the user interface's views, the tray; injection of
events into the operating systems; encodings and hashing; TLS, the iroh binding, OIDC and
HTTP; configuration and logging; the debouncing of the file watcher. They are bindings to
libraries and platforms with little state of their own; where their behaviour matters
(a lost message, a locked file, a failed write, a late answer) the modules that depend
on them make it a choice.
