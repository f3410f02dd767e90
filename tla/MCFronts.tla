----------------------------- MODULE MCFronts -----------------------------
(* The processes around the Core, over the local API: the API itself (Ipc),  *)
(* the store of the graphical interface (GuiStore), the files a phone was    *)
(* handed (Shares), the contextual menu (Menu), the reach a device claims    *)
(* (Reach), the files a paste reads (ClipFiles) and the folder a sync set    *)
(* writes to (SyncApply).  All are INSTANCEs over x1, x2, ...; one part is   *)
(* at work in a behaviour.                                                   *)
EXTENDS Naturals, Sequences

CONSTANT Parts   \* the parts a run takes up

\* The part at work, and its variables: the INSTANCEs below name them.
VARIABLES part, x1, x2, x3, x4, x5, x6, x7, x8, x9, x10, x11, x12, x13, x14,
          x15, x16

(* The local API.                                                           *)
IpcSc(acts, budget, asks, spawned) ==
  [acts |-> acts, budget |-> budget, asks |-> asks, spawned |-> spawned]
IpcSmall ==
  { IpcSc({"restart", "slow"}, 2, 2, FALSE), IpcSc({"slow", "establish"}, 2, 0, FALSE),
    IpcSc({"restart", "break"}, 2, 0, FALSE), IpcSc({"die", "emit"}, 2, 1, TRUE),
    IpcSc({"third", "approve", "deny", "revoke"}, 2, 0, FALSE) }

(* The store of the graphical interface.                                    *)
GuiSc(d, s, t, l, g, script, local) ==
  [dev |-> d, session |-> s, timeouts |-> t, drops |-> l, gestures |-> g,
   script |-> script, local |-> local]
GuiSmall ==
  { GuiSc(1, 1, 1, 0, 0, {}, FALSE),
    GuiSc(2, 1, 0, 0, 0, {}, FALSE),
    GuiSc(1, 0, 1, 1, 0, {}, FALSE),
    GuiSc(0, 1, 0, 0, 1, {"save", "decide", "rename", "logout", "refresh"}, FALSE),
    GuiSc(0, 1, 0, 1, 1, {"setup"}, FALSE),
    GuiSc(0, 1, 1, 0, 1, {"setup", "join"}, FALSE),
    GuiSc(0, 0, 0, 0, 3, {"pair", "confirm", "cancel", "refresh"}, FALSE),
    GuiSc(0, 0, 0, 0, 0, {"left"}, FALSE) }

(* The files a phone was handed.                                            *)
ShareSc(f, t, a, l, d) ==
  [files |-> f, texts |-> t, auths |-> a, losses |-> l, deaths |-> d,
   reliable |-> l + d = 0]
ShareSmall ==
  { ShareSc(2, 0, 0, 0, 0), ShareSc(1, 0, 1, 1, 1), ShareSc(1, 1, 1, 0, 0) }

(* The contextual menu.                                                     *)
Quiet == [session |-> 0, device |-> 0, install |-> 0, struck |-> 0, lost |-> 0,
          timeout |-> 0, refuse |-> 0, hangup |-> 0, stop |-> 0, kill |-> 0,
          click |-> FALSE, in |-> TRUE, key |-> TRUE]
\* Session changes and device events racing snapshots that time out; leaving
\* the account; a lost connection, a crash and a refusing desktop; clicks.
MenuSmall ==
  { [Quiet EXCEPT !.session = 2, !.timeout = 1, !.in = FALSE],
    [Quiet EXCEPT !.session = 1, !.device = 2],
    [Quiet EXCEPT !.struck = 1, !.device = 1, !.refuse = 1],
    [Quiet EXCEPT !.device = 1, !.lost = 1, !.refuse = 1, !.kill = 1],
    [Quiet EXCEPT !.hangup = 1, !.click = TRUE],
    [Quiet EXCEPT !.stop = 1, !.click = TRUE] }

(* The folder.                                                              *)
FolderSc(acts, budget) == [acts |-> acts, budget |-> budget]
FolderSmall ==
  { FolderSc({"write", "block", "redit", "fail"}, 3),
    FolderSc({"delete", "redit", "rdelete"}, 3),
    FolderSc({"write", "delete", "rdelete"}, 3),
    FolderSc({"leave"}, 1) }

CONSTANTS FolderScenarios, IpcScenarios, GuiScenarios, ShareScenarios, MenuScenarios

I == INSTANCE Ipc WITH
  ip <- x1, core <- x2, cn <- x3, cl <- x4, held <- x5, sup <- x6, out <- x7,
  fwd <- x8, cut <- x9, spent <- x10, MaxConn <- 4, OutDepth <- 2
G == INSTANCE GuiStore WITH
  core <- x1, shell <- x2, wire <- x3, boot <- x4, store <- x5, reads <- x6,
  retry <- x7, act <- x8, code <- x9, sc <- x10, Scenarios <- GuiScenarios
H == INSTANCE Shares WITH
  worker <- x1, disk <- x2, shares <- x3, last <- x4, queue <- x5, text <- x6,
  bus <- x7, calls <- x8, ui <- x9, xfer <- x10, answer <- x11, work <- x12,
  timers <- x13, conn <- x14, sc <- x15, Scenarios <- ShareScenarios
M == INSTANCE Menu WITH
  core <- x1, wire <- x2, mgr <- x3, reads <- x4, list <- x5, app <- x6,
  click <- x7, batch <- x8, sent <- x9, sc <- x10, Peers <- {"p", "q"},
  Couriers <- 1..2, HeldCap <- 1, BatchCap <- 2, MaxClients <- 2,
  Scenarios <- MenuScenarios
R == INSTANCE Reach WITH
  net <- x1, ep <- x2, word <- x3, wat <- x4, wake <- x5, own <- x6,
  shown <- x7, moves <- x8, Addresses <- {0, 1},
  RelayChoices <- {"off", "url"}, MaxMoves <- 4
F == INSTANCE ClipFiles WITH
  front <- x1, mounted <- x2, src <- x3, live <- x4, co <- x5, ch <- x6,
  pipe <- x7, rd <- x8, fl <- x9, used <- x10, Readers <- {"r1", "r2"},
  Fronts <- {"webdav", "ole", "fuse", "mac"}, Blocks <- 2, MaxChanges <- 1,
  MaxDrops <- 1, MaxStalls <- 1
S == INSTANCE SyncApply WITH
  sn <- x1, disk <- x2, rooted <- x3, idx <- x4, pend <- x5, parkd <- x6,
  tick <- x7, walk <- x8, ridx <- x9, got <- x10, rtick <- x11, next <- x12,
  used <- x13, removed <- x14, buried <- x15, lost <- x16,
  ApplyScenarios <- FolderScenarios

-----------------------------------------------------------------------------
(* One part is at work in a behaviour; a variable it has no use for is 0.    *)

FrontsInit ==
  /\ part \in Parts
  /\ \/ /\ part = "ipc" /\ I!IpcInit
        /\ x11 = 0 /\ x12 = 0 /\ x13 = 0 /\ x14 = 0 /\ x15 = 0 /\ x16 = 0
     \/ /\ part = "gui" /\ G!Init
        /\ x11 = 0 /\ x12 = 0 /\ x13 = 0 /\ x14 = 0 /\ x15 = 0 /\ x16 = 0
     \/ /\ part = "shares" /\ H!Init
        /\ x16 = 0
     \/ /\ part = "menu" /\ M!Init
        /\ x11 = 0 /\ x12 = 0 /\ x13 = 0 /\ x14 = 0 /\ x15 = 0 /\ x16 = 0
     \/ /\ part = "reach" /\ R!ReachInit
        /\ x9 = 0 /\ x10 = 0 /\ x11 = 0 /\ x12 = 0 /\ x13 = 0 /\ x14 = 0
        /\ x15 = 0 /\ x16 = 0
     \/ /\ part = "files" /\ F!Init
        /\ x11 = 0 /\ x12 = 0 /\ x13 = 0 /\ x14 = 0 /\ x15 = 0 /\ x16 = 0
     \/ /\ part = "folder" /\ S!ApplyInit

FrontsNext ==
  \/ /\ part = "ipc" /\ I!IpcNext
     /\ UNCHANGED <<part, x11, x12, x13, x14, x15, x16>>
  \/ /\ part = "gui" /\ G!Next
     /\ UNCHANGED <<part, x11, x12, x13, x14, x15, x16>>
  \/ /\ part = "shares" /\ H!Next
     /\ UNCHANGED <<part, x16>>
  \/ /\ part = "menu" /\ M!Next
     /\ UNCHANGED <<part, x11, x12, x13, x14, x15, x16>>
  \/ /\ part = "reach" /\ R!ReachNext
     /\ UNCHANGED <<part, x9, x10, x11, x12, x13, x14, x15, x16>>
  \/ /\ part = "files" /\ F!Next
     /\ UNCHANGED <<part, x11, x12, x13, x14, x15, x16>>
  \/ /\ part = "folder" /\ S!ApplyNext
     /\ UNCHANGED <<part>>

Frontsvars == <<part, x1, x2, x3, x4, x5, x6, x7, x8, x9, x10, x11, x12, x13,
             x14, x15, x16>>

\* What each part takes to be fair, stated of the part at work.
FrontsFairness ==
  /\ \A c \in I!Conns : WF_(I!ivars)(part = "ipc" /\ I!CoreStep(c))
  /\ \A w \in I!Who : WF_(I!ivars)(part = "ipc" /\ I!ClientStep(w))
  /\ SF_(I!ivars)(part = "ipc" /\ I!ClientStep("sat"))
  /\ WF_(I!ivars)(part = "ipc" /\ I!Spawn)
  /\ WF_(I!ivars)(part = "ipc" /\ I!Responds)
  /\ WF_(G!vars)(part = "gui" /\ G!Connects)
  /\ WF_(G!vars)(part = "gui" /\ G!PublishRest)
  /\ \A r \in G!Reads : WF_(G!vars)(part = "gui" /\ G!Answer(r))
  /\ WF_(G!vars)(part = "gui" /\ G!SettleFailed)
  /\ WF_(G!vars)(part = "gui" /\ G!Settle)
  /\ WF_(G!vars)(part = "gui" /\ G!RetryFires)
  /\ WF_(G!vars)(part = "gui" /\ G!Booting)
  /\ WF_(G!vars)(part = "gui" /\ G!Deliver)
  /\ WF_(G!vars)(part = "gui" /\ G!Acting)
  /\ WF_(G!vars)(part = "gui" /\ G!Unmounted)
  /\ WF_(H!vars)(part = "shares" /\ H!Run)
  /\ WF_(H!vars)(part = "shares" /\ H!TextDone)
  /\ WF_(H!vars)(part = "shares" /\ H!Handle)
  /\ WF_(H!vars)(part = "shares" /\ H!Expire)
  /\ WF_(H!vars)(part = "shares" /\ H!Webview)
  /\ WF_(H!vars)(part = "shares" /\ (H!Copied \/ H!CopyFails))
  /\ WF_(H!vars)(part = "shares" /\ H!CoreAccepts)
  /\ WF_(H!vars)(part = "shares" /\ H!TransferStarts)
  /\ WF_(H!vars)(part = "shares" /\ H!TransferEnds)
  /\ WF_(H!vars)(part = "shares" /\ H!Redialled)
  /\ WF_(M!vars)(part = "menu" /\ M!Looping)
  /\ WF_(M!vars)(part = "menu" /\ M!Reading)
  /\ WF_(M!vars)(part = "menu" /\ M!Applying)
  /\ WF_(M!vars)(part = "menu" /\ M!CoreLeaves)
  /\ WF_(M!vars)(part = "menu" /\ M!CutOff)
  /\ WF_(R!rvars)(part = "reach" /\ R!BindEnds)
  /\ WF_(R!rvars)(part = "reach" /\ R!WatchReach)
  /\ WF_(R!rvars)(part = "reach" /\ R!WatchLan)
  /\ WF_(R!rvars)(part = "reach" /\ R!Woken)
  /\ WF_(R!rvars)(part = "reach" /\ R!ApplyOwnReach)
  /\ WF_(R!rvars)(part = "reach" /\ R!LanLook)
  /\ WF_(R!rvars)(part = "reach" /\ R!LanWoken)
  /\ WF_(F!vars)(part = "files" /\ F!ServeLocal)
  /\ WF_(F!vars)(part = "files" /\ F!StreamRange)
  /\ WF_(F!vars)(part = "files" /\ F!FillAsked)
  /\ WF_(F!vars)(part = "files" /\ F!RunFill)
  /\ WF_(F!vars)(part = "files" /\ F!FillSettled)
  /\ \A r \in {"r1", "r2"} :
       /\ WF_(F!vars)(part = "files" /\ F!DrainToEof(r))
       /\ WF_(F!vars)(part = "files" /\ F!Collect(r))
       /\ WF_(F!vars)(part = "files" /\ F!EnsureFilled(r))
       /\ WF_(F!vars)(part = "files" /\ F!HandleConn(r))
       /\ WF_(F!vars)(part = "files" /\ F!NextRead(r))
       /\ WF_(F!vars)(part = "files" /\ F!ReadAsync(r))
  /\ WF_(S!avars)(part = "folder" /\ S!Walking)
  /\ WF_(S!avars)(part = "folder" /\ S!Receive)
  /\ WF_(S!avars)(part = "folder" /\ S!FinishPull)
  /\ WF_(S!avars)(part = "folder" /\ S!Accept)
  /\ SF_(S!avars)(part = "folder" /\ S!Unlocked)
  /\ \A p \in {"dir", "file"} : WF_(S!avars)(part = "folder" /\ S!RemoteTakes(p))

FrontsSpec == FrontsInit /\ [][FrontsNext]_Frontsvars /\ FrontsFairness

-----------------------------------------------------------------------------
(* What an interface shows and sends is its own and in force.  A request is   *)
(* answered by the answer to that request (Ipc); a recovery code on screen    *)
(* stays there until its owner says it is saved (GuiStore); the copy a        *)
(* transfer is reading is there until the transfer ends (Shares); the menu    *)
(* never offers a device the session in force does not vouch for, and every   *)
(* click it took is carried to the Core or refused (Menu).                    *)
FrontsSound ==
  /\ part = "ipc" => I!OwnAnswers
  /\ part = "gui" => G!CodeHeld
  /\ part = "shares" => H!CopyKept
  /\ part = "menu" => M!OffersVouched /\ M!ClicksCarried

(* A reader gets the bytes it asked for, whatever requests were dropped on    *)
(* the channel before it (drain_to_eof, collect), and a fill that ended is    *)
(* heard by everyone who waits for it (fill_async subscribes first).          *)
PasteSound == part = "files" => F!RightBytes /\ F!OutcomeHeard

(* The index of a path never goes back to a version it had covered, whatever  *)
(* the order in which staged bytes, tombstones, parked renames and a walk's   *)
(* fold reach it (apply_staged, drain_pending, retry_parked, fold).           *)
IndexAdvances == [][part = "folder" => S!Advances]_Frontsvars

(* In the end what a user looks at is what the Core holds, through losses,    *)
(* timeouts and overtaken snapshots: a store that is connected and primed     *)
(* with the Core's session and directory (GuiStore), a menu that offers the   *)
(* devices of the session (Menu), and no hold left on the process (Shares).   *)
FrontsSettle ==
  <>[](/\ part = "gui" => G!Settled
       /\ part = "shares" => H!NoHold
       /\ part = "menu" => M!Current)

(* In the end the work under way is done: a backend serves its role again     *)
(* (Ipc), the device's record claims where it can be reached (Reach), every   *)
(* paste of files has ended, in bytes or in an error (ClipFiles), and the     *)
(* folder, its index and the other member's agree (SyncApply).                *)
WorkSettles ==
  <>[](/\ part = "ipc" => I!Serving
       /\ part = "reach" => R!Settled
       /\ part = "files" => F!PastesOver
       /\ part = "folder" => S!Agree)
=============================================================================
