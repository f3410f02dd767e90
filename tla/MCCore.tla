------------------------------ MODULE MCCore ------------------------------
(* The Core's parts under one run.  Pairing keeps its own names, since the  *)
(* refinement of Handover is stated of it; the parts beside it are          *)
(* INSTANCEs over variables they share, one part being at work at a time.   *)
EXTENDS Pairing, TLC

CONSTANT Parts   \* the parts a run takes up

\* The part at work, and its variables: the INSTANCEs below name them.
VARIABLES part, x1, x2, x3, x4, x5, x6, x7, x8, x9, x10, x11, x12, x13, x14,
          x15, x16, x17, x18

(* Pairings.  One sponsor and two newcomers; a second member without the    *)
(* key; two accounts; and the same without a server.                        *)
CONSTANTS ds, dj, dk, A, B

Devices3 == {ds, dj, dk}
Accounts2 == {A, B}
Nobody == [d \in Devices3 |-> None]
Only(d, a) == [Nobody EXCEPT ![d] = a]
World(h, l, v, e, c, f) ==
  [holds |-> h, sub |-> l, served |-> v, epochs |-> e, codes |-> c, faults |-> f]
PairWorlds ==
  {World(Only(ds, A), Only(ds, A), Devices3, 3, 0, 0),
   World(Only(ds, A), Only(ds, A), Devices3, 2, 0, 1),
   World(Only(ds, A), [Nobody EXCEPT ![ds] = A, ![dj] = A], Devices3, 2, 0, 0),
   World([Nobody EXCEPT ![ds] = A, ![dk] = B], [Nobody EXCEPT ![ds] = A, ![dk] = B],
         Devices3, 2, 0, 0),
   World(Only(ds, A), Nobody, {}, 3, 0, 0),
   World(Only(ds, A), Nobody, {}, 2, 1, 1),
   World([Nobody EXCEPT ![ds] = A, ![dj] = A, ![dk] = B], Nobody, {}, 3, 0, 0)}

(* The directory.  A server account under renames and faults, one under      *)
(* revocation with a device still to enrol, and a serverless account of      *)
(* three devices that gossip along a chain.                                  *)
Alone == [d \in Devices3 |-> {}]
Chain == ds :> {dj} @@ dj :> {ds, dk} @@ dk :> {dj}
Server(up, ids, budget, acts) ==
  [server |-> TRUE, again |-> FALSE, keyed |-> {ds}, who |-> {ds, dj}, up |-> up,
   ids |-> ids, met |-> Alone, wires |-> 1, budget |-> budget, acts |-> acts]
Serverless(budget, acts) ==
  [server |-> FALSE, again |-> FALSE, keyed |-> {ds}, who |-> Devices3, up |-> <<>>,
   ids |-> 0, met |-> Chain, wires |-> 2, budget |-> budget, acts |-> acts]
Directories ==
  { Server(<<ds, dj>>, 2, 3, {"rename", "reach", "drop", "tick"}),
    Server(<<ds>>, 3, 3, {"rename", "logout", "restart", "tick"}),
    Server(<<ds, dj>>, 3, 2, {"revoke", "gossip", "restart", "rename"}),
    Serverless(2, {"revoke", "gossip", "restart", "rename"}),
    Serverless(2, {"gossip", "rename", "lose", "reach"}) }

(* Transfers.  Two at once bringing the same names, with folders, a user who  *)
(* saves under one of them, and a manifest that goes over the limit.          *)
File(n) == [stem |-> n, dir |-> FALSE, leaves |-> 0]
Folder(n, m) == [stem |-> n, dir |-> TRUE, leaves |-> m]
Sent(acts, budget, over, picks) ==
  [acts |-> acts, budget |-> budget, over |-> over, picks |-> picks]
Deliveries ==
  {Sent({"cancel", "stop", "fail", "slow"}, 2, {},
        << <<File("a"), Folder("a", 2)>>, <<Folder("a", 1)>> >>),
   Sent({"user", "break"}, 2, {}, << <<Folder("a", 0), File("a")>>, <<File("a")>> >>),
   Sent({"path", "fail"}, 2, {1}, << <<File("a"), File("b")>>, <<File("a")>> >>)}

\* Pairing while another part is at work.
AtRest == PairInit /\ world = CHOOSE w \in Worlds : TRUE

D == INSTANCE Directory WITH
  sc <- x1, dir <- x2, rev <- x3, own <- x4, logged <- x5, sess <- x6,
  left <- x7, disk <- x8, ents <- x9, conn <- x10, queue <- x11, cmds <- x12,
  toStrike <- x13, mail <- x14, now <- x15, nextId <- x16, nextName <- x17,
  used <- x18, Node <- Devices3, DirScenarios <- Directories
L == INSTANCE Login WITH
  flow <- x1, lslot <- x2, logged <- x3, sid <- x4, file <- x5, token <- x6,
  abort <- x7, tasks <- x8, ends <- x9, asked <- x10, MaxFlows <- 3,
  MaxEnds <- 2
T == INSTANCE Transfers WITH
  ts <- x1, tr <- x2, fsys <- x3, parts <- x4, naming <- x5, tspent <- x6,
  TransferScenarios <- Deliveries
C == INSTANCE PeerChannels WITH
  reg <- x1, trusted <- x2, at <- x3, pipe <- x4, told <- x5,
  Components <- {1}, Dialled <- {1, 2}, Joins <- {3}, MaxCuts <- 1,
  ChannelActs <- {"revoke", "die", "cutall", "end"}
K == INSTANCE ClipSatellite WITH
  os <- x1, sel <- x2, xq <- x3, be <- x4, cmds <- x5, evs <- x6, orc <- x7,
  core <- x8, notes <- x9, tasks <- x10, served <- x11, pasted <- x12,
  Systems <- {"windows", "mac"}, MaxTx <- 2, MaxCopies <- 2, MaxPastes <- 1,
  MaxReads <- 1
X == INSTANCE ClipSatellite WITH
  os <- x1, sel <- x2, xq <- x3, be <- x4, cmds <- x5, evs <- x6, orc <- x7,
  core <- x8, notes <- x9, tasks <- x10, served <- x11, pasted <- x12,
  Systems <- {"x11"}, MaxTx <- 2, MaxCopies <- 1, MaxPastes <- 1,
  MaxReads <- 1

-----------------------------------------------------------------------------
(* One part is at work in a behaviour; a variable it has no use for is 0.    *)

CoreInit ==
  /\ part \in Parts
  /\ \/ /\ part = "pairing" /\ PairInit
        /\ x1 = 0 /\ x2 = 0 /\ x3 = 0 /\ x4 = 0 /\ x5 = 0 /\ x6 = 0 /\ x7 = 0
        /\ x8 = 0 /\ x9 = 0 /\ x10 = 0 /\ x11 = 0 /\ x12 = 0 /\ x13 = 0
        /\ x14 = 0 /\ x15 = 0 /\ x16 = 0 /\ x17 = 0 /\ x18 = 0
     \/ /\ part = "directory" /\ D!DirInit /\ AtRest
     \/ /\ part = "login" /\ L!LoginInit /\ AtRest
        /\ x11 = 0 /\ x12 = 0 /\ x13 = 0 /\ x14 = 0 /\ x15 = 0 /\ x16 = 0
        /\ x17 = 0 /\ x18 = 0
     \/ /\ part = "transfers" /\ T!TrInit /\ AtRest
        /\ x7 = 0 /\ x8 = 0 /\ x9 = 0 /\ x10 = 0 /\ x11 = 0 /\ x12 = 0
        /\ x13 = 0 /\ x14 = 0 /\ x15 = 0 /\ x16 = 0 /\ x17 = 0 /\ x18 = 0
     \/ /\ part = "channels" /\ C!PcInit /\ AtRest
        /\ x6 = 0 /\ x7 = 0 /\ x8 = 0 /\ x9 = 0 /\ x10 = 0 /\ x11 = 0
        /\ x12 = 0 /\ x13 = 0 /\ x14 = 0 /\ x15 = 0 /\ x16 = 0 /\ x17 = 0
        /\ x18 = 0
     \/ /\ part = "clipboard" /\ K!Init /\ AtRest
        /\ x13 = 0 /\ x14 = 0 /\ x15 = 0 /\ x16 = 0 /\ x17 = 0 /\ x18 = 0
     \/ /\ part = "x11" /\ X!Init /\ AtRest
        /\ x13 = 0 /\ x14 = 0 /\ x15 = 0 /\ x16 = 0 /\ x17 = 0 /\ x18 = 0

CoreNext ==
  \/ /\ part = "pairing" /\ PairNext
     /\ UNCHANGED <<part, x1, x2, x3, x4, x5, x6, x7, x8, x9, x10, x11, x12,
                     x13, x14, x15, x16, x17, x18>>
  \/ /\ part = "directory" /\ D!DirNext
     /\ UNCHANGED <<part, root, seed, sub, live, closing, who, slot, job,
                     tasks, inbox, sess, lan, gen, granted, enrolled, typed,
                     faults, world>>
  \/ /\ part = "login" /\ L!LoginNext
     /\ UNCHANGED <<part, root, seed, sub, live, closing, who, slot, job,
                     tasks, inbox, sess, lan, gen, granted, enrolled, typed,
                     faults, world, x11, x12, x13, x14, x15, x16, x17, x18>>
  \/ /\ part = "transfers" /\ T!TrNext
     /\ UNCHANGED <<part, root, seed, sub, live, closing, who, slot, job,
                     tasks, inbox, sess, lan, gen, granted, enrolled, typed,
                     faults, world, x7, x8, x9, x10, x11, x12, x13, x14, x15,
                     x16, x17, x18>>
  \/ /\ part = "channels" /\ C!PcNext
     /\ UNCHANGED <<part, root, seed, sub, live, closing, who, slot, job,
                     tasks, inbox, sess, lan, gen, granted, enrolled, typed,
                     faults, world, x6, x7, x8, x9, x10, x11, x12, x13, x14,
                     x15, x16, x17, x18>>
  \/ /\ part = "clipboard" /\ K!Next
     /\ UNCHANGED <<part, root, seed, sub, live, closing, who, slot, job,
                     tasks, inbox, sess, lan, gen, granted, enrolled, typed,
                     faults, world, x13, x14, x15, x16, x17, x18>>
  \/ /\ part = "x11" /\ X!Next
     /\ UNCHANGED <<part, root, seed, sub, live, closing, who, slot, job,
                     tasks, inbox, sess, lan, gen, granted, enrolled, typed,
                     faults, world, x13, x14, x15, x16, x17, x18>>

Corevars == <<part, root, seed, sub, live, closing, who, slot, job, tasks,
             inbox, sess, lan, gen, granted, enrolled, typed, faults, world,
             x1, x2, x3, x4, x5, x6, x7, x8, x9, x10, x11, x12, x13, x14, x15,
             x16, x17, x18>>

CoreSpec == CoreInit /\ [][CoreNext]_Corevars

-----------------------------------------------------------------------------
(* A revocation is final and a name has one author: no server snapshot or     *)
(* event, lagging roster or restart brings a struck-off node back (barred,    *)
(* strike_off), no two records of one seq differ (next_seq, graft_signature), *)
(* and once nothing is in flight everyone holds the server's record of every  *)
(* connected device (resign_ours; see Directory).                             *)
DirectorySound ==
  part = "directory" => D!TombstoneSticks /\ D!NoEquivocation /\ D!SettledAgree

(* A token that is kept belongs to the session that is up, whichever of a     *)
(* login, a logout and the session's own end came last (start_session_task,   *)
(* stash; see Login).                                                         *)
TokenHasSession == part = "login" => L!TokenHasSession

(* What is sent arrives once and whole over one channel: a transfer reported  *)
(* finished is all in the folder (commit_parts before write_ack; Transfers),  *)
(* a device and role have one pipe that was not told to stop, and no pipe     *)
(* authorised before a mass cut outlives it (register, cut_all; PeerChannels).*)
DeliveriesSound ==
  /\ part = "transfers" => T!DeliveredWhole
  /\ part = "channels" => C!OneChannel /\ C!NoStraddler

(* No transfer replaces what another one delivered, or what the user had in   *)
(* the folder when the name was picked, and nothing is put in a folder made   *)
(* for something else (unique_child_name under COMMIT_NAMING).  Not promised: *)
(* a file the user saves between unique_dest and the rename (see Transfers).  *)
NothingReplaced == [][part = "transfers" => T!Kept]_Corevars

(* A clipboard satellite serves what it announced and pastes what is offered: *)
(* the bytes of a copy are those of the generation announced (the cache), and *)
(* a paste never brings a clip superseded before it was asked for (on_offer;  *)
(* ClipSatellite on Windows and macOS, and on X11).                           *)
ClipboardSound ==
  /\ part = "clipboard" => K!ServesWhatWasAnnounced /\ K!PastesWhatWasOffered
  /\ part = "x11" => X!ServesWhatWasAnnounced /\ X!PastesWhatWasOffered
=============================================================================
