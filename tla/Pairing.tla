------------------------------ MODULE Pairing -------------------------------
(***************************************************************************)
(* Pairing: the account key handed from a device that holds it to one that *)
(* does not, through the rendezvous server (sealed bundle, the server      *)
(* relaying) or straight over the local network (one stream, two tails).   *)
(* Both ends keep ONE slot; requests, events, expiries and the two key     *)
(* installations of a device interleave freely.                            *)
(*                                                                         *)
(* Pairings are numbered by the core's EPOCH counter; `who' remembers the  *)
(* device of each epoch, and the id of a pairing is the epoch that created *)
(* it.  A channel key is the pair of ephemeral secrets it came from.       *)
(***************************************************************************)
EXTENDS Naturals, Sequences, FiniteSets, SequencesExt

CONSTANTS
    Device,       \* the devices
    Account,      \* accounts; an account's key is named by the account
    None,
    Worlds,       \* the starting points: see PairInit
    MaxSessions   \* the server's MAX_SESSIONS

(* A device starts with the key of an account, or with none. *)
ASSUME WorldsAssumption == \A w \in Worlds : w.holds \in [Device -> Account \cup {None}]

VARIABLES
    root,      \* root[d]: AppState.account_root, the account this device is attested under
    seed,      \* seed[d]: the account key in the keyring
    sub,       \* sub[d]: the server account the session is open under
    live,      \* the server connections the devices hold: <<device, epoch>>, or SessionConn(device)
    closing,   \* connections a device closed and the server has yet to see closed
    who,       \* who[e]: the device that drew epoch e
    slot,      \* slot[d]: AppState.pairing
    job,       \* job[d]: the interface's call under way
    tasks,     \* spawned tasks: complete_as_joiner, lan_tail, account.setup/join
    inbox,     \* inbox[d]: what the server sent, in order
    sess,      \* the server's pairing sessions, by id
    lan,       \* streams of the local network
    gen,       \* gen[d]: sessions opened with the server, so that each has a connection of its own
    granted,   \* history: what a human decided (Handover!grants)
    enrolled,  \* the server's directory entries made on a grant: <<device, account, id>>
    typed, faults,
    world      \* the starting point, with the bounds on what may happen in it

pvars == <<root, seed, sub, live, closing, who, slot, job, tasks, inbox, sess, lan,
           gen, granted, enrolled, typed, faults, world>>

Other(role) == IF role = "sponsor" THEN "joiner" ELSE "sponsor"
EPOCH == Len(who)

(* The channel key the two ends derive: both ephemeral keys, the code's secret
   and what the code was about are in the derivation, so two pairings never
   share one. *)
ChannelKey(o, c) == [o |-> o, c |-> c]
NoKey == ChannelKey(0, 0)
Sealed(key, acct) == [key |-> key, acct |-> acct]
(* Mutant: the bundle is not bound to the channel it was sealed for. *)
OpensAny(key, bundle) == key # NoKey
Opens(key, bundle) == key # NoKey /\ bundle.key = key

(* recall: the keyring answers only for the key of the installed root. *)
AccountKey(d) == IF root[d] # None /\ seed[d] = root[d] THEN root[d] ELSE None
HoldsKey(d) == AccountKey(d) # None
LocalRole(d) == IF sub[d] # None /\ HoldsKey(d) THEN "sponsor" ELSE "joiner"

(***************************************************************************)
(* The slot.                                                               *)
(***************************************************************************)
NoSlot == [epoch |-> 0, id |-> 0, role |-> "joiner", wire |-> "none", key |-> NoKey,
           secret |-> FALSE, confirm |-> FALSE]
Slot(e, id, role, wire, key, confirm) ==
    [epoch |-> e, id |-> id, role |-> role, wire |-> wire, key |-> key,
     secret |-> key = NoKey, confirm |-> confirm]
HasSlot(d) == slot[d] # NoSlot

SessionConn(d) == <<d, world.epochs + 1 + gen[d]>>
ConnOf(d, wire, e) == IF wire = "session" THEN SessionConn(d) ELSE <<d, e>>

(* What of q did not come over the connections conns: a recursive function, which
   the proofs can unfold. *)
Undelivered(q, conns) ==
    LET left[i \in 0..Len(q)] ==
          IF i = 0 THEN <<>>
          ELSE IF q[i].conn \in conns THEN left[i - 1] ELSE Append(left[i - 1], q[i])
    IN  left[Len(q)]

(* abandon: the expiry is disarmed and a connection of the pairing's own closed;
   what that connection had still to deliver is gone with it. *)
Close(conns) ==
    /\ live' = live \ conns
    /\ closing' = closing \cup (conns \cap live)
    /\ inbox' = [d \in Device |-> Undelivered(inbox[d], conns)]
AbandonConns(d) == IF slot[d].wire = "direct" THEN {<<d, slot[d].epoch>>} ELSE {}
Keep == UNCHANGED <<live, closing, inbox>>

(* A LAN tail learns that its slot went away when the confirmation sender is dropped. *)
Install(d, s) ==
    /\ slot' = [slot EXCEPT ![d] = s]
    /\ Close(AbandonConns(d))

FailCurrent(d) ==
    /\ slot' = [slot EXCEPT ![d] = NoSlot]
    /\ Close(AbandonConns(d))

Settle(d, id) == IF slot[d].id = id /\ HasSlot(d) THEN FailCurrent(d)
                 ELSE UNCHANGED <<slot, live, closing, inbox>>

(***************************************************************************)
(* The interface's calls; one under way per device.                        *)
(***************************************************************************)
Idle == [op |-> "idle", st |-> "none", epoch |-> 0, id |-> 0, role |-> "joiner", wire |-> "none",
         key |-> NoKey, bundle |-> Sealed(NoKey, None)]
Call(op, e, id, role, wire, key) ==
    [Idle EXCEPT !.op = op, !.st = "sent", !.epoch = e, !.id = id, !.role = role,
                 !.wire = wire, !.key = key]
IsIdle(d) == job[d].op = "idle"
Return(d) == job' = [job EXCEPT ![d] = Idle]

(* open_wire: the session's when logged in, otherwise a connection of its own. *)
WireFor(d) == IF sub[d] # None THEN "session" ELSE "direct"
CanOpenWire(d) == d \in world.served /\ (sub[d] = None \/ SessionConn(d) \in live)
OpenWire(d, e) == live' = IF sub[d] = None THEN live \cup {<<d, e>>} ELSE live

NextEpoch(d) == /\ EPOCH < world.epochs
                /\ who' = Append(who, d)

Offer(d) ==
    /\ IsIdle(d) /\ d \in world.served /\ CanOpenWire(d)
    /\ NextEpoch(d)
    /\ OpenWire(d, EPOCH + 1)
    /\ job' = [job EXCEPT ![d] = Call("create", EPOCH + 1, EPOCH + 1, LocalRole(d), WireFor(d), NoKey)]
    /\ UNCHANGED <<root, seed, sub, closing, slot, tasks, inbox, sess, lan, gen, granted, enrolled, typed, faults, world>>

OfferLan(d) ==
    /\ IsIdle(d) /\ d \notin world.served
    /\ NextEpoch(d)
    /\ Install(d, Slot(EPOCH + 1, EPOCH + 1, IF HoldsKey(d) THEN "sponsor" ELSE "joiner", "lan", NoKey, FALSE))
    /\ UNCHANGED <<root, seed, sub, job, tasks, sess, lan, gen, granted, enrolled, typed, faults, world>>

(* A human reads the code of epoch o off another device's screen. *)
Accept(d) ==
    /\ IsIdle(d) /\ CanOpenWire(d)
    /\ NextEpoch(d)
    /\ \E o \in 1..EPOCH :
         /\ who[o] # d /\ who[o] \in world.served
         /\ job' = [job EXCEPT ![d] =
                      Call("claim", EPOCH + 1, o, "joiner", WireFor(d), ChannelKey(o, EPOCH + 1))]
    /\ OpenWire(d, EPOCH + 1)
    /\ UNCHANGED <<root, seed, sub, closing, slot, tasks, inbox, sess, lan, gen, granted, enrolled, typed, faults, world>>

(* What the human decides on the sponsor's screen: the device at the other end
   of this channel may join. *)
Decision(d, key) == [to |-> who[IF who[key.o] = d THEN key.c ELSE key.o], by |-> key]

(* confirm: the human says yes.  The bundle is sealed now, the ID token comes later. *)
Confirm(d) ==
    LET p == slot[d] IN
    /\ IsIdle(d) /\ HasSlot(d) /\ p.role = "sponsor" /\ p.key # NoKey
    /\ \/ /\ p.wire = "lan" /\ p.confirm
          /\ slot' = [slot EXCEPT ![d].confirm = FALSE]
          /\ tasks' = {IF t.dev = d /\ t.kind = "sponsor" /\ t.key = p.key
                       THEN [t EXCEPT !.pc = "seal"] ELSE t : t \in tasks}
          /\ granted' = granted \cup {Decision(d, p.key)}
          /\ UNCHANGED job
       \/ /\ p.wire # "lan" /\ HoldsKey(d)
          /\ \E st \in {"sent", "browser"} :   \* a fresh ID token, or NeedsReauth
               job' = [job EXCEPT ![d] =
                         [Call("approve", p.epoch, p.id, "sponsor", p.wire, p.key) EXCEPT
                             !.st = st, !.bundle = Sealed(p.key, AccountKey(d))]]
          /\ granted' = granted \cup {Decision(d, p.key)}
          /\ UNCHANGED <<slot, tasks>>
    /\ UNCHANGED <<root, seed, sub, live, closing, who, inbox, sess, lan, gen, enrolled, typed, faults, world>>

(* The browser comes back with a token (login's Goal::Pairing): the approval goes out. *)
Reauthenticated(d) ==
    /\ job[d].op = "approve" /\ job[d].st = "browser"
    /\ job' = [job EXCEPT ![d].op = "reapprove", ![d].st = "sent"]
    /\ UNCHANGED <<root, seed, sub, live, closing, who, slot, tasks, inbox, sess, lan, gen, granted, enrolled, typed, faults, world>>

Cancel(d) ==
    /\ IsIdle(d) /\ HasSlot(d)
    /\ slot' = [slot EXCEPT ![d] = NoSlot]
    /\ IF slot[d].wire = "lan"
       THEN UNCHANGED job
       ELSE job' = [job EXCEPT ![d] = Call("cancel", slot[d].epoch, slot[d].id, slot[d].role, slot[d].wire, NoKey)]
    /\ UNCHANGED <<root, seed, sub, live, closing, who, tasks, inbox, sess, lan, gen, granted, enrolled, typed, faults, world>>

(***************************************************************************)
(* The calls' ends, once the reply is in.                                  *)
(***************************************************************************)
CreateReplied(d) ==
    LET j == job[d] IN
    /\ j.op = "create" /\ j.st \in {"ok", "err"}
    /\ IF j.st = "ok"
       THEN Install(d, Slot(j.epoch, j.id, j.role, j.wire, NoKey, FALSE))
       ELSE /\ Close({<<d, j.epoch>>})
            /\ UNCHANGED slot
    /\ Return(d)
    /\ UNCHANGED <<root, seed, sub, who, tasks, sess, lan, gen, granted, enrolled, typed, faults, world>>

ClaimReplied(d) ==
    LET j == job[d] IN
    /\ j.op = "claim" /\ j.st \in {"sponsor", "joiner", "err"}
    /\ CASE j.st = "sponsor" /\ ~HoldsKey(d) ->
              /\ job' = [job EXCEPT ![d].op = "refuse", ![d].st = "sent"]
              /\ Keep /\ UNCHANGED slot
         [] j.st \in {"sponsor", "joiner"} /\ (j.st = "joiner" \/ HoldsKey(d)) ->
              /\ Install(d, Slot(j.epoch, j.id, j.st, j.wire, j.key, FALSE))
              /\ Return(d)
         [] OTHER -> /\ Close({<<d, j.epoch>>})
                     /\ Return(d) /\ UNCHANGED slot
    /\ UNCHANGED <<root, seed, sub, who, tasks, sess, lan, gen, granted, enrolled, typed, faults, world>>

(* The cancellation of a claim this device cannot sponsor, or of a pairing given up. *)
CancelReplied(d) ==
    /\ job[d].op \in {"refuse", "cancel"} /\ job[d].st \in {"ok", "err"}
    /\ Close({<<d, job[d].epoch>>})
    /\ Return(d)
    /\ UNCHANGED <<root, seed, sub, who, slot, tasks, sess, lan, gen, granted, enrolled, typed, faults, world>>

(* Ok settles the pairing as completed; OIDC_INVALID opens the browser; any other
   error leaves the slot to its expiry, or settles it as failed after a browser. *)
ApproveReplied(d) ==
    LET j == job[d] IN
    /\ j.op \in {"approve", "reapprove"} /\ j.st \in {"ok", "err", "oidc"}
    /\ IF j.op = "approve" /\ j.st = "oidc"
       THEN /\ job' = [job EXCEPT ![d].st = "browser"]
            /\ Keep /\ UNCHANGED slot
       ELSE /\ Return(d)
            /\ IF j.st = "ok" \/ j.op = "reapprove" THEN Settle(d, j.id)
               ELSE Keep /\ UNCHANGED slot
    /\ UNCHANGED <<root, seed, sub, who, tasks, sess, lan, gen, granted, enrolled, typed, faults, world>>

(***************************************************************************)
(* What the server says.  The events carry no pairing id: they are applied *)
(* to whatever the slot holds, unless that is a pairing of the LAN.        *)
(***************************************************************************)
Task(d, kind, pc, e, id, key, acct, peer) ==
    [dev |-> d, kind |-> kind, pc |-> pc, epoch |-> e, id |-> id, key |-> key, acct |-> acct, peer |-> peer]

(* The event is consumed and the connections go, with what they had still to say. *)
DropConns(d, conns) ==
    /\ live' = live \ conns
    /\ closing' = closing \cup (conns \cap live)
    /\ inbox' = [inbox EXCEPT ![d] = Undelivered(Tail(@), conns)]

OnClaimed(d, m) ==
    IF slot[d].secret
    THEN /\ slot' = [slot EXCEPT ![d].secret = FALSE, ![d].key = ChannelKey(slot[d].epoch, m.arg)]
         /\ inbox' = [inbox EXCEPT ![d] = Tail(@)]
         /\ UNCHANGED <<live, closing, tasks>>
    ELSE /\ slot' = [slot EXCEPT ![d] = NoSlot]
         /\ DropConns(d, AbandonConns(d))
         /\ UNCHANGED tasks

(* complete_as_joiner gets the pairing itself; the connection stays for the enrolment. *)
OnCompleted(d, m) ==
    /\ slot' = [slot EXCEPT ![d] = NoSlot]
    /\ tasks' = IF slot[d].role = "joiner" /\ Opens(slot[d].key, m.arg)
                THEN tasks \cup {Task(d, "complete", "stow", slot[d].epoch, slot[d].id, slot[d].key,
                                      m.arg.acct, None)}
                ELSE tasks
    /\ IF tasks' # tasks
       THEN /\ inbox' = [inbox EXCEPT ![d] = Tail(@)]
            /\ UNCHANGED <<live, closing>>
       ELSE DropConns(d, AbandonConns(d))

OnFailed(d) ==
    /\ slot' = [slot EXCEPT ![d] = NoSlot]
    /\ DropConns(d, AbandonConns(d))
    /\ UNCHANGED tasks

Deliver(d) ==
    /\ inbox[d] # <<>>
    /\ LET m == Head(inbox[d]) IN
       IF m.kind = "reply"
       THEN /\ inbox' = [inbox EXCEPT ![d] = Tail(@)]
            /\ job' = [job EXCEPT ![d].st = IF @ = "served" THEN m.arg ELSE @]
            /\ UNCHANGED <<slot, live, closing, tasks>>
       ELSE /\ UNCHANGED job
            /\ CASE ~HasSlot(d) \/ slot[d].wire = "lan" ->
                      /\ inbox' = [inbox EXCEPT ![d] = Tail(@)]
                      /\ UNCHANGED <<slot, live, closing, tasks>>
                 [] HasSlot(d) /\ slot[d].wire # "lan" ->
                      \/ m.kind = "claimed" /\ OnClaimed(d, m)
                      \/ m.kind = "completed" /\ OnCompleted(d, m)
                      \/ m.kind = "failed" /\ OnFailed(d)
    /\ UNCHANGED <<root, seed, sub, who, sess, lan, gen, granted, enrolled, typed, faults, world>>

(* The expiry of the slot's own epoch. *)
Expire(d) ==
    /\ HasSlot(d)
    /\ FailCurrent(d)
    /\ UNCHANGED <<root, seed, sub, who, job, tasks, sess, lan, gen, granted, enrolled, typed, faults, world>>

(***************************************************************************)
(* The rendezvous server: one session per pairing, moved on by requests.   *)
(***************************************************************************)
Session(o, orole, oconn, acct, joining) ==
    [stage |-> "offered", offerer |-> oconn, orole |-> orole, claimer |-> None,
     acct |-> acct, joining |-> joining]
Party(s, role) == IF s.orole = role THEN s.offerer ELSE s.claimer
Involves(s, c) == c \in {s.offerer, s.claimer}
OrphanedBy(s, c) == IF s.stage = "approved" THEN Party(s, "joiner") = c ELSE Involves(s, c)

Msg(conn, kind, arg) == [conn |-> conn, kind |-> kind, arg |-> arg]
(* try_send to the connections named; one that is gone takes nothing. *)
Tell(box, to, m) == IF to # None /\ to \in live
                    THEN [box EXCEPT ![to[1]] = Append(@, Msg(to, m.kind, m.arg))] ELSE box
TheOther(s, c) == IF s.offerer = c THEN s.claimer ELSE s.offerer
Answer(box, c, arg) == Tell(box, c, [kind |-> "reply", arg |-> arg])

(* drop_for_conn: the sessions a connection leaves behind, and the inboxes once
   the others are told. *)
Orphans(c) == {id \in DOMAIN sess : OrphanedBy(sess[id], c)}
ToldOf(box, ids, c) ==
    [d \in Device |->
        LET left == {id \in ids : LET x == TheOther(sess[id], c) IN x \in live /\ x[1] = d}
            ranked == SetToSeq(left)
        IN  box[d] \o [i \in 1..Cardinality(left) |->
                         Msg(TheOther(sess[ranked[i]], c), "failed", "reason")]]
Without(ids) == [id \in DOMAIN sess \ ids |-> sess[id]]

Pending(d, ops) == job[d].op \in ops /\ job[d].st = "sent"
JobConn(d) == ConnOf(d, job[d].wire, job[d].epoch)
ServerOnly == UNCHANGED <<root, seed, sub, live, closing, who, slot, tasks, lan, gen, granted, typed, faults, world>>
Handled(d) == job' = [job EXCEPT ![d].st = "served"]

PairingCreate(d) ==
    LET j == job[d]
        c == JobConn(d)
        acct == sub[d]
        left == Orphans(c)
    IN /\ Pending(d, {"create"}) /\ c \in live
       /\ IF (j.role = "sponsor" /\ acct = None) \/ Cardinality(DOMAIN sess \ left) >= MaxSessions
          THEN /\ sess' = IF j.role = "sponsor" /\ acct = None THEN sess ELSE Without(left)
               /\ inbox' = Answer(ToldOf(inbox, IF j.role = "sponsor" /\ acct = None THEN {} ELSE left, c), c, "err")
          ELSE /\ sess' = [id \in {j.id} \cup (DOMAIN sess \ left) |->
                             IF id = j.id
                             THEN Session(j.epoch, j.role, c, acct, IF j.role = "joiner" THEN d ELSE None)
                             ELSE sess[id]]
               /\ inbox' = Answer(ToldOf(inbox, left, c), c, "ok")
       /\ Handled(d) /\ UNCHANGED enrolled /\ ServerOnly

PairingClaim(d) ==
    LET j == job[d]
        c == JobConn(d)
        s == sess[j.id]
        role == Other(s.orole)
        refused == \/ j.id \notin DOMAIN sess
                   \/ s.stage # "offered"
                   \/ s.acct # None /\ sub[d] # None /\ s.acct # sub[d]
                   \/ role = "sponsor" /\ sub[d] = None
    IN /\ Pending(d, {"claim"}) /\ c \in live
       /\ IF refused
          THEN /\ inbox' = Answer(inbox, c, "err")
               /\ UNCHANGED sess
          ELSE /\ sess' = [sess EXCEPT ![j.id].stage = "claimed", ![j.id].claimer = c,
                                       ![j.id].acct = IF role = "sponsor" THEN sub[d] ELSE @,
                                       ![j.id].joining = IF role = "joiner" THEN d ELSE @]
               /\ inbox' = Answer(Tell(inbox, s.offerer, [kind |-> "claimed", arg |-> j.epoch]), c, role)
       /\ Handled(d) /\ UNCHANGED enrolled /\ ServerOnly

PairingApprove(d) ==
    LET j == job[d]
        c == JobConn(d)
        s == sess[j.id]
        refused == \/ sub[d] = None
                   \/ j.id \notin DOMAIN sess
                   \/ s.acct # sub[d] \/ s.stage # "claimed" \/ Party(s, "sponsor") # c
    IN /\ Pending(d, {"approve", "reapprove"}) /\ c \in live
       /\ \/ /\ inbox' = Answer(inbox, c, "oidc")     \* not fresh enough, or another identity
             /\ UNCHANGED sess
          \/ IF refused
             THEN /\ inbox' = Answer(inbox, c, "err")
                  /\ UNCHANGED sess
             ELSE /\ sess' = [sess EXCEPT ![j.id].stage = "approved"]
                  /\ inbox' = Answer(Tell(inbox, Party(s, "joiner"), [kind |-> "completed", arg |-> j.bundle]), c, "ok")
       /\ Handled(d) /\ UNCHANGED enrolled /\ ServerOnly

PairingCancel(d) ==
    LET j == job[d]
        c == JobConn(d)
        known == j.id \in DOMAIN sess /\ Involves(sess[j.id], c)
    IN /\ Pending(d, {"cancel", "refuse"}) /\ c \in live
       /\ sess' = IF known THEN Without({j.id}) ELSE sess
       /\ inbox' = Answer(IF known THEN ToldOf(inbox, {j.id}, c) ELSE inbox, c, IF known THEN "ok" ELSE "err")
       /\ Handled(d) /\ UNCHANGED enrolled /\ ServerOnly

(* The server sees a connection end: drop_pairings. *)
ConnEnds(c) ==
    /\ c \in closing
    /\ closing' = closing \ {c}
    /\ sess' = Without(Orphans(c))
    /\ inbox' = ToldOf(inbox, Orphans(c), c)
    /\ UNCHANGED <<root, seed, sub, live, who, slot, job, tasks, lan, gen, granted, enrolled, typed, faults, world>>

(* sweep: past its time to live a session goes, and nobody is told. *)
Sweep(id) ==
    /\ id \in DOMAIN sess
    /\ sess' = Without({id})
    /\ UNCHANGED <<job, inbox, enrolled>> /\ ServerOnly

(***************************************************************************)
(* The local network: the code is dialled, both ends exchange where they   *)
(* stand, and the sponsor's end waits for its human.                       *)
(***************************************************************************)
Standing(d) == [holds |-> HoldsKey(d), account |-> root[d]]
NoStanding == [holds |-> FALSE, account |-> None]

(* Mutant: two holders of the key both sponsor. *)
LanRoleBoth(ours, theirs, weDisplayed) ==
    IF ours.holds THEN "sponsor" ELSE IF theirs.holds THEN "joiner" ELSE "no_account"

(* lan_roles: the same answer at both ends, from the same two standings. *)
LanRole(ours, theirs, weDisplayed) ==
    CASE ~ours.holds /\ ~theirs.holds -> "no_account"
      [] ours.account # None /\ theirs.account # None /\ ours.account # theirs.account -> "other_account"
      [] ours.holds # theirs.holds -> IF ours.holds THEN "sponsor" ELSE "joiner"
      [] OTHER -> IF weDisplayed THEN "sponsor" ELSE "joiner"

Stream(o, c) == CHOOSE x \in lan : x.o = o /\ x.c = c
OnStream(x, frame) == lan' = (lan \ {x}) \cup {[x EXCEPT !.frame = frame]}

AcceptLan(d) ==
    /\ IsIdle(d)
    /\ NextEpoch(d)
    /\ \E o \in 1..EPOCH :
         /\ who[o] # d /\ who[o] \notin world.served
         /\ lan' = lan \cup {[o |-> o, c |-> EPOCH + 1, frame |-> "offer", dialer |-> Standing(d),
                              displayer |-> NoStanding, bundle |-> Sealed(NoKey, None)]}
         /\ job' = [job EXCEPT ![d] = Call("lan", EPOCH + 1, EPOCH + 1, "joiner", "lan", ChannelKey(o, EPOCH + 1))]
    /\ UNCHANGED <<root, seed, sub, live, closing, slot, tasks, inbox, sess, gen, granted, enrolled, typed, faults, world>>

LanTail(d, role, e, key, peer) ==
    Task(d, role, "wait", e, e, key, None, peer)

(* arm: only a pairing of the local network nobody has claimed, and only for the
   proof its own code gives. *)
Armable(d, o) == slot[d].wire = "lan" /\ slot[d].key = NoKey /\ slot[d].epoch = o

(* recv_lan_pair: the proof is the code's, so only the pairing on the
   screen that was read is touched. *)
RecvLanPair(x) ==
    LET d == who[x.o]
        ours == Standing(d)
        role == LanRole(ours, x.dialer, TRUE)
        key == ChannelKey(x.o, x.c)
    IN /\ x \in lan /\ x.frame = "offer"
       /\ CASE ~Armable(d, x.o) ->
                 /\ OnStream(x, "refused")
                 /\ Keep /\ UNCHANGED <<slot, tasks>>
            [] Armable(d, x.o) /\ role \notin {"sponsor", "joiner"} ->
                 /\ OnStream(x, "refused")
                 /\ Settle(d, slot[d].id) /\ UNCHANGED tasks
            [] OTHER ->
                 /\ slot' = [slot EXCEPT ![d].role = role, ![d].key = key, ![d].secret = FALSE,
                                         ![d].confirm = role = "sponsor"]
                 /\ tasks' = tasks \cup {LanTail(d, role, x.o, key, who[x.c])}
                 /\ lan' = (lan \ {x}) \cup {[x EXCEPT !.frame = "hello", !.displayer = ours]}
                 /\ Keep
       /\ UNCHANGED <<root, seed, sub, who, job, sess, gen, granted, enrolled, typed, faults, world>>

(* The dialling end reads the answer. *)
LanAnswered(d) ==
    LET j == job[d]
        x == Stream(j.key.o, j.key.c)
        role == LanRole(x.dialer, x.displayer, FALSE)
    IN /\ j.op = "lan" /\ x.frame \in {"hello", "refused", "dead"}
       /\ IF x.frame = "hello"
          THEN IF role \in {"sponsor", "joiner"}
               THEN /\ Install(d, Slot(j.epoch, j.epoch, role, "lan", j.key, role = "sponsor"))
                    /\ tasks' = tasks \cup {LanTail(d, role, j.epoch, j.key, who[j.key.o])}
                    /\ OnStream(x, "open")
               ELSE /\ OnStream(x, "refused")
                    /\ Keep /\ UNCHANGED <<slot, tasks>>
          ELSE Keep /\ UNCHANGED <<slot, tasks, lan>>
       /\ Return(d)
       /\ UNCHANGED <<root, seed, sub, who, sess, gen, granted, enrolled, typed, faults, world>>

(* lan_sponsor: the sender dropped with the slot is a no; a yes seals what the
   keyring holds now. *)
LanSponsor(t) ==
    LET d == t.dev
        x == Stream(t.key.o, t.key.c)
    IN /\ t \in tasks /\ t.kind = "sponsor"
       /\ \/ /\ t.pc = "wait" /\ slot[d].key # t.key
             /\ IF x.frame = "dead" THEN UNCHANGED lan ELSE OnStream(x, "refused")
             /\ UNCHANGED <<slot, live, closing, inbox>>
          \/ /\ t.pc = "seal" /\ x.frame # "hello"
             /\ CASE x.frame = "dead" -> UNCHANGED lan
                  [] x.frame # "dead" /\ ~HoldsKey(d) -> OnStream(x, "refused")
                  [] OTHER -> lan' = (lan \ {x}) \cup {[x EXCEPT !.frame = "grant",
                                                        !.bundle = Sealed(t.key, AccountKey(d))]}
             /\ Settle(d, t.id)
       /\ tasks' = tasks \ {t}
       /\ UNCHANGED <<root, seed, sub, who, job, sess, gen, granted, enrolled, typed, faults, world>>

(* lan_joiner: the grant, a refusal, or the end of LAN_TTL. *)
LanJoiner(t) ==
    LET d == t.dev
        x == Stream(t.key.o, t.key.c)
    IN /\ t \in tasks /\ t.kind = "joiner" /\ t.pc = "wait"
       /\ \/ /\ x.frame = "grant" /\ Opens(t.key, x.bundle)
             /\ tasks' = (tasks \ {t}) \cup {[t EXCEPT !.pc = "stow", !.acct = x.bundle.acct]}
             /\ UNCHANGED <<slot, live, closing, inbox, lan>>
          \/ /\ x.frame \in {"open", "refused", "dead"}
             /\ tasks' = tasks \ {t}
             /\ OnStream(x, "dead")
             /\ Settle(d, t.id)
       /\ UNCHANGED <<root, seed, sub, who, job, sess, gen, granted, enrolled, typed, faults, world>>

(***************************************************************************)
(* account_key::install, in the two halves other installs and a departure  *)
(* can come between: the keyring first, then the root under its lock.      *)
(***************************************************************************)
Step(t, pc) == tasks' = (tasks \ {t}) \cup {[t EXCEPT !.pc = pc]}
Unfaulted == UNCHANGED faults
Faulty == faults < world.faults /\ faults' = faults + 1

(* The end of a task: a pairing of the server's closes its own connection, one of
   the local network settles its slot, a typed code just answers. *)
End(t) ==
    /\ tasks' = tasks \ {t}
    /\ CASE t.kind = "complete" -> Close({<<t.dev, t.epoch>>}) /\ UNCHANGED slot
         [] t.kind = "joiner" -> Settle(t.dev, t.id)
         [] t.kind = "code" -> Keep /\ UNCHANGED slot

StowKey(t) ==
    LET d == t.dev IN
    /\ t \in tasks /\ t.pc = "stow"
    /\ \/ /\ root[d] \in {None, t.acct}
          /\ seed' = [seed EXCEPT ![d] = t.acct]
          /\ Step(t, "commit")
          /\ Keep /\ Unfaulted /\ UNCHANGED slot
       \/ /\ root[d] \notin {None, t.acct}      \* OtherKey, before anything is written
          /\ End(t) /\ Unfaulted /\ UNCHANGED seed
       \/ /\ Faulty                              \* the keyring refuses, or does not read back
          /\ End(t) /\ UNCHANGED seed
    /\ UNCHANGED <<root, sub, who, job, sess, lan, gen, granted, enrolled, typed, world>>

CommitRoot(t) ==
    LET d == t.dev IN
    /\ t \in tasks /\ t.pc = "commit"
    /\ \/ /\ root[d] \in {None, t.acct}
          /\ root' = [root EXCEPT ![d] = t.acct]
          /\ granted' = granted \ {[to |-> d, by |-> t.key]}
          /\ Step(t, "enter")
          /\ Keep /\ Unfaulted /\ UNCHANGED slot
       \/ /\ root[d] \notin {None, t.acct}
          /\ End(t) /\ Unfaulted /\ UNCHANGED <<root, granted>>
       \/ /\ Faulty                              \* the file could not be written
          /\ End(t) /\ UNCHANGED <<root, granted>>
    /\ UNCHANGED <<seed, sub, who, job, sess, lan, gen, enrolled, typed, world>>

(* What follows the installation: a logged-in device publishes its attestation, one
   that is not enters the directory on the grant, over the pairing's connection. *)
CanEnroll(t) == LET c == <<t.dev, t.epoch>> IN
    /\ c \in live /\ t.id \in DOMAIN sess
    /\ sess[t.id].stage = "approved" /\ Party(sess[t.id], "joiner") = c

EnterAccount(t) ==
    LET d == t.dev IN
    /\ t \in tasks /\ t.pc = "enter"
    /\ End(t)
    /\ UNCHANGED <<root, seed, sub, who, job, sess, lan, gen, granted, enrolled, typed, faults, world>>
    /\ t.kind # "complete" \/ sub[d] # None \/ ~CanEnroll(t)

EnrollOnGrant(t) ==
    LET d == t.dev
        c == <<d, t.epoch>>
    IN /\ t \in tasks /\ t.pc = "enter" /\ t.kind = "complete" /\ sub[d] = None /\ CanEnroll(t)
       /\ enrolled' = enrolled \cup {<<sess[t.id].joining, sess[t.id].acct>>}
       /\ sub' = [sub EXCEPT ![d] = sess[t.id].acct]
       /\ sess' = Without({t.id})
       /\ live' = (live \ {c}) \cup {SessionConn(d)}
       /\ closing' = closing \cup {c}
       /\ inbox' = [inbox EXCEPT ![d] = Undelivered(@, {c})]
       /\ tasks' = tasks \ {t}
       /\ UNCHANGED <<root, seed, who, slot, job, lan, gen, granted, typed, faults, world>>

(* account.setup and account.join: a human types the recovery code of an account. *)
TypeCode(d, a) ==
    /\ typed < world.codes
    /\ d \in world.served => sub[d] # None /\ SessionConn(d) \in live
    /\ typed' = typed + 1
    /\ tasks' = tasks \cup {Task(d, "code", "stow", 0, 0, ChannelKey(0, typed + 1), a, None)}
    /\ granted' = granted \cup {[to |-> d, by |-> ChannelKey(0, typed + 1)]}
    /\ UNCHANGED <<root, seed, sub, live, closing, who, slot, job, inbox, sess, lan, gen, enrolled, faults, world>>

(***************************************************************************)
(* Faults: connections and streams die, a device is struck off.            *)
(***************************************************************************)
Unsent(d) == [job[d] EXCEPT !.st = IF @ \in {"sent", "served"} THEN "err" ELSE @]

(* A pairing's own connection breaks: direct_loop fails the pairing of its epoch. *)
DirectLost(d) ==
    /\ Faulty
    /\ \E e \in 1..EPOCH :
         /\ <<d, e>> \in live
         /\ Close({<<d, e>>})
         /\ slot' = IF slot[d].epoch = e THEN [slot EXCEPT ![d] = NoSlot] ELSE slot
         /\ job' = IF ~IsIdle(d) /\ job[d].epoch = e THEN [job EXCEPT ![d] = Unsent(d)] ELSE job
    /\ UNCHANGED <<root, seed, sub, who, tasks, sess, lan, gen, granted, enrolled, typed, world>>

(* The session breaks and comes back; the slot is left to its expiry. *)
SessionLost(d) ==
    /\ Faulty
    /\ SessionConn(d) \in live
    /\ Close({SessionConn(d)})
    /\ job' = IF job[d].wire = "session" THEN [job EXCEPT ![d] = Unsent(d)] ELSE job
    /\ gen' = [gen EXCEPT ![d] = @ + 1]
    /\ UNCHANGED <<root, seed, sub, who, slot, tasks, sess, lan, granted, enrolled, typed, world>>

SessionBack(d) ==
    /\ sub[d] # None /\ SessionConn(d) \notin live
    /\ live' = live \cup {SessionConn(d)}
    /\ UNCHANGED <<root, seed, sub, closing, who, slot, job, tasks, inbox, sess, lan, gen, granted, enrolled, typed, faults, world>>

(* A request on a session that is not there fails at once. *)
Unreachable(d) ==
    /\ job[d].wire \in {"session", "direct"} /\ job[d].st \in {"sent", "served"} /\ JobConn(d) \notin live
    /\ job' = [job EXCEPT ![d] = Unsent(d)]
    /\ UNCHANGED <<root, seed, sub, live, closing, who, slot, tasks, inbox, sess, lan, gen, granted, enrolled, typed, faults, world>>

StreamLost(x) ==
    /\ Faulty
    /\ x \in lan /\ x.frame # "dead"
    /\ OnStream(x, "dead")
    /\ UNCHANGED <<root, seed, sub, live, closing, who, slot, job, tasks, inbox, sess, gen, granted, enrolled, typed, world>>

(* account_key::leave: this device obeys a tombstone that names it. *)
Leave(d) ==
    /\ Faulty /\ root[d] # None
    /\ root' = [root EXCEPT ![d] = None]
    /\ seed' = [seed EXCEPT ![d] = None]
    /\ sub' = [sub EXCEPT ![d] = None]
    /\ Close({SessionConn(d)} \cup AbandonConns(d))
    /\ job' = [job EXCEPT ![d] = IF job[d].st = "browser" \/ job[d].op = "reapprove" THEN Idle ELSE Unsent(d)]
    /\ slot' = [slot EXCEPT ![d] = NoSlot]
    /\ gen' = [gen EXCEPT ![d] = @ + 1]
    /\ UNCHANGED <<who, tasks, sess, lan, granted, enrolled, typed, world>>

(* A world: who is logged in (`sub'), who holds which key (`holds'), who has a server
   (`served'), and the bounds: pairings started, recovery codes typed, faults. *)
PairInit ==
    /\ world \in Worlds
    /\ root = world.holds /\ seed = world.holds /\ sub = world.sub
    /\ gen = [d \in Device |-> 0]
    /\ live = {SessionConn(d) : d \in {x \in Device : sub[x] # None}}
    /\ closing = {} /\ who = <<>>
    /\ slot = [d \in Device |-> NoSlot] /\ job = [d \in Device |-> Idle]
    /\ tasks = {} /\ inbox = [d \in Device |-> <<>>]
    /\ sess = [id \in {} |-> 0] /\ lan = {}
    /\ granted = {} /\ enrolled = {} /\ typed = 0 /\ faults = 0

PairNext ==
    \/ \E d \in Device :
          \/ Offer(d) \/ OfferLan(d) \/ Accept(d) \/ AcceptLan(d) \/ Confirm(d)
          \/ Reauthenticated(d) \/ Cancel(d) \/ CreateReplied(d) \/ ClaimReplied(d)
          \/ CancelReplied(d) \/ ApproveReplied(d) \/ Deliver(d) \/ Expire(d)
          \/ PairingCreate(d) \/ PairingClaim(d) \/ PairingApprove(d) \/ PairingCancel(d)
          \/ LanAnswered(d) \/ DirectLost(d) \/ SessionLost(d) \/ SessionBack(d)
          \/ Unreachable(d) \/ Leave(d) \/ \E a \in Account : TypeCode(d, a)
    \/ \E c \in closing : ConnEnds(c)
    \/ \E id \in DOMAIN sess : Sweep(id)
    \/ \E x \in lan : RecvLanPair(x) \/ StreamLost(x)
    \/ \E t \in tasks : \/ LanSponsor(t) \/ LanJoiner(t) \/ StowKey(t) \/ CommitRoot(t)
                        \/ EnterAccount(t) \/ EnrollOnGrant(t)

PairSpec == PairInit /\ [][PairNext]_pvars

(***************************************************************************)
(* Properties.                                                             *)
(***************************************************************************)
H == INSTANCE Handover WITH keys <- root, grants <- granted

(* A key reaches a device only through a decision that named the device, once, and
   never over another key: late events applied to a newer pairing, claims of a
   pairing replaced, sessions lost and found cannot make it otherwise. *)
KeysByDecision == H!HSpec

(* The two ends of one channel never both hand the key over, and never both wait
   for it, whichever side offered, whoever holds the key by now. *)
OneSponsor ==
    \A d, e \in Device :
        d # e /\ slot[d].key # NoKey /\ slot[d].key = slot[e].key => slot[d].role # slot[e].role

(* What account_key::install says of itself: attested implies the key is there. *)
AttestedHoldsKey == \A d \in Device : root[d] # None => seed[d] = root[d]
=============================================================================
