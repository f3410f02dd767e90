--------------------------- MODULE SyncMembership ---------------------------
(***************************************************************************)
(* Membership of one synchronized set (sync/src/membership.rs and the      *)
(* gestures and handlers of sync/src/engine.rs that drive it).             *)
(*                                                                         *)
(* Each device signs its own status; a member signs invitations.  Records  *)
(* travel by gossip, in whole, over best-effort messages.  A device checks *)
(* a record against the key it PINNED by direct contact with the signer,   *)
(* stashes what it cannot check yet, keeps the newest record per class and *)
(* derives every status when it is asked.                                  *)
(*                                                                         *)
(* Left out: endorsements (the engine accepts but never issues any), the   *)
(* descriptor checks (one honest descriptor here), SEQ_MAX and DEVICE_CAP. *)
(* Who is due a round (announcements, introductions, stub proofs, full     *)
(* rounds, answers) is left open: a device may send its records to any     *)
(* device its records name or that it heard from.                          *)
(***************************************************************************)
EXTENDS Integers, Sequences, SequencesExt, FiniteSets

CONSTANTS
    Device,         \* node ids, naturals: their order is the order of a page
    Creator,        \* descriptor.created_by
    UnverifiedCap,  \* UNVERIFIED_CAP
    MaxSigned,      \* bound: records signed
    MaxMessages,    \* bound: messages in flight when one is sent
    MayLeave,       \* do members leave?
    MayReinstall    \* are engines reinstalled (new key, no state)?

ASSUME DeviceAssumption == Device \subseteq Nat /\ IsFiniteSet(Device) /\ Creator \in Device
ASSUME BoundsAssumption ==
    UnverifiedCap \in Nat \ {0} /\ MaxSigned \in Nat /\ MaxMessages \in Nat
ASSUME GesturesAssumption == MayLeave \in BOOLEAN /\ MayReinstall \in BOOLEAN

\* A signed record: a device's own status (by = node), or an invitation, whose
\* seq is its supersedes_seq.  key is the signer's key, at the signing time.
Terminal == {"left", "declined"}
Live     == {"active", "paused"}
Record   == [node : Device, by : Device, key : Nat, seq : Nat, at : Nat,
             status : Live \cup Terminal \cup {"invited"}]
\* An empty slot; every record beats it.
None == [node |-> -1, by |-> -1, key |-> 0, seq |-> 0, at |-> 0, status |-> "none"]
Slot == Record \cup {None}

VARIABLES
    view,   \* per device: its SetMembership (see View)
    key,    \* per device: its sync key; a reinstall mints the next
    open,   \* per device: open_invites
    net,    \* messages in flight
    signed, \* history: every record signed
    got     \* history: per device, the records received since its install,
            \* less those the device they are about disowned by a marker

mvars == <<view, key, open, net, signed, got>>

\* devices: the slots of each node, its floor, max_seq_seen and stash; pins: the
\* key pinned for a node, 0 for none.  `has` is false while the set is unknown.
View == [has : BOOLEAN, live : [Device -> Slot], term : [Device -> Slot],
         inv : [Device -> Slot], floor : [Device -> Nat], max : [Device -> Nat],
         stash : [Device -> Seq(Record)], pin : [Device -> Nat]]
Message == [from : Device, to : Device, kind : {"invite", "ack", "head", "marker"},
            key : Nat, records : Seq(Record)]

MemberTypeOK ==
    /\ view \in [Device -> View]
    /\ \A d, n \in Device : Len(view[d].stash[n]) <= UnverifiedCap
    /\ key \in [Device -> Nat \ {0}]
    /\ open \in [Device -> SUBSET Device]
    /\ net \subseteq Message
    /\ signed \subseteq Record /\ got \in [Device -> SUBSET signed]

-----------------------------------------------------------------------------
Higher(a, b) == IF a >= b THEN a ELSE b

\* beats(): the keep-newest order.
Beats(r, held) == r.seq > held.seq \/ (r.seq = held.seq /\ r.at > held.at)

\* effective(): the status derived from the slots; the door is measured against
\* the highest terminal known, the creator's exception covers its first join.
TerminalSeq(v, n) == Higher(v.floor[n], v.term[n].seq)
Reopened(v, n)    == v.inv[n] # None /\ v.inv[n].seq >= TerminalSeq(v, n)
DoorOpen(v, n)    == (n = Creator /\ TerminalSeq(v, n) = 0) \/ Reopened(v, n)
Effective(v, n) ==
    IF Beats(v.live[n], v.term[n]) /\ DoorOpen(v, n) THEN v.live[n].status
    ELSE IF v.term[n] # None
         THEN IF Reopened(v, n) THEN "invited" ELSE v.term[n].status
    ELSE IF v.inv[n] # None THEN "invited"
    ELSE "unknown"

Admitted(v, n) == Effective(v, n) \in Live
\* already_in(): what sync.invite refuses to invite again.
AlreadyIn(v, n) == Effective(v, n) \in Live \cup {"invited"}

\* next_seq(): past every seq seen about n, invitations included.
MutNextSeq(v, n) == v.live[n].seq + 1
NextSeq(v, n) == v.max[n] + 1

\* stash_unverified(): once each, the oldest out at the cap.
MutStashed(v, r) == [v EXCEPT !.stash[r.node] = Append(@, r)]
Stashed(v, r) ==
    LET s == v.stash[r.node] IN
    IF Contains(s, r) THEN v
    ELSE [v EXCEPT !.stash[r.node] =
            Append(IF Len(s) >= UnverifiedCap THEN Tail(s) ELSE s, r)]

\* absorb_member_verified() and absorb_invited_verified().
Kept(v, r) ==
    LET put(slot) == IF Beats(r, slot) THEN r ELSE slot
        w == [v EXCEPT !.max[r.node] = Higher(@, r.seq)] IN
    CASE r.status \in Live     -> [w EXCEPT !.live[r.node] = put(@)]
      [] r.status \in Terminal -> [w EXCEPT !.term[r.node] = put(@)]
      [] OTHER                 -> [w EXCEPT !.inv[r.node]  = put(@)]

\* absorb_inner(): a status counts under the pinned key; an invitation needs
\* its inviter's key, and its inviter admitted, NOW.  A status under another key
\* parks; an invitation under another key is a bad signature and drops.
Invitation(r)  == r.status = "invited"
Verifies(v, r) == v.pin[r.by] = r.key
Counts(v, r)   == Verifies(v, r) /\ (Invitation(r) => Admitted(v, r.by))
Dropped(v, r)  == Invitation(r) /\ v.pin[r.by] # 0 /\ ~Verifies(v, r)
Absorb1(v, r) ==
    IF Counts(v, r) THEN Kept(v, r)
    ELSE IF Dropped(v, r) THEN v
    ELSE Stashed(v, r)

\* The nodes in the order of a BTreeMap, and each node's part of v in turn.
InOrder == SetToSortSeq(Device, LAMBDA a, b : a < b)
ByNode(part(_)) == FlattenSeq([i \in DOMAIN InOrder |-> part(InOrder[i])])

\* reverify(): passes over everything stashed, until one absorbs nothing.  A
\* node whose last stashed record was dropped, and of which nothing else is
\* known, not even a floor, is forgotten with its max_seq_seen.
AllStashed(v) == ByNode(LAMBDA n : v.stash[n])
Stranger(v, n) == v.live[n] = None /\ v.term[n] = None /\ v.inv[n] = None
Pass(v) ==
    LET w == FoldLeft(Absorb1, [v EXCEPT !.stash = [n \in Device |-> <<>>]], AllStashed(v))
        evaporated == {n \in Device : /\ v.stash[n] # <<>> /\ w.stash[n] = <<>>
                                      /\ Stranger(w, n) /\ w.floor[n] = 0} IN
    [w EXCEPT !.max = [n \in Device |-> IF n \in evaporated THEN 0 ELSE @[n]]]
Reverify(v) ==
    LET after[i \in Nat] == IF i = 0 THEN v ELSE Pass(after[i - 1])
    IN  after[Len(AllStashed(v))]

\* absorb(), and a whole page of records in its order.
MutAbsorb(v, r) == Absorb1(v, r)
Absorb(v, r) == IF Counts(v, r) THEN Reverify(Kept(v, r)) ELSE Absorb1(v, r)
AbsorbAll(v, records) == FoldLeft(Absorb, v, records)

\* pin_direct(): a new key retires what the old one signed; the terminal seq
\* survives as a floor.
MutPinDirect(v, n, k) ==
    IF v.pin[n] = k THEN v
    ELSE Reverify([v EXCEPT !.pin[n] = k,
                            !.live[n] = IF v.pin[n] = 0 THEN @ ELSE None,
                            !.term[n] = IF v.pin[n] = 0 THEN @ ELSE None])
PinDirect(v, n, k) ==
    IF v.pin[n] = k THEN v
    ELSE LET retired == IF v.pin[n] = 0 THEN v
                        ELSE [v EXCEPT !.floor[n] = TerminalSeq(v, n),
                                       !.live[n] = None, !.term[n] = None] IN
         Reverify([retired EXCEPT !.pin[n] = k])

\* drop_stranger(): forget a device nothing verifiable is held about.
DropStranger(v, n) ==
    IF Stranger(v, n)
    THEN [v EXCEPT !.floor[n] = 0, !.max[n] = 0, !.stash[n] = <<>>]
    ELSE v

\* all_records(): every verified record, node by node.
AllRecords(v) ==
    ByNode(LAMBDA n : SelectSeq(<<v.live[n], v.term[n], v.inv[n]>>, LAMBDA r : r # None))

\* Devices the set's records name.
Named(v) == {n \in Device : \/ v.live[n] # None \/ v.term[n] # None \/ v.inv[n] # None
                            \/ v.stash[n] # <<>> \/ v.pin[n] # 0}

NoView == [has |-> FALSE, live |-> [n \in Device |-> None], term |-> [n \in Device |-> None],
           inv |-> [n \in Device |-> None], floor |-> [n \in Device |-> 0],
           max |-> [n \in Device |-> 0], stash |-> [n \in Device |-> <<>>],
           pin |-> [n \in Device |-> 0]]

-----------------------------------------------------------------------------
\* A record d signs now, about n.
Sign(d, n, status, seq) ==
    [node |-> n, by |-> d, key |-> key[d], seq |-> seq,
     at |-> Cardinality(signed) + 1, status |-> status]

\* sign_own(): pin oneself, sign past every seq seen, absorb at home.
Pinned(d) == PinDirect(view[d], d, key[d])
MutOwn(d, status) == Sign(d, d, status, Pinned(d).inv[d].seq + 1)
Own(d, status) == Sign(d, d, status, NextSeq(Pinned(d), d))

\* The device's new view, and the records it has received.
Becomes(d, v, records) ==
    /\ view' = [view EXCEPT ![d] = v]
    /\ got' = [got EXCEPT ![d] = records]

\* create_set(): the creator signs its first `active`.
MemberInit ==
    LET first == [node |-> Creator, by |-> Creator, key |-> 1, seq |-> 1, at |-> 1,
                  status |-> "active"] IN
    /\ key = [d \in Device |-> 1]
    /\ view = [d \in Device |->
                 IF d # Creator THEN NoView
                 ELSE Absorb(PinDirect([NoView EXCEPT !.has = TRUE], d, 1), first)]
    /\ open = [d \in Device |-> {}]
    /\ net = {}
    /\ signed = {first}
    /\ got = [d \in Device |-> IF d = Creator THEN {first} ELSE {}]

CanSign == Cardinality(signed) < MaxSigned

\* sync.invite and invite(): an active member invites a device that is not in;
\* the invitation supersedes every seq seen about it.
Invite(d, n) ==
    LET r == Sign(d, n, "invited", NextSeq(view[d], n) - 1) IN
    /\ CanSign /\ view[d].has /\ n # d
    /\ Effective(view[d], d) = "active" /\ ~AlreadyIn(view[d], n)
    /\ signed' = signed \cup {r}
    /\ Becomes(d, Absorb(view[d], r), got[d] \cup {r})
    /\ open' = [open EXCEPT ![d] = @ \cup {n}]
    /\ UNCHANGED <<key, net>>

\* The self-signed gestures: accept() of an invitation, and sign_status() with
\* the standing each status needs.
SignOwn(d, status, standing) ==
    /\ CanSign /\ view[d].has
    /\ Effective(view[d], d) \in standing
    /\ signed' = signed \cup {Own(d, status)}
    /\ Becomes(d, Absorb(Pinned(d), Own(d, status)), got[d] \cup {Own(d, status)})
    /\ UNCHANGED <<key, open, net>>
Accept(d)  == SignOwn(d, "active", {"invited"})
Decline(d) == SignOwn(d, "declined", {"invited"})
Pause(d)   == SignOwn(d, "paused", Live)
Resume(d)  == SignOwn(d, "active", Live)
Leave(d)   == MayLeave /\ SignOwn(d, "left", Live)

-----------------------------------------------------------------------------
Room == Cardinality(net) < MaxMessages
Post(d, e, kind) ==
    [from |-> d, to |-> e, kind |-> kind, key |-> key[d],
     records |-> IF kind \in {"invite", "head"} THEN AllRecords(view[d]) ELSE <<>>]

\* pump(): open invitations, once those answered by any record of the invitee
\* are struck off.
SendInvite(d, n) ==
    /\ Room /\ n \in open[d]
    /\ open' = [open EXCEPT ![d] =
                  {k \in @ : Effective(view[d], k) \in {"invited", "unknown"}}]
    /\ net' = IF n \in open'[d] THEN net \cup {Post(d, n, "invite")} ELSE net
    /\ UNCHANGED <<view, key, signed, got>>

\* opener() and answer_head(): a head with every verified record.
SendHead(d, e) ==
    /\ Room /\ view[d].has /\ e # d /\ e \in Named(view[d])
    /\ net' = net \cup {Post(d, e, "head")}
    /\ UNCHANGED <<view, key, open, signed, got>>

\* on_invite(): direct contact, then the carried records.  It counts from a
\* device they make active; otherwise it plants no state where there was none.
RecvInvite(m) ==
    LET d == m.to
        v == AbsorbAll(PinDirect([view[d] EXCEPT !.has = TRUE], m.from, m.key), m.records)
        counts == Effective(v, m.from) = "active" IN
    /\ m.kind = "invite"
    /\ net' = (net \ {m}) \cup {Post(d, m.from, "ack") : x \in IF counts THEN {0} ELSE {}}
    /\ IF counts \/ view[d].has
       THEN Becomes(d, v, got[d] \cup ToSet(m.records))
       ELSE UNCHANGED <<view, got>>
    /\ UNCHANGED <<key, open, signed>>

\* An ack closes the open invitation, whichever invitation it acknowledged.
RecvAck(m) ==
    /\ m.kind = "ack"
    /\ net' = net \ {m}
    /\ open' = [open EXCEPT ![m.to] = @ \ {m.from}]
    /\ UNCHANGED <<view, key, signed, got>>

\* on_head() and try_complete() of a whole leg: direct contact, then its
\* records; a device without the set answers with the no-membership marker.
RecvHead(m) ==
    LET d == m.to IN
    /\ m.kind = "head"
    /\ IF view[d].has
       THEN /\ Becomes(d, AbsorbAll(PinDirect(view[d], m.from, m.key), m.records),
                       got[d] \cup ToSet(m.records))
            /\ net' = net \ {m}
       ELSE /\ net' = (net \ {m}) \cup {Post(d, m.from, "marker")}
            /\ UNCHANGED <<view, got>>
    /\ UNCHANGED <<key, open, signed>>

\* on_head() of a marker.
RecvMarker(m) ==
    LET d == m.to
        v == PinDirect(view[d], m.from, m.key) IN
    /\ m.kind = "marker"
    /\ net' = net \ {m}
    /\ IF view[d].has
       THEN Becomes(d, DropStranger(v, m.from),
                    IF Stranger(v, m.from) THEN {r \in got[d] : r.node # m.from} ELSE got[d])
       ELSE UNCHANGED <<view, got>>
    /\ UNCHANGED <<key, open, signed>>

Lose(m) ==
    /\ net' = net \ {m}
    /\ UNCHANGED <<view, key, open, signed, got>>

\* The engine's files are lost: a new key, no set, no open invitation.
Reinstall(d) ==
    /\ MayReinstall /\ key[d] = 1
    /\ key' = [key EXCEPT ![d] = @ + 1]
    /\ view' = [view EXCEPT ![d] = NoView]
    /\ open' = [open EXCEPT ![d] = {}]
    /\ got' = [got EXCEPT ![d] = {}]
    /\ UNCHANGED <<net, signed>>

MemberNext ==
    \/ \E d, n \in Device : Invite(d, n) \/ SendInvite(d, n) \/ SendHead(d, n)
    \/ \E d \in Device : Accept(d) \/ Decline(d) \/ Pause(d) \/ Resume(d) \/ Leave(d)
    \/ \E m \in net : \/ RecvInvite(m) \/ RecvAck(m) \/ RecvHead(m) \/ RecvMarker(m)
                      \/ Lose(m)
    \/ \E d \in Device : Reinstall(d)

MemberSpec == MemberInit /\ [][MemberNext]_mvars

-----------------------------------------------------------------------------
\* "Records are facts ... and ordering never loses a legitimate member"
\* (membership.rs:8-14): two devices that received the same records and pinned
\* the same keys, in whatever order and however often, agree on who is in.
SameRecordsSameView ==
    \A d, e \in Device :
        got[d] = got[e] /\ view[d].pin = view[e].pin =>
            \A n \in Device : Effective(view[d], n) = Effective(view[e], n)

\* A device's later word beats its earlier ones wherever they meet: under one
\* key its seqs only grow, re-invitations and lost messages included
\* (next_seq, membership.rs:468-475).
SeqsIncrease ==
    \A r, s \in signed :
        r.by = r.node /\ s.by = s.node /\ r.node = s.node /\ r.key = s.key /\ r.at < s.at
            => r.seq < s.seq

\* The door keeps measuring against every terminal a device verified: a key
\* rotation never lowers it (membership.rs:157-162).  A marker does:
\* drop_stranger takes the floor with the stranger.
DoorHolds ==
    \A d, n \in Device :
        \/ TerminalSeq(view'[d], n) >= TerminalSeq(view[d], n)
        \/ ~view'[d].has
        \/ \E m \in net \ net' : m.kind = "marker" /\ m.from = n /\ m.to = d
DoorNeverSlips == [][DoorHolds]_mvars

=============================================================================
