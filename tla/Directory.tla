----------------------------- MODULE Directory ------------------------------
(***************************************************************************)
(* The directory of an account: every device keeps its own copy of the     *)
(* devices' records, fed by the rendezvous server (snapshot, then events)  *)
(* and by the other devices (dirsync's rosters), and the tombstones that   *)
(* bar a device for good.  A record's description is signed by the device  *)
(* it describes; the server may change the name and then drops the         *)
(* signature.                                                              *)
(***************************************************************************)
EXTENDS Naturals, Sequences, FiniteSets, SequencesExt, FiniteSetsExt

CONSTANTS
    Node,          \* the devices, by node_id; all attested under one account key
    DirScenarios   \* starting points and bounds: see DirInit

VARIABLES
    sc,        \* the scenario: server, keyed (who holds the secret key), who, up, again, met, wires, acts, budget, ids
    dir,       \* dir[d]: SessionState.devices, a set of records
    rev,       \* rev[d]: SessionState.revoked, the tombstones held
    own,       \* own[d]: own_device_id; 0 when it is the node_id
    logged,    \* logged[d]: SessionState.logged_in
    sess,      \* sess[d]: "down", "auth", "listed" or "up"
    left,      \* left[d]: left_the_account
    disk,      \* disk[d]: devices.json and revoked.json
    ents,      \* the server's registry: a set of records
    conn,      \* conn[d]: the server entry this device's connection is bound to, 0 none
    queue,     \* queue[d]: what the server sent this device and it has yet to read
    cmds,      \* cmds[d]: requests queued to the session task, in order
    toStrike,  \* toStrike[d]: revocations the server granted, the tombstone yet to be made
    mail,      \* rosters on the wire between two devices
    now, nextId, nextName, used

dvars == <<sc, dir, rev, own, logged, sess, left, disk, ents, conn, queue, cmds, toStrike, mail,
           now, nextId, nextName, used>>

(***************************************************************************)
(* Records.  seq 0 is no seq; a signature is what was signed.              *)
(***************************************************************************)
NoSig == [name |-> 0, seq |-> 0]
Record(id, n, name, seq, sig, att) ==
    [id |-> id, node |-> n, name |-> name, seq |-> seq, sig |-> sig, att |-> att]
VerifyRecord(r) == r.seq # 0 /\ r.sig = [name |-> r.name, seq |-> r.seq]
Shareable(r) == VerifyRecord(r) /\ r.att
NextSeq(prev) == IF prev >= now THEN prev + 1 ELSE now

Signed(r, prev) == LET s == NextSeq(prev) IN [r EXCEPT !.seq = s, !.sig = [name |-> r.name, seq |-> s]]
CountersignOwn(r) == Signed(r, r.seq)
AsLearned(r) == [r EXCEPT !.id = 0]
CarryOver(held, incoming) == [held EXCEPT !.name = incoming.name, !.seq = incoming.seq,
                                          !.sig = incoming.sig, !.att = incoming.att]

GraftNoFloor(fresh, held) ==
    IF VerifyRecord(fresh) THEN fresh
    ELSE IF held.name = fresh.name /\ VerifyRecord(held) THEN [fresh EXCEPT !.seq = held.seq, !.sig = held.sig]
    ELSE [fresh EXCEPT !.sig = NoSig, !.seq = 0]
(* graft_signature: a server record keeps its own signature unless we hold a newer
   one that fits it; one that fits nothing stays unsigned, above the seq we knew. *)
Graft(fresh, held) ==
    LET newer == VerifyRecord(held) /\ held.seq > fresh.seq
        candidate == [fresh EXCEPT !.seq = held.seq, !.sig = held.sig]
    IN CASE ~newer /\ VerifyRecord(fresh) -> fresh
         [] (newer \/ ~VerifyRecord(fresh)) /\ held.sig # NoSig /\ VerifyRecord(candidate) -> candidate
         [] newer /\ VerifyRecord(fresh) /\ ~(held.sig # NoSig /\ VerifyRecord(candidate)) -> fresh
         [] OTHER -> [fresh EXCEPT !.sig = NoSig, !.seq = IF VerifyRecord(held) THEN held.seq ELSE 0]

OfNode(rs, n) == {r \in rs : r.node = n}
WithId(rs, id, n) == {r \in rs : r.id = id /\ (id # 0 \/ r.node = n)}
OwnRec(d) == WithId(dir[d], own[d], d)

(* adopt_own: the record under our own id, made if it is missing, signed if it is not,
   replaced if its signature does not verify. *)
AdoptOwn(d, rs, id) ==
    LET mine == WithId(rs, id, d)
        made == Signed(Record(id, d, 1, 0, NoSig, TRUE), 0)
        one == CHOOSE r \in mine : TRUE
    IN CASE mine = {} \/ (mine # {} /\ one.sig # NoSig /\ ~VerifyRecord(one)) ->
              (rs \ mine) \cup {made}
         [] mine # {} /\ one.sig = NoSig -> (rs \ mine) \cup {[CountersignOwn(one) EXCEPT !.att = TRUE]}
         [] OTHER -> (rs \ mine) \cup {[one EXCEPT !.att = TRUE]}

Barred(d, n) == n \in rev[d]

(* merge_snapshot: the server's list, grafted with what we held, plus the members only
   the account's own half knows. *)
MergeSnapshot(fresh, held) ==
    LET twinned(f) == LET h == OfNode(held, f.node) IN
                      IF h = {} \/ \E g \in OfNode(fresh, f.node) : g.id < f.id THEN f
                      ELSE Graft(f, CHOOSE r \in h : \A q \in h : r.seq >= q.seq)
        kept == {AsLearned(r) : r \in {h \in held : OfNode(fresh, h.node) = {} /\ Shareable(h)}}
    IN {twinned(f) : f \in fresh} \cup kept

(* absorb, records: signed and attested, not ours, not barred; a newer seq wins. *)
AbsorbRecords(d, rs, roster) ==
    LET good == {r \in roster : r.node # d /\ r.node \notin rev'[d] /\ Shareable(r)}
        new == {AsLearned(r) : r \in {g \in good : OfNode(rs, g.node) = {}}}
        news(h) == {g \in good : g.node = h.node /\ h.seq # 0 /\ g.seq > h.seq}
    IN new \cup {IF news(h) = {} THEN h ELSE CarryOver(h, CHOOSE g \in news(h) : \A q \in news(h) : g.seq >= q.seq) : h \in rs}

(* strike_off: the tombstone is kept and every record of the node goes. *)
StrikeOff(rs, n) == {r \in rs : r.node # n}

(* The gestures and faults a scenario allows, at most sc.budget of them in a behaviour. *)
Spend(act) == act \in sc.acts /\ used < sc.budget /\ used' = used + 1

(* directory::save stamps the file; save_unrefreshed keeps the stamp it had. *)
Save(d) == disk' = [disk EXCEPT ![d] = [dir |-> dir'[d], rev |-> rev'[d], at |-> now]]
SaveUnrefreshed(d) == disk' = [disk EXCEPT ![d] = [dir |-> dir'[d], rev |-> rev'[d], at |-> disk[d].at]]

(***************************************************************************)
(* The server.                                                             *)
(***************************************************************************)
Broadcast(q, except, m) ==
    [d \in Node |-> IF conn[d] # 0 /\ d # except THEN Append(q[d], m) ELSE q[d]]
Added(r) == [kind |-> "record", rec |-> r]
Removed(id) == [kind |-> "removed", id |-> id]
Entry(id) == CHOOSE r \in ents : r.id = id
Known(id) == \E r \in ents : r.id = id
PutEntry(r) == ents' = {x \in ents : x.id # r.id} \cup {r}

(* login, finish_login, open_session: enrol under a new id and rekey our own record. *)
Login(d) ==
    /\ sc.server /\ ~logged[d] /\ ~left[d] /\ d \in sc.who /\ nextId <= sc.ids
    /\ sc.again \/ OfNode(ents, d) = {}
    /\ LET r == Record(nextId, d, 1, 0, NoSig, FALSE) IN
         /\ ents' = ents \cup {r}
         /\ queue' = Broadcast(queue, d, Added(r))
    /\ logged' = [logged EXCEPT ![d] = TRUE]
    /\ own' = [own EXCEPT ![d] = nextId]
    /\ dir' = [dir EXCEPT ![d] = {r \in @ : r.id # own[d] \/ r.node # d}
                                   \cup {[r EXCEPT !.id = nextId] : r \in WithId(@, own[d], d)}]
    /\ nextId' = nextId + 1
    /\ UNCHANGED <<sc, rev, sess, left, disk, conn, cmds, toStrike, mail, now, nextName, used>>

(* connect_and_serve, first half: authenticate, then publish our attestation.  A device
   the server no longer knows closes its session for good. *)
Authenticate(d) ==
    /\ logged[d] /\ sess[d] = "down" /\ Known(own[d])
    /\ conn' = [conn EXCEPT ![d] = own[d]]
    /\ LET r == [Entry(own[d]) EXCEPT !.att = TRUE] IN
         /\ PutEntry(r)
         /\ queue' = [Broadcast(queue, d, Added(r)) EXCEPT ![d] = <<>>]
    /\ sess' = [sess EXCEPT ![d] = "auth"]
    /\ cmds' = [cmds EXCEPT ![d] = <<>>]
    /\ UNCHANGED <<sc, dir, rev, own, logged, left, disk, toStrike, mail, now, nextId, nextName, used>>

(* forget: the account's own half survives a session, re-keyed to the node ids. *)
Forgotten(d) == AdoptOwn(d, {AsLearned(r) : r \in {x \in dir[d] : Shareable(x)}}, 0)
Forget(d) ==
    /\ logged' = [logged EXCEPT ![d] = FALSE]
    /\ own' = [own EXCEPT ![d] = 0]
    /\ dir' = [dir EXCEPT ![d] = Forgotten(d)]
    /\ sess' = [sess EXCEPT ![d] = "down"]
    /\ conn' = [conn EXCEPT ![d] = 0]
    /\ queue' = [queue EXCEPT ![d] = <<>>]
    /\ cmds' = [cmds EXCEPT ![d] = <<>>]

(* Outcome::Fatal: authentication refused, or the close frame DEVICE_REVOKED. *)
Fatal(d) ==
    /\ logged[d] /\ sess[d] # "auth"
    /\ IF sess[d] = "down" THEN ~Known(own[d]) ELSE conn[d] = 0
    /\ Forget(d)
    /\ UNCHANGED <<rev, sc, left, ents, toStrike, mail, now, nextId, nextName, used>>
    /\ SaveUnrefreshed(d)

Logout(d) ==
    /\ logged[d] /\ Spend("logout")
    /\ Forget(d)
    /\ UNCHANGED <<rev, sc, left, ents, toStrike, mail, now, nextId, nextName>>
    /\ SaveUnrefreshed(d)

(* connect_and_serve, second half: the snapshot; events read meanwhile come after it. *)
Snapshot(d) ==
    /\ sess[d] = "auth"
    /\ IF conn[d] = 0
       THEN /\ sess' = [sess EXCEPT ![d] = "down"]      \* the connection died under the setup
            /\ queue' = [queue EXCEPT ![d] = <<>>]
            /\ UNCHANGED <<dir, rev, disk>>
       ELSE /\ dir' = [dir EXCEPT ![d] =
                         AdoptOwn(d, MergeSnapshot({r \in ents : ~Barred(d, r.node)}, @), own[d])]
            /\ sess' = [sess EXCEPT ![d] = "listed"]
            /\ UNCHANGED <<rev, queue>>
            /\ Save(d)
    /\ UNCHANGED <<sc, own, logged, left, ents, conn, cmds, toStrike, mail, now, nextId, nextName, used>>

(* presence.update with the signed description: the server keeps it as it is. *)
Publish(d, r) ==
    LET e == [Entry(conn[d]) EXCEPT !.seq = r.seq, !.sig = r.sig] IN
    /\ PutEntry(e)
    /\ queue' = Broadcast(queue, d, Added(e))

PublishOwn(d) ==
    /\ sess[d] = "listed" /\ conn[d] # 0
    /\ IF \E r \in OwnRec(d) : VerifyRecord(r)
       THEN Publish(d, CHOOSE r \in OwnRec(d) : TRUE)
       ELSE UNCHANGED <<ents, queue>>
    /\ sess' = [sess EXCEPT ![d] = "up"]
    /\ UNCHANGED <<sc, dir, rev, own, logged, left, disk, conn, cmds, toStrike, mail, now, nextId, nextName, used>>

(* A command of the session task reaches the server: a description, a rename of any
   device of the account, a revocation. *)
ServeCmd(d) ==
    /\ sess[d] = "up" /\ conn[d] # 0 /\ cmds[d] # <<>>
    /\ LET c == Head(cmds[d]) IN
       CASE c.kind = "presence" ->
              /\ Publish(d, c.rec)
              /\ UNCHANGED <<conn, toStrike>>
         [] c.kind = "rename" /\ Known(c.id) ->
              LET e == IF Entry(c.id).name = c.name THEN Entry(c.id)
                       ELSE [Entry(c.id) EXCEPT !.name = c.name, !.seq = 0, !.sig = NoSig]
              IN /\ PutEntry(e)
                 /\ queue' = [Broadcast(queue, d, Added(e)) EXCEPT ![d] = Append(queue[d], Added(e))]
                 /\ UNCHANGED <<conn, toStrike>>
         [] c.kind = "revoke" /\ Known(c.id) ->
              /\ ents' = {r \in ents : r.id # c.id}
              /\ conn' = [e \in Node |-> IF conn[e] = c.id THEN 0 ELSE conn[e]]
              /\ queue' = [e \in Node |-> IF conn[e] # 0 /\ conn[e] # c.id
                                          THEN Append(queue[e], Removed(c.id)) ELSE queue[e]]
              /\ toStrike' = [toStrike EXCEPT ![d] = @ \cup {Entry(c.id).node}]
         [] OTHER -> UNCHANGED <<ents, conn, queue, toStrike>>
    /\ cmds' = [cmds EXCEPT ![d] = Tail(@)]
    /\ UNCHANGED <<sc, dir, rev, own, logged, sess, left, disk, mail, now, nextId, nextName, used>>

(***************************************************************************)
(* apply_event: what the server says, applied to the copy we hold.         *)
(***************************************************************************)
EventIgnoredUnbarred(d, m) == ~logged[d]
EventIgnored(d, m) ==
    \/ ~logged[d]
    \/ m.kind = "record" /\ Barred(d, m.rec.node)

Twins(d, r) == {h \in dir[d] : h.node = r.node /\ h.id # r.id}
Grafted(d, r) ==
    LET held == IF Twins(d, r) # {} THEN Twins(d, r) ELSE WithId(dir[d], r.id, r.node)
    IN IF held = {} THEN r ELSE Graft(r, CHOOSE h \in held : TRUE)
ResignOursNever(d, r) == FALSE
ResignOurs(d, r) == r.node = d /\ ~VerifyRecord(Grafted(d, r))
WithEvent(d, r) ==
    (dir[d] \ (Twins(d, r) \cup WithId(dir[d], r.id, r.node)))
      \cup {IF ResignOurs(d, r) THEN CountersignOwn(Grafted(d, r)) ELSE Grafted(d, r)}

(* Our own record signed again is published under the id of the session, if it is there. *)
ApplyRecord(d, r) ==
    /\ dir' = [dir EXCEPT ![d] = WithEvent(d, r)]
    /\ LET mine == {x \in WithId(dir'[d], own[d], d) : VerifyRecord(x)} IN
       IF ResignOurs(d, r) /\ mine # {}
       THEN cmds' = [cmds EXCEPT ![d] = Append(@, [kind |-> "presence", rec |-> CHOOSE x \in mine : TRUE])]
       ELSE UNCHANGED cmds

ApplyEvent(d) ==
    /\ queue[d] # <<>> /\ sess[d] = "up"
    /\ LET m == Head(queue[d]) IN
       IF EventIgnored(d, m) THEN UNCHANGED <<dir, rev, disk, cmds>>
       ELSE /\ UNCHANGED rev
            /\ IF m.kind = "record" THEN ApplyRecord(d, m.rec)
               ELSE /\ dir' = [dir EXCEPT ![d] = {r \in @ : r.id # m.id}]
                    /\ UNCHANGED cmds
            /\ Save(d)
    /\ queue' = [queue EXCEPT ![d] = Tail(@)]
    /\ UNCHANGED <<sc, own, logged, sess, left, ents, conn, toStrike, mail, now, nextId, nextName, used>>

(***************************************************************************)
(* Gestures of the device's user.                                          *)
(***************************************************************************)
Send(d, c) == cmds' = [cmds EXCEPT ![d] = Append(@, c)]

(* devices.rename: any device of the account through the server, our own without one. *)
Rename(d) ==
    /\ ~left[d] /\ Spend("rename")
    /\ nextName' = nextName + 1
    /\ \/ /\ sc.server /\ sess[d] \in {"listed", "up"}
          /\ \E r \in dir[d] : r.id # 0 /\ Send(d, [kind |-> "rename", id |-> r.id, name |-> nextName])
          /\ UNCHANGED <<dir, rev, disk>>
       \/ /\ ~sc.server /\ OwnRec(d) # {}
          /\ LET r == CHOOSE r \in OwnRec(d) : TRUE IN
             dir' = [dir EXCEPT ![d] = (@ \ {r}) \cup {Signed([r EXCEPT !.name = nextName, !.att = TRUE], r.seq)}]
          /\ UNCHANGED <<rev, cmds>>
          /\ Save(d)
    /\ UNCHANGED <<sc, own, logged, sess, left, ents, conn, queue, toStrike, mail, now, nextId>>

(* watch_own_reach: the addresses changed, so the description is signed again. *)
OwnReach(d) ==
    /\ ~left[d] /\ Spend("reach")
    /\ \E r \in OwnRec(d) :
         /\ dir' = [dir EXCEPT ![d] = (@ \ {r}) \cup {CountersignOwn(r)}]
         /\ IF sess[d] \in {"listed", "up"} THEN Send(d, [kind |-> "presence", rec |-> CountersignOwn(r)])
            ELSE UNCHANGED cmds
    /\ UNCHANGED <<sc, rev, own, logged, sess, left, ents, conn, queue, toStrike, mail, now, nextId, nextName>>
    /\ SaveUnrefreshed(d)

(* A node struck off in memory; revoked.json and devices.json are two files, written in
   that order, and the process may stop between the two.  Nothing was re-checked with the
   server, so the directory keeps its stamp. *)
Strike(d, n) ==
    /\ rev' = [rev EXCEPT ![d] = @ \cup {n}]
    /\ dir' = [dir EXCEPT ![d] = StrikeOff(@, n)]
    /\ disk' = [disk EXCEPT ![d].rev = rev'[d], ![d].dir = dir'[d]]

(* Revoke through the server: the tombstone is made once it agreed (TombstoneAfter). *)
Revoke(d) ==
    /\ sc.server /\ sess[d] \in {"listed", "up"} /\ Spend("revoke")
    /\ \E r \in dir[d] : r.id # 0 /\ Send(d, [kind |-> "revoke", id |-> r.id])
    /\ UNCHANGED <<sc, dir, rev, own, logged, sess, left, disk, ents, conn, queue, toStrike, mail, now, nextId, nextName>>

TombstoneAfter(d) ==
    /\ \E n \in toStrike[d] :
         /\ toStrike' = [toStrike EXCEPT ![d] = @ \ {n}]
         /\ IF n # d /\ d \in sc.keyed /\ ~left[d] THEN Strike(d, n) ELSE UNCHANGED <<dir, rev, disk>>
    /\ UNCHANGED <<sc, own, logged, sess, left, ents, conn, queue, cmds, mail, now, nextId, nextName, used>>

(* revoke_locally: no server, or a record no server enrolled. *)
RevokeLocally(d) ==
    /\ ~left[d] /\ d \in sc.keyed /\ Spend("revoke")
    /\ \E r \in dir[d] : /\ r.node # d /\ (sc.server => r.id = 0)
                         /\ Strike(d, r.node)
    /\ UNCHANGED <<sc, own, logged, sess, left, ents, conn, queue, cmds, toStrike, mail, now, nextId, nextName>>

(***************************************************************************)
(* dirsync: rosters between devices.                                       *)
(***************************************************************************)
RosterOf(d) == [recs |-> {r \in dir[d] : Shareable(r)}, revs |-> rev[d]]
AccountPeers(d) == {n \in sc.who \ {d} : \E r \in dir[d] : r.node = n /\ r.att}

(* sync_with, up to the first frame. *)
Dial(d) ==
    /\ ~left[d] /\ ~\E m \in mail : m.from = d /\ m.kind = "sync"
    /\ "gossip" \in sc.acts /\ Cardinality(mail) < sc.wires
    /\ \E n \in AccountPeers(d) :
         mail' = mail \cup {[kind |-> "sync", from |-> d, to |-> n, roster |-> RosterOf(d)]}
    /\ UNCHANGED <<sc, dir, rev, own, logged, sess, left, disk, ents, conn, queue, cmds, toStrike, now, nextId, nextName, used>>

(* leave: the account's own tombstone reached us; nothing of the account is kept. *)
LeaveAccount(d) ==
    /\ left' = [left EXCEPT ![d] = TRUE]
    /\ logged' = [logged EXCEPT ![d] = FALSE]
    /\ own' = [own EXCEPT ![d] = 0]
    /\ dir' = [dir EXCEPT ![d] = {}]
    /\ rev' = [rev EXCEPT ![d] = {}]
    /\ disk' = [disk EXCEPT ![d] = [dir |-> {}, rev |-> {}, at |-> 0]]
    /\ sess' = [sess EXCEPT ![d] = "down"]
    /\ conn' = [conn EXCEPT ![d] = 0]
    /\ queue' = [queue EXCEPT ![d] = <<>>]
    /\ cmds' = [cmds EXCEPT ![d] = <<>>]

(* absorb: a verified tombstone naming us is the end; others strike first, records after. *)
Absorb(d, roster) ==
    IF left[d] THEN UNCHANGED <<dir, rev, own, logged, sess, left, disk, conn, queue, cmds>>
    ELSE IF d \in roster.revs THEN LeaveAccount(d)
    ELSE /\ rev' = [rev EXCEPT ![d] = @ \cup roster.revs]
         /\ dir' = [dir EXCEPT ![d] =
                      AbsorbRecords(d, {r \in @ : r.node \notin roster.revs \ rev[d]}, roster.recs)]
         /\ SaveUnrefreshed(d)
         /\ UNCHANGED <<own, logged, sess, left, conn, queue, cmds>>

(* The serving side: a struck-off dialer gets its tombstone and nothing else, a
   stranger nothing; a peer gets our roster, taken before theirs is absorbed. *)
RecvSync(d) ==
    /\ \E m \in mail :
         /\ m.to = d /\ m.kind = "sync"
         /\ LET reply(ro) == [kind |-> "roster", from |-> d, to |-> m.from, roster |-> ro]
                known == \E r \in dir[d] : r.node = m.from /\ r.att
            IN IF left[d] \/ (m.from \notin rev[d] /\ ~known)
               THEN /\ mail' = mail \ {m}
                    /\ UNCHANGED <<dir, rev, own, logged, sess, left, disk, conn, queue, cmds>>
               ELSE IF m.from \in rev[d]
               THEN /\ mail' = (mail \ {m}) \cup {reply([recs |-> {}, revs |-> {m.from}])}
                    /\ UNCHANGED <<dir, rev, own, logged, sess, left, disk, conn, queue, cmds>>
               ELSE /\ mail' = (mail \ {m}) \cup {reply(RosterOf(d))}
                    /\ Absorb(d, m.roster)
    /\ UNCHANGED <<sc, ents, toStrike, now, nextId, nextName, used>>

(* sync_with, the answer; or the exchange dies. *)
RecvRoster(d) ==
    /\ \E m \in mail : /\ m.to = d /\ m.kind = "roster"
                       /\ mail' = mail \ {m}
                       /\ Absorb(d, m.roster)
    /\ UNCHANGED <<sc, ents, toStrike, now, nextId, nextName, used>>

LoseExchange ==
    /\ Spend("lose") /\ \E m \in mail : mail' = mail \ {m}
    /\ UNCHANGED <<sc, dir, rev, own, logged, sess, left, disk, ents, conn, queue, cmds, toStrike, now, nextId, nextName>>

(***************************************************************************)
(* Faults: the connection drops, the core stops and starts again.          *)
(***************************************************************************)
ConnLost(d) ==
    /\ sess[d] # "down" /\ Spend("drop")
    /\ sess' = [sess EXCEPT ![d] = "down"]
    /\ conn' = [conn EXCEPT ![d] = 0]
    /\ queue' = [queue EXCEPT ![d] = <<>>]
    /\ cmds' = [cmds EXCEPT ![d] = <<>>]
    /\ UNCHANGED <<sc, dir, rev, own, logged, left, disk, ents, toStrike, mail, now, nextId, nextName>>

(* spawn: what was saved, less the barred; the cache may have expired under a server. *)
CacheTtl == 10    \* seven days: more than a behaviour's signatures push seq past the clock
Loaded(d, stored) ==
    AdoptOwn(d, IF sc.server /\ now - stored.at >= CacheTtl THEN {} ELSE {r \in stored.dir : r.node \notin stored.rev}, own[d])
Restarted(d, stored) ==
    /\ rev' = [rev EXCEPT ![d] = stored.rev]
    /\ dir' = [dir EXCEPT ![d] = Loaded(d, stored)]
    /\ disk' = [disk EXCEPT ![d] = stored]
    /\ sess' = [sess EXCEPT ![d] = "down"]
    /\ conn' = [conn EXCEPT ![d] = 0]
    /\ queue' = [queue EXCEPT ![d] = <<>>]
    /\ cmds' = [cmds EXCEPT ![d] = <<>>]
    /\ toStrike' = [toStrike EXCEPT ![d] = {}]
    /\ mail' = {m \in mail : m.to # d /\ m.from # d}
    /\ UNCHANGED <<sc, own, logged, left, ents, now, nextId, nextName>>

Restart(d) == ~left[d] /\ Spend("restart") /\ Restarted(d, disk[d])

(* The tombstone was saved and the directory not yet. *)
TornStrike(d) ==
    /\ ~left[d] /\ d \in sc.keyed /\ Spend("restart")
    /\ \E n \in Node \ {d} :
         /\ OfNode(dir[d], n) # {}
         /\ Restarted(d, [disk[d] EXCEPT !.rev = rev[d] \cup {n}])

Tick ==
    /\ Spend("tick") /\ \E by \in {1, CacheTtl} : now' = now + by
    /\ UNCHANGED <<sc, dir, rev, own, logged, sess, left, disk, ents, conn, queue, cmds, toStrike, mail, nextId, nextName>>

(***************************************************************************)
(* The account as a scenario finds it: every device attested and holding   *)
(* its own signed record.  Those of sc.up are enrolled and settled on the  *)
(* server, in the order of sc.ids; without one, they met as sc.met says.   *)
(***************************************************************************)
First(d, id) == Record(id, d, 1, 1, [name |-> 1, seq |-> 1], TRUE)
Enrolled == {First(sc.up[i], i) : i \in DOMAIN sc.up}
IdOf(d) == IF d \in Range(sc.up) THEN CHOOSE i \in DOMAIN sc.up : sc.up[i] = d ELSE 0

DirInit ==
    /\ sc \in DirScenarios
    /\ ents = Enrolled
    /\ own = [d \in Node |-> IdOf(d)]
    /\ dir = [d \in Node |-> IF own[d] # 0 THEN Enrolled
                             ELSE {First(n, 0) : n \in sc.met[d] \cup {d}}]
    /\ rev = [d \in Node |-> {}]
    /\ logged = [d \in Node |-> own[d] # 0]
    /\ sess = [d \in Node |-> IF own[d] # 0 THEN "up" ELSE "down"]
    /\ left = [d \in Node |-> FALSE]
    /\ disk = [d \in Node |-> [dir |-> dir[d], rev |-> {}, at |-> 1]]
    /\ conn = own
    /\ queue = [d \in Node |-> <<>>] /\ cmds = [d \in Node |-> <<>>]
    /\ toStrike = [d \in Node |-> {}]
    /\ mail = {}
    /\ now = 1 /\ nextId = Len(sc.up) + 1 /\ nextName = 2 /\ used = 0

DirNext ==
    \/ \E d \in Node :
         \/ Login(d) \/ Authenticate(d) \/ Fatal(d) \/ Logout(d) \/ Snapshot(d) \/ PublishOwn(d)
         \/ ServeCmd(d) \/ ApplyEvent(d) \/ Rename(d) \/ OwnReach(d) \/ Revoke(d)
         \/ TombstoneAfter(d) \/ RevokeLocally(d) \/ Dial(d) \/ RecvSync(d) \/ RecvRoster(d)
         \/ ConnLost(d) \/ Restart(d) \/ TornStrike(d)
    \/ LoseExchange \/ Tick

DirSpec == DirInit /\ [][DirNext]_dvars

(***************************************************************************)
(* Properties.                                                             *)
(***************************************************************************)
(* A tombstone is final: a device never lists a node it holds a verified revocation
   of, whatever the server's snapshot or events, a lagging peer's roster or a restart
   between the two saves bring (barred, strike_off, spawn). *)
TombstoneSticks == \A d \in Node : \A r \in dir[d] : r.node \notin rev[d]

(* Two descriptions a device signed under one seq are one description: a renamed and a
   countersigned record always order, even within one second of the clock (next_seq,
   graft_signature's floor), so no two devices hold different names for ever. *)
AllRecords == UNION {dir[d] : d \in Node} \cup ents \cup UNION {m.roster.recs : m \in mail}
              \cup UNION {disk[d].dir : d \in Node}
NoEquivocation ==
    \A r, q \in AllRecords :
        VerifyRecord(r) /\ VerifyRecord(q) /\ r.node = q.node /\ r.seq = q.seq => r.name = q.name

(* Once every session is up and nothing is in flight, every device holds the server's
   record of each connected device it has not barred, under a signature that verifies. *)
Settled == /\ \A d \in Node : logged[d] => sess[d] = "up" /\ conn[d] # 0 /\ queue[d] = <<>> /\ cmds[d] = <<>>
           /\ mail = {}
SettledAgree ==
    Settled => \A d \in Node : logged[d] => \A e \in ents :
        e.node \notin rev[d] /\ (\E x \in Node : conn[x] = e.id) =>
            \E r \in dir[d] : r.node = e.node /\ r.name = e.name /\ VerifyRecord(r)
=============================================================================
