--------------------------------- MODULE Ipc --------------------------------
(***************************************************************************)
(* The Core's socket: its registry of connections, the client library at   *)
(* the other end, the facade that relays an interface's request to the     *)
(* backend that serves it, and the supervisor that keeps that backend      *)
(* running.  Three components: an interface (file token, may approve), a   *)
(* backend of an exclusive role, and a third party that asks for that role *)
(* without a token.  A connection's task handles one frame at a time and   *)
(* waits inside it; a queue of replies and notices stands between it and   *)
(* the writer, and nothing that finds it full waits.                       *)
(***************************************************************************)
EXTENDS Naturals, Sequences, FiniteSets, SequencesExt

CONSTANTS MaxConn,        \* connections at a time
          OutDepth,       \* OUT_QUEUE_DEPTH
          IpcScenarios    \* what may happen: see IpcInit

Conns == 1..MaxConn
Who == {"gui", "sat", "ext"}
None == 0

VARIABLES
    ip,       \* the scenario: acts, budget, asks (requests of the interface), spawned (the backend's token)
    core,     \* up, nreq (next_request_id), spawn (Registry.spawn_tokens), enrolled, ntok
    cn,       \* cn[c]: a connection's entry and the frames on their way in and out
    cl,       \* cl[w]: the client library of w: st, conn, gen, tok
    held,     \* requests the backend's application has not answered: [gen, id, ask]
    sup,      \* the supervisor of the backend: "spawn", "running" or "off"
    out,      \* out[q]: how the interface's request q stands: Unasked, Waiting, Absent, Lost, or the answer
    fwd,      \* the request each connection's task is waiting on: [ask, conn, id] or None
    cut,      \* connections of a revoked component
    spent

ivars == <<ip, core, cn, cl, held, sup, out, fwd, cut, spent>>

NoConn == [who |-> "gui", open |-> FALSE, phase |-> "none", topics |-> FALSE, pend |-> {}, q |-> <<>>, in |-> <<>>]
NoFwd == [ask |-> None, conn |-> None, id |-> None]
Unasked == 100
Waiting == 101
Absent == 102
Lost == 103
Spends(act) == act \in ip.acts /\ spent < ip.budget /\ spent' = spent + 1

Backend(c) == cn[c].phase = "active" /\ cn[c].who # "gui"
(* exclusive_role_taken. *)
RoleTaken == \E c \in Conns : Backend(c)

(***************************************************************************)
(* The Core's side.                                                        *)
(***************************************************************************)
(* A frame queued with try_send: what finds the queue full is dropped. *)
Queued(n, m) == IF Len(n.q) < OutDepth THEN [n EXCEPT !.q = Append(@, m)] ELSE n
(* feed: a REPLY that finds it full ends the connection. *)
Replied(n, m) == IF Len(n.q) < OutDepth THEN [n EXCEPT !.q = Append(@, m)] ELSE [n EXCEPT !.open = FALSE]
Msg(k) == [k |-> k, id |-> None, ask |-> None]
AskMsg(k, id, q) == [k |-> k, id |-> id, ask |-> q]

Feedable(c, k) == /\ cn[c].open /\ cn[c].in # <<>> /\ Head(cn[c].in).k = k /\ fwd[c] = NoFwd
                  /\ cn[c].phase \in {"fresh", "pending", "active"}
Taken(c) == [cn EXCEPT ![c].in = Tail(@)]
Settle(c, m) == cn' = [Taken(c) EXCEPT ![c] = Replied(@, m)]

(* hello: the token is checked, then the role, and only an accepted hello uses the
   spawn token up. *)
TokenGood(c) == LET w == cn[c].who IN
    CASE w = "gui" -> TRUE
      [] w = "sat" -> ~ip.spawned \/ cl[w].tok \in core.spawn
      [] w = "ext" -> cl[w].tok # None /\ cl[w].tok \in core.enrolled
HelloAccepted(c) == TokenGood(c) /\ (cn[c].who = "gui" \/ ~RoleTaken)
SpawnUsedEarly(c) == IF TokenGood(c) THEN core.spawn \ {cl[cn[c].who].tok} ELSE core.spawn
SpawnUsed(c) == IF HelloAccepted(c) THEN core.spawn \ {cl[cn[c].who].tok} ELSE core.spawn

Hello(c) ==
    /\ Feedable(c, "hello") /\ cn[c].phase = "fresh"
    /\ IF cn[c].who = "ext" /\ cl["ext"].tok = None
       THEN cn' = [Taken(c) EXCEPT ![c] = Replied([@ EXCEPT !.phase = "pending"], Msg("wait"))]
       ELSE IF HelloAccepted(c)
       THEN cn' = [Taken(c) EXCEPT ![c] = Replied([@ EXCEPT !.phase = "active"], Msg("ok"))]
       ELSE Settle(c, Msg("refused"))
    /\ core' = [core EXCEPT !.spawn = SpawnUsed(c)]
    /\ UNCHANGED <<ip, cl, held, sup, out, fwd, cut, spent>>

(* events_subscribe. *)
Subscribe(c) ==
    /\ Feedable(c, "sub") /\ cn[c].phase = "active"
    /\ cn' = [Taken(c) EXCEPT ![c] = Replied([@ EXCEPT !.topics = TRUE], Msg("subbed"))]
    /\ UNCHANGED <<ip, core, cl, held, sup, out, fwd, cut, spent>>

(* facade_forward and issue_request: the backend of the role, any but the asker. *)
Forward(c) ==
    /\ Feedable(c, "ask")
    /\ LET q == Head(cn[c].in).ask
           targets == {b \in Conns : Backend(b) /\ cn[b].who # cn[c].who}
           id == core.nreq + 1
       IN \/ \E b \in targets :
               /\ Len(cn[b].q) < OutDepth
               /\ cn' = [Taken(c) EXCEPT ![b].q = Append(@, AskMsg("request", id, q)), ![b].pend = @ \cup {id}]
               /\ fwd' = [fwd EXCEPT ![c] = [ask |-> q, conn |-> b, id |-> id]]
               /\ core' = [core EXCEPT !.nreq = id]
          \/ /\ \A b \in targets : Len(cn[b].q) >= OutDepth
             /\ Settle(c, AskMsg("absent", q, Absent))
             /\ core' = [core EXCEPT !.nreq = IF targets = {} THEN @ ELSE id]
             /\ UNCHANGED fwd
    /\ UNCHANGED <<ip, cl, held, sup, out, cut, spent>>

(* deliver_response: the waiter of that id, on that connection. *)
Waiters(b, id) == {c \in Conns : fwd[c].conn = b /\ fwd[c].id = id}
Deliver(b) ==
    /\ Feedable(b, "answer")
    /\ LET m == Head(cn[b].in)
           hit == m.id \in cn[b].pend
           ws == IF hit THEN Waiters(b, m.id) ELSE {}
       IN /\ cn' = [c \in Conns |-> IF c \in ws THEN Replied(cn[c], AskMsg("result", fwd[c].ask, m.ask))
                                    ELSE IF c = b THEN [Taken(b)[b] EXCEPT !.pend = @ \ {m.id}] ELSE cn[c]]
          /\ fwd' = [c \in Conns |-> IF c \in ws THEN NoFwd ELSE fwd[c]]
    /\ UNCHANGED <<ip, core, cl, held, sup, out, cut, spent>>

(* FACADE_FORWARD_TIMEOUT, cancel_request. *)
ForwardTimeout(c) ==
    /\ fwd[c] # NoFwd /\ Spends("slow")
    /\ cn' = [cn EXCEPT ![fwd[c].conn].pend = @ \ {fwd[c].id}, ![c] = Replied(@, AskMsg("absent", fwd[c].ask, Absent))]
    /\ fwd' = [fwd EXCEPT ![c] = NoFwd]
    /\ UNCHANGED <<ip, core, cl, held, sup, out, cut>>

(* components_approve, components_deny, components_revoke. *)
Pending == {p \in Conns : cn[p].phase = "pending" /\ cn[p].open}
Approve(c) ==
    /\ Feedable(c, "approve")
    /\ \/ \E p \in Pending :
            /\ ~RoleTaken
            /\ core' = [core EXCEPT !.enrolled = @ \cup {core.ntok + 1}, !.ntok = @ + 1]
            /\ cn' = [Taken(c) EXCEPT ![p] = Queued([@ EXCEPT !.phase = "active"], AskMsg("approved", core.ntok + 1, None))]
       \/ /\ Pending = {} \/ RoleTaken
          /\ cn' = Taken(c) /\ UNCHANGED core
    /\ UNCHANGED <<ip, cl, held, sup, out, fwd, cut, spent>>
Deny(c) ==
    /\ Feedable(c, "deny")
    /\ IF Pending = {} THEN cn' = Taken(c)
       ELSE \E p \in Pending : cn' = [Taken(c) EXCEPT ![p] = Queued(Queued(@, Msg("denied")), Msg("close"))]
    /\ UNCHANGED <<ip, core, cl, held, sup, out, fwd, cut, spent>>
Revoke(c) ==
    /\ Feedable(c, "revoke")
    /\ LET gone == {b \in Conns : Backend(b)} IN
       /\ cn' = [b \in Conns |-> IF b \in gone THEN Queued(cn[b], Msg("close")) ELSE Taken(c)[b]]
       /\ cut' = cut \cup gone
       /\ core' = [core EXCEPT !.enrolled = {}]
    /\ UNCHANGED <<ip, cl, held, sup, out, fwd, spent>>

(* sync_emit, notify_topic: dropped where the queue is full. *)
Emit(b) ==
    /\ Feedable(b, "emit") /\ Backend(b)
    /\ cn' = [c \in Conns |-> IF cn[c].topics /\ cn[c].phase = "active" THEN Queued(Taken(b)[c], Msg("note")) ELSE Taken(b)[c]]
    /\ UNCHANGED <<ip, core, cl, held, sup, out, fwd, cut, spent>>

(* The end of run: the loop is only left between two frames, so a task waiting on a
   forward tears down after it. *)
Teardown(c) ==
    /\ ~cn[c].open /\ cn[c].phase \in {"fresh", "pending", "active"} /\ fwd[c] = NoFwd
    /\ cn' = [b \in Conns |-> IF b = c THEN NoConn
                              ELSE IF fwd[b].conn = c THEN Replied(cn[b], AskMsg("absent", fwd[b].ask, Absent))
                              ELSE cn[b]]
    /\ cut' = cut \ {c}
    /\ fwd' = [b \in Conns |-> IF fwd[b].conn = c THEN NoFwd ELSE fwd[b]]
    /\ UNCHANGED <<ip, core, cl, held, sup, out, spent>>

(***************************************************************************)
(* The client library.                                                     *)
(***************************************************************************)
Open(w) == cl[w].conn # None /\ cn[cl[w].conn].open
Sends(w, m) == cn' = [cn EXCEPT ![cl[w].conn].in = Append(@, m)]

(* run, establish: connect and say hello.  A slot is used again once nobody refers to it. *)
Free == {c \in Conns : cn[c] = NoConn /\ \A w \in Who : cl[w].conn # c}
Dial(w) ==
    /\ core.up /\ cl[w].st = "idle" /\ Free # {}
    /\ (w = "ext" => "third" \in ip.acts)
    /\ LET c == CHOOSE c \in Free : \A d \in Free : c <= d IN
       /\ cn' = [cn EXCEPT ![c] = [NoConn EXCEPT !.who = w, !.open = TRUE, !.phase = "fresh", !.in = <<Msg("hello")>>]]
       /\ cl' = [cl EXCEPT ![w].st = "hello", ![w].conn = c]
    /\ UNCHANGED <<ip, core, held, sup, out, fwd, cut, spent>>

(* write_loop takes the next frame; the client reads it: wait_response while it
   establishes, serve afterwards.  A request that comes before the subscription is
   answered is kept for the application. *)
Up(w, gen) == [cl EXCEPT ![w].st = "up", ![w].gen = gen]
Write(c) ==
    /\ cn[c].open /\ cn[c].q # <<>>
    /\ LET m == Head(cn[c].q)
           w == cn[c].who
           sent == [cn EXCEPT ![c].q = Tail(@)]
           mine == cl[w].conn = c
           keep == UNCHANGED <<cl, held, out>>
       IN CASE m.k = "close" -> cn' = [sent EXCEPT ![c].open = FALSE] /\ keep
            [] ~mine -> cn' = sent /\ keep
            [] mine /\ m.k = "ok" /\ w # "ext" ->
                 /\ cn' = [sent EXCEPT ![c].in = Append(@, Msg("sub"))]
                 /\ cl' = [cl EXCEPT ![w].st = "sub"] /\ UNCHANGED <<held, out>>
            [] mine /\ (m.k = "subbed" \/ (m.k = "ok" /\ w = "ext")) ->
                 cn' = sent /\ cl' = Up(w, cl[w].gen + 1) /\ UNCHANGED <<held, out>>
            [] mine /\ m.k = "refused" ->
                 /\ cn' = [sent EXCEPT ![c].open = FALSE]
                 /\ cl' = [cl EXCEPT ![w].st = "idle", ![w].conn = None] /\ UNCHANGED <<held, out>>
            [] mine /\ m.k = "approved" ->
                 cn' = sent /\ cl' = [Up(w, cl[w].gen + 1) EXCEPT ![w].tok = m.id] /\ UNCHANGED <<held, out>>
            [] mine /\ m.k = "request" ->
                 /\ cn' = sent /\ UNCHANGED <<cl, out>>
                 /\ held' = held \cup {[gen |-> IF cl[w].st = "up" THEN cl[w].gen ELSE cl[w].gen + 1, id |-> m.id,
                                        ask |-> m.ask, who |-> w]}
            [] mine /\ m.k \in {"result", "absent"} ->
                 /\ cn' = sent /\ UNCHANGED <<cl, held>>
                 /\ out' = [out EXCEPT ![m.id] = m.ask]
            [] OTHER -> cn' = sent /\ keep
    /\ UNCHANGED <<ip, core, sup, fwd, cut, spent>>

(* A reader that takes nothing for WRITE_TIMEOUT, or a broken pipe. *)
WriteFails(c) ==
    /\ cn[c].open /\ cn[c].q # <<>> /\ Spends("break")
    /\ cn' = [cn EXCEPT ![c].open = FALSE]
    /\ UNCHANGED <<ip, core, cl, held, sup, out, fwd, cut>>

(* The application of a spawned backend leaves when its client reports the loss, and
   the supervisor revokes what token is left and starts another. *)
Exits == /\ sup' = IF sup = "off" THEN "off" ELSE "spawn"
         /\ core' = [core EXCEPT !.spawn = @ \ {cl["sat"].tok}]
         /\ held' = {h \in held : h.who # "sat"}
Unanswered == [q \in DOMAIN out |-> IF out[q] = Waiting THEN Lost ELSE out[q]]

(* What came during an establishment that fails goes with its Link. *)
Known(w) == {h \in held : h.who # w \/ h.gen <= cl[w].gen}

(* The link goes: an establishment that was under way is simply tried again; after
   one, the application hears of it and every pending request ends. *)
LinkLost(w) ==
    /\ cl[w].st \in {"hello", "sub", "up"} /\ ~Open(w)
    /\ LET leaves == w = "sat" /\ ip.spawned /\ cl[w].st = "up" IN
       /\ cl' = [cl EXCEPT ![w].st = IF leaves THEN "off" ELSE "idle", ![w].conn = None]
       /\ IF leaves THEN Exits ELSE held' = Known(w) /\ UNCHANGED <<sup, core>>
    /\ out' = IF w = "gui" THEN Unanswered ELSE out
    /\ UNCHANGED <<ip, cn, fwd, cut, spent>>

(* ESTABLISH_TIMEOUT. *)
EstablishTimeout(w) ==
    /\ cl[w].st \in {"hello", "sub"} /\ Open(w) /\ Spends("establish")
    /\ cn' = [cn EXCEPT ![cl[w].conn].open = FALSE]
    /\ cl' = [cl EXCEPT ![w].st = "idle", ![w].conn = None]
    /\ held' = Known(w)
    /\ UNCHANGED <<ip, core, sup, out, fwd, cut>>

(* Client::request and Client::respond: a response to a request of an earlier
   connection goes nowhere. *)
Ask(q) ==
    /\ cl["gui"].st = "up" /\ Open("gui") /\ out[q] = Unasked /\ (q > 1 => out[q - 1] # Unasked)
    /\ Sends("gui", AskMsg("ask", None, q))
    /\ out' = [out EXCEPT ![q] = Waiting]
    /\ UNCHANGED <<ip, core, cl, held, sup, fwd, cut, spent>>
AnyCurrent(h) == TRUE
Current(h) == h.gen = cl[h.who].gen
Respond(h) ==
    /\ cl[h.who].st = "up" /\ Open(h.who)
    /\ held' = held \ {h}
    /\ IF Current(h) THEN Sends(h.who, AskMsg("answer", h.id, h.ask)) ELSE UNCHANGED cn
    /\ UNCHANGED <<ip, core, cl, sup, out, fwd, cut, spent>>
(* The request timeout of the asker. *)
AskTimeout(q) ==
    /\ out[q] = Waiting /\ Spends("slow")
    /\ out' = [out EXCEPT ![q] = Lost]
    /\ UNCHANGED <<ip, core, cn, cl, held, sup, fwd, cut>>
(* The gestures of the two applications that need no answer here. *)
Gesture(w, k) ==
    /\ cl[w].st = "up" /\ Open(w) /\ Spends(k)
    /\ Sends(w, Msg(k))
    /\ UNCHANGED <<ip, core, cl, held, sup, out, fwd, cut>>

(***************************************************************************)
(* The daemon.                                                             *)
(***************************************************************************)
(* run_once: a fresh token for every start. *)
Spawn ==
    /\ core.up /\ sup = "spawn" /\ sup' = "running"
    /\ core' = [core EXCEPT !.ntok = @ + 1, !.spawn = @ \cup {core.ntok + 1}]
    /\ cl' = [cl EXCEPT !["sat"] = [st |-> "idle", conn |-> None, gen |-> 0, tok |-> core.ntok + 1]]
    /\ UNCHANGED <<ip, cn, held, out, fwd, cut, spent>>

(* The backend's process dies. *)
ChildDies ==
    /\ sup = "running" /\ cl["sat"].st # "off" /\ Spends("die")
    /\ Exits
    /\ cn' = IF Open("sat") THEN [cn EXCEPT ![cl["sat"].conn].open = FALSE] ELSE cn
    /\ cl' = [cl EXCEPT !["sat"].st = "off", !["sat"].conn = None]
    /\ UNCHANGED <<ip, out, fwd, cut>>

(* The daemon stops and starts again: system_shutdown, Supervisor::shutdown, the Core
   dropped, then a new registry whose request ids begin again. *)
CoreRestarts ==
    /\ core.up /\ Spends("restart")
    /\ core' = [up |-> TRUE, nreq |-> 0, spawn |-> {}, enrolled |-> {}, ntok |-> core.ntok]
    /\ cn' = [c \in Conns |-> NoConn]
    /\ fwd' = [c \in Conns |-> NoFwd]
    /\ IF ip.spawned
       THEN /\ sup' = "spawn" /\ cl' = [cl EXCEPT !["sat"].st = "off", !["sat"].conn = None]
            /\ held' = {h \in held : h.who # "sat"}
       ELSE UNCHANGED <<sup, cl, held>>
    /\ cut' = {}
    /\ UNCHANGED <<ip, out>>

IpcInit ==
    /\ ip \in IpcScenarios
    /\ core = [up |-> TRUE, nreq |-> 0, spawn |-> {}, enrolled |-> {}, ntok |-> 0]
    /\ cn = [c \in Conns |-> NoConn]
    /\ cl = [w \in Who |-> [st |-> IF w = "sat" /\ ip.spawned THEN "off" ELSE "idle", conn |-> None, gen |-> 0,
                            tok |-> None]]
    /\ held = {} /\ sup = (IF ip.spawned THEN "spawn" ELSE "off")
    /\ out = [q \in 1..ip.asks |-> Unasked]
    /\ fwd = [c \in Conns |-> NoFwd] /\ cut = {} /\ spent = 0

CoreStep(c) == \/ Hello(c) \/ Subscribe(c) \/ Forward(c) \/ Deliver(c) \/ Approve(c) \/ Deny(c) \/ Revoke(c) \/ Emit(c)
               \/ Teardown(c) \/ Write(c)
ClientStep(w) == Dial(w) \/ LinkLost(w)
Responds == \E h \in held : Respond(h)
IpcNext == \/ \E c \in Conns : CoreStep(c) \/ ForwardTimeout(c) \/ WriteFails(c)
           \/ \E w \in Who : ClientStep(w) \/ EstablishTimeout(w)
           \/ \E q \in DOMAIN out : Ask(q) \/ AskTimeout(q)
           \/ Responds
           \/ \E k \in {"approve", "deny", "revoke"} : Gesture("gui", k)
           \/ Gesture("sat", "emit")
           \/ Spawn \/ ChildDies \/ CoreRestarts
(* Tasks run, clients redial, the supervisor respawns, and the backend's application
   answers what it serves.  The socket takes every connection: that all slots may be in
   use is a bound of the model, hence the strong fairness of a redial. *)
Fairness ==
  /\ \A c \in Conns : WF_ivars(CoreStep(c))
  /\ \A w \in Who : WF_ivars(ClientStep(w))
  /\ SF_ivars(ClientStep("sat"))
  /\ WF_ivars(Spawn) /\ WF_ivars(Responds)
IpcSpec == IpcInit /\ [][IpcNext]_ivars /\ Fairness

(***************************************************************************)
(* Properties.                                                             *)
(***************************************************************************)
(* An interface's request is answered by the answer to THAT request (deliver_response,
   serve): not by one that comes late, over another connection, or from before the
   Core restarted and its ids began again. *)
OwnAnswers == \A q \in DOMAIN out : out[q] \in {q, Unasked, Waiting, Absent, Lost}

(* Whatever dies, breaks or restarts, in the end a backend serves the role (supervise,
   hello, run): neither a role still held by a connection being torn down nor a token
   used up locks every backend out. *)
Serving == \E c \in Conns : Backend(c) /\ cn[c].open
BackendReturns == <>[]Serving

(* Every request of the interface ends (facade_forward, teardown, serve). *)
AsksEnd == \A q \in 1..2 : (q \in DOMAIN out /\ out[q] = Waiting) ~> (out[q] # Waiting)

(* A revoked component's connection is closed (components_revoke, close_conn). *)
RevokedIsCut == \A c \in Conns : (c \in cut) ~> (c \notin cut)
=============================================================================
