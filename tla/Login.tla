------------------------------- MODULE Login --------------------------------
(***************************************************************************)
(* A core's session with its rendezvous server: the browser flows that     *)
(* open it or re-authenticate inside it, the one login slot they compete   *)
(* for, the session task, and the three ways a session ends (logout, a     *)
(* fatal answer of the server, the account left).                          *)
(***************************************************************************)
EXTENDS Naturals, FiniteSets

CONSTANTS
    MaxFlows,     \* browser flows started in a behaviour
    MaxEnds       \* sessions ended in a behaviour

Goals == {"login", "revoke"}
Flow == 1..MaxFlows

VARIABLES
    flow,      \* flow[f]: [goal, at]; at is the flow task's place, "idle" before and "done" after
    lslot,     \* AppState.login: the flow that may conclude, 0 none
    logged,    \* SessionState.logged_in
    sid,       \* own_device_id as the server labelled it: the flow that enrolled it
    file,      \* session.json: the session it names, 0 none
    token,     \* the refresh token in the secret store
    abort,     \* SessionState.session_abort: the task a logout stops
    tasks,     \* the session tasks alive, with their place: "connecting" or "serving"
    ends, asked

lvars == <<flow, lslot, logged, sid, file, token, abort, tasks, ends, asked>>

At(f, goal, at) == flow' = [flow EXCEPT ![f] = [goal |-> goal, at |-> at]]
Move(f, at) == At(f, flow[f].goal, at)
Waiting(f) == flow[f].at \in {"browser", "exchange", "enroll"}
(* A task aborted at an await is gone; one past its last await runs to its end. *)
Aborted(f) == IF f # 0 /\ Waiting(f) THEN [flow EXCEPT ![f].at = "done"] ELSE flow

(* session.login, or a revocation that needs the user again: the check is made before
   start_flow awaits the discovery document. *)
Ask(f) ==
    /\ flow[f].at = "idle" /\ f = asked + 1
    /\ \E g \in Goals : (g = "login") = ~logged /\ At(f, g, "discover")
    /\ asked' = f
    /\ UNCHANGED <<lslot, logged, sid, file, token, abort, tasks, ends>>

(* start_flow: the slot is taken over, and the flow that held it is stopped. *)
StartFlow(f) ==
    /\ flow[f].at = "discover"
    /\ \/ /\ flow' = [Aborted(lslot) EXCEPT ![f].at = "browser"]
          /\ lslot' = f
       \/ Move(f, "done") /\ UNCHANGED lslot              \* discovery unreachable
    /\ UNCHANGED <<logged, sid, file, token, abort, tasks, ends, asked>>

(* wait_callback: a code, a refusal, or the deadline; both of those give the slot back. *)
Callback(f) ==
    /\ flow[f].at = "browser"
    /\ \/ Move(f, "exchange") /\ UNCHANGED lslot
       \/ Move(f, "done") /\ lslot' = IF lslot = f THEN 0 ELSE lslot
    /\ UNCHANGED <<logged, sid, file, token, abort, tasks, ends, asked>>

(* complete: the code for tokens, then the enrolment a login needs. *)
Exchange(f) ==
    /\ flow[f].at \in {"exchange", "enroll"}
    /\ \/ Move(f, IF flow[f].goal = "login" /\ flow[f].at = "exchange" THEN "enroll" ELSE "claim")
       \/ Move(f, "done")
    /\ UNCHANGED <<lslot, logged, sid, file, token, abort, tasks, ends, asked>>

ClaimSlot(f) ==
    /\ flow[f].at = "claim"
    /\ IF lslot = f THEN lslot' = 0 /\ Move(f, "conclude") ELSE Move(f, "done") /\ UNCHANGED lslot
    /\ UNCHANGED <<logged, sid, file, token, abort, tasks, ends, asked>>

(* claim_and_stash, under the session lock: a re-authentication outlived by its session
   stores nothing. *)
MayStashAnyway == TRUE
MayStash == logged
Stash(f) ==
    /\ flow[f].at = "conclude" /\ flow[f].goal = "revoke"
    /\ IF MayStash THEN token' \in {TRUE, token} ELSE UNCHANGED token
    /\ Move(f, "done")
    /\ UNCHANGED <<lslot, logged, sid, file, abort, tasks, ends, asked>>

(* open_session: refused over an open one; else the file, the token, the state. *)
OpenSession(f) ==
    /\ flow[f].at = "conclude" /\ flow[f].goal = "login"
    /\ IF logged THEN Move(f, "done") /\ UNCHANGED <<logged, sid, file, token>>
       ELSE /\ logged' = TRUE /\ sid' = f /\ file' = f
            /\ token' \in {TRUE, token}
            /\ Move(f, "spawn")
    /\ UNCHANGED <<lslot, abort, tasks, ends, asked>>

(* start_session_task: the task runs before its handle is stored. *)
StartTask(f) ==
    /\ flow[f].at = "spawn"
    /\ tasks' = tasks \cup {[sid |-> f, at |-> "connecting"]}
    /\ abort' = f
    /\ Move(f, "done")
    /\ UNCHANGED <<lslot, logged, sid, file, token, ends, asked>>

(* connect_and_serve reached its snapshot: a session closed meanwhile stops the task. *)
Serve(t) ==
    /\ t \in tasks /\ t.at = "connecting"
    /\ tasks' = (tasks \ {t}) \cup (IF logged THEN {[t EXCEPT !.at = "serving"]} ELSE {})
    /\ UNCHANGED <<flow, lslot, logged, sid, file, token, abort, ends, asked>>

(* mark_disconnected, then the next attempt. *)
Disconnect(t) ==
    /\ t \in tasks /\ t.at = "serving"
    /\ tasks' = (tasks \ {t}) \cup {[t EXCEPT !.at = "connecting"]}
    /\ UNCHANGED <<flow, lslot, logged, sid, file, token, abort, ends, asked>>

Closed == /\ logged' = FALSE /\ sid' = 0 /\ abort' = 0
          /\ file' = 0 /\ token' = FALSE
          /\ flow' = Aborted(lslot) /\ lslot' = 0

(* session_logout, and leave on a tombstone: the task is stopped through its handle. *)
Logout ==
    /\ logged /\ ends < MaxEnds
    /\ Closed
    /\ tasks' = {t \in tasks : t.sid # abort}
    /\ ends' = ends + 1
    /\ UNCHANGED asked

(* Outcome::Fatal: drop_session closes whatever session is open, and the task ends. *)
DropSession(t) ==
    /\ t \in tasks /\ ends < MaxEnds
    /\ IF logged THEN Closed ELSE UNCHANGED <<flow, lslot, logged, sid, file, token, abort>>
    /\ tasks' = tasks \ {t}
    /\ ends' = ends + 1
    /\ UNCHANGED asked

(* fresh_id_token on invalid_grant. *)
TokenRefused ==
    /\ logged /\ token /\ token' = FALSE
    /\ UNCHANGED <<flow, lslot, logged, sid, file, abort, tasks, ends, asked>>

(* spawn: the session file is the session; its task starts at once. *)
Restart ==
    /\ ends < MaxEnds /\ ends' = ends + 1
    /\ flow' = [f \in Flow |-> IF flow[f].at = "idle" THEN flow[f] ELSE [flow[f] EXCEPT !.at = "done"]]
    /\ lslot' = 0
    /\ logged' = (file # 0) /\ sid' = file /\ abort' = file
    /\ tasks' = IF file = 0 THEN {} ELSE {[sid |-> file, at |-> "connecting"]}
    /\ UNCHANGED <<file, token, asked>>

LoginInit ==
    /\ flow = [f \in Flow |-> [goal |-> "login", at |-> "idle"]]
    /\ lslot = 0 /\ logged = FALSE /\ sid = 0 /\ file = 0 /\ token = FALSE
    /\ abort = 0 /\ tasks = {} /\ ends = 0 /\ asked = 0

LoginNext ==
    \/ \E f \in Flow : \/ Ask(f) \/ StartFlow(f) \/ Callback(f) \/ Exchange(f) \/ ClaimSlot(f)
                       \/ Stash(f) \/ OpenSession(f) \/ StartTask(f)
    \/ \E t \in tasks : Serve(t) \/ Disconnect(t) \/ DropSession(t)
    \/ Logout \/ TokenRefused \/ Restart

LoginSpec == LoginInit /\ [][LoginNext]_lvars

(* The refresh token, and the session file, live and die with a session: no flow that
   concludes late, and no end of the session, leaves either behind (claim_and_stash's
   check under the lock, open_session, session_logout, drop_session). *)
TokenHasSession == (token => logged) /\ (file # 0) = logged

(* A task that serves is the task of the session that is open. *)
ServesTheSession == \A t \in tasks : t.at = "serving" => t.sid = sid \/ ~logged
=============================================================================
