-------------------------------- MODULE Reach -------------------------------
(***************************************************************************)
(* Where this device can be reached, and whom it sees on its own network.  *)
(* The endpoint is bound late, follows the addresses it is given and the   *)
(* relay it is told to use; the Core watches both, signs its own record    *)
(* again when the claim changed, and tells the interfaces when a device of *)
(* the account appears or goes.  The account may be joined or left at any  *)
(* moment, and the server session comes and goes.                          *)
(***************************************************************************)
EXTENDS Naturals, FiniteSets

CONSTANTS Addresses,     \* address sets the network may give; 0 is none
          RelayChoices,  \* "off", "url": what the configuration says
          MaxMoves       \* changes of the world

NoReach == [addrs |-> 0, hint |-> "none"]
Unclaimed == [addrs |-> 0, hint |-> "unclaimed"]

VARIABLES
    net,     \* the world: addrs, elected (the relay the endpoint elects), near (the peer is on the local network)
    ep,      \* the endpoint: st, mode (its relay mode), addrs, hint, gen, lan, lanGen
    word,    \* the relays the server announced
    wat,     \* the Core's two watchers: st, seen, and lst, lseen, prev
    wake,    \* the permit of reach_wake
    own,     \* in (the account), rec (the reach our record claims), up (a server session), srv (the claim it has)
    shown,   \* whether the interfaces show the peer as near
    moves

rvars == <<net, ep, word, wat, wake, own, shown, moves>>

Move == moves < MaxMoves /\ moves' = moves + 1

(***************************************************************************)
(* The endpoint.                                                           *)
(***************************************************************************)
(* resolve_relay: the server's word fills in for "off" and never beats the local one. *)
ResolvedHint(choice, announced) == CASE choice = "url" -> "url"
                                     [] choice = "off" /\ announced -> "elected"
                                     [] OTHER -> "none"
(* ensure: bound at first need, with the announcement as it stands; the generation moves
   even when no address does. *)
BindStarts ==
    /\ ep.st = "unbound"
    /\ ep' = [ep EXCEPT !.st = "binding", !.mode = ResolvedHint(ep.choice, word)]
    /\ UNCHANGED <<net, word, wat, wake, own, shown, moves>>
BoundSilently == ep.gen
BoundGen == ep.gen + 1
BindEnds ==
    /\ ep.st = "binding"
    /\ \/ ep' = [ep EXCEPT !.st = "bound", !.hint = IF ep.mode = "url" THEN "url" ELSE "none", !.gen = BoundGen]
          /\ UNCHANGED moves
       \/ Move /\ ep' = [ep EXCEPT !.st = "unbound"]
    /\ UNCHANGED <<net, word, wat, wake, own, shown>>
(* watch_reach, update_if_changed. *)
Claim == [addrs |-> net.addrs, hint |-> IF ep.mode = "elected" THEN net.elected ELSE ep.hint]
WatchReach ==
    /\ ep.st = "bound" /\ (ep.addrs # Claim.addrs \/ ep.hint # Claim.hint)
    /\ ep' = [ep EXCEPT !.addrs = Claim.addrs, !.hint = Claim.hint, !.gen = @ + 1]
    /\ UNCHANGED <<net, word, wat, wake, own, shown, moves>>
(* watch_lan. *)
WatchLan ==
    /\ ep.st = "bound" /\ ep.lan # net.near
    /\ ep' = [ep EXCEPT !.lan = net.near, !.lanGen = @ + 1]
    /\ UNCHANGED <<net, word, wat, wake, own, shown, moves>>
(* announce_relays. *)
Announce ==
    /\ ~word /\ own.up /\ word' = TRUE
    /\ UNCHANGED <<net, ep, wat, wake, own, shown, moves>>

(***************************************************************************)
(* The Core.                                                               *)
(***************************************************************************)
(* watch_own_reach: a change of the generation or the wake, then the claim is applied. *)
Woken ==
    /\ wat.st = "wait"
    /\ \/ ep.gen # wat.seen /\ wat' = [wat EXCEPT !.st = "apply", !.seen = ep.gen] /\ UNCHANGED wake
       \/ wake /\ wake' = FALSE /\ wat' = [wat EXCEPT !.st = "apply"]
    /\ UNCHANGED <<net, ep, word, own, shown, moves>>
(* apply_own_reach, claimed_reach: nothing to say before the bind or outside an account;
   otherwise the record is signed again, saved, and offered to the session. *)
Held == [addrs |-> ep.addrs, hint |-> ep.hint]
ApplyOwnReach ==
    /\ wat.st = "apply"
    /\ wat' = [wat EXCEPT !.st = "wait"]
    /\ own' = IF ep.st = "bound" /\ own.in /\ own.rec # Held
              THEN [own EXCEPT !.rec = Held, !.srv = IF own.up THEN Held ELSE @] ELSE own
    /\ UNCHANGED <<net, ep, word, wake, shown, moves>>
(* watch_lan_presence: what flipped since the last look is told. *)
LanLook ==
    /\ wat.lst = "look"
    /\ wat' = [wat EXCEPT !.lst = "wait", !.prev = ep.lan]
    /\ shown' = IF wat.prev # ep.lan /\ own.in THEN ep.lan ELSE shown
    /\ UNCHANGED <<net, ep, word, wake, own, moves>>
LanWoken ==
    /\ wat.lst = "wait" /\ ep.lanGen # wat.lseen
    /\ wat' = [wat EXCEPT !.lst = "look", !.lseen = ep.lanGen]
    /\ UNCHANGED <<net, ep, word, wake, own, shown, moves>>

(* The account: join_locally, adopt_own_record, leave.  Whoever lists the devices after a
   join sees them as they are. *)
JoinSilently == wake
JoinWakes == TRUE
Join ==
    /\ ~own.in /\ Move
    /\ own' = [own EXCEPT !.in = TRUE, !.rec = Unclaimed] /\ wake' = JoinWakes
    /\ shown' = ep.lan
    /\ UNCHANGED <<net, ep, word, wat>>
LeaveAccount ==
    /\ own.in /\ Move
    /\ own' = [own EXCEPT !.in = FALSE, !.rec = Unclaimed, !.up = FALSE] /\ shown' = FALSE
    /\ UNCHANGED <<net, ep, word, wat, wake>>
(* The server session: connected, it publishes the record it has, then wakes the watcher. *)
Connect ==
    /\ own.in /\ ~own.up /\ Move
    /\ own' = [own EXCEPT !.up = TRUE, !.srv = own.rec] /\ wake' = TRUE
    /\ UNCHANGED <<net, ep, word, wat, shown>>
Disconnect ==
    /\ own.up /\ Move
    /\ own' = [own EXCEPT !.up = FALSE]
    /\ UNCHANGED <<net, ep, word, wat, wake, shown>>

(* The network. *)
NetworkMoves ==
    /\ Move
    /\ net' \in {[net EXCEPT !.addrs = a] : a \in Addresses \ {net.addrs}} \cup
                {[net EXCEPT !.elected = IF @ = "none" THEN "relay" ELSE "none"], [net EXCEPT !.near = ~@]}
    /\ UNCHANGED <<ep, word, wat, wake, own, shown>>

ReachInit ==
    /\ net = [addrs |-> 0, elected |-> "none", near |-> FALSE]
    /\ \E c \in RelayChoices : ep = [st |-> "unbound", choice |-> c, mode |-> "none", addrs |-> 0, hint |-> "none",
                                     gen |-> 0, lan |-> FALSE, lanGen |-> 0]
    /\ word = FALSE
    /\ wat = [st |-> "apply", seen |-> 0, lst |-> "look", lseen |-> 0, prev |-> FALSE]
    /\ wake = FALSE /\ own = [in |-> FALSE, rec |-> Unclaimed, up |-> FALSE, srv |-> Unclaimed]
    /\ shown = FALSE /\ moves = 0
Running == BindEnds \/ WatchReach \/ WatchLan \/ Woken \/ ApplyOwnReach \/ LanLook \/ LanWoken
ReachNext == Running \/ BindStarts \/ Announce \/ Join \/ LeaveAccount \/ Connect \/ Disconnect \/ NetworkMoves
Fairness ==
  /\ WF_rvars(BindEnds) /\ WF_rvars(WatchReach) /\ WF_rvars(WatchLan)
  /\ WF_rvars(Woken) /\ WF_rvars(ApplyOwnReach)
  /\ WF_rvars(LanLook) /\ WF_rvars(LanWoken)
ReachSpec == ReachInit /\ [][ReachNext]_rvars /\ Fairness

(***************************************************************************)
(* Properties.                                                             *)
(***************************************************************************)
(* In the end the record of this device claims what the endpoint can be reached at, the
   server has that claim while a session is up: whatever was bound, joined, left or moved
   in between, and in whichever order (watch_own_reach, ensure, join_locally). *)
Settled == own.in => /\ (ep.st = "bound" => own.rec = [addrs |-> net.addrs, hint |-> Claim.hint])
                     /\ (own.up /\ ep.st = "bound" => own.srv = own.rec)
ReachSettles == <>[]Settled

(* In the end the interfaces show who is near (watch_lan_presence). *)
NearShown == <>[](own.in /\ ep.st = "bound" => shown = net.near)
=============================================================================
