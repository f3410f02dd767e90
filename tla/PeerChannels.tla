----------------------------- MODULE PeerChannels ---------------------------
(***************************************************************************)
(* The Core's channels to one peer device for one role.  A component opens *)
(* one: the Core dials, parks the stream behind a token, and pipes when    *)
(* the component attaches.  A peer opens one: the Core offers a token to   *)
(* every candidate, the first to attach wins.  Between the authorisation   *)
(* and the pipe a logout, a revocation, another channel or the owner's end *)
(* may come.                                                               *)
(***************************************************************************)
EXTENDS Naturals, FiniteSets, Sequences, SequencesExt

CONSTANTS Components,     \* the connections that hold the role and the scope
          Dialled,        \* channels opened here
          Joins,          \* channels opened by the peer
          MaxCuts,        \* mass cuts
          ChannelActs     \* which of "revoke", "die", "cutall", "end" may happen

Attempts == Dialled \cup Joins
NoComp == 0
NoCut == "none"

VARIABLES
    reg,      \* PeerChannels: era, live (the attempt holding the pair, 0 if none), known (connected components)
    trusted,  \* the device is in the directory, attested
    at,       \* at[x]: an attempt up to its pipe
    pipe,     \* pipe[x]: st, owner, cut
    told      \* <<x, c>>: component c heard peer.channel_closed for x

pvars == <<reg, trusted, at, pipe, told>>

NewAttempt == [st |-> "idle", owner |-> NoComp, era |-> 0, tokens |-> {}, attaching |-> {}, buf |-> <<>>, dropped |-> {}]
NoPipe == [st |-> "none", owner |-> NoComp, cut |-> NoCut]

(* Cut::fire: the first reason stands. *)
Fired(p, why) == IF p.st \in {"reg", "live"} /\ p.cut = NoCut THEN [p EXCEPT !.cut = why] ELSE p
FireLive(why) == [x \in Attempts |-> IF x = reg.live THEN Fired(pipe[x], why) ELSE pipe[x]]

(***************************************************************************)
(* Opening.                                                                *)
(***************************************************************************)
(* open: the channel that holds the pair is cut before the dial. *)
OpenChannel(x, c) ==
    /\ x \in Dialled /\ at[x].st = "idle" /\ trusted /\ c \in reg.known
    /\ pipe' = FireLive("replaced")
    /\ at' = [at EXCEPT ![x].st = "dial", ![x].owner = c, ![x].era = reg.era]
    /\ UNCHANGED <<reg, trusted, told>>
(* handshake, then the stream parked behind a token. *)
Park(x) ==
    /\ x \in Dialled /\ at[x].st = "dial"
    /\ \/ at' = [at EXCEPT ![x].st = "parked", ![x].tokens = {at[x].owner}]
       \/ at' = [at EXCEPT ![x].st = "over"]
    /\ UNCHANGED <<reg, trusted, pipe, told>>

(***************************************************************************)
(* Joining.                                                                *)
(***************************************************************************)
(* recv: a token for every candidate. *)
Offer(x) ==
    /\ x \in Joins /\ at[x].st = "idle" /\ trusted
    /\ at' = [at EXCEPT ![x].st = IF reg.known = {} THEN "over" ELSE "offered", ![x].era = reg.era, ![x].tokens = reg.known]
    /\ UNCHANGED <<reg, trusted, pipe, told>>

(* datachannel::run: the token is consumed, and only then are the halves handed on. *)
Attach(x, c) ==
    /\ c \in at[x].tokens
    /\ at' = [at EXCEPT ![x].tokens = @ \ {c}, ![x].attaching = @ \cup {c}]
    /\ UNCHANGED <<reg, trusted, pipe, told>>
(* hand_over: the handler's channel takes one; full or closed, the candidate is told. *)
Listening(x) == at[x].st \in {"offered", "reaped", "answering"}
HandOver(x, c) ==
    /\ x \in Joins /\ c \in at[x].attaching
    /\ IF Listening(x) /\ at[x].buf = <<>>
       THEN at' = [at EXCEPT ![x].attaching = @ \ {c}, ![x].buf = <<c>>] /\ UNCHANGED told
       ELSE at' = [at EXCEPT ![x].attaching = @ \ {c}] /\ told' = told \cup {<<x, c>>}
    /\ UNCHANGED <<reg, trusted, pipe>>
(* arrivals.recv, or ATTACH_GRACE, or no candidate left to come. *)
Arrival(x) ==
    /\ at[x].st = "offered"
    /\ \/ at[x].buf # <<>> /\ at' = [at EXCEPT ![x].st = "reaped", ![x].owner = Head(at[x].buf), ![x].buf = <<>>]
       \/ at' = [at EXCEPT ![x].st = "reaped"]
    /\ UNCHANGED <<reg, trusted, pipe, told>>
(* The siblings' tokens are taken back. *)
Reclaim(x) ==
    /\ at[x].st = "reaped"
    /\ at' = [at EXCEPT ![x].st = "answering", ![x].tokens = {}]
    /\ UNCHANGED <<reg, trusted, pipe, told>>
(* The end of recv: nobody came (a straggler is told), or the acceptance goes out, or
   it does not; the handler's channel goes with what it still holds. *)
Answer(x) ==
    /\ at[x].st = "answering"
    /\ LET left == ToSet(at[x].buf) IN
       IF at[x].owner = NoComp
       THEN /\ at' = [at EXCEPT ![x].st = "over", ![x].buf = <<>>]
            /\ told' = told \cup {<<x, c>> : c \in left} /\ UNCHANGED pipe
       ELSE \/ /\ at' = [at EXCEPT ![x].st = "over", ![x].buf = <<>>, ![x].dropped = left]
               /\ pipe' = [pipe EXCEPT ![x] = [st |-> "born", owner |-> at[x].owner, cut |-> NoCut]]
               /\ UNCHANGED told
            \/ /\ at' = [at EXCEPT ![x].st = "over", ![x].buf = <<>>, ![x].dropped = left]
               /\ told' = told \cup {<<x, at[x].owner>>} /\ UNCHANGED pipe
    /\ UNCHANGED <<reg, trusted>>

(***************************************************************************)
(* The pipe.                                                               *)
(***************************************************************************)
(* serve_opened. *)
ServeOpened(x) ==
    /\ x \in Dialled /\ at[x].attaching # {}
    /\ at' = [at EXCEPT ![x].st = "over", ![x].attaching = {}]
    /\ pipe' = [pipe EXCEPT ![x] = [st |-> "born", owner |-> at[x].owner, cut |-> NoCut]]
    /\ UNCHANGED <<reg, trusted, told>>

(* pipe, its first half: an owner that is gone needs no word; the era is checked and the
   channel registered under one lock, which cuts the one it replaces. *)
EraIgnored(x) == TRUE
EraHolds(x) == at[x].era = reg.era
Register(x) ==
    /\ pipe[x].st = "born"
    /\ IF pipe[x].owner \notin reg.known
       THEN pipe' = [pipe EXCEPT ![x].st = "ended"] /\ UNCHANGED <<reg, told>>
       ELSE IF EraHolds(x)
       THEN /\ pipe' = [FireLive("replaced") EXCEPT ![x].st = "reg"]
            /\ reg' = [reg EXCEPT !.live = x] /\ UNCHANGED told
       ELSE /\ pipe' = [pipe EXCEPT ![x].st = "ended"]
            /\ told' = told \cup {<<x, pipe[x].owner>>} /\ UNCHANGED reg
    /\ UNCHANGED <<trusted, at>>
(* unregister: only the one that still holds the pair leaves it free. *)
UnregisteredAnyway(x) == 0
Unregistered(x) == IF reg.live = x THEN 0 ELSE reg.live
End(x, heard) ==
    /\ pipe' = [pipe EXCEPT ![x].st = "ended"]
    /\ reg' = [reg EXCEPT !.live = Unregistered(x)]
    /\ told' = IF heard THEN told \cup {<<x, pipe[x].owner>>} ELSE told
(* Then the trust in the peer, after the registration. *)
Begin(x) ==
    /\ pipe[x].st = "reg"
    /\ IF trusted THEN pipe' = [pipe EXCEPT ![x].st = "live"] /\ UNCHANGED <<reg, told>>
       ELSE End(x, TRUE)
    /\ UNCHANGED <<trusted, at>>
(* The vigil: the cut order, the trust poll, the owner's poll; or an end that closes. *)
Vigil(x) ==
    /\ pipe[x].st = "live" /\ (pipe[x].cut # NoCut \/ ~trusted \/ pipe[x].owner \notin reg.known)
    /\ End(x, TRUE)
    /\ UNCHANGED <<trusted, at>>
PeerEnds(x) ==
    /\ "end" \in ChannelActs /\ pipe[x].st = "live"
    /\ End(x, TRUE)
    /\ UNCHANGED <<trusted, at>>

(***************************************************************************)
(* What else happens.                                                      *)
(***************************************************************************)
(* cut_all: logout, leaving the account, the Core's stop. *)
CutAll ==
    /\ "cutall" \in ChannelActs /\ reg.era < MaxCuts
    /\ reg' = [reg EXCEPT !.era = @ + 1]
    /\ pipe' = FireLive("cut")
    /\ UNCHANGED <<trusted, at, told>>
Revoked ==
    /\ "revoke" \in ChannelActs /\ trusted
    /\ trusted' = FALSE
    /\ UNCHANGED <<reg, at, pipe, told>>
(* teardown of the owner's connection takes its tokens along; ATTACH_GRACE takes the
   token of a stream nobody came for. *)
OwnerDies(c) ==
    /\ "die" \in ChannelActs /\ c \in reg.known
    /\ reg' = [reg EXCEPT !.known = @ \ {c}]
    /\ at' = [x \in Attempts |-> [at[x] EXCEPT !.tokens = @ \ {c}]]
    /\ UNCHANGED <<trusted, pipe, told>>
Sweep(x) ==
    /\ at[x].st = "parked" /\ at[x].tokens # {}
    /\ at' = [at EXCEPT ![x].tokens = {}]
    /\ UNCHANGED <<reg, trusted, pipe, told>>

PcInit == /\ reg = [era |-> 0, live |-> 0, known |-> Components] /\ trusted = TRUE
          /\ at = [x \in Attempts |-> NewAttempt] /\ pipe = [x \in Attempts |-> NoPipe] /\ told = {}
Progress(x) == \/ Arrival(x) \/ Reclaim(x) \/ Answer(x) \/ ServeOpened(x) \/ Register(x) \/ Begin(x) \/ Vigil(x)
               \/ \E c \in Components : HandOver(x, c)
PcNext == \/ \E x \in Attempts : \/ Park(x) \/ Offer(x) \/ Progress(x) \/ PeerEnds(x) \/ Sweep(x)
                                 \/ \E c \in Components : OpenChannel(x, c) \/ Attach(x, c)
          \/ CutAll \/ Revoked \/ \E c \in Components : OwnerDies(c)
PcSpec == PcInit /\ [][PcNext]_pvars /\ \A x \in Attempts : WF_pvars(Progress(x))

(***************************************************************************)
(* Properties.                                                             *)
(***************************************************************************)
(* Of the pipes that run for a device and a role, at most one has not been told to stop,
   and it is the registered one (register, supersede, unregister): a channel on its way
   out never takes its successor's place in the table with it. *)
OneChannel == \A x \in Attempts : (pipe[x].st \in {"reg", "live"} /\ pipe[x].cut = NoCut) => reg.live = x

(* No pipe authorised before a mass cut runs on after it: one that was already piping is
   told, and one still waiting for its component never starts (cut_all, pipe). *)
NoStraddler == \A x \in Attempts :
    (pipe[x].st \in {"reg", "live"} /\ at[x].era < reg.era) => pipe[x].cut # NoCut

(* Once a device is struck off every pipe to it ends (still_attested before and during
   the pipe). *)
RevocationEnds == \A x \in Attempts : (~trusted /\ pipe[x].st # "none") ~> (pipe[x].st = "ended")

(* A candidate that attached to an offer another one took is told (hand_over, recv). *)
LosersTold == \A x \in Joins : \A c \in at[x].dropped : <<x, c>> \in told
=============================================================================
