----------------------------- MODULE InputPlane -----------------------------
(***************************************************************************)
(* The layout document the input engines of one account gossip among       *)
(* themselves (src/input/src/plane.rs and the layout rounds of             *)
(* src/input/src/session.rs): every device's signed word about its own     *)
(* monitors, and one arrangement, last writer wins.  Two devices whose     *)
(* planes differ refuse every session between them (PLANE_STALE), so what  *)
(* matters is that the planes become equal.                                *)
(*                                                                         *)
(* Data kept: sequence numbers, the key a statement is signed with, which  *)
(* list of screens or which arrangement it carries.  A signature is the    *)
(* pair of its key and its content, so `verify` compares keys, and the     *)
(* `verified` mark of an entry, which the code recomputes on every pin, is *)
(* that comparison with the pin held now.                                  *)
(***************************************************************************)
EXTENDS Integers, FiniteSets, FiniteSetsExt, Functions

CONSTANTS
  Nodes,      \* the devices of the account, numbered: the order of node ids
  Lists,      \* the screens a desk may have, positive numbers; 0 is no screen
  Spots,      \* the arrangements a human may drag, positive numbers
  MaxSeq,     \* MAX_SEQ
  Scenarios   \* what may happen in a run

VARIABLES
  desk,    \* the screens the machine really has
  life,    \* "down", "opened" (no directory yet), "member", "away" for good
  shown,   \* Engine.monitors: what the back end reported in this life
  key,     \* the device's engine key (identity.json)
  plane,   \* Engine.plane
  disk,    \* plane.json
  due,     \* the peers whose layout_due is set
  net,     \* layout messages under way, one per pair (LAYOUT_MIN_GAP)
  struck,  \* devices struck off the account
  sc       \* the scenario: what may still happen

pvars == <<desk, life, shown, key, plane, disk, due, net, struck, sc>>

NoKey == 0
NoEntry == [seq |-> 0, list |-> 0, key |-> NoKey]
NoPlacement == [seq |-> 0, by |-> 0, spots |-> 0, key |-> NoKey]
Account == (sc.settled \union sc.new) \ struck
Others(n) == Account \ {n}
Next1(seq) == Min({seq + 1, MaxSeq})

\* Plane::default
EmptyPlane == [monitors |-> [n \in Nodes |-> NoEntry],
               placement |-> NoPlacement,
               pins |-> [n \in Nodes |-> NoKey]]

(***************************************************************************)
(* The document.                                                           *)
(***************************************************************************)
\* verify: a statement holds under a key when that key signed it.
Verifies(k, statement) == k # NoKey /\ statement.key = k
Verified(p, n) == Verifies(p.pins[n], p.monitors[n])

\* Mutant: nothing breaks a tie.
OutranksBySeq(a, b) == a.seq > b.seq

\* Placement::outranks: (seq, by, sig), a signature standing for its key and
\* its content.
Outranks(a, b) ==
  \/ a.seq > b.seq
  \/ a.seq = b.seq /\ a.by > b.by
  \/ a.seq = b.seq /\ a.by = b.by /\ a.key > b.key
  \/ a.seq = b.seq /\ a.by = b.by /\ a.key = b.key /\ a.spots > b.spots

\* Plane::pin: a new key leaves what the old one signed unverified, and throws
\* out an arrangement of that author it did not sign.
Pin(p, n, k) ==
  [p EXCEPT !.pins[n] = k,
            !.placement = IF @.by = n /\ p.pins[n] # k /\ ~Verifies(k, @)
                          THEN NoPlacement ELSE @]

\* Plane::set_own: an entry under our own name that our key did not sign.
SetOwn(p, n) == [p EXCEPT !.monitors[n] = IF Verified(p, n) THEN @ ELSE NoEntry]

\* Plane::publish_monitors: nothing when the list is the one already signed.
PublishMonitors(p, n, k, list) ==
  LET q == SetOwn(p, n)
  IN  IF Verified(q, n) /\ q.monitors[n].list = list
      THEN q
      ELSE [q EXCEPT !.pins[n] = k,
                     !.monitors[n] = [seq |-> Next1(@.seq), list |-> list, key |-> k]]

\* Plane::place: the number after the arrangement held, refused at the ceiling.
Candidate(p, n, k, spots) ==
  [seq |-> Next1(p.placement.seq), by |-> n, spots |-> spots, key |-> k]
Place(p, n, k, spots) ==
  LET c == Candidate(p, n, k, spots)
      q == SetOwn(p, n)
  IN  IF Outranks(c, p.placement)
      THEN [q EXCEPT !.pins[n] = k, !.placement = c]
      ELSE q

\* Plane::absorb_monitors: our own entry is nobody else's to write; a verified
\* entry beats an unverified one, and between equals the higher number wins.
AbsorbsMonitors(p, own, n, e) ==
  LET good == Verifies(p.pins[n], e)
  IN  /\ e # NoEntry
      /\ n # own
      /\ \/ p.monitors[n] = NoEntry
         \/ good /\ ~Verified(p, n)
         \/ good = Verified(p, n) /\ e.seq > p.monitors[n].seq

\* Plane::absorb_placement: one a pinned key did not sign is declined, one of
\* an author nobody pinned is taken on faith.
AbsorbsPlacement(p, c) ==
  /\ c # NoPlacement
  /\ p.pins[c.by] # NoKey => Verifies(p.pins[c.by], c)
  /\ Outranks(c, p.placement)

\* Plane::merge: the sender's key first, then the entries, then the arrangement.
Merge(p, own, from, doc) ==
  LET q == Pin(p, from, doc.key)
  IN  [q EXCEPT
        !.monitors = [n \in Nodes |->
                        IF AbsorbsMonitors(q, own, n, doc.monitors[n])
                        THEN doc.monitors[n] ELSE q.monitors[n]],
        !.placement = IF AbsorbsPlacement(q, doc.placement)
                      THEN doc.placement ELSE @]

\* Plane::offer: our own entry and those we can vouch for.
Offer(n) ==
  [key |-> key[n],
   monitors |-> [m \in Nodes |-> IF m = n \/ Verified(plane[n], m)
                                 THEN plane[n].monitors[m] ELSE NoEntry],
   placement |-> plane[n].placement]

\* Plane::from_stored: the pins, then the document as if received.
FromStored(d) ==
  [d EXCEPT !.placement =
     IF @ = NoPlacement THEN @
     ELSE IF d.pins[@.by] # NoKey /\ ~Verifies(d.pins[@.by], @) THEN NoPlacement
     ELSE @]

\* plane_id: the signed bytes of the arrangement and of the verified entries.
PlaneId(n) ==
  LET p == plane[n]
  IN  <<[p.placement EXCEPT !.key = NoKey],
        {<<m, p.monitors[m].seq, p.monitors[m].list>> :
           m \in {x \in Nodes : Verified(p, x)}}>>

(***************************************************************************)
(* The engine.                                                             *)
(***************************************************************************)
\* persist_plane: a write that fails is logged, and the old file stays.
PersistPlane(n, p, op) ==
  \/ disk' = [disk EXCEPT ![n] = p] /\ UNCHANGED sc
  \/ /\ op \in sc.unsaved /\ sc.faults > 0
     /\ sc' = [sc EXCEPT !.faults = @ - 1]
     /\ UNCHANGED disk

\* What a change of the plane brings: saved, and every peer due a round.
Changed(n, p, op) ==
  /\ plane' = [plane EXCEPT ![n] = p]
  /\ due' = [due EXCEPT ![n] = Others(n)]
  /\ PersistPlane(n, p, op)

\* Engine::open
Open(n) ==
  /\ life[n] = "down"
  /\ life' = [life EXCEPT ![n] = "opened"]
  /\ plane' = [plane EXCEPT ![n] = FromStored(disk[n])]
  /\ shown' = [shown EXCEPT ![n] = 0]
  /\ due' = [due EXCEPT ![n] = {}]
  /\ UNCHANGED <<desk, key, disk, net, struck, sc>>

\* Engine::set_directory naming this device for the first time: set_own,
\* republish, and a round with every device found reachable.
SetDirectory(n) ==
  /\ life[n] = "opened"
  /\ life' = [life EXCEPT ![n] = "member"]
  /\ Changed(n, PublishMonitors(plane[n], n, key[n], shown[n]), "publish")
  /\ UNCHANGED <<desk, shown, key, net, struck>>

\* BackendEvent::Monitors, then republish.
Monitors(n) ==
  /\ life[n] \in {"opened", "member"}
  /\ shown[n] # desk[n]
  /\ shown' = [shown EXCEPT ![n] = desk[n]]
  /\ LET p == PublishMonitors(plane[n], n, key[n], desk[n])
     IN  IF life[n] = "member" /\ p # plane[n]
         THEN Changed(n, p, "publish")
         ELSE UNCHANGED <<plane, disk, due, sc>>
  /\ UNCHANGED <<desk, life, key, net, struck>>

\* input.place
PlaceCall(n, spots) ==
  /\ life[n] = "member"
  /\ sc.drags > 0
  /\ Outranks(Candidate(plane[n], n, key[n], spots), plane[n].placement)
  /\ plane' = [plane EXCEPT ![n] = Place(plane[n], n, key[n], spots)]
  /\ due' = [due EXCEPT ![n] = Others(n)]
  /\ \/ /\ disk' = [disk EXCEPT ![n] = plane'[n]]
        /\ sc' = [sc EXCEPT !.drags = @ - 1]
     \/ /\ "place" \in sc.unsaved /\ sc.faults > 0
        /\ sc' = [sc EXCEPT !.drags = @ - 1, !.faults = @ - 1]
        /\ UNCHANGED disk
  /\ UNCHANGED <<desk, life, shown, key, net, struck>>

\* layout_rounds, the sweep every LAYOUT_SWEEP: a minute, where a round and
\* its answers take seconds, so the sweep finds no round under way.
Sweep(n) ==
  /\ life[n] = "member"
  /\ net = {} /\ \A m \in Nodes : life[m] = "member" => due[m] = {}
  /\ due' = [due EXCEPT ![n] = Others(n)]
  /\ UNCHANGED <<desk, life, shown, key, plane, disk, net, struck, sc>>

\* layout_rounds, one peer.  The flag is cleared before the peer is looked up,
\* so a round with a peer that is not reachable is a round that is lost.
LayoutRound(n, m) ==
  /\ life[n] = "member"
  /\ m \in due[n]
  /\ ~\E x \in net : x.from = n /\ x.to = m
  /\ due' = [due EXCEPT ![n] = @ \ {m}]
  /\ \/ net' = net \union {[from |-> n, to |-> m, doc |-> Offer(n)]} /\ UNCHANGED sc
     \/ sc.losses > 0 /\ sc' = [sc EXCEPT !.losses = @ - 1] /\ UNCHANGED net
  /\ UNCHANGED <<desk, life, shown, key, plane, disk, struck>>

\* on_peer_message
OnPeerMessage(msg) ==
  LET n == msg.to
      p == Merge(plane[n], n, msg.from, msg.doc)
  IN  /\ msg \in net
      /\ net' = net \ {msg}
      /\ IF life[n] = "member" /\ msg.from \notin struck /\ p # plane[n]
         THEN Changed(n, p, "merge")
         ELSE UNCHANGED <<plane, disk, due, sc>>
      /\ UNCHANGED <<desk, life, shown, key, struck>>

\* on_channel_closed with DEVICE_REVOKED
Revoked(n, c) ==
  /\ life[n] = "member"
  /\ c \in struck
  /\ plane[n].monitors[c] # NoEntry \/ plane[n].pins[c] # NoKey
  /\ LET p == [plane[n] EXCEPT !.monitors[c] = NoEntry, !.pins[c] = NoKey]
     IN  plane' = [plane EXCEPT ![n] = p] /\ PersistPlane(n, p, "revoke")
  /\ due' = [due EXCEPT ![n] = @ \ {c}]
  /\ UNCHANGED <<desk, life, shown, key, net, struck>>

(***************************************************************************)
(* What happens to the devices.                                            *)
(***************************************************************************)
\* A screen is plugged in or taken away.
Replug(n, list) ==
  /\ sc.changes > 0
  /\ life[n] = "member" /\ list # desk[n]
  /\ desk' = [desk EXCEPT ![n] = list]
  /\ sc' = [sc EXCEPT !.changes = @ - 1]
  /\ UNCHANGED <<life, shown, key, plane, disk, due, net, struck>>

\* The engine stops, and with it what it had not saved; what happens to the
\* files before it runs again; or the device leaves for good.
Stop(n, how) ==
  /\ life[n] = "member"
  /\ sc.stops > 0 /\ how \in sc.how
  /\ life' = [life EXCEPT ![n] = IF how \in {"away", "struck"} THEN "away" ELSE "down"]
  /\ key' = [key EXCEPT ![n] = IF how \in {"reinstalled", "keylost"} THEN @ + 1 ELSE @]
  /\ disk' = [disk EXCEPT ![n] = IF how \in {"reinstalled", "garbled"}
                                 THEN EmptyPlane ELSE @]
  /\ struck' = IF how = "struck" THEN struck \union {n} ELSE struck
  /\ sc' = [sc EXCEPT !.stops = @ - 1]
  /\ UNCHANGED <<desk, shown, plane, due, net>>

(***************************************************************************)
(* A scenario starts with some devices settled (each published an empty    *)
(* list, then its screens, and all of them met), of which some may be      *)
(* switched off, and with some new to the account.                         *)
(***************************************************************************)
Settled(known) ==
  [monitors |-> [n \in Nodes |-> IF n \in known
                                 THEN [seq |-> 2, list |-> 1, key |-> 1] ELSE NoEntry],
   placement |-> NoPlacement,
   pins |-> [n \in Nodes |-> IF n \in known THEN 1 ELSE NoKey]]

\* The identity a device generates at its first start.
FirstKey == 1

Init ==
  /\ sc \in Scenarios
  /\ desk = [n \in Nodes |-> 1]
  /\ key = [n \in Nodes |-> FirstKey]
  /\ plane = [n \in Nodes |-> IF n \in sc.settled THEN Settled(sc.settled) ELSE EmptyPlane]
  /\ disk = plane
  /\ life = [n \in Nodes |-> IF n \in sc.settled \ sc.gone THEN "member"
                             ELSE IF n \in sc.new THEN "down" ELSE "away"]
  /\ shown = [n \in Nodes |-> IF n \in sc.settled THEN 1 ELSE 0]
  /\ due = [n \in Nodes |-> {}]
  /\ net = {}
  /\ struck = {}

Next ==
  \/ \E n \in Nodes : \/ Open(n) \/ SetDirectory(n) \/ Monitors(n) \/ Sweep(n)
                      \/ \E s \in Spots : PlaceCall(n, s)
                      \/ \E l \in Lists : Replug(n, l)
                      \/ \E how \in sc.how : Stop(n, how)
                      \/ \E m \in Nodes \ {n} : LayoutRound(n, m) \/ Revoked(n, m)
  \/ \E msg \in net : OnPeerMessage(msg)

Arrives(n, m) == \E x \in net : x.from = n /\ x.to = m /\ OnPeerMessage(x)

\* The supervisor restarts the engine, the Core feeds it its directory, the
\* back end reports its screens, the ticker runs the rounds, and a message
\* that is not lost arrives.  A sweep waits for the rounds under way, so it is
\* enabled again and again rather than for good: the timer that starts it
\* elapses all the same.
Fairness ==
  /\ \A n \in Nodes :
       /\ WF_pvars(Open(n)) /\ WF_pvars(SetDirectory(n))
       /\ WF_pvars(Monitors(n)) /\ SF_pvars(Sweep(n))
       /\ \A m \in Nodes \ {n} :
            /\ WF_pvars(LayoutRound(n, m)) /\ WF_pvars(Revoked(n, m))
            /\ WF_pvars(Arrives(n, m))

Spec == Init /\ [][Next]_pvars /\ Fairness

(***************************************************************************)
(* Properties.                                                             *)
(***************************************************************************)
\* Whatever order the rounds, drags, screen changes, lost messages, restarts
\* and reinstallations come in, the devices that are running end up holding
\* one plane: sessions are not refused PLANE_STALE for ever.  The rounds of
\* session.rs and the merge of plane.rs have nothing else to repair them.
OnePlane ==
  \A a, b \in Nodes : life[a] = "member" /\ life[b] = "member" => PlaneId(a) = PlaneId(b)
PlanesConverge == <>[]OnePlane
=============================================================================
