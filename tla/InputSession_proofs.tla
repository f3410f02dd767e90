------------------------- MODULE InputSession_proofs -------------------------
(***************************************************************************)
(* Proofs about InputSession, for any machines, pipes, settings and any      *)
(* number of faults: a machine has its keyboard and its pointer back when    *)
(* its session is over, and is typed on by nobody it does not allow but a    *)
(* device it has just revoked.                                             *)
(***************************************************************************)
EXTENDS InputSession, FiniteSetTheorems, WellFoundedInduction, TLAPS

-----------------------------------------------------------------------------
(* Sound is what every handler keeps of the engine it is given, and what a *)
(* turn leaves: the record has its fields, and the engine holds no more of *)
(* its desktop than its session does.                                      *)

Held == {"driving", "driven", "sent", "confined", "known"}

\* The session driven, if any, says whether its target has accepted.
Drivable(d) == d # None => 1 \in DOMAIN d /\ "accepted" \in DOMAIN d[1]

\* All but the capture, which apply_capture puts right.
Kept(s) ==
    /\ Held \subseteq DOMAIN s
    /\ Drivable(s.driving)
    /\ s.known \subseteq Nodes
    /\ s.confined => s.driving # None /\ s.driving[1].accepted
    /\ s.driving = None \/ s.driven = None

Sound(s) == Kept(s) /\ (s.sent = "swallow" => s.driving # None)

\* Two engines that hold the same of their desktops and know the same devices.
SameHold(s, r) ==
    /\ Held \subseteq DOMAIN r
    /\ r.driving = s.driving /\ r.driven = s.driven /\ r.sent = s.sent
    /\ r.confined = s.confined /\ r.known = s.known

LEMMA SameHoldSound ==
    ASSUME NEW s, NEW r, SameHold(s, r), Sound(s)
    PROVE  Sound(r)
BY DEF Sound, Kept, SameHold

LEMMA SameHoldKept ==
    ASSUME NEW s, NEW r, SameHold(s, r), Kept(s)
    PROVE  Kept(r)
BY DEF Kept, SameHold

\* Sending leaves the hold.
LEMMA SendHold ==
    ASSUME NEW s, Held \subseteq DOMAIN s, NEW m, NEW f
    PROVE  SameHold(s, Send(s, m, f))
BY DEF Send, SameHold, Held

\* apply_capture makes the capture follow the session, whatever it was.
LEMMA ApplyCaptureSound ==
    ASSUME NEW s, Kept(s)
    PROVE  Sound(ApplyCapture(s))
<1> DEFINE r == ApplyCapture(s)
<1>1. r = s \/ r = [s EXCEPT !.sent = WantCapture(s)]
  BY DEF ApplyCapture
<1>2. /\ Held \subseteq DOMAIN r /\ r.driving = s.driving /\ r.driven = s.driven
      /\ r.confined = s.confined /\ r.known = s.known
  BY <1>1 DEF Held, Kept
<1>3. r.sent = "swallow" => r.driving # None
  <2>1. SUFFICES ASSUME s.driving = None PROVE r.sent # "swallow"
    BY <1>2
  <2>2. WantCapture(s) \in {"watch", "off"}
    BY <2>1 DEF WantCapture
  <2> QED BY <2>1, <2>2 DEF ApplyCapture, WantCapture, Held, Kept
<1> QED BY <1>2, <1>3 DEF Sound, Kept

\* The session that ends takes the pin with it, and then the swallow.
LEMMA BringHomeQuietlySound ==
    ASSUME NEW s, Kept(s), s.driving = None => Sound(s)
    PROVE  /\ Sound(BringHomeQuietly(s))
           /\ BringHomeQuietly(s).driving = None
           /\ BringHomeQuietly(s).driven = s.driven
<1>1. CASE s.driving = None
  BY <1>1 DEF BringHomeQuietly
<1>2. CASE s.driving # None
  <2> DEFINE off == [s EXCEPT !.driving = None]
             free == Confine(off, FALSE)
  <2>1. /\ Held \subseteq DOMAIN off /\ off.driving = None /\ off.driven = s.driven
        /\ off.known = s.known
    BY DEF Held, Kept
  <2>2. /\ Held \subseteq DOMAIN free /\ free.driving = None /\ free.driven = s.driven
        /\ free.known = s.known /\ ~free.confined
    <3>1. CASE off.able \/ off.confined
      <4>1. free = [off EXCEPT !.confined = FALSE]
        BY <3>1 DEF Confine
      <4> HIDE DEF off, free
      <4> QED BY <2>1, <4>1 DEF Held
    <3>2. CASE ~(off.able \/ off.confined)
      <4>1. free = off
        BY <3>2 DEF Confine
      <4> HIDE DEF off, free
      <4> QED BY <2>1, <3>2, <4>1 DEF Held
    <3> QED BY <3>1, <3>2
  <2>3. BringHomeQuietly(s) = ApplyCapture(free)
    BY <1>2 DEF BringHomeQuietly
  <2> HIDE DEF off, free
  <2>4. Kept(free)
    BY <2>2 DEF Kept, Drivable
  <2>5. ApplyCapture(free).driving = None /\ ApplyCapture(free).driven = s.driven
    BY <2>2 DEF ApplyCapture, Held
  <2> QED BY <2>3, <2>4, <2>5, ApplyCaptureSound
<1> QED BY <1>1, <1>2

LEMMA BringHomeSound ==
    ASSUME NEW s, Kept(s), s.driving = None => Sound(s)
    PROVE  /\ Sound(BringHome(s)) /\ BringHome(s).driving = None
           /\ BringHome(s).driven = s.driven
<1>1. CASE s.driving = None \/ ~s.driving[1].accepted
  BY <1>1, BringHomeQuietlySound DEF BringHome
<1>2. CASE ~(s.driving = None \/ ~s.driving[1].accepted)
  <2> DEFINE r == Send(s, s.driving[1].node, Frame("stop", s.driving[1].session))
  <2>1. BringHome(s) = BringHomeQuietly(r)
    BY <1>2 DEF BringHome
  <2>2. SameHold(s, r)
    BY SendHold DEF Kept
  <2> HIDE DEF r
  <2>3. Kept(r) /\ r.driving # None /\ r.driven = s.driven
    BY <1>2, <2>2, SameHoldKept DEF SameHold
  <2> QED BY <2>1, <2>3, BringHomeQuietlySound
<1> QED BY <1>1, <1>2

LEMMA EndDrivenSound ==
    ASSUME NEW s, Sound(s), NEW tell
    PROVE  Sound(EndDriven(s, tell)) /\ EndDriven(s, tell).driving = s.driving
           /\ EndDriven(s, tell).driven = None
<1>1. CASE s.driven = None
  BY <1>1 DEF EndDriven
<1>2. CASE s.driven # None
  <2> DEFINE gone == [s EXCEPT !.driven = None]
             told == Send(gone, s.driven[1].node, Frame("end", s.driven[1].session))
             r == IF tell THEN told ELSE gone
  <2>1. EndDriven(s, tell) = ApplyCapture(r)
    BY <1>2 DEF EndDriven
  <2>2. Kept(gone) /\ gone.driven = None /\ gone.driving = s.driving
    BY DEF Kept, Sound, Held
  <2>3. SameHold(gone, told)
    <3> HIDE DEF gone
    <3> QED BY <2>2, SendHold DEF Kept
  <2>4. Kept(r) /\ r.driven = None /\ r.driving = s.driving
    <3> HIDE DEF gone, told
    <3> QED BY <2>2, <2>3, SameHoldKept DEF SameHold
  <2> HIDE DEF r
  <2>5. ApplyCapture(r).driving = s.driving /\ ApplyCapture(r).driven = None
    BY <2>4 DEF ApplyCapture, Kept, Held
  <2> QED BY <2>1, <2>4, <2>5, ApplyCaptureSound
<1> QED BY <1>1, <1>2

\* Both halves go with the channel that carried them.
LEMMA TearDownSound ==
    ASSUME NEW s, Sound(s), NEW m
    PROVE  Sound(TearDown(s, m))
<1> DEFINE cut == [s EXCEPT !.peers[m] = [Cooled(@) EXCEPT !.take = FALSE]]
           home == IF DrivesNow(cut, m) THEN BringHome(cut) ELSE cut
           done == IF DrivenBy(home, m) THEN EndDriven(home, FALSE) ELSE home
<1>1. SameHold(s, cut)
  BY DEF SameHold, Sound, Kept, Held
<1>2. TearDown(s, m) = ApplyCapture(done)
  BY DEF TearDown
<1> HIDE DEF cut
<1>3. Sound(cut)
  BY <1>1, SameHoldSound
<1>4. Sound(home)
  BY <1>3, BringHomeSound DEF Sound
<1> HIDE DEF home
<1>5. Sound(done)
  BY <1>4, EndDrivenSound
<1> QED BY <1>2, <1>5, ApplyCaptureSound DEF Sound

\* A session starts on a machine that is free, and so holds nothing yet.
LEMMA StartSessionSound ==
    ASSUME NEW s, Sound(s), NEW m
    PROVE  Sound(StartSession(s, m))
<1>1. CASE ~CanStart(s, m)
  BY <1>1 DEF StartSession
<1>2. CASE CanStart(s, m)
  <2> DEFINE k == s.peers[m].next
             sent == Send(s, m, Frame("start", k))
             d == Some([node |-> m, session |-> k, accepted |-> FALSE])
  <2>1. StartSession(s, m) = [sent EXCEPT !.peers[m].next = k + 1, !.driving = d]
    BY <1>2 DEF StartSession
  <2>2. SameHold(s, sent)
    BY SendHold DEF Sound, Kept
  <2>3. s.driving = None /\ s.driven = None /\ ~s.confined
    BY <1>2 DEF CanStart, Sound, Kept
  <2>4. d # None /\ Drivable(d)
    BY DEF Drivable, Some, None
  <2> HIDE DEF sent, d, k
  <2>5. PICK r : r = StartSession(s, m)
    OBVIOUS
  <2>6. /\ Held \subseteq DOMAIN r /\ r.driving = d /\ r.driven = None
        /\ ~r.confined /\ r.known = s.known
    BY <2>1, <2>2, <2>3, <2>5 DEF SameHold, Held
  <2> QED BY <2>4, <2>5, <2>6 DEF Sound, Kept
<1> QED BY <1>1, <1>2

-----------------------------------------------------------------------------
(* The frames of a peer. *)

LEMMA OnStartSound ==
    ASSUME NEW s, Sound(s), NEW m, NEW k, NEW stale
    PROVE  Sound(OnStart(s, m, k, stale))
<1> DEFINE no == m \notin s.allowed \/ Busy(s, m) \/ stale \/ ~s.typable \/ s.locked
<1>1. CASE no
  <2>1. OnStart(s, m, k, stale) = Send(s, m, Frame("no", k))
    BY <1>1 DEF OnStart
  <2>2. SameHold(s, Send(s, m, Frame("no", k)))
    BY SendHold DEF Sound, Kept
  <2> QED BY <2>1, <2>2, SameHoldSound
<1>2. CASE ~no
  <2> DEFINE free == EndDriven(s, FALSE)
             told == Send(free, m, Frame("ok", k))
             d == Some([node |-> m, session |-> k])
             r == [told EXCEPT !.driven = d]
  <2>1. OnStart(s, m, k, stale) = ApplyCapture(r)
    BY <1>2 DEF OnStart
  <2>2. Sound(free) /\ free.driving = None
    BY <1>2, EndDrivenSound DEF Busy
  <2> HIDE DEF free, d
  <2>3. SameHold(free, told)
    BY <2>2, SendHold DEF Sound, Kept
  <2> HIDE DEF told
  <2>4. /\ Held \subseteq DOMAIN r /\ r.driving = None /\ r.known = free.known
        /\ r.confined = free.confined
    BY <2>2, <2>3 DEF SameHold, Held
  <2> HIDE DEF r
  <2>5. Kept(r)
    BY <2>2, <2>4 DEF Sound, Kept, Drivable
  <2> QED BY <2>1, <2>5, ApplyCaptureSound
<1> QED BY <1>1, <1>2

\* The pointer is pinned in the turn that learns the session was accepted.
LEMMA OnAcceptedSound ==
    ASSUME NEW s, Sound(s), NEW m, NEW k
    PROVE  Sound(OnAccepted(s, m, k))
<1> DEFINE no == ~IsDriving(s, m, k) \/ s.driving[1].accepted
<1>1. CASE no
  BY <1>1 DEF OnAccepted
<1>2. CASE ~no
  <2> DEFINE d == [s.driving EXCEPT ![1].accepted = TRUE]
             on == [s EXCEPT !.driving[1].accepted = TRUE, !.peers[m].take = FALSE]
             r == Confine(on, TRUE)
  <2>1. OnAccepted(s, m, k) = ApplyCapture(r)
    BY <1>2 DEF OnAccepted
  <2>2. s.driving # None /\ s.driven = None
    BY <1>2 DEF IsDriving, DrivesNow, Sound, Kept
  <2>3. d # None /\ Drivable(d) /\ d[1].accepted = TRUE
    <3>1. 1 \in DOMAIN s.driving /\ "accepted" \in DOMAIN s.driving[1]
      BY <2>2 DEF Sound, Kept, Drivable
    <3>2. DOMAIN d = DOMAIN s.driving /\ d[1] = [s.driving[1] EXCEPT !.accepted = TRUE]
      BY <3>1
    <3>3. "accepted" \in DOMAIN d[1] /\ d[1].accepted = TRUE
      BY <3>1, <3>2
    <3>4. d # None
      BY <3>1, <3>2 DEF None
    <3> QED BY <3>1, <3>2, <3>3, <3>4 DEF Drivable
  <2>4. /\ Held \subseteq DOMAIN on /\ on.driving = d /\ on.driven = None
        /\ on.known = s.known
    BY <2>2 DEF Sound, Kept, Held
  <2> HIDE DEF on, d
  <2>5. /\ Held \subseteq DOMAIN r /\ r.driving = d /\ r.driven = None
        /\ r.known = s.known
    BY <2>4 DEF Confine, Held
  <2> HIDE DEF r
  <2>6. Kept(r)
    BY <2>3, <2>5 DEF Sound, Kept
  <2> QED BY <2>1, <2>6, ApplyCaptureSound
<1> QED BY <1>1, <1>2

LEMMA OnRefusedSound ==
    ASSUME NEW s, Sound(s), NEW m, NEW k
    PROVE  Sound(OnRefused(s, m, k))
<1> DEFINE home == BringHomeQuietly(s)
           r == [home EXCEPT !.peers[m].backoff = TRUE]
<1>1. Sound(home)
  BY BringHomeQuietlySound DEF Sound
<1> HIDE DEF home
<1>2. SameHold(home, r)
  BY <1>1 DEF SameHold, Sound, Kept, Held
<1>3. OnRefused(s, m, k) = r \/ OnRefused(s, m, k) = s
  BY DEF OnRefused, home
<1> QED BY <1>1, <1>2, <1>3, SameHoldSound

LEMMA OnFrameSound ==
    ASSUME NEW s, Sound(s), NEW m, NEW f, NEW stale
    PROVE  Sound(OnFrame(s, m, f, stale))
<1>1. Sound(OnHi(s, m))
  <2> DEFINE r == [s EXCEPT !.peers[m] = [@ EXCEPT !.hi = TRUE, !.link = "warm"]]
  <2>1. SameHold(s, r)
    BY DEF SameHold, Sound, Kept, Held
  <2>2. OnHi(s, m) = ApplyCapture(r)
    BY DEF OnHi
  <2> HIDE DEF r
  <2> QED BY <2>1, <2>2, SameHoldSound, ApplyCaptureSound DEF Sound
<1>2. Sound(ApplyFlow(s, m, f.session))
  <2> DEFINE r == [s EXCEPT !.typed = @ \union {m}]
  <2>1. SameHold(s, r) /\ SameHold(s, s)
    BY DEF SameHold, Sound, Kept, Held
  <2>2. ApplyFlow(s, m, f.session) \in {r, s}
    BY DEF ApplyFlow
  <2> HIDE DEF r
  <2> QED BY <2>1, <2>2, SameHoldSound
<1>3. Sound(OnStart(s, m, f.session, stale))
  BY OnStartSound
<1>4. Sound(OnAccepted(s, m, f.session))
  BY OnAcceptedSound
<1>5. Sound(OnRefused(s, m, f.session))
  BY OnRefusedSound
<1>6. Sound(EndDriven(s, FALSE))
  BY EndDrivenSound
<1>7. Sound(BringHomeQuietly(s))
  BY BringHomeQuietlySound DEF Sound
<1>8. OnFrame(s, m, f, stale) \in
        {OnHi(s, m), ApplyFlow(s, m, f.session), OnStart(s, m, f.session, stale),
         OnAccepted(s, m, f.session), OnRefused(s, m, f.session), EndDriven(s, FALSE),
         BringHomeQuietly(s), s}
  BY DEF OnFrame
<1> QED BY <1>1, <1>2, <1>3, <1>4, <1>5, <1>6, <1>7, <1>8

-----------------------------------------------------------------------------
(* The two loops, over the frames of a batch and over the peers torn down. *)

(* Induction over a set of naturals. *)
LEMMA SetInduction ==
    ASSUME NEW T, T \subseteq Nat, 0 \in T, \A n \in T : n + 1 \in T
    PROVE  T = Nat
<1> DEFINE S == Nat \ T
           R == {ss \in Nat \X Nat : ss[1] < ss[2]}
<1>1. SUFFICES ASSUME S # {} PROVE FALSE
  OBVIOUS
<1>2. IsWellFoundedOn(R, Nat)
  BY NatLessThanWellFounded DEF OpToRel
<1>3. \E m \in S : \A y \in S : ~ (<<y, m>> \in R)
  BY <1>1, <1>2, WFMin
<1>4. PICK m \in S : \A y \in S : ~ (y < m)
  BY <1>3
<1>5. m \in Nat /\ m # 0 /\ m - 1 \in Nat /\ m - 1 < m
  OBVIOUS
<1>6. m - 1 \in T
  BY <1>4, <1>5
<1>7. (m - 1) + 1 = m
  BY <1>5
<1> QED BY <1>6, <1>7

\* The states that on_frames goes through.
Reading(s, m, batch, stale, g, n) ==
    g = [i \in 0 .. n |-> IF i = 0 THEN s ELSE OnFrame(g[i - 1], m, batch[i], stale)]

LEMMA ReadingExists ==
    ASSUME NEW s, NEW m, NEW batch, NEW stale, NEW n \in Nat
    PROVE  \E g : Reading(s, m, batch, stale, g, n)
<1> DEFINE T == {k \in Nat : \E g : Reading(s, m, batch, stale, g, k)}
<1>1. 0 \in T
  <2> DEFINE g == [i \in 0 .. 0 |-> s]
  <2>1. Reading(s, m, batch, stale, g, 0)
    BY DEF Reading
  <2> QED BY <2>1
<1>2. ASSUME NEW k \in T PROVE k + 1 \in T
  <2>1. PICK g : Reading(s, m, batch, stale, g, k)
    OBVIOUS
  <2>2. PICK last : last = OnFrame(g[k], m, batch[k + 1], stale)
    OBVIOUS
  <2>3. PICK h : h = [i \in 0 .. (k + 1) |-> IF i = k + 1 THEN last ELSE g[i]]
    OBVIOUS
  <2>4. k \in Nat /\ k + 1 \in Nat
    OBVIOUS
  <2>5. h[k + 1] = last /\ \A i \in 0 .. k : h[i] = g[i]
    BY <2>3, <2>4
  <2>6. h[0] = s
    BY <2>1, <2>4, <2>5 DEF Reading
  <2>7. ASSUME NEW i \in 1 .. k
        PROVE  h[i] = OnFrame(h[i - 1], m, batch[i], stale)
    <3>1. i \in 0 .. k /\ i - 1 \in 0 .. k /\ i # 0
      BY <2>4
    <3>2. g[i] = OnFrame(g[i - 1], m, batch[i], stale)
      BY <2>1, <3>1 DEF Reading
    <3> QED BY <2>5, <3>1, <3>2
  <2>8. h[k + 1] = OnFrame(h[(k + 1) - 1], m, batch[k + 1], stale)
    <3>1. (k + 1) - 1 = k /\ k \in 0 .. k
      BY <2>4
    <3> QED BY <2>2, <2>5, <3>1
  <2>9. Reading(s, m, batch, stale, h, k + 1)
    <3>1. \A i \in 0 .. (k + 1) : i = 0 \/ i \in 1 .. k \/ i = k + 1
      BY <2>4
    <3>2. \A i \in 0 .. (k + 1) : h[i] =
             IF i = 0 THEN s ELSE OnFrame(h[i - 1], m, batch[i], stale)
      BY <2>4, <2>6, <2>7, <2>8, <3>1
    <3>3. h = [i \in 0 .. (k + 1) |-> h[i]]
      BY <2>3
    <3> QED BY <3>2, <3>3 DEF Reading
  <2> QED BY <2>4, <2>9
<1>3. T = Nat
  BY <1>1, <1>2, SetInduction
<1> QED BY <1>3

LEMMA ReadingSound ==
    ASSUME NEW s, Sound(s), NEW m, NEW batch, NEW stale, NEW n \in Nat,
           NEW g, Reading(s, m, batch, stale, g, n)
    PROVE  Sound(g[n])
<1> DEFINE T == {k \in Nat : k <= n => Sound(g[k])}
<1>1. 0 \in T
  <2>1. g[0] = s
    BY DEF Reading
  <2> QED BY <2>1
<1>2. ASSUME NEW k \in T PROVE k + 1 \in T
  <2>1. SUFFICES ASSUME k + 1 <= n PROVE Sound(g[k + 1])
    OBVIOUS
  <2>2. PICK i : i = k + 1
    OBVIOUS
  <2>3. i \in 0 .. n /\ i # 0 /\ i - 1 = k /\ k <= n
    BY <2>1, <2>2
  <2>4. g[i] = OnFrame(g[i - 1], m, batch[i], stale)
    BY <2>3 DEF Reading
  <2> QED BY <2>2, <2>3, <2>4, OnFrameSound
<1>3. T = Nat
  BY <1>1, <1>2, SetInduction
<1> QED BY <1>3

LEMMA OnFramesSound ==
    ASSUME NEW s, Sound(s), NEW m, NEW batch, Len(batch) \in Nat, NEW stale
    PROVE  Sound(OnFrames(s, m, batch, stale))
<1>1. PICK g : g = CHOOSE h : Reading(s, m, batch, stale, h, Len(batch))
  OBVIOUS
<1>2. Reading(s, m, batch, stale, g, Len(batch))
  BY <1>1, ReadingExists
<1>3. Sound(g[Len(batch)])
  BY <1>2, ReadingSound
<1>4. OnFrames(s, m, batch, stale) \in {s, TearDown(s, m), g[Len(batch)]}
  BY <1>1 DEF OnFrames, Reading
<1> QED BY <1>3, <1>4, TearDownSound

\* The states that a teardown of several peers goes through.
Tearing(s, each, g, n) ==
    g = [i \in 0 .. n |-> IF i = 0 THEN s ELSE TearDown(g[i - 1], each[i])]

LEMMA TearingExists ==
    ASSUME NEW s, NEW each, NEW n \in Nat
    PROVE  \E g : Tearing(s, each, g, n)
<1> DEFINE T == {k \in Nat : \E g : Tearing(s, each, g, k)}
<1>1. 0 \in T
  <2> DEFINE g == [i \in 0 .. 0 |-> s]
  <2>1. Tearing(s, each, g, 0)
    BY DEF Tearing
  <2> QED BY <2>1
<1>2. ASSUME NEW k \in T PROVE k + 1 \in T
  <2>1. PICK g : Tearing(s, each, g, k)
    OBVIOUS
  <2>2. PICK last : last = TearDown(g[k], each[k + 1])
    OBVIOUS
  <2>3. PICK h : h = [i \in 0 .. (k + 1) |-> IF i = k + 1 THEN last ELSE g[i]]
    OBVIOUS
  <2>4. k \in Nat /\ k + 1 \in Nat
    OBVIOUS
  <2>5. h[k + 1] = last /\ \A i \in 0 .. k : h[i] = g[i]
    BY <2>3, <2>4
  <2>6. h[0] = s
    BY <2>1, <2>4, <2>5 DEF Tearing
  <2>7. ASSUME NEW i \in 1 .. k
        PROVE  h[i] = TearDown(h[i - 1], each[i])
    <3>1. i \in 0 .. k /\ i - 1 \in 0 .. k /\ i # 0
      BY <2>4
    <3>2. g[i] = TearDown(g[i - 1], each[i])
      BY <2>1, <3>1 DEF Tearing
    <3> QED BY <2>5, <3>1, <3>2
  <2>8. h[k + 1] = TearDown(h[(k + 1) - 1], each[k + 1])
    <3>1. (k + 1) - 1 = k /\ k \in 0 .. k
      BY <2>4
    <3> QED BY <2>2, <2>5, <3>1
  <2>9. Tearing(s, each, h, k + 1)
    <3>1. \A i \in 0 .. (k + 1) : i = 0 \/ i \in 1 .. k \/ i = k + 1
      BY <2>4
    <3>2. \A i \in 0 .. (k + 1) : h[i] =
             IF i = 0 THEN s ELSE TearDown(h[i - 1], each[i])
      BY <2>4, <2>6, <2>7, <2>8, <3>1
    <3>3. h = [i \in 0 .. (k + 1) |-> h[i]]
      BY <2>3
    <3> QED BY <3>2, <3>3 DEF Tearing
  <2> QED BY <2>4, <2>9
<1>3. T = Nat
  BY <1>1, <1>2, SetInduction
<1> QED BY <1>3

LEMMA TearDownAllSound ==
    ASSUME NEW s, Sound(s), NEW gone, gone \subseteq Nodes
    PROVE  Sound(TearDownAll(s, gone))
<1> DEFINE each == SetToSeq(gone)
<1>1. Len(each) \in Nat
  <2>1. IsFiniteSet(gone)
    BY SessionAssumption, FS_Subset
  <2>2. Cardinality(gone) \in Nat
    BY <2>1, FS_CardinalityType
  <2>3. \E f \in [1 .. Cardinality(gone) -> gone] : IsInjective(f)
    BY <2>1, <2>2, FS_NatBijection, FS_CountingElements DEF IsInjective, ExistsBijection, Bijection, Injection, Surjection
  <2>4. each \in [1 .. Cardinality(gone) -> gone]
    BY <2>3 DEF SetToSeq
  <2>5. each \in Seq(gone)
    BY <2>2, <2>4
  <2> QED BY <2>5
<1> HIDE DEF each
<1>2. PICK g : g = CHOOSE h : Tearing(s, each, h, Len(each))
  OBVIOUS
<1>3. Tearing(s, each, g, Len(each))
  BY <1>1, <1>2, TearingExists
<1>4. TearDownAll(s, gone) = g[Len(each)]
  BY <1>2 DEF TearDownAll, Tearing, each
<1> DEFINE T == {k \in Nat : k <= Len(each) => Sound(g[k])}
<1>5. 0 \in T
  <2>1. g[0] = s
    BY <1>1, <1>3 DEF Tearing
  <2> QED BY <2>1
<1>6. ASSUME NEW k \in T PROVE k + 1 \in T
  <2>1. SUFFICES ASSUME k + 1 <= Len(each) PROVE Sound(g[k + 1])
    OBVIOUS
  <2>2. PICK i : i = k + 1
    OBVIOUS
  <2>3. i \in 0 .. Len(each) /\ i # 0 /\ i - 1 = k /\ k <= Len(each)
    BY <1>1, <2>1, <2>2
  <2>4. g[i] = TearDown(g[i - 1], each[i])
    BY <1>3, <2>3 DEF Tearing
  <2> QED BY <2>2, <2>3, <2>4, TearDownSound
<1>7. T = Nat
  BY <1>5, <1>6, SetInduction
<1> QED BY <1>1, <1>4, <1>7

-----------------------------------------------------------------------------
(* The end of a turn, and the turns. *)

HoldInv == DOMAIN eng = Nodes /\ \A n \in Nodes : Sound(eng[n])

LEMMA SyncChannelsSound ==
    ASSUME NEW s, Sound(s), NEW r \in SyncChannels(s)
    PROVE  Sound(r)
<1>1. PICK dialled, peers : r = [s EXCEPT !.openDue = FALSE, !.asks = dialled, !.peers = peers]
  BY DEF SyncChannels
<1>2. SameHold(s, r)
  BY <1>1 DEF SameHold, Sound, Kept, Held
<1> QED BY <1>2, SameHoldSound

LEMMA ParkedTakesSound ==
    ASSUME NEW s, Sound(s), NEW r \in ParkedTakes(s)
    PROVE  Sound(r)
<1>1. PICK peers : LET used == [s EXCEPT !.peers = peers]
                   IN  r = s \/ r = used \/ \E m \in Nodes : r = StartSession(used, m)
  BY DEF ParkedTakes
<1> DEFINE used == [s EXCEPT !.peers = peers]
<1>2. r = s \/ r = used \/ \E m \in Nodes : r = StartSession(used, m)
  BY <1>1
<1>3. SameHold(s, used)
  BY DEF SameHold, Sound, Kept, Held
<1> HIDE DEF used
<1>4. Sound(used)
  BY <1>3, SameHoldSound
<1> QED BY <1>2, <1>4, StartSessionSound

\* A turn whose handler leaves a sound engine leaves sound engines.
LEMMA TurnOnSound ==
    ASSUME HoldInv, NEW n \in Nodes, NEW s, Sound(s), NEW w, NEW d, TurnOn(n, s, w, d)
    PROVE  HoldInv'
<1>0. PICK warmed \in SyncChannels(s) : \E done \in ParkedTakes(warmed) :
        eng' = [eng EXCEPT ![n] = RunEffects(done)]
  BY DEF TurnOn
<1>1. PICK done \in ParkedTakes(warmed) : eng' = [eng EXCEPT ![n] = RunEffects(done)]
  BY <1>0
<1>2. Sound(done)
  <2>1. Sound(warmed)
    BY SyncChannelsSound
  <2> QED BY <2>1, ParkedTakesSound
<1>3. Sound(RunEffects(done))
  <2> DEFINE r == [done EXCEPT !.opening = @ \union done.asks, !.asks = {}, !.tx = <<>>]
  <2>1. RunEffects(done) = r
    BY DEF RunEffects
  <2>2. SameHold(done, r)
    BY <1>2 DEF SameHold, Sound, Kept, Held
  <2> HIDE DEF r
  <2> QED BY <1>2, <2>1, <2>2, SameHoldSound
<1>4. PICK r : r = RunEffects(done)
  OBVIOUS
<1>5. DOMAIN eng' = Nodes /\ \A m \in Nodes : eng'[m] = IF m = n THEN r ELSE eng[m]
  BY <1>1, <1>4 DEF HoldInv
<1>6. \A m \in Nodes : Sound(eng'[m])
  BY <1>3, <1>4, <1>5 DEF HoldInv
<1> QED BY <1>5, <1>6 DEF HoldInv, Sound, Kept, Drivable, Held

LEMMA TurnSound ==
    ASSUME HoldInv, NEW n \in Nodes, NEW s, Sound(s), Turn(n, s)
    PROVE  HoldInv'
BY TurnOnSound DEF Turn

LEMMA UserTurnSound ==
    ASSUME HoldInv, NEW n \in Nodes, NEW s, Sound(s), UserTurn(n, s)
    PROVE  HoldInv'
BY TurnSound DEF UserTurn

\* What a step does that takes no turn.
LEMMA NoTurnSound ==
    ASSUME HoldInv, UNCHANGED eng
    PROVE  HoldInv'
BY DEF HoldInv, Sound, Kept, Drivable, Held

-----------------------------------------------------------------------------
(* One lemma per group of actions: the ends of a pipe, a machine and another, *)
(* a machine by itself.                                                    *)

LEMMA FreshEngineSound ==
    ASSUME NEW old, old.known \subseteq Nodes
    PROVE  Sound(FreshEngine(old))
BY DEF FreshEngine, Sound, Kept, Drivable, Held, None

LEMMA AfterClosedSound ==
    ASSUME NEW s, Sound(s), NEW m, NEW reason
    PROVE  Sound(AfterClosed(s, m, reason))
<1> DEFINE all == TearDownAll(s, Nodes)
           due == [s EXCEPT !.openDue = TRUE]
           back == [s EXCEPT !.peers[m].backoff = TRUE]
           gone == [s EXCEPT !.allowed = @ \ {m}, !.drives = @ \ {m}, !.peers[m] = ColdPeer]
           left == [all EXCEPT !.allowed = {}, !.drives = {}]
<1>1. Sound(all)
  BY TearDownAllSound
<1> HIDE DEF all
<1>2. SameHold(s, due) /\ SameHold(s, back) /\ SameHold(s, gone) /\ SameHold(all, left)
  BY <1>1 DEF SameHold, Sound, Kept, Held
<1>3. AfterClosed(s, m, reason) \in {due, back, gone, left, all, s}
  BY DEF AfterClosed, all
<1> HIDE DEF due, back, gone, left
<1> QED BY <1>1, <1>2, <1>3, SameHoldSound

LEMMA PipeStepSound ==
    ASSUME HoldInv, NEW n \in Nodes, NEW p \in Pipes, PipeStep(n, p)
    PROVE  HoldInv'
<1> DEFINE m == Other(p, n)
           e == eng[n]
           idle == [e EXCEPT !.opening = @ \ {m}]
<1>1. Sound(e)
  BY DEF HoldInv
<1>2. Sound(idle)
  <2>1. SameHold(e, idle)
    BY <1>1 DEF SameHold, Sound, Kept, Held
  <2> HIDE DEF idle
  <2> QED BY <1>1, <2>1, SameHoldSound
<1>3. CASE OnPeerChannel(n, p)
  <2> DEFINE s == [e EXCEPT !.opening = @ \union {m}]
  <2>1. Turn(n, s)
    BY <1>3 DEF OnPeerChannel
  <2>2. SameHold(e, s)
    BY <1>1 DEF SameHold, Sound, Kept, Held
  <2> HIDE DEF s
  <2> QED BY <1>1, <2>1, <2>2, SameHoldSound, TurnSound
<1>4. CASE Attach(n, p)
  <2> DEFINE s == [e EXCEPT !.opening = @ \ {m},
                            !.peers[m] = [Cooled(@) EXCEPT !.out = p, !.link = "warming"]]
             r == Send(s, m, Frame("hi", 0))
  <2>1. Turn(n, r)
    BY <1>4 DEF Attach
  <2>2. SameHold(e, s)
    BY <1>1 DEF SameHold, Sound, Kept, Held
  <2> HIDE DEF s
  <2>3. Sound(s)
    BY <1>1, <2>2, SameHoldSound
  <2>4. SameHold(s, r)
    BY <2>3, SendHold DEF Sound, Kept
  <2> HIDE DEF r
  <2> QED BY <2>1, <2>3, <2>4, SameHoldSound, TurnSound
<1>5. CASE AttachFails(n, p)
  <2> DEFINE s == OnOpenFailed(e, m)
  <2>1. Turn(n, s)
    BY <1>5 DEF AttachFails
  <2>2. SameHold(e, s)
    BY <1>1 DEF OnOpenFailed, SameHold, Sound, Kept, Held
  <2> HIDE DEF s
  <2> QED BY <1>1, <2>1, <2>2, SameHoldSound, TurnSound
<1>6. CASE TaskEnds(n, p)
  <2>1. TurnOn(n, TearDown(idle, m), [wire EXCEPT ![p][n] = <<>>], dials)
    BY <1>6 DEF TaskEnds
  <2> HIDE DEF idle
  <2> QED BY <1>2, <2>1, TearDownSound, TurnOnSound
<1>7. CASE Deliver(n, p)
  <2>1. PICK k \in 1 .. Len(wire[p][n]), stale \in BOOLEAN :
          TurnOn(n, OnFrames(e, m, SubSeq(wire[p][n], 1, k), stale),
                 [wire EXCEPT ![p][n] = SubSeq(@, k + 1, Len(@))], dials)
    BY <1>7 DEF Deliver
  <2> DEFINE batch == SubSeq(wire[p][n], 1, k)
  <2>2. Len(batch) \in Nat
    OBVIOUS
  <2> HIDE DEF batch
  <2>3. Sound(OnFrames(e, m, batch, stale))
    BY <1>1, <2>2, OnFramesSound
  <2> QED BY <2>1, <2>3, TurnOnSound DEF batch
<1>8. ASSUME NEW reason \in Reasons, ChannelClosed(n, p, reason) PROVE HoldInv'
  <2>1. PICK fresh : Turn(n, AfterClosed(IF fresh THEN idle ELSE TearDown(idle, m), m, reason))
    BY <1>8 DEF ChannelClosed
  <2> DEFINE s == IF fresh THEN idle ELSE TearDown(idle, m)
  <2> HIDE DEF idle
  <2>2. Sound(s)
    BY <1>2, TearDownSound
  <2> HIDE DEF s
  <2>3. Sound(AfterClosed(s, m, reason))
    BY <2>2, AfterClosedSound
  <2> QED BY <2>1, <2>3, TurnSound DEF s
<1>9. ASSUME NEW reason \in Reasons, NoticeDropped(n, p, reason) PROVE HoldInv'
  BY <1>1, <1>9, TurnSound DEF NoticeDropped
<1> QED BY <1>3, <1>4, <1>5, <1>6, <1>7, <1>8, <1>9 DEF PipeStep

LEMMA PairStepSound ==
    ASSUME HoldInv, NEW n \in Nodes, NEW m \in Nodes, PairStep(n, m)
    PROVE  HoldInv'
<1> DEFINE e == eng[n]
<1>1. Sound(e)
  BY DEF HoldInv
<1>2. CASE CoreOpens(n, m)
  BY <1>2, NoTurnSound DEF CoreOpens
<1>3. CASE DialFails(n, m)
  <2> DEFINE s == OnOpenFailed(e, m)
  <2>1. TurnOn(n, s, wire, dials \ {<<n, m>>})
    BY <1>3 DEF DialFails
  <2>2. SameHold(e, s)
    BY <1>1 DEF OnOpenFailed, SameHold, Sound, Kept, Held
  <2> HIDE DEF s
  <2> QED BY <1>1, <2>1, <2>2, SameHoldSound, TurnOnSound
<1>4. CASE Revoke(n, m)
  BY <1>4, NoTurnSound DEF Revoke, CoreEnds
<1>5. CASE Take(n, m)
  <2> DEFINE asked == [e EXCEPT !.openDue = TRUE,
                         !.peers[m] = [@ EXCEPT !.backoff = FALSE, !.take = TRUE]]
             on == StartSession(asked, m)
             s == [on EXCEPT !.peers[m].take = ~CanStart(asked, m)]
  <2>1. UserTurn(n, s)
    BY <1>5 DEF Take
  <2>2. SameHold(e, asked)
    BY <1>1 DEF SameHold, Sound, Kept, Held
  <2> HIDE DEF asked
  <2>3. Sound(on)
    BY <1>1, <2>2, SameHoldSound, StartSessionSound
  <2> HIDE DEF on
  <2>4. SameHold(on, s)
    BY <2>3 DEF SameHold, Sound, Kept, Held
  <2> HIDE DEF s
  <2> QED BY <2>1, <2>3, <2>4, SameHoldSound, UserTurnSound
<1>6. CASE Cross(n, m)
  <2> DEFINE due == [e EXCEPT !.openDue = TRUE]
             s == IF e.peers[m].link = "warm" THEN StartSession(e, m) ELSE due
  <2>1. UserTurn(n, s)
    BY <1>6 DEF Cross
  <2>2. SameHold(e, due)
    BY <1>1 DEF SameHold, Sound, Kept, Held
  <2> HIDE DEF due
  <2>3. Sound(s)
    BY <1>1, <2>2, SameHoldSound, StartSessionSound
  <2> HIDE DEF s
  <2> QED BY <2>1, <2>3, UserTurnSound
<1>7. CASE HandOver(n, m)
  <2>1. UserTurn(n, StartSession(BringHome(e), m))
    BY <1>7 DEF HandOver
  <2>2. Sound(BringHome(e))
    BY <1>1, BringHomeSound DEF Sound
  <2> QED BY <2>1, <2>2, StartSessionSound, UserTurnSound
<1>8. ASSUME NEW yes \in BOOLEAN, Allow(n, m, yes) PROVE HoldInv'
  <2> DEFINE s == [e EXCEPT !.allowed = IF yes THEN @ \union {m} ELSE @ \ {m}]
  <2>1. UserTurn(n, IF ~yes /\ DrivenBy(s, m) THEN EndDriven(s, TRUE) ELSE s)
    BY <1>8 DEF Allow
  <2>2. SameHold(e, s)
    BY <1>1 DEF SameHold, Sound, Kept, Held
  <2> HIDE DEF s
  <2>3. Sound(s)
    BY <1>1, <2>2, SameHoldSound
  <2> QED BY <2>1, <2>3, EndDrivenSound, UserTurnSound
<1>9. ASSUME NEW yes \in BOOLEAN, Drive(n, m, yes) PROVE HoldInv'
  <2> DEFINE s == [e EXCEPT !.drives = IF yes THEN @ \union {m} ELSE @ \ {m}]
  <2>1. UserTurn(n, IF ~yes /\ DrivesNow(s, m) THEN BringHome(s) ELSE s)
    BY <1>9 DEF Drive
  <2>2. SameHold(e, s)
    BY <1>1 DEF SameHold, Sound, Kept, Held
  <2> HIDE DEF s
  <2>3. Sound(s)
    BY <1>1, <2>2, SameHoldSound
  <2>4. Sound(BringHome(s))
    BY <2>3, BringHomeSound DEF Sound
  <2> QED BY <2>1, <2>3, <2>4, UserTurnSound
<1> QED BY <1>2, <1>3, <1>4, <1>5, <1>6, <1>7, <1>8, <1>9 DEF PairStep

\* The desktop may change what a session needs; the session ends where it does.
LEMMA DeskSound ==
    ASSUME HoldInv, NEW n \in Nodes, NEW able \in BOOLEAN, NEW typable \in BOOLEAN,
           \/ CapabilitiesChanged(n, able, typable) \/ MonitorsChanged(n, able, typable)
           \/ CaptureLost(n, able, typable)
    PROVE  HoldInv'
<1> DEFINE e == eng[n]
           s == [e EXCEPT !.able = able, !.typable = typable]
<1>1. Sound(e)
  BY DEF HoldInv
<1>2. SameHold(e, s)
  BY <1>1 DEF SameHold, Sound, Kept, Held
<1>3. CASE CapabilitiesChanged(n, able, typable)
  <2> DEFINE home == IF able THEN s ELSE BringHome(s)
             r == IF typable THEN home ELSE EndDriven(home, TRUE)
  <2>1. UserTurn(n, ApplyCapture(r))
    BY <1>3 DEF CapabilitiesChanged
  <2> HIDE DEF s
  <2>2. Sound(s)
    BY <1>1, <1>2, SameHoldSound
  <2>3. Sound(home)
    BY <2>2, BringHomeSound DEF Sound
  <2> HIDE DEF home
  <2>4. Sound(r)
    BY <2>3, EndDrivenSound
  <2> HIDE DEF r
  <2>5. Sound(ApplyCapture(r))
    BY <2>4, ApplyCaptureSound DEF Sound
  <2> QED BY <2>1, <2>5, UserTurnSound
<1>4. CASE MonitorsChanged(n, able, typable)
  <2> DEFINE r == [ApplyCapture(s) EXCEPT !.openDue = TRUE]
  <2>1. UserTurn(n, r)
    BY <1>4 DEF MonitorsChanged
  <2> HIDE DEF s
  <2>2. Sound(ApplyCapture(s))
    BY <1>1, <1>2, SameHoldSound, ApplyCaptureSound DEF Sound
  <2>3. SameHold(ApplyCapture(s), r)
    BY <2>2 DEF SameHold, Sound, Kept, Held
  <2> HIDE DEF r
  <2> QED BY <2>1, <2>2, <2>3, SameHoldSound, UserTurnSound
<1>5. CASE CaptureLost(n, able, typable)
  <2> DEFINE home == BringHome(s)
             r == [home EXCEPT !.sent = "unset"]
  <2>1. UserTurn(n, ApplyCapture(r))
    BY <1>5 DEF CaptureLost
  <2> HIDE DEF s
  <2>2. Sound(home)
    BY <1>1, <1>2, SameHoldSound, BringHomeSound DEF Sound
  <2> HIDE DEF home
  <2>3. Kept(r)
    BY <2>2 DEF Sound, Kept, Held
  <2> HIDE DEF r
  <2> QED BY <2>1, <2>3, ApplyCaptureSound, UserTurnSound
<1> QED BY <1>3, <1>4, <1>5

LEMMA NodeStepSound ==
    ASSUME HoldInv, NEW n \in Nodes, NodeStep(n)
    PROVE  HoldInv'
<1> DEFINE e == eng[n]
<1>1. Sound(e)
  BY DEF HoldInv
<1>2. Sound(BringHome(e))
  BY <1>1, BringHomeSound DEF Sound
<1>3. CASE SetDirectory(n)
  <2> DEFINE now == {m \in Nodes \ {n} : <<n, m>> \notin revoked}
             gone == e.known \ now
             all == TearDownAll(e, gone)
             peers == [m \in Nodes |-> IF m \in gone THEN ColdPeer ELSE all.peers[m]]
             s == [all EXCEPT !.known = now, !.openDue = TRUE, !.peers = peers]
  <2>1. Turn(n, s)
    BY <1>3 DEF SetDirectory
  <2>2. Sound(all)
    <3>1. gone \subseteq Nodes
      BY <1>1 DEF Sound, Kept
    <3> HIDE DEF gone
    <3> QED BY <1>1, <3>1, TearDownAllSound
  <2>3. now \subseteq Nodes
    OBVIOUS
  <2> HIDE DEF all, peers, now
  <2>4. Sound(s)
    BY <2>2, <2>3 DEF Sound, Kept, Held
  <2> HIDE DEF s
  <2> QED BY <2>1, <2>4, TurnSound
<1>4. CASE Sweep(n)
  <2> DEFINE s == [e EXCEPT !.openDue = TRUE]
  <2>1. Turn(n, s)
    BY <1>4 DEF Sweep
  <2>2. SameHold(e, s)
    BY <1>1 DEF SameHold, Sound, Kept, Held
  <2> HIDE DEF s
  <2> QED BY <1>1, <2>1, <2>2, SameHoldSound, TurnSound
<1>5. CASE Type(n)
  <2> DEFINE s == Send(e, e.driving[1].node, Frame("key", e.driving[1].session))
  <2>1. UserTurn(n, s)
    BY <1>5 DEF Type
  <2>2. SameHold(e, s)
    BY <1>1, SendHold DEF Sound, Kept
  <2> HIDE DEF s
  <2> QED BY <1>1, <2>1, <2>2, SameHoldSound, UserTurnSound
<1>6. CASE Release(n)
  <2>1. UserTurn(n, IF e.driving # None THEN BringHome(e) ELSE EndDriven(e, TRUE))
    BY <1>6 DEF Release
  <2> QED BY <1>1, <1>2, <2>1, EndDrivenSound, UserTurnSound
<1>7. CASE Stall(n)
  BY <1>2, <1>7, UserTurnSound DEF Stall
<1>8. CASE Idle(n)
  BY <1>1, <1>8, EndDrivenSound, UserTurnSound DEF Idle
<1>9. CASE Hang(n)
  BY <1>9, NoTurnSound DEF Hang
<1>10. ASSUME NEW yes \in BOOLEAN, Lock(n, yes) PROVE HoldInv'
  <2> DEFINE s == [e EXCEPT !.locked = yes]
  <2>1. UserTurn(n, IF yes THEN EndDriven(BringHome(s), TRUE) ELSE s)
    BY <1>10 DEF Lock
  <2>2. SameHold(e, s)
    BY <1>1 DEF SameHold, Sound, Kept, Held
  <2> HIDE DEF s
  <2>3. Sound(s)
    BY <1>1, <2>2, SameHoldSound
  <2>4. Sound(BringHome(s))
    BY <2>3, BringHomeSound DEF Sound
  <2> QED BY <2>1, <2>3, <2>4, EndDrivenSound, UserTurnSound
<1>11. ASSUME NEW yes \in BOOLEAN, Restart(n, yes) PROVE HoldInv'
  <2> DEFINE old == [e EXCEPT !.known = {}]
             r == FreshEngine(old)
  <2>1. eng' = [eng EXCEPT ![n] = r]
    BY <1>11 DEF Restart
  <2>2. old.known = {}
    BY <1>1 DEF Sound, Kept, Held
  <2> HIDE DEF old
  <2>3. Sound(r)
    BY <2>2, FreshEngineSound
  <2> HIDE DEF r
  <2>4. DOMAIN eng' = Nodes /\ \A m \in Nodes : eng'[m] = IF m = n THEN r ELSE eng[m]
    BY <2>1 DEF HoldInv
  <2>5. \A m \in Nodes : Sound(eng'[m])
    BY <2>3, <2>4 DEF HoldInv
  <2> QED BY <2>4, <2>5 DEF HoldInv, Sound, Kept, Drivable, Held
<1>12. ASSUME NEW reason, Leave(n, reason) PROVE HoldInv'
  BY <1>12, NoTurnSound DEF Leave, CoreEnds
<1> QED BY <1>3, <1>4, <1>5, <1>6, <1>7, <1>8, <1>9, <1>10, <1>11, <1>12, DeskSound
        DEF NodeStep

LEMMA InitSound == Init => HoldInv
<1>1. SUFFICES ASSUME Init, NEW n \in Nodes PROVE Sound(Started(n))
  BY DEF Init, HoldInv
<1> DEFINE old == [able |-> TRUE, typable |-> TRUE, locked |-> FALSE, typed |-> {},
                   known |-> {}, allowed |-> {m \in Nodes : <<m, n>> \in Grants},
                   drives |-> {m \in Nodes : <<n, m>> \in Drives}]
           s == FreshEngine(old)
<1>2. Sound(s)
  <2>1. old.known \subseteq Nodes
    OBVIOUS
  <2> HIDE DEF old
  <2> QED BY <2>1, FreshEngineSound
<1>3. PICK opening, peers :
        Started(n) \in {s, ApplyCapture([s EXCEPT !.known = Nodes \ {n}, !.openDue = FALSE,
                                                  !.opening = opening, !.peers = peers])}
  BY DEF Started
<1> DEFINE r == [s EXCEPT !.known = Nodes \ {n}, !.openDue = FALSE, !.opening = opening,
                          !.peers = peers]
<1>4. Started(n) = s \/ Started(n) = ApplyCapture(r)
  BY <1>3
<1> HIDE DEF s
<1>5. Kept(r)
  BY <1>2 DEF Sound, Kept, Held
<1> HIDE DEF r
<1> QED BY <1>2, <1>4, <1>5, ApplyCaptureSound

LEMMA NextSound ==
    ASSUME HoldInv, [Next]_vars
    PROVE  HoldInv'
<1>1. CASE UNCHANGED vars
  BY <1>1, NoTurnSound DEF vars
<1>2. ASSUME NEW p \in Pipes, Cut(p) PROVE HoldInv'
  BY <1>2, NoTurnSound DEF Cut
<1> QED BY <1>1, <1>2, NodeStepSound, PairStepSound, PipeStepSound DEF Next

-----------------------------------------------------------------------------
\* However a session ends (release, lock, a grant or a capability withdrawn, a
\* channel closed, replaced or revoked, a watchdog, a crash), its machine no longer
\* swallows the keyboard or pins the pointer, and it never drives while it is
\* driven: apply_capture and the handlers of input/src/session.rs.
THEOREM HandsBackTheorem == Spec => []HandsBack
<1>1. Init => HoldInv
  BY InitSound
<1>2. HoldInv /\ [Next]_vars => HoldInv'
  BY NextSound
<1>3. HoldInv => HandsBack
  BY DEF HoldInv, HandsBack, Sound, Kept
<1> QED BY <1>1, <1>2, <1>3, PTL DEF Spec

-----------------------------------------------------------------------------
(* Who types where.  A session is driven by a machine that is allowed, or    *)
(* that was revoked since: Granted says so of an engine, R being the devices *)
(* its machine has revoked.                                                *)

Told == {"driven", "allowed", "typed"}

Granted(s, R) ==
    /\ Told \subseteq DOMAIN s
    /\ s.allowed \subseteq Nodes /\ s.typed \subseteq R
    /\ s.driven # None => s.driven[1].node \in Nodes \intersect (s.allowed \union R)

\* A handler that starts no session here and touches no grant.
Spared(s, r) ==
    /\ Told \subseteq DOMAIN r
    /\ r.allowed = s.allowed /\ r.typed = s.typed
    /\ r.driven = s.driven \/ r.driven = None

LEMMA SparedGranted ==
    ASSUME NEW s, NEW r, NEW R, Spared(s, r), Granted(s, R)
    PROVE  Granted(r, R)
BY DEF Granted, Spared

LEMMA SparedTwice ==
    ASSUME NEW s, NEW r, NEW q, Spared(s, r), Spared(r, q)
    PROVE  Spared(s, q)
BY DEF Spared

LEMMA SendSpares ==
    ASSUME NEW s, Told \subseteq DOMAIN s, NEW m, NEW f
    PROVE  Spared(s, Send(s, m, f))
BY DEF Send, Spared, Told

LEMMA ApplyCaptureSpares ==
    ASSUME NEW s, Told \subseteq DOMAIN s
    PROVE  Spared(s, ApplyCapture(s))
BY DEF ApplyCapture, Spared, Told

LEMMA BringHomeQuietlySpares ==
    ASSUME NEW s, Told \subseteq DOMAIN s
    PROVE  Spared(s, BringHomeQuietly(s))
<1> DEFINE off == [s EXCEPT !.driving = None]
           free == Confine(off, FALSE)
<1>1. Spared(s, off) /\ Spared(s, s)
  BY DEF Spared, Told
<1> HIDE DEF off
<1>2. Spared(off, free)
  BY <1>1 DEF Confine, Spared, Told
<1>3. BringHomeQuietly(s) = s \/ BringHomeQuietly(s) = ApplyCapture(free)
  BY DEF BringHomeQuietly, off
<1> HIDE DEF free
<1>4. Spared(s, free) /\ Told \subseteq DOMAIN free
  BY <1>1, <1>2, SparedTwice DEF Spared
<1> QED BY <1>1, <1>3, <1>4, ApplyCaptureSpares, SparedTwice

LEMMA BringHomeSpares ==
    ASSUME NEW s, Told \subseteq DOMAIN s
    PROVE  Spared(s, BringHome(s))
<1> DEFINE r == Send(s, s.driving[1].node, Frame("stop", s.driving[1].session))
<1>1. BringHome(s) = BringHomeQuietly(s) \/ BringHome(s) = BringHomeQuietly(r)
  BY DEF BringHome
<1>2. Spared(s, r) /\ Told \subseteq DOMAIN r
  BY SendSpares DEF Spared
<1> HIDE DEF r
<1> QED BY <1>1, <1>2, BringHomeQuietlySpares, SparedTwice

LEMMA EndDrivenSpares ==
    ASSUME NEW s, Told \subseteq DOMAIN s, NEW tell
    PROVE  Spared(s, EndDriven(s, tell)) /\ EndDriven(s, tell).driven = None
<1>1. CASE s.driven = None
  BY <1>1 DEF EndDriven, Spared
<1>2. CASE s.driven # None
  <2> DEFINE gone == [s EXCEPT !.driven = None]
             told == Send(gone, s.driven[1].node, Frame("end", s.driven[1].session))
             r == IF tell THEN told ELSE gone
  <2>1. EndDriven(s, tell) = ApplyCapture(r)
    BY <1>2 DEF EndDriven
  <2>2. Spared(s, gone) /\ gone.driven = None /\ Spared(gone, gone)
    BY DEF Spared, Told
  <2> HIDE DEF gone
  <2>3. Spared(gone, told)
    BY <2>2, SendSpares DEF Spared
  <2> HIDE DEF told
  <2>4. Spared(s, r) /\ r.driven = None /\ Told \subseteq DOMAIN r
    BY <2>2, <2>3, SparedTwice DEF Spared
  <2> HIDE DEF r
  <2>5. Spared(r, ApplyCapture(r))
    BY <2>4, ApplyCaptureSpares
  <2> QED BY <2>1, <2>4, <2>5, SparedTwice DEF Spared
<1> QED BY <1>1, <1>2

LEMMA TearDownSpares ==
    ASSUME NEW s, Told \subseteq DOMAIN s, NEW m
    PROVE  Spared(s, TearDown(s, m)) /\ ~DrivenBy(TearDown(s, m), m)
<1> DEFINE cut == [s EXCEPT !.peers[m] = [Cooled(@) EXCEPT !.take = FALSE]]
           home == IF DrivesNow(cut, m) THEN BringHome(cut) ELSE cut
           done == IF DrivenBy(home, m) THEN EndDriven(home, FALSE) ELSE home
<1>1. Spared(s, cut) /\ Spared(cut, cut)
  BY DEF Spared, Told
<1>2. TearDown(s, m) = ApplyCapture(done)
  BY DEF TearDown
<1> HIDE DEF cut
<1>3. Spared(s, home) /\ Told \subseteq DOMAIN home
  BY <1>1, BringHomeSpares, SparedTwice DEF Spared
<1> HIDE DEF home
<1>4. Spared(s, done) /\ ~DrivenBy(done, m) /\ Told \subseteq DOMAIN done
  <2> DEFINE over == EndDriven(home, FALSE)
  <2>1. Spared(home, over) /\ over.driven = None
    BY <1>3, EndDrivenSpares
  <2> HIDE DEF over
  <2>2. Spared(s, over) /\ ~DrivenBy(over, m)
    BY <1>3, <2>1, SparedTwice DEF DrivenBy
  <2>3. Spared(s, done) /\ ~DrivenBy(done, m)
    BY <1>3, <2>2 DEF over
  <2> QED BY <2>3 DEF Spared
<1> HIDE DEF done
<1>5. Spared(done, ApplyCapture(done))
  BY <1>4, ApplyCaptureSpares
<1> QED BY <1>2, <1>4, <1>5, SparedTwice DEF Spared, DrivenBy

LEMMA StartSessionSpares ==
    ASSUME NEW s, Told \subseteq DOMAIN s, NEW m
    PROVE  Spared(s, StartSession(s, m))
<1> DEFINE k == s.peers[m].next
           sent == Send(s, m, Frame("start", k))
           d == Some([node |-> m, session |-> k, accepted |-> FALSE])
           r == [sent EXCEPT !.peers[m].next = k + 1, !.driving = d]
<1>1. StartSession(s, m) = s \/ StartSession(s, m) = r
  BY DEF StartSession
<1>2. Spared(s, sent) /\ Spared(s, s)
  BY SendSpares DEF Spared
<1> HIDE DEF sent, d, k
<1>3. Spared(sent, r)
  BY <1>2 DEF Spared, Told
<1> HIDE DEF r
<1> QED BY <1>1, <1>2, <1>3, SparedTwice

\* Whoever drives a machine once all its channels are torn down, none of them does.
LEMMA TearDownAllSpares ==
    ASSUME NEW s, Told \subseteq DOMAIN s, NEW gone, gone \subseteq Nodes
    PROVE  /\ Spared(s, TearDownAll(s, gone))
           /\ TearDownAll(s, gone).driven # None => s.driven[1].node \notin gone
<1> DEFINE each == SetToSeq(gone)
<1>1. Len(each) \in Nat /\ \A x \in gone : \E i \in 1 .. Len(each) : each[i] = x
  <2>1. IsFiniteSet(gone)
    BY SessionAssumption, FS_Subset
  <2>2. Cardinality(gone) \in Nat
    BY <2>1, FS_CardinalityType
  <2>3. \E f \in [1 .. Cardinality(gone) -> gone] : IsInjective(f)
    BY <2>1, <2>2, FS_NatBijection, FS_CountingElements DEF IsInjective, ExistsBijection, Bijection, Injection, Surjection
  <2>4. each \in [1 .. Cardinality(gone) -> gone] /\ IsInjective(each)
    BY <2>3 DEF SetToSeq
  <2>5. each \in Seq(gone) /\ Len(each) = Cardinality(gone)
    BY <2>2, <2>4
  <2>6. each \in Injection(1 .. Cardinality(gone), gone)
    BY <2>4 DEF Injection, IsInjective
  <2>7. each \in Surjection(1 .. Cardinality(gone), gone)
    <3>1. IsFiniteSet(1 .. Cardinality(gone)) /\ Cardinality(1 .. Cardinality(gone)) = Cardinality(gone)
      BY <2>2, FS_Interval
    <3> HIDE DEF each
    <3> QED BY <2>1, <2>6, <3>1, FS_Injection
  <2> QED BY <2>2, <2>5, <2>7 DEF Surjection
<1> HIDE DEF each
<1>2. PICK g : g = CHOOSE h : Tearing(s, each, h, Len(each))
  OBVIOUS
<1>3. Tearing(s, each, g, Len(each))
  BY <1>1, <1>2, TearingExists
<1>4. TearDownAll(s, gone) = g[Len(each)]
  BY <1>2 DEF TearDownAll, Tearing, each
<1> DEFINE Torn(k) == /\ Spared(s, g[k])
                      /\ g[k].driven # None => \A i \in 1 .. k : s.driven[1].node # each[i]
           T == {k \in Nat : k <= Len(each) => Torn(k)}
<1>5. 0 \in T
  <2>1. g[0] = s
    BY <1>1, <1>3 DEF Tearing
  <2>2. \A i \in 1 .. 0 : FALSE
    OBVIOUS
  <2> QED BY <2>1, <2>2 DEF Spared
<1>6. ASSUME NEW k \in T PROVE k + 1 \in T
  <2>1. SUFFICES ASSUME k + 1 <= Len(each) PROVE Torn(k + 1)
    OBVIOUS
  <2>2. PICK i : i = k + 1
    OBVIOUS
  <2>3. i \in 0 .. Len(each) /\ i # 0 /\ i - 1 = k /\ k <= Len(each) /\ k \in Nat
    BY <1>1, <2>1, <2>2
  <2>4. g[i] = TearDown(g[k], each[i])
    BY <1>3, <2>3 DEF Tearing
  <2>5. Torn(k)
    BY <2>3
  <2>6. /\ Spared(g[k], g[i]) /\ ~DrivenBy(g[i], each[i])
    BY <2>4, <2>5, TearDownSpares DEF Spared
  <2>7. Spared(s, g[i])
    BY <2>5, <2>6, SparedTwice
  <2>8. ASSUME g[i].driven # None, NEW j \in 1 .. i PROVE s.driven[1].node # each[j]
    <3>1. g[i].driven = s.driven /\ g[k].driven # None
      BY <2>6, <2>7, <2>8 DEF Spared
    <3>2. j \in 1 .. k \/ j = i
      BY <2>2, <2>3
    <3>3. CASE j \in 1 .. k
      BY <2>5, <3>1, <3>3
    <3>4. CASE j = i
      BY <2>6, <2>8, <3>1, <3>4 DEF DrivenBy
    <3> QED BY <3>2, <3>3, <3>4
  <2> QED BY <2>2, <2>7, <2>8
<1>7. T = Nat
  <2> HIDE DEF T
  <2>1. T \subseteq Nat
    BY DEF T
  <2> QED BY <1>5, <1>6, <2>1, SetInduction
<1>8. Torn(Len(each))
  BY <1>1, <1>7
<1> QED BY <1>1, <1>4, <1>8

-----------------------------------------------------------------------------
(* The handlers that start a session here, type, or end a grant. *)

\* on_start asks for the grant; a frame types for the session it names.
LEMMA OnFrameGranted ==
    ASSUME NEW s, NEW R, Granted(s, R), NEW m, NEW f, NEW stale
    PROVE  Granted(OnFrame(s, m, f, stale), R)
<1>0. Told \subseteq DOMAIN s
  BY DEF Granted
<1>1. Granted(OnHi(s, m), R)
  <2> DEFINE r == [s EXCEPT !.peers[m] = [@ EXCEPT !.hi = TRUE, !.link = "warm"]]
  <2>1. Spared(s, r)
    BY <1>0 DEF Spared, Told
  <2>2. OnHi(s, m) = ApplyCapture(r)
    BY DEF OnHi
  <2> HIDE DEF r
  <2>3. Spared(r, ApplyCapture(r))
    BY <2>1, ApplyCaptureSpares DEF Spared
  <2> QED BY <2>1, <2>2, <2>3, SparedGranted
<1>2. Granted(ApplyFlow(s, m, f.session), R)
  <2>1. CASE ~(IsDriven(s, m, f.session) /\ m \notin s.allowed)
    BY <2>1 DEF ApplyFlow
  <2>2. CASE IsDriven(s, m, f.session) /\ m \notin s.allowed
    <3>1. m \in R
      BY <2>2 DEF IsDriven, DrivenBy, Granted
    <3>2. PICK r : r = [s EXCEPT !.typed = @ \union {m}]
      OBVIOUS
    <3>3. ApplyFlow(s, m, f.session) = r
      BY <2>2, <3>2 DEF ApplyFlow
    <3>4. /\ Told \subseteq DOMAIN r /\ r.allowed = s.allowed /\ r.driven = s.driven
          /\ r.typed = s.typed \union {m}
      BY <1>0, <3>2 DEF Told
    <3> QED BY <3>1, <3>3, <3>4 DEF Granted
  <2> QED BY <2>1, <2>2
<1>3. Granted(OnStart(s, m, f.session, stale), R)
  <2> DEFINE k == f.session
             no == m \notin s.allowed \/ Busy(s, m) \/ stale \/ ~s.typable \/ s.locked
  <2>1. CASE no
    <3>1. OnStart(s, m, k, stale) = Send(s, m, Frame("no", k))
      BY <2>1 DEF OnStart
    <3> QED BY <1>0, <3>1, SendSpares, SparedGranted
  <2>2. CASE ~no
    <3> DEFINE free == EndDriven(s, FALSE)
               told == Send(free, m, Frame("ok", k))
               d == Some([node |-> m, session |-> k])
               r == [told EXCEPT !.driven = d]
    <3>1. OnStart(s, m, k, stale) = ApplyCapture(r)
      BY <2>2 DEF OnStart
    <3>2. Spared(s, free)
      BY <1>0, EndDrivenSpares
    <3> HIDE DEF free
    <3>3. Spared(s, told)
      BY <3>2, SendSpares, SparedTwice DEF Spared
    <3>4. d[1].node = m
      BY DEF Some
    <3> HIDE DEF told, d
    <3>5. /\ Told \subseteq DOMAIN r /\ r.allowed = s.allowed /\ r.typed = s.typed
          /\ r.driven = d
      BY <3>3 DEF Spared, Told
    <3> HIDE DEF r
    <3>6. Granted(r, R)
      BY <2>2, <3>4, <3>5 DEF Granted
    <3> QED BY <3>1, <3>5, <3>6, ApplyCaptureSpares, SparedGranted
  <2> QED BY <2>1, <2>2
<1>4. Granted(OnAccepted(s, m, f.session), R)
  <2> DEFINE on == [s EXCEPT !.driving[1].accepted = TRUE, !.peers[m].take = FALSE]
             r == Confine(on, TRUE)
  <2>1. OnAccepted(s, m, f.session) = s \/ OnAccepted(s, m, f.session) = ApplyCapture(r)
    BY DEF OnAccepted
  <2>2. Spared(s, on)
    BY <1>0 DEF Spared, Told
  <2> HIDE DEF on
  <2>3. Spared(on, r)
    BY <2>2 DEF Confine, Spared, Told
  <2> HIDE DEF r
  <2>4. Spared(r, ApplyCapture(r))
    BY <2>3, ApplyCaptureSpares DEF Spared
  <2> QED BY <2>1, <2>2, <2>3, <2>4, SparedGranted
<1>5. Granted(BringHomeQuietly(s), R) /\ Granted(EndDriven(s, FALSE), R)
  BY <1>0, BringHomeQuietlySpares, EndDrivenSpares, SparedGranted
<1>6. Granted(OnRefused(s, m, f.session), R)
  <2> DEFINE home == BringHomeQuietly(s)
             r == [home EXCEPT !.peers[m].backoff = TRUE]
  <2>1. OnRefused(s, m, f.session) = s \/ OnRefused(s, m, f.session) = r
    BY DEF OnRefused
  <2> HIDE DEF home
  <2>2. Spared(home, r)
    BY <1>5 DEF Granted, Spared, Told, home
  <2> HIDE DEF r
  <2> QED BY <1>5, <2>1, <2>2, SparedGranted DEF home
<1>8. OnFrame(s, m, f, stale) \in
        {OnHi(s, m), ApplyFlow(s, m, f.session), OnStart(s, m, f.session, stale),
         OnAccepted(s, m, f.session), OnRefused(s, m, f.session), EndDriven(s, FALSE),
         BringHomeQuietly(s), s}
  BY DEF OnFrame
<1> QED BY <1>1, <1>2, <1>3, <1>4, <1>5, <1>6, <1>8

LEMMA OnFramesGranted ==
    ASSUME NEW s, NEW R, Granted(s, R), NEW m, NEW batch, Len(batch) \in Nat, NEW stale
    PROVE  Granted(OnFrames(s, m, batch, stale), R)
<1>1. PICK g : g = CHOOSE h : Reading(s, m, batch, stale, h, Len(batch))
  OBVIOUS
<1>2. Reading(s, m, batch, stale, g, Len(batch))
  BY <1>1, ReadingExists
<1> DEFINE T == {k \in Nat : k <= Len(batch) => Granted(g[k], R)}
<1>3. 0 \in T
  <2>1. g[0] = s
    BY <1>2 DEF Reading
  <2> QED BY <2>1
<1>4. ASSUME NEW k \in T PROVE k + 1 \in T
  <2>1. SUFFICES ASSUME k + 1 <= Len(batch) PROVE Granted(g[k + 1], R)
    OBVIOUS
  <2>2. PICK i : i = k + 1
    OBVIOUS
  <2>3. i \in 0 .. Len(batch) /\ i # 0 /\ i - 1 = k /\ k <= Len(batch)
    BY <2>1, <2>2
  <2>4. g[i] = OnFrame(g[i - 1], m, batch[i], stale)
    BY <1>2, <2>3 DEF Reading
  <2> QED BY <2>2, <2>3, <2>4, OnFrameGranted
<1>5. T = Nat
  <2> HIDE DEF T
  <2>1. T \subseteq Nat
    BY DEF T
  <2> QED BY <1>3, <1>4, <2>1, SetInduction
<1>6. Granted(g[Len(batch)], R)
  BY <1>5
<1>7. Granted(TearDown(s, m), R)
  BY TearDownSpares, SparedGranted DEF Granted
<1>8. OnFrames(s, m, batch, stale) \in {s, TearDown(s, m), g[Len(batch)]}
  BY <1>1 DEF OnFrames, Reading
<1> QED BY <1>6, <1>7, <1>8

\* A revocation takes the grant and may leave the session; leaving the account takes
\* both.
LEMMA AfterClosedGranted ==
    ASSUME NEW s, NEW R, Granted(s, R), NEW m, NEW reason,
           reason = "DEVICE_REVOKED" => m \in R
    PROVE  Granted(AfterClosed(s, m, reason), R)
<1> DEFINE all == TearDownAll(s, Nodes)
           due == [s EXCEPT !.openDue = TRUE]
           back == [s EXCEPT !.peers[m].backoff = TRUE]
           gone == [s EXCEPT !.allowed = @ \ {m}, !.drives = @ \ {m}, !.peers[m] = ColdPeer]
           left == [all EXCEPT !.allowed = {}, !.drives = {}]
<1>0. Told \subseteq DOMAIN s
  BY DEF Granted
<1>1. Spared(s, all) /\ all.driven = None
  BY <1>0, TearDownAllSpares DEF Granted, Spared
<1> HIDE DEF all
<1>2. Granted(all, R)
  BY <1>1, SparedGranted
<1>3. Granted(due, R) /\ Granted(back, R)
  BY <1>0 DEF Granted, Told
<1>4. ASSUME m \in R PROVE Granted(gone, R)
  <2>1. /\ Told \subseteq DOMAIN gone /\ gone.allowed = s.allowed \ {m}
        /\ gone.typed = s.typed /\ gone.driven = s.driven
    BY <1>0 DEF Told
  <2> HIDE DEF gone
  <2> QED BY <1>4, <2>1 DEF Granted
<1>5. Granted(left, R)
  BY <1>1, <1>2 DEF Granted, Told
<1>6. \/ AfterClosed(s, m, reason) \in {due, back, left, all, s}
      \/ reason = "DEVICE_REVOKED" /\ AfterClosed(s, m, reason) = gone
  BY DEF AfterClosed, all
<1> HIDE DEF due, back, gone, left
<1> QED BY <1>2, <1>3, <1>4, <1>5, <1>6

-----------------------------------------------------------------------------
(* The steps.  A notice of a revocation comes after the revocation, of a pipe *)
(* that is made and keeps its two ends.                                    *)

Revoked(n) == {m \in Nodes : <<n, m>> \in revoked}

NoticesOK ==
    /\ open \subseteq {p \in Pipes : pair[p] # <<>>}
    /\ \A x \in notices : x[3] = "DEVICE_REVOKED" =>
        x[2] \in Pipes /\ pair[x[2]] # <<>> /\ <<x[1], Other(x[2], x[1])>> \in revoked

GrantInv ==
    /\ DOMAIN eng = Nodes /\ DOMAIN pair = Pipes
    /\ revoked \subseteq Nodes \X Nodes
    /\ \A n \in Nodes : Granted(eng[n], Revoked(n))
    /\ NoticesOK

\* What a step that leaves the engines, or changes one of them, has to show.
LEMMA EngineGranted ==
    ASSUME GrantInv, NEW n \in Nodes, NEW r, eng' = [eng EXCEPT ![n] = r],
           Granted(r, Revoked(n)), UNCHANGED revoked
    PROVE  DOMAIN eng' = Nodes /\ \A m \in Nodes : Granted(eng'[m], Revoked(m)')
<1>1. DOMAIN eng' = Nodes /\ \A m \in Nodes : eng'[m] = IF m = n THEN r ELSE eng[m]
  BY DEF GrantInv
<1>2. \A m \in Nodes : Revoked(m)' = Revoked(m)
  BY DEF Revoked
<1> QED BY <1>1, <1>2 DEF GrantInv

LEMMA TurnGranted ==
    ASSUME GrantInv, NEW n \in Nodes, NEW s, NEW r, NEW w, NEW d,
           Granted(s, Revoked(n)), TurnOn(n, s, w, d), UNCHANGED revoked
    PROVE  DOMAIN eng' = Nodes /\ \A m \in Nodes : Granted(eng'[m], Revoked(m)')
<1> DEFINE R == Revoked(n)
<1>0. PICK warmed \in SyncChannels(s) : \E done \in ParkedTakes(warmed) :
        eng' = [eng EXCEPT ![n] = RunEffects(done)]
  BY DEF TurnOn
<1>1. PICK done \in ParkedTakes(warmed) : eng' = [eng EXCEPT ![n] = RunEffects(done)]
  BY <1>0
<1>2. Granted(warmed, R)
  <2>1. PICK dialled, peers : warmed = [s EXCEPT !.openDue = FALSE, !.asks = dialled, !.peers = peers]
    BY DEF SyncChannels
  <2>2. Spared(s, warmed)
    BY <2>1 DEF Granted, Spared, Told
  <2> QED BY <2>2, SparedGranted
<1>3. Granted(done, R)
  <2>1. PICK peers : LET used == [warmed EXCEPT !.peers = peers]
                     IN  done = warmed \/ done = used \/ \E m \in Nodes : done = StartSession(used, m)
    BY DEF ParkedTakes
  <2> DEFINE used == [warmed EXCEPT !.peers = peers]
  <2>2. done = warmed \/ done = used \/ \E m \in Nodes : done = StartSession(used, m)
    BY <2>1
  <2>3. Spared(warmed, used)
    BY <1>2 DEF Granted, Spared, Told
  <2> HIDE DEF used
  <2>4. Granted(used, R)
    BY <1>2, <2>3, SparedGranted
  <2>5. \A m \in Nodes : Granted(StartSession(used, m), R)
    BY <2>4, StartSessionSpares, SparedGranted DEF Granted
  <2> QED BY <1>2, <2>2, <2>4, <2>5
<1>4. Granted(RunEffects(done), R)
  <2>1. Spared(done, RunEffects(done))
    BY <1>3 DEF RunEffects, Granted, Spared, Told
  <2> QED BY <1>3, <2>1, SparedGranted
<1> QED BY <1>1, <1>4, EngineGranted

\* Notices that are kept, or are about no revocation, stay sound while pipes keep their
\* ends and what is revoked stays so.
LEMMA NoticesKept ==
    ASSUME GrantInv, UNCHANGED pair, revoked \subseteq revoked', open' \subseteq open,
           \A x \in notices' : x \in notices \/ x[3] # "DEVICE_REVOKED"
    PROVE  NoticesOK'
<1>1. \A p, n : Other(p, n)' = Other(p, n)
  BY DEF Other, Ends
<1> QED BY <1>1 DEF GrantInv, NoticesOK

\* A turn that leaves the Core alone.
LEMMA QuietTurn ==
    ASSUME GrantInv, NEW n \in Nodes, NEW s, NEW w, NEW d,
           Granted(s, Revoked(n)), TurnOn(n, s, w, d),
           UNCHANGED <<pair, revoked>>, open' \subseteq open,
           \A x \in notices' : x \in notices \/ x[3] # "DEVICE_REVOKED"
    PROVE  GrantInv'
<1>1. NoticesOK'
  BY NoticesKept
<1>2. DOMAIN eng' = Nodes /\ \A m \in Nodes : Granted(eng'[m], Revoked(m)')
  BY TurnGranted
<1> QED BY <1>1, <1>2 DEF GrantInv

LEMMA QuietUserTurn ==
    ASSUME GrantInv, NEW n \in Nodes, NEW s, Granted(s, Revoked(n)), UserTurn(n, s)
    PROVE  GrantInv'
BY QuietTurn DEF UserTurn, Turn

\* A step of the Cores.
LEMMA NoTurnGranted ==
    ASSUME GrantInv, UNCHANGED eng, DOMAIN pair' = Pipes,
           revoked \subseteq revoked', revoked' \subseteq Nodes \X Nodes, NoticesOK'
    PROVE  GrantInv'
<1>1. \A n \in Nodes : Revoked(n) \subseteq Revoked(n)'
  BY DEF Revoked
<1>2. \A n \in Nodes : Granted(eng[n], Revoked(n)')
  BY <1>1 DEF GrantInv, Granted
<1> QED BY <1>2 DEF GrantInv, Granted

-----------------------------------------------------------------------------
(* One lemma per group of actions, as above. *)

LEMMA InitGranted == Init => GrantInv
<1>1. SUFFICES ASSUME Init, NEW n \in Nodes PROVE Granted(Started(n), Revoked(n))
  <2>1. SUFFICES ASSUME Init PROVE GrantInv
    OBVIOUS
  <2>2. \A n \in Nodes : Granted(Started(n), Revoked(n))
    BY <1>1, <2>1
  <2>3. DOMAIN pair = Pipes /\ eng = [n \in Nodes |-> Started(n)]
    BY <2>1, SessionAssumption DEF Init
  <2>4. NoticesOK
    BY <2>1 DEF Init, NoticesOK
  <2>5. revoked = {}
    BY <2>1 DEF Init
  <2> QED BY <2>2, <2>3, <2>4, <2>5 DEF GrantInv
<1> DEFINE old == [able |-> TRUE, typable |-> TRUE, locked |-> FALSE, typed |-> {},
                   known |-> {}, allowed |-> {m \in Nodes : <<m, n>> \in Grants},
                   drives |-> {m \in Nodes : <<n, m>> \in Drives}]
           s == FreshEngine(old)
<1>2. /\ Told \subseteq DOMAIN s /\ s.driven = None /\ s.typed = {}
      /\ s.allowed \subseteq Nodes
  BY DEF FreshEngine, Told
<1>3. PICK opening, peers :
        Started(n) \in {s, ApplyCapture([s EXCEPT !.known = Nodes \ {n}, !.openDue = FALSE,
                                                  !.opening = opening, !.peers = peers])}
  BY DEF Started
<1> DEFINE r == [s EXCEPT !.known = Nodes \ {n}, !.openDue = FALSE, !.opening = opening,
                          !.peers = peers]
<1>4. Started(n) = s \/ Started(n) = ApplyCapture(r)
  BY <1>3
<1> HIDE DEF s
<1>5. Granted(s, Revoked(n))
  BY <1>2 DEF Granted
<1>6. Spared(s, r)
  BY <1>2 DEF Spared, Told
<1> HIDE DEF r
<1>7. Spared(r, ApplyCapture(r))
  BY <1>6, ApplyCaptureSpares DEF Spared
<1> QED BY <1>4, <1>5, <1>6, <1>7, SparedGranted

\* What starts nothing and ends no grant leaves the engine as granted as it was.
LEMMA SparedQuiet ==
    ASSUME GrantInv, NEW n \in Nodes, NEW s, Spared(eng[n], s)
    PROVE  Granted(s, Revoked(n)) /\ Told \subseteq DOMAIN s
BY SparedGranted DEF GrantInv, Spared

LEMMA PipeStepGranted ==
    ASSUME GrantInv, NEW n \in Nodes, NEW p \in Pipes, PipeStep(n, p)
    PROVE  GrantInv'
<1> DEFINE m == Other(p, n)
           e == eng[n]
           idle == [e EXCEPT !.opening = @ \ {m}]
           cooled == [e EXCEPT !.opening = @ \ {m}, !.peers[m] = [Cooled(@) EXCEPT !.backoff = TRUE]]
<1>1. Granted(e, Revoked(n)) /\ Told \subseteq DOMAIN e
  BY DEF GrantInv, Granted
<1>2. Spared(e, idle) /\ Granted(idle, Revoked(n)) /\ Told \subseteq DOMAIN idle
  <2>1. Spared(e, idle)
    BY <1>1 DEF Spared, Told
  <2> HIDE DEF idle
  <2> QED BY <2>1, SparedQuiet
<1>3. CASE OnPeerChannel(n, p)
  <2> DEFINE s == [e EXCEPT !.opening = @ \union {m}]
  <2>1. TurnOn(n, s, wire, dials) /\ UNCHANGED <<pair, revoked, open, notices>>
    BY <1>3 DEF OnPeerChannel, Turn
  <2>2. Spared(e, s)
    BY <1>1 DEF Spared, Told
  <2> HIDE DEF s
  <2>3. Granted(s, Revoked(n))
    BY <2>2, SparedQuiet
  <2> QED BY <2>1, <2>3, QuietTurn
<1>4. CASE Attach(n, p)
  <2> DEFINE s == [e EXCEPT !.opening = @ \ {m},
                            !.peers[m] = [Cooled(@) EXCEPT !.out = p, !.link = "warming"]]
             r == Send(s, m, Frame("hi", 0))
  <2>1. TurnOn(n, r, wire, dials) /\ UNCHANGED <<pair, revoked, open, notices>>
    BY <1>4 DEF Attach, Turn
  <2>2. Spared(e, s)
    BY <1>1 DEF Spared, Told
  <2> HIDE DEF s
  <2>3. Spared(s, r)
    BY <2>2, SendSpares DEF Spared
  <2> HIDE DEF r
  <2>4. Granted(r, Revoked(n))
    BY <2>2, <2>3, SparedTwice, SparedQuiet
  <2> QED BY <2>1, <2>4, QuietTurn
<1>5. CASE AttachFails(n, p)
  <2>1. TurnOn(n, cooled, wire, dials) /\ UNCHANGED <<pair, revoked, open, notices>>
    BY <1>5 DEF AttachFails, Turn, OnOpenFailed
  <2>2. Spared(e, cooled)
    BY <1>1 DEF Spared, Told
  <2> HIDE DEF cooled
  <2>3. Granted(cooled, Revoked(n))
    BY <2>2, SparedQuiet
  <2> QED BY <2>1, <2>3, QuietTurn
<1>6. CASE TaskEnds(n, p)
  <2>1. /\ TurnOn(n, TearDown(idle, m), [wire EXCEPT ![p][n] = <<>>], dials)
        /\ UNCHANGED <<pair, revoked>> /\ open' \subseteq open
    BY <1>6 DEF TaskEnds
  <2>2. \A x \in notices' : x \in notices \/ x[3] # "DEVICE_REVOKED"
    BY <1>6 DEF TaskEnds
  <2> HIDE DEF idle
  <2>3. Granted(TearDown(idle, m), Revoked(n))
    BY <1>2, TearDownSpares, SparedGranted
  <2> QED BY <2>1, <2>2, <2>3, QuietTurn
<1>7. CASE Deliver(n, p)
  <2>1. PICK k \in 1 .. Len(wire[p][n]), stale \in BOOLEAN :
          /\ TurnOn(n, OnFrames(e, m, SubSeq(wire[p][n], 1, k), stale),
                    [wire EXCEPT ![p][n] = SubSeq(@, k + 1, Len(@))], dials)
          /\ UNCHANGED <<pair, revoked, open, notices>>
    BY <1>7 DEF Deliver
  <2> DEFINE batch == SubSeq(wire[p][n], 1, k)
             w == [wire EXCEPT ![p][n] = SubSeq(@, k + 1, Len(@))]
  <2>2. Len(batch) \in Nat
    OBVIOUS
  <2>3. TurnOn(n, OnFrames(e, m, batch, stale), w, dials)
    BY <2>1
  <2> HIDE DEF batch, w
  <2>4. Granted(OnFrames(e, m, batch, stale), Revoked(n))
    BY <1>1, <2>2, OnFramesGranted
  <2> QED BY <2>1, <2>3, <2>4, QuietTurn
<1>8. ASSUME NEW reason \in Reasons, ChannelClosed(n, p, reason) PROVE GrantInv'
  <2>1. PICK fresh : Turn(n, AfterClosed(IF fresh THEN idle ELSE TearDown(idle, m), m, reason))
    BY <1>8 DEF ChannelClosed
  <2>2. /\ UNCHANGED <<pair, revoked, open>> /\ notices' \subseteq notices
        /\ <<n, p, reason>> \in notices /\ m \in idle.known
    BY <1>8 DEF ChannelClosed
  <2> DEFINE s == IF fresh THEN idle ELSE TearDown(idle, m)
  <2>3. reason = "DEVICE_REVOKED" => m \in Revoked(n)
    <3>1. ASSUME reason = "DEVICE_REVOKED" PROVE <<n, m>> \in revoked
      BY <2>2, <3>1 DEF GrantInv, NoticesOK
    <3> QED BY <3>1 DEF GrantInv, Revoked
  <2> HIDE DEF idle
  <2>4. Granted(s, Revoked(n))
    BY <1>2, TearDownSpares, SparedGranted
  <2> HIDE DEF s
  <2>5. Granted(AfterClosed(s, m, reason), Revoked(n))
    BY <2>3, <2>4, AfterClosedGranted
  <2>6. TurnOn(n, AfterClosed(s, m, reason), wire, dials)
    BY <2>1 DEF Turn, s
  <2> QED BY <2>2, <2>5, <2>6, QuietTurn
<1>9. ASSUME NEW reason \in Reasons, NoticeDropped(n, p, reason) PROVE GrantInv'
  <2>1. /\ TurnOn(n, e, wire, dials) /\ UNCHANGED <<pair, revoked, open>>
        /\ notices' \subseteq notices
    BY <1>9 DEF NoticeDropped, Turn
  <2> QED BY <1>1, <2>1, QuietTurn
<1> QED BY <1>3, <1>4, <1>5, <1>6, <1>7, <1>8, <1>9 DEF PipeStep

LEMMA PairStepGranted ==
    ASSUME GrantInv, NEW n \in Nodes, NEW m \in Nodes, PairStep(n, m)
    PROVE  GrantInv'
<1> DEFINE e == eng[n]
<1>1. Granted(e, Revoked(n)) /\ Told \subseteq DOMAIN e
  BY DEF GrantInv, Granted
<1>2. CASE CoreOpens(n, m)
  <2>1. PICK p \in Pipes, far \in {"REPLACED", "CLOSED"} :
          LET old == Between(n, m)
          IN  /\ pair[p] = <<>> /\ pair' = [pair EXCEPT ![p] = <<n, m>>]
              /\ open' = (open \ old) \union {p}
              /\ notices' = notices \union {<<n, q, "REPLACED">> : q \in old}
                                    \union {<<m, q, far>> : q \in old}
              /\ UNCHANGED <<eng, revoked>>
    BY <1>2 DEF CoreOpens
  <2>2. DOMAIN pair' = Pipes /\ \A q \in Pipes : pair'[q] = IF q = p THEN <<n, m>> ELSE pair[q]
    BY <2>1 DEF GrantInv
  <2>3. NoticesOK'
    <3>1. open' \subseteq {q \in Pipes : pair'[q] # <<>>}
      BY <2>1, <2>2 DEF GrantInv, NoticesOK
    <3>2. ASSUME NEW x \in notices', x[3] = "DEVICE_REVOKED"
          PROVE  /\ x[2] \in Pipes /\ pair'[x[2]] # <<>>
                 /\ <<x[1], Other(x[2], x[1])'>> \in revoked
      <4>1. x \in notices
        BY <2>1, <3>2
      <4>2. x[2] \in Pipes /\ pair[x[2]] # <<>> /\ <<x[1], Other(x[2], x[1])>> \in revoked
        BY <3>2, <4>1 DEF GrantInv, NoticesOK
      <4>3. pair'[x[2]] = pair[x[2]]
        BY <2>1, <2>2, <4>2
      <4>4. Other(x[2], x[1])' = Other(x[2], x[1])
        BY <4>3 DEF Other, Ends
      <4> QED BY <4>2, <4>3, <4>4
    <3> QED BY <2>1, <3>1, <3>2 DEF NoticesOK
  <2> QED BY <2>1, <2>2, <2>3, NoTurnGranted DEF GrantInv
<1>3. CASE DialFails(n, m)
  <2> DEFINE s == OnOpenFailed(e, m)
  <2>1. TurnOn(n, s, wire, dials \ {<<n, m>>}) /\ UNCHANGED <<pair, revoked, open, notices>>
    BY <1>3 DEF DialFails
  <2>2. Spared(e, s)
    BY <1>1 DEF OnOpenFailed, Spared, Told
  <2> HIDE DEF s
  <2>3. Granted(s, Revoked(n))
    BY <2>2, SparedQuiet
  <2> QED BY <2>1, <2>3, QuietTurn
<1>4. CASE Revoke(n, m)
  <2>1. /\ n # m /\ revoked' = revoked \union {<<n, m>>} /\ CoreEnds(n, {m}, "DEVICE_REVOKED")
    BY <1>4 DEF Revoke
  <2> DEFINE mine == {p \in open : \E q \in {m} : Ends(p) = {n, q}}
  <2>2. /\ open' = open \ mine /\ UNCHANGED <<eng, pair>>
        /\ notices' = notices \union ({n} \X mine \X {"DEVICE_REVOKED"})
                              \union {<<Other(p, n), p, "CLOSED">> : p \in mine}
    BY <2>1 DEF CoreEnds
  <2>3. \A p, q : Other(p, q)' = Other(p, q)
    BY <2>2 DEF Other, Ends
  <2>4. \A p \in mine : Other(p, n) = m /\ p \in Pipes /\ pair[p] # <<>>
    BY <2>1 DEF Other, GrantInv, NoticesOK
  <2> HIDE DEF mine
  <2>5. NoticesOK'
    <3>1. ASSUME NEW x \in notices', x[3] = "DEVICE_REVOKED"
          PROVE  /\ x[2] \in Pipes /\ pair[x[2]] # <<>>
                 /\ <<x[1], Other(x[2], x[1])>> \in revoked'
      <4>1. CASE x \in notices
        BY <2>1, <3>1, <4>1 DEF GrantInv, NoticesOK
      <4>2. CASE x \in {n} \X mine \X {"DEVICE_REVOKED"}
        BY <2>1, <2>4, <4>2
      <4> QED BY <2>2, <3>1, <4>1, <4>2
    <3> QED BY <2>2, <2>3, <3>1 DEF GrantInv, NoticesOK
  <2> QED BY <2>1, <2>2, <2>5, NoTurnGranted DEF GrantInv
<1>5. CASE Take(n, m)
  <2> DEFINE asked == [e EXCEPT !.openDue = TRUE,
                         !.peers[m] = [@ EXCEPT !.backoff = FALSE, !.take = TRUE]]
             on == StartSession(asked, m)
             s == [on EXCEPT !.peers[m].take = ~CanStart(asked, m)]
  <2>1. UserTurn(n, s)
    BY <1>5 DEF Take
  <2>2. Spared(e, asked)
    BY <1>1 DEF Spared, Told
  <2> HIDE DEF asked
  <2>3. Spared(asked, on)
    BY <2>2, StartSessionSpares DEF Spared
  <2> HIDE DEF on
  <2>4. Spared(on, s)
    BY <2>3 DEF Spared, Told
  <2> HIDE DEF s
  <2>5. Granted(s, Revoked(n))
    BY <2>2, <2>3, <2>4, SparedTwice, SparedQuiet
  <2> QED BY <2>1, <2>5, QuietUserTurn
<1>6. CASE Cross(n, m)
  <2> DEFINE due == [e EXCEPT !.openDue = TRUE]
             s == IF e.peers[m].link = "warm" THEN StartSession(e, m) ELSE due
  <2>1. UserTurn(n, s)
    BY <1>6 DEF Cross
  <2>2. Spared(e, due)
    BY <1>1 DEF Spared, Told
  <2> HIDE DEF due
  <2>3. Spared(e, s)
    BY <1>1, <2>2, StartSessionSpares
  <2> HIDE DEF s
  <2> QED BY <2>1, <2>3, SparedQuiet, QuietUserTurn
<1>7. CASE HandOver(n, m)
  <2> DEFINE home == BringHome(e)
  <2>1. UserTurn(n, StartSession(home, m))
    BY <1>7 DEF HandOver
  <2>2. Spared(e, home)
    BY <1>1, BringHomeSpares
  <2> HIDE DEF home
  <2>3. Spared(home, StartSession(home, m))
    BY <2>2, StartSessionSpares DEF Spared
  <2>4. Granted(StartSession(home, m), Revoked(n))
    BY <2>2, <2>3, SparedTwice, SparedQuiet
  <2> QED BY <2>1, <2>4, QuietUserTurn
<1>8. ASSUME NEW yes \in BOOLEAN, Allow(n, m, yes) PROVE GrantInv'
  <2> DEFINE s == [e EXCEPT !.allowed = IF yes THEN @ \union {m} ELSE @ \ {m}]
             over == EndDriven(s, TRUE)
             ends == ~yes /\ DrivenBy(s, m)
  <2>1. UserTurn(n, IF ends THEN over ELSE s)
    BY <1>8 DEF Allow
  <2>2. /\ Told \subseteq DOMAIN s /\ s.typed = e.typed /\ s.driven = e.driven
        /\ s.allowed = IF yes THEN e.allowed \union {m} ELSE e.allowed \ {m}
    BY <1>1 DEF Told
  <2> HIDE DEF s
  <2>3. ASSUME ~ends PROVE Granted(s, Revoked(n))
    BY <1>1, <2>2, <2>3 DEF Granted, DrivenBy
  <2>4. ASSUME ends PROVE Granted(over, Revoked(n))
    <3>1. Spared(s, over) /\ over.driven = None
      BY <2>2, EndDrivenSpares
    <3> HIDE DEF over
    <3> QED BY <1>1, <2>2, <2>4, <3>1 DEF Granted, Spared
  <2> HIDE DEF over, ends
  <2> QED BY <2>1, <2>3, <2>4, QuietUserTurn
<1>9. ASSUME NEW yes \in BOOLEAN, Drive(n, m, yes) PROVE GrantInv'
  <2> DEFINE s == [e EXCEPT !.drives = IF yes THEN @ \union {m} ELSE @ \ {m}]
             home == BringHome(s)
  <2>1. UserTurn(n, IF ~yes /\ DrivesNow(s, m) THEN home ELSE s)
    BY <1>9 DEF Drive
  <2>2. Spared(e, s)
    BY <1>1 DEF Spared, Told
  <2> HIDE DEF s
  <2>3. Spared(s, home)
    BY <2>2, BringHomeSpares DEF Spared
  <2> HIDE DEF home
  <2>4. Granted(s, Revoked(n)) /\ Granted(home, Revoked(n))
    BY <2>2, <2>3, SparedTwice, SparedQuiet
  <2> QED BY <2>1, <2>4, QuietUserTurn
<1> QED BY <1>2, <1>3, <1>4, <1>5, <1>6, <1>7, <1>8, <1>9 DEF PairStep

LEMMA DeskGranted ==
    ASSUME GrantInv, NEW n \in Nodes, NEW able \in BOOLEAN, NEW typable \in BOOLEAN,
           \/ CapabilitiesChanged(n, able, typable) \/ MonitorsChanged(n, able, typable)
           \/ CaptureLost(n, able, typable)
    PROVE  GrantInv'
<1> DEFINE e == eng[n]
           s == [e EXCEPT !.able = able, !.typable = typable]
           home == BringHome(s)
<1>1. Granted(e, Revoked(n)) /\ Told \subseteq DOMAIN e
  BY DEF GrantInv, Granted
<1>2. Spared(e, s)
  BY <1>1 DEF Spared, Told
<1>3. CASE CapabilitiesChanged(n, able, typable)
  <2> DEFINE at == IF able THEN s ELSE home
             r == IF typable THEN at ELSE EndDriven(at, TRUE)
  <2>1. UserTurn(n, ApplyCapture(r))
    BY <1>3 DEF CapabilitiesChanged
  <2> HIDE DEF s
  <2>2. Spared(s, home)
    BY <1>2, BringHomeSpares DEF Spared
  <2> HIDE DEF home
  <2>3. Spared(e, at)
    BY <1>2, <2>2, SparedTwice
  <2> HIDE DEF at
  <2>4. Spared(at, EndDriven(at, TRUE))
    BY <2>3, EndDrivenSpares DEF Spared
  <2>5. Spared(e, r)
    BY <2>3, <2>4, SparedTwice
  <2> HIDE DEF r
  <2>6. Spared(r, ApplyCapture(r))
    BY <2>5, ApplyCaptureSpares DEF Spared
  <2>7. Granted(ApplyCapture(r), Revoked(n))
    BY <2>5, <2>6, SparedTwice, SparedQuiet
  <2> QED BY <2>1, <2>7, QuietUserTurn
<1>4. CASE MonitorsChanged(n, able, typable)
  <2> DEFINE at == ApplyCapture(s)
             r == [at EXCEPT !.openDue = TRUE]
  <2>1. UserTurn(n, r)
    BY <1>4 DEF MonitorsChanged
  <2> HIDE DEF s
  <2>2. Spared(s, at)
    BY <1>2, ApplyCaptureSpares DEF Spared
  <2> HIDE DEF at
  <2>3. Spared(at, r)
    BY <2>2 DEF Spared, Told
  <2> HIDE DEF r
  <2>4. Granted(r, Revoked(n))
    BY <1>2, <2>2, <2>3, SparedTwice, SparedQuiet
  <2> QED BY <2>1, <2>4, QuietUserTurn
<1>5. CASE CaptureLost(n, able, typable)
  <2> DEFINE r == [home EXCEPT !.sent = "unset"]
  <2>1. UserTurn(n, ApplyCapture(r))
    BY <1>5 DEF CaptureLost
  <2> HIDE DEF s
  <2>2. Spared(s, home)
    BY <1>2, BringHomeSpares DEF Spared
  <2> HIDE DEF home
  <2>3. Spared(home, r)
    BY <2>2 DEF Spared, Told
  <2> HIDE DEF r
  <2>4. Spared(r, ApplyCapture(r))
    BY <2>3, ApplyCaptureSpares DEF Spared
  <2>5. Spared(e, r)
    BY <1>2, <2>2, <2>3, SparedTwice
  <2>6. Granted(ApplyCapture(r), Revoked(n))
    BY <2>4, <2>5, SparedTwice, SparedQuiet
  <2> QED BY <2>1, <2>6, QuietUserTurn
<1> QED BY <1>3, <1>4, <1>5

LEMMA NodeStepGranted ==
    ASSUME HoldInv, GrantInv, NEW n \in Nodes, NodeStep(n)
    PROVE  GrantInv'
<1> DEFINE e == eng[n]
           home == BringHome(e)
           over == EndDriven(e, TRUE)
<1>1. Granted(e, Revoked(n)) /\ Told \subseteq DOMAIN e
  BY DEF GrantInv, Granted
<1>2. Granted(home, Revoked(n)) /\ Granted(over, Revoked(n))
  BY <1>1, BringHomeSpares, EndDrivenSpares, SparedGranted
<1>3. CASE SetDirectory(n)
  <2> DEFINE now == {m \in Nodes \ {n} : <<n, m>> \notin revoked}
             gone == e.known \ now
             all == TearDownAll(e, gone)
             peers == [m \in Nodes |-> IF m \in gone THEN ColdPeer ELSE all.peers[m]]
             s == [all EXCEPT !.known = now, !.openDue = TRUE, !.peers = peers]
  <2>1. TurnOn(n, s, wire, dials) /\ UNCHANGED <<pair, revoked, open, notices>>
    BY <1>3 DEF SetDirectory, Turn
  <2>2. Spared(e, all)
    <3>1. gone \subseteq Nodes
      BY DEF HoldInv, Sound, Kept
    <3> HIDE DEF gone
    <3> QED BY <1>1, <3>1, TearDownAllSpares
  <2> HIDE DEF all, peers, now
  <2>3. Spared(all, s)
    BY <2>2 DEF Spared, Told
  <2> HIDE DEF s
  <2>4. Granted(s, Revoked(n))
    BY <2>2, <2>3, SparedTwice, SparedQuiet
  <2> QED BY <2>1, <2>4, QuietTurn
<1>4. CASE Sweep(n)
  <2> DEFINE s == [e EXCEPT !.openDue = TRUE]
  <2>1. TurnOn(n, s, wire, dials) /\ UNCHANGED <<pair, revoked, open, notices>>
    BY <1>4 DEF Sweep, Turn
  <2>2. Spared(e, s)
    BY <1>1 DEF Spared, Told
  <2> HIDE DEF s
  <2>3. Granted(s, Revoked(n))
    BY <2>2, SparedQuiet
  <2> QED BY <2>1, <2>3, QuietTurn
<1>5. CASE Type(n)
  <2> DEFINE s == Send(e, e.driving[1].node, Frame("key", e.driving[1].session))
  <2>1. UserTurn(n, s)
    BY <1>5 DEF Type
  <2>2. Granted(s, Revoked(n))
    BY <1>1, SendSpares, SparedGranted
  <2> QED BY <2>1, <2>2, QuietUserTurn
<1>6. CASE Release(n)
  <2>1. UserTurn(n, IF e.driving # None THEN home ELSE over)
    BY <1>6 DEF Release
  <2> HIDE DEF home, over
  <2> QED BY <1>2, <2>1, QuietUserTurn
<1>7. CASE Stall(n)
  BY <1>2, <1>7, QuietUserTurn DEF Stall
<1>8. CASE Idle(n)
  BY <1>2, <1>8, QuietUserTurn DEF Idle
<1>9. CASE Hang(n)
  <2>1. UNCHANGED <<eng, pair, open, notices, revoked>>
    BY <1>9 DEF Hang
  <2>2. NoticesOK'
    BY <2>1, NoticesKept
  <2> QED BY <2>1, <2>2, NoTurnGranted DEF GrantInv
<1>10. ASSUME NEW yes \in BOOLEAN, Lock(n, yes) PROVE GrantInv'
  <2> DEFINE s == [e EXCEPT !.locked = yes]
             back == BringHome(s)
             r == EndDriven(back, TRUE)
  <2>1. UserTurn(n, IF yes THEN r ELSE s)
    BY <1>10 DEF Lock
  <2>2. Spared(e, s)
    BY <1>1 DEF Spared, Told
  <2> HIDE DEF s
  <2>3. Spared(s, back)
    BY <2>2, BringHomeSpares DEF Spared
  <2> HIDE DEF back
  <2>4. Spared(back, r)
    BY <2>3, EndDrivenSpares DEF Spared
  <2> HIDE DEF r
  <2>5. Granted(s, Revoked(n)) /\ Granted(r, Revoked(n))
    BY <2>2, <2>3, <2>4, SparedTwice, SparedQuiet
  <2> QED BY <2>1, <2>5, QuietUserTurn
<1>11. ASSUME NEW yes \in BOOLEAN, Restart(n, yes) PROVE GrantInv'
  <2> DEFINE old == [e EXCEPT !.known = {}]
             r == FreshEngine(old)
  <2>1. /\ eng' = [eng EXCEPT ![n] = r] /\ UNCHANGED <<pair, revoked>>
        /\ open' \subseteq open
    BY <1>11 DEF Restart
  <2>2. \A x \in notices' : x \in notices \/ x[3] # "DEVICE_REVOKED"
    BY <1>11 DEF Restart
  <2>3. NoticesOK'
    BY <2>1, <2>2, NoticesKept
  <2>4. /\ Told \subseteq DOMAIN r /\ r.driven = None
        /\ r.allowed = e.allowed /\ r.typed = e.typed
    BY <1>1 DEF FreshEngine, Told
  <2> HIDE DEF r
  <2>5. Granted(r, Revoked(n))
    BY <1>1, <2>4 DEF Granted
  <2>6. DOMAIN eng' = Nodes /\ \A m \in Nodes : Granted(eng'[m], Revoked(m)')
    BY <2>1, <2>5, EngineGranted
  <2> QED BY <2>1, <2>3, <2>6 DEF GrantInv
<1>12. ASSUME NEW reason \in {"ACCOUNT_LEFT", "LOGGED_OUT"}, Leave(n, reason) PROVE GrantInv'
  <2>1. UNCHANGED <<eng, pair, revoked>> /\ open' \subseteq open
    BY <1>12 DEF Leave, CoreEnds
  <2>2. \A x \in notices' : x \in notices \/ x[3] # "DEVICE_REVOKED"
    BY <1>12 DEF Leave, CoreEnds
  <2>3. NoticesOK'
    BY <2>1, <2>2, NoticesKept
  <2> QED BY <2>1, <2>3, NoTurnGranted DEF GrantInv
<1> QED BY <1>3, <1>4, <1>5, <1>6, <1>7, <1>8, <1>9, <1>10, <1>11, <1>12, DeskGranted
        DEF NodeStep

LEMMA NextGranted ==
    ASSUME HoldInv, GrantInv, [Next]_vars
    PROVE  GrantInv'
<1>1. CASE UNCHANGED vars
  <2>1. UNCHANGED <<eng, pair, open, notices, revoked>>
    BY <1>1 DEF vars
  <2>2. NoticesOK'
    BY <2>1, NoticesKept
  <2> QED BY <2>1, <2>2, NoTurnGranted DEF GrantInv
<1>2. ASSUME NEW p \in Pipes, Cut(p) PROVE GrantInv'
  <2>1. UNCHANGED <<eng, pair, revoked>> /\ open' \subseteq open
    BY <1>2 DEF Cut
  <2>2. \A x \in notices' : x \in notices \/ x[3] # "DEVICE_REVOKED"
    BY <1>2 DEF Cut
  <2>3. NoticesOK'
    BY <2>1, <2>2, NoticesKept
  <2> QED BY <2>1, <2>3, NoTurnGranted DEF GrantInv
<1> QED BY <1>1, <1>2, NodeStepGranted, PairStepGranted, PipeStepGranted DEF Next

\* A machine is typed on by those it allows, and by none whose grant has ended
\* (input.allow, a leave, a restart, a lock) but a device it has revoked, whose session
\* may outlive the grant: on_start, apply_flow and on_channel_closed of
\* input/src/session.rs.
THEOREM TypesOnlyWithGrantTheorem == Spec => []TypesOnlyWithGrant
<1>1. Init => HoldInv /\ GrantInv
  BY InitGranted, InitSound
<1>2. HoldInv /\ GrantInv /\ [Next]_vars => HoldInv' /\ GrantInv'
  BY NextGranted, NextSound
<1>3. GrantInv => TypesOnlyWithGrant
  BY DEF GrantInv, Granted, Revoked, TypesOnlyWithGrant
<1> QED BY <1>1, <1>2, <1>3, PTL DEF Spec

=============================================================================
