--------------------------- MODULE Pairing_proofs ----------------------------
(***************************************************************************)
(* Proofs about Pairing: it implements Handover, for any devices, accounts *)
(* and starting points, and for any number of pairings, codes and faults.  *)
(***************************************************************************)
EXTENDS Pairing, FiniteSetTheorems, WellFoundedInduction, TLAPS

-----------------------------------------------------------------------------
(* Induction over a set of naturals. *)
LEMMA SetInduction ==
    ASSUME NEW T, T \subseteq Nat, 0 \in T, \A n \in T : n + 1 \in T
    PROVE  T = Nat
<1> DEFINE S == Nat \ T
           R == {ss \in Nat \X Nat : ss[1] < ss[2]}
<1>1. SUFFICES ASSUME S # {} PROVE FALSE
  OBVIOUS
<1>2. IsWellFoundedOn(R, Nat)
  BY NatLessThanWellFounded DEF OpToRel
<1>3. \E m \in S : \A y \in S : ~ (<<y, m>> \in R)
  BY <1>1, <1>2, WFMin
<1>4. PICK m \in S : \A y \in S : ~ (y < m)
  BY <1>3
<1>5. m \in Nat /\ m # 0 /\ m - 1 \in Nat /\ m - 1 < m
  OBVIOUS
<1>6. m - 1 \in T
  BY <1>4, <1>5
<1>7. (m - 1) + 1 = m
  BY <1>5
<1> QED BY <1>6, <1>7

(* What is left of an inbox is part of it. *)
Filter(q, conns, g, n) ==
    g = [i \in 0..n |->
           IF i = 0 THEN <<>>
           ELSE IF q[i].conn \in conns THEN g[i - 1] ELSE Append(g[i - 1], q[i])]

LEMMA FilterExists ==
    ASSUME NEW q, NEW conns, NEW n \in Nat
    PROVE  \E g : Filter(q, conns, g, n)
<1> DEFINE T == {k \in Nat : \E g : Filter(q, conns, g, k)}
<1>1. 0 \in T
  <2> DEFINE g == [i \in 0..0 |-> <<>>]
  <2>1. Filter(q, conns, g, 0)
    BY DEF Filter
  <2> QED BY <2>1
<1>2. ASSUME NEW k \in T PROVE k + 1 \in T
  <2>1. PICK g : Filter(q, conns, g, k)
    OBVIOUS
  <2>2. PICK last : last = IF q[k + 1].conn \in conns THEN g[k] ELSE Append(g[k], q[k + 1])
    OBVIOUS
  <2>3. PICK h : h = [i \in 0..(k + 1) |-> IF i = k + 1 THEN last ELSE g[i]]
    OBVIOUS
  <2>4. k \in Nat /\ k + 1 \in Nat
    OBVIOUS
  <2>5. h[k + 1] = last /\ \A i \in 0..k : h[i] = g[i]
    BY <2>3, <2>4
  <2>6. h[0] = <<>>
    BY <2>1, <2>4, <2>5 DEF Filter
  <2>7. ASSUME NEW i \in 1..k
        PROVE  h[i] = IF q[i].conn \in conns THEN h[i - 1] ELSE Append(h[i - 1], q[i])
    <3>1. i \in 0..k /\ i - 1 \in 0..k /\ i # 0
      BY <2>4
    <3>2. g[i] = IF q[i].conn \in conns THEN g[i - 1] ELSE Append(g[i - 1], q[i])
      BY <2>1, <3>1 DEF Filter
    <3> QED BY <2>5, <3>1, <3>2
  <2>8. h[k + 1] = IF q[k + 1].conn \in conns THEN h[(k + 1) - 1]
                   ELSE Append(h[(k + 1) - 1], q[k + 1])
    <3>1. (k + 1) - 1 = k /\ k \in 0..k
      BY <2>4
    <3> QED BY <2>2, <2>5, <3>1
  <2>9. Filter(q, conns, h, k + 1)
    <3>1. \A i \in 0..(k + 1) : i = 0 \/ i \in 1..k \/ i = k + 1
      BY <2>4
    <3>2. \A i \in 0..(k + 1) : h[i] =
             IF i = 0 THEN <<>>
             ELSE IF q[i].conn \in conns THEN h[i - 1] ELSE Append(h[i - 1], q[i])
      BY <2>4, <2>6, <2>7, <2>8, <3>1
    <3>3. h = [i \in 0..(k + 1) |-> h[i]]
      BY <2>3
    <3> QED BY <3>2, <3>3 DEF Filter
  <2> QED BY <2>4, <2>9
<1>3. T = Nat
  BY <1>1, <1>2, SetInduction
<1> QED BY <1>3

LEMMA FilterIn ==
    ASSUME NEW S, NEW q \in Seq(S), NEW conns, NEW g, Filter(q, conns, g, Len(q))
    PROVE  g[Len(q)] \in Seq(S)
<1> DEFINE T == {k \in Nat : k <= Len(q) => g[k] \in Seq(S)}
<1>1. Len(q) \in Nat
  OBVIOUS
<1>2. 0 \in T
  <2>1. g[0] = <<>>
    BY <1>1 DEF Filter
  <2>2. g[0] \in Seq(S)
    BY <2>1
  <2> QED BY <2>2
<1>3. ASSUME NEW k \in T PROVE k + 1 \in T
  <2>1. SUFFICES ASSUME k + 1 <= Len(q) PROVE g[k + 1] \in Seq(S)
    OBVIOUS
  <2>2. k \in Nat /\ k <= Len(q) /\ k + 1 \in 1..Len(q) /\ (k + 1) - 1 = k
    BY <1>1, <2>1
  <2>3. g[k] \in Seq(S) /\ q[k + 1] \in S
    BY <2>2
  <2>4. g[k + 1] = IF q[k + 1].conn \in conns THEN g[k] ELSE Append(g[k], q[k + 1])
    <3>1. PICK i : i = k + 1
      OBVIOUS
    <3>2. i \in 0..Len(q) /\ i # 0 /\ i - 1 = k
      BY <1>1, <2>2, <3>1
    <3>3. g[i] = IF i = 0 THEN <<>>
                 ELSE IF q[i].conn \in conns THEN g[i - 1] ELSE Append(g[i - 1], q[i])
      BY <3>2 DEF Filter
    <3> QED BY <3>1, <3>2, <3>3
  <2> QED BY <2>3, <2>4
<1>4. T = Nat
  BY <1>2, <1>3, SetInduction
<1> QED BY <1>1, <1>4

LEMMA UndeliveredIn ==
    ASSUME NEW S, NEW q \in Seq(S), NEW conns
    PROVE  Undelivered(q, conns) \in Seq(S)
<1>1. \E g : Filter(q, conns, g, Len(q))
  <2>1. Len(q) \in Nat
    OBVIOUS
  <2> QED BY <2>1, FilterExists
<1>2. PICK g : g = CHOOSE h : Filter(q, conns, h, Len(q))
  OBVIOUS
<1>3. Filter(q, conns, g, Len(q))
  BY <1>1, <1>2
<1>4. Undelivered(q, conns) = g[Len(q)]
  BY <1>2 DEF Undelivered, Filter
<1> QED BY <1>3, <1>4, FilterIn

-----------------------------------------------------------------------------
(* The inductive invariant.  A decision is kept until the device it names  *)
(* has used it; so every sealed bundle has its decision beside it, or the  *)
(* pairing it was sealed for can take no key any more.                     *)

Epochs == 1..Len(who)

\* A key is between two pairings of two devices, e being one of the two.
KeyOf(key, e) ==
    /\ key = ChannelKey(key.o, key.c)
    /\ key.o \in Epochs /\ key.c \in Epochs /\ who[key.o] # who[key.c]
    /\ e \in {key.o, key.c}
Far(key, e) == IF e = key.o THEN key.c ELSE key.o

\* The pairing of epoch e is still to take its slot.
Starting(e) == \E d \in Device : job[d].op \in {"create", "claim", "lan"} /\ job[d].epoch = e

\* The device of epoch x hands the key over in that pairing and never takes it.
NeverJoins(x) ==
    /\ ~Starting(x)
    /\ \A d \in Device : slot[d].epoch = x => slot[d].role = "sponsor" /\ slot[d].key # NoKey
    /\ \A t \in tasks : t.epoch = x => t.kind = "sponsor"

\* The device of epoch y has taken what this pairing will give it.
Spent(y) ==
    /\ ~Starting(y)
    /\ \A d \in Device : slot[d].epoch = y => slot[d].wire = "lan" /\ slot[d].key # NoKey
    /\ \A t \in tasks : t.epoch = y => t.pc = "enter"

Grant(d, key) == [to |-> d, by |-> key]

\* Something sealed for key: a human decided for its far end, which may have
\* used the decision already.
Handed(key) ==
    \E x \in {key.o, key.c} :
       /\ KeyOf(key, x) /\ NeverJoins(x)
       /\ Spent(Far(key, x)) \/ Grant(who[Far(key, x)], key) \in granted

BundleOK(b) == Handed(b.key) /\ b.acct \in Account

SlotOK(d, s) ==
    \/ s = NoSlot
    \/ /\ s = [epoch |-> s.epoch, id |-> s.id, role |-> s.role, wire |-> s.wire,
               key |-> s.key, secret |-> s.secret, confirm |-> s.confirm]
       /\ s.epoch \in Epochs /\ who[s.epoch] = d
       /\ s.role \in {"sponsor", "joiner"}
       /\ s.key = NoKey \/ KeyOf(s.key, s.epoch)
       /\ s.secret => s.key = NoKey

\* A slot and a task of the same pairing agree.
Agree(s, t) ==
    /\ s.wire = "lan" /\ t.key = s.key /\ s.key # NoKey
    /\ t.kind = s.role
SlotsOK ==
    /\ slot = [d \in Device |-> slot[d]]
    /\ \A d \in Device : SlotOK(d, slot[d])
    /\ \A d \in Device, t \in tasks : slot[d].epoch = t.epoch /\ t.epoch # 0 => Agree(slot[d], t)

JobOK(d, j) ==
    /\ j = [op |-> j.op, st |-> j.st, epoch |-> j.epoch, id |-> j.id, role |-> j.role,
            wire |-> j.wire, key |-> j.key, bundle |-> j.bundle]
    /\ j.op # "idle" => j.epoch \in Epochs /\ who[j.epoch] = d
    /\ j.op = "create" => j.id = j.epoch /\ j.role \in {"sponsor", "joiner"}
    /\ j.op \in {"claim", "lan"} => KeyOf(j.key, j.epoch) /\ j.key.c = j.epoch
    /\ j.op = "claim" => j.key.o = j.id
    /\ j.op \in {"approve", "reapprove"} => BundleOK(j.bundle)
JobsOK ==
    /\ job = [d \in Device |-> job[d]]
    /\ \A d \in Device : JobOK(d, job[d])
    /\ \A d \in Device : job[d].op \in {"create", "claim", "lan"} =>
          /\ slot[d].epoch # job[d].epoch
          /\ \A t \in tasks : t.epoch # job[d].epoch

OnLan(key) == \E x \in lan : x.o = key.o /\ x.c = key.c
TaskOK(t) ==
    /\ t = [dev |-> t.dev, kind |-> t.kind, pc |-> t.pc, epoch |-> t.epoch, id |-> t.id,
            key |-> t.key, acct |-> t.acct, peer |-> t.peer]
    /\ t.dev \in Device
    /\ t.kind \in {"complete", "sponsor", "joiner", "code"}
    /\ t.kind = "code" => /\ t.epoch = 0 /\ t.key = ChannelKey(0, t.key.c)
                          /\ t.key.c \in 1..typed
    /\ t.kind # "code" => /\ t.epoch \in Epochs /\ who[t.epoch] = t.dev
                          /\ KeyOf(t.key, t.epoch)
    /\ t.kind \in {"sponsor", "joiner"} => OnLan(t.key)
    /\ t.pc \in {"stow", "commit"} => /\ t.kind # "sponsor" /\ t.acct \in Account
                                      /\ Grant(t.dev, t.key) \in granted
    /\ t.pc = "seal" => t.kind = "sponsor" /\ Handed(t.key)
    /\ t.pc = "enter" => t.kind # "sponsor"
TasksOK ==
    /\ \A t \in tasks : TaskOK(t)
    /\ \A t, u \in tasks : t.epoch = u.epoch /\ t.epoch # 0 => t = u
    /\ \A t, u \in tasks : t.key = u.key /\ t.epoch = 0 => t = u

StreamOK(x) ==
    /\ x = [o |-> x.o, c |-> x.c, frame |-> x.frame, dialer |-> x.dialer,
            displayer |-> x.displayer, bundle |-> x.bundle]
    /\ KeyOf(ChannelKey(x.o, x.c), x.o)
    /\ x.frame = "grant" => BundleOK(x.bundle)
LanOK ==
    /\ \A x \in lan : StreamOK(x)
    /\ \A d \in Device : job[d].op = "lan" => OnLan(job[d].key)

MsgOK(d, m) ==
    /\ m.kind = "claimed" => m.arg \in Epochs /\ who[m.arg] # d
    /\ m.kind = "completed" => BundleOK(m.arg)
BoxOK(d, q) == \E S : q \in Seq(S) /\ \A m \in S : MsgOK(d, m)
InboxOK ==
    /\ inbox = [d \in Device |-> inbox[d]]
    /\ \A d \in Device : BoxOK(d, inbox[d])

SessionOK(id, s) ==
    /\ s = [stage |-> s.stage, offerer |-> s.offerer, orole |-> s.orole, claimer |-> s.claimer,
            acct |-> s.acct, joining |-> s.joining]
    /\ id \in Epochs /\ s.offerer[1] = who[id]
SessOK ==
    \A id \in DOMAIN sess : SessionOK(id, sess[id])

BasicsOK ==
    /\ who \in Seq(Device)
    /\ root \in [Device -> Account \cup {None}]
    /\ typed \in Nat

PairInv ==
    /\ BasicsOK /\ SlotsOK /\ JobsOK /\ TasksOK /\ LanOK /\ InboxOK /\ SessOK

-----------------------------------------------------------------------------
(* What a step may do to the pairings under way.  A pairing takes a slot    *)
(* when it starts, a task when its slot can still give one, and nothing     *)
(* takes up an epoch again.                                                 *)
SlotStep(d) ==
    \/ slot'[d] = NoSlot
    \/ /\ slot'[d].epoch = slot[d].epoch /\ slot'[d].wire = slot[d].wire
       /\ slot[d].key # NoKey => slot'[d].key = slot[d].key /\ slot'[d].role = slot[d].role
    \/ slot'[d].epoch = Len(who) + 1
    \/ Starting(slot'[d].epoch)

Start == {"create", "claim", "lan"}
JobStep(d) ==
    job'[d].op \in Start =>
       \/ job'[d].epoch = Len(who) + 1
       \/ job[d].op \in Start /\ job'[d].epoch = job[d].epoch

Continues(t, u) == u.epoch = t.epoch /\ u.kind = t.kind /\ (t.pc = "enter" => u.pc = "enter")
TaskStep(u) ==
    \/ \E t \in tasks : Continues(t, u)
    \/ u.epoch = 0
    \/ Starting(u.epoch)
    \/ \E d \in Device : /\ slot[d].epoch = u.epoch
                         /\ slot[d].key = NoKey \/ (slot[d].role = "joiner" /\ slot[d].wire # "lan")

Orderly ==
    /\ who' = who \/ \E d \in Device : who' = Append(who, d)
    /\ \A d \in Device : SlotStep(d) /\ JobStep(d)
    /\ \A u \in tasks' : TaskStep(u)

LEMMA WhoGrows ==
    ASSUME who \in Seq(Device), who' = who \/ \E d \in Device : who' = Append(who, d)
    PROVE  /\ who' \in Seq(Device)
           /\ Epochs \subseteq Epochs'
           /\ \A e \in Epochs : who'[e] = who[e] /\ e # Len(who) + 1 /\ e # 0
           /\ \A key, e : KeyOf(key, e) => KeyOf(key, e)'
<1>1. Len(who) \in Nat
  OBVIOUS
<1>2. /\ who' \in Seq(Device)
      /\ Len(who') >= Len(who) /\ Len(who') \in Nat
      /\ \A e \in 1..Len(who) : who'[e] = who[e]
  OBVIOUS
<1>3. Epochs \subseteq Epochs' /\ \A e \in Epochs : who'[e] = who[e] /\ e # Len(who) + 1 /\ e # 0
  BY <1>1, <1>2 DEF Epochs
<1>4. ASSUME NEW key, NEW e, KeyOf(key, e) PROVE KeyOf(key, e)'
  BY <1>3, <1>4 DEF KeyOf
<1> QED BY <1>2, <1>3, <1>4

LEMMA NeverJoinsStays ==
    ASSUME Orderly, NEW x, x # 0, x # Len(who) + 1, NeverJoins(x)
    PROVE  NeverJoins(x)'
<1>1. ~Starting(x)'
  <2>1. \A d \in Device : ~(job'[d].op \in Start /\ job'[d].epoch = x)
    BY DEF Orderly, JobStep, NeverJoins, Starting, Start
  <2> QED BY <2>1 DEF Starting, Start
<1>2. ASSUME NEW d \in Device, slot'[d].epoch = x
      PROVE  slot'[d].role = "sponsor" /\ slot'[d].key # NoKey
  <2>1. SlotStep(d)
    BY DEF Orderly
  <2> QED BY <1>2, <2>1 DEF SlotStep, NeverJoins, NoSlot
<1>3. ASSUME NEW u \in tasks', u.epoch = x PROVE u.kind = "sponsor"
  <2>1. TaskStep(u)
    BY DEF Orderly
  <2> QED BY <1>3, <2>1 DEF TaskStep, Continues, NeverJoins
<1> QED BY <1>1, <1>2, <1>3 DEF NeverJoins

LEMMA SpentStays ==
    ASSUME Orderly, NEW y, y # 0, y # Len(who) + 1, Spent(y)
    PROVE  Spent(y)'
<1>1. ~Starting(y)'
  <2>1. \A d \in Device : ~(job'[d].op \in Start /\ job'[d].epoch = y)
    BY DEF Orderly, JobStep, Spent, Starting, Start
  <2> QED BY <2>1 DEF Starting, Start
<1>2. ASSUME NEW d \in Device, slot'[d].epoch = y
      PROVE  slot'[d].wire = "lan" /\ slot'[d].key # NoKey
  <2>1. SlotStep(d)
    BY DEF Orderly
  <2> QED BY <1>2, <2>1 DEF SlotStep, Spent, NoSlot
<1>3. ASSUME NEW u \in tasks', u.epoch = y PROVE u.pc = "enter"
  <2>1. TaskStep(u)
    BY DEF Orderly
  <2> QED BY <1>3, <2>1 DEF TaskStep, Continues, Spent
<1> QED BY <1>1, <1>2, <1>3 DEF Spent

\* What was sealed stays accounted for, if no decision is used up.
LEMMA HandedStays ==
    ASSUME BasicsOK, Orderly, NEW key, Handed(key), granted \subseteq granted'
    PROVE  Handed(key)'
<1>1. PICK x \in {key.o, key.c} :
         /\ KeyOf(key, x) /\ NeverJoins(x)
         /\ Spent(Far(key, x)) \/ Grant(who[Far(key, x)], key) \in granted
  BY DEF Handed
<1>2. PICK y : y = Far(key, x)
  OBVIOUS
<1>3. x \in Epochs /\ y \in Epochs
  BY <1>1, <1>2 DEF KeyOf, Far
<1>4. /\ KeyOf(key, x)' /\ who'[y] = who[y]
      /\ x # 0 /\ x # Len(who) + 1 /\ y # 0 /\ y # Len(who) + 1
  BY <1>1, <1>3, WhoGrows DEF BasicsOK, Orderly
<1>5. NeverJoins(x)'
  BY <1>1, <1>4, NeverJoinsStays
<1>6. Spent(y)' \/ Grant(who'[y], key) \in granted'
  BY <1>1, <1>2, <1>4, SpentStays
<1> QED BY <1>2, <1>4, <1>5, <1>6 DEF Handed, Far

-----------------------------------------------------------------------------
(* What holds of each thing stays true of it as long as it is there. *)
LanStep == \A x \in lan : \E z \in lan' : z.o = x.o /\ z.c = x.c

Stays ==
    /\ \A key : Handed(key) => Handed(key)'
    /\ \A key : OnLan(key) => OnLan(key)'
    /\ \A key, e : KeyOf(key, e) => KeyOf(key, e)'
    /\ \A d, s : SlotOK(d, s) => SlotOK(d, s)'
    /\ \A d, j : JobOK(d, j) => JobOK(d, j)'
    /\ \A x : StreamOK(x) => StreamOK(x)'
    /\ \A d, q : BoxOK(d, q) => BoxOK(d, q)'
    /\ \A t : TaskOK(t) /\ (t.pc \in {"stow", "commit"} => Grant(t.dev, t.key) \in granted') => TaskOK(t)'

LEMMA StaysStep ==
    ASSUME BasicsOK, Orderly, LanStep, typed' \in Nat, typed <= typed',
           \A key : Handed(key) => Handed(key)'
    PROVE  Stays
<1>1. /\ Epochs \subseteq Epochs'
      /\ \A e \in Epochs : who'[e] = who[e]
      /\ \A key, e : KeyOf(key, e) => KeyOf(key, e)'
  BY WhoGrows DEF BasicsOK, Orderly
<1>2. ASSUME NEW key, OnLan(key) PROVE OnLan(key)'
  <2>1. PICK x \in lan : x.o = key.o /\ x.c = key.c
    BY <1>2 DEF OnLan
  <2>2. PICK z \in lan' : z.o = x.o /\ z.c = x.c
    BY DEF LanStep
  <2> QED BY <2>1, <2>2 DEF OnLan
<1>3. ASSUME NEW d, NEW s, SlotOK(d, s) PROVE SlotOK(d, s)'
  BY <1>1, <1>3 DEF SlotOK
<1>4. ASSUME NEW b, BundleOK(b) PROVE BundleOK(b)'
  BY <1>4 DEF BundleOK
<1>5. ASSUME NEW d, NEW j, JobOK(d, j) PROVE JobOK(d, j)'
  BY <1>1, <1>4, <1>5 DEF JobOK
<1>6. ASSUME NEW x, StreamOK(x) PROVE StreamOK(x)'
  BY <1>1, <1>4, <1>6 DEF StreamOK
<1>7. ASSUME NEW d, NEW q, BoxOK(d, q) PROVE BoxOK(d, q)'
  <2>1. PICK S : q \in Seq(S) /\ \A m \in S : MsgOK(d, m)
    BY <1>7 DEF BoxOK
  <2>2. ASSUME NEW m, MsgOK(d, m) PROVE MsgOK(d, m)'
    BY <1>1, <1>4, <2>2 DEF MsgOK
  <2> QED BY <2>1, <2>2 DEF BoxOK
<1>8. ASSUME NEW t, TaskOK(t), t.pc \in {"stow", "commit"} => Grant(t.dev, t.key) \in granted'
      PROVE  TaskOK(t)'
  <2>1. t.kind = "code" => t.key.c \in 1..typed'
    BY <1>8 DEF TaskOK, BasicsOK
  <2>2. t.kind # "code" => t.epoch \in Epochs' /\ who'[t.epoch] = t.dev /\ KeyOf(t.key, t.epoch)'
    BY <1>1, <1>8 DEF TaskOK
  <2> QED BY <1>2, <1>8, <2>1, <2>2 DEF TaskOK
<1> QED BY <1>1, <1>2, <1>3, <1>5, <1>6, <1>7, <1>8 DEF Stays

-----------------------------------------------------------------------------
(* Steps that start nothing: slots are kept or emptied, tasks and jobs go on *)
(* or end, streams and inboxes carry what they may.                          *)
SlotShrinks ==
    /\ slot' = [d \in Device |-> slot'[d]]
    /\ \A d \in Device : slot'[d] = slot[d] \/ slot'[d] = NoSlot

JobGoesOn(d, j) ==
    /\ j.op \in Start => job[d].op \in Start /\ j.epoch = job[d].epoch
    /\ j.op = "lan" => job[d].op = "lan" /\ j.key = job[d].key
JobsGoOn ==
    /\ job' = [d \in Device |-> job'[d]]
    /\ \A d \in Device : JobOK(d, job'[d]) /\ JobGoesOn(d, job'[d])

Distinct(T) ==
    \A t, u \in T : /\ t.epoch = u.epoch /\ t.epoch # 0 => t = u
                    /\ t.key = u.key /\ t.epoch = 0 => t = u
TaskGoesOn(t, u) == Continues(t, u) /\ u.key = t.key
TasksGoOn ==
    /\ \A u \in tasks' : TaskOK(u) /\ \E t \in tasks : TaskGoesOn(t, u)
    /\ Distinct(tasks')

LanGoesOn == LanStep /\ \A x \in lan' : StreamOK(x)

BoxesOK(box) ==
    /\ box = [d \in Device |-> box[d]]
    /\ \A d \in Device : BoxOK(d, box[d])

SessionsOK(ss) == \A id \in DOMAIN ss : SessionOK(id, ss[id])

Winding ==
    /\ SlotShrinks /\ JobsGoOn /\ TasksGoOn /\ LanGoesOn
    /\ BoxesOK(inbox') /\ SessionsOK(sess')
    /\ root' \in [Device -> Account \cup {None}]
    /\ UNCHANGED <<who, typed>>

LEMMA WindingOrderly ==
    ASSUME Winding
    PROVE  Orderly
<1>1. \A d \in Device : SlotStep(d)
  BY DEF Winding, SlotShrinks, SlotStep
<1>2. \A d \in Device : JobStep(d)
  BY DEF Winding, JobsGoOn, JobGoesOn, JobStep
<1>3. \A u \in tasks' : TaskStep(u)
  BY DEF Winding, TasksGoOn, TaskGoesOn, TaskStep
<1> QED BY <1>1, <1>2, <1>3 DEF Orderly, Winding

\* The part of the invariant about slots and about starting jobs.
LEMMA WindingPairs ==
    ASSUME SlotsOK, JobsOK, Winding, Stays
    PROVE  SlotsOK' /\ JobsOK'
<1>1. (\A d \in Device : SlotOK(d, slot[d]))'
  <2>1. \A d : SlotOK(d, NoSlot)
    BY DEF SlotOK
  <2>2. \A d \in Device : SlotOK(d, slot'[d])
    BY <2>1 DEF SlotsOK, Winding, SlotShrinks
  <2> QED BY <2>2 DEF Stays
<1>2. ASSUME NEW d \in Device, NEW u \in tasks', slot'[d].epoch = u.epoch, u.epoch # 0
      PROVE  Agree(slot'[d], u)
  <2>1. slot'[d] = slot[d]
    BY <1>2 DEF Winding, SlotShrinks, NoSlot
  <2>2. PICK t \in tasks : TaskGoesOn(t, u)
    BY DEF Winding, TasksGoOn
  <2>3. Agree(slot[d], t)
    BY <1>2, <2>1, <2>2 DEF SlotsOK, TaskGoesOn, Continues
  <2> QED BY <2>1, <2>2, <2>3 DEF Agree, TaskGoesOn, Continues
<1>3. SlotsOK'
  BY <1>1, <1>2 DEF SlotsOK, Winding, SlotShrinks
<1>4. (\A d \in Device : JobOK(d, job[d]))'
  BY DEF Winding, JobsGoOn, Stays
<1>5. ASSUME NEW d \in Device, job'[d].op \in Start
      PROVE  slot'[d].epoch # job'[d].epoch /\ \A u \in tasks' : u.epoch # job'[d].epoch
  <2>1. job[d].op \in Start /\ job'[d].epoch = job[d].epoch
    BY <1>5 DEF Winding, JobsGoOn, JobGoesOn
  <2>2. /\ slot[d].epoch # job[d].epoch /\ \A t \in tasks : t.epoch # job[d].epoch
        /\ job[d].epoch # 0
    BY <2>1 DEF JobsOK, JobOK, Start, Epochs
  <2>3. slot'[d].epoch # job'[d].epoch
    BY <2>1, <2>2 DEF Winding, SlotShrinks, NoSlot
  <2>4. \A u \in tasks' : u.epoch # job'[d].epoch
    BY <2>1, <2>2 DEF Winding, TasksGoOn, TaskGoesOn, Continues
  <2> QED BY <2>3, <2>4
<1>6. JobsOK'
  BY <1>4, <1>5 DEF JobsOK, Winding, JobsGoOn, Start
<1> QED BY <1>3, <1>6

LEMMA WindingRest ==
    ASSUME PairInv, Winding, Stays,
           \A u \in tasks' : u.pc \in {"stow", "commit"} => Grant(u.dev, u.key) \in granted'
    PROVE  PairInv'
<1>1. SlotsOK' /\ JobsOK'
  BY WindingPairs DEF PairInv
<1>2. TasksOK'
  <2>1. (\A u \in tasks : TaskOK(u))'
    BY DEF Winding, TasksGoOn, Stays
  <2> QED BY <2>1 DEF TasksOK, Winding, TasksGoOn, Distinct
<1>3. LanOK'
  <2>1. (\A x \in lan : StreamOK(x))'
    BY DEF Winding, LanGoesOn, Stays
  <2>2. ASSUME NEW d \in Device, job'[d].op = "lan" PROVE OnLan(job[d].key)'
    <3>1. job[d].op = "lan" /\ job'[d].key = job[d].key
      BY <2>2 DEF Winding, JobsGoOn, JobGoesOn
    <3>2. OnLan(job[d].key)
      BY <3>1 DEF PairInv, LanOK
    <3> QED BY <3>1, <3>2 DEF Stays
  <2> QED BY <2>1, <2>2 DEF LanOK
<1>4. InboxOK'
  BY DEF InboxOK, Winding, BoxesOK, Stays
<1>5. SessOK'
  BY DEF SessOK, Winding, SessionsOK, SessionOK, Epochs
<1>6. BasicsOK'
  BY DEF BasicsOK, Winding, PairInv
<1> QED BY <1>1, <1>2, <1>3, <1>4, <1>5, <1>6 DEF PairInv

LEMMA WindingOK ==
    ASSUME PairInv, Winding, granted \subseteq granted'
    PROVE  PairInv'
<1>1. BasicsOK /\ Orderly /\ LanStep /\ typed' \in Nat /\ typed <= typed'
  BY WindingOrderly DEF PairInv, BasicsOK, Winding, LanGoesOn
<1>2. \A key : Handed(key) => Handed(key)'
  BY <1>1, HandedStays
<1>3. Stays
  BY <1>1, <1>2, StaysStep
<1>4. \A u \in tasks' : u.pc \in {"stow", "commit"} => Grant(u.dev, u.key) \in granted'
  BY DEF Winding, TasksGoOn, TaskOK
<1> QED BY <1>3, <1>4, WindingRest

-----------------------------------------------------------------------------
(* The moves the steps are made of. *)
LEMMA BoxTail ==
    ASSUME NEW d, NEW q, BoxOK(d, q), q # <<>>
    PROVE  BoxOK(d, Tail(q)) /\ MsgOK(d, Head(q))
<1>1. PICK S : q \in Seq(S) /\ \A m \in S : MsgOK(d, m)
  BY DEF BoxOK
<1>2. Tail(q) \in Seq(S) /\ Head(q) \in S
  BY <1>1
<1> QED BY <1>1, <1>2 DEF BoxOK

LEMMA BoxFilter ==
    ASSUME NEW d, NEW q, BoxOK(d, q), NEW conns
    PROVE  BoxOK(d, Undelivered(q, conns))
<1>1. PICK S : q \in Seq(S) /\ \A m \in S : MsgOK(d, m)
  BY DEF BoxOK
<1>2. Undelivered(q, conns) \in Seq(S)
  BY <1>1, UndeliveredIn
<1> QED BY <1>1, <1>2 DEF BoxOK

LEMMA BoxAppend ==
    ASSUME NEW d, NEW q, BoxOK(d, q), NEW m, MsgOK(d, m)
    PROVE  BoxOK(d, Append(q, m))
<1>1. PICK S : q \in Seq(S) /\ \A k \in S : MsgOK(d, k)
  BY DEF BoxOK
<1>2. PICK T : T = S \cup {m}
  OBVIOUS
<1>3. q \in Seq(T)
  BY <1>1, <1>2
<1>4. Append(q, m) \in Seq(T) /\ \A k \in T : MsgOK(d, k)
  BY <1>1, <1>2, <1>3
<1> QED BY <1>4 DEF BoxOK

LEMMA BoxConcat ==
    ASSUME NEW d, NEW q, BoxOK(d, q), NEW r, NEW R, r \in Seq(R), \A k \in R : MsgOK(d, k)
    PROVE  BoxOK(d, q \o r)
<1>1. PICK S : q \in Seq(S) /\ \A k \in S : MsgOK(d, k)
  BY DEF BoxOK
<1>2. PICK T : T = S \cup R
  OBVIOUS
<1>3. q \in Seq(T) /\ r \in Seq(T)
  BY <1>1, <1>2
<1>4. q \o r \in Seq(T) /\ \A k \in T : MsgOK(d, k)
  BY <1>1, <1>2, <1>3
<1> QED BY <1>4 DEF BoxOK

LEMMA CloseOK ==
    ASSUME InboxOK, NEW conns, Close(conns)
    PROVE  BoxesOK(inbox')
<1>1. \A d \in Device : BoxOK(d, Undelivered(inbox[d], conns))
  BY BoxFilter DEF InboxOK
<1> QED BY <1>1 DEF Close, BoxesOK

LEMMA KeepOK ==
    ASSUME InboxOK, inbox' = inbox
    PROVE  BoxesOK(inbox')
BY DEF InboxOK, BoxesOK

LEMMA TellOK ==
    ASSUME NEW box, BoxesOK(box), NEW to, NEW m, MsgOK(to[1], Msg(to, m.kind, m.arg))
    PROVE  BoxesOK(Tell(box, to, m))
<1>1. CASE to # None /\ to \in live
  <2>1. PICK e : e = to[1]
    OBVIOUS
  <2>2. PICK k : k = Msg(to, m.kind, m.arg)
    OBVIOUS
  <2>3. Tell(box, to, m) = [box EXCEPT ![e] = Append(@, k)]
    BY <1>1, <2>1, <2>2 DEF Tell
  <2>4. \A d \in Device : BoxOK(d, [box EXCEPT ![e] = Append(@, k)][d])
    BY <2>1, <2>2, BoxAppend DEF BoxesOK
  <2> QED BY <2>3, <2>4 DEF BoxesOK
<1>2. CASE ~(to # None /\ to \in live)
  BY <1>2 DEF Tell
<1> QED BY <1>1, <1>2

LEMMA AnswerOK ==
    ASSUME NEW box, BoxesOK(box), NEW c, NEW arg
    PROVE  BoxesOK(Answer(box, c, arg))
<1>1. PICK m : m = [kind |-> "reply", arg |-> arg]
  OBVIOUS
<1>2. MsgOK(c[1], Msg(c, m.kind, m.arg))
  BY <1>1 DEF MsgOK, Msg
<1> QED BY <1>1, <1>2, TellOK DEF Answer

LEMMA ToldOK ==
    ASSUME SessOK, BasicsOK, NEW box, BoxesOK(box), NEW ids, ids \subseteq DOMAIN sess, NEW c
    PROVE  BoxesOK(ToldOf(box, ids, c))
<1>1. IsFiniteSet(ids)
  <2>1. Len(who) \in Nat
    BY DEF BasicsOK
  <2>2. IsFiniteSet(1..Len(who))
    BY <2>1, FS_Interval
  <2>3. ids \subseteq 1..Len(who)
    BY DEF SessOK, SessionOK, Epochs
  <2> QED BY <2>2, <2>3, FS_Subset
<1>2. ASSUME NEW d \in Device
      PROVE  BoxOK(d, ToldOf(box, ids, c)[d])
  <2>1. PICK left : left = {id \in ids : LET x == TheOther(sess[id], c) IN x \in live /\ x[1] = d}
    OBVIOUS
  <2>2. PICK r : r = [i \in 1..Cardinality(left) |->
                        Msg(TheOther(sess[SetToSeq(left)[i]], c), "failed", "reason")]
    OBVIOUS
  <2>3. ToldOf(box, ids, c)[d] = box[d] \o r
    BY <2>1, <2>2 DEF ToldOf
  <2>4. Cardinality(left) \in Nat
    BY <1>1, <2>1, FS_Subset, FS_CardinalityType
  <2>5. PICK R : R = {r[i] : i \in 1..Cardinality(left)}
    OBVIOUS
  <2>6. r \in Seq(R)
    BY <2>2, <2>4, <2>5
  <2>7. \A k \in R : MsgOK(d, k)
    BY <2>2, <2>5 DEF MsgOK, Msg
  <2> QED BY <2>3, <2>6, <2>7, BoxConcat DEF BoxesOK
<1>3. ToldOf(box, ids, c) = [d \in Device |-> ToldOf(box, ids, c)[d]]
  BY DEF ToldOf
<1> QED BY <1>2, <1>3 DEF BoxesOK

LEMMA SlotKept ==
    ASSUME SlotsOK, slot' = slot
    PROVE  SlotShrinks
BY DEF SlotsOK, SlotShrinks

LEMMA SlotEmptied ==
    ASSUME SlotsOK, NEW d, slot' = [slot EXCEPT ![d] = NoSlot]
    PROVE  SlotShrinks
BY DEF SlotsOK, SlotShrinks

LEMMA SettleOK ==
    ASSUME SlotsOK, InboxOK, NEW d, NEW id, Settle(d, id)
    PROVE  SlotShrinks /\ BoxesOK(inbox')
<1>1. CASE slot[d].id = id /\ HasSlot(d)
  <2>1. slot' = [slot EXCEPT ![d] = NoSlot] /\ Close(AbandonConns(d))
    BY <1>1 DEF Settle, FailCurrent
  <2> QED BY <2>1, SlotEmptied, CloseOK
<1>2. CASE ~(slot[d].id = id /\ HasSlot(d))
  <2>1. slot' = slot /\ inbox' = inbox
    BY <1>2 DEF Settle
  <2> QED BY <2>1, SlotKept, KeepOK
<1> QED BY <1>1, <1>2

LEMMA JobKept ==
    ASSUME JobsOK, job' = job
    PROVE  JobsGoOn
BY DEF JobsOK, JobsGoOn, JobGoesOn

LEMMA JobSet ==
    ASSUME JobsOK, NEW d, NEW j, job' = [job EXCEPT ![d] = j],
           d \in Device => JobOK(d, j) /\ JobGoesOn(d, j)
    PROVE  JobsGoOn
<1>1. job' = [e \in Device |-> job'[e]]
  BY DEF JobsOK
<1>2. ASSUME NEW e \in Device PROVE JobOK(e, job'[e]) /\ JobGoesOn(e, job'[e])
  <2>1. CASE e = d
    <3>1. job'[e] = j
      BY <2>1 DEF JobsOK
    <3> QED BY <2>1, <3>1
  <2>2. CASE e # d
    <3>1. job'[e] = job[e]
      BY <2>2 DEF JobsOK
    <3> QED BY <3>1 DEF JobsOK, JobGoesOn
  <2> QED BY <2>1, <2>2
<1> QED BY <1>1, <1>2 DEF JobsGoOn

LEMMA IdleOK ==
    ASSUME NEW d PROVE JobOK(d, Idle) /\ JobGoesOn(d, Idle)
BY DEF JobOK, JobGoesOn, Idle, Start, Sealed

LEMMA ReturnOK ==
    ASSUME JobsOK, NEW d, Return(d)
    PROVE  JobsGoOn
BY JobSet, IdleOK DEF Return

\* A job that only moves on in its own state.
LEMMA JobMoves ==
    ASSUME JobsOK, NEW d \in Device, NEW st,
           NEW op, op = job[d].op \/ (job[d].op = "approve" /\ op = "reapprove")
                                  \/ (op = "refuse" /\ job[d].op = "claim")
    PROVE  /\ JobOK(d, [job[d] EXCEPT !.op = op, !.st = st])
           /\ JobGoesOn(d, [job[d] EXCEPT !.op = op, !.st = st])
<1>1. PICK j : j = job[d]
  OBVIOUS
<1>2. JobOK(d, j)
  BY <1>1 DEF JobsOK
<1>3. PICK k : k = [j EXCEPT !.op = op, !.st = st]
  OBVIOUS
<1>4. /\ k = [op |-> k.op, st |-> k.st, epoch |-> k.epoch, id |-> k.id, role |-> k.role,
              wire |-> k.wire, key |-> k.key, bundle |-> k.bundle]
      /\ k.op = op /\ k.epoch = j.epoch /\ k.id = j.id /\ k.role = j.role
      /\ k.key = j.key /\ k.bundle = j.bundle
  BY <1>2, <1>3 DEF JobOK
<1>5. JobOK(d, k)
  BY <1>1, <1>2, <1>4 DEF JobOK
<1>6. JobGoesOn(d, k)
  BY <1>1, <1>4 DEF JobGoesOn, Start
<1> QED BY <1>1, <1>3, <1>5, <1>6

LEMMA JobState ==
    ASSUME JobsOK, NEW d \in Device, NEW st
    PROVE  JobOK(d, [job[d] EXCEPT !.st = st]) /\ JobGoesOn(d, [job[d] EXCEPT !.st = st])
<1>1. PICK j : j = job[d]
  OBVIOUS
<1>2. j = [op |-> j.op, st |-> j.st, epoch |-> j.epoch, id |-> j.id, role |-> j.role,
           wire |-> j.wire, key |-> j.key, bundle |-> j.bundle]
  BY <1>1 DEF JobsOK, JobOK
<1>3. PICK op : op = job[d].op
  OBVIOUS
<1>4. [job[d] EXCEPT !.st = st] = [job[d] EXCEPT !.op = op, !.st = st]
  <2>1. PICK k : k = [j EXCEPT !.st = st]
    OBVIOUS
  <2>2. PICK l : l = [j EXCEPT !.op = op, !.st = st]
    OBVIOUS
  <2>3. k = [op |-> j.op, st |-> st, epoch |-> j.epoch, id |-> j.id, role |-> j.role,
             wire |-> j.wire, key |-> j.key, bundle |-> j.bundle]
    BY <1>2, <2>1
  <2>4. l = [op |-> j.op, st |-> st, epoch |-> j.epoch, id |-> j.id, role |-> j.role,
             wire |-> j.wire, key |-> j.key, bundle |-> j.bundle]
    BY <1>1, <1>2, <1>3, <2>2
  <2> QED BY <1>1, <2>1, <2>2, <2>3, <2>4
<1> QED BY <1>3, <1>4, JobMoves

LEMMA UnsentOK ==
    ASSUME JobsOK, NEW d \in Device
    PROVE  JobOK(d, Unsent(d)) /\ JobGoesOn(d, Unsent(d))
BY JobState DEF Unsent

LEMMA HandledOK ==
    ASSUME JobsOK, NEW d \in Device, Handled(d)
    PROVE  JobsGoOn
<1>1. job' = [job EXCEPT ![d] = [job[d] EXCEPT !.st = "served"]]
  BY DEF Handled, JobsOK
<1>2. JobOK(d, [job[d] EXCEPT !.st = "served"]) /\ JobGoesOn(d, [job[d] EXCEPT !.st = "served"])
  BY JobState
<1> QED BY <1>1, <1>2, JobSet

LEMMA TasksShrink ==
    ASSUME TasksOK, tasks' \subseteq tasks
    PROVE  TasksGoOn
<1>1. \A u \in tasks' : TaskOK(u) /\ \E t \in tasks : TaskGoesOn(t, u)
  BY DEF TasksOK, TaskGoesOn, Continues
<1>2. Distinct(tasks')
  BY DEF TasksOK, Distinct
<1> QED BY <1>1, <1>2 DEF TasksGoOn

LEMMA TaskMoves ==
    ASSUME TasksOK, NEW t \in tasks, NEW u, tasks' = (tasks \ {t}) \cup {u},
           TaskOK(u), TaskGoesOn(t, u)
    PROVE  TasksGoOn
<1>1. ASSUME NEW w \in tasks' PROVE TaskOK(w) /\ \E z \in tasks : TaskGoesOn(z, w)
  <2>1. CASE w = u
    BY <2>1
  <2>2. CASE w \in tasks
    BY <2>2 DEF TasksOK, TaskGoesOn, Continues
  <2> QED BY <2>1, <2>2
<1>2. Distinct(tasks')
  <2>1. \A w \in tasks \ {t} : /\ ~(w.epoch = t.epoch /\ w.epoch # 0)
                               /\ ~(w.key = t.key /\ w.epoch = 0)
                               /\ ~(t.key = w.key /\ t.epoch = 0)
    BY DEF TasksOK
  <2>2. u.epoch = t.epoch /\ u.key = t.key
    BY DEF TaskGoesOn, Continues
  <2>3. \A w, z \in tasks : /\ w.epoch = z.epoch /\ w.epoch # 0 => w = z
                            /\ w.key = z.key /\ w.epoch = 0 => w = z
    BY DEF TasksOK
  <2> QED BY <2>1, <2>2, <2>3 DEF Distinct
<1> QED BY <1>1, <1>2 DEF TasksGoOn

LEMMA LanKept ==
    ASSUME LanOK, lan' = lan
    PROVE  LanGoesOn
BY DEF LanOK, LanGoesOn, LanStep

LEMMA StreamSet ==
    ASSUME LanOK, NEW x \in lan, NEW z, lan' = (lan \ {x}) \cup {z},
           z.o = x.o, z.c = x.c, StreamOK(z)
    PROVE  LanGoesOn
BY DEF LanOK, LanGoesOn, LanStep

LEMMA StreamFrame ==
    ASSUME LanOK, NEW x \in lan, NEW frame, frame # "grant", OnStream(x, frame)
    PROVE  LanGoesOn
<1>1. StreamOK(x)
  BY DEF LanOK
<1>2. PICK z : z = [x EXCEPT !.frame = frame]
  OBVIOUS
<1>3. /\ z = [o |-> z.o, c |-> z.c, frame |-> z.frame, dialer |-> z.dialer,
              displayer |-> z.displayer, bundle |-> z.bundle]
      /\ z.o = x.o /\ z.c = x.c /\ z.frame = frame
  BY <1>1, <1>2 DEF StreamOK
<1>4. StreamOK(z)
  BY <1>1, <1>3 DEF StreamOK
<1> QED BY <1>2, <1>3, <1>4, StreamSet DEF OnStream

LEMMA StreamIn ==
    ASSUME NEW key, OnLan(key)
    PROVE  /\ Stream(key.o, key.c) \in lan
           /\ Stream(key.o, key.c).o = key.o /\ Stream(key.o, key.c).c = key.c
BY DEF OnLan, Stream

LEMMA SessKept ==
    ASSUME SessOK, sess' = sess
    PROVE  SessionsOK(sess')
BY DEF SessOK, SessionsOK

LEMMA SessWithout ==
    ASSUME SessOK, NEW ids, sess' = Without(ids)
    PROVE  SessionsOK(sess')
BY DEF SessOK, SessionsOK, Without

-----------------------------------------------------------------------------
(* One lemma per step that starts nothing. *)
LEMMA ReauthenticatedWinds ==
    ASSUME PairInv, NEW d \in Device, Reauthenticated(d)
    PROVE  Winding
<1>1. PICK j : j = [job[d] EXCEPT !.op = "reapprove", !.st = "sent"]
  OBVIOUS
<1>2. job' = [job EXCEPT ![d] = j]
  BY <1>1 DEF Reauthenticated, PairInv, JobsOK
<1>3. JobOK(d, j) /\ JobGoesOn(d, j)
  BY <1>1, JobMoves DEF Reauthenticated, PairInv
<1>4. JobsGoOn
  BY <1>2, <1>3, JobSet DEF PairInv
<1> QED BY <1>4, SlotKept, TasksShrink, LanKept, KeepOK, SessKept
        DEF Winding, Reauthenticated, PairInv, BasicsOK

LEMMA CancelWinds ==
    ASSUME PairInv, NEW d \in Device, Cancel(d)
    PROVE  Winding
<1>1. SlotShrinks
  BY SlotEmptied DEF Cancel, PairInv
<1>2. JobsGoOn
  <2>1. CASE slot[d].wire = "lan"
    BY <2>1, JobKept DEF Cancel, PairInv
  <2>2. CASE slot[d].wire # "lan"
    <3>1. PICK s : s = slot[d]
      OBVIOUS
    <3>2. PICK j : j = Call("cancel", s.epoch, s.id, s.role, s.wire, NoKey)
      OBVIOUS
    <3>3. s.epoch \in Epochs /\ who[s.epoch] = d
      BY <3>1 DEF Cancel, HasSlot, PairInv, SlotsOK, SlotOK
    <3>4. JobOK(d, j) /\ JobGoesOn(d, j)
      BY <3>2, <3>3 DEF JobOK, JobGoesOn, Call, Idle, Start
    <3> QED BY <2>2, <3>1, <3>2, <3>4, JobSet DEF Cancel, PairInv
  <2> QED BY <2>1, <2>2
<1> QED BY <1>1, <1>2, TasksShrink, LanKept, KeepOK, SessKept
        DEF Winding, Cancel, PairInv, BasicsOK

LEMMA CancelRepliedWinds ==
    ASSUME PairInv, NEW d \in Device, CancelReplied(d)
    PROVE  Winding
<1>1. JobsGoOn /\ BoxesOK(inbox')
  BY ReturnOK, CloseOK DEF CancelReplied, PairInv
<1> QED BY <1>1, SlotKept, TasksShrink, LanKept, SessKept
        DEF Winding, CancelReplied, PairInv, BasicsOK

LEMMA ApproveRepliedWinds ==
    ASSUME PairInv, NEW d \in Device, ApproveReplied(d)
    PROVE  Winding
<1>1. CASE job[d].op = "approve" /\ job[d].st = "oidc"
  <2>1. PICK j : j = [job[d] EXCEPT !.st = "browser"]
    OBVIOUS
  <2>2. job' = [job EXCEPT ![d] = j] /\ slot' = slot /\ inbox' = inbox
    BY <1>1, <2>1 DEF ApproveReplied, Keep, PairInv, JobsOK
  <2>3. JobOK(d, j) /\ JobGoesOn(d, j)
    BY <2>1, JobState DEF PairInv
  <2>4. JobsGoOn
    BY <2>2, <2>3, JobSet DEF PairInv
  <2> QED BY <2>2, <2>4, SlotKept, TasksShrink, LanKept, KeepOK, SessKept
          DEF Winding, ApproveReplied, PairInv, BasicsOK
<1>2. CASE ~(job[d].op = "approve" /\ job[d].st = "oidc")
  <2>1. Return(d)
    BY <1>2 DEF ApproveReplied
  <2>2. JobsGoOn
    BY <2>1, ReturnOK DEF PairInv
  <2>3. SlotShrinks /\ BoxesOK(inbox')
    <3>1. CASE job[d].st = "ok" \/ job[d].op = "reapprove"
      BY <1>2, <3>1, SettleOK DEF ApproveReplied, PairInv
    <3>2. CASE ~(job[d].st = "ok" \/ job[d].op = "reapprove")
      BY <1>2, <3>2, SlotKept, KeepOK DEF ApproveReplied, Keep, PairInv
    <3> QED BY <3>1, <3>2
  <2> QED BY <2>2, <2>3, TasksShrink, LanKept, SessKept
          DEF Winding, ApproveReplied, PairInv, BasicsOK
<1> QED BY <1>1, <1>2

LEMMA ExpireWinds ==
    ASSUME PairInv, NEW d \in Device, Expire(d)
    PROVE  Winding
<1>1. SlotShrinks /\ BoxesOK(inbox')
  BY SlotEmptied, CloseOK DEF Expire, FailCurrent, PairInv
<1> QED BY <1>1, JobKept, TasksShrink, LanKept, SessKept
        DEF Winding, Expire, PairInv, BasicsOK

LEMMA PairingCreateWinds ==
    ASSUME PairInv, NEW d \in Device, PairingCreate(d)
    PROVE  Winding
<1> DEFINE c == JobConn(d)
           left == Orphans(c)
<1>1. JobsGoOn
  BY HandledOK DEF PairingCreate, PairInv
<1>2. BoxesOK(inbox)
  BY DEF PairInv, InboxOK, BoxesOK
<1>3. left \subseteq DOMAIN sess /\ {} \subseteq DOMAIN sess
  BY DEF Orphans
<1>4. BoxesOK(ToldOf(inbox, left, c)) /\ BoxesOK(ToldOf(inbox, {}, c))
  BY <1>2, <1>3, ToldOK DEF PairInv
<1>5. BoxesOK(Answer(ToldOf(inbox, left, c), c, "ok"))
      /\ BoxesOK(Answer(ToldOf(inbox, left, c), c, "err"))
      /\ BoxesOK(Answer(ToldOf(inbox, {}, c), c, "err"))
  BY <1>4, AnswerOK
<1>6. BoxesOK(inbox')
  <2>1. \/ inbox' = Answer(ToldOf(inbox, left, c), c, "ok")
        \/ inbox' = Answer(ToldOf(inbox, left, c), c, "err")
        \/ inbox' = Answer(ToldOf(inbox, {}, c), c, "err")
    BY DEF PairingCreate
  <2> QED BY <1>5, <2>1
<1>7. SessionsOK(sess')
  <2>1. CASE sess' = sess \/ sess' = Without(left)
    BY <2>1, SessKept, SessWithout DEF PairInv
  <2>2. CASE ~(sess' = sess \/ sess' = Without(left))
    <3>1. PICK j : j = job[d]
      OBVIOUS
    <3>2. PICK s : s = Session(j.epoch, j.role, c, sub[d], IF j.role = "joiner" THEN d ELSE None)
      OBVIOUS
    <3>3. sess' = [id \in {j.id} \cup (DOMAIN sess \ left) |-> IF id = j.id THEN s ELSE sess[id]]
      BY <2>2, <3>1, <3>2 DEF PairingCreate
    <3>4. j.id \in Epochs /\ who[j.id] = d
      BY <3>1 DEF PairingCreate, Pending, PairInv, JobsOK, JobOK
    <3>5. SessionOK(j.id, s)
      BY <3>2, <3>4 DEF SessionOK, Session, JobConn, ConnOf, SessionConn
    <3>6. \A id \in DOMAIN sess' : IF id = j.id THEN sess'[id] = s ELSE id \in DOMAIN sess /\ sess'[id] = sess[id]
      BY <3>3
    <3> QED BY <3>5, <3>6 DEF SessionsOK, PairInv, SessOK
  <2> QED BY <2>1, <2>2
<1> QED BY <1>1, <1>6, <1>7, SlotKept, TasksShrink, LanKept
        DEF Winding, PairingCreate, ServerOnly, PairInv, BasicsOK

LEMMA PairingClaimWinds ==
    ASSUME PairInv, NEW d \in Device, PairingClaim(d)
    PROVE  Winding
<1>1. JobsGoOn
  BY HandledOK DEF PairingClaim, PairInv
<1>2. PICK j : j = job[d]
  OBVIOUS
<1>3. PICK c : c = JobConn(d)
  OBVIOUS
<1>4. PICK s : s = sess[j.id]
  OBVIOUS
<1>5. PICK role : role = Other(s.orole)
  OBVIOUS
<1>6. BoxesOK(inbox)
  BY DEF PairInv, InboxOK, BoxesOK
<1>7. CASE inbox' = Answer(inbox, c, "err") /\ sess' = sess
  BY <1>1, <1>6, <1>7, AnswerOK, SlotKept, TasksShrink, LanKept, SessKept
  DEF Winding, PairingClaim, ServerOnly, PairInv, BasicsOK
<1>8. CASE ~(inbox' = Answer(inbox, c, "err") /\ sess' = sess)
  <2>1. /\ j.id \in DOMAIN sess
        /\ sess' = [sess EXCEPT ![j.id].stage = "claimed", ![j.id].claimer = c,
                                ![j.id].acct = IF role = "sponsor" THEN sub[d] ELSE @,
                                ![j.id].joining = IF role = "joiner" THEN d ELSE @]
        /\ inbox' = Answer(Tell(inbox, s.offerer, [kind |-> "claimed", arg |-> j.epoch]), c, role)
    BY <1>2, <1>3, <1>4, <1>5, <1>8 DEF PairingClaim
  <2>2. SessionOK(j.id, s)
    BY <1>4, <2>1 DEF PairInv, SessOK
  <2>3. SessionsOK(sess')
    <3>2. PICK z : z = [stage |-> "claimed", offerer |-> s.offerer, orole |-> s.orole, claimer |-> c,
                        acct |-> IF role = "sponsor" THEN sub[d] ELSE s.acct,
                        joining |-> IF role = "joiner" THEN d ELSE s.joining]
      OBVIOUS
    <3>3. DOMAIN sess' = DOMAIN sess /\ sess'[j.id] = z
          /\ \A id \in DOMAIN sess : id # j.id => sess'[id] = sess[id]
      BY <1>4, <2>1, <2>2, <3>2 DEF SessionOK
    <3>4. SessionOK(j.id, z)
      BY <2>2, <3>2 DEF SessionOK
    <3> QED BY <3>3, <3>4 DEF SessionsOK, PairInv, SessOK
  <2>4. j.epoch \in Epochs /\ who[j.epoch] # s.offerer[1]
    BY <1>2, <2>2 DEF PairingClaim, Pending, PairInv, JobsOK, JobOK, KeyOf, SessionOK
  <2>5. PICK m : m = [kind |-> "claimed", arg |-> j.epoch]
    OBVIOUS
  <2>6. MsgOK(s.offerer[1], Msg(s.offerer, m.kind, m.arg))
    BY <2>4, <2>5 DEF MsgOK, Msg
  <2>7. BoxesOK(Tell(inbox, s.offerer, m))
    BY <1>6, <2>6, TellOK
  <2>8. BoxesOK(inbox')
    BY <2>1, <2>5, <2>7, AnswerOK
  <2> QED BY <1>1, <2>3, <2>8, SlotKept, TasksShrink, LanKept
          DEF Winding, PairingClaim, ServerOnly, PairInv, BasicsOK
<1> QED BY <1>7, <1>8

LEMMA PairingApproveWinds ==
    ASSUME PairInv, NEW d \in Device, PairingApprove(d)
    PROVE  Winding
<1>1. JobsGoOn
  BY HandledOK DEF PairingApprove, PairInv
<1>2. PICK j : j = job[d]
  OBVIOUS
<1>3. PICK c : c = JobConn(d)
  OBVIOUS
<1>4. PICK s : s = sess[j.id]
  OBVIOUS
<1>6. BoxesOK(inbox)
  BY DEF PairInv, InboxOK, BoxesOK
<1>7. CASE inbox' \in {Answer(inbox, c, "err"), Answer(inbox, c, "oidc")} /\ sess' = sess
  BY <1>1, <1>6, <1>7, AnswerOK, SlotKept, TasksShrink, LanKept, SessKept
  DEF Winding, PairingApprove, ServerOnly, PairInv, BasicsOK
<1>8. CASE ~(inbox' \in {Answer(inbox, c, "err"), Answer(inbox, c, "oidc")} /\ sess' = sess)
  <2>1. /\ j.id \in DOMAIN sess
        /\ sess' = [sess EXCEPT ![j.id].stage = "approved"]
        /\ inbox' = Answer(Tell(inbox, Party(s, "joiner"), [kind |-> "completed", arg |-> j.bundle]), c, "ok")
    BY <1>2, <1>3, <1>4, <1>8, Zenon DEF PairingApprove
  <2>2. SessionOK(j.id, s)
    BY <1>4, <2>1 DEF PairInv, SessOK
  <2>3. SessionsOK(sess')
    <3>2. PICK z : z = [stage |-> "approved", offerer |-> s.offerer, orole |-> s.orole,
                        claimer |-> s.claimer, acct |-> s.acct, joining |-> s.joining]
      OBVIOUS
    <3>3. DOMAIN sess' = DOMAIN sess /\ sess'[j.id] = z
          /\ \A id \in DOMAIN sess : id # j.id => sess'[id] = sess[id]
      BY <1>4, <2>1, <2>2, <3>2 DEF SessionOK
    <3>4. SessionOK(j.id, z)
      BY <2>2, <3>2 DEF SessionOK
    <3> QED BY <3>3, <3>4 DEF SessionsOK, PairInv, SessOK
  <2>4. BundleOK(j.bundle)
    BY <1>2 DEF PairingApprove, Pending, PairInv, JobsOK, JobOK
  <2>5. PICK m : m = [kind |-> "completed", arg |-> j.bundle]
    OBVIOUS
  <2>6. MsgOK(Party(s, "joiner")[1], Msg(Party(s, "joiner"), m.kind, m.arg))
    BY <2>4, <2>5 DEF MsgOK, Msg
  <2>7. BoxesOK(Tell(inbox, Party(s, "joiner"), m))
    BY <1>6, <2>6, TellOK
  <2>8. BoxesOK(inbox')
    BY <2>1, <2>5, <2>7, AnswerOK
  <2> QED BY <1>1, <2>3, <2>8, SlotKept, TasksShrink, LanKept
          DEF Winding, PairingApprove, ServerOnly, PairInv, BasicsOK
<1> QED BY <1>7, <1>8

LEMMA PairingCancelWinds ==
    ASSUME PairInv, NEW d \in Device, PairingCancel(d)
    PROVE  Winding
<1>1. JobsGoOn
  BY HandledOK DEF PairingCancel, PairInv
<1>2. PICK id : id = job[d].id
  OBVIOUS
<1>3. PICK c : c = JobConn(d)
  OBVIOUS
<1>4. BoxesOK(inbox)
  BY DEF PairInv, InboxOK, BoxesOK
<1>5. CASE sess' = sess /\ inbox' = Answer(inbox, c, "err")
  BY <1>1, <1>4, <1>5, AnswerOK, SlotKept, TasksShrink, LanKept, SessKept
  DEF Winding, PairingCancel, ServerOnly, PairInv, BasicsOK
<1>6. CASE ~(sess' = sess /\ inbox' = Answer(inbox, c, "err"))
  <2>1. /\ id \in DOMAIN sess /\ sess' = Without({id})
        /\ inbox' = Answer(ToldOf(inbox, {id}, c), c, "ok")
    BY <1>2, <1>3, <1>6 DEF PairingCancel
  <2>2. BoxesOK(ToldOf(inbox, {id}, c))
    BY <1>4, <2>1, ToldOK DEF PairInv
  <2>3. BoxesOK(inbox') /\ SessionsOK(sess')
    BY <2>1, <2>2, AnswerOK, SessWithout DEF PairInv
  <2> QED BY <1>1, <2>3, SlotKept, TasksShrink, LanKept
          DEF Winding, PairingCancel, ServerOnly, PairInv, BasicsOK
<1> QED BY <1>5, <1>6

LEMMA ConnEndsWinds ==
    ASSUME PairInv, NEW c, ConnEnds(c)
    PROVE  Winding
<1>1. BoxesOK(inbox) /\ Orphans(c) \subseteq DOMAIN sess
  BY DEF PairInv, InboxOK, BoxesOK, Orphans
<1>2. BoxesOK(inbox') /\ SessionsOK(sess')
  BY <1>1, ToldOK, SessWithout DEF ConnEnds, PairInv
<1> QED BY <1>2, SlotKept, JobKept, TasksShrink, LanKept DEF Winding, ConnEnds, PairInv, BasicsOK

LEMMA SweepWinds ==
    ASSUME PairInv, NEW id, Sweep(id)
    PROVE  Winding
BY SessWithout, KeepOK, SlotKept, JobKept, TasksShrink, LanKept
DEF Winding, Sweep, ServerOnly, PairInv, BasicsOK

\* An end of a sealed channel that may still take a key has its decision.
LEMMA GrantWaits ==
    ASSUME NEW key, Handed(key), NEW e, KeyOf(key, e), ~NeverJoins(e), ~Spent(e)
    PROVE  Grant(who[e], key) \in granted
<1>1. PICK x \in {key.o, key.c} :
         /\ KeyOf(key, x) /\ NeverJoins(x)
         /\ Spent(Far(key, x)) \/ Grant(who[Far(key, x)], key) \in granted
  BY DEF Handed
<1>2. Far(key, x) = e
  <2>1. x # e /\ e \in {key.o, key.c}
    BY <1>1 DEF KeyOf
  <2> QED BY <2>1 DEF Far
<1> QED BY <1>1, <1>2

LEMMA EndOK ==
    ASSUME PairInv, NEW t \in tasks, t.kind # "sponsor", End(t)
    PROVE  SlotShrinks /\ BoxesOK(inbox') /\ TasksGoOn
<1>1. TasksGoOn
  BY TasksShrink DEF End, PairInv
<1>2. t.kind \in {"complete", "joiner", "code"}
  BY DEF PairInv, TasksOK, TaskOK
<1>3. CASE t.kind = "complete"
  <2>1. Close({<<t.dev, t.epoch>>}) /\ slot' = slot
    BY <1>3 DEF End
  <2> QED BY <1>1, <2>1, CloseOK, SlotKept DEF PairInv
<1>4. CASE t.kind = "joiner"
  <2>1. Settle(t.dev, t.id)
    BY <1>4 DEF End
  <2> QED BY <1>1, <2>1, SettleOK DEF PairInv
<1>5. CASE t.kind = "code"
  <2>1. slot' = slot /\ inbox' = inbox
    BY <1>5 DEF End, Keep
  <2> QED BY <1>1, <2>1, KeepOK, SlotKept DEF PairInv
<1> QED BY <1>2, <1>3, <1>4, <1>5

LEMMA LanSponsorWinds ==
    ASSUME PairInv, NEW t, LanSponsor(t)
    PROVE  Winding
<1>1. t \in tasks /\ t.kind = "sponsor" /\ TaskOK(t)
  BY DEF LanSponsor, PairInv, TasksOK
<1>2. PICK x : x = Stream(t.key.o, t.key.c)
  OBVIOUS
<1>3. x \in lan /\ x.o = t.key.o /\ x.c = t.key.c
  BY <1>1, <1>2, StreamIn DEF TaskOK
<1>4. TasksGoOn
  BY TasksShrink DEF LanSponsor, PairInv
<1>5. SlotShrinks /\ BoxesOK(inbox')
  <2>1. CASE slot' = slot /\ inbox' = inbox
    BY <2>1, SlotKept, KeepOK DEF PairInv
  <2>2. CASE Settle(t.dev, t.id)
    BY <2>2, SettleOK DEF PairInv
  <2> QED BY <2>1, <2>2 DEF LanSponsor
<1>6. LanGoesOn
  <2>1. CASE lan' = lan
    BY <2>1, LanKept DEF PairInv
  <2>2. CASE OnStream(x, "refused")
    BY <1>3, <2>2, StreamFrame DEF PairInv
  <2>3. CASE ~(lan' = lan) /\ ~OnStream(x, "refused")
    <3>1. PICK z : z = [x EXCEPT !.frame = "grant", !.bundle = Sealed(t.key, AccountKey(t.dev))]
      OBVIOUS
    <3>2. t.pc = "seal" /\ HoldsKey(t.dev) /\ lan' = (lan \ {x}) \cup {z}
      BY <1>2, <2>3, <3>1 DEF LanSponsor
    <3>3. StreamOK(x)
      BY <1>3 DEF PairInv, LanOK
    <3>4. AccountKey(t.dev) \in Account
      BY <1>1, <3>2 DEF HoldsKey, AccountKey, TaskOK, PairInv, BasicsOK
    <3>5. PICK b : b = Sealed(t.key, AccountKey(t.dev))
      OBVIOUS
    <3>6. BundleOK(b)
      BY <1>1, <3>2, <3>4, <3>5 DEF BundleOK, Sealed, TaskOK
    <3>7. /\ z = [o |-> x.o, c |-> x.c, frame |-> "grant", dialer |-> x.dialer,
                  displayer |-> x.displayer, bundle |-> b]
      BY <3>1, <3>3, <3>5 DEF StreamOK
    <3>8. StreamOK(z) /\ z.o = x.o /\ z.c = x.c
      BY <3>3, <3>6, <3>7 DEF StreamOK
    <3> QED BY <1>3, <3>2, <3>8, StreamSet DEF PairInv
  <2> QED BY <2>1, <2>2, <2>3
<1> QED BY <1>4, <1>5, <1>6, JobKept, SessKept DEF Winding, LanSponsor, PairInv, BasicsOK

LEMMA LanJoinerWinds ==
    ASSUME PairInv, NEW t, LanJoiner(t)
    PROVE  Winding
<1>1. t \in tasks /\ t.kind = "joiner" /\ t.pc = "wait" /\ TaskOK(t)
  BY DEF LanJoiner, PairInv, TasksOK
<1>2. PICK x : x = Stream(t.key.o, t.key.c)
  OBVIOUS
<1>3. x \in lan /\ x.o = t.key.o /\ x.c = t.key.c
  BY <1>1, <1>2, StreamIn DEF TaskOK
<1>4. CASE x.frame = "grant"
  <2>1. PICK u : u = [t EXCEPT !.pc = "stow", !.acct = x.bundle.acct]
    OBVIOUS
  <2>2. /\ Opens(t.key, x.bundle) /\ tasks' = (tasks \ {t}) \cup {u}
        /\ slot' = slot /\ inbox' = inbox /\ lan' = lan
    BY <1>2, <1>4, <2>1 DEF LanJoiner
  <2>3. BundleOK(x.bundle) /\ x.bundle.key = t.key
    BY <1>3, <1>4, <2>2 DEF PairInv, LanOK, StreamOK, Opens
  <2>4. KeyOf(t.key, t.epoch) /\ who[t.epoch] = t.dev
    BY <1>1 DEF TaskOK
  <2>5. ~NeverJoins(t.epoch) /\ ~Spent(t.epoch)
    BY <1>1 DEF NeverJoins, Spent
  <2>6. Grant(t.dev, t.key) \in granted
    BY <2>3, <2>4, <2>5, GrantWaits DEF BundleOK
  <2>7. u = [dev |-> t.dev, kind |-> t.kind, pc |-> "stow", epoch |-> t.epoch, id |-> t.id,
             key |-> t.key, acct |-> x.bundle.acct, peer |-> t.peer]
    BY <1>1, <2>1 DEF TaskOK
  <2>8. TaskOK(u)
    BY <1>1, <2>3, <2>6, <2>7 DEF TaskOK, BundleOK
  <2>9. TaskGoesOn(t, u)
    BY <1>1, <2>7 DEF TaskGoesOn, Continues
  <2>10. TasksGoOn
    BY <1>1, <2>2, <2>8, <2>9, TaskMoves DEF PairInv
  <2> QED BY <2>2, <2>10, SlotKept, KeepOK, LanKept, JobKept, SessKept
          DEF Winding, LanJoiner, PairInv, BasicsOK
<1>5. CASE x.frame # "grant"
  <2>1. OnStream(x, "dead") /\ Settle(t.dev, t.id) /\ tasks' = tasks \ {t}
    BY <1>2, <1>5 DEF LanJoiner
  <2>2. LanGoesOn
    BY <1>3, <2>1, StreamFrame DEF PairInv
  <2>3. SlotShrinks /\ BoxesOK(inbox') /\ TasksGoOn
    BY <2>1, SettleOK, TasksShrink DEF PairInv
  <2> QED BY <2>2, <2>3, JobKept, SessKept DEF Winding, LanJoiner, PairInv, BasicsOK
<1> QED BY <1>4, <1>5

LEMMA StowKeyWinds ==
    ASSUME PairInv, NEW t, StowKey(t)
    PROVE  Winding
<1>1. t \in tasks /\ t.pc = "stow" /\ TaskOK(t) /\ t.kind # "sponsor"
  BY DEF StowKey, PairInv, TasksOK, TaskOK
<1>2. SlotShrinks /\ BoxesOK(inbox') /\ TasksGoOn
  <2>1. CASE End(t)
    BY <1>1, <2>1, EndOK
  <2>2. CASE Step(t, "commit") /\ Keep /\ slot' = slot
    <3>1. PICK u : u = [t EXCEPT !.pc = "commit"]
      OBVIOUS
    <3>2. tasks' = (tasks \ {t}) \cup {u}
      BY <2>2, <3>1 DEF Step
    <3>3. u = [dev |-> t.dev, kind |-> t.kind, pc |-> "commit", epoch |-> t.epoch, id |-> t.id,
               key |-> t.key, acct |-> t.acct, peer |-> t.peer]
      BY <1>1, <3>1 DEF TaskOK
    <3>4. TaskOK(u)
      BY <1>1, <3>3 DEF TaskOK
    <3>5. TaskGoesOn(t, u)
      BY <1>1, <3>3 DEF TaskGoesOn, Continues
    <3>6. TasksGoOn
      BY <1>1, <3>2, <3>4, <3>5, TaskMoves DEF PairInv
    <3> QED BY <2>2, <3>6, SlotKept, KeepOK DEF PairInv, Keep
  <2> QED BY <2>1, <2>2 DEF StowKey
<1> QED BY <1>2, LanKept, JobKept, SessKept DEF Winding, StowKey, PairInv, BasicsOK

LEMMA EnterAccountWinds ==
    ASSUME PairInv, NEW t, EnterAccount(t)
    PROVE  Winding
<1>1. t \in tasks /\ t.kind # "sponsor"
  BY DEF EnterAccount, PairInv, TasksOK, TaskOK
<1>2. SlotShrinks /\ BoxesOK(inbox') /\ TasksGoOn
  BY <1>1, EndOK DEF EnterAccount
<1> QED BY <1>2, LanKept, JobKept, SessKept DEF Winding, EnterAccount, PairInv, BasicsOK

LEMMA EnrollOnGrantWinds ==
    ASSUME PairInv, NEW t, EnrollOnGrant(t)
    PROVE  Winding
<1>1. TasksGoOn
  BY TasksShrink DEF EnrollOnGrant, PairInv
<1>2. SessionsOK(sess')
  BY SessWithout DEF EnrollOnGrant, PairInv
<1>3. BoxesOK(inbox')
  <2>1. PICK c : c = <<t.dev, t.epoch>>
    OBVIOUS
  <2>2. inbox' = [inbox EXCEPT ![t.dev] = Undelivered(@, {c})]
    BY <2>1 DEF EnrollOnGrant
  <2>3. \A d \in Device : BoxOK(d, Undelivered(inbox[d], {c}))
    BY BoxFilter DEF PairInv, InboxOK
  <2> QED BY <2>2, <2>3 DEF PairInv, InboxOK, BoxesOK
<1> QED BY <1>1, <1>2, <1>3, SlotKept, LanKept, JobKept
        DEF Winding, EnrollOnGrant, PairInv, BasicsOK

LEMMA DirectLostWinds ==
    ASSUME PairInv, NEW d \in Device, DirectLost(d)
    PROVE  Winding
<1>1. PICK e : /\ Close({<<d, e>>})
               /\ slot' = IF slot[d].epoch = e THEN [slot EXCEPT ![d] = NoSlot] ELSE slot
               /\ job' = IF ~IsIdle(d) /\ job[d].epoch = e THEN [job EXCEPT ![d] = Unsent(d)] ELSE job
  BY DEF DirectLost
<1>2. BoxesOK(inbox')
  BY <1>1, CloseOK DEF PairInv
<1>3. SlotShrinks
  BY <1>1, SlotKept, SlotEmptied DEF PairInv
<1>4. JobsGoOn
  <2>1. JobOK(d, Unsent(d)) /\ JobGoesOn(d, Unsent(d))
    BY UnsentOK DEF PairInv
  <2>2. CASE job' = job
    BY <2>2, JobKept DEF PairInv
  <2>3. CASE job' = [job EXCEPT ![d] = Unsent(d)]
    BY <2>1, <2>3, JobSet DEF PairInv
  <2> QED BY <1>1, <2>2, <2>3
<1> QED BY <1>2, <1>3, <1>4, TasksShrink, LanKept, SessKept
        DEF Winding, DirectLost, PairInv, BasicsOK

LEMMA SessionLostWinds ==
    ASSUME PairInv, NEW d \in Device, SessionLost(d)
    PROVE  Winding
<1>1. BoxesOK(inbox')
  BY CloseOK DEF SessionLost, PairInv
<1>2. JobsGoOn
  <2>1. JobOK(d, Unsent(d)) /\ JobGoesOn(d, Unsent(d))
    BY UnsentOK DEF PairInv
  <2>2. CASE job' = job
    BY <2>2, JobKept DEF PairInv
  <2>3. CASE job' = [job EXCEPT ![d] = Unsent(d)]
    BY <2>1, <2>3, JobSet DEF PairInv
  <2> QED BY <2>2, <2>3 DEF SessionLost
<1> QED BY <1>1, <1>2, SlotKept, TasksShrink, LanKept, SessKept
        DEF Winding, SessionLost, PairInv, BasicsOK

LEMMA SessionBackWinds ==
    ASSUME PairInv, NEW d \in Device, SessionBack(d)
    PROVE  Winding
BY SlotKept, JobKept, TasksShrink, LanKept, KeepOK, SessKept
DEF Winding, SessionBack, PairInv, BasicsOK

LEMMA UnreachableWinds ==
    ASSUME PairInv, NEW d \in Device, Unreachable(d)
    PROVE  Winding
<1>1. JobOK(d, Unsent(d)) /\ JobGoesOn(d, Unsent(d))
  BY UnsentOK DEF PairInv
<1>2. JobsGoOn
  BY <1>1, JobSet DEF Unreachable, PairInv
<1> QED BY <1>2, SlotKept, TasksShrink, LanKept, KeepOK, SessKept
        DEF Winding, Unreachable, PairInv, BasicsOK

LEMMA StreamLostWinds ==
    ASSUME PairInv, NEW x, StreamLost(x)
    PROVE  Winding
<1>1. LanGoesOn
  BY StreamFrame DEF StreamLost, PairInv
<1> QED BY <1>1, SlotKept, JobKept, TasksShrink, KeepOK, SessKept
        DEF Winding, StreamLost, PairInv, BasicsOK

LEMMA LeaveWinds ==
    ASSUME PairInv, NEW d \in Device, Leave(d)
    PROVE  Winding
<1>1. SlotShrinks /\ BoxesOK(inbox')
  BY SlotEmptied, CloseOK DEF Leave, PairInv
<1>2. JobsGoOn
  <2>1. JobOK(d, Unsent(d)) /\ JobGoesOn(d, Unsent(d))
    BY UnsentOK DEF PairInv
  <2>2. CASE job' = [job EXCEPT ![d] = Idle]
    BY <2>2, JobSet, IdleOK DEF PairInv
  <2>3. CASE job' = [job EXCEPT ![d] = Unsent(d)]
    BY <2>1, <2>3, JobSet DEF PairInv
  <2> QED BY <2>2, <2>3 DEF Leave
<1>3. root' \in [Device -> Account \cup {None}]
  BY DEF Leave, PairInv, BasicsOK
<1> QED BY <1>1, <1>2, <1>3, TasksShrink, LanKept, SessKept
        DEF Winding, Leave, PairInv, BasicsOK

-----------------------------------------------------------------------------
(* Taking the key: the one step that uses a decision up. *)
Takes(t) ==
    /\ t \in tasks /\ t.pc = "commit" /\ root[t.dev] \in {None, t.acct}
    /\ root' = [root EXCEPT ![t.dev] = t.acct]
    /\ granted' = granted \ {Grant(t.dev, t.key)}
    /\ Step(t, "enter")
    /\ Keep /\ UNCHANGED slot
    /\ UNCHANGED <<who, job, sess, lan, typed>>

LEMMA CommitRootCases ==
    ASSUME PairInv, NEW t, CommitRoot(t)
    PROVE  Takes(t) \/ (Winding /\ UNCHANGED <<root, granted>>)
<1>1. t \in tasks /\ t.kind # "sponsor"
  BY DEF CommitRoot, PairInv, TasksOK, TaskOK
<1>2. CASE End(t) /\ UNCHANGED <<root, granted>>
  <2>1. SlotShrinks /\ BoxesOK(inbox') /\ TasksGoOn
    BY <1>1, <1>2, EndOK
  <2> QED BY <1>2, <2>1, LanKept, JobKept, SessKept DEF Winding, CommitRoot, PairInv, BasicsOK
<1>3. CASE ~(End(t) /\ UNCHANGED <<root, granted>>)
  BY <1>3 DEF CommitRoot, Takes, Grant
<1> QED BY <1>2, <1>3

LEMMA TakesWinds ==
    ASSUME PairInv, NEW t, Takes(t)
    PROVE  Winding
<1>1. t \in tasks /\ t.pc = "commit" /\ TaskOK(t)
  BY DEF Takes, PairInv, TasksOK
<1>2. PICK u : u = [t EXCEPT !.pc = "enter"]
  OBVIOUS
<1>3. tasks' = (tasks \ {t}) \cup {u}
  BY <1>2 DEF Takes, Step
<1>4. u = [dev |-> t.dev, kind |-> t.kind, pc |-> "enter", epoch |-> t.epoch, id |-> t.id,
           key |-> t.key, acct |-> t.acct, peer |-> t.peer]
  BY <1>1, <1>2 DEF TaskOK
<1>5. TaskOK(u)
  BY <1>1, <1>4 DEF TaskOK
<1>6. TaskGoesOn(t, u)
  BY <1>1, <1>4 DEF TaskGoesOn, Continues
<1>7. TasksGoOn
  BY <1>1, <1>3, <1>5, <1>6, TaskMoves DEF PairInv
<1>8. root' \in [Device -> Account \cup {None}]
  BY <1>1 DEF Takes, TaskOK, PairInv, BasicsOK
<1> QED BY <1>7, <1>8, SlotKept, JobKept, LanKept, KeepOK, SessKept
        DEF Winding, Takes, Keep, PairInv, BasicsOK

\* The device a decision names is at one end of its channel only.
LEMMA OneEnd ==
    ASSUME NEW key, NEW e, NEW f, KeyOf(key, e), KeyOf(key, f), who[e] = who[f]
    PROVE  e = f
BY DEF KeyOf

LEMMA NotACode ==
    ASSUME BasicsOK, NEW t, TaskOK(t), t.kind = "code", NEW e
    PROVE  ~KeyOf(t.key, e)
<1>1. t.key.o = 0
  BY DEF TaskOK, ChannelKey
<1>2. 0 \notin Epochs
  BY DEF Epochs, BasicsOK
<1> QED BY <1>1, <1>2 DEF KeyOf

LEMMA TakesSpends ==
    ASSUME PairInv, NEW t, Takes(t), t.kind # "code"
    PROVE  Spent(t.epoch)'
<1>1. PICK u : u = [t EXCEPT !.pc = "enter"]
  OBVIOUS
<1>2. tasks' = (tasks \ {t}) \cup {u} /\ job' = job /\ slot' = slot /\ t \in tasks
  BY <1>1 DEF Takes, Step
<1>3. TaskOK(t) /\ t.epoch # 0
  BY <1>2 DEF PairInv, TasksOK, TaskOK, Epochs, BasicsOK
<1>4. u.pc = "enter"
  BY <1>1, <1>3 DEF TaskOK
<1>5. ~Starting(t.epoch)'
  BY <1>2 DEF Starting, PairInv, JobsOK
<1>6. \A d \in Device : slot'[d].epoch = t.epoch => slot'[d].wire = "lan" /\ slot'[d].key # NoKey
  BY <1>2, <1>3 DEF PairInv, SlotsOK, Agree
<1>7. \A w \in tasks' : w.epoch = t.epoch => w.pc = "enter"
  BY <1>2, <1>3, <1>4 DEF PairInv, TasksOK
<1> QED BY <1>5, <1>6, <1>7 DEF Spent

LEMMA TakesHanded ==
    ASSUME PairInv, NEW t, Takes(t), NEW key, Handed(key)
    PROVE  Handed(key)'
<1>1. PICK x \in {key.o, key.c} :
         /\ KeyOf(key, x) /\ NeverJoins(x)
         /\ Spent(Far(key, x)) \/ Grant(who[Far(key, x)], key) \in granted
  BY DEF Handed
<1>2. PICK y : y = Far(key, x)
  OBVIOUS
<1>3. x \in Epochs /\ y \in Epochs /\ KeyOf(key, y)
  BY <1>1, <1>2 DEF KeyOf, Far
<1>4. Winding /\ Orderly /\ who' = who
  BY TakesWinds, WindingOrderly DEF Winding
<1>5. x # 0 /\ x # Len(who) + 1 /\ y # 0 /\ y # Len(who) + 1 /\ KeyOf(key, x)'
  BY <1>1, <1>3, <1>4, WhoGrows DEF Orderly, PairInv, BasicsOK
<1>6. NeverJoins(x)'
  BY <1>1, <1>4, <1>5, NeverJoinsStays
<1>7. Spent(y)' \/ Grant(who'[y], key) \in granted'
  <2>1. CASE Spent(y)
    BY <1>4, <1>5, <2>1, SpentStays
  <2>2. CASE Grant(who[y], key) \in granted /\ Grant(who[y], key) # Grant(t.dev, t.key)
    BY <1>4, <2>2 DEF Takes
  <2>3. CASE Grant(who[y], key) = Grant(t.dev, t.key)
    <3>1. who[y] = t.dev /\ key = t.key
      BY <2>3 DEF Grant
    <3>2. TaskOK(t)
      BY DEF Takes, PairInv, TasksOK
    <3>3. t.kind # "code"
      BY <1>3, <3>1, <3>2, NotACode DEF PairInv
    <3>4. y = t.epoch
      BY <1>3, <3>1, <3>2, <3>3, OneEnd DEF TaskOK
    <3> QED BY <3>3, <3>4, TakesSpends
  <2> QED BY <1>1, <1>2, <2>1, <2>2, <2>3
<1> QED BY <1>2, <1>4, <1>5, <1>6, <1>7 DEF Handed, Far

LEMMA TakesOK ==
    ASSUME PairInv, NEW t, Takes(t)
    PROVE  PairInv'
<1>1. Winding
  BY TakesWinds
<1>2. BasicsOK /\ Orderly /\ LanStep /\ typed' \in Nat /\ typed <= typed'
  BY <1>1, WindingOrderly DEF PairInv, BasicsOK, Winding, LanGoesOn
<1>3. Stays
  BY <1>2, TakesHanded, StaysStep
<1>4. ASSUME NEW u \in tasks', u.pc \in {"stow", "commit"} PROVE Grant(u.dev, u.key) \in granted'
  <2>1. TaskOK(t) /\ t \in tasks
    BY DEF Takes, PairInv, TasksOK
  <2>2. u \in tasks /\ u # t
    <3>1. [t EXCEPT !.pc = "enter"].pc = "enter"
      BY <2>1 DEF TaskOK
    <3> QED BY <1>4, <3>1 DEF Takes, Step
  <2>3. TaskOK(u) /\ Grant(u.dev, u.key) \in granted
    BY <1>4, <2>2 DEF PairInv, TasksOK, TaskOK
  <2>4. ASSUME Grant(u.dev, u.key) = Grant(t.dev, t.key) PROVE FALSE
    <3>1. u.dev = t.dev /\ u.key = t.key
      BY <2>4 DEF Grant
    <3>2. CASE t.kind = "code"
      BY <2>1, <2>2, <3>1, <3>2 DEF PairInv, TasksOK, TaskOK
    <3>3. CASE t.kind # "code"
      <4>1. u.kind # "code"
        BY <2>1, <2>3, <3>1, <3>3, NotACode DEF PairInv, TaskOK
      <4>2. u.epoch = t.epoch
        BY <2>1, <2>3, <3>1, <3>3, <4>1, OneEnd DEF TaskOK
      <4>3. t.epoch # 0
        BY <2>1, <3>3 DEF PairInv, TaskOK, Epochs, BasicsOK
      <4> QED BY <2>1, <2>2, <4>2, <4>3 DEF PairInv, TasksOK
    <3> QED BY <3>2, <3>3
  <2> QED BY <2>3, <2>4 DEF Takes
<1> QED BY <1>1, <1>3, <1>4, WindingRest

-----------------------------------------------------------------------------
(* Steps of one device that start a pairing or move one on: its slot, its  *)
(* call, and the tasks T it spawns.                                        *)
Moves(d, s, j, T) ==
    /\ slot' = [slot EXCEPT ![d] = s]
    /\ job' = [job EXCEPT ![d] = j]
    /\ \A u \in tasks' : u \in T \/ \E t \in tasks : TaskGoesOn(t, u)
    /\ who' = who \/ who' = Append(who, d)
    /\ sess' = sess /\ LanStep /\ granted \subseteq granted'
    /\ root' = root /\ typed' \in Nat /\ typed <= typed'

LEMMA MovesAt ==
    ASSUME PairInv, NEW d \in Device, NEW s, NEW j, NEW T, Moves(d, s, j, T)
    PROVE  /\ slot' = [e \in Device |-> slot'[e]] /\ job' = [e \in Device |-> job'[e]]
           /\ slot'[d] = s /\ job'[d] = j
           /\ \A e \in Device : e # d => slot'[e] = slot[e] /\ job'[e] = job[e]
BY DEF Moves, PairInv, SlotsOK, JobsOK

LEMMA MovesOrderly ==
    ASSUME PairInv, NEW d \in Device, NEW s, NEW j, NEW T, Moves(d, s, j, T),
           SlotStep(d), JobStep(d), \A u \in T : TaskStep(u)
    PROVE  Orderly /\ Stays
<1>1. \A e \in Device : e # d => slot'[e] = slot[e] /\ job'[e] = job[e]
  BY MovesAt
<1>2. \A e \in Device : SlotStep(e) /\ JobStep(e)
  <2>1. ASSUME NEW e \in Device, e # d PROVE SlotStep(e) /\ JobStep(e)
    BY <1>1, <2>1 DEF SlotStep, JobStep
  <2> QED BY <2>1
<1>3. \A u \in tasks' : TaskStep(u)
  <2>1. ASSUME NEW u, NEW t \in tasks, TaskGoesOn(t, u) PROVE TaskStep(u)
    BY <2>1 DEF TaskStep, TaskGoesOn
  <2> QED BY <2>1 DEF Moves
<1>4. Orderly
  BY <1>2, <1>3 DEF Orderly, Moves
<1>5. \A key : Handed(key) => Handed(key)'
  BY <1>4, HandedStays DEF PairInv, Moves
<1>6. Stays
  BY <1>4, <1>5, StaysStep DEF PairInv, Moves
<1> QED BY <1>4, <1>6

\* What the tasks under way say of the epochs they serve.
LEMMA MovesEpochs ==
    ASSUME PairInv, NEW d \in Device, NEW s, NEW j, NEW T, Moves(d, s, j, T)
    PROVE  /\ who' \in Seq(Device) /\ Epochs \subseteq Epochs'
           /\ \A e \in Epochs : who'[e] = who[e] /\ e # 0 /\ e # Len(who) + 1
           /\ \A e \in Device : slot[e].epoch = 0 \/ (slot[e].epoch \in Epochs /\ who[slot[e].epoch] = e)
           /\ \A t \in tasks : t.epoch = 0 \/ t.epoch \in Epochs
<1>1. /\ who' \in Seq(Device) /\ Epochs \subseteq Epochs'
      /\ \A e \in Epochs : who'[e] = who[e] /\ e # 0 /\ e # Len(who) + 1
  BY WhoGrows DEF PairInv, BasicsOK, Moves
<1>2. \A e \in Device : slot[e].epoch = 0 \/ (slot[e].epoch \in Epochs /\ who[slot[e].epoch] = e)
  BY DEF PairInv, SlotsOK, SlotOK, NoSlot
<1>3. \A t \in tasks : t.epoch = 0 \/ t.epoch \in Epochs
  BY DEF PairInv, TasksOK, TaskOK
<1> QED BY <1>1, <1>2, <1>3

LEMMA MovesPairs ==
    ASSUME PairInv, NEW d \in Device, NEW s, NEW j, NEW T, Moves(d, s, j, T), Stays,
           SlotOK(d, s)', JobOK(d, j)',
           \A u \in T : u.epoch = 0 \/ (u.epoch \in Epochs' /\ who'[u.epoch] = d),
           \A u \in tasks' : s.epoch = u.epoch /\ u.epoch # 0 => Agree(s, u),
           j.op \in Start => s.epoch # j.epoch /\ \A u \in tasks' : u.epoch # j.epoch
    PROVE  SlotsOK' /\ JobsOK'
<1>1. /\ slot' = [e \in Device |-> slot'[e]] /\ job' = [e \in Device |-> job'[e]]
      /\ slot'[d] = s /\ job'[d] = j
      /\ \A e \in Device : e # d => slot'[e] = slot[e] /\ job'[e] = job[e]
  BY MovesAt
<1>2. /\ Epochs \subseteq Epochs'
      /\ \A e \in Epochs : who'[e] = who[e] /\ e # 0 /\ e # Len(who) + 1
      /\ \A e \in Device : slot[e].epoch = 0 \/ (slot[e].epoch \in Epochs /\ who[slot[e].epoch] = e)
  BY MovesEpochs
<1>3. (\A e \in Device : SlotOK(e, slot[e]))'
  <2>1. ASSUME NEW e \in Device, e # d PROVE SlotOK(e, slot[e])'
    <3>1. PICK z : z = slot[e]
      OBVIOUS
    <3>2. SlotOK(e, z)
      BY <3>1 DEF PairInv, SlotsOK
    <3>3. SlotOK(e, z)'
      BY <3>2 DEF Stays
    <3> QED BY <1>1, <2>1, <3>1, <3>3
  <2> QED BY <1>1, <2>1
<1>4. ASSUME NEW e \in Device, NEW u \in tasks', slot'[e].epoch = u.epoch, u.epoch # 0
      PROVE  Agree(slot'[e], u)
  <2>1. CASE e = d
    BY <1>1, <1>4, <2>1
  <2>2. CASE e # d
    <3>1. slot'[e] = slot[e]
      BY <1>1, <2>2
    <3>2. slot[e].epoch \in Epochs /\ who'[slot[e].epoch] = e
      BY <1>2, <1>4, <3>1
    <3>3. u \notin T
      BY <1>4, <2>2, <3>1, <3>2
    <3>4. PICK t \in tasks : TaskGoesOn(t, u)
      BY <3>3 DEF Moves
    <3>5. Agree(slot[e], t)
      BY <1>4, <3>1, <3>4 DEF PairInv, SlotsOK, TaskGoesOn, Continues
    <3> QED BY <3>1, <3>4, <3>5 DEF Agree, TaskGoesOn, Continues
  <2> QED BY <2>1, <2>2
<1>5. SlotsOK'
  BY <1>1, <1>3, <1>4 DEF SlotsOK
<1>6. (\A e \in Device : JobOK(e, job[e]))'
  <2>1. ASSUME NEW e \in Device, e # d PROVE JobOK(e, job[e])'
    <3>1. PICK z : z = job[e]
      OBVIOUS
    <3>2. JobOK(e, z)
      BY <3>1 DEF PairInv, JobsOK
    <3>3. JobOK(e, z)'
      BY <3>2 DEF Stays
    <3> QED BY <1>1, <2>1, <3>1, <3>3
  <2> QED BY <1>1, <2>1
<1>7. ASSUME NEW e \in Device, job'[e].op \in Start
      PROVE  slot'[e].epoch # job'[e].epoch /\ \A u \in tasks' : u.epoch # job'[e].epoch
  <2>1. CASE e = d
    BY <1>1, <1>7, <2>1
  <2>2. CASE e # d
    <3>1. slot'[e] = slot[e] /\ job'[e] = job[e]
      BY <1>1, <2>2
    <3>2. /\ slot[e].epoch # job[e].epoch /\ \A t \in tasks : t.epoch # job[e].epoch
          /\ job[e].epoch \in Epochs /\ who[job[e].epoch] = e
      BY <1>7, <3>1 DEF PairInv, JobsOK, JobOK, Start
    <3>3. \A u \in T : u.epoch # job[e].epoch
      BY <1>2, <2>2, <3>2
    <3>4. \A u \in tasks' : u.epoch # job[e].epoch
      BY <3>2, <3>3 DEF Moves, TaskGoesOn, Continues
    <3> QED BY <3>1, <3>2, <3>4
  <2> QED BY <2>1, <2>2
<1>8. JobsOK'
  BY <1>1, <1>6, <1>7 DEF JobsOK, Start
<1> QED BY <1>5, <1>8

LEMMA MovesRest ==
    ASSUME PairInv, NEW d \in Device, NEW s, NEW j, NEW T, Moves(d, s, j, T), Stays,
           BoxesOK(inbox'), \A x \in lan' : StreamOK(x) \/ StreamOK(x)',
           j.op = "lan" => OnLan(j.key)'
    PROVE  LanOK' /\ InboxOK' /\ SessOK' /\ BasicsOK'
<1>1. /\ job'[d] = j /\ \A e \in Device : e # d => job'[e] = job[e]
  BY MovesAt
<1>2. /\ Epochs \subseteq Epochs' /\ \A e \in Epochs : who'[e] = who[e]
      /\ who' \in Seq(Device)
  BY MovesEpochs
<1>3. LanOK'
  <2>1. (\A x \in lan : StreamOK(x))'
    BY DEF Stays
  <2>2. ASSUME NEW e \in Device, job'[e].op = "lan" PROVE OnLan(job[e].key)'
    <3>1. CASE e = d
      BY <1>1, <2>2, <3>1
    <3>2. CASE e # d
      <4>1. PICK key : key = job[e].key
        OBVIOUS
      <4>2. OnLan(key)
        BY <1>1, <2>2, <3>2, <4>1 DEF PairInv, LanOK
      <4>3. OnLan(key)'
        BY <4>2 DEF Stays
      <4> QED BY <1>1, <3>2, <4>1, <4>3
    <3> QED BY <3>1, <3>2
  <2> QED BY <2>1, <2>2 DEF LanOK
<1>4. InboxOK'
  BY DEF InboxOK, BoxesOK, Stays
<1>5. SessOK'
  <2>1. ASSUME NEW id, NEW z, SessionOK(id, z) PROVE SessionOK(id, z)'
    BY <1>2, <2>1 DEF SessionOK
  <2> QED BY <2>1 DEF Moves, PairInv, SessOK
<1>6. BasicsOK'
  BY <1>2 DEF Moves, PairInv, BasicsOK
<1> QED BY <1>3, <1>4, <1>5, <1>6

\* The tasks stay in order when there is one more for an epoch that had none.
LEMMA TaskAdded ==
    ASSUME PairInv, Stays, granted \subseteq granted', NEW u, tasks' = tasks \cup {u}, TaskOK(u)',
           \A t \in tasks : t.epoch # u.epoch, u.epoch # 0
    PROVE  TasksOK'
<1>1. (\A t \in tasks : TaskOK(t))'
  <2>1. ASSUME NEW t \in tasks PROVE TaskOK(t)'
    BY DEF PairInv, TasksOK, Stays, TaskOK
  <2> QED BY <2>1
<1>2. Distinct(tasks')
  <2>1. \A w, z \in tasks : /\ w.epoch = z.epoch /\ w.epoch # 0 => w = z
                            /\ w.key = z.key /\ w.epoch = 0 => w = z
    BY DEF PairInv, TasksOK
  <2>2. \A w \in tasks : w.key = u.key => w.epoch # 0
    <3>1. ASSUME NEW w \in tasks, w.key = u.key, w.epoch = 0 PROVE FALSE
      <4>0. 0 \notin Epochs
        BY DEF Epochs, PairInv, BasicsOK
      <4>1. w.kind = "code" /\ w.key.o = 0
        <5>1. TaskOK(w)
          BY DEF PairInv, TasksOK
        <5>2. w.kind = "code"
          BY <3>1, <4>0, <5>1 DEF TaskOK
        <5> QED BY <5>1, <5>2 DEF TaskOK, ChannelKey
      <4>2. u.kind # "code" /\ u.key.o \in Epochs'
        BY DEF TaskOK, KeyOf
      <4>3. 0 \notin Epochs'
        BY DEF Epochs
      <4> QED BY <3>1, <4>1, <4>2, <4>3
    <3> QED BY <3>1
  <2> QED BY <2>1, <2>2 DEF Distinct
<1> QED BY <1>1, <1>2 DEF TasksOK, Distinct

LEMMA TasksKept ==
    ASSUME PairInv, Stays, granted \subseteq granted', tasks' = tasks
    PROVE  TasksOK'
<1>1. (\A t \in tasks : TaskOK(t))'
  <2>1. ASSUME NEW t \in tasks PROVE TaskOK(t)'
    BY DEF PairInv, TasksOK, Stays, TaskOK
  <2> QED BY <2>1
<1> QED BY <1>1 DEF PairInv, TasksOK

-----------------------------------------------------------------------------
(* The pairings started. *)
LEMMA EpochDrawn ==
    ASSUME BasicsOK, NEW d \in Device, NextEpoch(d)
    PROVE  /\ Len(who) + 1 \in Epochs' /\ who'[Len(who) + 1] = d /\ who' = Append(who, d)
           /\ Len(who) + 1 # 0 /\ Epochs \subseteq Epochs'
           /\ \A e \in Epochs : who'[e] = who[e] /\ e # Len(who) + 1
<1>1. who' = Append(who, d) /\ who \in Seq(Device) /\ Len(who) \in Nat
  BY DEF NextEpoch, BasicsOK
<1>2. Len(who') = Len(who) + 1 /\ who'[Len(who) + 1] = d
  BY <1>1
<1>3. Len(who) + 1 \in 1..Len(who') /\ Len(who) + 1 # 0
  BY <1>1, <1>2
<1>4. Epochs \subseteq Epochs' /\ \A e \in Epochs : who'[e] = who[e] /\ e # Len(who) + 1
  BY <1>1, WhoGrows
<1> QED BY <1>1, <1>2, <1>3, <1>4 DEF Epochs

LEMMA CallStarts ==
    ASSUME PairInv, NEW d \in Device, NextEpoch(d), NEW j, job' = [job EXCEPT ![d] = j],
           j.epoch = Len(who) + 1, JobOK(d, j)',
           UNCHANGED <<slot, tasks, sess, inbox, granted, root, typed>>, LanStep,
           \A x \in lan' : StreamOK(x) \/ StreamOK(x)', j.op = "lan" => OnLan(j.key)'
    PROVE  PairInv'
<1>1. PICK s : s = slot[d]
  OBVIOUS
<1>2. \A t \in tasks : TaskGoesOn(t, t)
  BY DEF TaskGoesOn, Continues
<1>3. Moves(d, s, j, {})
  BY <1>1, <1>2, EpochDrawn DEF Moves, PairInv, BasicsOK, SlotsOK
<1>4. slot'[d] = s /\ job'[d] = j
  BY <1>3, MovesAt
<1>5. SlotStep(d) /\ JobStep(d)
  BY <1>1, <1>4 DEF SlotStep, JobStep
<1>6. Stays
  BY <1>3, <1>5, MovesOrderly
<1>7. SlotOK(d, s)'
  BY <1>1, <1>6 DEF PairInv, SlotsOK, Stays
<1>8. s.epoch # j.epoch /\ \A u \in tasks' : u.epoch # j.epoch
  <2>1. /\ \A e \in Epochs : e # Len(who) + 1
        /\ s.epoch = 0 \/ s.epoch \in Epochs
        /\ \A t \in tasks : t.epoch = 0 \/ t.epoch \in Epochs
    BY <1>1, <1>3, MovesEpochs
  <2>2. Len(who) + 1 # 0
    BY EpochDrawn DEF PairInv
  <2> QED BY <2>1, <2>2
<1>9. \A u \in tasks' : s.epoch = u.epoch /\ u.epoch # 0 => Agree(s, u)
  BY <1>1 DEF PairInv, SlotsOK
<1>10. SlotsOK' /\ JobsOK'
  BY <1>3, <1>6, <1>7, <1>8, <1>9, MovesPairs
<1>11. BoxesOK(inbox')
  BY KeepOK DEF PairInv
<1>12. LanOK' /\ InboxOK' /\ SessOK' /\ BasicsOK'
  BY <1>3, <1>6, <1>11, MovesRest
<1>13. TasksOK'
  BY <1>6, TasksKept
<1> QED BY <1>10, <1>12, <1>13 DEF PairInv

LEMMA OfferOK ==
    ASSUME PairInv, NEW d \in Device, Offer(d)
    PROVE  PairInv'
<1>1. PICK e : e = Len(who) + 1
  OBVIOUS
<1>2. PICK j : j = Call("create", e, e, LocalRole(d), WireFor(d), NoKey)
  OBVIOUS
<1>3. job' = [job EXCEPT ![d] = j] /\ NextEpoch(d)
  BY <1>1, <1>2 DEF Offer, EPOCH
<1>4. e \in Epochs' /\ who'[e] = d
  BY <1>1, <1>3, EpochDrawn DEF PairInv
<1>5. JobOK(d, j)'
  BY <1>2, <1>4 DEF JobOK, Call, Idle, LocalRole
<1>6. j.epoch = e /\ j.op # "lan"
  BY <1>2 DEF Call, Idle
<1>7. LanStep /\ \A x \in lan' : StreamOK(x)
  BY DEF Offer, LanStep, PairInv, LanOK
<1> QED BY <1>1, <1>3, <1>5, <1>6, <1>7, CallStarts DEF Offer

LEMMA AcceptOK ==
    ASSUME PairInv, NEW d \in Device, Accept(d)
    PROVE  PairInv'
<1>1. PICK e : e = Len(who) + 1
  OBVIOUS
<1>2. NextEpoch(d)
  BY DEF Accept
<1>3. PICK o \in Epochs :
         /\ who[o] # d
         /\ job' = [job EXCEPT ![d] = Call("claim", e, o, "joiner", WireFor(d), ChannelKey(o, e))]
  BY <1>1 DEF Accept, EPOCH, Epochs
<1>4. PICK j : j = Call("claim", e, o, "joiner", WireFor(d), ChannelKey(o, e))
  OBVIOUS
<1>5. e \in Epochs' /\ who'[e] = d /\ o \in Epochs' /\ who'[o] # d
  BY <1>1, <1>2, <1>3, EpochDrawn DEF PairInv
<1>6. PICK key : key = ChannelKey(o, e)
  OBVIOUS
<1>7. KeyOf(key, e)' /\ key.c = e /\ key.o = o
  BY <1>5, <1>6 DEF KeyOf, ChannelKey
<1>8. j = [op |-> "claim", st |-> "sent", epoch |-> e, id |-> o, role |-> "joiner",
           wire |-> WireFor(d), key |-> key, bundle |-> Sealed(NoKey, None)]
  BY <1>4, <1>6 DEF Call, Idle
<1>9. JobOK(d, j)'
  BY <1>5, <1>7, <1>8 DEF JobOK
<1>10. j.epoch = e /\ j.op # "lan"
  BY <1>8
<1>11. LanStep /\ \A x \in lan' : StreamOK(x)
  BY DEF Accept, LanStep, PairInv, LanOK
<1> QED BY <1>1, <1>2, <1>3, <1>4, <1>9, <1>10, <1>11, CallStarts DEF Accept

LEMMA AcceptLanOK ==
    ASSUME PairInv, NEW d \in Device, AcceptLan(d)
    PROVE  PairInv'
<1>1. PICK e : e = Len(who) + 1
  OBVIOUS
<1>2. NextEpoch(d)
  BY DEF AcceptLan
<1>3. PICK o \in Epochs :
         /\ who[o] # d
         /\ lan' = lan \cup {[o |-> o, c |-> e, frame |-> "offer", dialer |-> Standing(d),
                              displayer |-> NoStanding, bundle |-> Sealed(NoKey, None)]}
         /\ job' = [job EXCEPT ![d] = Call("lan", e, e, "joiner", "lan", ChannelKey(o, e))]
  BY <1>1 DEF AcceptLan, EPOCH, Epochs
<1>4. PICK j : j = Call("lan", e, e, "joiner", "lan", ChannelKey(o, e))
  OBVIOUS
<1>5. e \in Epochs' /\ who'[e] = d /\ o \in Epochs' /\ who'[o] # d
  BY <1>1, <1>2, <1>3, EpochDrawn DEF PairInv
<1>6. PICK key : key = ChannelKey(o, e)
  OBVIOUS
<1>7. KeyOf(key, e)' /\ KeyOf(key, o)' /\ key.c = e /\ key.o = o
  BY <1>5, <1>6 DEF KeyOf, ChannelKey
<1>8. j = [op |-> "lan", st |-> "sent", epoch |-> e, id |-> e, role |-> "joiner",
           wire |-> "lan", key |-> key, bundle |-> Sealed(NoKey, None)]
  BY <1>4, <1>6 DEF Call, Idle
<1>9. JobOK(d, j)'
  BY <1>5, <1>7, <1>8 DEF JobOK
<1>10. j.epoch = e /\ j.key = key
  BY <1>8
<1>11. PICK z : z = [o |-> o, c |-> e, frame |-> "offer", dialer |-> Standing(d),
                     displayer |-> NoStanding, bundle |-> Sealed(NoKey, None)]
  OBVIOUS
<1>12. lan' = lan \cup {z}
  BY <1>3, <1>11
<1>13. z.o = o /\ z.c = e /\ StreamOK(z)'
  BY <1>6, <1>7, <1>11 DEF StreamOK
<1>14. LanStep /\ \A x \in lan' : StreamOK(x) \/ StreamOK(x)'
  BY <1>12, <1>13 DEF LanStep, PairInv, LanOK
<1>15. OnLan(j.key)'
  BY <1>7, <1>10, <1>12, <1>13 DEF OnLan
<1> QED BY <1>1, <1>2, <1>3, <1>4, <1>9, <1>10, <1>14, <1>15, CallStarts DEF AcceptLan

-----------------------------------------------------------------------------
(* The pairings that take their slot. *)
LEMMA NoTaskYet ==
    ASSUME PairInv, NEW d \in Device, NEW e,
           e = Len(who) + 1 \/ (job[d].op \in Start /\ job[d].epoch = e)
    PROVE  e # 0 /\ \A t \in tasks : t.epoch # e
<1>1. CASE job[d].op \in Start /\ job[d].epoch = e
  <2>1. e \in Epochs /\ 0 \notin Epochs
    BY <1>1 DEF PairInv, JobsOK, JobOK, BasicsOK, Epochs, Start
  <2> QED BY <1>1, <2>1 DEF PairInv, JobsOK, Start
<1>2. CASE e = Len(who) + 1
  <2>1. Len(who) \in Nat /\ Len(who) + 1 \notin Epochs /\ Len(who) + 1 # 0
    BY DEF PairInv, BasicsOK, Epochs
  <2> QED BY <1>2, <2>1 DEF PairInv, TasksOK, TaskOK
<1> QED BY <1>1, <1>2

LEMMA SlotTaken ==
    ASSUME PairInv, NEW d \in Device, NEW s, NEW j,
           slot' = [slot EXCEPT ![d] = s], job' = [job EXCEPT ![d] = j],
           j.op = "idle", JobOK(d, j), SlotOK(d, s)',
           who' = who \/ who' = Append(who, d),
           s.epoch = Len(who) + 1 \/ (job[d].op \in Start /\ job[d].epoch = s.epoch),
           UNCHANGED <<tasks, sess, lan, granted, root, typed>>, BoxesOK(inbox')
    PROVE  PairInv'
<1>1. \A t \in tasks : TaskGoesOn(t, t)
  BY DEF TaskGoesOn, Continues
<1>2. LanStep /\ \A x \in lan' : StreamOK(x)
  BY DEF LanStep, PairInv, LanOK
<1>3. Moves(d, s, j, {})
  BY <1>1, <1>2 DEF Moves, PairInv, BasicsOK
<1>4. slot'[d] = s /\ job'[d] = j
  BY <1>3, MovesAt
<1>5. SlotStep(d) /\ JobStep(d)
  BY <1>4 DEF SlotStep, JobStep, Starting, Start
<1>6. Stays
  BY <1>3, <1>5, MovesOrderly
<1>7. JobOK(d, j)'
  BY <1>6 DEF Stays
<1>8. \A u \in tasks' : u.epoch # s.epoch
  BY NoTaskYet
<1>9. SlotsOK' /\ JobsOK'
  BY <1>3, <1>6, <1>7, <1>8, MovesPairs DEF Start
<1>10. LanOK' /\ InboxOK' /\ SessOK' /\ BasicsOK'
  BY <1>2, <1>3, <1>6, MovesRest
<1>11. TasksOK'
  BY <1>6, TasksKept
<1> QED BY <1>9, <1>10, <1>11 DEF PairInv

LEMMA OfferLanOK ==
    ASSUME PairInv, NEW d \in Device, OfferLan(d)
    PROVE  PairInv'
<1>1. PICK e : e = Len(who) + 1
  OBVIOUS
<1>2. PICK role : role = IF HoldsKey(d) THEN "sponsor" ELSE "joiner"
  OBVIOUS
<1>3. PICK s : s = Slot(e, e, role, "lan", NoKey, FALSE)
  OBVIOUS
<1>4. Install(d, s) /\ NextEpoch(d)
  BY <1>1, <1>2, <1>3 DEF OfferLan, EPOCH
<1>5. e \in Epochs' /\ who'[e] = d /\ who' = Append(who, d)
  BY <1>1, <1>4, EpochDrawn DEF PairInv
<1>6. SlotOK(d, s)' /\ s.epoch = e
  BY <1>2, <1>3, <1>5 DEF SlotOK, Slot
<1>7. slot' = [slot EXCEPT ![d] = s] /\ BoxesOK(inbox')
  BY <1>4, CloseOK DEF Install, PairInv
<1>8. PICK j : j = job[d]
  OBVIOUS
<1>9. job' = [job EXCEPT ![d] = j] /\ j.op = "idle" /\ JobOK(d, j)
  BY <1>8 DEF OfferLan, IsIdle, PairInv, JobsOK
<1> QED BY <1>1, <1>5, <1>6, <1>7, <1>9, SlotTaken DEF OfferLan

LEMMA CreateRepliedOK ==
    ASSUME PairInv, NEW d \in Device, CreateReplied(d)
    PROVE  PairInv'
<1>1. PICK j : j = job[d]
  OBVIOUS
<1>2. j.op = "create" /\ JobOK(d, j)
  BY <1>1 DEF CreateReplied, PairInv, JobsOK
<1>3. CASE j.st = "ok"
  <2>1. PICK s : s = Slot(j.epoch, j.id, j.role, j.wire, NoKey, FALSE)
    OBVIOUS
  <2>2. Install(d, s) /\ Return(d) /\ who' = who
    BY <1>1, <1>3, <2>1 DEF CreateReplied
  <2>3. SlotOK(d, s) /\ s.epoch = j.epoch
    BY <1>2, <2>1 DEF SlotOK, Slot, JobOK
  <2>4. SlotOK(d, s)'
    BY <2>2, <2>3 DEF SlotOK, KeyOf, Epochs
  <2>5. slot' = [slot EXCEPT ![d] = s] /\ BoxesOK(inbox')
    BY <2>2, CloseOK DEF Install, PairInv
  <2>6. job' = [job EXCEPT ![d] = Idle] /\ Idle.op = "idle" /\ JobOK(d, Idle)
    BY <2>2, IdleOK DEF Return, Idle
  <2> QED BY <1>1, <1>2, <2>2, <2>3, <2>4, <2>5, <2>6, SlotTaken DEF CreateReplied, Start
<1>4. CASE j.st # "ok"
  <2>1. Close({<<d, j.epoch>>}) /\ slot' = slot /\ Return(d)
    BY <1>1, <1>4 DEF CreateReplied
  <2>2. BoxesOK(inbox') /\ JobsGoOn
    BY <2>1, CloseOK, ReturnOK DEF PairInv
  <2>3. Winding
    BY <2>1, <2>2, SlotKept, TasksShrink, LanKept, SessKept
    DEF Winding, CreateReplied, PairInv, BasicsOK
  <2> QED BY <2>3, WindingOK DEF CreateReplied
<1> QED BY <1>3, <1>4

LEMMA ClaimRepliedOK ==
    ASSUME PairInv, NEW d \in Device, ClaimReplied(d)
    PROVE  PairInv'
<1>1. PICK j : j = job[d]
  OBVIOUS
<1>2. j.op = "claim" /\ JobOK(d, j)
  BY <1>1 DEF ClaimReplied, PairInv, JobsOK
<1>3. CASE j.st = "sponsor" /\ ~HoldsKey(d)
  <2>1. PICK k : k = [job[d] EXCEPT !.op = "refuse", !.st = "sent"]
    OBVIOUS
  <2>2. job' = [job EXCEPT ![d] = k] /\ slot' = slot /\ inbox' = inbox
    BY <1>1, <1>3, <2>1 DEF ClaimReplied, Keep, PairInv, JobsOK
  <2>3. JobOK(d, k) /\ JobGoesOn(d, k)
    BY <1>1, <1>2, <2>1, JobMoves DEF PairInv
  <2>4. JobsGoOn
    BY <2>2, <2>3, JobSet DEF PairInv
  <2>5. Winding
    BY <2>2, <2>4, SlotKept, TasksShrink, LanKept, KeepOK, SessKept
    DEF Winding, ClaimReplied, PairInv, BasicsOK
  <2> QED BY <2>5, WindingOK DEF ClaimReplied
<1>4. CASE j.st \in {"sponsor", "joiner"} /\ (j.st = "joiner" \/ HoldsKey(d))
  <2>1. PICK s : s = Slot(j.epoch, j.id, j.st, j.wire, j.key, FALSE)
    OBVIOUS
  <2>2. Install(d, s) /\ Return(d) /\ who' = who
    BY <1>1, <1>4, <2>1 DEF ClaimReplied
  <2>3. SlotOK(d, s) /\ s.epoch = j.epoch
    BY <1>2, <1>4, <2>1 DEF SlotOK, Slot, JobOK
  <2>4. SlotOK(d, s)'
    BY <2>2, <2>3 DEF SlotOK, KeyOf, Epochs
  <2>5. slot' = [slot EXCEPT ![d] = s] /\ BoxesOK(inbox')
    BY <2>2, CloseOK DEF Install, PairInv
  <2>6. job' = [job EXCEPT ![d] = Idle] /\ Idle.op = "idle" /\ JobOK(d, Idle)
    BY <2>2, IdleOK DEF Return, Idle
  <2> QED BY <1>1, <1>2, <2>2, <2>3, <2>4, <2>5, <2>6, SlotTaken DEF ClaimReplied, Start
<1>5. CASE /\ ~(j.st = "sponsor" /\ ~HoldsKey(d))
           /\ ~(j.st \in {"sponsor", "joiner"} /\ (j.st = "joiner" \/ HoldsKey(d)))
  <2>1. Close({<<d, j.epoch>>}) /\ slot' = slot /\ Return(d)
    BY <1>1, <1>5 DEF ClaimReplied
  <2>2. BoxesOK(inbox') /\ JobsGoOn
    BY <2>1, CloseOK, ReturnOK DEF PairInv
  <2>3. Winding
    BY <2>1, <2>2, SlotKept, TasksShrink, LanKept, SessKept
    DEF Winding, ClaimReplied, PairInv, BasicsOK
  <2> QED BY <2>3, WindingOK DEF ClaimReplied
<1> QED BY <1>3, <1>4, <1>5

-----------------------------------------------------------------------------
(* The pairings that spawn a task. *)

\* A task of the local network for epoch e, whose slot it agrees with.
LEMMA LanTailTaken ==
    ASSUME PairInv, NEW d \in Device, NEW s, NEW j, NEW u,
           slot' = [slot EXCEPT ![d] = s], job' = [job EXCEPT ![d] = j],
           SlotOK(d, s)', JobOK(d, j), j = job[d] \/ j.op = "idle",
           tasks' = tasks \cup {u}, TaskOK(u)', u.kind # "code",
           u.epoch # 0, u.dev = d, \A t \in tasks : t.epoch # u.epoch,
           s.epoch = u.epoch, Agree(s, u),
           SlotStep(d), TaskStep(u), j.op \in Start => j.epoch # u.epoch,
           UNCHANGED <<who, sess, granted, root, typed>>, BoxesOK(inbox'), LanGoesOn
    PROVE  PairInv'
<1>1. \A t \in tasks : TaskGoesOn(t, t)
  BY DEF TaskGoesOn, Continues
<1>2. LanStep /\ \A x \in lan' : StreamOK(x)
  BY DEF LanGoesOn
<1>3. Moves(d, s, j, {u})
  BY <1>1, <1>2 DEF Moves, PairInv, BasicsOK
<1>4. slot'[d] = s /\ job'[d] = j
  BY <1>3, MovesAt
<1>5. JobStep(d)
  BY <1>4 DEF JobStep, Start
<1>6. Stays
  BY <1>3, <1>5, MovesOrderly
<1>7. JobOK(d, j)'
  BY <1>6 DEF Stays
<1>8. u.epoch \in Epochs' /\ who'[u.epoch] = d
  BY DEF TaskOK
<1>9. j.op \in Start => s.epoch # j.epoch /\ \A w \in tasks' : w.epoch # j.epoch
  BY DEF PairInv, JobsOK, Start
<1>10. \A w \in tasks' : s.epoch = w.epoch /\ w.epoch # 0 => Agree(s, w)
  OBVIOUS
<1>11. SlotsOK' /\ JobsOK'
  BY <1>3, <1>6, <1>7, <1>8, <1>9, <1>10, MovesPairs
<1>12. j.op = "lan" => OnLan(j.key)'
  <2>1. ASSUME j.op = "lan" PROVE OnLan(j.key)'
    <3>1. PICK key : key = j.key
      OBVIOUS
    <3>2. OnLan(key)
      BY <2>1, <3>1 DEF PairInv, LanOK
    <3>3. OnLan(key)'
      BY <3>2, <1>6 DEF Stays
    <3> QED BY <3>1, <3>3
  <2> QED BY <2>1
<1>13. LanOK' /\ InboxOK' /\ SessOK' /\ BasicsOK'
  BY <1>2, <1>3, <1>6, <1>12, MovesRest
<1>14. TasksOK'
  BY <1>6, TaskAdded
<1> QED BY <1>11, <1>13, <1>14 DEF PairInv

LEMMA LanAnsweredOK ==
    ASSUME PairInv, NEW d \in Device, LanAnswered(d)
    PROVE  PairInv'
<1>1. PICK j : j = job[d]
  OBVIOUS
<1>2. j.op = "lan" /\ JobOK(d, j) /\ OnLan(j.key)
  BY <1>1 DEF LanAnswered, PairInv, JobsOK, LanOK
<1>3. PICK x : x = Stream(j.key.o, j.key.c)
  OBVIOUS
<1>4. x \in lan /\ x.o = j.key.o /\ x.c = j.key.c
  BY <1>2, <1>3, StreamIn
<1>5. PICK role : role = LanRole(x.dialer, x.displayer, FALSE)
  OBVIOUS
<1>6. Return(d) /\ UNCHANGED <<who, sess, granted, root, typed>>
  BY DEF LanAnswered
<1>7. CASE x.frame = "hello" /\ role \in {"sponsor", "joiner"}
  <2>1. PICK s : s = Slot(j.epoch, j.epoch, role, "lan", j.key, role = "sponsor")
    OBVIOUS
  <2>2. PICK u : u = LanTail(d, role, j.epoch, j.key, who[j.key.o])
    OBVIOUS
  <2>3. Install(d, s) /\ tasks' = tasks \cup {u} /\ OnStream(x, "open")
    BY <1>1, <1>3, <1>5, <1>7, <2>1, <2>2 DEF LanAnswered
  <2>4. LanGoesOn
    BY <1>4, <2>3, StreamFrame DEF PairInv
  <2>5. slot' = [slot EXCEPT ![d] = s] /\ BoxesOK(inbox')
    BY <2>3, CloseOK DEF Install, PairInv
  <2>6. PICK e : e = j.epoch
    OBVIOUS
  <2>7. PICK key : key = j.key
    OBVIOUS
  <2>8. e \in Epochs /\ who[e] = d /\ KeyOf(key, e) /\ key.o \in Epochs /\ key.c = e
    BY <1>2, <2>6, <2>7 DEF JobOK, KeyOf
  <2>9. e # 0 /\ \A t \in tasks : t.epoch # e
    BY <1>1, <1>2, <2>6, NoTaskYet DEF Start
  <2>10. key # NoKey
    BY <2>8, <2>9 DEF NoKey, ChannelKey
  <2>11. s = [epoch |-> e, id |-> e, role |-> role, wire |-> "lan", key |-> key,
              secret |-> FALSE, confirm |-> (role = "sponsor")]
    BY <2>1, <2>6, <2>7, <2>10 DEF Slot
  <2>12. SlotOK(d, s)
    BY <1>7, <2>8, <2>11 DEF SlotOK
  <2>13. SlotOK(d, s)'
    BY <1>6, <2>12 DEF SlotOK, KeyOf, Epochs
  <2>14. PICK peer : peer = who[key.o]
    OBVIOUS
  <2>15. u = [dev |-> d, kind |-> role, pc |-> "wait", epoch |-> e, id |-> e,
              key |-> key, acct |-> None, peer |-> peer]
    BY <2>2, <2>6, <2>7, <2>14 DEF LanTail, Task
  <2>16. OnLan(key)'
    BY <1>2, <2>4, <2>7 DEF OnLan, LanGoesOn, LanStep
  <2>17. KeyOf(key, e)' /\ e \in Epochs' /\ who'[e] = d
    BY <1>6, <2>8 DEF KeyOf, Epochs
  <2>18. TaskOK(u)'
    BY <1>7, <2>15, <2>16, <2>17 DEF TaskOK
  <2>19. Agree(s, u) /\ s.epoch = u.epoch /\ u.epoch = e /\ u.dev = d /\ u.kind # "code"
    BY <1>7, <2>10, <2>11, <2>15 DEF Agree
  <2>20. Starting(e)
    BY <1>1, <1>2, <2>6 DEF Starting
  <2>21. slot'[d] = s
    BY <2>5 DEF PairInv, SlotsOK
  <2>22. SlotStep(d) /\ TaskStep(u)
    BY <2>19, <2>20, <2>21 DEF SlotStep, TaskStep
  <2>23. job' = [job EXCEPT ![d] = Idle] /\ Idle.op = "idle" /\ JobOK(d, Idle)
    BY <1>6, IdleOK DEF Return, Idle
  <2> QED BY <1>6, <2>3, <2>4, <2>5, <2>9, <2>13, <2>18, <2>19, <2>22, <2>23, LanTailTaken DEF Start
<1>8. CASE ~(x.frame = "hello" /\ role \in {"sponsor", "joiner"})
  <2>1. inbox' = inbox /\ slot' = slot /\ tasks' = tasks
    BY <1>1, <1>3, <1>5, <1>8 DEF LanAnswered, Keep
  <2>2. lan' = lan \/ OnStream(x, "refused")
    BY <1>1, <1>3, <1>5, <1>8 DEF LanAnswered
  <2>3. LanGoesOn
    BY <1>4, <2>2, LanKept, StreamFrame DEF PairInv
  <2>4. JobsGoOn
    BY <1>6, ReturnOK DEF PairInv
  <2>5. Winding
    BY <1>6, <2>1, <2>3, <2>4, SlotKept, TasksShrink, KeepOK, SessKept
    DEF Winding, PairInv, BasicsOK
  <2> QED BY <1>6, <2>5, WindingOK
<1> QED BY <1>7, <1>8

LEMMA RecvLanPairOK ==
    ASSUME PairInv, NEW x, RecvLanPair(x)
    PROVE  PairInv'
<1>1. PICK d : d = who[x.o]
  OBVIOUS
<1>2. x \in lan /\ StreamOK(x) /\ UNCHANGED <<who, job, sess, granted, root, typed>>
  BY DEF RecvLanPair, PairInv, LanOK
<1>3. PICK key : key = ChannelKey(x.o, x.c)
  OBVIOUS
<1>4. /\ KeyOf(key, x.o) /\ key.o = x.o /\ key.c = x.c
      /\ x.o \in Epochs /\ d \in Device /\ x.o # 0
  <2>1. KeyOf(key, x.o) /\ key.o = x.o /\ key.c = x.c
    BY <1>2, <1>3 DEF StreamOK, ChannelKey
  <2>2. x.o \in Epochs
    BY <2>1 DEF KeyOf
  <2>3. who[x.o] \in Device /\ x.o # 0
    BY <2>2 DEF Epochs, PairInv, BasicsOK
  <2> QED BY <1>1, <2>1, <2>2, <2>3
<1>5. PICK ours : ours = Standing(d)
  OBVIOUS
<1>6. PICK role : role = LanRole(ours, x.dialer, TRUE)
  OBVIOUS
<1>7. CASE ~Armable(d, x.o)
  <2>1. OnStream(x, "refused") /\ inbox' = inbox /\ slot' = slot /\ tasks' = tasks
    BY <1>1, <1>7 DEF RecvLanPair, Keep
  <2>2. LanGoesOn
    BY <1>2, <2>1, StreamFrame DEF PairInv
  <2>3. Winding
    BY <1>2, <2>1, <2>2, SlotKept, JobKept, TasksShrink, KeepOK, SessKept
    DEF Winding, PairInv, BasicsOK
  <2> QED BY <1>2, <2>3, WindingOK
<1>8. CASE Armable(d, x.o) /\ role \notin {"sponsor", "joiner"}
  <2>1. OnStream(x, "refused") /\ Settle(d, slot[d].id) /\ tasks' = tasks
    BY <1>1, <1>5, <1>6, <1>8 DEF RecvLanPair
  <2>2. LanGoesOn /\ SlotShrinks /\ BoxesOK(inbox')
    BY <1>2, <2>1, StreamFrame, SettleOK DEF PairInv
  <2>3. Winding
    BY <1>2, <2>1, <2>2, JobKept, TasksShrink, SessKept DEF Winding, PairInv, BasicsOK
  <2> QED BY <1>2, <2>3, WindingOK
<1>9. CASE Armable(d, x.o) /\ role \in {"sponsor", "joiner"}
  <2>1. PICK u : u = LanTail(d, role, x.o, key, who[x.c])
    OBVIOUS
  <2>2. PICK z : z = [x EXCEPT !.frame = "hello", !.displayer = ours]
    OBVIOUS
  <2>3. /\ slot' = [slot EXCEPT ![d].role = role, ![d].key = key, ![d].secret = FALSE,
                                ![d].confirm = role = "sponsor"]
        /\ tasks' = tasks \cup {u} /\ lan' = (lan \ {x}) \cup {z} /\ inbox' = inbox
    BY <1>1, <1>3, <1>5, <1>6, <1>9, <2>1, <2>2 DEF RecvLanPair, Keep
  <2>4. PICK p : p = slot[d]
    OBVIOUS
  <2>5. SlotOK(d, p) /\ p.wire = "lan" /\ p.key = NoKey /\ p.epoch = x.o
    BY <1>4, <1>9, <2>4 DEF Armable, PairInv, SlotsOK
  <2>6. p # NoSlot
    BY <1>4, <2>5 DEF NoSlot
  <2>7. PICK s : s = [epoch |-> p.epoch, id |-> p.id, role |-> role, wire |-> p.wire, key |-> key,
                      secret |-> FALSE, confirm |-> (role = "sponsor")]
    OBVIOUS
  <2>8. slot' = [slot EXCEPT ![d] = s]
    <3>1. slot = [e \in Device |-> slot[e]]
      BY DEF PairInv, SlotsOK
    <3>2. p = [epoch |-> p.epoch, id |-> p.id, role |-> p.role, wire |-> p.wire,
               key |-> p.key, secret |-> p.secret, confirm |-> p.confirm]
      BY <2>5, <2>6 DEF SlotOK
    <3>3. slot'[d] = s
      BY <1>4, <2>3, <2>4, <2>7, <3>1, <3>2
    <3>4. \A e \in Device : e # d => slot'[e] = slot[e]
      BY <2>3, <3>1
    <3>5. slot' = [e \in Device |-> slot'[e]]
      BY <2>3, <3>1
    <3> QED BY <1>4, <3>1, <3>3, <3>4, <3>5
  <2>9. SlotOK(d, s)
    BY <1>4, <1>9, <2>5, <2>6, <2>7 DEF SlotOK
  <2>10. SlotOK(d, s)'
    BY <1>2, <2>9 DEF SlotOK, KeyOf, Epochs
  <2>11. PICK peer : peer = who[x.c]
    OBVIOUS
  <2>12. u = [dev |-> d, kind |-> role, pc |-> "wait", epoch |-> x.o, id |-> x.o,
              key |-> key, acct |-> None, peer |-> peer]
    BY <2>1, <2>11 DEF LanTail, Task
  <2>13. z = [o |-> x.o, c |-> x.c, frame |-> "hello", dialer |-> x.dialer,
              displayer |-> ours, bundle |-> x.bundle]
    BY <1>2, <2>2 DEF StreamOK
  <2>14. StreamOK(z) /\ z.o = x.o /\ z.c = x.c
    BY <1>2, <2>13 DEF StreamOK
  <2>15. LanGoesOn
    BY <1>2, <2>3, <2>14, StreamSet DEF PairInv
  <2>16. OnLan(key)'
    BY <1>4, <2>3, <2>14 DEF OnLan
  <2>17. KeyOf(key, x.o)' /\ x.o \in Epochs' /\ who'[x.o] = d
    BY <1>1, <1>2, <1>4 DEF KeyOf, Epochs
  <2>18. TaskOK(u)'
    BY <1>4, <1>9, <2>12, <2>16, <2>17 DEF TaskOK
  <2>19. key # NoKey
    BY <1>4 DEF NoKey, ChannelKey
  <2>20. Agree(s, u) /\ s.epoch = u.epoch /\ u.epoch = x.o /\ u.dev = d /\ u.kind # "code"
    BY <1>9, <2>5, <2>7, <2>12, <2>19 DEF Agree
  <2>21. slot'[d] = s
    BY <1>4, <2>8 DEF PairInv, SlotsOK
  <2>22. SlotStep(d)
    BY <2>4, <2>5, <2>7, <2>21 DEF SlotStep
  <2>23. TaskStep(u)
    BY <1>4, <2>4, <2>5, <2>20 DEF TaskStep
  <2>24. \A t \in tasks : t.epoch # x.o
    BY <1>4, <2>4, <2>5 DEF PairInv, SlotsOK, Agree
  <2>25. PICK j : j = job[d]
    OBVIOUS
  <2>26. job' = [job EXCEPT ![d] = j] /\ JobOK(d, j)
    BY <1>2, <1>4, <2>25 DEF PairInv, JobsOK
  <2>27. j.op \in Start => j.epoch # x.o
    BY <1>4, <2>4, <2>5, <2>25 DEF PairInv, JobsOK, Start
  <2>28. BoxesOK(inbox')
    BY <2>3, KeepOK DEF PairInv
  <2>29. u.epoch # 0 /\ (\A t \in tasks : t.epoch # u.epoch) /\ (j.op \in Start => j.epoch # u.epoch)
    BY <1>4, <2>20, <2>24, <2>27
  <2> QED BY <1>2, <1>4, <2>3, <2>8, <2>10, <2>15, <2>18, <2>20, <2>22, <2>23, <2>25, <2>26, <2>28, <2>29,
             LanTailTaken
<1> QED BY <1>7, <1>8, <1>9

-----------------------------------------------------------------------------
(* What the server says. *)
LEMMA TailOK ==
    ASSUME InboxOK, NEW d \in Device, inbox[d] # <<>>, NEW conns,
           \/ inbox' = [inbox EXCEPT ![d] = Tail(@)]
           \/ inbox' = [inbox EXCEPT ![d] = Undelivered(Tail(@), conns)]
    PROVE  BoxesOK(inbox')
<1>1. PICK q : q = Tail(inbox[d])
  OBVIOUS
<1>2. BoxOK(d, q)
  BY <1>1, BoxTail DEF InboxOK
<1>3. BoxOK(d, Undelivered(q, conns))
  BY <1>2, BoxFilter
<1>4. inbox' = [inbox EXCEPT ![d] = q] \/ inbox' = [inbox EXCEPT ![d] = Undelivered(q, conns)]
  BY <1>1
<1> QED BY <1>2, <1>3, <1>4 DEF InboxOK, BoxesOK

\* The channel key of a pairing on offer is derived when it is claimed.
LEMMA ClaimedOK ==
    ASSUME PairInv, NEW d \in Device, inbox[d] # <<>>, NEW m, m = Head(inbox[d]),
           m.kind = "claimed", slot[d].wire # "lan", HasSlot(d), OnClaimed(d, m),
           UNCHANGED <<root, who, job, sess, lan, granted, typed>>
    PROVE  PairInv'
<1>1. CASE ~slot[d].secret
  <2>1. slot' = [slot EXCEPT ![d] = NoSlot] /\ DropConns(d, AbandonConns(d)) /\ tasks' = tasks
    BY <1>1 DEF OnClaimed
  <2>2. SlotShrinks /\ BoxesOK(inbox')
    BY <2>1, SlotEmptied, TailOK DEF PairInv, DropConns
  <2>3. Winding
    BY <2>1, <2>2, JobKept, TasksShrink, LanKept, SessKept DEF Winding, PairInv, BasicsOK
  <2> QED BY <2>3, WindingOK
<1>2. CASE slot[d].secret
  <2>1. PICK p : p = slot[d]
    OBVIOUS
  <2>2. /\ p = [epoch |-> p.epoch, id |-> p.id, role |-> p.role, wire |-> p.wire,
                key |-> p.key, secret |-> p.secret, confirm |-> p.confirm]
        /\ p.epoch \in Epochs /\ who[p.epoch] = d /\ p.role \in {"sponsor", "joiner"}
        /\ p.key = NoKey /\ p.wire # "lan"
    BY <1>2, <2>1 DEF HasSlot, PairInv, SlotsOK, SlotOK
  <2>3. PICK key : key = ChannelKey(p.epoch, m.arg)
    OBVIOUS
  <2>4. PICK s : s = [epoch |-> p.epoch, id |-> p.id, role |-> p.role, wire |-> p.wire, key |-> key,
                      secret |-> FALSE, confirm |-> p.confirm]
    OBVIOUS
  <2>5. /\ slot' = [slot EXCEPT ![d].secret = FALSE, ![d].key = key]
        /\ inbox' = [inbox EXCEPT ![d] = Tail(@)] /\ tasks' = tasks
    BY <1>2, <2>1, <2>3 DEF OnClaimed
  <2>6. slot' = [slot EXCEPT ![d] = s]
    <3>1. slot = [e \in Device |-> slot[e]]
      BY DEF PairInv, SlotsOK
    <3>2. slot'[d] = s
      BY <2>1, <2>2, <2>4, <2>5, <3>1
    <3>3. \A e \in Device : e # d => slot'[e] = slot[e]
      BY <2>5, <3>1
    <3>4. slot' = [e \in Device |-> slot'[e]]
      BY <2>5, <3>1
    <3> QED BY <3>1, <3>2, <3>3, <3>4
  <2>7. m.arg \in Epochs /\ who[m.arg] # d
    BY BoxTail DEF PairInv, InboxOK, MsgOK
  <2>8. KeyOf(key, p.epoch)
    BY <2>2, <2>3, <2>7 DEF KeyOf, ChannelKey
  <2>9. SlotOK(d, s)
    BY <2>2, <2>4, <2>8 DEF SlotOK
  <2>10. SlotOK(d, s)'
    BY <2>9 DEF SlotOK, KeyOf, Epochs
  <2>11. PICK j : j = job[d]
    OBVIOUS
  <2>12. job' = [job EXCEPT ![d] = j] /\ JobOK(d, j)
    BY <2>11 DEF PairInv, JobsOK
  <2>13. \A t \in tasks : TaskGoesOn(t, t)
    BY DEF TaskGoesOn, Continues
  <2>14. LanStep /\ \A x \in lan' : StreamOK(x)
    BY DEF LanStep, PairInv, LanOK
  <2>15. Moves(d, s, j, {})
    <3>1. tasks' = tasks /\ typed' \in Nat /\ typed <= typed'
      BY <2>5 DEF PairInv, BasicsOK
    <3>2. \A u \in tasks' : \E t \in tasks : TaskGoesOn(t, u)
      BY <2>13, <3>1
    <3> QED BY <2>6, <2>12, <2>14, <3>1, <3>2 DEF Moves
  <2>16. slot'[d] = s /\ job'[d] = j
    BY <2>15, MovesAt
  <2>17. SlotStep(d) /\ JobStep(d)
    BY <2>1, <2>2, <2>4, <2>11, <2>16 DEF SlotStep, JobStep
  <2>18. Stays
    BY <2>15, <2>17, MovesOrderly
  <2>19. JobOK(d, j)'
    BY <2>12, <2>18 DEF Stays
  <2>20. \A u \in tasks' : ~(s.epoch = u.epoch /\ u.epoch # 0)
    BY <2>1, <2>2, <2>4, <2>5 DEF PairInv, SlotsOK, Agree
  <2>21. j.op \in Start => s.epoch # j.epoch /\ \A u \in tasks' : u.epoch # j.epoch
    BY <2>1, <2>4, <2>5, <2>11 DEF PairInv, JobsOK, Start
  <2>22. SlotsOK' /\ JobsOK'
    BY <2>10, <2>15, <2>18, <2>19, <2>20, <2>21, MovesPairs
  <2>23. j.op = "lan" => OnLan(j.key)'
    BY <2>11 DEF PairInv, LanOK, OnLan
  <2>24. BoxesOK(inbox')
    BY <2>5, TailOK DEF PairInv
  <2>25. LanOK' /\ InboxOK' /\ SessOK' /\ BasicsOK'
    BY <2>14, <2>15, <2>18, <2>23, <2>24, MovesRest
  <2>26. TasksOK'
    BY <2>5, <2>18, TasksKept
  <2> QED BY <2>22, <2>25, <2>26 DEF PairInv
<1> QED BY <1>1, <1>2

\* The joiner's pairing leaves its slot for the task that takes the key.
LEMMA CompletedOK ==
    ASSUME PairInv, NEW d \in Device, inbox[d] # <<>>, NEW m, m = Head(inbox[d]),
           m.kind = "completed", slot[d].wire # "lan", HasSlot(d), OnCompleted(d, m),
           UNCHANGED <<root, who, job, sess, lan, granted, typed>>
    PROVE  PairInv'
<1>0. BoxesOK(inbox')
  BY TailOK DEF OnCompleted, DropConns, PairInv
<1>1. CASE ~(slot[d].role = "joiner" /\ Opens(slot[d].key, m.arg))
  <2>1. slot' = [slot EXCEPT ![d] = NoSlot] /\ tasks' = tasks
    BY <1>1 DEF OnCompleted
  <2>2. SlotShrinks
    BY <2>1, SlotEmptied DEF PairInv
  <2>3. Winding
    BY <1>0, <2>1, <2>2, JobKept, TasksShrink, LanKept, SessKept DEF Winding, PairInv, BasicsOK
  <2> QED BY <2>3, WindingOK
<1>2. CASE slot[d].role = "joiner" /\ Opens(slot[d].key, m.arg)
  <2>1. PICK p : p = slot[d]
    OBVIOUS
  <2>2. /\ p.epoch \in Epochs /\ who[p.epoch] = d /\ p.role = "joiner"
        /\ KeyOf(p.key, p.epoch) /\ p.wire # "lan" /\ p.key = m.arg.key /\ p.epoch # 0
    <3>1. SlotOK(d, p) /\ p # NoSlot
      BY <2>1 DEF HasSlot, PairInv, SlotsOK
    <3>2. 0 \notin Epochs
      BY DEF PairInv, BasicsOK, Epochs
    <3> QED BY <1>2, <2>1, <3>1, <3>2 DEF SlotOK, Opens
  <2>3. PICK acct : acct = m.arg.acct
    OBVIOUS
  <2>4. Handed(p.key) /\ acct \in Account
    BY <2>2, <2>3, BoxTail DEF PairInv, InboxOK, MsgOK, BundleOK
  <2>5. ~NeverJoins(p.epoch) /\ ~Spent(p.epoch)
    BY <2>1, <2>2 DEF NeverJoins, Spent
  <2>6. Grant(d, p.key) \in granted
    BY <2>2, <2>4, <2>5, GrantWaits
  <2>7. PICK u : u = [dev |-> d, kind |-> "complete", pc |-> "stow", epoch |-> p.epoch, id |-> p.id,
                      key |-> p.key, acct |-> acct, peer |-> None]
    OBVIOUS
  <2>8. slot' = [slot EXCEPT ![d] = NoSlot] /\ tasks' = tasks \cup {u}
    BY <1>2, <2>1, <2>3, <2>7 DEF OnCompleted, Task
  <2>9. TaskOK(u)
    BY <2>2, <2>4, <2>6, <2>7 DEF TaskOK
  <2>10. TaskOK(u)'
    BY <2>2, <2>4, <2>6, <2>7 DEF TaskOK, KeyOf, Epochs
  <2>11. \A t \in tasks : t.epoch # p.epoch
    BY <2>1, <2>2 DEF PairInv, SlotsOK, Agree
  <2>12. PICK s : s = NoSlot
    OBVIOUS
  <2>13. s.epoch = 0 /\ SlotOK(d, s)'
    BY <2>12 DEF SlotOK, NoSlot
  <2>14. PICK j : j = job[d]
    OBVIOUS
  <2>15. job' = [job EXCEPT ![d] = j] /\ JobOK(d, j)
    BY <2>14 DEF PairInv, JobsOK
  <2>16. \A t \in tasks : TaskGoesOn(t, t)
    BY DEF TaskGoesOn, Continues
  <2>17. LanStep /\ \A x \in lan' : StreamOK(x)
    BY DEF LanStep, PairInv, LanOK
  <2>18. Moves(d, s, j, {u})
    <3>1. typed' \in Nat /\ typed <= typed'
      BY DEF PairInv, BasicsOK
    <3>2. \A w \in tasks' : w \in {u} \/ \E t \in tasks : TaskGoesOn(t, w)
      BY <2>8, <2>16
    <3>3. slot' = [slot EXCEPT ![d] = s]
      BY <2>8, <2>12
    <3> QED BY <2>15, <2>17, <3>1, <3>2, <3>3 DEF Moves
  <2>19. slot'[d] = s /\ job'[d] = j
    BY <2>18, MovesAt
  <2>20. SlotStep(d) /\ JobStep(d) /\ TaskStep(u)
    BY <2>1, <2>2, <2>7, <2>12, <2>14, <2>19 DEF SlotStep, JobStep, TaskStep
  <2>21. Stays
    BY <2>18, <2>20, MovesOrderly
  <2>22. JobOK(d, j)'
    BY <2>15, <2>21 DEF Stays
  <2>23. u.epoch = p.epoch /\ u.epoch \in Epochs' /\ who'[u.epoch] = d
    BY <2>2, <2>7 DEF Epochs
  <2>24. j.op \in Start => s.epoch # j.epoch /\ \A w \in tasks' : w.epoch # j.epoch
    <3>1. ASSUME j.op \in Start PROVE s.epoch # j.epoch /\ \A w \in tasks' : w.epoch # j.epoch
      <4>1. j.epoch \in Epochs /\ j.epoch # p.epoch /\ \A t \in tasks : t.epoch # j.epoch
        BY <2>1, <2>14, <3>1 DEF PairInv, JobsOK, JobOK, Start
      <4>2. 0 \notin Epochs
        BY DEF PairInv, BasicsOK, Epochs
      <4> QED BY <2>8, <2>13, <2>23, <4>1, <4>2
    <3> QED BY <3>1
  <2>25. SlotsOK' /\ JobsOK'
    BY <2>13, <2>18, <2>21, <2>22, <2>23, <2>24, MovesPairs
  <2>26. j.op = "lan" => OnLan(j.key)'
    BY <2>14 DEF PairInv, LanOK, OnLan
  <2>27. LanOK' /\ InboxOK' /\ SessOK' /\ BasicsOK'
    BY <1>0, <2>17, <2>18, <2>21, <2>26, MovesRest
  <2>28. TasksOK'
    BY <2>2, <2>8, <2>10, <2>11, <2>21, <2>23, TaskAdded
  <2> QED BY <2>25, <2>27, <2>28 DEF PairInv
<1> QED BY <1>1, <1>2

LEMMA DeliverOK ==
    ASSUME PairInv, NEW d \in Device, Deliver(d)
    PROVE  PairInv'
<1>1. PICK m : m = Head(inbox[d])
  OBVIOUS
<1>2. inbox[d] # <<>> /\ UNCHANGED <<root, who, sess, lan, granted, typed>>
  BY DEF Deliver
<1>3. CASE m.kind = "reply"
  <2>1. PICK st : st = IF job[d].st = "served" THEN m.arg ELSE job[d].st
    OBVIOUS
  <2>2. PICK j : j = [job[d] EXCEPT !.st = st]
    OBVIOUS
  <2>3. job' = [job EXCEPT ![d].st = IF @ = "served" THEN m.arg ELSE @]
    BY <1>1, <1>3 DEF Deliver
  <2>4. job' = [job EXCEPT ![d] = j]
    BY <2>1, <2>2, <2>3 DEF PairInv, JobsOK
  <2>5. /\ inbox' = [inbox EXCEPT ![d] = Tail(@)] /\ slot' = slot /\ tasks' = tasks
    BY <1>1, <1>3 DEF Deliver
  <2>6. JobOK(d, j) /\ JobGoesOn(d, j)
    BY <2>2, JobState DEF PairInv
  <2>7. JobsGoOn /\ BoxesOK(inbox')
    BY <1>2, <2>4, <2>5, <2>6, JobSet, TailOK DEF PairInv
  <2>8. Winding
    BY <1>2, <2>5, <2>7, SlotKept, TasksShrink, LanKept, SessKept DEF Winding, PairInv, BasicsOK
  <2> QED BY <1>2, <2>8, WindingOK
<1>4. CASE m.kind # "reply" /\ (~HasSlot(d) \/ slot[d].wire = "lan")
  <2>1. /\ inbox' = [inbox EXCEPT ![d] = Tail(@)] /\ slot' = slot /\ tasks' = tasks /\ job' = job
    BY <1>1, <1>4 DEF Deliver
  <2>2. BoxesOK(inbox')
    BY <1>2, <2>1, TailOK DEF PairInv
  <2>3. Winding
    BY <1>2, <2>1, <2>2, SlotKept, JobKept, TasksShrink, LanKept, SessKept DEF Winding, PairInv, BasicsOK
  <2> QED BY <1>2, <2>3, WindingOK
<1>5. CASE m.kind # "reply" /\ HasSlot(d) /\ slot[d].wire # "lan"
  <2>1. job' = job
    BY <1>1, <1>5 DEF Deliver
  <2>2. CASE m.kind = "claimed" /\ OnClaimed(d, m)
    BY <1>1, <1>2, <1>5, <2>1, <2>2, ClaimedOK
  <2>3. CASE m.kind = "completed" /\ OnCompleted(d, m)
    BY <1>1, <1>2, <1>5, <2>1, <2>3, CompletedOK
  <2>4. CASE OnFailed(d)
    <3>1. SlotShrinks /\ BoxesOK(inbox')
      BY <1>2, <2>4, SlotEmptied, TailOK DEF OnFailed, DropConns, PairInv
    <3>2. Winding
      BY <1>2, <2>1, <2>4, <3>1, JobKept, TasksShrink, LanKept, SessKept
      DEF OnFailed, Winding, PairInv, BasicsOK
    <3> QED BY <1>2, <3>2, WindingOK
  <2> QED BY <1>1, <1>5, <2>2, <2>3, <2>4 DEF Deliver
<1> QED BY <1>3, <1>4, <1>5

-----------------------------------------------------------------------------
(* The two human decisions. *)
LEMMA HandsOver ==
    ASSUME PairInv, NEW d \in Device, NEW p, p = slot[d], HasSlot(d), p.role = "sponsor", p.key # NoKey
    PROVE  /\ KeyOf(p.key, p.epoch) /\ NeverJoins(p.epoch)
           /\ p.epoch # 0 /\ p.epoch # Len(who) + 1
           /\ Decision(d, p.key) = Grant(who[Far(p.key, p.epoch)], p.key)
           /\ Decision(d, p.key).to \in Device
<1>1. SlotOK(d, p) /\ p # NoSlot
  BY DEF HasSlot, PairInv, SlotsOK
<1>2. KeyOf(p.key, p.epoch) /\ who[p.epoch] = d /\ p.epoch \in Epochs
  BY <1>1 DEF SlotOK
<1>3. p.epoch # 0 /\ p.epoch # Len(who) + 1
  BY <1>2 DEF Epochs, PairInv, BasicsOK
<1>4. NeverJoins(p.epoch)
  <2>1. ~Starting(p.epoch)
    <3>1. ASSUME NEW e \in Device, job[e].op \in Start, job[e].epoch = p.epoch PROVE FALSE
      <4>1. who[job[e].epoch] = e
        BY <3>1 DEF PairInv, JobsOK, JobOK, Start
      <4>2. e = d
        BY <1>2, <3>1, <4>1
      <4> QED BY <3>1, <4>2 DEF PairInv, JobsOK, Start
    <3> QED BY <3>1 DEF Starting, Start
  <2>2. ASSUME NEW e \in Device, slot[e].epoch = p.epoch
        PROVE  slot[e].role = "sponsor" /\ slot[e].key # NoKey
    <3>1. who[slot[e].epoch] = e
      BY <1>3, <2>2 DEF PairInv, SlotsOK, SlotOK, NoSlot
    <3>2. e = d
      BY <1>2, <2>2, <3>1
    <3> QED BY <3>2
  <2>3. \A t \in tasks : t.epoch = p.epoch => t.kind = "sponsor"
    BY <1>3 DEF PairInv, SlotsOK, Agree
  <2> QED BY <2>1, <2>2, <2>3 DEF NeverJoins
<1>5. (IF who[p.key.o] = d THEN p.key.c ELSE p.key.o) = Far(p.key, p.epoch)
  BY <1>2 DEF KeyOf, Far
<1>6. Decision(d, p.key) = Grant(who[Far(p.key, p.epoch)], p.key)
  BY <1>5 DEF Decision, Grant
<1>7. Far(p.key, p.epoch) \in Epochs
  BY <1>2 DEF KeyOf, Far
<1>8. who[Far(p.key, p.epoch)] \in Device
  BY <1>7 DEF Epochs, PairInv, BasicsOK
<1> QED BY <1>2, <1>3, <1>4, <1>6, <1>8 DEF Grant

\* Once the decision is made, whatever is sealed for its channel is accounted for.
LEMMA DecisionHands ==
    ASSUME PairInv, NEW d \in Device, NEW p, p = slot[d], HasSlot(d), p.role = "sponsor", p.key # NoKey,
           Orderly, Stays, who' = who, granted' = granted \cup {Decision(d, p.key)}
    PROVE  Handed(p.key)'
<1>1. /\ KeyOf(p.key, p.epoch) /\ NeverJoins(p.epoch)
      /\ p.epoch # 0 /\ p.epoch # Len(who) + 1
      /\ Decision(d, p.key) = Grant(who[Far(p.key, p.epoch)], p.key)
  BY HandsOver
<1>2. PICK key : key = p.key
  OBVIOUS
<1>3. PICK x : x = p.epoch
  OBVIOUS
<1>4. KeyOf(key, x)' /\ x \in {key.o, key.c}
  BY <1>1, <1>2, <1>3 DEF Stays, KeyOf
<1>5. NeverJoins(x)'
  BY <1>1, <1>3, NeverJoinsStays
<1>6. PICK y : y = Far(key, x)
  OBVIOUS
<1>7. Grant(who'[y], key) \in granted'
  BY <1>1, <1>2, <1>3, <1>6
<1> QED BY <1>2, <1>4, <1>5, <1>6, <1>7 DEF Handed, Far

ConfirmsLan(d) ==
    /\ HasSlot(d) /\ slot[d].role = "sponsor" /\ slot[d].key # NoKey
    /\ slot' = [slot EXCEPT ![d].confirm = FALSE]
    /\ tasks' = {IF t.dev = d /\ t.kind = "sponsor" /\ t.key = slot[d].key
                 THEN [t EXCEPT !.pc = "seal"] ELSE t : t \in tasks}
    /\ granted' = granted \cup {Decision(d, slot[d].key)}
    /\ UNCHANGED <<root, who, job, inbox, sess, lan, typed>>

ConfirmsServed(d) ==
    /\ HasSlot(d) /\ slot[d].role = "sponsor" /\ slot[d].key # NoKey /\ HoldsKey(d)
    /\ \E st : job' = [job EXCEPT ![d] =
                         [Call("approve", slot[d].epoch, slot[d].id, "sponsor", slot[d].wire, slot[d].key) EXCEPT
                             !.st = st, !.bundle = Sealed(slot[d].key, AccountKey(d))]]
    /\ granted' = granted \cup {Decision(d, slot[d].key)}
    /\ UNCHANGED <<root, who, slot, tasks, inbox, sess, lan, typed>>

LEMMA ConfirmCases ==
    ASSUME NEW d, Confirm(d)
    PROVE  ConfirmsLan(d) \/ ConfirmsServed(d)
<1>1. CASE slot[d].wire = "lan"
  BY <1>1 DEF Confirm, ConfirmsLan
<1>2. CASE slot[d].wire # "lan"
  <2>1. PICK st : job' = [job EXCEPT ![d] =
                         [Call("approve", slot[d].epoch, slot[d].id, "sponsor", slot[d].wire, slot[d].key) EXCEPT
                             !.st = st, !.bundle = Sealed(slot[d].key, AccountKey(d))]]
    BY <1>2, Zenon DEF Confirm
  <2> QED BY <1>2, <2>1 DEF Confirm, ConfirmsServed
<1> QED BY <1>1, <1>2

LEMMA ConfirmsServedOK ==
    ASSUME PairInv, NEW d \in Device, ConfirmsServed(d)
    PROVE  PairInv'
<1>1. PICK p : p = slot[d]
  OBVIOUS
<1>2. /\ HasSlot(d) /\ p.role = "sponsor" /\ p.key # NoKey /\ HoldsKey(d)
      /\ granted' = granted \cup {Decision(d, p.key)}
      /\ UNCHANGED <<root, who, slot, tasks, inbox, sess, lan, typed>>
  BY <1>1 DEF ConfirmsServed
<1>3. PICK b : b = Sealed(p.key, AccountKey(d))
  OBVIOUS
<1>4. PICK st : job' = [job EXCEPT ![d] =
                          [Call("approve", p.epoch, p.id, "sponsor", p.wire, p.key) EXCEPT
                              !.st = st, !.bundle = b]]
  BY <1>1, <1>3 DEF ConfirmsServed
<1>5. PICK j : j = [op |-> "approve", st |-> st, epoch |-> p.epoch, id |-> p.id, role |-> "sponsor",
                    wire |-> p.wire, key |-> p.key, bundle |-> b]
  OBVIOUS
<1>6. [Call("approve", p.epoch, p.id, "sponsor", p.wire, p.key) EXCEPT !.st = st, !.bundle = b] = j
  <2>1. PICK k : k = Call("approve", p.epoch, p.id, "sponsor", p.wire, p.key)
    OBVIOUS
  <2>2. k = [op |-> "approve", st |-> "sent", epoch |-> p.epoch, id |-> p.id, role |-> "sponsor",
             wire |-> p.wire, key |-> p.key, bundle |-> Sealed(NoKey, None)]
    BY <2>1 DEF Call, Idle
  <2>3. PICK l : l = [k EXCEPT !.st = st, !.bundle = b]
    OBVIOUS
  <2>4. l = [op |-> "approve", st |-> st, epoch |-> p.epoch, id |-> p.id, role |-> "sponsor",
             wire |-> p.wire, key |-> p.key, bundle |-> b]
    BY <2>2, <2>3
  <2> QED BY <1>5, <2>1, <2>3, <2>4
<1>7. job' = [job EXCEPT ![d] = j]
  BY <1>4, <1>6
<1>8. \A t \in tasks : TaskGoesOn(t, t)
  BY DEF TaskGoesOn, Continues
<1>9. LanStep /\ \A x \in lan' : StreamOK(x)
  BY <1>2 DEF LanStep, PairInv, LanOK
<1>10. Moves(d, p, j, {})
  <2>1. slot' = [slot EXCEPT ![d] = p]
    BY <1>1, <1>2 DEF PairInv, SlotsOK
  <2>2. typed' \in Nat /\ typed <= typed'
    BY <1>2 DEF PairInv, BasicsOK
  <2>3. \A u \in tasks' : \E t \in tasks : TaskGoesOn(t, u)
    BY <1>2, <1>8
  <2> QED BY <1>2, <1>7, <1>9, <2>1, <2>2, <2>3 DEF Moves
<1>11. slot'[d] = p /\ job'[d] = j
  BY <1>10, MovesAt
<1>12. SlotStep(d) /\ JobStep(d)
  BY <1>1, <1>5, <1>11 DEF SlotStep, JobStep, Start
<1>13. Orderly /\ Stays
  BY <1>10, <1>12, MovesOrderly
<1>14. Handed(p.key)'
  BY <1>1, <1>2, <1>13, DecisionHands
<1>15. AccountKey(d) \in Account
  BY <1>2 DEF HoldsKey, AccountKey, PairInv, BasicsOK
<1>16. BundleOK(b)'
  BY <1>3, <1>14, <1>15 DEF BundleOK, Sealed
<1>17. p.epoch \in Epochs' /\ who'[p.epoch] = d
  BY <1>1, <1>2 DEF HasSlot, PairInv, SlotsOK, SlotOK, Epochs
<1>18. JobOK(d, j)'
  BY <1>5, <1>16, <1>17 DEF JobOK
<1>19. SlotOK(d, p)'
  BY <1>1, <1>13 DEF PairInv, SlotsOK, Stays
<1>20. \A u \in tasks' : p.epoch = u.epoch /\ u.epoch # 0 => Agree(p, u)
  BY <1>1, <1>2 DEF PairInv, SlotsOK
<1>21. j.op \notin Start /\ j.op # "lan"
  BY <1>5 DEF Start
<1>22. SlotsOK' /\ JobsOK'
  BY <1>10, <1>13, <1>18, <1>19, <1>20, <1>21, MovesPairs
<1>23. BoxesOK(inbox')
  BY <1>2, KeepOK DEF PairInv
<1>24. LanOK' /\ InboxOK' /\ SessOK' /\ BasicsOK'
  BY <1>9, <1>10, <1>13, <1>21, <1>23, MovesRest
<1>25. TasksOK'
  BY <1>2, <1>13, TasksKept
<1> QED BY <1>22, <1>24, <1>25 DEF PairInv

LEMMA ConfirmsLanOK ==
    ASSUME PairInv, NEW d \in Device, ConfirmsLan(d)
    PROVE  PairInv'
<1>1. PICK p : p = slot[d]
  OBVIOUS
<1>2. /\ HasSlot(d) /\ p.role = "sponsor" /\ p.key # NoKey
      /\ granted' = granted \cup {Decision(d, p.key)}
      /\ UNCHANGED <<root, who, job, inbox, sess, lan, typed>>
  BY <1>1 DEF ConfirmsLan
<1>3. p = [epoch |-> p.epoch, id |-> p.id, role |-> p.role, wire |-> p.wire,
           key |-> p.key, secret |-> p.secret, confirm |-> p.confirm]
      /\ SlotOK(d, p) /\ p # NoSlot
  BY <1>1, <1>2 DEF HasSlot, PairInv, SlotsOK, SlotOK
<1>4. PICK s : s = [epoch |-> p.epoch, id |-> p.id, role |-> p.role, wire |-> p.wire,
                    key |-> p.key, secret |-> p.secret, confirm |-> FALSE]
  OBVIOUS
<1>5. slot' = [slot EXCEPT ![d] = s]
  <2>1. slot = [e \in Device |-> slot[e]]
    BY DEF PairInv, SlotsOK
  <2>2. slot' = [slot EXCEPT ![d].confirm = FALSE]
    BY DEF ConfirmsLan
  <2>3. slot'[d] = s
    BY <1>1, <1>3, <1>4, <2>1, <2>2
  <2>4. \A e \in Device : e # d => slot'[e] = slot[e]
    BY <2>1, <2>2
  <2>5. slot' = [e \in Device |-> slot'[e]]
    BY <2>1, <2>2
  <2> QED BY <2>1, <2>3, <2>4, <2>5
<1>6. SlotOK(d, s)
  BY <1>3, <1>4 DEF SlotOK
<1>7. PICK j : j = job[d]
  OBVIOUS
<1>8. job' = [job EXCEPT ![d] = j] /\ JobOK(d, j)
  BY <1>2, <1>7 DEF PairInv, JobsOK
<1> DEFINE Sealing(t) == t.dev = d /\ t.kind = "sponsor" /\ t.key = p.key
           After(t) == IF Sealing(t) THEN [t EXCEPT !.pc = "seal"] ELSE t
<1>9. tasks' = {After(t) : t \in tasks}
  BY <1>1 DEF ConfirmsLan
<1>10. ASSUME NEW t \in tasks
       PROVE  /\ TaskOK(t) /\ TaskGoesOn(t, After(t))
              /\ ~Sealing(t) => After(t) = t
              /\ Sealing(t) => After(t) = [dev |-> t.dev, kind |-> t.kind, pc |-> "seal", epoch |-> t.epoch,
                                           id |-> t.id, key |-> t.key, acct |-> t.acct, peer |-> t.peer]
  <2>1. TaskOK(t)
    BY DEF PairInv, TasksOK
  <2>2. Sealing(t) => After(t) = [dev |-> t.dev, kind |-> t.kind, pc |-> "seal", epoch |-> t.epoch,
                                  id |-> t.id, key |-> t.key, acct |-> t.acct, peer |-> t.peer]
    BY <2>1 DEF TaskOK
  <2>3. ~Sealing(t) => After(t) = t
    OBVIOUS
  <2>4. TaskGoesOn(t, After(t))
    BY <2>1, <2>2, <2>3 DEF TaskGoesOn, Continues, TaskOK
  <2> QED BY <2>1, <2>2, <2>3, <2>4
<1> HIDE DEF After
<1>11. LanStep /\ \A x \in lan' : StreamOK(x)
  BY <1>2 DEF LanStep, PairInv, LanOK
<1>12. Moves(d, s, j, {})
  <2>1. typed' \in Nat /\ typed <= typed'
    BY <1>2 DEF PairInv, BasicsOK
  <2>2. \A u \in tasks' : \E t \in tasks : TaskGoesOn(t, u)
    BY <1>9, <1>10
  <2> QED BY <1>2, <1>5, <1>8, <1>11, <2>1, <2>2 DEF Moves
<1>13. slot'[d] = s /\ job'[d] = j
  BY <1>12, MovesAt
<1>14. SlotStep(d) /\ JobStep(d)
  BY <1>1, <1>4, <1>7, <1>13 DEF SlotStep, JobStep
<1>15. Orderly /\ Stays
  BY <1>12, <1>14, MovesOrderly
<1>16. Handed(p.key)'
  BY <1>1, <1>2, <1>15, DecisionHands
<1>17. SlotOK(d, s)' /\ JobOK(d, j)'
  BY <1>6, <1>8, <1>15 DEF Stays
<1>18. ASSUME NEW u \in tasks', s.epoch = u.epoch, u.epoch # 0 PROVE Agree(s, u)
  <2>1. PICK t \in tasks : u = After(t)
    BY <1>9
  <2>2. TaskGoesOn(t, u)
    BY <1>10, <2>1
  <2>3. Agree(p, t)
    BY <1>1, <1>4, <1>18, <2>2 DEF PairInv, SlotsOK, TaskGoesOn, Continues
  <2> QED BY <1>4, <2>2, <2>3 DEF Agree, TaskGoesOn, Continues
<1>19. j.op \in Start => s.epoch # j.epoch /\ \A u \in tasks' : u.epoch # j.epoch
  <2>1. ASSUME j.op \in Start PROVE p.epoch # j.epoch /\ \A t \in tasks : t.epoch # j.epoch
    BY <1>1, <1>7, <2>1 DEF PairInv, JobsOK, Start
  <2>2. \A u \in tasks' : \E t \in tasks : u.epoch = t.epoch
    BY <1>9, <1>10 DEF TaskGoesOn, Continues
  <2> QED BY <1>4, <2>1, <2>2
<1>20. SlotsOK' /\ JobsOK'
  BY <1>12, <1>15, <1>17, <1>18, <1>19, MovesPairs
<1>21. j.op = "lan" => OnLan(j.key)'
  BY <1>2, <1>7 DEF PairInv, LanOK, OnLan
<1>22. BoxesOK(inbox')
  BY <1>2, KeepOK DEF PairInv
<1>23. LanOK' /\ InboxOK' /\ SessOK' /\ BasicsOK'
  BY <1>11, <1>12, <1>15, <1>21, <1>22, MovesRest
<1>24. (\A u \in tasks : TaskOK(u))'
  <2>1. ASSUME NEW t \in tasks PROVE TaskOK(t)'
    BY <1>2, <1>10, <1>15 DEF Stays, TaskOK
  <2>2. ASSUME NEW t \in tasks, NEW u, u = After(t) PROVE TaskOK(u)'
    <3>1. CASE ~Sealing(t)
      BY <1>10, <2>1, <2>2, <3>1
    <3>2. CASE Sealing(t)
      <4>1. u = [dev |-> t.dev, kind |-> t.kind, pc |-> "seal", epoch |-> t.epoch,
                 id |-> t.id, key |-> t.key, acct |-> t.acct, peer |-> t.peer]
        BY <1>10, <2>2, <3>2
      <4>2. TaskOK(t)' /\ Handed(t.key)'
        BY <1>16, <2>1, <3>2
      <4> QED BY <3>2, <4>1, <4>2 DEF TaskOK
    <3> QED BY <3>1, <3>2
  <2> QED BY <1>9, <2>2
<1>25. Distinct(tasks')
  <2>1. ASSUME NEW u \in tasks', NEW w \in tasks',
               (u.epoch = w.epoch /\ u.epoch # 0) \/ (u.key = w.key /\ u.epoch = 0)
        PROVE  u = w
    <3>1. PICK t \in tasks : u = After(t)
      BY <1>9
    <3>2. PICK v \in tasks : w = After(v)
      BY <1>9
    <3>3. u.epoch = t.epoch /\ u.key = t.key /\ w.epoch = v.epoch /\ w.key = v.key
      BY <1>10, <3>1, <3>2 DEF TaskGoesOn, Continues
    <3>4. t = v
      BY <2>1, <3>3 DEF PairInv, TasksOK
    <3> QED BY <3>1, <3>2, <3>4
  <2> QED BY <2>1 DEF Distinct
<1>26. TasksOK'
  BY <1>24, <1>25 DEF TasksOK, Distinct
<1> QED BY <1>20, <1>23, <1>26 DEF PairInv

LEMMA TypeCodeOK ==
    ASSUME PairInv, NEW d \in Device, NEW a \in Account, TypeCode(d, a)
    PROVE  PairInv'
<1>1. PICK n : n = typed + 1
  OBVIOUS
<1>2. typed \in Nat /\ n \in Nat /\ n > typed /\ typed' = n
  BY <1>1 DEF TypeCode, PairInv, BasicsOK
<1>3. PICK key : key = ChannelKey(0, n)
  OBVIOUS
<1>4. PICK u : u = [dev |-> d, kind |-> "code", pc |-> "stow", epoch |-> 0, id |-> 0,
                    key |-> key, acct |-> a, peer |-> None]
  OBVIOUS
<1>5. /\ tasks' = tasks \cup {u} /\ granted' = granted \cup {Grant(d, key)}
      /\ UNCHANGED <<root, who, slot, job, inbox, sess, lan>>
  BY <1>1, <1>3, <1>4 DEF TypeCode, Task, Grant
<1>6. PICK p : p = slot[d]
  OBVIOUS
<1>7. PICK j : j = job[d]
  OBVIOUS
<1>8. LanStep /\ \A x \in lan' : StreamOK(x)
  BY <1>5 DEF LanStep, PairInv, LanOK
<1>9. Moves(d, p, j, {u})
  <2>1. slot' = [slot EXCEPT ![d] = p] /\ job' = [job EXCEPT ![d] = j]
    BY <1>5, <1>6, <1>7 DEF PairInv, SlotsOK, JobsOK
  <2>2. typed' \in Nat /\ typed <= typed'
    BY <1>2
  <2>3. \A w \in tasks' : w \in {u} \/ \E t \in tasks : TaskGoesOn(t, w)
    BY <1>5 DEF TaskGoesOn, Continues
  <2> QED BY <1>5, <1>8, <2>1, <2>2, <2>3 DEF Moves
<1>10. slot'[d] = p /\ job'[d] = j
  BY <1>9, MovesAt
<1>11. SlotStep(d) /\ JobStep(d) /\ TaskStep(u)
  BY <1>4, <1>6, <1>7, <1>10 DEF SlotStep, JobStep, TaskStep
<1>12. Stays
  BY <1>9, <1>11, MovesOrderly
<1>13. SlotOK(d, p)' /\ JobOK(d, j)'
  BY <1>6, <1>7, <1>12 DEF PairInv, SlotsOK, JobsOK, Stays
<1>14. u.epoch = 0 /\ u.key = key /\ u.kind = "code"
  BY <1>4
<1>15. \A w \in tasks' : p.epoch = w.epoch /\ w.epoch # 0 => Agree(p, w)
  BY <1>5, <1>6, <1>14 DEF PairInv, SlotsOK
<1>16. j.op \in Start => p.epoch # j.epoch /\ \A w \in tasks' : w.epoch # j.epoch
  <2>1. ASSUME j.op \in Start
        PROVE  p.epoch # j.epoch /\ (\A t \in tasks : t.epoch # j.epoch) /\ j.epoch # 0
    BY <1>6, <1>7, <2>1 DEF PairInv, JobsOK, JobOK, Start, Epochs, BasicsOK
  <2> QED BY <1>5, <1>14, <2>1
<1>17. SlotsOK' /\ JobsOK'
  BY <1>9, <1>12, <1>13, <1>14, <1>15, <1>16, MovesPairs
<1>18. j.op = "lan" => OnLan(j.key)'
  BY <1>5, <1>7 DEF PairInv, LanOK, OnLan
<1>19. BoxesOK(inbox')
  BY <1>5, KeepOK DEF PairInv
<1>20. LanOK' /\ InboxOK' /\ SessOK' /\ BasicsOK'
  BY <1>8, <1>9, <1>12, <1>18, <1>19, MovesRest
<1>21. TaskOK(u)'
  <2>1. key = ChannelKey(0, key.c) /\ key.c = n /\ n \in 1..typed'
    BY <1>2, <1>3 DEF ChannelKey
  <2>2. Grant(u.dev, u.key) \in granted'
    BY <1>4, <1>5
  <2> QED BY <1>4, <2>1, <2>2 DEF TaskOK
<1>22. (\A t \in tasks : TaskOK(t))'
  <2>1. ASSUME NEW t \in tasks PROVE TaskOK(t)'
    BY <1>5, <1>12 DEF PairInv, TasksOK, Stays, TaskOK
  <2> QED BY <1>5, <1>21, <2>1
<1>23. \A t \in tasks : t.key # key
  <2>1. ASSUME NEW t \in tasks, t.key = key PROVE FALSE
    <3>1. TaskOK(t) /\ key.o = 0 /\ key.c = n
      BY <1>3 DEF PairInv, TasksOK, ChannelKey
    <3>2. CASE t.kind = "code"
      BY <1>2, <2>1, <3>1, <3>2 DEF TaskOK
    <3>3. CASE t.kind # "code"
      <4>1. key.o \in Epochs
        BY <2>1, <3>1, <3>3 DEF TaskOK, KeyOf
      <4>2. 0 \notin Epochs
        BY DEF PairInv, BasicsOK, Epochs
      <4> QED BY <3>1, <4>1, <4>2
    <3> QED BY <3>2, <3>3
  <2> QED BY <2>1
<1>24. Distinct(tasks')
  <2>1. \A w, z \in tasks : /\ w.epoch = z.epoch /\ w.epoch # 0 => w = z
                            /\ w.key = z.key /\ w.epoch = 0 => w = z
    BY DEF PairInv, TasksOK
  <2> QED BY <1>5, <1>14, <1>23, <2>1 DEF Distinct
<1>25. TasksOK'
  BY <1>22, <1>24 DEF TasksOK, Distinct
<1> QED BY <1>17, <1>20, <1>25 DEF PairInv

-----------------------------------------------------------------------------
(* The steps together: the invariant is kept, and each step is one of the  *)
(* abstract specification's, or leaves the keys and the decisions alone.   *)
Abstractly == H!HNext \/ UNCHANGED <<root, granted>>

LEMMA DeviceStep ==
    ASSUME PairInv, NEW d \in Device,
           \/ Offer(d) \/ OfferLan(d) \/ Accept(d) \/ AcceptLan(d)
           \/ Reauthenticated(d) \/ Cancel(d) \/ CreateReplied(d) \/ ClaimReplied(d)
           \/ CancelReplied(d) \/ ApproveReplied(d) \/ Deliver(d) \/ Expire(d)
    PROVE  PairInv' /\ Abstractly
<1>1. ASSUME Winding, UNCHANGED <<root, granted>> PROVE PairInv' /\ Abstractly
  BY <1>1, WindingOK DEF Abstractly
<1>2. CASE Offer(d)
  BY <1>2, OfferOK DEF Abstractly, Offer
<1>3. CASE OfferLan(d)
  BY <1>3, OfferLanOK DEF Abstractly, OfferLan
<1>4. CASE Accept(d)
  BY <1>4, AcceptOK DEF Abstractly, Accept
<1>5. CASE AcceptLan(d)
  BY <1>5, AcceptLanOK DEF Abstractly, AcceptLan
<1>6. CASE Reauthenticated(d)
  BY <1>1, <1>6, ReauthenticatedWinds DEF Reauthenticated
<1>7. CASE Cancel(d)
  BY <1>1, <1>7, CancelWinds DEF Cancel
<1>8. CASE CreateReplied(d)
  BY <1>8, CreateRepliedOK DEF Abstractly, CreateReplied
<1>9. CASE ClaimReplied(d)
  BY <1>9, ClaimRepliedOK DEF Abstractly, ClaimReplied
<1>10. CASE CancelReplied(d)
  BY <1>1, <1>10, CancelRepliedWinds DEF CancelReplied
<1>11. CASE ApproveReplied(d)
  BY <1>1, <1>11, ApproveRepliedWinds DEF ApproveReplied
<1>12. CASE Deliver(d)
  BY <1>12, DeliverOK DEF Abstractly, Deliver
<1>13. CASE Expire(d)
  BY <1>1, <1>13, ExpireWinds DEF Expire
<1> QED BY <1>2, <1>3, <1>4, <1>5, <1>6, <1>7, <1>8, <1>9, <1>10, <1>11, <1>12, <1>13

LEMMA ServerStep ==
    ASSUME PairInv,
           \/ \E d \in Device : \/ PairingCreate(d) \/ PairingClaim(d) \/ PairingApprove(d)
                                \/ PairingCancel(d) \/ LanAnswered(d) \/ DirectLost(d)
                                \/ SessionLost(d) \/ SessionBack(d) \/ Unreachable(d)
           \/ \E c \in closing : ConnEnds(c)
           \/ \E id \in DOMAIN sess : Sweep(id)
           \/ \E x \in lan : RecvLanPair(x) \/ StreamLost(x)
    PROVE  PairInv' /\ Abstractly
<1>1. ASSUME Winding, UNCHANGED <<root, granted>> PROVE PairInv' /\ Abstractly
  BY <1>1, WindingOK DEF Abstractly
<1>2. ASSUME NEW d \in Device, PairingCreate(d) PROVE PairInv' /\ Abstractly
  BY <1>1, <1>2, PairingCreateWinds DEF PairingCreate, ServerOnly
<1>3. ASSUME NEW d \in Device, PairingClaim(d) PROVE PairInv' /\ Abstractly
  BY <1>1, <1>3, PairingClaimWinds DEF PairingClaim, ServerOnly
<1>4. ASSUME NEW d \in Device, PairingApprove(d) PROVE PairInv' /\ Abstractly
  BY <1>1, <1>4, PairingApproveWinds DEF PairingApprove, ServerOnly
<1>5. ASSUME NEW d \in Device, PairingCancel(d) PROVE PairInv' /\ Abstractly
  BY <1>1, <1>5, PairingCancelWinds DEF PairingCancel, ServerOnly
<1>6. ASSUME NEW d \in Device, LanAnswered(d) PROVE PairInv' /\ Abstractly
  BY <1>6, LanAnsweredOK DEF Abstractly, LanAnswered
<1>7. ASSUME NEW d \in Device, DirectLost(d) PROVE PairInv' /\ Abstractly
  BY <1>1, <1>7, DirectLostWinds DEF DirectLost
<1>8. ASSUME NEW d \in Device, SessionLost(d) PROVE PairInv' /\ Abstractly
  BY <1>1, <1>8, SessionLostWinds DEF SessionLost
<1>9. ASSUME NEW d \in Device, SessionBack(d) PROVE PairInv' /\ Abstractly
  BY <1>1, <1>9, SessionBackWinds DEF SessionBack
<1>10. ASSUME NEW d \in Device, Unreachable(d) PROVE PairInv' /\ Abstractly
  BY <1>1, <1>10, UnreachableWinds DEF Unreachable
<1>11. ASSUME NEW c \in closing, ConnEnds(c) PROVE PairInv' /\ Abstractly
  BY <1>1, <1>11, ConnEndsWinds DEF ConnEnds
<1>12. ASSUME NEW id \in DOMAIN sess, Sweep(id) PROVE PairInv' /\ Abstractly
  BY <1>1, <1>12, SweepWinds DEF Sweep, ServerOnly
<1>13. ASSUME NEW x \in lan, RecvLanPair(x) PROVE PairInv' /\ Abstractly
  BY <1>13, RecvLanPairOK DEF Abstractly, RecvLanPair
<1>14. ASSUME NEW x \in lan, StreamLost(x) PROVE PairInv' /\ Abstractly
  BY <1>1, <1>14, StreamLostWinds DEF StreamLost
<1> QED BY <1>2, <1>3, <1>4, <1>5, <1>6, <1>7, <1>8, <1>9, <1>10, <1>11, <1>12, <1>13, <1>14

LEMMA TaskSteps ==
    ASSUME PairInv, NEW t \in tasks,
           \/ LanSponsor(t) \/ LanJoiner(t) \/ StowKey(t) \/ CommitRoot(t)
           \/ EnterAccount(t) \/ EnrollOnGrant(t)
    PROVE  PairInv' /\ Abstractly
<1>1. ASSUME Winding, UNCHANGED <<root, granted>> PROVE PairInv' /\ Abstractly
  BY <1>1, WindingOK DEF Abstractly
<1>2. CASE LanSponsor(t)
  BY <1>1, <1>2, LanSponsorWinds DEF LanSponsor
<1>3. CASE LanJoiner(t)
  BY <1>1, <1>3, LanJoinerWinds DEF LanJoiner
<1>4. CASE StowKey(t)
  BY <1>1, <1>4, StowKeyWinds DEF StowKey
<1>5. CASE CommitRoot(t)
  <2>1. CASE Takes(t)
    <3>1. PairInv'
      BY <2>1, TakesOK
    <3>2. TaskOK(t) /\ t.pc = "commit"
      BY <2>1 DEF Takes, PairInv, TasksOK
    <3>3. PICK g : g = Grant(t.dev, t.key)
      OBVIOUS
    <3>4. g \in granted /\ g.to = t.dev /\ t.acct \in Account
      BY <3>2, <3>3 DEF TaskOK, Grant
    <3>5. H!Take(g)
      BY <2>1, <3>3, <3>4 DEF H!Take, Takes
    <3>6. H!HNext
      BY <3>4, <3>5 DEF H!HNext
    <3> QED BY <3>1, <3>6 DEF Abstractly
  <2>2. CASE Winding /\ UNCHANGED <<root, granted>>
    BY <1>1, <2>2
  <2> QED BY <1>5, <2>1, <2>2, CommitRootCases
<1>6. CASE EnterAccount(t)
  BY <1>1, <1>6, EnterAccountWinds DEF EnterAccount
<1>7. CASE EnrollOnGrant(t)
  BY <1>1, <1>7, EnrollOnGrantWinds DEF EnrollOnGrant
<1> QED BY <1>2, <1>3, <1>4, <1>5, <1>6, <1>7

LEMMA HumanStep ==
    ASSUME PairInv, NEW d \in Device, Confirm(d) \/ Leave(d) \/ \E a \in Account : TypeCode(d, a)
    PROVE  PairInv' /\ Abstractly
<1>1. CASE Confirm(d)
  <2>1. PICK g : g = Decision(d, slot[d].key)
    OBVIOUS
  <2>2. ConfirmsLan(d) \/ ConfirmsServed(d)
    BY <1>1, ConfirmCases
  <2>3. PairInv'
    BY <2>2, ConfirmsLanOK, ConfirmsServedOK
  <2>4. g.to \in Device
    BY <2>1, <2>2, HandsOver DEF ConfirmsLan, ConfirmsServed
  <2>5. granted' = granted \cup {g} /\ root' = root
    BY <2>1, <2>2 DEF ConfirmsLan, ConfirmsServed
  <2>6. H!Decide
    BY <2>4, <2>5 DEF H!Decide
  <2> QED BY <2>3, <2>6 DEF Abstractly, H!HNext
<1>2. CASE Leave(d)
  <2>1. PairInv'
    BY <1>2, LeaveWinds, WindingOK DEF Leave
  <2>2. H!Forget(d)
    BY <1>2 DEF Leave, H!Forget
  <2> QED BY <2>1, <2>2 DEF Abstractly, H!HNext
<1>3. ASSUME NEW a \in Account, TypeCode(d, a) PROVE PairInv' /\ Abstractly
  <2>1. PICK g : g = [to |-> d, by |-> ChannelKey(0, typed + 1)]
    OBVIOUS
  <2>2. granted' = granted \cup {g} /\ root' = root /\ g.to \in Device
    BY <1>3, <2>1 DEF TypeCode
  <2>3. H!Decide
    BY <2>2 DEF H!Decide
  <2> QED BY <1>3, <2>3, TypeCodeOK DEF Abstractly, H!HNext
<1> QED BY <1>1, <1>2, <1>3

LEMMA PairInitOK ==
    ASSUME PairInit
    PROVE  PairInv /\ H!HInit
<1>1. root \in [Device -> Account \cup {None}] /\ granted = {}
  BY WorldsAssumption DEF PairInit
<1>2. BasicsOK
  BY <1>1 DEF BasicsOK, PairInit
<1>3. SlotsOK
  BY DEF SlotsOK, SlotOK, PairInit
<1>4. JobsOK
  <2>1. \A d \in Device : JobOK(d, Idle)
    BY IdleOK
  <2> QED BY <2>1 DEF JobsOK, PairInit, Idle
<1>5. TasksOK /\ LanOK /\ SessOK
  BY DEF TasksOK, LanOK, SessOK, PairInit, Idle
<1>6. InboxOK
  <2>1. \A d \in Device : BoxOK(d, <<>>)
    <3>1. PICK S : S = {}
      OBVIOUS
    <3>2. PICK q : q = <<>>
      OBVIOUS
    <3>3. q \in Seq(S)
      BY <3>2
    <3>4. \A d : \A m \in S : MsgOK(d, m)
      BY <3>1
    <3>5. \A d : BoxOK(d, q)
      BY <3>3, <3>4 DEF BoxOK
    <3> QED BY <3>2, <3>5
  <2> QED BY <2>1 DEF InboxOK, PairInit
<1> QED BY <1>1, <1>2, <1>3, <1>4, <1>5, <1>6 DEF PairInv, H!HInit

LEMMA PairStep ==
    ASSUME PairInv, [PairNext]_pvars
    PROVE  PairInv' /\ [H!HNext]_<<root, granted>>
<1>1. CASE PairNext
  <2>1. PairInv' /\ Abstractly
    BY <1>1, DeviceStep, ServerStep, TaskSteps, HumanStep DEF PairNext
  <2> QED BY <2>1 DEF Abstractly
<1>2. CASE UNCHANGED pvars
  <2>1. Winding
    BY <1>2, SlotKept, JobKept, TasksShrink, LanKept, KeepOK, SessKept
    DEF pvars, Winding, PairInv, BasicsOK
  <2>2. PairInv'
    BY <1>2, <2>1, WindingOK DEF pvars
  <2> QED BY <1>2, <2>2 DEF pvars
<1> QED BY <1>1, <1>2

(* The pairing implements the handover: a key reaches a device only through *)
(* a decision that named the device, once, and never over another key.      *)
THEOREM KeysFollowDecisions == PairSpec => KeysByDecision
<1>1. PairInit => PairInv /\ H!HInit
  BY PairInitOK
<1>2. PairInv /\ [PairNext]_pvars => PairInv' /\ [H!HNext]_<<root, granted>>
  BY PairStep
<1> QED BY <1>1, <1>2, PTL DEF PairSpec, KeysByDecision, H!HSpec
=============================================================================
