-------------------------- MODULE InputKeys_proofs ---------------------------
(***************************************************************************)
(* Proofs about InputKeys: the crash guard and the stroke of a symbol, for   *)
(* any keyboard, any layout, any symbols and any number of crashes, failed   *)
(* writes, withdrawn grants and silences.                                  *)
(***************************************************************************)
EXTENDS InputKeys, WellFoundedInduction, TLAPS

-----------------------------------------------------------------------------
(* Sequences of keys: which keys they hold, and that they hold none twice. *)

(* Induction over a set of naturals. *)
LEMMA SetInduction ==
    ASSUME NEW T, T \subseteq Nat, 0 \in T, \A n \in T : n + 1 \in T
    PROVE  T = Nat
<1> DEFINE S == Nat \ T
           R == {ss \in Nat \X Nat : ss[1] < ss[2]}
<1>1. SUFFICES ASSUME S # {} PROVE FALSE
  OBVIOUS
<1>2. IsWellFoundedOn(R, Nat)
  BY NatLessThanWellFounded DEF OpToRel
<1>3. \E m \in S : \A y \in S : ~ (<<y, m>> \in R)
  BY <1>1, <1>2, WFMin
<1>4. PICK m \in S : \A y \in S : ~ (y < m)
  BY <1>3
<1>5. m \in Nat /\ m # 0 /\ m - 1 \in Nat /\ m - 1 < m
  OBVIOUS
<1>6. m - 1 \in T
  BY <1>4, <1>5
<1>7. (m - 1) + 1 = m
  BY <1>5
<1> QED BY <1>6, <1>7

LEMMA AppendFacts ==
    ASSUME NEW X, NEW q \in Seq(X), NEW x \in X
    PROVE  /\ Append(q, x) \in Seq(X)
           /\ ToSet(Append(q, x)) = ToSet(q) \union {x}
           /\ IsInjective(q) /\ x \notin ToSet(q) => IsInjective(Append(q, x))
<1>1. /\ Append(q, x) \in Seq(X) /\ Len(q) \in Nat /\ DOMAIN q = 1 .. Len(q)
      /\ DOMAIN Append(q, x) = 1 .. (Len(q) + 1)
      /\ \A i \in 1 .. Len(q) : Append(q, x)[i] = q[i]
      /\ Append(q, x)[Len(q) + 1] = x
  OBVIOUS
<1>2. \A i \in 1 .. (Len(q) + 1) : i \in 1 .. Len(q) \/ i = Len(q) + 1
  BY <1>1
<1>3. ToSet(Append(q, x)) = ToSet(q) \union {x}
  BY <1>1, <1>2 DEF ToSet
<1>4. ASSUME IsInjective(q), x \notin ToSet(q) PROVE IsInjective(Append(q, x))
  BY <1>1, <1>2, <1>4 DEF IsInjective, ToSet
<1> QED BY <1>1, <1>3, <1>4

LEMMA EmptyFacts ==
    ASSUME NEW X
    PROVE  <<>> \in Seq(X) /\ ToSet(<<>>) = {} /\ IsInjective(<<>>)
BY DEF ToSet, IsInjective

LEMMA PressFacts ==
    ASSUME NEW X, NEW h \in Seq(X), NEW k \in X
    PROVE  /\ Press(h, k) \in Seq(X)
           /\ ToSet(Press(h, k)) = ToSet(h) \union {k}
           /\ IsInjective(h) => IsInjective(Press(h, k))
BY AppendFacts DEF Press

LEMMA ReverseFacts ==
    ASSUME NEW X, NEW q \in Seq(X)
    PROVE  /\ Reverse(q) \in Seq(X) /\ Len(Reverse(q)) = Len(q)
           /\ ToSet(Reverse(q)) = ToSet(q)
           /\ IsInjective(q) => IsInjective(Reverse(q))
<1>1. Len(q) \in Nat /\ DOMAIN q = 1 .. Len(q)
  OBVIOUS
<1>2. \A i \in 1 .. Len(q) : (Len(q) - i) + 1 \in 1 .. Len(q)
                             /\ (Len(q) - ((Len(q) - i) + 1)) + 1 = i
  BY <1>1
<1>3. PICK r : r = Reverse(q)
  OBVIOUS
<1>4. /\ r \in [1 .. Len(q) -> X] /\ \A i \in 1 .. Len(q) : r[i] = q[(Len(q) - i) + 1]
  BY <1>1, <1>2, <1>3 DEF Reverse
<1>5. r \in Seq(X) /\ Len(r) = Len(q) /\ DOMAIN r = 1 .. Len(q)
  BY <1>1, <1>4
<1>6. ToSet(r) \subseteq ToSet(q)
  BY <1>1, <1>2, <1>4, <1>5 DEF ToSet
<1>7. ToSet(q) \subseteq ToSet(r)
  <2>1. SUFFICES ASSUME NEW i \in 1 .. Len(q) PROVE q[i] \in ToSet(r)
    BY <1>1 DEF ToSet
  <2>2. PICK j \in 1 .. Len(q) : (Len(q) - j) + 1 = i
    BY <1>2
  <2>3. r[j] = q[i]
    BY <1>4, <2>2
  <2> QED BY <1>5, <2>3 DEF ToSet
<1>8. ASSUME IsInjective(q) PROVE IsInjective(r)
  <2>1. SUFFICES ASSUME NEW a \in 1 .. Len(q), NEW b \in 1 .. Len(q), r[a] = r[b] PROVE a = b
    BY <1>5 DEF IsInjective
  <2>2. (Len(q) - a) + 1 = (Len(q) - b) + 1
    BY <1>1, <1>2, <1>4, <1>8, <2>1 DEF IsInjective
  <2> QED BY <1>1, <2>2
<1> QED BY <1>3, <1>5, <1>6, <1>7, <1>8

(* Among. *)
Sifting(q, S, g, n) ==
    g = [i \in 0 .. n |-> IF i = 0 THEN <<>> ELSE IF q[i] \in S THEN Append(g[i - 1], q[i]) ELSE g[i - 1]]

LEMMA SiftingExists ==
    ASSUME NEW q, NEW S, NEW n \in Nat
    PROVE  \E g : Sifting(q, S, g, n)
<1> DEFINE T == {k \in Nat : \E g : Sifting(q, S, g, k)}
<1>1. 0 \in T
  <2> DEFINE g == [i \in 0 .. 0 |-> <<>>]
  <2>1. Sifting(q, S, g, 0)
    BY DEF Sifting
  <2> QED BY <2>1
<1>2. ASSUME NEW k \in T PROVE k + 1 \in T
  <2>1. PICK g : Sifting(q, S, g, k)
    OBVIOUS
  <2>2. PICK last : last = IF q[k + 1] \in S THEN Append(g[k], q[k + 1]) ELSE g[k]
    OBVIOUS
  <2>3. PICK h0 : h0 = [i \in 0 .. (k + 1) |-> IF i = k + 1 THEN last ELSE g[i]]
    OBVIOUS
  <2>4. k \in Nat /\ k + 1 \in Nat
    OBVIOUS
  <2>5. h0[k + 1] = last /\ \A i \in 0 .. k : h0[i] = g[i]
    BY <2>3, <2>4
  <2>6. h0[0] = <<>>
    BY <2>1, <2>4, <2>5 DEF Sifting
  <2>7. ASSUME NEW i \in 1 .. k
        PROVE  h0[i] = IF q[i] \in S THEN Append(h0[i - 1], q[i]) ELSE h0[i - 1]
    <3>1. i \in 0 .. k /\ i - 1 \in 0 .. k /\ i # 0
      BY <2>4
    <3>2. g[i] = IF q[i] \in S THEN Append(g[i - 1], q[i]) ELSE g[i - 1]
      BY <2>1, <3>1 DEF Sifting
    <3> QED BY <2>5, <3>1, <3>2
  <2>8. h0[k + 1] = IF q[k + 1] \in S THEN Append(h0[(k + 1) - 1], q[k + 1]) ELSE h0[(k + 1) - 1]
    <3>1. (k + 1) - 1 = k /\ k \in 0 .. k
      BY <2>4
    <3> QED BY <2>2, <2>5, <3>1
  <2>9. Sifting(q, S, h0, k + 1)
    <3>1. \A i \in 0 .. (k + 1) : i = 0 \/ i \in 1 .. k \/ i = k + 1
      BY <2>4
    <3>2. \A i \in 0 .. (k + 1) : h0[i] =
             IF i = 0 THEN <<>> ELSE IF q[i] \in S THEN Append(h0[i - 1], q[i]) ELSE h0[i - 1]
      BY <2>4, <2>6, <2>7, <2>8, <3>1
    <3>3. h0 = [i \in 0 .. (k + 1) |-> h0[i]]
      BY <2>3
    <3> QED BY <3>2, <3>3 DEF Sifting
  <2> QED BY <2>4, <2>9
<1>3. T = Nat
  BY <1>1, <1>2, SetInduction
<1> QED BY <1>3

LEMMA AmongFacts ==
    ASSUME NEW X, NEW q \in Seq(X), NEW S
    PROVE  /\ Among(q, S) \in Seq(X)
           /\ ToSet(Among(q, S)) = ToSet(q) \intersect S
           /\ IsInjective(q) => IsInjective(Among(q, S))
<1>1. Len(q) \in Nat /\ DOMAIN q = 1 .. Len(q)
  OBVIOUS
<1>2. PICK g : g = CHOOSE f : Sifting(q, S, f, Len(q))
  OBVIOUS
<1>3. Sifting(q, S, g, Len(q))
  BY <1>1, <1>2, SiftingExists
<1>4. Among(q, S) = g[Len(q)]
  BY <1>2 DEF Among, Sifting
<1> DEFINE Part(k) == {q[i] : i \in 1 .. k}
           Good(k) == /\ g[k] \in Seq(X) /\ ToSet(g[k]) = Part(k) \intersect S
                      /\ IsInjective(q) => IsInjective(g[k])
           T == {k \in Nat : k <= Len(q) => Good(k)}
<1>5. 0 \in T
  <2>1. g[0] = <<>>
    BY <1>1, <1>3 DEF Sifting
  <2>2. Part(0) = {}
    OBVIOUS
  <2> QED BY <2>1, <2>2, EmptyFacts
<1>6. ASSUME NEW k \in T PROVE k + 1 \in T
  <2>1. SUFFICES ASSUME k + 1 <= Len(q) PROVE Good(k + 1)
    OBVIOUS
  <2>2. PICK i : i = k + 1
    OBVIOUS
  <2>3. i \in 0 .. Len(q) /\ i # 0 /\ i - 1 = k /\ k <= Len(q) /\ i \in 1 .. Len(q)
    BY <1>1, <2>1, <2>2
  <2>4. g[i] = IF q[i] \in S THEN Append(g[k], q[i]) ELSE g[k]
    BY <1>3, <2>3 DEF Sifting
  <2>5. Good(k) /\ q[i] \in X
    BY <2>3
  <2>6. Part(i) = Part(k) \union {q[i]}
    <3>1. \A j : j \in 1 .. i <=> j \in 1 .. k \/ j = i
      BY <2>2
    <3> QED BY <3>1
  <2>7. IsInjective(q) => q[i] \notin Part(k)
    <3>1. SUFFICES ASSUME IsInjective(q), NEW j \in 1 .. k, q[j] = q[i] PROVE FALSE
      OBVIOUS
    <3>2. j \in 1 .. Len(q) /\ j # i
      BY <1>1, <2>2, <2>3
    <3> QED BY <1>1, <2>3, <3>1, <3>2 DEF IsInjective
  <2> HIDE DEF Part
  <2>8. CASE q[i] \in S
    <3>1. g[i] = Append(g[k], q[i])
      BY <2>4, <2>8
    <3> QED BY <2>2, <2>5, <2>6, <2>7, <2>8, <3>1, AppendFacts
  <2>9. CASE q[i] \notin S
    BY <2>2, <2>4, <2>5, <2>6, <2>9
  <2> QED BY <2>8, <2>9
<1>7. T = Nat
  BY <1>5, <1>6, SetInduction
<1>8. Good(Len(q))
  <2>1. Len(q) \in T
    <3> HIDE DEF T
    <3> QED BY <1>1, <1>7
  <2>2. Len(q) <= Len(q)
    BY <1>1
  <2> HIDE DEF Good
  <2> QED BY <2>1, <2>2
<1>9. ToSet(q) = Part(Len(q))
  BY <1>1 DEF ToSet
<1> QED BY <1>4, <1>8, <1>9

(* Absorb. *)
Joining(h, other, g, n) ==
    g = [i \in 0 .. n |-> IF i = 0 THEN h ELSE Press(g[i - 1], other[i])]

LEMMA JoiningExists ==
    ASSUME NEW h, NEW other, NEW n \in Nat
    PROVE  \E g : Joining(h, other, g, n)
<1> DEFINE T == {k \in Nat : \E g : Joining(h, other, g, k)}
<1>1. 0 \in T
  <2> DEFINE g == [i \in 0 .. 0 |-> h]
  <2>1. Joining(h, other, g, 0)
    BY DEF Joining
  <2> QED BY <2>1
<1>2. ASSUME NEW k \in T PROVE k + 1 \in T
  <2>1. PICK g : Joining(h, other, g, k)
    OBVIOUS
  <2>2. PICK last : last = Press(g[k], other[k + 1])
    OBVIOUS
  <2>3. PICK h0 : h0 = [i \in 0 .. (k + 1) |-> IF i = k + 1 THEN last ELSE g[i]]
    OBVIOUS
  <2>4. k \in Nat /\ k + 1 \in Nat
    OBVIOUS
  <2>5. h0[k + 1] = last /\ \A i \in 0 .. k : h0[i] = g[i]
    BY <2>3, <2>4
  <2>6. h0[0] = h
    BY <2>1, <2>4, <2>5 DEF Joining
  <2>7. ASSUME NEW i \in 1 .. k
        PROVE  h0[i] = Press(h0[i - 1], other[i])
    <3>1. i \in 0 .. k /\ i - 1 \in 0 .. k /\ i # 0
      BY <2>4
    <3>2. g[i] = Press(g[i - 1], other[i])
      BY <2>1, <3>1 DEF Joining
    <3> QED BY <2>5, <3>1, <3>2
  <2>8. h0[k + 1] = Press(h0[(k + 1) - 1], other[k + 1])
    <3>1. (k + 1) - 1 = k /\ k \in 0 .. k
      BY <2>4
    <3> QED BY <2>2, <2>5, <3>1
  <2>9. Joining(h, other, h0, k + 1)
    <3>1. \A i \in 0 .. (k + 1) : i = 0 \/ i \in 1 .. k \/ i = k + 1
      BY <2>4
    <3>2. \A i \in 0 .. (k + 1) : h0[i] =
             IF i = 0 THEN h ELSE Press(h0[i - 1], other[i])
      BY <2>4, <2>6, <2>7, <2>8, <3>1
    <3>3. h0 = [i \in 0 .. (k + 1) |-> h0[i]]
      BY <2>3
    <3> QED BY <3>2, <3>3 DEF Joining
  <2> QED BY <2>4, <2>9
<1>3. T = Nat
  BY <1>1, <1>2, SetInduction
<1> QED BY <1>3

LEMMA AbsorbFacts ==
    ASSUME NEW X, NEW h \in Seq(X), NEW other \in Seq(X)
    PROVE  /\ Absorb(h, other) \in Seq(X)
           /\ ToSet(Absorb(h, other)) = ToSet(h) \union ToSet(other)
           /\ IsInjective(h) => IsInjective(Absorb(h, other))
<1>1. Len(other) \in Nat /\ DOMAIN other = 1 .. Len(other)
  OBVIOUS
<1>2. PICK g : g = CHOOSE f : Joining(h, other, f, Len(other))
  OBVIOUS
<1>3. Joining(h, other, g, Len(other))
  BY <1>1, <1>2, JoiningExists
<1>4. Absorb(h, other) = g[Len(other)]
  BY <1>2 DEF Absorb, Joining
<1> DEFINE Part(k) == {other[i] : i \in 1 .. k}
           Good(k) == /\ g[k] \in Seq(X) /\ ToSet(g[k]) = ToSet(h) \union Part(k)
                      /\ IsInjective(h) => IsInjective(g[k])
           T == {k \in Nat : k <= Len(other) => Good(k)}
<1>5. 0 \in T
  <2>1. g[0] = h
    BY <1>1, <1>3 DEF Joining
  <2>2. Part(0) = {}
    OBVIOUS
  <2> QED BY <2>1, <2>2
<1>6. ASSUME NEW k \in T PROVE k + 1 \in T
  <2>1. SUFFICES ASSUME k + 1 <= Len(other) PROVE Good(k + 1)
    OBVIOUS
  <2>2. PICK i : i = k + 1
    OBVIOUS
  <2>3. i \in 0 .. Len(other) /\ i # 0 /\ i - 1 = k /\ k <= Len(other) /\ i \in 1 .. Len(other)
    BY <1>1, <2>1, <2>2
  <2>4. g[i] = Press(g[k], other[i])
    BY <1>3, <2>3 DEF Joining
  <2>5. Good(k) /\ other[i] \in X
    BY <2>3
  <2>6. Part(i) = Part(k) \union {other[i]}
    <3>1. \A j : j \in 1 .. i <=> j \in 1 .. k \/ j = i
      BY <2>2
    <3> QED BY <3>1
  <2> HIDE DEF Part
  <2>7. /\ g[i] \in Seq(X) /\ ToSet(g[i]) = ToSet(g[k]) \union {other[i]}
        /\ IsInjective(g[k]) => IsInjective(g[i])
    <3>1. g[k] \in Seq(X) /\ other[i] \in X
      BY <2>5
    <3>2. PICK a \in Seq(X), b \in X : a = g[k] /\ b = other[i]
      BY <3>1
    <3>3. /\ Press(a, b) \in Seq(X) /\ ToSet(Press(a, b)) = ToSet(a) \union {b}
          /\ IsInjective(a) => IsInjective(Press(a, b))
      BY PressFacts
    <3> HIDE DEF Good, T
    <3> QED BY <2>4, <3>2, <3>3
  <2>8. Good(i)
    BY <2>5, <2>6, <2>7
  <2> QED BY <2>2, <2>8
<1>7. T = Nat
  BY <1>5, <1>6, SetInduction
<1>8. Good(Len(other))
  <2>1. Len(other) \in T
    <3> HIDE DEF T
    <3> QED BY <1>1, <1>7
  <2>2. Len(other) <= Len(other)
    BY <1>1
  <2> HIDE DEF Good
  <2> QED BY <2>1, <2>2
<1>9. ToSet(other) = Part(Len(other))
  BY <1>1 DEF ToSet
<1> QED BY <1>4, <1>8, <1>9

LEMMA ReleaseFacts ==
    ASSUME NEW X, NEW h \in Seq(X), NEW ks
    PROVE  /\ Release(h, ks) \in Seq(X)
           /\ ToSet(Release(h, ks)) = ToSet(h) \ ks
           /\ IsInjective(h) => IsInjective(Release(h, ks))
<1>1. ToSet(h) \intersect (ToSet(h) \ ks) = ToSet(h) \ ks
  OBVIOUS
<1> QED BY <1>1, AmongFacts DEF Release

-----------------------------------------------------------------------------
(* Batches: what is down after one, when it is put together from parts.    *)

Acts == [key : Keys \union {"text"}, down : BOOLEAN]

Pressed(acts) == {acts[i].key : i \in {i \in DOMAIN acts : acts[i].down}}

\* A batch lets go only of keys that are down.
Tidy(from, acts) ==
    \A i \in DOMAIN acts : ~acts[i].down => acts[i].key \in After(from, acts, i - 1)

LEMMA ActFacts ==
    ASSUME NEW act \in Acts
    PROVE  /\ \A k : act = Down(k) <=> act.down /\ act.key = k
           /\ \A k : act = Up(k) <=> ~act.down /\ act.key = k
BY DEF Acts, Down, Up

DownAt(from, acts, n, k) ==
    /\ k \in from \/ \E i \in 1 .. n : acts[i] = Down(k)
    /\ \A i \in 1 .. n : acts[i] = Up(k) => \E j \in i + 1 .. n : acts[j] = Down(k)

LEMMA AfterIn ==
    ASSUME NEW acts \in Seq(Acts), NEW n \in 0 .. Len(acts), NEW from, NEW k
    PROVE  k \in After(from, acts, n) <=> DownAt(from, acts, n, k)
<1>1. Len(acts) \in Nat /\ \A i \in 1 .. n : acts[i] \in Acts
  OBVIOUS
<1>2. \A i \in 1 .. n : acts[i] = Down(k) <=> acts[i].down /\ acts[i].key = k
  BY <1>1, ActFacts
<1> QED BY <1>2 DEF After, DownAt

LEMMA AfterPrefix ==
    ASSUME NEW a \in Seq(Acts), NEW b \in Seq(Acts), NEW n \in 0 .. Len(a), NEW from
    PROVE  After(from, a \o b, n) = After(from, a, n)
<1>1. /\ Len(a) \in Nat /\ a \o b \in Seq(Acts) /\ n \in 0 .. Len(a \o b)
      /\ \A i \in 1 .. n : (a \o b)[i] = a[i]
  OBVIOUS
<1>2. \A i \in 1 .. n : \A j \in i + 1 .. n : j \in 1 .. n
  BY <1>1
<1>3. ASSUME NEW k PROVE k \in After(from, a \o b, n) <=> k \in After(from, a, n)
  <2>1. k \in After(from, a \o b, n) <=> DownAt(from, a \o b, n, k)
    BY <1>1, AfterIn
  <2>2. k \in After(from, a, n) <=> DownAt(from, a, n, k)
    BY <1>1, AfterIn
  <2> QED BY <1>1, <1>2, <2>1, <2>2 DEF DownAt
<1> QED BY <1>3

LEMMA AfterConcat ==
    ASSUME NEW a \in Seq(Acts), NEW b \in Seq(Acts), NEW n \in 0 .. Len(b), NEW from
    PROVE  After(from, a \o b, Len(a) + n) = After(After(from, a, Len(a)), b, n)
<1> DEFINE c == a \o b
           m == Len(a)
           mid == After(from, a, m)
<1>1. /\ m \in Nat /\ n \in Nat /\ Len(b) \in Nat /\ c \in Seq(Acts)
      /\ m + n \in 0 .. Len(c) /\ m \in 0 .. Len(a)
      /\ \A i \in 1 .. m : c[i] = a[i]
      /\ \A j \in 1 .. n : c[m + j] = b[j]
  OBVIOUS
<1>2. \A i \in 1 .. (m + n) : i \in 1 .. m \/ \E j \in 1 .. n : i = m + j
  <2>1. SUFFICES ASSUME NEW i \in 1 .. (m + n), i \notin 1 .. m
                 PROVE  \E j \in 1 .. n : i = m + j
    OBVIOUS
  <2>2. i - m \in 1 .. n /\ i = m + (i - m)
    BY <1>1, <2>1
  <2> QED BY <2>2
<1> HIDE DEF c, m
<1>3. ASSUME NEW k PROVE k \in After(from, c, m + n) <=> k \in After(mid, b, n)
  <2> DEFINE dA(i) == a[i] = Down(k)
             uA(i) == a[i] = Up(k)
             dB(i) == b[i] = Down(k)
             uB(i) == b[i] = Up(k)
  <2>1. k \in After(from, c, m + n) <=>
          /\ k \in from \/ \E i \in 1 .. (m + n) : c[i] = Down(k)
          /\ \A i \in 1 .. (m + n) : c[i] = Up(k) => \E j \in i + 1 .. (m + n) : c[j] = Down(k)
    <3>1. k \in After(from, c, m + n) <=> DownAt(from, c, m + n, k)
      BY <1>1, AfterIn
    <3> QED BY <3>1 DEF DownAt
  <2>2. k \in mid <=>
          /\ k \in from \/ \E i \in 1 .. m : dA(i)
          /\ \A i \in 1 .. m : uA(i) => \E j \in i + 1 .. m : dA(j)
    <3>1. k \in After(from, a, m) <=> DownAt(from, a, m, k)
      BY <1>1, AfterIn
    <3> QED BY <3>1 DEF DownAt
  <2>3. k \in After(mid, b, n) <=>
          /\ k \in mid \/ \E i \in 1 .. n : dB(i)
          /\ \A i \in 1 .. n : uB(i) => \E j \in i + 1 .. n : dB(j)
    <3>1. k \in After(mid, b, n) <=> DownAt(mid, b, n, k)
      BY AfterIn
    <3> QED BY <3>1 DEF DownAt
  <2> HIDE DEF mid
  <2>4. (\E i \in 1 .. (m + n) : c[i] = Down(k)) <=>
          (\E i \in 1 .. m : dA(i)) \/ (\E i \in 1 .. n : dB(i))
    <3>1. ASSUME NEW i \in 1 .. m, dA(i) PROVE \E x \in 1 .. (m + n) : c[x] = Down(k)
      <4>1. i \in 1 .. (m + n) /\ c[i] = Down(k)
        BY <1>1, <3>1
      <4> QED BY <4>1
    <3>2. ASSUME NEW i \in 1 .. n, dB(i) PROVE \E x \in 1 .. (m + n) : c[x] = Down(k)
      <4>1. m + i \in 1 .. (m + n) /\ c[m + i] = Down(k)
        BY <1>1, <3>2
      <4> QED BY <4>1
    <3>3. ASSUME NEW i \in 1 .. (m + n), c[i] = Down(k)
          PROVE  (\E x \in 1 .. m : dA(x)) \/ (\E x \in 1 .. n : dB(x))
      BY <1>1, <1>2, <3>3
    <3> QED BY <3>1, <3>2, <3>3
  <2>5. ASSUME NEW i \in 1 .. m
        PROVE  (\E j \in i + 1 .. (m + n) : c[j] = Down(k)) <=>
                 (\E j \in i + 1 .. m : dA(j)) \/ (\E j \in 1 .. n : dB(j))
    <3>1. ASSUME NEW j \in i + 1 .. m, dA(j) PROVE \E x \in i + 1 .. (m + n) : c[x] = Down(k)
      <4>1. j \in i + 1 .. (m + n) /\ j \in 1 .. m /\ c[j] = Down(k)
        BY <1>1, <3>1
      <4> QED BY <4>1
    <3>2. ASSUME NEW j \in 1 .. n, dB(j) PROVE \E x \in i + 1 .. (m + n) : c[x] = Down(k)
      <4>1. m + j \in i + 1 .. (m + n) /\ c[m + j] = Down(k)
        BY <1>1, <3>2
      <4> QED BY <4>1
    <3>3. ASSUME NEW j \in i + 1 .. (m + n), c[j] = Down(k)
          PROVE  (\E x \in i + 1 .. m : dA(x)) \/ (\E x \in 1 .. n : dB(x))
      <4>1. j \in 1 .. (m + n) /\ j >= i + 1
        BY <1>1, <3>3
      <4>2. CASE j \in 1 .. m
        <5>1. j \in i + 1 .. m /\ dA(j)
          BY <1>1, <3>3, <4>1, <4>2
        <5> QED BY <5>1
      <4>3. CASE \E x \in 1 .. n : j = m + x
        BY <1>1, <3>3, <4>3
      <4> QED BY <1>2, <4>1, <4>2, <4>3
    <3> QED BY <3>1, <3>2, <3>3
  <2>6. ASSUME NEW i \in 1 .. n
        PROVE  (\E j \in (m + i) + 1 .. (m + n) : c[j] = Down(k)) <=>
                 (\E j \in i + 1 .. n : dB(j))
    <3>1. ASSUME NEW j \in i + 1 .. n, dB(j)
          PROVE \E x \in (m + i) + 1 .. (m + n) : c[x] = Down(k)
      <4>1. m + j \in (m + i) + 1 .. (m + n) /\ j \in 1 .. n /\ c[m + j] = Down(k)
        BY <1>1, <3>1
      <4> QED BY <4>1
    <3>2. ASSUME NEW j \in (m + i) + 1 .. (m + n), c[j] = Down(k)
          PROVE  \E x \in i + 1 .. n : dB(x)
      <4>1. j - m \in i + 1 .. n /\ j - m \in 1 .. n /\ m + (j - m) = j
        BY <1>1
      <4>2. c[m + (j - m)] = b[j - m]
        BY <1>1, <4>1
      <4>3. dB(j - m)
        BY <3>2, <4>1, <4>2
      <4> QED BY <4>1, <4>3
    <3> QED BY <3>1, <3>2
  <2>7. (\A i \in 1 .. (m + n) : c[i] = Up(k) => \E j \in i + 1 .. (m + n) : c[j] = Down(k)) <=>
          /\ \A i \in 1 .. m : uA(i) => (\E j \in i + 1 .. m : dA(j)) \/ (\E j \in 1 .. n : dB(j))
          /\ \A i \in 1 .. n : uB(i) => \E j \in i + 1 .. n : dB(j)
    <3>1. \A i \in 1 .. m : i \in 1 .. (m + n) /\ (c[i] = Up(k) <=> uA(i))
      BY <1>1
    <3>2. \A i \in 1 .. n : m + i \in 1 .. (m + n) /\ (c[m + i] = Up(k) <=> uB(i))
      BY <1>1
    <3> HIDE DEF uA, uB, dA, dB
    <3>3. ASSUME \A i \in 1 .. (m + n) : c[i] = Up(k) => \E j \in i + 1 .. (m + n) : c[j] = Down(k)
          PROVE  /\ \A i \in 1 .. m : uA(i) => (\E j \in i + 1 .. m : dA(j)) \/ (\E j \in 1 .. n : dB(j))
                 /\ \A i \in 1 .. n : uB(i) => \E j \in i + 1 .. n : dB(j)
      BY <2>5, <2>6, <3>1, <3>2, <3>3
    <3>4. ASSUME /\ \A i \in 1 .. m : uA(i) => (\E j \in i + 1 .. m : dA(j)) \/ (\E j \in 1 .. n : dB(j))
                 /\ \A i \in 1 .. n : uB(i) => \E j \in i + 1 .. n : dB(j),
                 NEW i \in 1 .. (m + n), c[i] = Up(k)
          PROVE  \E j \in i + 1 .. (m + n) : c[j] = Down(k)
      BY <1>2, <2>5, <2>6, <3>1, <3>2, <3>4
    <3> QED BY <3>3, <3>4
  <2> HIDE DEF uA, uB, dA, dB
  <2> QED BY <2>1, <2>2, <2>3, <2>4, <2>7
<1> QED BY <1>3 DEF c, m

\* A batch that is tidy from `from`, leaves `to` down and presses `hit`.
Batch(from, acts, to, hit) ==
    /\ acts \in Seq(Acts) /\ Tidy(from, acts)
    /\ After(from, acts, Len(acts)) = to /\ Pressed(acts) = hit

LEMMA BatchJoin ==
    ASSUME NEW from, NEW a, NEW to, NEW hit, Batch(from, a, to, hit),
           NEW b, NEW last, NEW more, Batch(to, b, last, more)
    PROVE  Batch(from, a \o b, last, hit \union more)
<1> DEFINE c == a \o b
           m == Len(a)
<1>1. a \in Seq(Acts) /\ b \in Seq(Acts)
  BY DEF Batch
<1>2. /\ m \in Nat /\ Len(b) \in Nat /\ c \in Seq(Acts) /\ Len(c) = m + Len(b)
      /\ DOMAIN a = 1 .. m /\ DOMAIN b = 1 .. Len(b) /\ DOMAIN c = 1 .. (m + Len(b))
      /\ \A i \in 1 .. m : c[i] = a[i]
      /\ \A j \in 1 .. Len(b) : c[m + j] = b[j]
  BY <1>1
<1>3. \A i \in DOMAIN c : i \in DOMAIN a \/ \E j \in DOMAIN b : i = m + j
  <2>1. SUFFICES ASSUME NEW i \in 1 .. (m + Len(b)), i \notin 1 .. m
                 PROVE  \E j \in 1 .. Len(b) : i = m + j
    BY <1>2
  <2>2. i - m \in 1 .. Len(b) /\ i = m + (i - m)
    BY <1>2, <2>1
  <2> QED BY <2>2
<1>4. After(from, c, Len(c)) = last
  <2>1. Len(b) \in 0 .. Len(b)
    BY <1>2
  <2>2. After(from, c, m + Len(b)) = After(After(from, a, m), b, Len(b))
    BY <1>1, <2>1, AfterConcat
  <2> QED BY <1>2, <2>2 DEF Batch
<1>5. Tidy(from, c)
  <2>1. SUFFICES ASSUME NEW i \in DOMAIN c, ~c[i].down PROVE c[i].key \in After(from, c, i - 1)
    BY DEF Tidy
  <2>2. CASE i \in DOMAIN a
    <3>1. c[i] = a[i] /\ i - 1 \in 0 .. m
      BY <1>2, <2>2
    <3>2. After(from, c, i - 1) = After(from, a, i - 1)
      BY <1>1, <3>1, AfterPrefix
    <3>3. a[i].key \in After(from, a, i - 1)
      BY <2>1, <2>2, <3>1 DEF Batch, Tidy
    <3> QED BY <3>1, <3>2, <3>3
  <2>3. ASSUME NEW j \in DOMAIN b, i = m + j PROVE c[i].key \in After(from, c, i - 1)
    <3>1. c[i] = b[j] /\ j - 1 \in 0 .. Len(b) /\ i - 1 = m + (j - 1)
      BY <1>2, <2>3
    <3>2. After(from, c, m + (j - 1)) = After(to, b, j - 1)
      <4>1. After(from, c, m + (j - 1)) = After(After(from, a, m), b, j - 1)
        BY <1>1, <3>1, AfterConcat
      <4> QED BY <4>1 DEF Batch
    <3>3. b[j].key \in After(to, b, j - 1)
      BY <2>1, <2>3, <3>1 DEF Batch, Tidy
    <3> QED BY <3>1, <3>2, <3>3
  <2> QED BY <1>3, <2>2, <2>3
<1>6. Pressed(c) = hit \union more
  <2>1. ASSUME NEW i \in DOMAIN c, c[i].down PROVE c[i].key \in Pressed(a) \union Pressed(b)
    BY <1>2, <1>3, <2>1 DEF Pressed
  <2>2. ASSUME NEW i \in DOMAIN a, a[i].down PROVE a[i].key \in Pressed(c)
    <3>1. i \in DOMAIN c /\ c[i] = a[i]
      BY <1>2
    <3> QED BY <2>2, <3>1 DEF Pressed
  <2>3. ASSUME NEW j \in DOMAIN b, b[j].down PROVE b[j].key \in Pressed(c)
    <3>1. m + j \in DOMAIN c /\ c[m + j] = b[j]
      BY <1>2
    <3> QED BY <2>3, <3>1 DEF Pressed
  <2>4. Pressed(c) = Pressed(a) \union Pressed(b)
    BY <2>1, <2>2, <2>3 DEF Pressed
  <2> QED BY <2>4 DEF Batch
<1> QED BY <1>2, <1>4, <1>5, <1>6 DEF Batch

LEMMA UpsFacts ==
    ASSUME NEW ks \in Seq(Keys)
    PROVE  /\ Ups(ks) \in Seq(Acts) /\ Downs(ks) \in Seq(Acts)
           /\ Len(Ups(ks)) = Len(ks) /\ Len(Downs(ks)) = Len(ks)
           /\ \A i \in 1 .. Len(ks) : Ups(ks)[i] = Up(ks[i]) /\ Downs(ks)[i] = Down(ks[i])
           /\ DOMAIN Ups(ks) = 1 .. Len(ks) /\ DOMAIN Downs(ks) = 1 .. Len(ks)
<1>1. Len(ks) \in Nat /\ DOMAIN ks = 1 .. Len(ks) /\ \A i \in 1 .. Len(ks) : ks[i] \in Keys
  OBVIOUS
<1>2. \A k \in Keys : Up(k) \in Acts /\ Down(k) \in Acts
  BY DEF Up, Down, Acts
<1>3. Ups(ks) \in [1 .. Len(ks) -> Acts] /\ \A i \in 1 .. Len(ks) : Ups(ks)[i] = Up(ks[i])
  BY <1>1, <1>2 DEF Ups
<1>4. Downs(ks) \in [1 .. Len(ks) -> Acts] /\ \A i \in 1 .. Len(ks) : Downs(ks)[i] = Down(ks[i])
  BY <1>1, <1>2 DEF Downs
<1> QED BY <1>1, <1>3, <1>4

LEMMA BatchUps ==
    ASSUME NEW ks \in Seq(Keys), IsInjective(ks), NEW from, ToSet(ks) \subseteq from
    PROVE  Batch(from, Ups(ks), from \ ToSet(ks), {})
<1> DEFINE a == Ups(ks)
           n == Len(ks)
<1>1. /\ a \in Seq(Acts) /\ Len(a) = n /\ n \in Nat /\ DOMAIN ks = 1 .. n /\ DOMAIN a = 1 .. n
      /\ \A i \in 1 .. n : a[i] = Up(ks[i])
  BY UpsFacts
<1>2. \A i \in 1 .. n : \A k : a[i] # Down(k) /\ (a[i] = Up(k) <=> ks[i] = k) /\ ~a[i].down
                               /\ a[i].key = ks[i]
  BY <1>1 DEF Up, Down
<1> HIDE DEF a, n
<1>3. ASSUME NEW l \in 0 .. n, NEW k
      PROVE  k \in After(from, a, l) <=> k \in from /\ \A i \in 1 .. l : ks[i] # k
  <2>1. k \in After(from, a, l) <=> DownAt(from, a, l, k)
    BY <1>1, AfterIn
  <2>2. \A i \in 1 .. l : i \in 1 .. n /\ \A j \in i + 1 .. l : j \in 1 .. n
    BY <1>1
  <2> QED BY <1>2, <2>1, <2>2 DEF DownAt
<1>4. After(from, a, n) = from \ ToSet(ks)
  <2>1. n \in 0 .. n
    BY <1>1
  <2> QED BY <1>1, <1>3, <2>1 DEF ToSet
<1>5. Tidy(from, a)
  <2>1. SUFFICES ASSUME NEW i \in 1 .. n PROVE ks[i] \in After(from, a, i - 1)
    BY <1>1, <1>2 DEF Tidy
  <2>2. i - 1 \in 0 .. n /\ \A j \in 1 .. i - 1 : j \in 1 .. n /\ j # i
    BY <1>1
  <2>3. \A j \in 1 .. i - 1 : ks[j] # ks[i]
    BY <1>1, <2>2 DEF IsInjective
  <2>4. ks[i] \in from
    BY <1>1 DEF ToSet
  <2> QED BY <1>3, <2>2, <2>3, <2>4
<1>6. Pressed(a) = {}
  BY <1>1, <1>2 DEF Pressed
<1> QED BY <1>1, <1>4, <1>5, <1>6 DEF Batch, a

LEMMA BatchDowns ==
    ASSUME NEW ks \in Seq(Keys), NEW from
    PROVE  Batch(from, Downs(ks), from \union ToSet(ks), ToSet(ks))
<1> DEFINE a == Downs(ks)
           n == Len(ks)
<1>1. /\ a \in Seq(Acts) /\ Len(a) = n /\ n \in Nat /\ DOMAIN ks = 1 .. n /\ DOMAIN a = 1 .. n
      /\ \A i \in 1 .. n : a[i] = Down(ks[i])
  BY UpsFacts
<1>2. \A i \in 1 .. n : \A k : a[i] # Up(k) /\ (a[i] = Down(k) <=> ks[i] = k) /\ a[i].down
                               /\ a[i].key = ks[i]
  BY <1>1 DEF Up, Down
<1> HIDE DEF a, n
<1>3. After(from, a, n) = from \union ToSet(ks)
  <2>1. ASSUME NEW k
        PROVE  k \in After(from, a, n) <=> k \in from \/ \E i \in 1 .. n : ks[i] = k
    <3>1. n \in 0 .. n
      BY <1>1
    <3>2. k \in After(from, a, n) <=> DownAt(from, a, n, k)
      BY <1>1, <3>1, AfterIn
    <3> QED BY <1>1, <1>2, <3>2 DEF DownAt
  <2> QED BY <1>1, <2>1 DEF ToSet
<1>4. Tidy(from, a)
  BY <1>1, <1>2 DEF Tidy
<1>5. Pressed(a) = ToSet(ks)
  BY <1>1, <1>2 DEF Pressed, ToSet
<1> QED BY <1>1, <1>3, <1>4, <1>5 DEF Batch, a

LEMMA PairJoin ==
    ASSUME NEW S, NEW x \in S, NEW y \in S
    PROVE  <<x>> \o <<y>> = <<x, y>>
<1>1. PICK a, b : a = <<x>> /\ b = <<y>>
  OBVIOUS
<1>2. a \in Seq(S) /\ b \in Seq(S) /\ Len(a) = 1 /\ Len(b) = 1 /\ a[1] = x /\ b[1] = y
  BY <1>1
<1>3. PICK c : c = a \o b
  OBVIOUS
<1>4. c \in Seq(S) /\ Len(c) = 2 /\ c[1] = x /\ c[2] = y
  <2>1. a \in Seq(S) /\ b \in Seq(S)
    BY <1>2
  <2>2. /\ c \in Seq(S) /\ Len(c) = Len(a) + Len(b)
        /\ \A i \in 1 .. Len(a) : c[i] = a[i]
        /\ \A i \in 1 .. Len(b) : c[Len(a) + i] = b[i]
    BY <1>3, <2>1
  <2>3. c[1] = a[1]
    BY <1>2, <2>2
  <2>4. c[1 + 1] = b[1]
    BY <1>2, <2>2
  <2> QED BY <1>2, <2>2, <2>3, <2>4
<1>5. c = [i \in 1 .. 2 |-> c[i]]
  BY <1>4
<1>6. PICK d : d = <<x, y>>
  OBVIOUS
<1>7. d \in Seq(S) /\ Len(d) = 2 /\ d[1] = x /\ d[2] = y
  BY <1>6
<1>8. \A i \in 1 .. 2 : c[i] = d[i]
  BY <1>4, <1>7
<1>9. c = d
  BY <1>4, <1>7, <1>8
<1> QED BY <1>1, <1>3, <1>6, <1>9

LEMMA BatchStrike ==
    ASSUME NEW c \in Keys, NEW from, c \notin from
    PROVE  Batch(from, <<Down(c), Up(c)>>, from, {c})
<1>1. <<c>> \in Seq(Keys) /\ ToSet(<<c>>) = {c} /\ IsInjective(<<c>>)
  BY DEF ToSet, IsInjective
<1>2. Batch(from, Downs(<<c>>), from \union {c}, {c})
  BY <1>1, BatchDowns
<1>3. Batch(from \union {c}, Ups(<<c>>), (from \union {c}) \ {c}, {})
  <2>1. {c} \subseteq from \union {c}
    OBVIOUS
  <2> QED BY <1>1, <2>1, BatchUps
<1>4. Batch(from, Downs(<<c>>) \o Ups(<<c>>), (from \union {c}) \ {c}, {c} \union {})
  BY <1>2, <1>3, BatchJoin
<1>5. Downs(<<c>>) \o Ups(<<c>>) = <<Down(c), Up(c)>>
  <2>1. Downs(<<c>>) = <<Down(c)>>
    BY DEF Downs
  <2>2. Ups(<<c>>) = <<Up(c)>>
    BY DEF Ups
  <2>3. Down(c) \in Acts /\ Up(c) \in Acts
    BY DEF Down, Up, Acts
  <2> QED BY <2>1, <2>2, <2>3, PairJoin
<1>6. (from \union {c}) \ {c} = from /\ {c} \union {} = {c}
  OBVIOUS
<1> QED BY <1>4, <1>5, <1>6

\* A batch that starts with more down ends with no more than that added.
LEMMA AfterGrows ==
    ASSUME NEW acts \in Seq(Acts), NEW from, NEW more, NEW some, some \subseteq from \union more
    PROVE  After(some, acts, Len(acts)) \subseteq After(from, acts, Len(acts)) \union more
BY DEF After

\* What a batch does not leave up is down after it.
LEMMA AfterEndsUp ==
    ASSUME NEW acts \in Seq(Acts), NEW from
    PROVE  from \ EndsUp(acts) \subseteq After(from, acts, Len(acts))
<1>1. SUFFICES ASSUME NEW k \in from, k \notin EndsUp(acts), k \notin After(from, acts, Len(acts))
               PROVE  FALSE
  OBVIOUS
<1>2. Len(acts) \in Nat /\ DOMAIN acts = 1 .. Len(acts)
  OBVIOUS
<1>3. PICK i \in 1 .. Len(acts) : acts[i] = Up(k)
                                  /\ \A j \in i + 1 .. Len(acts) : acts[j] # Down(k)
  BY <1>1 DEF After
<1>4. acts[i].key = k /\ ~acts[i].down
  BY <1>3 DEF Up
<1> QED BY <1>1, <1>2, <1>3, <1>4 DEF EndsUp

\* The first action of a batch, and the rest of it.
LEMMA AfterHead ==
    ASSUME NEW acts \in Seq(Acts), acts # <<>>, NEW from
    PROVE  LET act == Head(acts)
               next == IF act.down THEN from \union {act.key} ELSE from \ {act.key}
           IN  After(next, Tail(acts), Len(Tail(acts))) = After(from, acts, Len(acts))
<1> DEFINE act == Head(acts)
           rest == Tail(acts)
           next == IF act.down THEN from \union {act.key} ELSE from \ {act.key}
<1>0. PICK one : one = <<act>>
  OBVIOUS
<1>1. /\ act \in Acts /\ rest \in Seq(Acts) /\ one \in Seq(Acts) /\ Len(one) = 1
      /\ one \o rest = acts /\ Len(acts) = 1 + Len(rest) /\ Len(rest) \in Nat
      /\ one[1] = act
  BY <1>0
<1>2. After(from, one, 1) = next
  <2>1. ASSUME NEW k PROVE k \in After(from, one, 1) <=> k \in next
    <3>1. k \in After(from, one, 1) <=> DownAt(from, one, 1, k)
      <4>1. 1 \in 0 .. Len(one)
        BY <1>1
      <4> HIDE DEF act, rest, next
      <4> QED BY <1>1, <4>1, AfterIn
    <3>2. DownAt(from, one, 1, k) <=> (k \in from \/ act = Down(k)) /\ act # Up(k)
      <4> HIDE DEF act, rest, next
      <4>1. (\E i \in 1 .. 1 : one[i] = Down(k)) <=> act = Down(k)
        BY <1>1
      <4>2. (\A i \in 1 .. 1 : one[i] = Up(k) => \E j \in i + 1 .. 1 : one[j] = Down(k))
              <=> act # Up(k)
        BY <1>1
      <4> QED BY <4>1, <4>2 DEF DownAt
    <3> QED BY <1>1, <3>1, <3>2, ActFacts
  <2> QED BY <2>1
<1> HIDE DEF act, rest, next
<1>3. After(from, one \o rest, 1 + Len(rest)) = After(After(from, one, 1), rest, Len(rest))
  <2>1. Len(rest) \in 0 .. Len(rest)
    BY <1>1
  <2>2. After(from, one \o rest, Len(one) + Len(rest))
          = After(After(from, one, Len(one)), rest, Len(rest))
    <3>1. one \in Seq(Acts) /\ rest \in Seq(Acts)
      BY <1>1
    <3> QED BY <2>1, <3>1, AfterConcat
  <2> QED BY <1>1, <2>2
<1>4. After(next, rest, Len(rest)) = After(from, acts, Len(acts))
  BY <1>1, <1>2, <1>3
<1> QED BY <1>4 DEF act, rest, next

-----------------------------------------------------------------------------
(* A plan under construction for a machine that holds h: what its batch    *)
(* leaves down is the set it works on, and what it added itself is not h's. *)

Planned == [acts : Seq(Acts), work : Seq(Keys), peak : Seq(Keys), added : Seq(Keys)]

PlanSets(p, h) ==
    /\ IsInjective(p.work) /\ IsInjective(p.added)
    /\ ToSet(h) \subseteq ToSet(p.peak)
    /\ ToSet(p.added) \subseteq ToSet(p.work) \intersect Mods
    /\ ToSet(p.added) \intersect ToSet(h) = {}
    /\ ToSet(p.work) \intersect Mods \subseteq ToSet(h) \union ToSet(p.added)

PlanOK(p, h) ==
    /\ p \in Planned /\ PlanSets(p, h)
    /\ \E hit : /\ hit \subseteq ToSet(p.peak)
                /\ Batch(ToSet(h) \intersect Mods, p.acts, ToSet(p.work) \intersect Mods, hit)

LEMMA FreshOK ==
    ASSUME NEW h \in Seq(Keys), IsInjective(h)
    PROVE  PlanOK(Fresh(h), h)
<1> DEFINE p == Fresh(h)
           mine == ToSet(h) \intersect Mods
<1>1. p \in Planned /\ p.acts = <<>> /\ p.work = h /\ p.peak = h /\ p.added = <<>>
  BY DEF Fresh, Planned
<1> HIDE DEF p, mine
<1>2. PlanSets(p, h)
  <2>1. ToSet(p.added) = {} /\ IsInjective(p.added)
    BY <1>1, EmptyFacts
  <2> QED BY <1>1, <2>1 DEF PlanSets
<1>3. Batch(mine, <<>>, mine, {})
  BY DEF Batch, Tidy, After, Pressed
<1> QED BY <1>1, <1>2, <1>3 DEF PlanOK, p, mine

LEMMA DancePresses ==
    ASSUME NEW have, NEW want, want \ have \subseteq DOMAIN ModKey
    PROVE  LET bits == Among(BitOrder, want \ have)
               press == [i \in DOMAIN bits |-> ModKey[bits[i]]]
           IN  press \in Seq(Keys) /\ ToSet(press) \subseteq Mods
<1> DEFINE bits == Among(BitOrder, want \ have)
           press == [i \in DOMAIN bits |-> ModKey[bits[i]]]
           B == ToSet(BitOrder)
<1>1. BitOrder \in Seq(B)
  BY KeysAssumption
<1>2. bits \in Seq(B) /\ ToSet(bits) \subseteq want \ have
  <2> HIDE DEF B
  <2> QED BY <1>1, AmongFacts
<1> HIDE DEF bits
<1>3. Len(bits) \in Nat /\ DOMAIN bits = 1 .. Len(bits)
  BY <1>2
<1>4. \A i \in 1 .. Len(bits) : bits[i] \in DOMAIN ModKey
  BY <1>2, <1>3 DEF ToSet
<1>5. \A i \in 1 .. Len(bits) : ModKey[bits[i]] \in Mods
  BY <1>4, KeysAssumption
<1>6. press \in [1 .. Len(bits) -> Keys]
  BY <1>3, <1>5 DEF Keys
<1>7. press \in Seq(Keys)
  <2> HIDE DEF press
  <2> QED BY <1>3, <1>6
<1>8. ToSet(press) \subseteq Mods
  BY <1>3, <1>5 DEF ToSet
<1> QED BY <1>7, <1>8 DEF bits

LEMMA DanceOK ==
    ASSUME NEW h \in Seq(Keys), NEW p, PlanOK(p, h), NEW want, CanDance(p, want)
    PROVE  PlanOK(Dance(p, want, h), h)
<1> DEFINE have == ModBits(p.work)
           release == Reverse(KeysFor(p.work, (have \intersect Layout) \ want))
           bits == Among(BitOrder, want \ have)
           press == [i \in DOMAIN bits |-> ModKey[bits[i]]]
           new == Among(press, Mods \ ToSet(h))
           left == Release(p.work, ToSet(release))
           mine == ToSet(h) \intersect Mods
           r == Dance(p, want, h)
<1>1. /\ p.work \in Seq(Keys) /\ p.peak \in Seq(Keys) /\ p.added \in Seq(Keys)
      /\ p.acts \in Seq(Acts)
  BY DEF PlanOK, Planned
<1>2. /\ release \in Seq(Keys) /\ ToSet(release) \subseteq ToSet(p.work) \intersect Mods
      /\ IsInjective(release)
  <2> DEFINE K == {k \in Mods : Bit[k] \in (have \intersect Layout) \ want}
             s == Among(p.work, K)
  <2>1. K \subseteq Mods /\ release = Reverse(s)
    BY DEF KeysFor
  <2> HIDE DEF K
  <2>2. s \in Seq(Keys) /\ ToSet(s) = ToSet(p.work) \intersect K /\ IsInjective(s)
    BY <1>1, AmongFacts DEF PlanOK, PlanSets
  <2> HIDE DEF s
  <2>3. /\ Reverse(s) \in Seq(Keys) /\ ToSet(Reverse(s)) = ToSet(s) /\ IsInjective(Reverse(s))
    BY <2>2, ReverseFacts
  <2> QED BY <2>1, <2>2, <2>3
<1>3. press \in Seq(Keys) /\ ToSet(press) \subseteq Mods
  BY DancePresses DEF CanDance
<1>4. r = [acts  |-> p.acts \o Ups(release) \o Downs(press),
           work  |-> Absorb(left, press),
           peak  |-> Absorb(p.peak, press),
           added |-> Absorb(Release(p.added, ToSet(release)), new)]
  BY DEF Dance
<1> HIDE DEF have, release, press, new, left, r
<1>5. new \in Seq(Keys) /\ ToSet(new) = ToSet(press) \ ToSet(h)
  <2>1. new \in Seq(Keys) /\ ToSet(new) = ToSet(press) \intersect (Mods \ ToSet(h))
    BY <1>3, AmongFacts DEF new
  <2> QED BY <1>3, <2>1
<1>6. /\ left \in Seq(Keys) /\ ToSet(left) = ToSet(p.work) \ ToSet(release) /\ IsInjective(left)
  BY <1>1, ReleaseFacts DEF left, PlanOK, PlanSets
<1>7. /\ r.work \in Seq(Keys) /\ ToSet(r.work) = ToSet(left) \union ToSet(press)
      /\ IsInjective(r.work)
  BY <1>3, <1>4, <1>6, AbsorbFacts
<1>8. r.peak \in Seq(Keys) /\ ToSet(r.peak) = ToSet(p.peak) \union ToSet(press)
  BY <1>1, <1>3, <1>4, AbsorbFacts
<1>9. /\ r.added \in Seq(Keys) /\ IsInjective(r.added)
      /\ ToSet(r.added) = (ToSet(p.added) \ ToSet(release)) \union ToSet(new)
  <2> DEFINE kept == Release(p.added, ToSet(release))
  <2>1. /\ kept \in Seq(Keys) /\ ToSet(kept) = ToSet(p.added) \ ToSet(release)
        /\ IsInjective(kept)
    BY <1>1, ReleaseFacts DEF PlanOK, PlanSets
  <2>2. r.added = Absorb(kept, new)
    BY <1>4
  <2> HIDE DEF kept
  <2> QED BY <1>5, <2>1, <2>2, AbsorbFacts
<1>10. PlanSets(r, h)
  BY <1>2, <1>3, <1>5, <1>6, <1>7, <1>8, <1>9 DEF PlanOK, PlanSets
<1>11. PICK hit : /\ hit \subseteq ToSet(p.peak)
                  /\ Batch(mine, p.acts, ToSet(p.work) \intersect Mods, hit)
  BY DEF PlanOK
<1>12. Batch(mine, r.acts, ToSet(r.work) \intersect Mods, hit \union ToSet(press))
  <2> DEFINE mid == (ToSet(p.work) \intersect Mods) \ ToSet(release)
  <2>1. Batch(ToSet(p.work) \intersect Mods, Ups(release), mid, {})
    BY <1>2, BatchUps
  <2>2. Batch(mine, p.acts \o Ups(release), mid, hit \union {})
    BY <1>11, <2>1, BatchJoin
  <2>3. Batch(mid, Downs(press), mid \union ToSet(press), ToSet(press))
    BY <1>3, BatchDowns
  <2>4. Batch(mine, (p.acts \o Ups(release)) \o Downs(press), mid \union ToSet(press),
              (hit \union {}) \union ToSet(press))
    <3> HIDE DEF mid, mine
    <3> QED BY <2>2, <2>3, BatchJoin
  <2>5. mid \union ToSet(press) = ToSet(r.work) \intersect Mods
    BY <1>3, <1>6, <1>7
  <2>6. (hit \union {}) \union ToSet(press) = hit \union ToSet(press)
    OBVIOUS
  <2>7. r.acts = (p.acts \o Ups(release)) \o Downs(press)
    BY <1>4
  <2> QED BY <2>4, <2>5, <2>6, <2>7
<1>13. hit \union ToSet(press) \subseteq ToSet(r.peak)
  BY <1>8, <1>11
<1>14. r \in Planned
  <2>1. r.acts \in Seq(Acts)
    BY <1>12 DEF Batch
  <2>2. r = [acts |-> r.acts, work |-> r.work, peak |-> r.peak, added |-> r.added]
    BY <1>4
  <2> QED BY <1>7, <1>8, <1>9, <2>1, <2>2 DEF Planned
<1> QED BY <1>10, <1>12, <1>13, <1>14 DEF PlanOK, r, mine

LEMMA StrikeOK ==
    ASSUME NEW h \in Seq(Keys), NEW p, PlanOK(p, h), NEW c \in Chars
    PROVE  PlanOK(Strike(p, c), h) /\ Strike(p, c).work = p.work
<1> DEFINE r == Strike(p, c)
           mine == ToSet(h) \intersect Mods
           now == ToSet(p.work) \intersect Mods
<1>1. p \in Planned /\ c \in Keys /\ c \notin now
  BY KeysAssumption DEF PlanOK, Keys
<1>2. /\ p.peak \in Seq(Keys) /\ p.acts \in Seq(Acts)
      /\ r.acts = p.acts \o <<Down(c), Up(c)>> /\ r.peak = Press(p.peak, c)
      /\ r.work = p.work /\ r.added = p.added
      /\ r = [acts |-> r.acts, work |-> r.work, peak |-> r.peak, added |-> r.added]
  <2>1. PICK x, y : x = p.acts \o <<Down(c), Up(c)>> /\ y = Press(p.peak, c)
    OBVIOUS
  <2>2. r = [p EXCEPT !.acts = x, !.peak = y]
    BY <2>1 DEF Strike
  <2> HIDE DEF r, mine, now
  <2>3. /\ r.acts = x /\ r.peak = y /\ r.work = p.work /\ r.added = p.added
        /\ r = [acts |-> r.acts, work |-> r.work, peak |-> r.peak, added |-> r.added]
    BY <1>1, <2>2 DEF Planned
  <2> QED BY <1>1, <2>1, <2>3 DEF Planned
<1>3. Press(p.peak, c) \in Seq(Keys) /\ ToSet(Press(p.peak, c)) = ToSet(p.peak) \union {c}
  BY <1>1, <1>2, PressFacts
<1>4. PICK hit : hit \subseteq ToSet(p.peak) /\ Batch(mine, p.acts, now, hit)
  BY DEF PlanOK
<1>5. Batch(now, <<Down(c), Up(c)>>, now, {c})
  BY <1>1, BatchStrike
<1> HIDE DEF r, mine, now
<1>6. Batch(mine, r.acts, now, hit \union {c})
  <2>1. PICK two : two = <<Down(c), Up(c)>>
    OBVIOUS
  <2>2. Batch(mine, p.acts \o two, now, hit \union {c})
    BY <1>4, <1>5, <2>1, BatchJoin
  <2> QED BY <1>2, <2>1, <2>2
<1>7. r \in Planned
  <2>1. r.acts \in Seq(Acts) /\ r.peak \in Seq(Keys)
    BY <1>2, <1>3, <1>6 DEF Batch
  <2> QED BY <1>1, <1>2, <2>1 DEF Planned
<1>8. PlanSets(r, h)
  BY <1>2, <1>3 DEF PlanOK, PlanSets
<1>9. hit \union {c} \subseteq ToSet(r.peak)
  BY <1>2, <1>3, <1>4
<1> QED BY <1>2, <1>6, <1>7, <1>8, <1>9 DEF PlanOK, r, mine, now

\* The stroke of a symbol ends where it began, having let go of nothing that was up.
Restores(plan, h) ==
    \E hit : /\ hit \subseteq ToSet(plan.peak)
             /\ Batch(ToSet(h) \intersect Mods, plan.acts, ToSet(h) \intersect Mods, hit)

\* What any plan is for a machine that holds h: it presses only modifiers of its peak,
\* and a modifier that is down after it is one that its held set names.
FinalOK(plan, h) ==
    /\ plan.acts \in Seq(Acts) /\ plan.held \in Seq(Keys) /\ plan.peak \in Seq(Keys)
    /\ IsInjective(plan.held)
    /\ ToSet(h) \subseteq ToSet(plan.peak)
    /\ Pressed(plan.acts) \intersect Mods \subseteq ToSet(plan.peak)
    /\ After(ToSet(h) \intersect Mods, plan.acts, Len(plan.acts)) \intersect Mods
         \subseteq ToSet(plan.held)

LEMMA RestoreOK ==
    ASSUME NEW h \in Seq(Keys), NEW p, PlanOK(p, h)
    PROVE  LET r == Restore(p, h)
           IN  /\ Restores(r, h) /\ FinalOK(r, h)
               /\ ToSet(r.held) \intersect Mods = ToSet(h) \intersect Mods
<1> DEFINE kept == Release(p.work, ToSet(p.added))
           back == Among(h, Mods \ ToSet(kept))
           gone == Reverse(p.added)
           mine == ToSet(h) \intersect Mods
           now == ToSet(p.work) \intersect Mods
           r == Restore(p, h)
<1>1. /\ p.work \in Seq(Keys) /\ p.peak \in Seq(Keys) /\ p.added \in Seq(Keys)
      /\ p.acts \in Seq(Acts)
  BY DEF PlanOK, Planned
<1>2. r = [acts |-> p.acts \o Ups(gone) \o Downs(back), held |-> Absorb(kept, back),
           peak |-> p.peak]
  BY DEF Restore
<1>3. /\ kept \in Seq(Keys) /\ IsInjective(kept) /\ ToSet(kept) = ToSet(p.work) \ ToSet(p.added)
  BY <1>1, ReleaseFacts DEF PlanOK, PlanSets
<1> HIDE DEF kept, r
<1>4. back \in Seq(Keys) /\ ToSet(back) = ToSet(h) \intersect (Mods \ ToSet(kept))
  BY AmongFacts
<1>5. gone \in Seq(Keys) /\ ToSet(gone) = ToSet(p.added) /\ IsInjective(gone)
  BY <1>1, ReverseFacts DEF PlanOK, PlanSets
<1> HIDE DEF back, gone
<1>6. /\ r.held \in Seq(Keys) /\ IsInjective(r.held)
      /\ ToSet(r.held) = ToSet(kept) \union ToSet(back)
  BY <1>2, <1>3, <1>4, AbsorbFacts
<1>7. ToSet(r.held) \intersect Mods = mine
  BY <1>3, <1>4, <1>6 DEF PlanOK, PlanSets
<1>8. PICK hit : hit \subseteq ToSet(p.peak) /\ Batch(mine, p.acts, now, hit)
  BY DEF PlanOK
<1>9. Batch(mine, r.acts, mine, hit \union ToSet(back))
  <2> DEFINE mid == now \ ToSet(gone)
  <2>1. Batch(now, Ups(gone), mid, {})
    <3>1. ToSet(gone) \subseteq now
      BY <1>5 DEF PlanOK, PlanSets
    <3> QED BY <1>5, <3>1, BatchUps
  <2>2. Batch(mine, p.acts \o Ups(gone), mid, hit \union {})
    <3> HIDE DEF mine, now, mid
    <3> QED BY <1>8, <2>1, BatchJoin
  <2>3. Batch(mid, Downs(back), mid \union ToSet(back), ToSet(back))
    BY <1>4, BatchDowns
  <2>4. Batch(mine, (p.acts \o Ups(gone)) \o Downs(back), mid \union ToSet(back),
              (hit \union {}) \union ToSet(back))
    <3> HIDE DEF mid, mine
    <3> QED BY <2>2, <2>3, BatchJoin
  <2>5. mid \union ToSet(back) = mine
    BY <1>3, <1>4, <1>5 DEF PlanOK, PlanSets
  <2>6. (hit \union {}) \union ToSet(back) = hit \union ToSet(back)
    OBVIOUS
  <2>7. r.acts = (p.acts \o Ups(gone)) \o Downs(back)
    BY <1>2
  <2> QED BY <2>4, <2>5, <2>6, <2>7
<1>10. r.peak = p.peak /\ hit \union ToSet(back) \subseteq ToSet(r.peak)
  <2>1. ToSet(h) \subseteq ToSet(p.peak)
    BY DEF PlanOK, PlanSets
  <2> QED BY <1>2, <1>4, <1>8, <2>1
<1>11. Restores(r, h)
  BY <1>9, <1>10 DEF Restores
<1>12. FinalOK(r, h)
  <2>1. /\ r.acts \in Seq(Acts) /\ After(mine, r.acts, Len(r.acts)) = mine
        /\ Pressed(r.acts) = hit \union ToSet(back)
    BY <1>9 DEF Batch
  <2>2. ToSet(h) \subseteq ToSet(r.peak)
    BY <1>10 DEF PlanOK, PlanSets
  <2> QED BY <1>1, <1>6, <1>7, <1>10, <2>1, <2>2 DEF FinalOK
<1> QED BY <1>7, <1>11, <1>12 DEF r

LEMMA SymbolPlanOK ==
    ASSUME NEW h \in Seq(Keys), IsInjective(h), NEW s \in Symbols
    PROVE  \/ SymbolPlan(h, s) = <<>>
           \/ \E r : /\ SymbolPlan(h, s) = <<r>> /\ Restores(r, h) /\ FinalOK(r, h)
                     /\ ToSet(r.held) \intersect Mods = ToSet(h) \intersect Mods
<1> DEFINE p0 == Fresh(h)
           p1 == IF s.prefix = <<>> THEN p0
                 ELSE Strike(Dance(p0, s.prefix[1].mods, h), s.prefix[1].code)
           p2 == Strike(Dance(p1, s.mods, h), s.code)
           no == \/ Len(h) >= PressMax
                 \/ s.prefix # <<>> /\ ~CanDance(p0, s.prefix[1].mods)
                 \/ ~CanDance(p1, s.mods)
<1>1. SymbolPlan(h, s) = IF no THEN <<>> ELSE <<Restore(p2, h)>>
  BY DEF SymbolPlan
<1>2. SUFFICES ASSUME ~no PROVE PlanOK(p2, h)
  BY <1>1, RestoreOK
<1>3. s.code \in Chars /\ (s.prefix # <<>> => s.prefix[1].code \in Chars)
  BY KeysAssumption
<1>4. PlanOK(p0, h)
  BY FreshOK
<1>5. PlanOK(p1, h)
  <2>1. CASE s.prefix = <<>>
    BY <1>4, <2>1
  <2>2. CASE s.prefix # <<>>
    <3> HIDE DEF p0
    <3>1. CanDance(p0, s.prefix[1].mods)
      BY <1>2, <2>2
    <3>2. PlanOK(Dance(p0, s.prefix[1].mods, h), h)
      BY <1>4, <3>1, DanceOK
    <3> QED BY <1>3, <2>2, <3>2, StrikeOK
  <2> QED BY <2>1, <2>2
<1>6. CanDance(p1, s.mods)
  BY <1>2
<1> HIDE DEF p1
<1>7. PlanOK(Dance(p1, s.mods, h), h)
  BY <1>5, <1>6, DanceOK
<1> QED BY <1>3, <1>7, StrikeOK

LEMMA PressPlanOK ==
    ASSUME NEW h \in Seq(Keys), IsInjective(h), NEW k \in Keys
    PROVE  \/ PressPlan(h, k) = <<>>
           \/ \E r : PressPlan(h, k) = <<r>> /\ FinalOK(r, h)
<1> DEFINE r == [acts |-> <<Down(k)>>, held |-> Press(h, k), peak |-> Press(h, k)]
           mine == ToSet(h) \intersect Mods
<1>1. PressPlan(h, k) = <<>> \/ PressPlan(h, k) = <<r>>
  BY DEF PressPlan
<1>2. <<k>> \in Seq(Keys) /\ ToSet(<<k>>) = {k} /\ Downs(<<k>>) = <<Down(k)>>
  BY DEF ToSet, Downs
<1>3. Batch(mine, <<Down(k)>>, mine \union {k}, {k})
  <2>1. Batch(mine, Downs(<<k>>), mine \union ToSet(<<k>>), ToSet(<<k>>))
    BY <1>2, BatchDowns
  <2> QED BY <1>2, <2>1
<1>4. /\ Press(h, k) \in Seq(Keys) /\ IsInjective(Press(h, k))
      /\ ToSet(Press(h, k)) = ToSet(h) \union {k}
  BY PressFacts
<1>5. r.acts = <<Down(k)>> /\ r.held = Press(h, k) /\ r.peak = Press(h, k)
  OBVIOUS
<1> HIDE DEF r
<1>6. FinalOK(r, h)
  BY <1>3, <1>4, <1>5 DEF FinalOK, Batch
<1> QED BY <1>1, <1>6

LEMMA LetGoPlanOK ==
    ASSUME NEW h \in Seq(Keys), IsInjective(h), NEW k \in Keys
    PROVE  \E r : LetGoPlan(h, k) = <<r>> /\ FinalOK(r, h)
                  /\ (r.acts = <<>> => ToSet(r.held) = ToSet(h))
<1> DEFINE acts == IF k \in ToSet(h) THEN <<Up(k)>> ELSE <<>>
           r == [acts |-> acts, held |-> Release(h, {k}), peak |-> h]
           mine == ToSet(h) \intersect Mods
<1>1. LetGoPlan(h, k) = <<r>>
  BY DEF LetGoPlan
<1>2. /\ Release(h, {k}) \in Seq(Keys) /\ IsInjective(Release(h, {k}))
      /\ ToSet(Release(h, {k})) = ToSet(h) \ {k}
  BY ReleaseFacts
<1>3. /\ acts \in Seq(Acts) /\ Pressed(acts) = {}
      /\ After(mine, acts, Len(acts)) \subseteq ToSet(h) \ {k}
      /\ acts = <<>> => k \notin ToSet(h)
  <2>1. CASE k \notin ToSet(h)
    <3>1. acts = <<>> /\ Len(acts) = 0
      BY <2>1
    <3>2. After(mine, <<>>, 0) = mine
      BY DEF After
    <3>3. acts \in Seq(Acts) /\ Pressed(acts) = {}
      <4>1. <<>> \in Seq(Acts) /\ DOMAIN <<>> = {}
        OBVIOUS
      <4>2. Pressed(<<>>) = {}
        BY <4>1 DEF Pressed
      <4> QED BY <3>1, <4>1, <4>2
    <3>4. After(mine, acts, Len(acts)) = mine
      BY <3>1, <3>2
    <3>5. mine \subseteq ToSet(h) \ {k}
      BY <2>1
    <3> HIDE DEF acts, mine
    <3> QED BY <2>1, <3>3, <3>4, <3>5
  <2>2. CASE k \in ToSet(h)
    <3>1. acts = <<Up(k)>> /\ acts # <<>>
      BY <2>2
    <3>2. <<k>> \in Seq(Keys) /\ ToSet(<<k>>) = {k} /\ Ups(<<k>>) = <<Up(k)>> /\ IsInjective(<<k>>)
      BY DEF ToSet, Ups, IsInjective
    <3>3. Batch(ToSet(h), acts, ToSet(h) \ {k}, {})
      <4>1. Batch(ToSet(h), Ups(<<k>>), ToSet(h) \ ToSet(<<k>>), {})
        BY <2>2, <3>2, BatchUps
      <4> QED BY <3>1, <3>2, <4>1
    <3>4. After(mine, acts, Len(acts)) \subseteq After(ToSet(h), acts, Len(acts)) \union {}
      <4>1. mine \subseteq ToSet(h) \union {} /\ acts \in Seq(Acts)
        BY <3>3 DEF Batch
      <4> HIDE DEF mine, acts
      <4> QED BY <4>1, AfterGrows
    <3> QED BY <3>1, <3>3, <3>4 DEF Batch
  <2> QED BY <2>1, <2>2
<1>4. r.acts = acts /\ r.held = Release(h, {k}) /\ r.peak = h
  OBVIOUS
<1> HIDE DEF r, acts
<1>5. FinalOK(r, h)
  BY <1>2, <1>3, <1>4 DEF FinalOK
<1> QED BY <1>1, <1>2, <1>3, <1>4, <1>5

LEMMA TextPlanOK ==
    ASSUME NEW h \in Seq(Keys), IsInjective(h)
    PROVE  \E r : TextPlan(h) = <<r>> /\ FinalOK(r, h) /\ r.acts # <<>>
<1> DEFINE r == [acts |-> <<Text>>, held |-> h, peak |-> h]
           mine == ToSet(h) \intersect Mods
<1>1. TextPlan(h) = <<r>>
  BY DEF TextPlan
<1>2. Text \in Acts /\ Text.key \notin Mods
  BY KeysAssumption DEF Text, Acts, Keys
<1>3. PICK a : a = <<Text>>
  OBVIOUS
<1>4. a \in Seq(Acts) /\ a # <<>> /\ DOMAIN a = 1 .. 1 /\ Len(a) = 1 /\ a[1] = Text
  BY <1>2, <1>3
<1>5. Pressed(a) \intersect Mods = {}
  BY <1>2, <1>4 DEF Pressed
<1>6. After(mine, a, Len(a)) \intersect Mods \subseteq mine
  <2>1. \A i \in 1 .. 1 : a[i].key \notin Mods
    BY <1>2, <1>4
  <2> QED BY <1>4, <2>1 DEF After
<1>7. r.acts = a /\ r.held = h /\ r.peak = h
  BY <1>3
<1> HIDE DEF r
<1>8. FinalOK(r, h)
  BY <1>4, <1>5, <1>6, <1>7 DEF FinalOK
<1> QED BY <1>1, <1>4, <1>7, <1>8

\* Every plan of a source's frame, whatever it asks for, is one of these.
LEMMA PlansOK ==
    ASSUME NEW h \in Seq(Keys), IsInjective(h), NEW plan \in Plans(h), plan # <<>>
    PROVE  FinalOK(plan[1], h)
<1>1. \A r : <<r>>[1] = r
  OBVIOUS
<1>2. CASE \E k \in Keys : plan = PressPlan(h, k)
  <2>1. PICK k \in Keys : plan = PressPlan(h, k)
    BY <1>2
  <2>2. PICK r : plan = <<r>> /\ FinalOK(r, h)
    BY <2>1, PressPlanOK
  <2> QED BY <1>1, <2>2
<1>3. CASE \E k \in Keys : plan = LetGoPlan(h, k)
  <2>1. PICK k \in Keys : plan = LetGoPlan(h, k)
    BY <1>3
  <2>2. PICK r : plan = <<r>> /\ FinalOK(r, h)
    BY <2>1, LetGoPlanOK
  <2> QED BY <1>1, <2>2
<1>4. CASE \E s \in Symbols : plan = SymbolPlan(h, s)
  <2>1. PICK s \in Symbols : plan = SymbolPlan(h, s)
    BY <1>4
  <2>2. PICK r : plan = <<r>> /\ FinalOK(r, h)
    BY <2>1, SymbolPlanOK
  <2> QED BY <1>1, <2>2
<1>5. CASE plan = TextPlan(h)
  <2>1. PICK r : plan = <<r>> /\ FinalOK(r, h)
    BY <1>5, TextPlanOK
  <2> QED BY <1>1, <2>1
<1> QED BY <1>2, <1>3, <1>4, <1>5 DEF Plans

-----------------------------------------------------------------------------
(* The held set is a set of keys, each entered once: all a stroke needs.    *)

HeldOK == held \in Seq(Keys) /\ IsInjective(held)

LEMMA ReleaseHeldKeeps ==
    ASSUME HeldOK, NEW strand, NEW able
    PROVE  LET r == ReleaseHeld(held, strand, able) IN r.held \in Seq(Keys) /\ IsInjective(r.held)
<1>1. ReleaseHeld(held, strand, able).held \in {held, <<>>}
  BY DEF ReleaseHeld
<1>2. <<>> \in Seq(Keys) /\ IsInjective(<<>>)
  BY EmptyFacts
<1> QED BY <1>1, <1>2 DEF HeldOK

LEMMA HeldStep == HeldOK /\ [Next]_vars => HeldOK'
<1> SUFFICES ASSUME HeldOK, [Next]_vars PROVE HeldOK'
  OBVIOUS
<1>1. <<>> \in Seq(Keys) /\ IsInjective(<<>>)
  BY EmptyFacts
<1>2. CASE UNCHANGED held
  BY <1>2 DEF HeldOK
<1>3. CASE held' = <<>>
  BY <1>1, <1>3 DEF HeldOK
<1>4. CASE \E strand, able : held' = ReleaseHeld(held, strand, able).held
  BY <1>4, ReleaseHeldKeeps DEF HeldOK
<1>5. CASE ApplyKey
  <2>1. PICK plan \in Plans(held) : plan # <<>> /\ held' = plan[1].held
    BY <1>5 DEF ApplyKey
  <2>2. FinalOK(plan[1], held)
    BY <2>1, PlansOK DEF HeldOK
  <2> QED BY <2>1, <2>2 DEF FinalOK, HeldOK
<1>6. CASE CapabilitiesChanged
  <2> DEFINE d == DrainStranded(held, stranded, grant)
             r == IF driven /\ ~grant THEN ReleaseHeld(held, d.stranded, grant)
                  ELSE [held |-> held, stranded |-> d.stranded, job |-> <<>>]
  <2>1. held' = r.held
    BY <1>6 DEF CapabilitiesChanged
  <2>2. CASE driven /\ ~grant
    BY <1>4, <2>1, <2>2
  <2>3. CASE ~(driven /\ ~grant)
    BY <1>2, <2>1, <2>3
  <2> QED BY <2>2, <2>3
<1>7. CASE OnStart \/ OnReleaseAll \/ EndDriven \/ Shutdown
  <2>1. held' = ReleaseHeld(held, stranded, caps).held
    BY <1>7 DEF OnStart, OnReleaseAll, EndDriven, Shutdown
  <2> QED BY <1>4, <2>1
<1>8. CASE Crash \/ Open \/ StepExit
  BY <1>3, <1>8 DEF Crash, Open, StepExit
<1>9. CASE GrantTurns \/ SilenceTurns \/ RefreshCaps \/ StepSave \/ StepSend \/ StepPost
                        \/ StepDiscarded
  BY <1>2, <1>9 DEF GrantTurns, SilenceTurns, RefreshCaps, StepSave, StepSend, StepPost,
                   StepDiscarded
<1>10. CASE UNCHANGED vars
  BY <1>2, <1>10 DEF vars
<1> QED BY <1>5, <1>6, <1>7, <1>8, <1>9, <1>10 DEF Next, Running

LEMMA SingleFacts ==
    ASSUME NEW r
    PROVE  ToSet(<<r>>) = {r}
<1>1. DOMAIN <<r>> = 1 .. 1 /\ <<r>>[1] = r
  OBVIOUS
<1> QED BY <1>1 DEF ToSet

LEMMA HeldRestores == HeldOK => StrokeRestores
<1> SUFFICES ASSUME HeldOK, NEW s \in Symbols, NEW plan \in ToSet(SymbolPlan(held, s))
             PROVE  LET mine == ToSet(held) \intersect Mods
                    IN  /\ After(mine, plan.acts, Len(plan.acts)) \intersect Mods = mine
                        /\ ToSet(plan.held) \intersect Mods = mine
                        /\ \A i \in DOMAIN plan.acts :
                            ~plan.acts[i].down =>
                                plan.acts[i].key \in After(mine, plan.acts, i - 1)
  BY DEF StrokeRestores
<1> DEFINE mine == ToSet(held) \intersect Mods
<1>1. SymbolPlan(held, s) # <<>>
  BY EmptyFacts
<1>2. PICK r : /\ SymbolPlan(held, s) = <<r>> /\ Restores(r, held)
               /\ ToSet(r.held) \intersect Mods = mine
  BY <1>1, SymbolPlanOK DEF HeldOK
<1>3. plan = r
  BY <1>2, SingleFacts
<1>4. PICK hit : Batch(mine, plan.acts, mine, hit)
  BY <1>2, <1>3 DEF Restores
<1>5. /\ After(mine, plan.acts, Len(plan.acts)) = mine
      /\ \A i \in DOMAIN plan.acts :
           ~plan.acts[i].down => plan.acts[i].key \in After(mine, plan.acts, i - 1)
  BY <1>4 DEF Batch, Tidy
<1> QED BY <1>2, <1>3, <1>5

\* The stroke of a symbol (press_plan) puts the machine back exactly as it was, for any
\* layout, any number of modifiers and any symbol: what is down after it is what was held
\* before it, the held set it leaves says so too, and on the way it lets go of nothing
\* that was not down.
THEOREM StrokeRestoresTheorem == Spec => []StrokeRestores
<1>1. Init => HeldOK
  <2>1. <<>> \in Seq(Keys) /\ IsInjective(<<>>)
    BY EmptyFacts
  <2> QED BY <2>1 DEF Init, HeldOK
<1>2. HeldOK /\ [Next]_vars => HeldOK'
  BY HeldStep
<1>3. HeldOK => StrokeRestores
  BY HeldRestores
<1> QED BY <1>1, <1>2, <1>3, PTL DEF Spec

-----------------------------------------------------------------------------
(* The crash guard.  What a handler has left to do is described by shapes:  *)
(* a list of commands is built with Then, which the proofs keep folded.     *)

Cmds ==
    [op : {"save"}, rec : Seq(Keys)]
        \union [op : {"inject", "release", "typing", "freeing"}, acts : Seq(Acts)]
        \union [op : {"exit"}]

Then(cmd, rest) == <<cmd>> \o rest
SaveCmd(rec) == [op |-> "save", rec |-> rec]
SendCmd(op, acts) == [op |-> op, acts |-> acts]
ExitCmd == [op |-> "exit"]
Ops == {"inject", "release", "typing", "freeing"}
Ends == {<<>>, Then(ExitCmd, <<>>)}

LEMMA ConsFacts ==
    ASSUME NEW S, NEW x \in S, NEW rest \in Seq(S)
    PROVE  /\ <<x>> \o rest \in Seq(S) /\ <<x>> \o rest # <<>>
           /\ Head(<<x>> \o rest) = x /\ Tail(<<x>> \o rest) = rest
<1>1. <<x>> \in Seq(S) /\ Len(<<x>>) = 1 /\ <<x>>[1] = x
  OBVIOUS
<1>2. PICK one \in Seq(S) : one = <<x>> /\ Len(one) = 1 /\ one[1] = x
  BY <1>1
<1>3. /\ one \o rest \in Seq(S) /\ Len(one \o rest) = 1 + Len(rest) /\ Len(rest) \in Nat
      /\ (one \o rest)[1] = x
  BY <1>2
<1>4. \A i \in 1 .. Len(rest) : (one \o rest)[1 + i] = rest[i]
  BY <1>2
<1>5. PICK all \in Seq(S) :
        /\ all = one \o rest /\ Len(all) = 1 + Len(rest) /\ all[1] = x
        /\ \A i \in 1 .. Len(rest) : all[1 + i] = rest[i]
  BY <1>3, <1>4
<1>6. all # <<>> /\ Head(all) = x
  BY <1>3, <1>5
<1>7. Tail(all) = rest
  <2>1. /\ Tail(all) \in Seq(S) /\ Len(Tail(all)) = Len(rest)
        /\ \A i \in 1 .. Len(rest) : Tail(all)[i] = all[i + 1]
    BY <1>3, <1>5
  <2>2. \A i \in 1 .. Len(rest) : Tail(all)[i] = rest[i]
    BY <1>5, <2>1
  <2> QED BY <2>1, <2>2
<1> QED BY <1>2, <1>5, <1>6, <1>7

LEMMA ThenFacts ==
    ASSUME NEW cmd \in Cmds, NEW rest \in Seq(Cmds)
    PROVE  /\ Then(cmd, rest) \in Seq(Cmds) /\ Then(cmd, rest) # <<>>
           /\ Head(Then(cmd, rest)) = cmd /\ Tail(Then(cmd, rest)) = rest
BY ConsFacts DEF Then

LEMMA CmdFacts ==
    /\ \A rec \in Seq(Keys) : SaveCmd(rec) \in Cmds /\ SaveCmd(rec).op = "save"
                              /\ SaveCmd(rec).rec = rec
    /\ \A op \in Ops, acts \in Seq(Acts) :
          SendCmd(op, acts) \in Cmds /\ SendCmd(op, acts).op = op /\ SendCmd(op, acts).acts = acts
    /\ ExitCmd \in Cmds /\ ExitCmd.op = "exit"
    /\ Ops \subseteq {"inject", "release", "typing", "freeing"} /\ "save" \notin Ops /\ "exit" \notin Ops
BY DEF SaveCmd, SendCmd, ExitCmd, Ops, Cmds

LEMMA EndFacts ==
    /\ <<>> \in Seq(Cmds) /\ \A e \in Ends : e \in Seq(Cmds)
    /\ <<>> \in Ends /\ Exit \in Ends
    /\ \A e \in Ends : e = <<>> \/ (e # <<>> /\ Head(e) = ExitCmd)
<1>1. <<>> \in Seq(Cmds)
  OBVIOUS
<1>2. ExitCmd \in Cmds
  BY CmdFacts
<1>3. /\ Then(ExitCmd, <<>>) \in Seq(Cmds) /\ Then(ExitCmd, <<>>) # <<>>
      /\ Head(Then(ExitCmd, <<>>)) = ExitCmd
  BY <1>1, <1>2, ThenFacts
<1>4. Exit = Then(ExitCmd, <<>>)
  <2>1. \A S : \A x \in S : <<x>> \o <<>> = <<x>>
    OBVIOUS
  <2> QED BY <2>1, <1>2 DEF Exit, Then, ExitCmd
<1> QED BY <1>1, <1>3, <1>4 DEF Ends

\* Two and three commands in a row, and an exit after them.
LEMMA ThenJoin ==
    ASSUME NEW x \in Cmds, NEW y \in Cmds, NEW z \in Cmds
    PROVE  /\ <<x>> \o <<>> = Then(x, <<>>)
           /\ <<x>> = Then(x, <<>>)
           /\ <<x>> \o <<y>> = Then(x, Then(y, <<>>))
           /\ (<<x>> \o <<y>>) \o <<z>> = Then(x, Then(y, Then(z, <<>>)))
           /\ (<<x>> \o <<y>>) \o <<>> = Then(x, Then(y, <<>>))
<1>1. PICK S : S = Cmds
  OBVIOUS
<1>2. PICK a, b, c : a = <<x>> /\ b = <<y>> /\ c = <<z>>
  OBVIOUS
<1>3. a \in Seq(S) /\ b \in Seq(S) /\ c \in Seq(S)
  BY <1>1, <1>2
<1>4. (a \o b) \o c = a \o (b \o c) /\ a \o <<>> = a /\ b \o <<>> = b /\ c \o <<>> = c
  BY <1>3
<1>5. a \o b \in Seq(S)
  BY <1>3
<1>6. (a \o b) \o <<>> = a \o b
  BY <1>5
<1> QED BY <1>2, <1>4, <1>6 DEF Then

\* The modifiers this engine answers for, the keys its memory names, and what may be
\* pressed now: what the file names, or anything once a write has failed.
Watched == (down \intersect Mods) \ (lost \union muted)
Own == ToSet(held) \union ToSet(stranded)
Safe == IF saveFailed THEN Mods ELSE ToSet(disk)

\* A batch on its way to the OS, and the record that will be written after it: the
\* record names whatever modifier would be down if the batch landed whole.  An engine
\* that takes itself for unable only lets go, and its record names what it lets go of.
SendOK(op, acts, rec, w, able, safe) ==
    /\ acts # <<>>
    /\ able => After(w, acts, Len(acts)) \intersect Mods \subseteq ToSet(rec)
    /\ ~able => w \subseteq ToSet(rec) /\ Pressed(acts) = {}
    /\ Pressed(acts) \intersect Mods \subseteq safe

\* The four shapes of what a handler has left to do.
Resting(j, w, own) == j \in Ends /\ w \subseteq own
Saving(j, w, own) ==
    \E rec \in Seq(Keys), e \in Ends :
        /\ j = Then(SaveCmd(rec), e)
        /\ ToSet(rec) \subseteq own /\ w \subseteq ToSet(rec)
Sending(j, w, own, able, safe) ==
    \E rec \in Seq(Keys), e \in Ends, op \in Ops, acts \in Seq(Acts) :
        /\ j = Then(SendCmd(op, acts), Then(SaveCmd(rec), e))
        /\ ToSet(rec) \subseteq own /\ SendOK(op, acts, rec, w, able, safe)
Striking(j, w, own, able) ==
    \E first \in Seq(Keys), rec \in Seq(Keys), acts \in Seq(Acts) :
        /\ j = Then(SaveCmd(first), Then(SendCmd("inject", acts), Then(SaveCmd(rec), <<>>)))
        /\ ToSet(rec) \subseteq own /\ w \subseteq ToSet(first)
        /\ SendOK("inject", acts, rec, w, able, ToSet(first))

JobOK(j, w, own, able, safe) ==
    \/ Resting(j, w, own) \/ Saving(j, w, own)
    \/ Sending(j, w, own, able, safe) \/ Striking(j, w, own, able)

\* A job's shape is told by its first command.
LEMMA ShapeOf ==
    ASSUME NEW j, NEW w, NEW own, NEW able, NEW safe, JobOK(j, w, own, able, safe)
    PROVE  /\ j = <<>> => Resting(j, w, own)
           /\ j # <<>> /\ Head(j).op = "save" => Saving(j, w, own) \/ Striking(j, w, own, able)
           /\ j # <<>> /\ Head(j).op \in Ops => Sending(j, w, own, able, safe)
           /\ j # <<>> /\ Head(j).op = "exit" => Resting(j, w, own)
<1>1. CASE Resting(j, w, own)
  BY <1>1, EndFacts, CmdFacts DEF Resting
<1>2. CASE Saving(j, w, own)
  <2>1. PICK rec \in Seq(Keys), e \in Ends : j = Then(SaveCmd(rec), e)
    BY <1>2 DEF Saving
  <2>2. SaveCmd(rec) \in Cmds /\ e \in Seq(Cmds) /\ SaveCmd(rec).op = "save"
    BY CmdFacts, EndFacts
  <2>3. j # <<>> /\ Head(j) = SaveCmd(rec)
    BY <2>1, <2>2, ThenFacts
  <2>4. j # <<>> /\ Head(j).op = "save" /\ "save" \notin Ops
    BY <2>2, <2>3, CmdFacts
  <2> QED BY <1>2, <2>4
<1>3. CASE Sending(j, w, own, able, safe)
  <2>1. PICK rec \in Seq(Keys), e \in Ends, op \in Ops, acts \in Seq(Acts) :
            j = Then(SendCmd(op, acts), Then(SaveCmd(rec), e))
    BY <1>3 DEF Sending
  <2>2. SaveCmd(rec) \in Cmds /\ e \in Seq(Cmds) /\ SendCmd(op, acts) \in Cmds
        /\ SendCmd(op, acts).op = op
    BY CmdFacts, EndFacts
  <2>3. Then(SaveCmd(rec), e) \in Seq(Cmds)
    BY <2>2, ThenFacts
  <2>4. j # <<>> /\ Head(j) = SendCmd(op, acts)
    BY <2>1, <2>2, <2>3, ThenFacts
  <2>5. j # <<>> /\ Head(j).op \in Ops /\ Head(j).op # "save" /\ Head(j).op # "exit"
    BY <2>2, <2>4, CmdFacts
  <2> QED BY <1>3, <2>5
<1>4. CASE Striking(j, w, own, able)
  <2>1. PICK first \in Seq(Keys), rec \in Seq(Keys), acts \in Seq(Acts) :
          j = Then(SaveCmd(first), Then(SendCmd("inject", acts), Then(SaveCmd(rec), <<>>)))
    BY <1>4 DEF Striking
  <2>2. "inject" \in Ops
    BY DEF Ops
  <2>3. SaveCmd(rec) \in Cmds /\ <<>> \in Seq(Cmds) /\ SendCmd("inject", acts) \in Cmds
        /\ SaveCmd(first) \in Cmds /\ SaveCmd(first).op = "save"
    BY <2>2, CmdFacts, EndFacts
  <2>4. Then(SaveCmd(rec), <<>>) \in Seq(Cmds)
    BY <2>3, ThenFacts
  <2>5. Then(SendCmd("inject", acts), Then(SaveCmd(rec), <<>>)) \in Seq(Cmds)
    BY <2>3, <2>4, ThenFacts
  <2>6. j # <<>> /\ Head(j) = SaveCmd(first)
    BY <2>1, <2>3, <2>5, ThenFacts
  <2>7. j # <<>> /\ Head(j).op = "save" /\ "save" \notin Ops
    BY <2>3, <2>6, CmdFacts
  <2> QED BY <1>4, <2>7
<1> QED BY <1>1, <1>2, <1>3, <1>4 DEF JobOK

\* held.json carries the modifiers alone (to_value).
LEMMA ToValueFacts ==
    ASSUME NEW h \in Seq(Keys)
    PROVE  ToValue(h) \in Seq(Keys) /\ ToSet(ToValue(h)) = ToSet(h) \intersect Mods
BY AmongFacts DEF ToValue

\* Letting go of everything in h presses nothing, and nothing of h is down after it.
LEMMA ReleaseAllFacts ==
    ASSUME NEW h \in Seq(Keys), h # <<>>
    PROVE  LET acts == Ups(ReleasePlan(h))
           IN  /\ acts \in Seq(Acts) /\ acts # <<>> /\ Pressed(acts) = {}
               /\ \A w : After(w, acts, Len(acts)) \subseteq w \ ToSet(h)
<1> DEFINE ks == Reverse(h)
<1>1. ks \in Seq(Keys) /\ Len(ks) = Len(h) /\ ToSet(ks) = ToSet(h)
  BY ReverseFacts
<1>2. Len(h) > 0 /\ Len(h) \in Nat
  OBVIOUS
<1> HIDE DEF ks
<1>3. PICK a : a = Ups(ks)
  OBVIOUS
<1>4. /\ a \in Seq(Acts) /\ Len(a) = Len(ks) /\ DOMAIN a = 1 .. Len(ks)
      /\ \A i \in 1 .. Len(ks) : a[i] = Up(ks[i])
  BY <1>1, <1>3, UpsFacts
<1>5. a # <<>>
  BY <1>1, <1>2, <1>4
<1>6. \A k, x : Up(k).down = FALSE /\ Up(k) # Down(x)
  BY DEF Up, Down
<1>7. \A i \in 1 .. Len(ks) : ~a[i].down
  BY <1>4, <1>6
<1>8. Pressed(a) = {}
  BY <1>4, <1>7 DEF Pressed
<1>9. ASSUME NEW w PROVE After(w, a, Len(a)) \subseteq w \ ToSet(h)
  <2> SUFFICES ASSUME NEW k \in After(w, a, Len(a)) PROVE k \in w \ ToSet(h)
    OBVIOUS
  <2>1. Len(a) \in 0 .. Len(a)
    BY <1>4
  <2>2. DownAt(w, a, Len(a), k)
    BY <1>4, <2>1, AfterIn
  <2>3. \A i \in 1 .. Len(ks) : a[i] # Down(k)
    BY <1>4, <1>6
  <2>4. k \in w
    BY <1>4, <2>2, <2>3 DEF DownAt
  <2>5. \A i \in 1 .. Len(ks) : a[i] # Up(k)
    <3> SUFFICES ASSUME NEW i \in 1 .. Len(ks), a[i] = Up(k) PROVE FALSE
      OBVIOUS
    <3>1. PICK n \in i + 1 .. Len(a) : a[n] = Down(k)
      BY <1>4, <2>2 DEF DownAt
    <3>2. n \in 1 .. Len(ks)
      BY <1>1, <1>2, <1>4
    <3> QED BY <2>3, <3>1, <3>2
  <2>6. k \notin ToSet(ks)
    <3>1. DOMAIN ks = 1 .. Len(ks)
      BY <1>1
    <3> QED BY <1>4, <2>5, <3>1 DEF ToSet
  <2> QED BY <1>1, <2>4, <2>6
<1> QED BY <1>3, <1>4, <1>5, <1>8, <1>9 DEF ReleasePlan, ks

\* A release and the record after it, when the record names what is left.
LEMMA LetGoJob ==
    ASSUME NEW h \in Seq(Keys), h # <<>>, NEW left \in Seq(Keys), NEW own, NEW w, w \subseteq Mods,
           NEW able \in BOOLEAN, NEW safe, ToSet(left) \subseteq own,
           able => w \ ToSet(h) \subseteq ToSet(left),
           ~able => w \subseteq ToSet(left)
    PROVE  LET j == ReleaseAll(h) \o Save(left)
           IN  /\ JobOK(j, w, own, able, safe)
               /\ JobOK(j \o Exit, w, own, able, safe)
               /\ j \o <<>> = j /\ <<>> \o j = j
<1> DEFINE acts == Ups(ReleasePlan(h))
           rec == ToValue(left)
           j == ReleaseAll(h) \o Save(left)
<1>1. acts \in Seq(Acts) /\ acts # <<>> /\ Pressed(acts) = {}
      /\ After(w, acts, Len(acts)) \subseteq w \ ToSet(h)
  BY ReleaseAllFacts
<1>2. rec \in Seq(Keys) /\ ToSet(rec) = ToSet(left) \intersect Mods
  BY ToValueFacts
<1>3. ReleaseAll(h) = <<SendCmd("release", acts)>> /\ Save(left) = <<SaveCmd(rec)>>
      /\ Exit = <<ExitCmd>>
  BY DEF ReleaseAll, Save, SendCmd, SaveCmd, Exit, ExitCmd
<1> HIDE DEF acts, rec
<1>4. "release" \in Ops
  BY DEF Ops
<1>5. SendCmd("release", acts) \in Cmds /\ SaveCmd(rec) \in Cmds /\ ExitCmd \in Cmds
  BY <1>1, <1>2, <1>4, CmdFacts
<1>6. /\ j = Then(SendCmd("release", acts), Then(SaveCmd(rec), <<>>))
      /\ j \o Exit = Then(SendCmd("release", acts), Then(SaveCmd(rec), Then(ExitCmd, <<>>)))
      /\ j \o <<>> = j
  <2>1. PICK x, y, z : x = SendCmd("release", acts) /\ y = SaveCmd(rec) /\ z = ExitCmd
    OBVIOUS
  <2>2. x \in Cmds /\ y \in Cmds /\ z \in Cmds
    BY <1>5, <2>1
  <2>3. j = <<x>> \o <<y>> /\ Exit = <<z>>
    BY <1>3, <2>1
  <2> HIDE DEF j
  <2>4. /\ <<x>> \o <<y>> = Then(x, Then(y, <<>>))
        /\ (<<x>> \o <<y>>) \o <<z>> = Then(x, Then(y, Then(z, <<>>)))
        /\ (<<x>> \o <<y>>) \o <<>> = Then(x, Then(y, <<>>))
    BY <2>2, ThenJoin
  <2>5. /\ j = Then(x, Then(y, <<>>)) /\ j \o <<>> = j
        /\ j \o Exit = Then(x, Then(y, Then(z, <<>>)))
    BY <2>3, <2>4, Zenon
  <2> QED BY <2>1, <2>5, Zenon
<1>7. <<>> \o j = j
  <2>1. j \in Seq(Cmds)
    BY <1>5, <1>6, EndFacts, ThenFacts
  <2> HIDE DEF j
  <2> QED BY <2>1
<1>8. SendOK("release", acts, rec, w, able, safe)
  BY <1>1, <1>2 DEF SendOK
<1>9. <<>> \in Ends /\ Then(ExitCmd, <<>>) \in Ends
  BY DEF Ends
<1>10. ToSet(rec) \subseteq own
  BY <1>2
<1> HIDE DEF j
<1>11. Sending(j, w, own, able, safe)
  BY <1>1, <1>2, <1>4, <1>6, <1>8, <1>9, <1>10 DEF Sending
<1>12. Sending(j \o Exit, w, own, able, safe)
  BY <1>1, <1>2, <1>4, <1>6, <1>8, <1>9, <1>10 DEF Sending
<1> QED BY <1>6, <1>7, <1>11, <1>12 DEF JobOK, j

\* The end of apply_key: the peak, the batch, the set the batch ends with.
LEMMA StrikeJob ==
    ASSUME NEW h \in Seq(Keys), NEW strand \in Seq(Keys), NEW plan, FinalOK(plan, h),
           NEW w, w \subseteq Mods, w \subseteq ToSet(h) \union ToSet(strand), NEW safe
    PROVE  JobOK(KeyJob(plan, strand), w, ToSet(plan.held) \union ToSet(strand), TRUE, safe)
<1> DEFINE mine == ToSet(h) \intersect Mods
           own == ToSet(plan.held) \union ToSet(strand)
<1>1. PICK acts \in Seq(Acts) : acts = plan.acts
  BY DEF FinalOK
<1>2. After(w, acts, Len(acts)) \intersect Mods \subseteq own
  <2>1. w \subseteq mine \union ToSet(strand)
    OBVIOUS
  <2>2. After(w, acts, Len(acts)) \subseteq After(mine, acts, Len(acts)) \union ToSet(strand)
    <3> HIDE DEF mine
    <3> QED BY <2>1, AfterGrows
  <2>3. After(mine, acts, Len(acts)) \intersect Mods \subseteq ToSet(plan.held)
    BY <1>1 DEF FinalOK
  <2> HIDE DEF mine
  <2> QED BY <2>2, <2>3
<1>3. CASE acts = <<>>
  <2>1. After(w, <<>>, 0) = w /\ Len(<<>>) = 0
    BY DEF After
  <2>2. w \subseteq own
    BY <1>2, <1>3, <2>1
  <2>3. KeyJob(plan, strand) = <<>>
    BY <1>1, <1>3 DEF KeyJob
  <2> QED BY <2>2, <2>3, EndFacts DEF JobOK, Resting
<1>4. CASE acts # <<>>
  <2> DEFINE first == ToValue(Absorb(plan.peak, strand))
             rec == ToValue(Absorb(plan.held, strand))
  <2>1. plan.held \in Seq(Keys) /\ plan.peak \in Seq(Keys)
    BY DEF FinalOK
  <2>2. /\ Absorb(plan.peak, strand) \in Seq(Keys) /\ Absorb(plan.held, strand) \in Seq(Keys)
        /\ ToSet(Absorb(plan.peak, strand)) = ToSet(plan.peak) \union ToSet(strand)
        /\ ToSet(Absorb(plan.held, strand)) = own
    BY <2>1, AbsorbFacts
  <2>3. /\ first \in Seq(Keys) /\ rec \in Seq(Keys)
        /\ ToSet(first) = (ToSet(plan.peak) \union ToSet(strand)) \intersect Mods
        /\ ToSet(rec) = own \intersect Mods
    BY <2>2, ToValueFacts
  <2>4. KeyJob(plan, strand) = (<<SaveCmd(first)>> \o <<SendCmd("inject", acts)>>) \o <<SaveCmd(rec)>>
    BY <1>1, <1>4 DEF KeyJob, Save, Inject, SaveCmd, SendCmd
  <2> HIDE DEF first, rec, own
  <2>5. "inject" \in Ops
    BY DEF Ops
  <2>6. SaveCmd(first) \in Cmds /\ SendCmd("inject", acts) \in Cmds /\ SaveCmd(rec) \in Cmds
    BY <2>3, <2>5, CmdFacts
  <2>7. KeyJob(plan, strand)
          = Then(SaveCmd(first), Then(SendCmd("inject", acts), Then(SaveCmd(rec), <<>>)))
    <3>1. PICK x, y, z : x = SaveCmd(first) /\ y = SendCmd("inject", acts) /\ z = SaveCmd(rec)
      OBVIOUS
    <3>2. x \in Cmds /\ y \in Cmds /\ z \in Cmds
      BY <2>6, <3>1
    <3>3. KeyJob(plan, strand) = (<<x>> \o <<y>>) \o <<z>>
      BY <2>4, <3>1, Zenon
    <3>4. (<<x>> \o <<y>>) \o <<z>> = Then(x, Then(y, Then(z, <<>>)))
      BY <3>2, ThenJoin
    <3> QED BY <3>1, <3>3, <3>4, Zenon
  <2>8. w \subseteq ToSet(first)
    BY <2>3 DEF FinalOK
  <2>9. SendOK("inject", acts, rec, w, TRUE, ToSet(first))
    <3>1. Pressed(acts) \intersect Mods \subseteq ToSet(first)
      BY <1>1, <2>3 DEF FinalOK
    <3>2. After(w, acts, Len(acts)) \intersect Mods \subseteq ToSet(rec)
      BY <1>2, <2>3
    <3> QED BY <1>4, <3>1, <3>2 DEF SendOK
  <2>10. ToSet(rec) \subseteq own
    BY <2>3
  <2>11. Striking(KeyJob(plan, strand), w, own, TRUE)
    BY <2>3, <2>7, <2>8, <2>9, <2>10 DEF Striking
  <2> QED BY <2>11 DEF JobOK, own
<1> QED BY <1>3, <1>4

\* release_held: whether the release lands or not, the record after it and the memory name
\* what is left, and so they do when the process then ends.
LEMMA ReleaseHeldJob ==
    ASSUME NEW h \in Seq(Keys), NEW strand \in Seq(Keys), NEW able \in BOOLEAN,
           NEW w, w \subseteq Mods, w \subseteq ToSet(h) \union ToSet(strand), NEW safe
    PROVE  LET r == ReleaseHeld(h, strand, able)
               own == ToSet(r.held) \union ToSet(r.stranded)
           IN  /\ r.stranded \in Seq(Keys)
               /\ JobOK(r.job, w, own, able, safe) /\ JobOK(r.job \o Exit, w, own, able, safe)
               /\ <<>> \o r.job = r.job
<1> DEFINE r == ReleaseHeld(h, strand, able)
           own == ToSet(r.held) \union ToSet(r.stranded)
           left == IF able THEN strand ELSE Absorb(strand, h)
<1>1. CASE h = <<>>
  <2>1. r.held = h /\ r.stranded = strand /\ r.job = <<>>
    BY <1>1 DEF ReleaseHeld
  <2>2. <<>> \o Exit = Exit /\ <<>> \o <<>> = <<>>
    BY DEF Exit
  <2> HIDE DEF r
  <2>3. w \subseteq own
    BY <2>1
  <2> HIDE DEF own
  <2> QED BY <2>1, <2>2, <2>3, EndFacts DEF JobOK, Resting, r, own
<1>2. CASE h # <<>>
  <2>1. /\ Absorb(strand, h) \in Seq(Keys)
        /\ ToSet(Absorb(strand, h)) = ToSet(strand) \union ToSet(h)
    BY AbsorbFacts
  <2>2. /\ left \in Seq(Keys)
        /\ able => w \ ToSet(h) \subseteq ToSet(left)
        /\ ~able => w \subseteq ToSet(left)
    BY <2>1
  <2>3. r.held = <<>> /\ r.stranded = left /\ r.job = ReleaseAll(h) \o Save(left)
    BY <1>2 DEF ReleaseHeld
  <2> HIDE DEF r, left
  <2>4. own = ToSet(left)
    BY <2>3, EmptyFacts
  <2> HIDE DEF own
  <2>5. ToSet(left) \subseteq own
    BY <2>4
  <2>6. PICK j : j = ReleaseAll(h) \o Save(left)
    OBVIOUS
  <2>7. /\ JobOK(j, w, own, able, safe) /\ JobOK(j \o Exit, w, own, able, safe)
        /\ <<>> \o j = j
    BY <1>2, <2>2, <2>5, <2>6, LetGoJob
  <2> QED BY <2>2, <2>3, <2>6, <2>7 DEF r, own
<1> QED BY <1>1, <1>2

\* drain_stranded: the record is released when the machine can type, and kept otherwise.
LEMMA DrainJob ==
    ASSUME NEW h \in Seq(Keys), NEW strand \in Seq(Keys), NEW able \in BOOLEAN,
           NEW w, w \subseteq Mods, w \subseteq ToSet(h) \union ToSet(strand), NEW safe
    PROVE  LET d == DrainStranded(h, strand, able)
               own == ToSet(h) \union ToSet(d.stranded)
           IN  /\ d.stranded \in Seq(Keys)
               /\ JobOK(d.job, w, own, able, safe) /\ d.job \o <<>> = d.job
<1> DEFINE d == DrainStranded(h, strand, able)
           own == ToSet(h) \union ToSet(d.stranded)
<1>1. CASE strand = <<>> \/ ~able
  <2>1. d.stranded = strand /\ d.job = <<>>
    BY <1>1 DEF DrainStranded
  <2>2. <<>> \o <<>> = <<>>
    OBVIOUS
  <2> HIDE DEF d
  <2>3. w \subseteq own
    BY <2>1
  <2> HIDE DEF own
  <2> QED BY <2>1, <2>2, <2>3, EndFacts DEF JobOK, Resting, d, own
<1>2. CASE strand # <<>> /\ able
  <2>1. d.stranded = <<>> /\ d.job = ReleaseAll(strand) \o Save(h)
    BY <1>2 DEF DrainStranded
  <2> HIDE DEF d
  <2>2. own = ToSet(h) /\ <<>> \in Seq(Keys)
    BY <2>1, EmptyFacts
  <2> HIDE DEF own
  <2>3. PICK j : j = ReleaseAll(strand) \o Save(h)
    OBVIOUS
  <2>4. ToSet(h) \subseteq own /\ w \ ToSet(strand) \subseteq ToSet(h)
    BY <2>2
  <2>5. JobOK(j, w, own, able, safe) /\ j \o <<>> = j
    BY <1>2, <2>3, <2>4, LetGoJob
  <2> QED BY <1>2, <2>1, <2>2, <2>3, <2>5 DEF d, own
<1> QED BY <1>1, <1>2

\* Engine::open: the record found is released, or kept until it can be.
LEMMA OpenJob ==
    ASSUME NEW found \in Seq(Keys), NEW able \in BOOLEAN,
           NEW w, w \subseteq Mods, w \subseteq ToSet(found), NEW safe
    PROVE  LET o == OpenGuard(found, able)
           IN  /\ o.stranded \in Seq(Keys)
               /\ JobOK(o.job, w, ToSet(<<>>) \union ToSet(o.stranded), able, safe)
<1> DEFINE o == OpenGuard(found, able)
           own == ToSet(<<>>) \union ToSet(o.stranded)
<1>1. CASE found # <<>> /\ able
  <2>1. o.stranded = <<>> /\ o.job = ReleaseAll(found) \o Save(<<>>)
    BY <1>1 DEF OpenGuard
  <2> HIDE DEF o
  <2>2. own = ToSet(<<>>) /\ <<>> \in Seq(Keys) /\ ToSet(<<>>) = {}
    BY <2>1, EmptyFacts
  <2> HIDE DEF own
  <2>3. PICK j : j = ReleaseAll(found) \o Save(<<>>)
    OBVIOUS
  <2>4. ToSet(<<>>) \subseteq own /\ w \ ToSet(found) \subseteq ToSet(<<>>)
    BY <2>2
  <2>5. JobOK(j, w, own, able, safe)
    BY <1>1, <2>2, <2>3, <2>4, LetGoJob
  <2> QED BY <2>1, <2>2, <2>3, <2>5 DEF o, own
<1>2. CASE ~(found # <<>> /\ able)
  <2>1. o.stranded = found /\ o.job = <<>>
    BY <1>2 DEF OpenGuard
  <2> HIDE DEF o
  <2>2. w \subseteq own
    BY <2>1
  <2> HIDE DEF own
  <2> QED BY <2>1, <2>2, EndFacts DEF JobOK, Resting, o, own
<1> QED BY <1>1, <1>2

-----------------------------------------------------------------------------
(* The inductive invariant of the crash guard.                              *)

GuardTypes ==
    /\ HeldOK /\ stranded \in Seq(Keys) /\ disk \in Seq(Keys)
    /\ alive \in BOOLEAN /\ grant \in BOOLEAN /\ caps \in BOOLEAN /\ saveFailed \in BOOLEAN
    /\ budget \in [crashes : Int, saves : Int, turns : Int]

\* A process that runs knows what the file holds, and is somewhere in a handler.
RunOK ==
    /\ alive => onDisk = disk /\ JobOK(job, Watched, Own, caps, Safe)
    /\ ~alive => job = <<>> /\ ~saveFailed

\* A write that failed has been paid for.
SavesOK == budget.saves <= MaxSaveFails /\ (saveFailed => budget.saves < MaxSaveFails)

GuardInv == GuardTypes /\ RunOK /\ SavesOK /\ Guarded

\* A handler that touches neither the file nor the keyboard: only its job is in question.
LEMMA HandlerKeeps ==
    ASSUME GuardInv, [Next]_vars, alive,
           UNCHANGED <<alive, onDisk, disk, down, grant, saveFailed, lost, muted>>,
           caps' \in BOOLEAN,
           budget' = budget \/ \E n \in Int : budget' = [budget EXCEPT !.crashes = n],
           stranded' \in Seq(Keys),
           JobOK(job', Watched, Own', caps', Safe)
    PROVE  GuardInv'
<1>1. HeldOK'
  BY HeldStep DEF GuardInv, GuardTypes
<1>2. budget' \in [crashes : Int, saves : Int, turns : Int]
      /\ budget'.saves = budget.saves
  BY DEF GuardInv, GuardTypes
<1>3. GuardTypes'
  BY <1>1, <1>2 DEF GuardInv, GuardTypes
<1>4. Watched' = Watched /\ Safe' = Safe
  BY DEF Watched, Safe
<1>5. RunOK'
  BY <1>4 DEF GuardInv, RunOK
<1>6. SavesOK' /\ Guarded'
  BY <1>2 DEF GuardInv, SavesOK, Guarded
<1> QED BY <1>3, <1>5, <1>6 DEF GuardInv

\* What a handler starts from: nothing left to do, and every modifier that is watched is
\* in its memory.
LEMMA ReadyFacts ==
    ASSUME GuardInv, Ready
    PROVE  /\ Watched \subseteq Own /\ Watched \subseteq Mods
           /\ held \in Seq(Keys) /\ IsInjective(held) /\ stranded \in Seq(Keys) /\ grant \in BOOLEAN
           /\ caps \in BOOLEAN
<1>1. alive /\ job = <<>> /\ JobOK(job, Watched, Own, caps, Safe)
  BY DEF GuardInv, RunOK, Ready
<1>2. Resting(job, Watched, Own)
  BY <1>1, ShapeOf
<1> QED BY <1>2 DEF Resting, Watched, GuardInv, GuardTypes, HeldOK

LEMMA ReleasesGuard ==
    ASSUME GuardInv, [Next]_vars, OnStart \/ OnReleaseAll \/ EndDriven \/ Shutdown
    PROVE  GuardInv'
<1> DEFINE r == ReleaseHeld(held, stranded, caps)
<1>1. /\ Ready /\ held' = r.held /\ stranded' = r.stranded
      /\ job' = r.job \/ job' = r.job \o Exit
      /\ UNCHANGED <<alive, onDisk, caps, disk, down, grant, saveFailed, lost, muted>>
  BY DEF OnStart, OnReleaseAll, EndDriven, Shutdown
<1>2. budget' = budget \/ \E n \in Int : budget' = [budget EXCEPT !.crashes = n]
  <2>1. CASE Shutdown
    <3>1. budget' = [budget EXCEPT !.crashes = budget.crashes - 1]
      BY <2>1 DEF Shutdown
    <3>2. budget.crashes - 1 \in Int
      BY DEF GuardInv, GuardTypes
    <3> QED BY <3>1, <3>2
  <2>2. CASE OnStart \/ OnReleaseAll \/ EndDriven
    BY <2>2 DEF OnStart, OnReleaseAll, EndDriven
  <2> QED BY <2>1, <2>2
<1>3. /\ Watched \subseteq Mods /\ Watched \subseteq ToSet(held) \union ToSet(stranded)
      /\ held \in Seq(Keys) /\ stranded \in Seq(Keys) /\ caps \in BOOLEAN
  BY <1>1, ReadyFacts DEF Own
<1>4. PICK w, safe : w = Watched /\ safe = Safe
  OBVIOUS
<1>5. /\ r.stranded \in Seq(Keys)
      /\ JobOK(r.job, w, ToSet(r.held) \union ToSet(r.stranded), caps, safe)
      /\ JobOK(r.job \o Exit, w, ToSet(r.held) \union ToSet(r.stranded), caps, safe)
  <2>1. w \subseteq Mods /\ w \subseteq ToSet(held) \union ToSet(stranded)
    BY <1>3, <1>4
  <2> QED BY <1>3, <2>1, ReleaseHeldJob
<1> HIDE DEF r
<1>6. Own' = ToSet(r.held) \union ToSet(r.stranded)
  BY <1>1 DEF Own
<1>7. JobOK(job', Watched, Own', caps', Safe)
  BY <1>1, <1>4, <1>5, <1>6
<1>8. alive
  BY <1>1 DEF Ready
<1> QED BY <1>1, <1>2, <1>3, <1>5, <1>7, <1>8, HandlerKeeps

LEMMA ApplyKeyGuard ==
    ASSUME GuardInv, [Next]_vars, ApplyKey
    PROVE  GuardInv'
<1>1. /\ Ready /\ caps = TRUE /\ caps' = TRUE /\ stranded' = stranded /\ budget' = budget
      /\ UNCHANGED <<alive, onDisk, disk, down, grant, saveFailed, lost, muted>>
  <2>1. Ready /\ caps /\ UNCHANGED <<stranded, budget, alive, onDisk, caps, disk, down,
           grant, saveFailed, lost, muted>>
    BY DEF ApplyKey
  <2> QED BY <2>1, ReadyFacts
<1>2. PICK plan \in Plans(held) : /\ plan # <<>> /\ held' = plan[1].held
                                  /\ job' = KeyJob(plan[1], stranded)
  BY DEF ApplyKey
<1>3. /\ Watched \subseteq Mods /\ Watched \subseteq ToSet(held) \union ToSet(stranded)
      /\ held \in Seq(Keys) /\ IsInjective(held) /\ stranded \in Seq(Keys)
  BY <1>1, ReadyFacts DEF Own
<1>4. FinalOK(plan[1], held)
  BY <1>2, <1>3, PlansOK
<1>5. PICK w, safe : w = Watched /\ safe = Safe
  OBVIOUS
<1>6. JobOK(KeyJob(plan[1], stranded), w, ToSet(plan[1].held) \union ToSet(stranded), TRUE, safe)
  <2>1. w \subseteq Mods /\ w \subseteq ToSet(held) \union ToSet(stranded)
    BY <1>3, <1>5
  <2> QED BY <1>3, <1>4, <2>1, StrikeJob
<1>7. Own' = ToSet(plan[1].held) \union ToSet(stranded)
  BY <1>1, <1>2 DEF Own
<1>8. JobOK(job', Watched, Own', caps', Safe)
  BY <1>1, <1>2, <1>5, <1>6, <1>7
<1>9. alive /\ stranded' \in Seq(Keys)
  BY <1>1, <1>3 DEF Ready
<1> QED BY <1>1, <1>8, <1>9, HandlerKeeps

\* Every re-read of the capabilities, and the end of the session it may bring.
LEMMA CapsGuard ==
    ASSUME GuardInv, [Next]_vars, CapabilitiesChanged \/ RefreshCaps
    PROVE  GuardInv'
<1> DEFINE d == DrainStranded(held, stranded, grant)
           r == ReleaseHeld(held, stranded, grant)
<1>1. /\ Ready /\ budget' = budget /\ caps' = grant
      /\ UNCHANGED <<alive, onDisk, disk, down, grant, saveFailed, lost, muted>>
  BY DEF CapabilitiesChanged, RefreshCaps
<1>2. /\ Watched \subseteq Mods /\ Watched \subseteq ToSet(held) \union ToSet(stranded)
      /\ held \in Seq(Keys) /\ stranded \in Seq(Keys) /\ grant \in BOOLEAN
  BY <1>1, ReadyFacts DEF Own
<1>3. PICK w, safe : w = Watched /\ safe = Safe
  OBVIOUS
<1>4. w \subseteq Mods /\ w \subseteq ToSet(held) \union ToSet(stranded)
  BY <1>2, <1>3
<1>5. /\ d.stranded \in Seq(Keys)
      /\ JobOK(d.job, w, ToSet(held) \union ToSet(d.stranded), grant, safe)
      /\ d.job \o <<>> = d.job
      /\ ~grant => d.stranded = stranded /\ d.job = <<>>
  <2>1. d.stranded \in Seq(Keys) /\ d.job \o <<>> = d.job
    BY <1>2, <1>4, DrainJob
  <2>2. JobOK(d.job, w, ToSet(held) \union ToSet(d.stranded), grant, safe)
    BY <1>2, <1>4, DrainJob
  <2>3. ~grant => d.stranded = stranded /\ d.job = <<>>
    BY DEF DrainStranded
  <2> QED BY <2>1, <2>2, <2>3
<1>6. /\ r.stranded \in Seq(Keys)
      /\ JobOK(r.job, w, ToSet(r.held) \union ToSet(r.stranded), grant, safe)
      /\ <<>> \o r.job = r.job
  BY <1>2, <1>4, ReleaseHeldJob
<1>7. \/ held' = held /\ stranded' = d.stranded /\ job' = d.job
      \/ held' = r.held /\ stranded' = r.stranded /\ job' = r.job
  <2>1. CASE RefreshCaps
    BY <2>1 DEF RefreshCaps
  <2>2. CASE CapabilitiesChanged /\ ~(driven /\ ~grant)
    <3>1. held' = held /\ stranded' = d.stranded /\ job' = d.job \o <<>>
      BY <2>2 DEF CapabilitiesChanged
    <3> QED BY <1>5, <3>1
  <2>3. CASE CapabilitiesChanged /\ driven /\ ~grant
    <3> DEFINE q == ReleaseHeld(held, d.stranded, grant)
    <3>1. held' = q.held /\ stranded' = q.stranded /\ job' = d.job \o q.job
      BY <2>3 DEF CapabilitiesChanged
    <3>2. d.stranded = stranded /\ d.job = <<>>
      BY <1>5, <2>3
    <3>3. q = r
      BY <3>2
    <3> HIDE DEF q, r, d
    <3> QED BY <1>6, <3>1, <3>2, <3>3
  <2> QED BY <2>1, <2>2, <2>3
<1> HIDE DEF d, r
<1>8. stranded' \in Seq(Keys) /\ JobOK(job', w, Own', grant, safe)
  BY <1>5, <1>6, <1>7 DEF Own
<1>9. alive
  BY <1>1 DEF Ready
<1> QED BY <1>1, <1>2, <1>3, <1>8, <1>9, HandlerKeeps

\* The operating system turns something, at any point of a handler: what an engine has
\* left to do is in order for what it takes itself for, not for what it has.
LEMMA TurnsGuard ==
    ASSUME GuardInv, [Next]_vars, GrantTurns \/ SilenceTurns
    PROVE  GuardInv'
<1>1. /\ grant' \in BOOLEAN
      /\ UNCHANGED <<alive, held, stranded, onDisk, caps, job, disk, down, saveFailed, lost, muted>>
  BY DEF GrantTurns, SilenceTurns, GuardInv, GuardTypes
<1>2. budget' \in [crashes : Int, saves : Int, turns : Int] /\ budget'.saves = budget.saves
  <2>1. CASE UNCHANGED budget
    BY <2>1 DEF GuardInv, GuardTypes
  <2>2. CASE budget' = [budget EXCEPT !.turns = @ - 1]
    BY <2>2 DEF GuardInv, GuardTypes
  <2> QED BY <2>1, <2>2 DEF GrantTurns, SilenceTurns
<1>3. HeldOK' /\ GuardTypes'
  BY <1>1, <1>2 DEF GuardInv, GuardTypes, HeldOK
<1>4. Watched' = Watched /\ Own' = Own /\ Safe' = Safe
  BY <1>1 DEF Watched, Own, Safe
<1>5. RunOK'
  BY <1>1, <1>4 DEF GuardInv, RunOK
<1>6. SavesOK' /\ Guarded'
  BY <1>1, <1>2 DEF GuardInv, SavesOK, Guarded
<1> QED BY <1>3, <1>5, <1>6 DEF GuardInv

\* The process dies, or ends: what is down and not on file is what it could not guard.
LEMMA DeathGuard ==
    ASSUME GuardInv, [Next]_vars, Crash \/ StepExit
    PROVE  GuardInv'
<1>1. /\ alive' = FALSE /\ stranded' = <<>> /\ job' = <<>> /\ saveFailed' = FALSE
      /\ lost' = lost \union (down \ ToSet(disk))
      /\ UNCHANGED <<caps, disk, down, grant, muted>>
  BY DEF Crash, StepExit
<1>2. budget' \in [crashes : Int, saves : Int, turns : Int]
      /\ budget'.saves = budget.saves
  <2>1. CASE Crash
    BY <2>1 DEF Crash, GuardInv, GuardTypes
  <2>2. CASE StepExit
    BY <2>2 DEF StepExit, GuardInv, GuardTypes
  <2> QED BY <2>1, <2>2
<1>3. HeldOK' /\ <<>> \in Seq(Keys)
  BY HeldStep, EmptyFacts DEF GuardInv, GuardTypes
<1>4. GuardTypes' /\ RunOK'
  BY <1>1, <1>2, <1>3 DEF GuardInv, GuardTypes, RunOK
<1>5. SavesOK'
  BY <1>1, <1>2 DEF GuardInv, SavesOK
<1>6. Guarded'
  <2>1. (down' \intersect Mods) \ (lost' \union muted') \subseteq ToSet(disk')
    BY <1>1
  <2>2. ASSUME budget'.saves = MaxSaveFails PROVE lost' \intersect Mods \subseteq muted'
    <3>1. budget.saves = MaxSaveFails
      BY <1>2, <2>2
    <3>2. ~(budget.saves < MaxSaveFails)
      BY <3>1, KeysAssumption
    <3>3. ~saveFailed
      BY <3>2 DEF GuardInv, SavesOK
    <3>4. lost \intersect Mods \subseteq muted
      BY <3>1 DEF GuardInv, Guarded
    <3>5. (down \intersect Mods) \ (lost \union muted) \subseteq ToSet(disk)
      BY <3>3 DEF GuardInv, Guarded
    <3> QED BY <1>1, <3>4, <3>5
  <2> QED BY <2>1, <2>2 DEF Guarded
<1> QED BY <1>4, <1>5, <1>6 DEF GuardInv

\* The next process reads the file: it names every modifier that is watched.
LEMMA OpenGuardKeeps ==
    ASSUME GuardInv, [Next]_vars, Open
    PROVE  GuardInv'
<1> DEFINE o == OpenGuard(disk, grant)
<1>1. /\ ~alive /\ alive' = TRUE /\ held' = <<>> /\ stranded' = o.stranded
      /\ onDisk' = disk /\ job' = o.job /\ caps' = grant
      /\ UNCHANGED <<disk, down, grant, saveFailed, lost, budget, muted>>
  BY DEF Open
<1>2. ~saveFailed /\ disk \in Seq(Keys) /\ grant \in BOOLEAN
  BY <1>1 DEF GuardInv, RunOK, GuardTypes
<1>3. Watched \subseteq Mods /\ Watched \subseteq ToSet(disk)
  BY <1>2 DEF GuardInv, Guarded, Watched
<1>4. PICK w, safe : w = Watched /\ safe = Safe
  OBVIOUS
<1>5. /\ o.stranded \in Seq(Keys)
      /\ JobOK(o.job, w, ToSet(<<>>) \union ToSet(o.stranded), grant, safe)
  BY <1>2, <1>3, <1>4, OpenJob
<1> HIDE DEF o
<1>6. /\ Watched' = Watched /\ Safe' = Safe /\ grant' = grant
      /\ Own' = ToSet(<<>>) \union ToSet(o.stranded)
  BY <1>1 DEF Watched, Safe, Own
<1>7. RunOK'
  BY <1>1, <1>4, <1>5, <1>6 DEF RunOK
<1>8. HeldOK'
  BY HeldStep DEF GuardInv, GuardTypes
<1>9. GuardTypes'
  BY <1>1, <1>2, <1>5, <1>8 DEF GuardInv, GuardTypes
<1>10. SavesOK' /\ Guarded'
  BY <1>1 DEF GuardInv, SavesOK, Guarded
<1> QED BY <1>7, <1>9, <1>10 DEF GuardInv

\* write_held: the record is on file after it, or the failure is on the books.
LEMMA SaveGuard ==
    ASSUME GuardInv, [Next]_vars, StepSave
    PROVE  GuardInv'
<1>1. /\ alive /\ job # <<>> /\ Head(job).op = "save" /\ job' = Tail(job)
      /\ UNCHANGED <<alive, held, stranded, down, caps, grant, lost, muted>>
  BY DEF StepSave, Step
<1>2. PICK w, own, safe : w = Watched /\ own = Own /\ safe = Safe
  OBVIOUS
<1>3. onDisk = disk /\ JobOK(job, w, own, caps, safe)
  BY <1>1, <1>2 DEF GuardInv, RunOK
<1>4. Watched' = w /\ Own' = own /\ caps' = caps
  BY <1>1, <1>2 DEF Watched, Own
<1>5. Saving(job, w, own) \/ Striking(job, w, own, caps)
  BY <1>1, <1>3, ShapeOf
\* The record written covers what is watched, and what is left of the job is in order
\* if the file holds it or the write has failed.
<1>6. PICK rec \in Seq(Keys) :
        /\ Head(job) = SaveCmd(rec) /\ w \subseteq ToSet(rec)
        /\ \A s : ToSet(rec) \intersect Mods \subseteq s => JobOK(Tail(job), w, own, caps, s)
  <2>1. CASE Saving(job, w, own)
    <3>1. PICK rec \in Seq(Keys), e \in Ends :
            job = Then(SaveCmd(rec), e) /\ ToSet(rec) \subseteq own /\ w \subseteq ToSet(rec)
      BY <2>1 DEF Saving
    <3>2. Head(job) = SaveCmd(rec) /\ Tail(job) = e
      BY <3>1, CmdFacts, EndFacts, ThenFacts
    <3>3. \A s : JobOK(Tail(job), w, own, caps, s)
      BY <3>1, <3>2 DEF JobOK, Resting
    <3> QED BY <3>1, <3>2, <3>3
  <2>2. CASE Striking(job, w, own, caps)
    <3>1. PICK first \in Seq(Keys), rec \in Seq(Keys), acts \in Seq(Acts) :
            /\ job = Then(SaveCmd(first), Then(SendCmd("inject", acts), Then(SaveCmd(rec), <<>>)))
            /\ ToSet(rec) \subseteq own /\ w \subseteq ToSet(first)
            /\ SendOK("inject", acts, rec, w, caps, ToSet(first))
      BY <2>2 DEF Striking
    <3> DEFINE last == Then(SaveCmd(rec), <<>>)
               rest == Then(SendCmd("inject", acts), last)
    <3>2. "inject" \in Ops /\ <<>> \in Ends /\ <<>> \in Seq(Cmds)
      BY EndFacts DEF Ops
    <3>3. SaveCmd(rec) \in Cmds /\ SaveCmd(first) \in Cmds /\ SendCmd("inject", acts) \in Cmds
      BY <3>2, CmdFacts
    <3>4. last \in Seq(Cmds)
      BY <3>2, <3>3, ThenFacts
    <3> HIDE DEF last
    <3>5. rest \in Seq(Cmds)
      BY <3>3, <3>4, ThenFacts
    <3>6. job = Then(SaveCmd(first), rest)
      BY <3>1 DEF last
    <3> HIDE DEF rest
    <3>7. Head(job) = SaveCmd(first) /\ Tail(job) = rest
      BY <3>3, <3>5, <3>6, ThenFacts
    <3>8. ASSUME NEW s, ToSet(first) \intersect Mods \subseteq s PROVE JobOK(Tail(job), w, own, caps, s)
      <4>1. SendOK("inject", acts, rec, w, caps, s)
        BY <3>1, <3>8 DEF SendOK
      <4>2. Sending(rest, w, own, caps, s)
        BY <3>1, <3>2, <4>1 DEF Sending, rest, last
      <4> QED BY <3>7, <4>2 DEF JobOK
    <3> QED BY <3>1, <3>7, <3>8
  <2> QED BY <1>5, <2>1, <2>2
<1>7. Head(job).rec = rec
  BY <1>6, CmdFacts
<1>8. HeldOK'
  BY HeldStep DEF GuardInv, GuardTypes
<1>9. \A s : ToSet(rec) \intersect Mods \subseteq s => JobOK(job', w, own, caps, s)
  BY <1>1, <1>6
<1>10. CASE /\ disk' = (IF rec = onDisk THEN disk ELSE rec)
            /\ onDisk' = rec /\ saveFailed' = FALSE /\ UNCHANGED budget
  <2>1. disk' = rec
    BY <1>3, <1>10
  <2>2. Safe' = ToSet(rec)
    BY <1>10, <2>1 DEF Safe
  <2>3. RunOK'
    <3>1. JobOK(job', w, own, caps, ToSet(rec))
      BY <1>9
    <3> QED BY <1>1, <1>4, <1>10, <2>1, <2>2, <3>1 DEF RunOK
  <2>4. GuardTypes'
    BY <1>1, <1>8, <1>10, <2>1 DEF GuardInv, GuardTypes
  <2>5. SavesOK'
    BY <1>10 DEF GuardInv, SavesOK
  <2>6. Guarded'
    BY <1>1, <1>2, <1>6, <1>10, <2>1 DEF GuardInv, Guarded, Watched
  <2> QED BY <2>3, <2>4, <2>5, <2>6 DEF GuardInv
<1>11. CASE /\ budget' = [budget EXCEPT !.saves = @ - 1]
            /\ saveFailed' = TRUE /\ UNCHANGED <<disk, onDisk>>
  <2>1. /\ budget' \in [crashes : Int, saves : Int, turns : Int]
        /\ budget'.saves = budget.saves - 1 /\ budget.saves \in Int
    BY <1>11 DEF GuardInv, GuardTypes
  <2>2. Safe' = Mods
    BY <1>11 DEF Safe
  <2>3. RunOK'
    <3>1. JobOK(job', w, own, caps, Mods)
      BY <1>9
    <3> QED BY <1>1, <1>3, <1>4, <1>11, <2>2, <3>1 DEF RunOK
  <2>4. GuardTypes'
    BY <1>1, <1>8, <1>11, <2>1 DEF GuardInv, GuardTypes
  <2>5. budget'.saves < MaxSaveFails
    BY <2>1, KeysAssumption DEF GuardInv, SavesOK
  <2>6. SavesOK' /\ budget'.saves # MaxSaveFails
    BY <2>1, <2>5, KeysAssumption DEF SavesOK
  <2>7. Guarded'
    BY <1>11, <2>6 DEF Guarded
  <2> QED BY <2>3, <2>4, <2>6, <2>7 DEF GuardInv
<1> QED BY <1>7, <1>10, <1>11 DEF StepSave

\* The head of send: the batch goes to the OS, or is refused whole.  A refusal loses no
\* sight of a modifier: an engine that knows it cannot type has a record that names
\* everything, and any other gives up only the keys that the batch would have left up.
LEMMA SendGuard ==
    ASSUME GuardInv, [Next]_vars, StepSend
    PROVE  GuardInv'
<1>1. /\ alive /\ job # <<>> /\ Head(job).op \in {"inject", "release"}
      /\ UNCHANGED <<alive, held, stranded, onDisk, caps, disk, down, grant, saveFailed, lost, budget>>
  BY DEF StepSend, Step
<1>2. PICK w, own, safe : w = Watched /\ own = Own /\ safe = Safe
  OBVIOUS
<1>3. onDisk = disk /\ JobOK(job, w, own, caps, safe)
  BY <1>1, <1>2 DEF GuardInv, RunOK
<1>4. Sending(job, w, own, caps, safe)
  BY <1>1, <1>3, ShapeOf DEF Ops
<1>5. PICK rec \in Seq(Keys), e \in Ends, op \in Ops, acts \in Seq(Acts) :
        /\ job = Then(SendCmd(op, acts), Then(SaveCmd(rec), e))
        /\ ToSet(rec) \subseteq own /\ SendOK(op, acts, rec, w, caps, safe)
  BY <1>4 DEF Sending
<1>6. PICK rest : rest = Then(SaveCmd(rec), e)
  OBVIOUS
<1>7. Head(job) = SendCmd(op, acts) /\ Tail(job) = rest /\ Head(job).op = op /\ Head(job).acts = acts
  <2>1. SendCmd(op, acts) \in Cmds /\ SaveCmd(rec) \in Cmds /\ e \in Seq(Cmds)
        /\ SendCmd(op, acts).op = op /\ SendCmd(op, acts).acts = acts
    BY CmdFacts, EndFacts
  <2>2. rest \in Seq(Cmds)
    BY <1>6, <2>1, ThenFacts
  <2>3. Head(job) = SendCmd(op, acts) /\ Tail(job) = rest
    BY <1>5, <1>6, <2>1, <2>2, ThenFacts
  <2> QED BY <2>1, <2>3
<1>8. PICK sent \in BOOLEAN, as \in Ops :
        /\ job' = IF sent THEN <<[op |-> as, acts |-> acts]>> \o rest ELSE rest
        /\ muted' = IF sent \/ ~caps THEN muted ELSE muted \union (EndsUp(acts) \intersect down)
  <2> DEFINE yes == grant /\ (op = "release" \/ ~silent)
  <2>1. Posting(op) \in Ops /\ yes \in BOOLEAN
    BY DEF Posting, Ops
  <2>2. /\ job' = IF yes THEN <<[op |-> Posting(op), acts |-> acts]>> \o rest ELSE rest
        /\ muted' = IF yes \/ ~caps THEN muted ELSE muted \union (EndsUp(acts) \intersect down)
    BY <1>7 DEF StepSend
  <2> HIDE DEF yes
  <2> QED BY <2>1, <2>2
<1>9. Own' = own /\ Safe' = safe /\ caps' = caps
  BY <1>1, <1>2 DEF Own, Safe
<1>10. JobOK(job', Watched', own, caps, safe)
  <2>1. CASE sent
    <3>1. job' = Then(SendCmd(as, acts), rest) /\ muted' = muted
      BY <1>8, <2>1 DEF Then, SendCmd
    <3>2. Watched' = w
      BY <1>1, <1>2, <3>1 DEF Watched
    <3>3. SendOK(as, acts, rec, w, caps, safe)
      BY <1>5 DEF SendOK
    <3>4. Sending(job', w, own, caps, safe)
      BY <1>5, <1>6, <1>8, <3>1, <3>3 DEF Sending
    <3> QED BY <3>2, <3>4 DEF JobOK
  <2>2. CASE ~sent
    <3>1. job' = rest
      BY <1>8, <2>2
    <3>2. Watched' \subseteq ToSet(rec)
      <4>1. CASE ~caps
        <5>1. Watched' \subseteq w
          BY <1>1, <1>2, <1>8, <4>1 DEF Watched
        <5>2. w \subseteq ToSet(rec)
          BY <1>5, <4>1 DEF SendOK
        <5> QED BY <5>1, <5>2
      <4>2. CASE caps
        <5>1. Watched' \subseteq (w \ EndsUp(acts)) \intersect Mods
          BY <1>1, <1>2, <1>8, <2>2, <4>2 DEF Watched
        <5>2. w \ EndsUp(acts) \subseteq After(w, acts, Len(acts))
          BY AfterEndsUp
        <5>3. After(w, acts, Len(acts)) \intersect Mods \subseteq ToSet(rec)
          BY <1>5, <4>2 DEF SendOK
        <5> QED BY <5>1, <5>2, <5>3
      <4> QED BY <4>1, <4>2
    <3>3. Saving(job', Watched', own)
      BY <1>5, <1>6, <3>1, <3>2 DEF Saving
    <3> QED BY <3>3 DEF JobOK
  <2> QED BY <2>1, <2>2
<1>11. RunOK'
  BY <1>1, <1>3, <1>9, <1>10 DEF RunOK
<1>12. GuardTypes'
  BY <1>1 DEF GuardInv, GuardTypes, HeldOK
<1>13. SavesOK'
  BY <1>1 DEF GuardInv, SavesOK
<1>14. Guarded'
  <2>1. muted \subseteq muted'
    BY <1>8
  <2> QED BY <1>1, <2>1 DEF GuardInv, Guarded
<1> QED BY <1>11, <1>12, <1>13, <1>14 DEF GuardInv

\* One action lands or is discarded: what is watched follows the batch, a key that goes
\* down was on file first, and a key whose release is lost is no longer watched, unless
\* the record that comes next names it.
LEMMA PostGuard ==
    ASSUME GuardInv, [Next]_vars, StepPost \/ StepDiscarded
    PROVE  GuardInv'
<1>1. /\ alive /\ job # <<>> /\ Head(job).op \in {"typing", "freeing"}
      /\ UNCHANGED <<alive, held, stranded, onDisk, caps, disk, grant, saveFailed, budget>>
  BY DEF StepPost, StepDiscarded, Step
<1>2. PICK w, own, safe : w = Watched /\ own = Own /\ safe = Safe
  OBVIOUS
<1>3. onDisk = disk /\ JobOK(job, w, own, caps, safe)
  BY <1>1, <1>2 DEF GuardInv, RunOK
<1>4. Sending(job, w, own, caps, safe)
  BY <1>1, <1>3, ShapeOf DEF Ops
<1>5. PICK rec \in Seq(Keys), e \in Ends, op \in Ops, acts \in Seq(Acts) :
        /\ job = Then(SendCmd(op, acts), Then(SaveCmd(rec), e))
        /\ ToSet(rec) \subseteq own /\ SendOK(op, acts, rec, w, caps, safe)
  BY <1>4 DEF Sending
<1>6. PICK last : last = Then(SaveCmd(rec), e)
  OBVIOUS
<1>7. Tail(job) = last /\ Head(job) = SendCmd(op, acts) /\ Head(job).acts = acts
  <2>1. SendCmd(op, acts) \in Cmds /\ SaveCmd(rec) \in Cmds /\ e \in Seq(Cmds)
        /\ SendCmd(op, acts).op = op /\ SendCmd(op, acts).acts = acts
    BY CmdFacts, EndFacts
  <2>2. last \in Seq(Cmds)
    BY <1>6, <2>1, ThenFacts
  <2>3. Head(job) = SendCmd(op, acts) /\ Tail(job) = last
    BY <1>5, <1>6, <2>1, <2>2, ThenFacts
  <2> QED BY <2>1, <2>3
<1>8. /\ acts # <<>> /\ caps \in BOOLEAN
      /\ caps => After(w, acts, Len(acts)) \intersect Mods \subseteq ToSet(rec)
      /\ ~caps => w \subseteq ToSet(rec) /\ Pressed(acts) = {}
      /\ Pressed(acts) \intersect Mods \subseteq safe
  BY <1>5 DEF SendOK, GuardInv, GuardTypes
<1>9. PICK act, rest : act = Head(acts) /\ rest = Tail(acts)
  OBVIOUS
<1>10. /\ act \in Acts /\ rest \in Seq(Acts)
       /\ act.down => act.key \in Pressed(acts)
       /\ Pressed(rest) \subseteq Pressed(acts)
  <2>1. /\ act \in Acts /\ rest \in Seq(Acts) /\ act = acts[1] /\ Len(acts) \in Nat /\ Len(acts) >= 1
        /\ DOMAIN acts = 1 .. Len(acts) /\ DOMAIN rest = 1 .. (Len(acts) - 1)
        /\ \A i \in 1 .. (Len(acts) - 1) : rest[i] = acts[i + 1]
    BY <1>8, <1>9
  <2>2. 1 \in DOMAIN acts /\ \A i \in 1 .. (Len(acts) - 1) : i + 1 \in DOMAIN acts
    BY <2>1
  <2> QED BY <2>1, <2>2 DEF Pressed
<1>11. /\ job' = IF rest = <<>> THEN last ELSE Then(SendCmd(op, rest), last)
       /\ \/ /\ down' = IF act.key \notin Keys THEN down
                        ELSE IF act.down THEN down \union {act.key} ELSE down \ {act.key}
             /\ lost' = lost \ {act.key} /\ muted' = muted \ {act.key}
          \/ /\ down' = down /\ lost' = lost
             /\ muted' = IF ~act.down /\ caps THEN muted \union ({act.key} \intersect down) ELSE muted
  <2>1. PICK cmd : cmd = Head(job)
    OBVIOUS
  <2>2. cmd = SendCmd(op, acts) /\ cmd.op = op /\ cmd.acts = acts /\ Tail(cmd.acts) = rest
    BY <1>7, <1>9, <2>1 DEF SendCmd
  <2>3. AndThen(cmd) = IF rest = <<>> THEN last ELSE Then(SendCmd(op, rest), last)
    BY <1>7, <2>2 DEF AndThen, Then, SendCmd
  <2>4. CASE StepPost
    BY <1>7, <1>9, <2>1, <2>3, <2>2, <2>4 DEF StepPost
  <2>5. CASE StepDiscarded
    BY <1>7, <1>9, <2>1, <2>3, <2>2, <2>5 DEF StepDiscarded
  <2> QED BY <2>4, <2>5
<1> DEFINE next == IF act.down THEN w \union {act.key} ELSE w \ {act.key}
<1>12. Watched' \subseteq Mods /\ (caps => Watched' \subseteq next) /\ (~caps => Watched' \subseteq w)
  <2>1. Mods \subseteq Keys
    BY DEF Keys
  <2>2. act.down \in BOOLEAN /\ (~caps => ~act.down)
    BY <1>8, <1>10 DEF Acts
  <2> QED BY <1>2, <1>11, <2>1, <2>2 DEF Watched
<1>13. After(next, rest, Len(rest)) = After(w, acts, Len(acts))
  BY <1>8, <1>9, AfterHead
<1>14. caps => After(Watched', rest, Len(rest)) \intersect Mods \subseteq ToSet(rec)
  <2> SUFFICES ASSUME caps PROVE After(Watched', rest, Len(rest)) \intersect Mods \subseteq ToSet(rec)
    OBVIOUS
  <2>1. PICK wn : wn = Watched'
    OBVIOUS
  <2>2. wn \subseteq next \union {}
    BY <1>12, <2>1
  <2> HIDE DEF next
  <2>3. After(wn, rest, Len(rest)) \subseteq After(next, rest, Len(rest)) \union {}
    BY <1>10, <2>2, AfterGrows
  <2> QED BY <1>8, <1>13, <2>1, <2>3
<1>15. Own' = own /\ Safe' = safe /\ caps' = caps
  BY <1>1, <1>2 DEF Own, Safe
<1>16. JobOK(job', Watched', own, caps, safe)
  <2>1. CASE rest = <<>>
    <3>1. job' = last
      BY <1>11, <2>1
    <3>2. PICK wn : wn = Watched'
      OBVIOUS
    <3>3. After(wn, <<>>, 0) = wn /\ Len(<<>>) = 0
      BY DEF After
    <3>4. wn \subseteq ToSet(rec)
      <4> HIDE DEF next
      <4>1. CASE caps
        BY <1>12, <1>14, <2>1, <3>2, <3>3, <4>1
      <4>2. CASE ~caps
        BY <1>8, <1>12, <3>2, <4>2
      <4> QED BY <4>1, <4>2
    <3>5. Saving(job', wn, own)
      BY <1>5, <1>6, <3>1, <3>4 DEF Saving
    <3> QED BY <3>2, <3>5 DEF JobOK
  <2>2. CASE rest # <<>>
    <3>1. job' = Then(SendCmd(op, rest), last)
      BY <1>11, <2>2
    <3>2. ~caps => Watched' \subseteq ToSet(rec) /\ Pressed(rest) = {}
      BY <1>8, <1>10, <1>12
    <3>3. SendOK(op, rest, rec, Watched', caps, safe)
      BY <1>8, <1>10, <1>14, <2>2, <3>2 DEF SendOK
    <3>4. Sending(job', Watched', own, caps, safe)
      BY <1>5, <1>6, <1>10, <3>1, <3>3 DEF Sending
    <3> QED BY <3>4 DEF JobOK
  <2> QED BY <2>1, <2>2
<1>17. RunOK'
  BY <1>1, <1>3, <1>15, <1>16 DEF RunOK
<1>18. GuardTypes'
  BY <1>1 DEF GuardInv, GuardTypes, HeldOK
<1>19. SavesOK'
  BY <1>1 DEF GuardInv, SavesOK
<1>20. Guarded'
  <2>1. ASSUME ~saveFailed PROVE Watched' \subseteq ToSet(disk)
    <3>1. safe = ToSet(disk) /\ w \subseteq ToSet(disk)
      BY <1>2, <2>1 DEF Safe, Watched, GuardInv, Guarded
    <3>2. Watched' \subseteq w \union (Pressed(acts) \intersect Mods)
      BY <1>8, <1>10, <1>12
    <3> QED BY <1>8, <3>1, <3>2
  <2>2. budget.saves = MaxSaveFails => lost' \intersect Mods \subseteq muted'
    BY <1>11 DEF GuardInv, Guarded
  <2> QED BY <1>1, <2>1, <2>2 DEF Guarded, Watched
<1> QED BY <1>17, <1>18, <1>19, <1>20 DEF GuardInv

LEMMA GuardStep == GuardInv /\ [Next]_vars => GuardInv'
<1> SUFFICES ASSUME GuardInv, [Next]_vars PROVE GuardInv'
  OBVIOUS
<1>1. CASE UNCHANGED vars
  BY <1>1 DEF vars, GuardInv, GuardTypes, HeldOK, RunOK, SavesOK, Guarded, Watched, Own, Safe
<1>2. CASE GrantTurns \/ SilenceTurns
  BY <1>2, TurnsGuard
<1>3. CASE Crash \/ StepExit
  BY <1>3, DeathGuard
<1>4. CASE Open
  BY <1>4, OpenGuardKeeps
<1>5. CASE OnStart \/ OnReleaseAll \/ EndDriven \/ Shutdown
  BY <1>5, ReleasesGuard
<1>6. CASE ApplyKey
  BY <1>6, ApplyKeyGuard
<1>7. CASE CapabilitiesChanged \/ RefreshCaps
  BY <1>7, CapsGuard
<1>8. CASE StepSave
  BY <1>8, SaveGuard
<1>9. CASE StepSend
  BY <1>9, SendGuard
<1>10. CASE StepPost \/ StepDiscarded
  BY <1>10, PostGuard
<1> QED BY <1>1, <1>2, <1>3, <1>4, <1>5, <1>6, <1>7, <1>8, <1>9, <1>10 DEF Next, Running

LEMMA GuardInit == Init => GuardInv
<1> SUFFICES ASSUME Init PROVE GuardInv
  OBVIOUS
<1>1. <<>> \in Seq(Keys) /\ IsInjective(<<>>)
  BY EmptyFacts
<1>2. GuardTypes
  <2>1. HeldOK /\ stranded \in Seq(Keys) /\ disk \in Seq(Keys)
    BY <1>1 DEF Init, HeldOK
  <2>2. alive \in BOOLEAN /\ grant \in BOOLEAN /\ caps \in BOOLEAN /\ saveFailed \in BOOLEAN
    BY DEF Init
  <2>3. budget \in [crashes : Int, saves : Int, turns : Int]
    BY KeysAssumption DEF Init
  <2> QED BY <2>1, <2>2, <2>3 DEF GuardTypes
<1>3. Watched = {}
  BY DEF Init, Watched
<1>4. RunOK
  <2>1. Resting(job, Watched, Own)
    BY <1>3, EndFacts DEF Resting, Init
  <2> QED BY <2>1 DEF Init, RunOK, JobOK
<1>5. SavesOK /\ Guarded
  BY KeysAssumption DEF Init, SavesOK, Guarded
<1> QED BY <1>2, <1>4, <1>5 DEF GuardInv

\* The crash guard (apply_key, open, send): for any keyboard and any layout, however the
\* process dies, and however a batch is cut short, refused or discarded because the grant
\* went or a silence came before it, between two of its keys or unheard by the engine, a
\* modifier that this program has down is named by held.json, unless a write failed or the
\* OS refused or discarded its release while the engine took itself for able.
THEOREM GuardedTheorem == Spec => []Guarded
<1>1. GuardInv => Guarded
  BY DEF GuardInv
<1> QED BY <1>1, GuardInit, GuardStep, PTL DEF Spec

=============================================================================
