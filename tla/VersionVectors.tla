--------------------------- MODULE VersionVectors ---------------------------
(***************************************************************************)
(* Version vectors (sync/src/vv.rs).  A vv maps every component to the     *)
(* highest clock value it carries; the code's absent component is 0 here,  *)
(* which is what get() answers for it.                                     *)
(***************************************************************************)
EXTENDS Naturals

\* covers(): at least `b` in every component.
Covers(a, b) == \A k \in DOMAIN a : a[k] >= b[k]

\* relation() = Concurrent: neither history contains the other.
Concurrent(a, b) == ~Covers(a, b) /\ ~Covers(b, a)

\* merge_max() of `base` with each vv of the set S.
JoinAll(base, S) ==
    [k \in DOMAIN base |->
        CHOOSE n \in {base[k]} \cup {v[k] : v \in S} :
            \A m \in {base[k]} \cup {v[k] : v \in S} : n >= m]

Join(a, b) == JoinAll(a, {b})
=============================================================================
