--------------------------- MODULE MCInputSession ---------------------------
(* InputSession for TLC. *)
EXTENDS InputSession, TLC

CONSTANTS ma, mb, mc, left, right

\* A source and its target, their channel warm, and a second channel to come.
TwoNodes == {ma, mb}
OneWay == {<<ma, mb>>}
WarmPair == (left :> <<ma, mb>>) @@ (right :> <<>>)

\* A machine between two others that each may drive and be driven by it.
ThreeNodes == {ma, mb, mc}
Hub == {<<ma, mb>>, <<mb, ma>>, <<mb, mc>>, <<mc, mb>>}
WarmHub == (left :> <<ma, mb>>) @@ (right :> <<mc, mb>>)

\* The two sides of the hub are alike, each with its channel.
Sides ==
    {f \in Permutations({ma, mc, left, right}) :
        \/ \A x \in {ma, mc, left, right} : f[x] = x
        \/ f[ma] = mc /\ f[mc] = ma /\ f[left] = right /\ f[right] = left}

TwoPipes == {left, right}

\* What users and desktops do, and what goes wrong around them.
AllKinds == {"take", "cross", "hand", "release", "lock", "allow", "drive", "caps", "desk",
             "revoke", "leave", "cut", "sweep", "dial", "freeze", "hang", "restart"}

FaultKinds == {"take", "cut", "hang", "restart", "sweep"}

\* Nobody's Core is still dialling when a run starts.
NoDial == {}

HotkeyKinds == {"take", "release"}
=============================================================================
