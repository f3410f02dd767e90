------------------------------ MODULE Handover ------------------------------
(***************************************************************************)
(* What joining an account promises, whatever carries it: a device comes   *)
(* to hold an account key only on the strength of a human decision that    *)
(* named that device, a decision is spent by the device that uses it, and  *)
(* a key already held is never replaced by another.                        *)
(***************************************************************************)
CONSTANTS Device, Account, None

VARIABLES keys, grants

HInit == /\ keys \in [Device -> Account \cup {None}]
         /\ grants = {}

(* A human decides that a device may join: `to' is the device, `by' the channel
   that was confirmed or the recovery code that was typed. *)
Decide == /\ \E g \in grants' : g.to \in Device /\ grants' = grants \cup {g}
          /\ UNCHANGED keys

(* The device the decision names takes a key, once. *)
Take(g) == /\ \E a \in Account : /\ keys[g.to] \in {None, a}
                                /\ keys' = [keys EXCEPT ![g.to] = a]
           /\ grants' = grants \ {g}

Forget(d) == /\ keys' = [keys EXCEPT ![d] = None]
             /\ UNCHANGED grants

HNext == \/ Decide
         \/ \E g \in grants : Take(g)
         \/ \E d \in Device : Forget(d)

HSpec == HInit /\ [][HNext]_<<keys, grants>>
=============================================================================
