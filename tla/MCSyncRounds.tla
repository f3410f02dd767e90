---------------------------- MODULE MCSyncRounds ----------------------------
(* Small instances of SyncRounds. *)
EXTENDS SyncRounds, TLC

\* A total order on concurrent versions that depends on the vv as well as on
\* the content, as the hash of both does.
Weight(vv) ==
    LET total[S \in SUBSET Device] ==
          IF S = {} THEN 0
          ELSE LET k == CHOOSE k \in S : TRUE IN vv[k] + total[S \ {k}]
    IN  total[Device]
MCVersionId(e) == Weight(e.vv) * (MaxContent + 1) + (MaxContent - e.c)

\* Users who write anything; users who never write the same content.
AnyWrites == [d \in Device |-> 1..MaxContent]
OwnWrites ==
    LET own == CHOOSE own \in [Device -> 1..MaxContent] :
                 \A d, q \in Device : own[d] = own[q] => d = q
    IN  [d \in Device |-> {own[d]}]

Symmetry == Permutations(Device)
=============================================================================
