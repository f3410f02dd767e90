--------------------------- MODULE MCTransactions ---------------------------
(* Two devices: one connection on the first, two that may share an adopted    *)
(* transaction on the second.                                                 *)
EXTENDS Transactions, TLC

CONSTANTS src, dst1, dst2

OneAndTwo == [k \in Conn |-> IF k = src THEN 1 ELSE 2]

\* Slots are interchangeable, and so are the second device's connections.
Alike == Permutations(Slot) \cup {f \in Permutations(Conn) : f[src] = src}

Mixes ==
    {[copy |-> 3, publish |-> 0, adopt |-> 0, revoke |-> 0, ask |-> 0, close |-> 0, clear |-> 1],
     [copy |-> 2, publish |-> 0, adopt |-> 0, revoke |-> 0, ask |-> 1, close |-> 0, clear |-> 1],
     [copy |-> 2, publish |-> 0, adopt |-> 0, revoke |-> 0, ask |-> 2, close |-> 0, clear |-> 0],
     [copy |-> 0, publish |-> 1, adopt |-> 2, revoke |-> 1, ask |-> 2, close |-> 0, clear |-> 0],
     [copy |-> 0, publish |-> 1, adopt |-> 2, revoke |-> 0, ask |-> 1, close |-> 1, clear |-> 0],
     [copy |-> 0, publish |-> 1, adopt |-> 1, revoke |-> 1, ask |-> 1, close |-> 1, clear |-> 1]}
=============================================================================
