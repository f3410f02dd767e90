----------------------------- MODULE MCSyncPull -----------------------------
(* A small instance of SyncPull: one relay that covers paths 1 and 2 and    *)
(* holds the bytes of 1 only at first.                                      *)
EXTENDS SyncPull
Relay   == <<"relay">>
Both    == [s \in Source |-> Path]
FirstOf == [s \in Source |-> {1}]
=============================================================================
