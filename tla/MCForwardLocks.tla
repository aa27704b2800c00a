---------------------------- MODULE MCForwardLocks -----------------------------
(* Small instances of ForwardLocks for TLC.                                *)
EXTENDS ForwardLocks, TLC

CONSTANTS t1, t2, t3, t4

Three == {t1, t2, t3}
Four  == {t1, t2, t3, t4}
ThreeAlike == Permutations(Three)

\* DELETE of a session while the stream is listed, and a publisher and a
\* subscriber come and go.
Deleting == {"remove_peer", "info", "remove_publish", "add_subscribe"}
================================================================================
