---------------------------- MODULE MCStreamManager ----------------------------
(* A small instance of StreamManager for TLC.                              *)
EXTENDS StreamManager, TLC

CONSTANTS a, p1, p2, w1, d1

OneStream  == {a}
TwoPublishers == {p1, p2}
OneSubscriber == {w1}
OneDeleter == {d1}

\* The publishers are interchangeable, and no property here is about liveness.
Symmetry == Permutations(TwoPublishers)
================================================================================
