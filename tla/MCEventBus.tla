------------------------------- MODULE MCEventBus ------------------------------
(* Small instances of EventBus for TLC.                                    *)
EXTENDS EventBus

CONSTANTS h1, c1, w1, w2

OneHook    == {h1}
OneClient  == {c1}
TwoWriters == {w1, w2}
================================================================================
