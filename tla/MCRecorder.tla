------------------------------- MODULE MCRecorder ------------------------------
(* Small instances of Recorder for TLC.                                    *)
EXTENDS Recorder

CONSTANTS a, r1, r2

OneStream  == {a}
TwoCallers == {r1, r2}
None       == {}
================================================================================
