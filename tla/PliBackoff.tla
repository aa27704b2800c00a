------------------------------- MODULE PliBackoff ------------------------------
(***************************************************************************)
(* The back-off of the recorder's keyframe requests                        *)
(* (liveion/src/recorder/pli_backoff.rs), as operators on its state.  Time *)
(* is in seconds; statistics and log lines are left out.                   *)
(***************************************************************************)
EXTENDS Integers

CONSTANTS
  InitialTimeout,  \* 5 in the code
  MaxTimeout,      \* 30
  MaxRequests      \* 5; 0: no limit

ASSUME PliBackoffAssumption ==
  /\ InitialTimeout \in Nat \ {0}
  /\ MaxTimeout \in Nat /\ InitialTimeout <= MaxTimeout
  /\ MaxRequests \in Nat

Never == -1   \* an Option<Instant> that is None

NewBackoff ==
  [timeout |-> InitialTimeout, keyframe |-> Never, request |-> Never, count |-> 0]

ShouldRequest(b, now) ==
  /\ MaxRequests = 0 \/ b.count < MaxRequests
  /\ IF b.keyframe # Never THEN now - b.keyframe >= b.timeout
     ELSE b.request = Never \/ now - b.request >= b.timeout

\* Mutant: the timeout stays.
RecordRequestFlat(b, now) == [b EXCEPT !.request = now, !.count = @ + 1]

RecordRequest(b, now) ==
  [b EXCEPT !.request = now, !.count = @ + 1,
            !.timeout = IF 2 * @ < MaxTimeout THEN 2 * @ ELSE MaxTimeout]

RecordKeyframe(b, now) ==
  [timeout |-> InitialTimeout, keyframe |-> now, request |-> Never, count |-> 0]

HardReset(b) == NewBackoff
================================================================================
