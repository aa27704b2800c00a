------------------------------ MODULE PublishSlot ------------------------------
(***************************************************************************)
(* What one stream promises about its publisher: a slot with at most one   *)
(* session in it, never handed from one session to another directly, held  *)
(* at most once by each session, and given up only on behalf of the        *)
(* session that holds it, after that session's connection has closed.      *)
(* PeerForward implements this specification.                              *)
(***************************************************************************)
CONSTANTS Session,  \* publish sessions (one RTCPeerConnection each)
          None      \* the empty slot

VARIABLES slot,     \* the session that publishes, or None
          held,     \* sessions that have had the slot
          closed    \* sessions whose connection is closed

vars == <<slot, held, closed>>

Init ==
  /\ slot = None
  /\ held = {}
  /\ closed = {}

Take(p) ==
  /\ slot = None
  /\ p \notin held
  /\ slot' = p
  /\ held' = held \cup {p}
  /\ UNCHANGED closed

CloseSession(p) ==
  /\ p \notin closed
  /\ closed' = closed \cup {p}
  /\ UNCHANGED <<slot, held>>

Leave(p) ==
  /\ slot = p
  /\ p \in closed
  /\ slot' = None
  /\ UNCHANGED <<held, closed>>

Next == \E p \in Session : Take(p) \/ CloseSession(p) \/ Leave(p)

Spec == Init /\ [][Next]_vars
================================================================================
