------------------------- MODULE SubscribeForwardProofs ------------------------
(***************************************************************************)
(* The loops of one subscriber keep the binding table true to what they    *)
(* forward, miss no change of the tracks and keep a disabled sender        *)
(* silent: for any publishers, layers, refused codecs and requests.        *)
(***************************************************************************)
EXTENDS SubscribeForward, TLAPS

\* What the binding table and pre_rid hold.
Name == Rid \cup {Enable, Disable, None}

ForwardTypes ==
  /\ publish_tracks \subseteq Track
  /\ loop \in [Kind -> {"none", "run", "ended"}]
  /\ change \in [Kind -> BOOLEAN]
  /\ bound \in [Kind -> Track \cup {None}]
  /\ binding \in [Kind -> Name] /\ pre_rid \in [Kind -> Name]
  /\ select \in [Kind -> Body \cup {None, Lagged}]
  /\ asked \in Nat

\* A sender that forwards a track has it, or RID_ENABLE, in the table.
BoundAs(k) ==
  bound[k] # None => bound[k].kind = k /\ binding[k] \in {Enable, bound[k].rid}
BindInv == \A k \in Kind : BoundAs(k)

\* Only a request disables a sender.
AskInv == asked = 0 => \A k \in Kind : select[k] = None /\ binding[k] # Disable

\* What a loop without a notification has made of the tracks.
UpToDate(k) ==
  loop[k] = "run" /\ ~change[k] =>
    /\ asked = 0 /\ bound[k] = None =>
         TracksOf(k) = {} \/ \E t \in FirstOf(TracksOf(k)) : ~Accepts(k, t)
    /\ publish_tracks = {} => bound[k] = None

ForwardInv == ForwardTypes /\ BindInv /\ AskInv /\ NoLostChange

LEMMA Names ==
  /\ Enable \notin Rid /\ Disable \notin Rid /\ None \notin Rid
  /\ Enable # Disable /\ None # Enable /\ None # Disable
  /\ None \notin Body /\ Lagged \notin Body /\ None \notin Track /\ None # Lagged /\ MaxSelect \in Nat
BY LayerAssumption

LEMMA TrackType == \A t \in Track : t.kind \in Kind /\ t.rid \in Rid /\ t # None
<1> SUFFICES ASSUME NEW t \in Track PROVE t.kind \in Kind /\ t.rid \in Rid
  BY Names
<1>1. CASE \E p \in Publisher, r \in Rid : t = [publisher |-> p, kind |-> "video", rid |-> r]
  BY <1>1 DEF Kind
<1>2. CASE \E p \in Voiced : t = [publisher |-> p, kind |-> "audio", rid |-> 0]
  BY <1>2 DEF Kind, Rid
<1>. QED BY <1>1, <1>2 DEF Track

LEMMA ForwardInit == Init => ForwardInv
BY Names DEF Init, ForwardInv, ForwardTypes, BindInv, BoundAs, AskInv, NoLostChange, Name, Kind, TracksOf

--------------------------------------------------------------------------------
\* Steps that touch one sender only.
LEMMA OneSender ==
  ASSUME ForwardInv, ForwardTypes', NEW k \in Kind,
         publish_tracks' = publish_tracks, asked' = asked,
         \A j \in Kind : j # k => /\ loop'[j] = loop[j] /\ change'[j] = change[j] /\ bound'[j] = bound[j]
                                  /\ binding'[j] = binding[j] /\ select'[j] = select[j],
         BoundAs(k)', UpToDate(k)', asked = 0 => select'[k] = None /\ binding'[k] # Disable
  PROVE  ForwardInv'
<1>1. BindInv'
  BY DEF ForwardInv, BindInv, BoundAs
<1>2. AskInv'
  BY DEF ForwardInv, AskInv
<1>3. ASSUME NEW j \in Kind, j # k PROVE UpToDate(j)'
  <2>1. UpToDate(j)
    BY DEF ForwardInv, NoLostChange, UpToDate
  <2>. QED BY <1>3, <2>1 DEF UpToDate, TracksOf
<1>4. NoLostChange'
  BY <1>3 DEF NoLostChange, UpToDate
<1>. QED BY <1>1, <1>2, <1>4 DEF ForwardInv

\* Steps that notify every loop.
LEMMA NotifySteps ==
  ASSUME ForwardInv,
         (\E p \in Publisher : RemovePublishTracks(p)) \/ (\E t \in Track : PublishTrackUp(t))
  PROVE  ForwardInv'
<1>. ForwardTypes
  BY DEF ForwardInv
<1>1. /\ publish_tracks' \subseteq Track /\ change' = [k \in Kind |-> loop[k] = "run"]
      /\ UNCHANGED <<loop, bindVars, select, asked>>
  BY DEF RemovePublishTracks, PublishTrackUp, Notify, ForwardTypes
<1>2. change' \in [Kind -> BOOLEAN]
  BY <1>1
<1>3. ForwardTypes'
  BY <1>1, <1>2 DEF ForwardTypes, bindVars
<1>4. BindInv' /\ AskInv'
  BY <1>1 DEF ForwardInv, BindInv, BoundAs, AskInv, bindVars
<1>5. \A k \in Kind : ~(loop'[k] = "run" /\ ~change'[k])
  BY <1>1
<1>. QED BY <1>3, <1>4, <1>5 DEF ForwardInv, NoLostChange

LEMMA OtherSteps ==
  ASSUME ForwardInv,
         PublishUp \/ PublishDown \/ Subscribe \/ \E body \in Body : SelectKindRid(body)
  PROVE  ForwardInv'
<1>. ForwardTypes
  BY DEF ForwardInv
<1>1. CASE PublishUp \/ PublishDown
  <2>1. UNCHANGED <<publish_tracks, loop, change, bindVars, select, asked>>
    BY <1>1 DEF PublishUp, PublishDown
  <2>. QED BY <2>1 DEF ForwardInv, ForwardTypes, BindInv, BoundAs, AskInv, NoLostChange, TracksOf, bindVars
<1>2. CASE Subscribe
  <2>1. /\ UNCHANGED <<publish_tracks, bindVars, select, asked>>
        /\ loop' = [k \in Kind |-> "run"] /\ change' = [k \in Kind |-> TRUE]
    BY <1>2 DEF Subscribe, pubVars
  <2>2. ForwardTypes'
    BY <2>1 DEF ForwardTypes, bindVars
  <2>3. BindInv' /\ AskInv'
    BY <2>1 DEF ForwardInv, BindInv, BoundAs, AskInv, bindVars
  <2>. QED BY <2>1, <2>2, <2>3 DEF ForwardInv, NoLostChange
<1>3. ASSUME NEW body \in Body, SelectKindRid(body) PROVE ForwardInv'
  <2>1. /\ UNCHANGED <<publish_tracks, loop, change, bindVars>> /\ asked' = asked + 1
        /\ select' = [k \in Kind |-> IF loop[k] # "run" THEN None
                                    ELSE IF select[k] = None THEN body ELSE Lagged]
    BY <1>3 DEF SelectKindRid, pubVars
  <2>2. asked' \in Nat /\ asked' # 0
    BY <2>1 DEF ForwardTypes
  <2>3. select' \in [Kind -> Body \cup {None, Lagged}]
    BY <2>1
  <2>4. ForwardTypes'
    BY <2>1, <2>2, <2>3 DEF ForwardTypes, bindVars
  <2>5. BindInv'
    BY <2>1 DEF ForwardInv, BindInv, BoundAs, bindVars
  <2>6. NoLostChange'
    BY <2>1, <2>2 DEF ForwardInv, NoLostChange, bindVars
  <2>. QED BY <2>2, <2>4, <2>5, <2>6 DEF ForwardInv, AskInv
<1>. QED BY <1>1, <1>2, <1>3

\* The end of a loop.
LEMMA BreakStep ==
  ASSUME ForwardInv, NEW k \in Kind, Break(k)
  PROVE  ForwardInv'
<1>. ForwardTypes
  BY DEF ForwardInv
<1>1. /\ UNCHANGED <<publish_tracks, binding, asked>>
      /\ loop' = [loop EXCEPT ![k] = "ended"] /\ change' = [change EXCEPT ![k] = FALSE]
      /\ bound' = [bound EXCEPT ![k] = None] /\ pre_rid' = [pre_rid EXCEPT ![k] = None]
      /\ select' = [select EXCEPT ![k] = None]
  BY DEF Break, pubVars
<1>2. ForwardTypes'
  BY <1>1 DEF ForwardTypes, Name
<1>3. loop'[k] = "ended" /\ bound'[k] = None /\ select'[k] = None
  BY <1>1 DEF ForwardTypes
<1>4. \A j \in Kind : j # k => /\ loop'[j] = loop[j] /\ change'[j] = change[j] /\ bound'[j] = bound[j]
                               /\ binding'[j] = binding[j] /\ select'[j] = select[j]
  BY <1>1 DEF ForwardTypes
<1>5. BoundAs(k)' /\ UpToDate(k)'
  BY <1>3 DEF BoundAs, UpToDate
<1>6. asked = 0 => binding[k] # Disable
  BY DEF ForwardInv, AskInv
<1>. QED BY <1>1, <1>2, <1>3, <1>4, <1>5, <1>6, OneSender

\* Of the tracks of a sender's kind.
LEMMA FirstIsTrack ==
  ASSUME ForwardTypes, NEW k \in Kind, NEW t \in FirstOf(TracksOf(k))
  PROVE  t \in Track /\ t.kind = k /\ t.rid \in Rid /\ t # None
BY TrackType DEF FirstOf, TracksOf, ForwardTypes

\* The publish_track_change branch.
LEMMA TrackChangeStep ==
  ASSUME ForwardInv, NEW k \in Kind, TrackChange(k)
  PROVE  ForwardInv'
<1>. ForwardTypes /\ BindInv
  BY DEF ForwardInv
<1>1. /\ loop[k] = "run" /\ change' = [change EXCEPT ![k] = FALSE]
      /\ UNCHANGED <<publish_tracks, loop, select, asked>>
  BY DEF TrackChange, pubVars
<1>2. \/ /\ publish_tracks = {}
         /\ Bind(k, None, IF binding[k] = Disable THEN Disable ELSE None)
         /\ pre_rid' = [pre_rid EXCEPT ![k] = None]
      \/ /\ \E t \in FirstOf(TracksOf(k)) : Bind(k, t, t.rid)
         /\ publish_tracks # {} /\ binding[k] # Disable /\ UNCHANGED pre_rid
      \/ /\ publish_tracks # {}
         /\ \/ bound[k] # None \/ binding[k] = Disable
            \/ TracksOf(k) = {} \/ \E t \in FirstOf(TracksOf(k)) : ~Accepts(k, t)
         /\ UNCHANGED bindVars
  BY DEF TrackChange
<1>3. asked = 0 => select[k] = None /\ binding[k] # Disable
  BY DEF ForwardInv, AskInv
<1>4. change' \in [Kind -> BOOLEAN] /\ \A j \in Kind : j # k => change'[j] = change[j]
  BY <1>1 DEF ForwardTypes
<1>5. ASSUME NEW t \in Track \cup {None}, NEW rid \in Name, Bind(k, t, rid),
             pre_rid' \in [Kind -> Name], t # None => t.kind = k /\ rid = t.rid,
             t = None => publish_tracks = {}, publish_tracks = {} => t = None,
             rid = Disable => binding[k] = Disable
      PROVE  ForwardInv'
  <2>1. bound' = [bound EXCEPT ![k] = t] /\ binding' = [binding EXCEPT ![k] = rid]
    BY <1>5 DEF Bind
  <2>2. ForwardTypes'
    BY <1>1, <1>4, <1>5, <2>1 DEF ForwardTypes
  <2>3. /\ bound'[k] = t /\ binding'[k] = rid
        /\ \A j \in Kind : j # k => bound'[j] = bound[j] /\ binding'[j] = binding[j]
    BY <2>1 DEF ForwardTypes
  <2>4. BoundAs(k)' /\ UpToDate(k)'
    BY <1>1, <1>5, <2>3 DEF BoundAs, UpToDate, TracksOf
  <2>. QED BY <1>1, <1>3, <1>4, <1>5, <2>2, <2>3, <2>4, OneSender
<1>6. CASE /\ publish_tracks = {}
           /\ Bind(k, None, IF binding[k] = Disable THEN Disable ELSE None)
           /\ pre_rid' = [pre_rid EXCEPT ![k] = None]
  <2>1. PICK rid \in Name : rid = IF binding[k] = Disable THEN Disable ELSE None
    BY DEF Name
  <2>2. pre_rid' \in [Kind -> Name]
    BY <1>6 DEF ForwardTypes, Name
  <2>3. rid = Disable => binding[k] = Disable
    BY <2>1, Names
  <2>. QED BY <1>5, <1>6, <2>1, <2>2, <2>3
<1>7. CASE /\ \E t \in FirstOf(TracksOf(k)) : Bind(k, t, t.rid)
           /\ publish_tracks # {} /\ UNCHANGED pre_rid
  <2>1. PICK t \in FirstOf(TracksOf(k)) : Bind(k, t, t.rid)
    BY <1>7
  <2>2. t \in Track /\ t.kind = k /\ t.rid \in Rid /\ t # None
    BY FirstIsTrack
  <2>3. t.rid # Disable /\ t.rid \in Name /\ pre_rid' \in [Kind -> Name]
    BY <2>2, <1>7, Names DEF Name, ForwardTypes
  <2>. QED BY <1>5, <1>7, <2>1, <2>2, <2>3
<1>8. CASE /\ publish_tracks # {}
           /\ \/ bound[k] # None \/ binding[k] = Disable
              \/ TracksOf(k) = {} \/ \E t \in FirstOf(TracksOf(k)) : ~Accepts(k, t)
           /\ UNCHANGED bindVars
  <2>1. ForwardTypes'
    BY <1>1, <1>4, <1>8 DEF ForwardTypes, bindVars
  <2>2. BoundAs(k)'
    BY <1>8 DEF BindInv, BoundAs, bindVars
  <2>3. UpToDate(k)'
    BY <1>1, <1>3, <1>8 DEF UpToDate, TracksOf, bindVars
  <2>. QED BY <1>1, <1>3, <1>4, <1>8, <2>1, <2>2, <2>3, OneSender DEF bindVars
<1>. QED BY <1>2, <1>6, <1>7, <1>8

\* The select_layer_recv branch.
LEMMA SelectLayerStep ==
  ASSUME ForwardInv, NEW k \in Kind, SelectLayer(k)
  PROVE  ForwardInv'
<1>. ForwardTypes /\ BindInv
  BY DEF ForwardInv
<1>1. /\ loop[k] = "run" /\ select[k] \notin {None, Lagged}
      /\ select' = [select EXCEPT ![k] = None]
      /\ UNCHANGED <<publish_tracks, loop, change, asked>>
  BY DEF SelectLayer, pubVars
<1>2. select[k] \in Body /\ asked # 0
  BY <1>1 DEF ForwardTypes, ForwardInv, AskInv
<1>3. /\ select' \in [Kind -> Body \cup {None, Lagged}]
      /\ \A j \in Kind : j # k => select'[j] = select[j]
  BY <1>1 DEF ForwardTypes
<1>4. change[k] \/ (publish_tracks = {} => bound[k] = None)
  BY <1>1 DEF ForwardInv, NoLostChange
\* It is enough that the sender's own entry is right.
<1>5. ASSUME bound' \in [Kind -> Track \cup {None}], binding' \in [Kind -> Name],
             pre_rid' \in [Kind -> Name],
             \A j \in Kind : j # k => bound'[j] = bound[j] /\ binding'[j] = binding[j],
             BoundAs(k)', publish_tracks = {} => bound'[k] \in {None, bound[k]}
      PROVE  ForwardInv'
  <2>1. ForwardTypes'
    BY <1>1, <1>3, <1>5 DEF ForwardTypes
  <2>2. UpToDate(k)'
    BY <1>1, <1>2, <1>4, <1>5 DEF UpToDate
  <2>. QED BY <1>1, <1>2, <1>3, <1>5, <2>1, <2>2, OneSender
<1>6. CASE UNCHANGED bindVars
  <2>1. BoundAs(k)'
    BY <1>6 DEF BindInv, BoundAs, bindVars
  <2>. QED BY <1>5, <1>6, <2>1 DEF bindVars, ForwardTypes
<1>7. CASE SwitchOff(k)
  <2>1. /\ bound' = [bound EXCEPT ![k] = IF binding[k] # None THEN None ELSE @]
        /\ pre_rid' = [pre_rid EXCEPT ![k] = IF binding[k] # None THEN binding[k] ELSE @]
        /\ binding' = [binding EXCEPT ![k] = Disable]
    BY <1>7 DEF SwitchOff
  <2>2. bound[k] # None => binding[k] # None
    <3> SUFFICES ASSUME bound[k] # None PROVE binding[k] # None
      OBVIOUS
    <3>1. bound[k].rid \in Rid /\ binding[k] \in {Enable, bound[k].rid}
      BY TrackType DEF ForwardTypes, BindInv, BoundAs
    <3>. QED BY <3>1, Names
  <2>3. bound'[k] = None
    BY <2>1, <2>2 DEF ForwardTypes
  <2>4. BoundAs(k)'
    BY <2>3 DEF BoundAs
  <2>5. /\ bound' \in [Kind -> Track \cup {None}] /\ pre_rid' \in [Kind -> Name]
        /\ \A j \in Kind : j # k => bound'[j] = bound[j] /\ binding'[j] = binding[j]
    BY <2>1 DEF ForwardTypes
  <2>6. binding' \in [Kind -> Name]
    BY <2>1 DEF ForwardTypes, Name
  <2>. QED BY <1>5, <2>3, <2>4, <2>5, <2>6
<1>8. ASSUME NEW rid \in Name, SwitchTo(k, rid, binding[k] = Disable /\ select[k].rid = Enable)
      PROVE  ForwardInv'
  <2>0. pre_rid' \in [Kind -> Name]
    BY <1>8 DEF SwitchTo, ForwardTypes
  <2>1. ASSUME NEW t \in Candidates(rid), Accepts(k, t), Bind(k, t, rid) PROVE ForwardInv'
    <3>1. t \in publish_tracks /\ t \in Track /\ (t.rid = rid \/ rid = Enable)
      BY DEF Candidates, FirstOf, TracksOf, ForwardTypes
    <3>2. bound' = [bound EXCEPT ![k] = t] /\ binding' = [binding EXCEPT ![k] = rid]
      BY <2>1 DEF Bind
    <3>3. bound'[k] = t /\ binding'[k] = rid
      BY <3>2 DEF ForwardTypes
    <3>4. BoundAs(k)'
      BY <3>1, <3>3, <2>1 DEF BoundAs, Accepts
    <3>5. /\ bound' \in [Kind -> Track \cup {None}] /\ binding' \in [Kind -> Name]
          /\ \A j \in Kind : j # k => bound'[j] = bound[j] /\ binding'[j] = binding[j]
      BY <3>1, <3>2 DEF ForwardTypes
    <3>. QED BY <1>5, <2>0, <3>1, <3>4, <3>5
  <2>2. CASE /\ binding' = [binding EXCEPT ![k] = IF binding[k] = Disable /\ select[k].rid = Enable
                                                 THEN None ELSE @]
             /\ UNCHANGED bound
    <3>1. binding' \in [Kind -> Name]
      BY <2>2 DEF ForwardTypes, Name
    <3>2. BoundAs(k)'
      <4> SUFFICES ASSUME bound[k] # None
                   PROVE  bound[k].kind = k /\ binding'[k] \in {Enable, bound[k].rid}
        BY <2>2 DEF BoundAs
      <4>1. bound[k].rid \in Rid /\ bound[k].kind = k /\ binding[k] \in {Enable, bound[k].rid}
        BY TrackType DEF ForwardTypes, BindInv, BoundAs
      <4>2. binding[k] # Disable
        BY <4>1, Names
      <4>. QED BY <4>1, <4>2, <2>2 DEF ForwardTypes
    <3>3. \A j \in Kind : j # k => bound'[j] = bound[j] /\ binding'[j] = binding[j]
      BY <2>2 DEF ForwardTypes
    <3>. QED BY <1>5, <2>0, <2>2, <3>1, <3>2, <3>3 DEF ForwardTypes
  <2>. QED BY <1>8, <2>1, <2>2 DEF SwitchTo
<1>9. ASSUME NEW rid \in Wanted(k, select[k].rid) PROVE rid \in Name
  <2>1. select[k].rid \in Name /\ pre_rid[k] \in Name /\ None \in Name
    BY <1>2 DEF Body, Name, ForwardTypes
  <2>2. \A t \in FirstOf(TracksOf(k)) : t.rid \in Name
    BY FirstIsTrack DEF Name
  <2>. QED BY <2>1, <2>2 DEF Wanted
<1>10. \/ UNCHANGED bindVars
       \/ \E rid \in Wanted(k, select[k].rid) :
            IF rid = Disable THEN SwitchOff(k)
            ELSE SwitchTo(k, rid, binding[k] = Disable /\ select[k].rid = Enable)
  BY DEF SelectLayer
<1>. QED BY <1>6, <1>7, <1>8, <1>9, <1>10

--------------------------------------------------------------------------------
LEMMA ForwardNext == ForwardInv /\ [Next]_vars => ForwardInv'
<1> SUFFICES ASSUME ForwardInv, [Next]_vars PROVE ForwardInv'
  OBVIOUS
<1>1. ASSUME NEW k \in Kind, SessionEnds(k) \/ LoopStep(k) PROVE ForwardInv'
  BY <1>1, BreakStep, TrackChangeStep, SelectLayerStep DEF SessionEnds, LoopStep, SelectLagged
<1>2. CASE UNCHANGED vars
  BY <1>2 DEF vars, pubVars, bindVars, ForwardInv, ForwardTypes, BindInv, BoundAs, AskInv,
              NoLostChange, TracksOf
<1>. QED BY <1>1, <1>2, NotifySteps, OtherSteps DEF Next

LEMMA ForwardAlways == Spec => []ForwardInv
BY ForwardInit, ForwardNext, PTL DEF Spec

\* Whatever layers are published and asked for, the RTCP messages of a
\* subscriber go to the track it is sent (the binding table that
\* sender_forward_rtp writes and sender_forward_rtcp reads).
THEOREM RtcpFindsSource == Spec => []RtcpReachesSource
<1>1. ForwardInv => RtcpReachesSource
  <2> SUFFICES ASSUME ForwardInv, NEW k \in Kind, bound[k] \in publish_tracks, binding[k] # Enable
               PROVE  bound[k] \in RtcpTargets(k)
    BY DEF RtcpReachesSource
  <2>1. bound[k] # None
    BY Names DEF ForwardInv, ForwardTypes
  <2>. QED BY <2>1 DEF ForwardInv, BindInv, BoundAs, RtcpTargets, TracksOf
<1>. QED BY <1>1, ForwardAlways, PTL

\* No loop waits without a notification while there is a track for it, or one
\* to let go (publish_tracks_change, and the first notification of new).
THEOREM ChangesReachLoops == Spec => []NoLostChange
<1>1. ForwardInv => NoLostChange
  BY DEF ForwardInv
<1>. QED BY <1>1, ForwardAlways, PTL

\* A disabled sender stays disabled and silent in every step but the one that
\* handles a request of its client for something else (RID_DISABLE in the table).
THEOREM DisabledSendersSilent == Spec => DisabledStaysSilent
<1>1. ASSUME ForwardInv, [Next]_vars
      PROVE  [\A k \in Kind : binding[k] = Disable =>
                \/ binding'[k] = Disable /\ bound'[k] = None
                \/ /\ select[k] \in Body /\ select'[k] = None
                   /\ select[k].kind = k /\ select[k].rid # Disable]_vars
  <2> SUFFICES ASSUME Next, NEW k \in Kind, binding[k] = Disable
               PROVE  \/ binding'[k] = Disable /\ bound'[k] = None
                      \/ /\ select[k] \in Body /\ select'[k] = None
                         /\ select[k].kind = k /\ select[k].rid # Disable
    BY <1>1
  <2>. ForwardTypes /\ ForwardTypes'
    BY <1>1, ForwardNext DEF ForwardInv
  <2>1. bound[k] = None
    <3> SUFFICES ASSUME bound[k] # None PROVE FALSE
      OBVIOUS
    <3>1. bound[k].rid \in Rid /\ binding[k] \in {Enable, bound[k].rid}
      BY <1>1, TrackType DEF ForwardInv, ForwardTypes, BindInv, BoundAs
    <3>. QED BY <3>1, Names
  <2>2. CASE UNCHANGED <<bound, binding>>
    BY <2>1, <2>2
  <2>3. ASSUME NEW j \in Kind, Break(j) PROVE binding'[k] = Disable /\ bound'[k] = None
    BY <2>1, <2>3 DEF Break, ForwardTypes
  <2>4. ASSUME NEW j \in Kind, TrackChange(j) PROVE binding'[k] = Disable /\ bound'[k] = None
    <3>1. CASE j # k
      BY <2>1, <2>4, <3>1 DEF TrackChange, Bind, bindVars, ForwardTypes
    <3>2. CASE j = k
      BY <2>1, <2>4, <3>2 DEF TrackChange, Bind, bindVars, ForwardTypes
    <3>. QED BY <3>1, <3>2
  <2>5. ASSUME NEW j \in Kind, SelectLayer(j)
        PROVE  \/ binding'[k] = Disable /\ bound'[k] = None
               \/ /\ select[k] \in Body /\ select'[k] = None
                  /\ select[k].kind = k /\ select[k].rid # Disable
    <3>1. CASE j # k
      <4>1. /\ \E x : bound' = [bound EXCEPT ![j] = x]
            /\ \E x : binding' = [binding EXCEPT ![j] = x]
        <5>1. CASE UNCHANGED bindVars
          BY <5>1 DEF bindVars, ForwardTypes
        <5>2. CASE SwitchOff(j)
          BY <5>2 DEF SwitchOff
        <5>3. ASSUME NEW rid, SwitchTo(j, rid, binding[j] = Disable /\ select[j].rid = Enable)
              PROVE  /\ \E x : bound' = [bound EXCEPT ![j] = x]
                     /\ \E x : binding' = [binding EXCEPT ![j] = x]
          <6>1. bound = [bound EXCEPT ![j] = bound[j]]
            BY DEF ForwardTypes
          <6>. QED BY <5>3, <6>1 DEF SwitchTo, Bind
        <5>. QED BY <2>5, <5>1, <5>2, <5>3 DEF SelectLayer
      <4>. QED BY <2>1, <3>1, <4>1 DEF ForwardTypes
    <3>2. CASE j = k
      <4>1. select[k] \in Body /\ select'[k] = None
        BY <2>5, <3>2 DEF SelectLayer, ForwardTypes
      <4>2. CASE UNCHANGED bindVars
        BY <2>2, <4>2 DEF bindVars
      <4>3. CASE ~UNCHANGED bindVars
        <5>1. select[k].kind = k /\ select[k].rid # binding[k]
          BY <2>5, <3>2, <4>3 DEF SelectLayer
        <5>. QED BY <4>1, <5>1
      <4>. QED BY <4>2, <4>3
    <3>. QED BY <3>1, <3>2
  <2>6. \/ UNCHANGED <<bound, binding>>
        \/ \E j \in Kind : Break(j) \/ TrackChange(j) \/ SelectLayer(j)
    <3>1. CASE PublishUp \/ PublishDown \/ Subscribe \/ \E body \in Body : SelectKindRid(body)
      BY <3>1 DEF PublishUp, PublishDown, Subscribe, SelectKindRid, bindVars
    <3>2. CASE (\E p \in Publisher : RemovePublishTracks(p)) \/ \E t \in Track : PublishTrackUp(t)
      BY <3>2 DEF RemovePublishTracks, PublishTrackUp, bindVars
    <3>3. CASE \E j \in Kind : SessionEnds(j) \/ LoopStep(j)
      BY <3>3 DEF SessionEnds, LoopStep, SelectLagged
    <3>. QED BY <3>1, <3>2, <3>3 DEF Next
  <2>. QED BY <2>2, <2>3, <2>4, <2>5, <2>6
<1>. QED BY <1>1, ForwardAlways, PTL DEF Spec, DisabledStaysSilent
================================================================================
