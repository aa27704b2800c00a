--------------------------- MODULE MCRecordingTask -----------------------------
(* Small instances of RecordingTask for TLC.                               *)
EXTENDS RecordingTask

E(f, u, p, n, k, ver) == [frame |-> f, unit |-> u, part |-> p, parts |-> n, kind |-> k, v |-> ver]

P(t, m, es) == [ts |-> t, marker |-> m, elems |-> es]

\* A keyframe with its parameter sets, a frame, padding, a keyframe with new
\* parameter sets, and a frame.  Timestamps wrap in between.
H264Script ==
  << P(6, FALSE, <<E(1, 1, 1, 1, "sps", 1)>>), P(6, FALSE, <<E(1, 2, 1, 1, "pps", 1)>>),
     P(6, FALSE, <<E(1, 3, 1, 2, "key", 0)>>), P(6, TRUE, <<E(1, 3, 2, 2, "key", 0)>>),
     P(7, TRUE, <<E(2, 1, 1, 1, "delta", 0)>>),
     P(7, FALSE, <<>>),
     P(8, FALSE, <<E(3, 1, 1, 1, "sps", 2), E(3, 2, 1, 1, "pps", 2)>>),
     P(8, TRUE, <<E(3, 3, 1, 1, "key", 0)>>),
     P(9, TRUE, <<E(4, 1, 1, 1, "delta", 0)>>) >>

\* A frame before the first keyframe.
H265Script ==
  << P(5, TRUE, <<E(1, 1, 1, 1, "delta", 0)>>),
     P(6, FALSE, <<E(2, 1, 1, 1, "vps", 1), E(2, 2, 1, 1, "sps", 1), E(2, 3, 1, 1, "pps", 1)>>),
     P(6, FALSE, <<E(2, 4, 1, 2, "key", 0)>>), P(6, TRUE, <<E(2, 4, 2, 2, "key", 0)>>),
     P(8, TRUE, <<E(3, 1, 1, 1, "key", 0)>>),
     P(9, FALSE, <<E(4, 1, 1, 2, "delta", 0)>>), P(9, TRUE, <<E(4, 1, 2, 2, "delta", 0)>>) >>

\* A profile other than 0, which a frame without a size gives away.
Vp9Script ==
  << P(5, TRUE, <<E(1, 1, 1, 1, "delta", 1)>>),
     P(6, FALSE, <<E(2, 1, 1, 3, "key", 1)>>), P(6, FALSE, <<E(2, 1, 2, 3, "key", 1)>>),
     P(6, TRUE, <<E(2, 1, 3, 3, "key", 1)>>),
     P(7, FALSE, <<E(3, 1, 1, 3, "delta", 1)>>), P(7, FALSE, <<E(3, 1, 2, 3, "delta", 1)>>),
     P(7, TRUE, <<E(3, 1, 3, 3, "delta", 1)>>),
     P(8, FALSE, <<>>),
     P(9, TRUE, <<E(4, 1, 1, 1, "key", 1)>>) >>

\* Units that go on in the next packet together with others.
Av1Script ==
  << P(6, FALSE, <<E(1, 1, 1, 1, "seq", 1), E(1, 2, 1, 2, "key", 0)>>),
     P(6, TRUE, <<E(1, 2, 2, 2, "key", 0)>>),
     P(7, FALSE, <<E(2, 1, 1, 3, "delta", 0)>>), P(7, FALSE, <<E(2, 1, 2, 3, "delta", 0)>>),
     P(7, TRUE, <<E(2, 1, 3, 3, "delta", 0), E(2, 2, 1, 1, "delta", 0)>>),
     P(8, FALSE, <<E(3, 1, 1, 1, "seq", 1), E(3, 2, 1, 2, "key", 0)>>),
     P(8, TRUE, <<E(3, 2, 2, 2, "key", 0)>>),
     P(9, TRUE, <<E(4, 1, 1, 1, "delta", 0)>>) >>

Scripts == [h264 |-> H264Script, h265 |-> H265Script, vp9 |-> Vp9Script, av1 |-> Av1Script]
\* H264 with time, audio and publishers that leave and come; H265 with a
\* publisher that comes back; VP9 and AV1 with more faults.
Audio  == [h264 |-> 2, h265 |-> 1, vp9 |-> 0, av1 |-> 0]
Faults == [h264 |-> 1, h265 |-> 1, vp9 |-> 2, av1 |-> 2]
Tracks == [h264 |-> 2, h265 |-> 4, vp9 |-> 1, av1 |-> 1]
Times  == [h264 |-> 3, h265 |-> 0, vp9 |-> 0, av1 |-> 1]

AllCodecs == {"h264", "h265", "vp9", "av1"}
================================================================================
