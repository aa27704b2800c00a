---------------------------------- MODULE Fmp4 ---------------------------------
(***************************************************************************)
(* What the fragmented MP4 writer of the recorder                          *)
(* (liveion/src/recorder/fmp4.rs) puts into a file.  The layout of the     *)
(* boxes, their sizes and offsets, is left out.                            *)
(***************************************************************************)
EXTENDS Integers, Sequences, FiniteSetsExt

\* The codec string chooses the sample entry; one that is unknown, or empty,
\* gives avc1.
SampleEntry(cs) ==
  IF cs = "opus" THEN "Opus" ELSE IF cs \in {"hev1", "av01", "vp09"} THEN cs ELSE "avc1"

BuildInitSegment(cs, config) == [entry |-> SampleEntry(cs), config |-> config]

BuildFragment(seq_number, base_time, samples) ==
  [seq_number |-> seq_number, base_time |-> base_time, samples |-> samples]
================================================================================
