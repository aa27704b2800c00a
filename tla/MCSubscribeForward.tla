--------------------------- MODULE MCSubscribeForward --------------------------
(* A small instance of SubscribeForward for TLC.                           *)
EXTENDS SubscribeForward

\* A publisher with a video track that the subscriber cannot take and an audio
\* track, then one with two video layers and an audio track.
PlainThenSimulcast == << {0}, {1, 2} >>
Both == {1, 2}
FirstVideo == { <<1, "video">> }
================================================================================
