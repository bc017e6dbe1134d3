------------------------- MODULE MCRecordingService -------------------------
(* The instances TLC checks: see README.md for why these sizes are enough. *)
EXTENDS RecordingService, TLC

CONSTANTS a, b

MCStart == {a, b}
MCOneStart == {a}

\* One participant: a mic, a webcam and the webcam's successor.
MCOnePeer == {"m", "w", "v"}
MCOneWebcam == {"w"}

MCOwner == [p \in Producer |-> "host"]
MCSource == [p \in Producer |-> IF p = "m" THEN "mic" ELSE "webcam"]

\* Bound: takes launched in one behaviour.
TwoTakes == Cardinality(DOMAIN takes) <= 2

=============================================================================
