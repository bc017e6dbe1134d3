-------------------------- MODULE MCRecordingFiles --------------------------
(* The instances TLC checks: see README.md for why these sizes are enough. *)
EXTENDS RecordingFiles, TLC

=============================================================================
