-------------------------- MODULE MCRoomRecording --------------------------
(* The instance TLC checks: see README.md for why these sizes are enough. *)
EXTENDS RoomRecording, TLC

MCRoom == {"room"}
MCSocket == {"host", "guest"}
MCWorker == {1}
MCRouter == {"r", "q"}
MCProducer == {"w"}
MCOwner == [p \in Producer |-> "host"]
MCSource == [p \in Producer |-> "webcam"]
MCStart == {"a"}
MCDropping == {"guest"}

=============================================================================
