--------------------------- MODULE MCPushDelivery ---------------------------
(* The instance TLC checks: see README.md for why these sizes are enough. *)
EXTENDS PushDelivery, TLC

CONSTANTS i1, i2, i3, i4

MCDevice == {"app", "chrome"}
MCNative == {"app"}
MCPlatform == [d \in MCDevice |-> "android"]
MCId == {i1, i2, i3, i4}
MCFanOut == {1}

Symmetry == Permutations(MCId)

=============================================================================
