-------------------------- MODULE MCArtifactRotation --------------------------
(* The startup rotation and one offline compile over three days, two feeds  *)
(* - the second one is published before it becomes valid - and two compiler *)
(* versions.                                                                *)
EXTENDS ArtifactRotation, TLC

CONSTANTS startup, manual

MCMode == (startup :> "rotation") @@ (manual :> "offline")

MCValidFrom == (1 :> 1) @@ (2 :> 2)

MCValidUntil == (1 :> 2) @@ (2 :> 3)

===============================================================================
