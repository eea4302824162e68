------------------------------ MODULE MCPlatform ------------------------------
(***************************************************************************)
(* Two configurations for TLC: one plan restricted to an organization that *)
(* changes, the other open to all, then to nobody.                         *)
(***************************************************************************)
EXTENDS Platform, TLC

CONSTANTS small, large, org1, org2

MCConfigs == {small :> org1 @@ large :> "enable",
              small :> org2 @@ large :> "disable"}
=============================================================================
