------------------------------ MODULE MCVersions ------------------------------
(***************************************************************************)
(* Three configurations for TLC.  The second has a new release, whose      *)
(* maintenance_info one plan overrides and the other inherits, and another *)
(* update block.  The third withdraws a plan and calls the version of the  *)
(* other one by nothing.                                                   *)
(***************************************************************************)
EXTENDS Versions

CONSTANTS small, large, key, v1, v2

Info(public, version) == [public |-> [k \in Keys |-> public],
                          private |-> [k \in Keys |-> Absent], version |-> version]
Plan(info, release, update) == [info |-> info, release |-> release, update |-> update]

MCConfigs ==
  {[offering |-> Info(v1, v1),
    plans |-> [p \in {small, large} |-> Plan(NoInfo, 1, 1)]],
   [offering |-> Info(v1, v2),
    plans |-> [p \in {small, large} |-> Plan(IF p = large THEN Info(v2, Absent) ELSE NoInfo, 2, 2)]],
   [offering |-> NoInfo,
    plans |-> [p \in {large} |-> Plan(NoInfo, 3, 2)]]}
=============================================================================
