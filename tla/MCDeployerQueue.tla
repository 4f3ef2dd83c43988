--------------------------- MODULE MCDeployerQueue ---------------------------
(***************************************************************************)
(* DeployerQueue for TLC. The writes are alike, so it is enough to look at *)
(* the behaviours in which they come in the order of their numbers (a      *)
(* SYMMETRY set would not be sound for the liveness property).             *)
(***************************************************************************)
EXTENDS DeployerQueue

InOrder ==
  \A v, w \in Writes :
    v < w /\ caller[w] # "idle" => caller[v] # "idle" /\ ticket[v] < ticket[w]
=============================================================================
