------------------------------ MODULE MCRegistry ------------------------------
(* Instances of Registry for TLC.                                            *)
EXTENDS Registry

MCRunnerOf == [p \in {"preset"} |-> "node"]
MCCategory == [i \in {"node", "bun", "preset"} |-> "js"]
===============================================================================
