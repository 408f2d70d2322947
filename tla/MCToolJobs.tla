------------------------------ MODULE MCToolJobs ------------------------------
(* Instances of ToolJobs for TLC.                                           *)
EXTENDS ToolJobsLife

CONSTANTS t1, k1

OneTool == [j \in Jobs |-> t1]
NoKeys  == [j \in Jobs |-> {}]
Serial  == [j \in Jobs |-> IF j <= 2 THEN {k1} ELSE {}]
=============================================================================
