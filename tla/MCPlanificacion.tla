--------------------------- MODULE MCPlanificacion ---------------------------
(* Instances of Planificacion for TLC: the priorities of the programs.      *)
EXTENDS Planificacion

(* PID 0 has the best priority (main.c:369); its children are worse.        *)
PrioridadTresColas == [p \in Pids |-> p]
(* All in one queue (algorithms FIFO and RR).                               *)
UnaCola == [p \in Pids |-> 0]

(* Lengths of the programs: PID 0 starts the others.                        *)
UnaCadaUno == [p \in Pids |-> 1]
DosYUna == [p \in Pids |-> IF p = 0 THEN 2 ELSE 1]

Simetria == Permutations(CPUs)
=============================================================================
