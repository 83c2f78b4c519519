------------------------------- MODULE Turnos -------------------------------
(* What the short-term scheduler promises to the programs, whatever its     *)
(* queues, its threads and its algorithm: a process is created once, runs   *)
(* on one CPU at a time, takes only a CPU that runs nothing, and does not   *)
(* run after its end.                                                       *)
EXTENDS Naturals

CONSTANTS
  Procesos,  \* pids
  CPUs,
  NADIE      \* no process

VARIABLES
  dados,  \* pids that have been given out
  vivos,  \* processes that have not ended
  corre   \* what each CPU runs

Init ==
  /\ \E p \in Procesos : dados = {p} /\ vivos = {p}
  /\ corre = [c \in CPUs |-> NADIE]

(* A running process creates another.                                       *)
Crear(p) ==
  /\ p \notin dados
  /\ \E c \in CPUs : corre[c] \in vivos
  /\ dados' = dados \cup {p} /\ vivos' = vivos \cup {p}
  /\ UNCHANGED corre

(* It takes turns on the CPUs.                                              *)
Correr(c, p) ==
  /\ corre[c] = NADIE
  /\ p \in vivos /\ \A d \in CPUs : corre[d] # p
  /\ corre' = [corre EXCEPT ![c] = p]
  /\ UNCHANGED <<dados, vivos>>

(* A process stops: its CPU is free for another.                            *)
Dejar(c) ==
  /\ corre[c] \in vivos
  /\ corre' = [corre EXCEPT ![c] = NADIE]
  /\ UNCHANGED <<dados, vivos>>

(* A process ends, or Kernel Memory rejects it before it has ever run.      *)
Terminar(p) ==
  /\ p \in vivos /\ \A c \in CPUs : corre[c] # p
  /\ vivos' = vivos \ {p}
  /\ UNCHANGED <<dados, corre>>

Next ==
  \/ \E p \in Procesos : Crear(p) \/ Terminar(p) \/ \E c \in CPUs : Correr(c, p)
  \/ \E c \in CPUs : Dejar(c)

Spec == Init /\ [][Next]_<<dados, vivos, corre>>
=============================================================================
