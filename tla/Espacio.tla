------------------------------ MODULE Espacio ------------------------------
(***************************************************************************)
(* What Kernel Memory promises to the processes: each one has segments of   *)
(* its own, and what it has written in one stays there until it frees it or *)
(* ends.  Where the segments are (holes, compaction, swap) is not part of   *)
(* the promise.                                                             *)
(***************************************************************************)
EXTENDS Integers

CONSTANTS Procesos, Ids, Tamanios

VARIABLES
  segmentos,  \* segments of each process, as [id, tam]
  contenido,  \* bytes <<id, offset>> of each process that hold what it wrote
  respaldo    \* nobody has lost the connection with the swap module

vars == <<segmentos, contenido, respaldo>>

Bytes(s) == {s.id} \X (0 .. s.tam - 1)

Init ==
  /\ segmentos = [p \in Procesos |-> {}]
  /\ contenido = [p \in Procesos |-> {}]
  /\ respaldo = TRUE

(* Memory is given as it is, so a new segment may hold anything.            *)
Reservar(p, s) ==
  /\ \A t \in segmentos[p] : t.id # s.id
  /\ segmentos' = [segmentos EXCEPT ![p] = @ \cup {s}]
  /\ \E c \in SUBSET Bytes(s) : contenido' = [contenido EXCEPT ![p] = @ \cup c]
  /\ UNCHANGED respaldo

Escribir(p, s) ==
  /\ UNCHANGED <<segmentos, respaldo>>
  /\ \E b \in Bytes(s) : contenido' = [contenido EXCEPT ![p] = @ \cup {b}]

Liberar(p, s) ==
  /\ segmentos' = [segmentos EXCEPT ![p] = @ \ {s}]
  /\ contenido' = [contenido EXCEPT ![p] = @ \ Bytes(s)]
  /\ UNCHANGED respaldo

Terminar(p) ==
  /\ segmentos' = [segmentos EXCEPT ![p] = {}]
  /\ contenido' = [contenido EXCEPT ![p] = {}]
  /\ UNCHANGED respaldo

PerderRespaldo == respaldo = TRUE /\ respaldo' = FALSE /\ UNCHANGED <<segmentos, contenido>>

(* Without swap, what one process had there is lost: some of its segments    *)
(* hold anything from then on.                                              *)
Perder(p, S) ==
  /\ respaldo = FALSE
  /\ UNCHANGED <<segmentos, respaldo>>
  /\ LET perdido == UNION {Bytes(s) : s \in S}
     IN  \E c \in SUBSET perdido : contenido' = [contenido EXCEPT ![p] = (@ \ perdido) \cup c]

Next ==
  \/ PerderRespaldo
  \/ \E p \in Procesos : Terminar(p)
  \/ \E p \in Procesos : \E s \in segmentos[p] : Escribir(p, s) \/ Liberar(p, s)
  \/ \E p \in Procesos : \E S \in SUBSET segmentos[p] : Perder(p, S)
  \/ \E p \in Procesos, s \in [id : Ids, tam : Tamanios] : Reservar(p, s)

Spec == Init /\ [][Next]_vars
=============================================================================
