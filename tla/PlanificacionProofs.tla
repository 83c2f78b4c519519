------------------------- MODULE PlanificacionProofs -------------------------
(* Proofs about Planificacion, for any number of CPUs and processes, any    *)
(* priorities, any algorithm and any programs.                              *)
EXTENDS Planificacion, Secuencias, FiniteSetTheorems

(***************************************************************************)
(* Type correctness.  The local variables of a thread are defined where it  *)
(* uses them.                                                               *)
(***************************************************************************)
ConProceso == PCs \ {"sin_conectar", "espera", "caida"}

LocalManejador ==
  \A c \in CPUs : /\ pc[c] \in ConProceso => proc[c] \in Pids
                  /\ pc[c] \in {"crear", "prio_nuevo"} => nuevo[c] \in Pids
LocalDespacho ==
  /\ dpc # "siguiente" => dproc \in Pids
  /\ dpc \in {"compactacion", "exec", "registrar", "timer"} => dcpu \in CPUs

Tipos == TypeOK /\ LocalManejador /\ LocalDespacho

LEMMA PidsFacts == Pids \subseteq Nat /\ 0 \in Pids /\ NADIE \notin Pids
BY MaxProcesosAssumption, NadieAssumption DEF Pids

(* The pair (cpu, pid) that quitar_de_exec drops leaves a list of pairs.    *)
LEMMA SinParTipo ==
  ASSUME NEW pares \in Seq(Pares), NEW p
  PROVE  SinPar(pares, p) \in Seq(Pares)
<1> DEFINE I == {i \in 1 .. Len(pares) : pares[i].pid = p}
<1>1. CASE I = {}
  BY <1>1 DEF SinPar, RemoveFirstMatch
<1>2. CASE I # {}
  <2>1. Min(I) \in I
    <3>1. I \subseteq Nat
      BY LenProperties
    <3> HIDE DEF I
    <3> QED BY <1>2, <3>1, MinProperties
  <2>2. SinPar(pares, p) = RemoveAt(pares, Min(I))
    BY <1>2 DEF SinPar, RemoveFirstMatch, SelectInSeq
  <2>3. Min(I) \in 1 .. Len(pares)
    <3> HIDE DEF I
    <3> QED BY <2>1 DEF I
  <2> HIDE DEF I
  <2> QED BY <2>2, <2>3, RemoveAtProperties
<1> QED BY <1>1, <1>2

LEMMA QuitarDeExecTipo ==
  ASSUME exec \in Seq(Pids), cpuProceso \in Seq(Pares), NEW p, QuitarDeExec(p)
  PROVE  exec' \in Seq(Pids) /\ cpuProceso' \in Seq(Pares)
BY SinParTipo, RemoveFirstProperties DEF QuitarDeExec

(* obtener_socket_cpu_de finds a CPU or nothing, obtener_pid_de_cpu a pid.  *)
LEMMA SocketCpuDeTipo ==
  ASSUME cpuProceso \in Seq(Pares), NEW p
  PROVE  SocketCpuDe(p) \in CPUs \cup {NADIE}
<1> DEFINE I == {i \in 1 .. Len(cpuProceso) : cpuProceso[i].pid = p}
<1>1. CASE I = {}
  BY <1>1 DEF SocketCpuDe, SelectInSeq
<1>2. CASE I # {}
  <2>1. Min(I) \in I
    <3>1. I \subseteq Nat
      BY LenProperties
    <3> HIDE DEF I
    <3> QED BY <1>2, <3>1, MinProperties
  <2>2. SocketCpuDe(p) = IF Min(I) = 0 THEN NADIE ELSE cpuProceso[Min(I)].cpu
    BY <1>2 DEF SocketCpuDe, SelectInSeq
  <2>3. Min(I) \in 1 .. Len(cpuProceso)
    <3> HIDE DEF I
    <3> QED BY <2>1 DEF I
  <2> HIDE DEF I
  <2>4. cpuProceso[Min(I)] \in Pares
    BY <2>3, ElementOfSeq
  <2> QED BY <2>2, <2>4 DEF Pares
<1> QED BY <1>1, <1>2

LEMMA PidDeCpuTipo ==
  ASSUME cpuProceso \in Seq(Pares), NEW c
  PROVE  PidDeCpu(c) \in Pids \cup {NADIE}
<1> DEFINE I == {i \in 1 .. Len(cpuProceso) : cpuProceso[i].cpu = c}
<1>1. CASE I = {}
  BY <1>1 DEF PidDeCpu, SelectInSeq
<1>2. CASE I # {}
  <2>1. Min(I) \in I
    <3>1. I \subseteq Nat
      BY LenProperties
    <3> HIDE DEF I
    <3> QED BY <1>2, <3>1, MinProperties
  <2>2. PidDeCpu(c) = IF Min(I) = 0 THEN NADIE ELSE cpuProceso[Min(I)].pid
    BY <1>2 DEF PidDeCpu, SelectInSeq
  <2>3. Min(I) \in 1 .. Len(cpuProceso)
    <3> HIDE DEF I
    <3> QED BY <2>1 DEF I
  <2> HIDE DEF I
  <2>4. cpuProceso[Min(I)] \in Pares
    BY <2>3, ElementOfSeq
  <2> QED BY <2>2, <2>4 DEF Pares
<1> QED BY <1>1, <1>2

(* A push to ready and the marks agregar_a_ready and the compaction leave.  *)
LEMMA ConEnReadyTipo ==
  ASSUME ready \in Seq(Pids), NEW p \in Pids
  PROVE  ConEnReady(p) \in Seq(Pids)
BY AppendProperties DEF ConEnReady

LEMMA MarcasPorPrioridadTipo ==
  ASSUME TypeOK, NEW p
  PROVE  MarcasPorPrioridad(p) \in [CPUs -> Nat]
<1> DEFINE v == PeorCandidato(p)
           c == IF v = NADIE THEN NADIE ELSE SocketCpuDe(v)
<1>1. c \in CPUs \cup {NADIE}
  BY SocketCpuDeTipo DEF TypeOK, TipoListas
<1>2. MarcasPorPrioridad(p) = IF c = NADIE THEN marcas ELSE [marcas EXCEPT ![c] = @ + 1]
  BY DEF MarcasPorPrioridad
<1> HIDE DEF c, v
<1> QED BY <1>1, <1>2 DEF TypeOK, TipoQuantum

LEMMA MarcadosTipo ==
  ASSUME exec \in Seq(Pids), NEW c
  PROVE  Cardinality({i \in DOMAIN exec : SocketCpuDe(exec[i]) = c}) \in Nat
<1>1. DOMAIN exec = 1 .. Len(exec) /\ Len(exec) \in Nat
  BY LenProperties
<1>2. IsFiniteSet(1 .. Len(exec))
  BY <1>1, FS_Interval
<1> QED BY <1>1, <1>2, FS_Subset, FS_CardinalityType

(* A process pushed at the head of ready.                                   *)
LEMMA AlPrincipioTipo ==
  ASSUME NEW s \in Seq(Pids), NEW p \in Pids
  PROVE  /\ <<p>> \o s \in Seq(Pids)
         /\ Len(<<p>> \o s) = Len(s) + 1
         /\ (<<p>> \o s)[1] = p
         /\ \A i \in 1 .. Len(s) : (<<p>> \o s)[i + 1] = s[i]
<1>1. <<p>> \in Seq(Pids) /\ Len(<<p>>) = 1 /\ <<p>>[1] = p
  OBVIOUS
<1>2. /\ <<p>> \o s \in Seq(Pids)
      /\ Len(<<p>> \o s) = Len(<<p>>) + Len(s)
      /\ \A i \in 1 .. Len(<<p>>) + Len(s) :
           (<<p>> \o s)[i] = IF i <= Len(<<p>>) THEN <<p>>[i] ELSE s[i - Len(<<p>>)]
  BY <1>1, ConcatProperties
<1>3. Len(s) \in Nat
  BY LenProperties
<1> QED BY <1>1, <1>2, <1>3

(* An instruction run takes one from what is left of its program.           *)
LEMMA RecibeTipo ==
  ASSUME TipoProceso, NEW c, NEW p, Recibe(c, p)
  PROVE  p \in Pids /\ resto' \in [Pids -> Nat]
<1>1. p \in Pids
  BY DEF TipoProceso, Recibe
<1>2. resto \in [Pids -> Nat] /\ resto[p] > 0 /\ resto' = [resto EXCEPT ![p] = resto[p] - 1]
  BY DEF TipoProceso, Recibe
<1>3. resto[p] - 1 \in Nat
  BY <1>1, <1>2
<1> QED BY <1>1, <1>2, <1>3

(* What an action leaves alone keeps its type.                              *)
LEMMA TiposEstables ==
  ASSUME Tipos
  PROVE  /\ UNCHANGED proceso => TipoProceso'
         /\ UNCHANGED listas => TipoListas'
         /\ UNCHANGED quantum => TipoQuantum'
         /\ UNCHANGED manejador => TipoManejador' /\ LocalManejador'
         /\ UNCHANGED despacho => TipoDespacho' /\ LocalDespacho'
         /\ UNCHANGED compactacion => TipoCompactacion'
         /\ UNCHANGED caidas => (caidas \in Nat)'
<1>1. TypeOK /\ LocalManejador /\ LocalDespacho
  BY DEF Tipos
<1>2. UNCHANGED proceso => TipoProceso'
  BY <1>1 DEF TypeOK, TipoProceso, proceso
<1>3. UNCHANGED listas => TipoListas'
  BY <1>1 DEF TypeOK, TipoListas, listas
<1>4. UNCHANGED quantum => TipoQuantum'
  BY <1>1 DEF TypeOK, TipoQuantum, quantum
<1>5. UNCHANGED manejador => TipoManejador' /\ LocalManejador'
  BY <1>1 DEF TypeOK, TipoManejador, LocalManejador, manejador
<1>6. UNCHANGED despacho => TipoDespacho' /\ LocalDespacho'
  BY <1>1 DEF TypeOK, TipoDespacho, LocalDespacho, despacho
<1>7. UNCHANGED compactacion => TipoCompactacion'
  BY <1>1 DEF TypeOK, TipoCompactacion, compactacion
<1> QED BY <1>1, <1>2, <1>3, <1>4, <1>5, <1>6, <1>7 DEF TypeOK

(* Every action keeps the types.                                            *)
LEMMA TiposPaso == Tipos /\ [Next]_vars => Tipos'
<1> SUFFICES ASSUME Tipos, [Next]_vars PROVE Tipos'
  OBVIOUS
<1> USE DEF Tipos, TypeOK, IrA, CambiarEstado
<1>1. CASE ObtenerSiguiente
  <2>1. TipoListas'
    BY <1>1, RemoveAtProperties, LenProperties DEF ObtenerSiguiente, TipoListas
  <2>2. TipoDespacho' /\ LocalDespacho'
    BY <1>1, ElementOfSeq, LenProperties DEF ObtenerSiguiente, TipoDespacho,
       LocalDespacho, TipoListas
  <2> QED BY <1>1, TiposEstables, <2>1, <2>2 DEF ObtenerSiguiente
<1>2. CASE ObtenerCpu
  <2>1. TipoListas'
    BY <1>2, HeadTailProperties DEF ObtenerCpu, TipoListas
  <2>2. TipoDespacho' /\ LocalDespacho'
    BY <1>2, HeadTailProperties DEF ObtenerCpu, TipoDespacho, LocalDespacho,
       TipoListas
  <2> QED BY <1>2, TiposEstables, <2>1, <2>2 DEF ObtenerCpu
<1>3. CASE EsperarCompactacion
  <2>1. TipoDespacho' /\ LocalDespacho'
    BY <1>3 DEF EsperarCompactacion, TipoDespacho, LocalDespacho
  <2> QED BY <1>3, TiposEstables, <2>1 DEF EsperarCompactacion
<1>4. CASE Despachar
  <2>1. TipoProceso'
    BY <1>4 DEF Despachar, TipoProceso, Estados, LocalDespacho
  <2>2. TipoListas'
    BY <1>4, AppendProperties DEF Despachar, TipoListas, LocalDespacho
  <2>3. TipoManejador' /\ LocalManejador'
    BY <1>4 DEF Despachar, TipoManejador, LocalManejador, ConProceso, PCs,
       LocalDespacho
  <2>4. TipoDespacho' /\ LocalDespacho'
    BY <1>4 DEF Despachar, TipoDespacho, LocalDespacho
  <2> QED BY <1>4, TiposEstables, <2>1, <2>2, <2>3, <2>4 DEF Despachar
<1>5. CASE RegistrarCpuProceso
  <2>1. TipoListas'
    BY <1>5, AppendProperties DEF RegistrarCpuProceso, TipoListas, LocalDespacho,
       Pares
  <2>2. TipoDespacho' /\ LocalDespacho'
    BY <1>5 DEF RegistrarCpuProceso, TipoDespacho, LocalDespacho
  <2> QED BY <1>5, TiposEstables, <2>1, <2>2 DEF RegistrarCpuProceso
<1>6. CASE CrearTimer
  <2>1. TipoQuantum'
    BY <1>6 DEF CrearTimer, TipoQuantum, LocalDespacho
  <2>2. TipoDespacho' /\ LocalDespacho'
    BY <1>6, NadieAssumption DEF CrearTimer, TipoDespacho, LocalDespacho
  <2> QED BY <1>6, TiposEstables, <2>1, <2>2 DEF CrearTimer
<1>7. CASE RecibirCompactar
  <2>1. TipoCompactacion'
    BY <1>7, HeadTailProperties DEF RecibirCompactar, TipoCompactacion
  <2> QED BY <1>7, TiposEstables, <2>1 DEF RecibirCompactar
<1>8. CASE AvisarDesalojo
  <2>1. TipoCompactacion'
    BY <1>8 DEF AvisarDesalojo, TipoCompactacion
  <2> QED BY <1>8, TiposEstables, <2>1 DEF AvisarDesalojo
<1>9. CASE MarcarEnExec
  <2>1. TipoCompactacion'
    BY <1>9, LenProperties DEF MarcarEnExec, TipoCompactacion, TipoListas
  <2>2. TipoQuantum'
    <3> DEFINE suyas(c) == Cardinality({i \in DOMAIN exec : SocketCpuDe(exec[i]) = c})
    <3>1. \A c \in CPUs : suyas(c) \in Nat
      BY MarcadosTipo DEF TipoListas
    <3>2. marcas' = [c \in CPUs |-> marcas[c] + suyas(c)]
      BY <1>9 DEF MarcarEnExec
    <3>3. UNCHANGED <<timers, vencidos>>
      BY <1>9 DEF MarcarEnExec
    <3> HIDE DEF suyas
    <3>4. \A c \in CPUs : marcas[c] + suyas(c) \in Nat
      BY <3>1 DEF TipoQuantum
    <3> QED BY <3>2, <3>3, <3>4 DEF TipoQuantum
  <2> QED BY <1>9, TiposEstables, <2>1, <2>2 DEF MarcarEnExec
<1>10. CASE EsperarDesalojo
  <2>1. TipoCompactacion'
    BY <1>10 DEF EsperarDesalojo, TipoCompactacion
  <2> QED BY <1>10, TiposEstables, <2>1 DEF EsperarDesalojo
<1>11. CASE ConfirmarCompactacion
  <2>1. TipoCompactacion'
    BY <1>11 DEF ConfirmarCompactacion, TipoCompactacion
  <2> QED BY <1>11, TiposEstables, <2>1 DEF ConfirmarCompactacion
<1>12. CASE BajarDesalojo
  <2>1. TipoCompactacion'
    BY <1>12 DEF BajarDesalojo, TipoCompactacion
  <2> QED BY <1>12, TiposEstables, <2>1 DEF BajarDesalojo
<1>13. CASE RecibirFin
  <2>1. TipoCompactacion'
    BY <1>13, HeadTailProperties DEF RecibirFin, TipoCompactacion
  <2> QED BY <1>13, TiposEstables, <2>1 DEF RecibirFin
<1>14. CASE Reposo
  <2> QED BY <1>14, TiposEstables DEF Reposo, vars
<1>15. ASSUME NEW c \in CPUs, VencerQuantum(c) PROVE Tipos'
  <2>1. TipoQuantum'
    BY <1>15 DEF VencerQuantum, TipoQuantum
  <2> QED BY <1>15, TiposEstables, <2>1 DEF VencerQuantum
<1>16. ASSUME NEW c \in CPUs, MarcarVencido(c) PROVE Tipos'
  <2>1. TipoQuantum'
    BY <1>16 DEF MarcarVencido, TipoQuantum
  <2> QED BY <1>16, TiposEstables, <2>1 DEF MarcarVencido
<1>17. ASSUME NEW c \in CPUs, Conectar(c) PROVE Tipos'
  <2>1. TipoListas'
    BY <1>17, AppendProperties DEF Conectar, TipoListas
  <2>2. TipoManejador' /\ LocalManejador'
    BY <1>17 DEF Conectar, TipoManejador, LocalManejador, ConProceso, PCs
  <2> QED BY <1>17, TiposEstables, <2>1, <2>2 DEF Conectar
<1>18. ASSUME NEW c \in CPUs, TickSigue(c) PROVE Tipos'
  <2>1. TipoProceso'
    BY <1>18, RecibeTipo DEF TickSigue, TipoProceso, Estados
  <2> QED BY <1>18, TiposEstables, <2>1 DEF TickSigue
<1>19. ASSUME NEW c \in CPUs, TickDesaloja(c) PROVE Tipos'
  <2>1. TipoProceso'
    BY <1>19, RecibeTipo DEF TickDesaloja, TipoProceso, Estados
  <2>2. TipoListas'
    BY <1>19, QuitarDeExecTipo DEF TickDesaloja, TipoListas, Recibe
  <2>3. TipoQuantum'
    BY <1>19 DEF TickDesaloja, TipoQuantum, CancelarTimer, MenosUno
  <2>4. TipoManejador' /\ LocalManejador'
    BY <1>19, RecibeTipo DEF TickDesaloja, TipoManejador, LocalManejador,
       ConProceso, PCs, TipoProceso,
       Recibe
  <2> QED BY <1>19, TiposEstables, <2>1, <2>2, <2>3, <2>4 DEF TickDesaloja
<1>20. ASSUME NEW c \in CPUs, SyscallExit(c) PROVE Tipos'
  <2>1. TipoProceso'
    BY <1>20, PidsFacts DEF SyscallExit, TipoProceso, Estados
  <2>2. TipoListas'
    BY <1>20, QuitarDeExecTipo DEF SyscallExit, TipoListas
  <2>3. TipoQuantum'
    BY <1>20 DEF SyscallExit, TipoQuantum, CancelarTimer, MenosUno
  <2>4. TipoManejador' /\ LocalManejador'
    BY <1>20, PidsFacts DEF SyscallExit, TipoManejador, LocalManejador, ConProceso,
       PCs, TipoProceso
  <2> QED BY <1>20, TiposEstables, <2>1, <2>2, <2>3, <2>4 DEF SyscallExit
<1>21. ASSUME NEW c \in CPUs, SyscallInitProc(c) PROVE Tipos'
  <2>1. TipoProceso'
    BY <1>21, MaxProcesosAssumption, RecibeTipo DEF SyscallInitProc, TipoProceso,
       Estados, Pids
  <2>2. proximo_pid \in Pids
    BY <1>21, MaxProcesosAssumption DEF SyscallInitProc, TipoProceso, Pids
  <2>3. enCpu[c] \in Pids
    BY <1>21, RecibeTipo DEF SyscallInitProc
  <2>4. TipoManejador' /\ LocalManejador'
    BY <1>21, <2>2, <2>3 DEF SyscallInitProc, TipoManejador, LocalManejador,
       ConProceso, PCs
  <2> QED BY <1>21, TiposEstables, <2>1, <2>4 DEF SyscallInitProc
<1>22. ASSUME NEW c \in CPUs, SyscallMem(c) PROVE Tipos'
  <2>1. TipoProceso'
    BY <1>22, RecibeTipo DEF SyscallMem, TipoProceso, Estados
  <2>2. TipoListas'
    BY <1>22, RemoveFirstProperties DEF SyscallMem, TipoListas, Recibe
  <2>3. TipoQuantum'
    BY <1>22 DEF SyscallMem, TipoQuantum, CancelarTimer, MenosUno
  <2>4. TipoManejador' /\ LocalManejador'
    BY <1>22, RecibeTipo DEF SyscallMem, TipoManejador, LocalManejador, ConProceso,
       PCs, TipoProceso, Recibe
  <2> QED BY <1>22, TiposEstables, <2>1, <2>2, <2>3, <2>4 DEF SyscallMem
<1>23. ASSUME NEW c \in CPUs, ReencolarPorCompactacion(c) PROVE Tipos'
  <2>1. TipoListas'
    BY <1>23, AlPrincipioTipo DEF ReencolarPorCompactacion, TipoListas,
       LocalManejador, ConProceso,
       TipoManejador, PCs
  <2>2. TipoManejador' /\ LocalManejador'
    BY <1>23 DEF ReencolarPorCompactacion, TipoManejador, LocalManejador,
       ConProceso, PCs
  <2>3. TipoCompactacion'
    BY <1>23 DEF ReencolarPorCompactacion, TipoCompactacion
  <2> QED BY <1>23, TiposEstables, <2>1, <2>2, <2>3 DEF ReencolarPorCompactacion
<1>24. ASSUME NEW c \in CPUs, ReencolarPorTick(c) PROVE Tipos'
  <2>1. TipoListas'
    BY <1>24, ConEnReadyTipo DEF ReencolarPorTick, TipoListas, LocalManejador,
       ConProceso, TipoManejador, PCs
  <2>2. TipoManejador' /\ LocalManejador'
    BY <1>24 DEF ReencolarPorTick, TipoManejador, LocalManejador, ConProceso, PCs,
       TrasAgregar,
       Siguiente
  <2> QED BY <1>24, TiposEstables, <2>1, <2>2 DEF ReencolarPorTick
<1>25. ASSUME NEW c \in CPUs, DesalojarPorPrioridad(c) PROVE Tipos'
  <2>1. TipoQuantum'
    BY <1>25, MarcasPorPrioridadTipo DEF DesalojarPorPrioridad, TipoQuantum
  <2>2. TipoManejador' /\ LocalManejador'
    BY <1>25 DEF DesalojarPorPrioridad, TipoManejador, LocalManejador, ConProceso,
       PCs,
       Siguiente
  <2> QED BY <1>25, TiposEstables, <2>1, <2>2 DEF DesalojarPorPrioridad
<1>26. ASSUME NEW c \in CPUs, LiberarCpu(c) PROVE Tipos'
  <2>1. TipoListas'
    BY <1>26, AppendProperties DEF LiberarCpu, TipoListas
  <2>2. TipoManejador' /\ LocalManejador'
    BY <1>26 DEF LiberarCpu, TipoManejador, LocalManejador, ConProceso, PCs
  <2> QED BY <1>26, TiposEstables, <2>1, <2>2 DEF LiberarCpu
<1>27. ASSUME NEW c \in CPUs, FinalizarProceso(c) PROVE Tipos'
  <2>1. TipoProceso'
    BY <1>27 DEF FinalizarProceso, TipoProceso, Estados
  <2>2. TipoManejador' /\ LocalManejador'
    BY <1>27 DEF FinalizarProceso, TipoManejador, LocalManejador, ConProceso, PCs
  <2> QED BY <1>27, TiposEstables, <2>1, <2>2 DEF FinalizarProceso
<1>28. ASSUME NEW c \in CPUs, ProcesoCreado(c) PROVE Tipos'
  <2>1. TipoProceso'
    BY <1>28 DEF ProcesoCreado, TipoProceso, Estados, LocalManejador, ConProceso,
       TipoManejador,
       PCs
  <2>2. TipoListas'
    BY <1>28, ConEnReadyTipo DEF ProcesoCreado, TipoListas, LocalManejador,
       ConProceso, TipoManejador, PCs
  <2>3. TipoManejador' /\ LocalManejador'
    BY <1>28 DEF ProcesoCreado, TipoManejador, LocalManejador, ConProceso, PCs,
       TrasAgregar,
       Siguiente
  <2> QED BY <1>28, TiposEstables, <2>1, <2>2, <2>3 DEF ProcesoCreado
<1>29. ASSUME NEW c \in CPUs, ProcesoRechazado(c) PROVE Tipos'
  <2>1. TipoProceso'
    BY <1>29 DEF ProcesoRechazado, TipoProceso, Estados
  <2>2. TipoManejador' /\ LocalManejador'
    BY <1>29 DEF ProcesoRechazado, TipoManejador, LocalManejador, ConProceso, PCs
  <2> QED BY <1>29, TiposEstables, <2>1, <2>2 DEF ProcesoRechazado
<1>30. ASSUME NEW c \in CPUs, DevolverLlamador(c) PROVE Tipos'
  <2>1. TipoProceso'
    BY <1>30 DEF DevolverLlamador, TipoProceso, Estados, LocalManejador, ConProceso,
       TipoManejador, PCs
  <2>2. TipoListas'
    BY <1>30, QuitarDeExecTipo, ConEnReadyTipo DEF DevolverLlamador, TipoListas,
       LocalManejador, ConProceso, TipoManejador, PCs
  <2>3. TipoQuantum'
    BY <1>30 DEF DevolverLlamador, TipoQuantum, CancelarTimer, MenosUno
  <2>4. TipoManejador' /\ LocalManejador'
    BY <1>30 DEF DevolverLlamador, TipoManejador, LocalManejador, ConProceso, PCs,
       TrasAgregar,
       Siguiente
  <2> QED BY <1>30, TiposEstables, <2>1, <2>2, <2>3, <2>4 DEF DevolverLlamador
<1>31. ASSUME NEW c \in CPUs, PedirKm(c) PROVE Tipos'
  <2>1. TipoManejador' /\ LocalManejador'
    BY <1>31 DEF PedirKm, TipoManejador, LocalManejador, ConProceso, PCs
  <2> QED BY <1>31, TiposEstables, <2>1 DEF PedirKm
<1>32. ASSUME NEW c \in CPUs, VolverAExec(c) PROVE Tipos'
  <2>1. TipoListas'
    BY <1>32, AppendProperties DEF VolverAExec, TipoListas, LocalManejador,
       ConProceso, TipoManejador, PCs
  <2>2. TipoQuantum'
    BY <1>32 DEF VolverAExec, TipoQuantum
  <2>3. TipoManejador' /\ LocalManejador'
    BY <1>32 DEF VolverAExec, TipoManejador, LocalManejador, ConProceso, PCs
  <2> QED BY <1>32, TiposEstables, <2>1, <2>2, <2>3 DEF VolverAExec
<1>33. ASSUME NEW c \in CPUs, KmResponde(c) PROVE Tipos'
  <2>1. TipoManejador' /\ LocalManejador'
    BY <1>33 DEF KmResponde, TipoManejador, LocalManejador, ConProceso, PCs
  <2> QED BY <1>33, TiposEstables, <2>1 DEF KmResponde
<1>34. ASSUME NEW c \in CPUs, KmPideCompactar(c) PROVE Tipos'
  <2>1. TipoManejador' /\ LocalManejador'
    BY <1>34 DEF KmPideCompactar, TipoManejador, LocalManejador, ConProceso, PCs
  <2>2. TipoCompactacion'
    BY <1>34, AppendProperties DEF KmPideCompactar, TipoCompactacion
  <2> QED BY <1>34, TiposEstables, <2>1, <2>2 DEF KmPideCompactar
<1>35. ASSUME NEW c \in CPUs, KmEmpiezaACompactar(c) PROVE Tipos'
  <2>1. TipoManejador' /\ LocalManejador'
    BY <1>35 DEF KmEmpiezaACompactar, TipoManejador, LocalManejador, ConProceso, PCs
  <2>2. TipoCompactacion'
    BY <1>35 DEF KmEmpiezaACompactar, TipoCompactacion
  <2> QED BY <1>35, TiposEstables, <2>1, <2>2 DEF KmEmpiezaACompactar
<1>36. ASSUME NEW c \in CPUs, KmTerminaDeCompactar(c) PROVE Tipos'
  <2>1. TipoManejador' /\ LocalManejador'
    BY <1>36 DEF KmTerminaDeCompactar, TipoManejador, LocalManejador, ConProceso, PCs
  <2>2. TipoCompactacion'
    BY <1>36, AppendProperties DEF KmTerminaDeCompactar, TipoCompactacion
  <2> QED BY <1>36, TiposEstables, <2>1, <2>2 DEF KmTerminaDeCompactar
<1>37. ASSUME NEW c \in CPUs, Desconectar(c) PROVE Tipos'
  <2>1. TipoProceso'
    BY <1>37, PidDeCpuTipo DEF Desconectar, TipoProceso, Estados, TipoListas
  <2>2. TipoListas'
    BY <1>37, PidDeCpuTipo, QuitarDeExecTipo, ConEnReadyTipo DEF Desconectar,
       TipoListas
  <2>3. TipoQuantum'
    BY <1>37 DEF Desconectar, TipoQuantum, CancelarTimer, MenosUno
  <2>4. TipoManejador' /\ LocalManejador'
    BY <1>37, PidDeCpuTipo DEF Desconectar, TipoManejador, LocalManejador,
       ConProceso, PCs, TipoListas,
       TrasAgregar, Siguiente
  <2>5. (caidas \in Nat)'
    BY <1>37 DEF Desconectar
  <2> QED BY <1>37, TiposEstables, <2>1, <2>2, <2>3, <2>4, <2>5 DEF Desconectar
<1>38. CASE UNCHANGED vars
  BY <1>38, TiposEstables DEF vars
<1> QED BY <1>1, <1>2, <1>3, <1>4, <1>5, <1>6, <1>7, <1>8, <1>9, <1>10, <1>11,
       <1>12, <1>13, <1>14, <1>15, <1>16, <1>17, <1>18, <1>19, <1>20, <1>21, <1>22,
       <1>23, <1>24, <1>25, <1>26, <1>27, <1>28, <1>29, <1>30, <1>31, <1>32, <1>33,
       <1>34, <1>35, <1>36, <1>37, <1>38
     DEF Next, Despachador, EscucharKernelMemory, Cpu, Manejador, KernelMemory

LEMMA TiposInit == Init => Tipos
<1> SUFFICES ASSUME Init PROVE Tipos
  OBVIOUS
<1>1. TipoProceso
  BY PidsFacts, MaxProcesosAssumption, CotasAssumption DEF Init, TipoProceso, Estados
<1>2. TipoListas
  BY PidsFacts DEF Init, TipoListas
<1>3. TipoQuantum
  BY DEF Init, TipoQuantum
<1>4. TipoManejador /\ LocalManejador
  BY DEF Init, TipoManejador, LocalManejador, ConProceso, PCs
<1>5. TipoDespacho /\ LocalDespacho
  BY DEF Init, TipoDespacho, LocalDespacho
<1>6. TipoCompactacion /\ caidas \in Nat
  <2>1. notif \in Seq({"COMPACTAR", "FIN"})
    BY EmptySeq DEF Init
  <2>2. semCompactacion \in Nat /\ desalojo \in BOOLEAN /\ semDesalojo \in Nat
    BY DEF Init
  <2> QED BY <2>1, <2>2 DEF Init, TipoCompactacion
<1> QED BY <1>1, <1>2, <1>3, <1>4, <1>5, <1>6 DEF Tipos, TypeOK

(* Every list, counter and local variable of the scheduler keeps its type.  *)
THEOREM TipoCorrecto == Spec => []TypeOK
<1>1. Tipos => TypeOK
  BY DEF Tipos
<1> QED BY <1>1, TiposInit, TiposPaso, PTL DEF Spec

-----------------------------------------------------------------------------
(* Proofs about the compaction handshake of Planificacion: the gate of the  *)
(* dispatcher, for any number of CPUs, processes and compactions.           *)

(***************************************************************************)
(* One compaction at a time: the permit of sem_compactacion is at the gate, *)
(* or the listener took it and evicts, or it went to Kernel Memory with     *)
(* the confirmation, or Kernel Memory compacts, or it comes back with the   *)
(* message that tells the end.                                              *)
(***************************************************************************)
Compactando == {c \in CPUs : pc[c] = "km_compacta"}
Fines == {i \in DOMAIN notif : notif[i] = "FIN"}
puerta == <<semCompactacion, desalojo, lpc, notif, okCompactar>>

Abierta ==
  /\ semCompactacion = 1 /\ okCompactar = 0 /\ Compactando = {} /\ Fines = {}
  /\ lpc = "recibir"
Desalojando ==
  /\ semCompactacion = 0 /\ okCompactar = 0 /\ Compactando = {} /\ Fines = {}
  /\ lpc \in {"avisar", "marcar", "esperar"}
Confirmada ==
  /\ semCompactacion = 0 /\ okCompactar = 1 /\ Compactando = {} /\ Fines = {}
  /\ lpc \in {"bajar", "recibir"}
EnCurso ==
  /\ semCompactacion = 0 /\ okCompactar = 0 /\ Fines = {}
  /\ \E c \in CPUs : Compactando = {c}
  /\ lpc \in {"bajar", "recibir"}
Terminada ==
  /\ semCompactacion = 0 /\ okCompactar = 0 /\ Compactando = {}
  /\ \E i \in DOMAIN notif : Fines = {i}
  /\ lpc \in {"bajar", "recibir"}

UnPermiso == Abierta \/ Desalojando \/ Confirmada \/ EnCurso \/ Terminada
DesalojoBajo == desalojo => lpc \in {"marcar", "esperar", "bajar"}
Puerta == UnPermiso /\ DesalojoBajo

(* What a step that is no part of the handshake leaves alone.               *)
LEMMA PuertaEstable ==
  ASSUME Puerta, UNCHANGED puerta, Compactando' = Compactando
  PROVE  Puerta'
<1>1. Fines' = Fines /\ (DOMAIN notif)' = DOMAIN notif
  BY DEF Fines, puerta
<1>2. UNCHANGED <<semCompactacion, okCompactar, lpc, desalojo>>
  BY DEF puerta
<1> QED BY <1>1, <1>2 DEF Puerta, UnPermiso, DesalojoBajo, Abierta, Desalojando,
       Confirmada, EnCurso, Terminada

(* A handler that goes from one place to another, neither of them compacting. *)
LEMMA CompactandoEstable ==
  ASSUME pc \in [CPUs -> PCs], NEW c \in CPUs, NEW x,
         pc[c] # "km_compacta", x # "km_compacta", pc' = [pc EXCEPT ![c] = x]
  PROVE  Compactando' = Compactando
BY DEF Compactando

(* agregar_a_ready has no part in a compaction, nor what its callers do next. *)
LEMMA SiguienteSinCompactar ==
  /\ "km_compacta" \notin DOMAIN Siguiente
  /\ {"prio_tick", "prio_nuevo", "prio_llamador", "prio_rescate"} \subseteq DOMAIN Siguiente
  /\ \A prio \in DOMAIN Siguiente : Siguiente[prio] # "km_compacta"
BY DEF Siguiente
LEMMA TrasAgregarSinCompactar ==
  ASSUME NEW p, NEW prio \in DOMAIN Siguiente
  PROVE  TrasAgregar(p, prio) # "km_compacta"
BY SiguienteSinCompactar DEF TrasAgregar

(* The messages of the channel, when one is sent and when one is received.  *)
LEMMA FinesAppend ==
  ASSUME NEW s \in Seq({"COMPACTAR", "FIN"}), NEW m \in {"COMPACTAR", "FIN"}
  PROVE  {i \in DOMAIN Append(s, m) : Append(s, m)[i] = "FIN"} =
           {i \in DOMAIN s : s[i] = "FIN"}
             \cup (IF m = "FIN" THEN {Len(s) + 1} ELSE {})
<1>1. /\ Append(s, m) \in Seq({"COMPACTAR", "FIN"})
      /\ Len(Append(s, m)) = Len(s) + 1
      /\ \A i \in 1 .. Len(s) : Append(s, m)[i] = s[i]
      /\ Append(s, m)[Len(s) + 1] = m
  BY AppendProperties
<1>2. DOMAIN s = 1 .. Len(s) /\ Len(s) \in Nat
  BY LenProperties
<1>3. DOMAIN Append(s, m) = 1 .. Len(s) + 1
  BY <1>1, LenProperties
<1>4. 1 .. Len(s) + 1 = (1 .. Len(s)) \cup {Len(s) + 1} /\ Len(s) + 1 \notin 1 .. Len(s)
  BY <1>2
<1> QED BY <1>1, <1>2, <1>3, <1>4

LEMMA FinesTail ==
  ASSUME NEW s \in Seq({"COMPACTAR", "FIN"}), s # <<>>
  PROVE  {i \in DOMAIN Tail(s) : Tail(s)[i] = "FIN"} =
           {j - 1 : j \in {i \in DOMAIN s : s[i] = "FIN" /\ i # 1}}
<1>1. /\ Tail(s) \in Seq({"COMPACTAR", "FIN"})
      /\ Len(Tail(s)) = Len(s) - 1
      /\ \A i \in 1 .. Len(Tail(s)) : Tail(s)[i] = s[i + 1]
  BY HeadTailProperties
<1>2. DOMAIN s = 1 .. Len(s) /\ Len(s) \in Nat
  BY LenProperties
<1>3. DOMAIN Tail(s) = 1 .. Len(s) - 1
  BY <1>1, LenProperties
<1> QED BY <1>1, <1>2, <1>3

(* Every action keeps the permit in one place.                              *)
LEMMA PuertaPaso == Tipos /\ Puerta /\ [Next]_vars => Puerta'
<1> SUFFICES ASSUME Tipos, Puerta, [Next]_vars PROVE Puerta'
  OBVIOUS
<1>t. pc \in [CPUs -> PCs] /\ notif \in Seq({"COMPACTAR", "FIN"})
      /\ semCompactacion \in Nat /\ okCompactar \in Nat
  BY DEF Tipos, TypeOK, TipoManejador, TipoCompactacion
(* The dispatcher, the timers and the ticks have no part in it ...          *)
<1>1. CASE ObtenerSiguiente
  BY <1>1, PuertaEstable DEF ObtenerSiguiente, Compactando, puerta, manejador, compactacion
<1>2. CASE ObtenerCpu
  BY <1>2, PuertaEstable DEF ObtenerCpu, Compactando, puerta, manejador, compactacion
<1>3. CASE EsperarCompactacion
  BY <1>3, PuertaEstable DEF EsperarCompactacion, Compactando, puerta, manejador, compactacion
<1>4. CASE Despachar
  BY <1>4, PuertaEstable DEF Despachar, Compactando, puerta, manejador, compactacion
<1>5. CASE RegistrarCpuProceso
  BY <1>5, PuertaEstable DEF RegistrarCpuProceso, Compactando, puerta, manejador, compactacion
<1>6. CASE CrearTimer
  BY <1>6, PuertaEstable DEF CrearTimer, Compactando, puerta, manejador, compactacion
<1>7. ASSUME NEW c \in CPUs, VencerQuantum(c) PROVE Puerta'
  BY <1>7, PuertaEstable DEF VencerQuantum, Compactando, puerta, manejador, compactacion
<1>8. ASSUME NEW c \in CPUs, MarcarVencido(c) PROVE Puerta'
  BY <1>8, PuertaEstable DEF MarcarVencido, Compactando, puerta, manejador, compactacion
<1>9. ASSUME NEW c \in CPUs, TickSigue(c) PROVE Puerta'
  BY <1>9, PuertaEstable DEF TickSigue, Compactando, puerta, manejador, compactacion
(* ... and the handlers move from one place of theirs to another.           *)
<1>10. ASSUME NEW c \in CPUs, Conectar(c) PROVE Puerta'
  <2>1. UNCHANGED puerta
    BY <1>10 DEF Conectar, puerta, compactacion
  <2>2. PICK x : pc[c] # "km_compacta" /\ x # "km_compacta" /\ pc' = [pc EXCEPT ![c] = x]
    BY <1>10 DEF Conectar, IrA
  <2> QED BY <1>t, <2>1, <2>2, CompactandoEstable, PuertaEstable
<1>11. ASSUME NEW c \in CPUs, TickDesaloja(c) PROVE Puerta'
  <2>1. UNCHANGED puerta
    BY <1>11 DEF TickDesaloja, puerta, compactacion
  <2>2. PICK x : pc[c] # "km_compacta" /\ x # "km_compacta" /\ pc' = [pc EXCEPT ![c] = x]
    BY <1>11 DEF TickDesaloja, IrA, Recibe
  <2> QED BY <1>t, <2>1, <2>2, CompactandoEstable, PuertaEstable
<1>12. ASSUME NEW c \in CPUs, ReencolarPorCompactacion(c) PROVE Puerta'
  <2>1. UNCHANGED puerta
    BY <1>12 DEF ReencolarPorCompactacion, puerta, compactacion
  <2>2. PICK x : pc[c] # "km_compacta" /\ x # "km_compacta" /\ pc' = [pc EXCEPT ![c] = x]
    BY <1>12 DEF ReencolarPorCompactacion, IrA
  <2> QED BY <1>t, <2>1, <2>2, CompactandoEstable, PuertaEstable
<1>13. ASSUME NEW c \in CPUs, ReencolarPorTick(c) PROVE Puerta'
  <2>1. UNCHANGED puerta
    BY <1>13 DEF ReencolarPorTick, puerta, compactacion
  <2>2. PICK x : pc[c] # "km_compacta" /\ x # "km_compacta" /\ pc' = [pc EXCEPT ![c] = x]
    BY <1>13, SiguienteSinCompactar, TrasAgregarSinCompactar DEF ReencolarPorTick, IrA
  <2> QED BY <1>t, <2>1, <2>2, CompactandoEstable, PuertaEstable
<1>14. ASSUME NEW c \in CPUs, DesalojarPorPrioridad(c) PROVE Puerta'
  <2>1. UNCHANGED puerta
    BY <1>14 DEF DesalojarPorPrioridad, puerta, compactacion
  <2>2. PICK x : pc[c] # "km_compacta" /\ x # "km_compacta" /\ pc' = [pc EXCEPT ![c] = x]
    BY <1>14, SiguienteSinCompactar DEF DesalojarPorPrioridad, IrA
  <2> QED BY <1>t, <2>1, <2>2, CompactandoEstable, PuertaEstable
<1>15. ASSUME NEW c \in CPUs, LiberarCpu(c) PROVE Puerta'
  <2>1. UNCHANGED puerta
    BY <1>15 DEF LiberarCpu, puerta, compactacion
  <2>2. PICK x : pc[c] # "km_compacta" /\ x # "km_compacta" /\ pc' = [pc EXCEPT ![c] = x]
    BY <1>15 DEF LiberarCpu, IrA
  <2> QED BY <1>t, <2>1, <2>2, CompactandoEstable, PuertaEstable
<1>16. ASSUME NEW c \in CPUs, SyscallExit(c) PROVE Puerta'
  <2>1. UNCHANGED puerta
    BY <1>16 DEF SyscallExit, puerta, compactacion
  <2>2. PICK x : pc[c] # "km_compacta" /\ x # "km_compacta" /\ pc' = [pc EXCEPT ![c] = x]
    BY <1>16 DEF SyscallExit, IrA
  <2> QED BY <1>t, <2>1, <2>2, CompactandoEstable, PuertaEstable
<1>17. ASSUME NEW c \in CPUs, FinalizarProceso(c) PROVE Puerta'
  <2>1. UNCHANGED puerta
    BY <1>17 DEF FinalizarProceso, puerta, compactacion
  <2>2. PICK x : pc[c] # "km_compacta" /\ x # "km_compacta" /\ pc' = [pc EXCEPT ![c] = x]
    BY <1>17 DEF FinalizarProceso, IrA
  <2> QED BY <1>t, <2>1, <2>2, CompactandoEstable, PuertaEstable
<1>18. ASSUME NEW c \in CPUs, SyscallInitProc(c) PROVE Puerta'
  <2>1. UNCHANGED puerta
    BY <1>18 DEF SyscallInitProc, puerta, compactacion
  <2>2. PICK x : pc[c] # "km_compacta" /\ x # "km_compacta" /\ pc' = [pc EXCEPT ![c] = x]
    BY <1>18 DEF SyscallInitProc, IrA, Recibe
  <2> QED BY <1>t, <2>1, <2>2, CompactandoEstable, PuertaEstable
<1>19. ASSUME NEW c \in CPUs, ProcesoCreado(c) PROVE Puerta'
  <2>1. UNCHANGED puerta
    BY <1>19 DEF ProcesoCreado, puerta, compactacion
  <2>2. PICK x : pc[c] # "km_compacta" /\ x # "km_compacta" /\ pc' = [pc EXCEPT ![c] = x]
    BY <1>19, SiguienteSinCompactar, TrasAgregarSinCompactar DEF ProcesoCreado, IrA
  <2> QED BY <1>t, <2>1, <2>2, CompactandoEstable, PuertaEstable
<1>20. ASSUME NEW c \in CPUs, ProcesoRechazado(c) PROVE Puerta'
  <2>1. UNCHANGED puerta
    BY <1>20 DEF ProcesoRechazado, puerta, compactacion
  <2>2. PICK x : pc[c] # "km_compacta" /\ x # "km_compacta" /\ pc' = [pc EXCEPT ![c] = x]
    BY <1>20 DEF ProcesoRechazado, IrA
  <2> QED BY <1>t, <2>1, <2>2, CompactandoEstable, PuertaEstable
<1>21. ASSUME NEW c \in CPUs, DevolverLlamador(c) PROVE Puerta'
  <2>1. UNCHANGED puerta
    BY <1>21 DEF DevolverLlamador, puerta, compactacion
  <2>2. PICK x : pc[c] # "km_compacta" /\ x # "km_compacta" /\ pc' = [pc EXCEPT ![c] = x]
    BY <1>21, SiguienteSinCompactar, TrasAgregarSinCompactar DEF DevolverLlamador, IrA
  <2> QED BY <1>t, <2>1, <2>2, CompactandoEstable, PuertaEstable
<1>22. ASSUME NEW c \in CPUs, SyscallMem(c) PROVE Puerta'
  <2>1. UNCHANGED puerta
    BY <1>22 DEF SyscallMem, puerta, compactacion
  <2>2. PICK x : pc[c] # "km_compacta" /\ x # "km_compacta" /\ pc' = [pc EXCEPT ![c] = x]
    BY <1>22 DEF SyscallMem, IrA, Recibe
  <2> QED BY <1>t, <2>1, <2>2, CompactandoEstable, PuertaEstable
<1>23. ASSUME NEW c \in CPUs, PedirKm(c) PROVE Puerta'
  <2>1. UNCHANGED puerta
    BY <1>23 DEF PedirKm, puerta, compactacion
  <2>2. PICK x : pc[c] # "km_compacta" /\ x # "km_compacta" /\ pc' = [pc EXCEPT ![c] = x]
    BY <1>23 DEF PedirKm, IrA
  <2> QED BY <1>t, <2>1, <2>2, CompactandoEstable, PuertaEstable
<1>24. ASSUME NEW c \in CPUs, VolverAExec(c) PROVE Puerta'
  <2>1. UNCHANGED puerta
    BY <1>24 DEF VolverAExec, puerta, compactacion
  <2>2. PICK x : pc[c] # "km_compacta" /\ x # "km_compacta" /\ pc' = [pc EXCEPT ![c] = x]
    BY <1>24 DEF VolverAExec, IrA
  <2> QED BY <1>t, <2>1, <2>2, CompactandoEstable, PuertaEstable
<1>25. ASSUME NEW c \in CPUs, KmResponde(c) PROVE Puerta'
  <2>1. UNCHANGED puerta
    BY <1>25 DEF KmResponde, puerta, compactacion
  <2>2. PICK x : pc[c] # "km_compacta" /\ x # "km_compacta" /\ pc' = [pc EXCEPT ![c] = x]
    BY <1>25 DEF KmResponde, IrA
  <2> QED BY <1>t, <2>1, <2>2, CompactandoEstable, PuertaEstable
<1>26. ASSUME NEW c \in CPUs, Desconectar(c) PROVE Puerta'
  <2>1. UNCHANGED puerta
    BY <1>26 DEF Desconectar, puerta, compactacion
  <2>2. PICK x : pc[c] # "km_compacta" /\ x # "km_compacta" /\ pc' = [pc EXCEPT ![c] = x]
    BY <1>26, SiguienteSinCompactar, TrasAgregarSinCompactar DEF Desconectar, IrA
  <2> QED BY <1>t, <2>1, <2>2, CompactandoEstable, PuertaEstable
(* Kernel Memory asks, starts and ends.                                     *)
<1>27. ASSUME NEW c \in CPUs, KmPideCompactar(c) PROVE Puerta'
  <2>1. UNCHANGED <<semCompactacion, desalojo, lpc, okCompactar>>
        /\ notif' = Append(notif, "COMPACTAR")
    BY <1>27 DEF KmPideCompactar
  <2>2. Compactando' = Compactando
    BY <1>27, <1>t, CompactandoEstable DEF KmPideCompactar, IrA
  <2>3. Fines' = Fines
    BY <1>t, <2>1, FinesAppend DEF Fines
  <2>4. Terminada => \E i \in (DOMAIN notif)' : Fines' = {i}
    BY <2>3 DEF Terminada, Fines
  <2> QED BY <2>1, <2>2, <2>3, <2>4 DEF Puerta, UnPermiso, DesalojoBajo, Abierta,
         Desalojando, Confirmada, EnCurso, Terminada
<1>28. ASSUME NEW c \in CPUs, KmEmpiezaACompactar(c) PROVE Puerta'
  <2>1. UNCHANGED <<semCompactacion, desalojo, lpc, notif>>
        /\ okCompactar > 0 /\ okCompactar' = okCompactar - 1
    BY <1>28 DEF KmEmpiezaACompactar
  <2>2. Confirmada
    BY <2>1 DEF Puerta, UnPermiso, Abierta, Desalojando, EnCurso, Terminada
  <2>3. Compactando' = {c}
    BY <1>28, <1>t, <2>2 DEF KmEmpiezaACompactar, IrA, Confirmada, Compactando
  <2>4. EnCurso'
    BY <2>1, <2>2, <2>3 DEF Confirmada, EnCurso, Fines
  <2> QED BY <2>1, <2>4 DEF Puerta, UnPermiso, DesalojoBajo
<1>29. ASSUME NEW c \in CPUs, KmTerminaDeCompactar(c) PROVE Puerta'
  <2>1. UNCHANGED <<semCompactacion, desalojo, lpc, okCompactar>>
        /\ notif' = Append(notif, "FIN")
    BY <1>29 DEF KmTerminaDeCompactar
  <2>2. c \in Compactando
    BY <1>29 DEF KmTerminaDeCompactar, Compactando
  <2>3. EnCurso /\ Compactando = {c}
    BY <2>2 DEF Puerta, UnPermiso, Abierta, Desalojando, Confirmada, Terminada, EnCurso
  <2>4. Compactando' = {}
    BY <1>29, <1>t, <2>3 DEF KmTerminaDeCompactar, IrA, Compactando
  <2>5. Fines' = {Len(notif) + 1}
    BY <1>t, <2>1, <2>3, FinesAppend DEF Fines, EnCurso
  <2>6. \E i \in (DOMAIN notif)' : Fines' = {i}
    BY <2>5 DEF Fines
  <2>7. Terminada'
    BY <2>1, <2>3, <2>4, <2>6 DEF EnCurso, Terminada
  <2> QED BY <2>1, <2>7 DEF Puerta, UnPermiso, DesalojoBajo
(* escuchar_kernel_memory takes the permit, confirms and gives it back.     *)
<1>30. CASE RecibirCompactar
  <2>1. /\ UNCHANGED <<desalojo, okCompactar>> /\ Compactando' = Compactando
        /\ lpc = "recibir" /\ lpc' = "avisar"
        /\ semCompactacion > 0 /\ semCompactacion' = semCompactacion - 1
        /\ notif # <<>> /\ notif' = Tail(notif)
    BY <1>30 DEF RecibirCompactar, Compactando, manejador
  <2>2. Abierta
    BY <2>1 DEF Puerta, UnPermiso, Desalojando, Confirmada, EnCurso, Terminada
  <2>3. Fines' = {}
    BY <1>t, <2>1, <2>2, FinesTail DEF Fines, Abierta
  <2>4. Desalojando' /\ ~desalojo
    BY <2>1, <2>2, <2>3 DEF Abierta, Desalojando, Puerta, DesalojoBajo
  <2> QED BY <2>1, <2>4 DEF Puerta, UnPermiso, DesalojoBajo
<1>31. CASE AvisarDesalojo
  <2>1. UNCHANGED <<semCompactacion, okCompactar>> /\ Compactando' = Compactando
        /\ Fines' = Fines
    BY <1>31 DEF AvisarDesalojo, Compactando, Fines, manejador
  <2>2. lpc \in {"avisar", "marcar", "esperar"} /\ lpc' \in {"marcar", "esperar"}
    BY <1>31 DEF AvisarDesalojo
  <2>3. Desalojando
    BY <2>2 DEF Puerta, UnPermiso, Abierta, Confirmada, EnCurso, Terminada
  <2>4. Desalojando'
    BY <2>1, <2>2, <2>3 DEF Desalojando
  <2> QED BY <2>2, <2>4 DEF Puerta, UnPermiso, DesalojoBajo
<1>32. CASE MarcarEnExec
  <2>1. UNCHANGED <<semCompactacion, okCompactar>> /\ Compactando' = Compactando
        /\ Fines' = Fines
    BY <1>32 DEF MarcarEnExec, Compactando, Fines, manejador
  <2>2. lpc \in {"avisar", "marcar", "esperar"} /\ lpc' \in {"marcar", "esperar"}
    BY <1>32 DEF MarcarEnExec
  <2>3. Desalojando
    BY <2>2 DEF Puerta, UnPermiso, Abierta, Confirmada, EnCurso, Terminada
  <2>4. Desalojando'
    BY <2>1, <2>2, <2>3 DEF Desalojando
  <2> QED BY <2>2, <2>4 DEF Puerta, UnPermiso, DesalojoBajo
<1>33. CASE EsperarDesalojo
  <2>1. UNCHANGED <<semCompactacion, okCompactar>> /\ Compactando' = Compactando
        /\ Fines' = Fines
    BY <1>33 DEF EsperarDesalojo, Compactando, Fines, manejador
  <2>2. lpc \in {"avisar", "marcar", "esperar"} /\ lpc' \in {"marcar", "esperar"}
    BY <1>33 DEF EsperarDesalojo
  <2>3. Desalojando
    BY <2>2 DEF Puerta, UnPermiso, Abierta, Confirmada, EnCurso, Terminada
  <2>4. Desalojando'
    BY <2>1, <2>2, <2>3 DEF Desalojando
  <2> QED BY <2>2, <2>4 DEF Puerta, UnPermiso, DesalojoBajo
<1>34. CASE ConfirmarCompactacion
  <2>1. UNCHANGED <<semCompactacion>> /\ Compactando' = Compactando /\ Fines' = Fines
        /\ lpc = "esperar" /\ lpc' = "bajar" /\ okCompactar' = okCompactar + 1
    BY <1>34 DEF ConfirmarCompactacion, Compactando, Fines, manejador
  <2>2. Desalojando
    BY <2>1 DEF Puerta, UnPermiso, Abierta, Confirmada, EnCurso, Terminada
  <2>3. Confirmada'
    BY <2>1, <2>2 DEF Desalojando, Confirmada
  <2> QED BY <2>1, <2>3 DEF Puerta, UnPermiso, DesalojoBajo
<1>35. CASE BajarDesalojo
  <2>1. UNCHANGED <<semCompactacion, okCompactar, notif>> /\ Compactando' = Compactando
        /\ Fines' = Fines /\ lpc = "bajar" /\ lpc' = "recibir" /\ ~desalojo'
    BY <1>35 DEF BajarDesalojo, Compactando, Fines, manejador
  <2> QED BY <2>1 DEF Puerta, UnPermiso, DesalojoBajo, Abierta, Desalojando, Confirmada,
         EnCurso, Terminada
<1>36. CASE RecibirFin
  <2>1. /\ UNCHANGED <<desalojo, okCompactar, lpc>> /\ Compactando' = Compactando
        /\ lpc = "recibir" /\ semCompactacion' = semCompactacion + 1
        /\ notif # <<>> /\ notif[1] = "FIN" /\ notif' = Tail(notif)
    BY <1>36, <1>t, HeadTailProperties DEF RecibirFin, Compactando, manejador
  <2>2. 1 \in Fines
    BY <1>t, <2>1, LenProperties DEF Fines
  <2>3. Terminada /\ Fines = {1}
    BY <2>2 DEF Puerta, UnPermiso, Abierta, Desalojando, Confirmada, EnCurso, Terminada
  <2>4. Fines' = {}
    BY <1>t, <2>1, <2>3, FinesTail DEF Fines
  <2>5. Abierta'
    BY <2>1, <2>3, <2>4 DEF Terminada, Abierta
  <2> QED BY <2>1, <2>5 DEF Puerta, UnPermiso, DesalojoBajo
<1>37. CASE UNCHANGED vars
  BY <1>37, PuertaEstable DEF vars, Compactando, puerta, manejador, compactacion
<1> QED BY <1>1, <1>2, <1>3, <1>4, <1>5, <1>6, <1>7, <1>8, <1>9, <1>10, <1>11,
       <1>12, <1>13, <1>14, <1>15, <1>16, <1>17, <1>18, <1>19, <1>20, <1>21,
       <1>22, <1>23, <1>24, <1>25, <1>26, <1>27, <1>28, <1>29, <1>30, <1>31,
       <1>32, <1>33, <1>34, <1>35, <1>36, <1>37
     DEF Next, Reposo, Despachador, EscucharKernelMemory, Cpu, Manejador, KernelMemory

LEMMA PuertaInit == Init => Puerta
<1> SUFFICES ASSUME Init PROVE Puerta
  OBVIOUS
<1>1. Compactando = {} /\ Fines = {}
  BY DEF Init, Compactando, Fines
<1> QED BY <1>1 DEF Init, Puerta, UnPermiso, DesalojoBajo, Abierta

(* The gate of the dispatcher is closed while Kernel Memory compacts and    *)
(* while the scheduler evicts for it, and opens once for each compaction.   *)
THEOREM PuertaCerradaSiempre == Spec => []PuertaCerrada
<1>1. Puerta => PuertaCerrada
  BY DEF Puerta, UnPermiso, DesalojoBajo, Abierta, Desalojando, Confirmada, EnCurso,
     Terminada, Compactando, PuertaCerrada
<1> QED BY <1>1, TiposInit, TiposPaso, PuertaInit, PuertaPaso, PTL DEF Spec

(***************************************************************************)
(* A CPU belongs to cola_cpus_libres, to the dispatcher or to its handler.  *)
(***************************************************************************)
(* It runs nothing and its handler waits, or its connection has closed (the *)
(* dispatcher does not know).                                               *)
Ociosa(c) == \/ pc[c] = "espera" /\ enCpu[c] = NADIE
             \/ pc[c] \in {"caida", "prio_rescate"}

LibresDistintas ==
  \A i, j \in 1 .. Len(libres) : libres[i] = libres[j] => i = j
LibresOciosas == \A i \in 1 .. Len(libres) : Ociosa(libres[i])
DespachoExclusivo ==
  dpc \in {"compactacion", "exec"} =>
    Ociosa(dcpu) /\ \A i \in 1 .. Len(libres) : libres[i] # dcpu

(* What a handler has in hand and what its CPU runs.                        *)
SinCpu == {"sin_conectar", "reencolar", "prio_tick", "liberar", "finalizar",
           "prio_llamador"}
ConCpu == {"crear", "prio_nuevo", "devolver", "pedir_alloc", "pedir_free", "km_alloc",
           "km_espera_ok", "km_compacta", "volver"}
LoQueCorre ==
  \A c \in CPUs : /\ pc[c] \in SinCpu => enCpu[c] = NADIE
                  /\ pc[c] \in ConCpu => enCpu[c] = proc[c]
Despachado ==
  dpc \in {"registrar", "timer"} =>
    enCpu[dcpu] \in {dproc, NADIE} \/ pc[dcpu] \in {"caida", "prio_rescate"}

DuenoDeCpu ==
  LibresDistintas /\ LibresOciosas /\ DespachoExclusivo /\ LoQueCorre /\ Despachado

Pulsos(c) == timers[c] + vencidos[c] + marcas[c]
Quantum == DuenoDeCpu /\ QuantumArmado

(***************************************************************************)
(* Steps that are alike                                                     *)
(***************************************************************************)
LEMMA PulsosTipo ==
  ASSUME Tipos, NEW c \in CPUs
  PROVE  timers[c] \in Nat /\ vencidos[c] \in Nat /\ marcas[c] \in Nat /\ Pulsos(c) \in Nat
BY DEF Tipos, TypeOK, TipoQuantum, Pulsos

(* A step that moves no CPU: at most it adds timers and marks.              *)
LEMMA SinMoverCpu ==
  ASSUME Tipos, Tipos', Quantum, UNCHANGED <<libres, pc, enCpu, proc, despacho>>,
         \A d \in CPUs : Pulsos(d)' >= Pulsos(d)
  PROVE  Quantum'
<1>1. DuenoDeCpu'
  BY DEF Quantum, DuenoDeCpu, LibresDistintas, LibresOciosas, DespachoExclusivo,
     LoQueCorre, Despachado, Ociosa, despacho
<1>2. QuantumArmado'
  <2>1. \A d \in CPUs : Pulsos(d)' \in Nat /\ Pulsos(d) \in Nat
    BY PulsosTipo DEF Tipos, TypeOK, TipoQuantum, Pulsos
  <2>2. \A d \in CPUs : Pulsos(d) > 0 => Pulsos(d)' > 0
    BY <2>1
  <2> QED BY <2>2 DEF Quantum, QuantumArmado, Pulsos, despacho
<1> QED BY <1>1, <1>2 DEF Quantum

(* A step of the handler of CPU c, which goes to x, leaves its CPU with e    *)
(* and itself with q in hand.                                               *)
Paso(c, x, e, q) ==
  /\ x \in PCs
  /\ pc' = [pc EXCEPT ![c] = x] /\ enCpu' = [enCpu EXCEPT ![c] = e]
  /\ proc' = [proc EXCEPT ![c] = q]
  /\ UNCHANGED <<libres, despacho>>
  /\ e \in {enCpu[c], NADIE}
  /\ Ociosa(c) => (x = "espera" /\ e = NADIE) \/ x \in {"caida", "prio_rescate"}
  /\ pc[c] \in {"caida", "prio_rescate"} => x \in {"caida", "prio_rescate"}
  /\ x \in SinCpu => e = NADIE
  /\ x \in ConCpu => e = q
  /\ \A d \in CPUs \ {c} : Pulsos(d)' >= Pulsos(d)
  /\ x = "espera" /\ e # NADIE /\ EnRR(e) => Pulsos(c)' > 0

LEMMA PasoDeManejador ==
  ASSUME Tipos, Tipos', Quantum, NEW c \in CPUs, NEW x, NEW e, NEW q, Paso(c, x, e, q)
  PROVE  Quantum'
<1>1. /\ pc \in [CPUs -> PCs] /\ enCpu \in [CPUs -> Pids \cup {NADIE}]
      /\ proc \in [CPUs -> Pids \cup {NADIE}]
      /\ libres \in Seq(CPUs) /\ LocalDespacho
  BY DEF Tipos, TypeOK, TipoManejador, TipoListas
<1>2. /\ pc'[c] = x /\ enCpu'[c] = e /\ proc'[c] = q
      /\ \A d \in CPUs \ {c} : pc'[d] = pc[d] /\ enCpu'[d] = enCpu[d] /\ proc'[d] = proc[d]
  BY <1>1 DEF Paso
<1>3. UNCHANGED <<libres, dpc, dproc, dcpu>>
  BY DEF Paso, despacho
<1>4. \A d \in CPUs : Ociosa(d) => Ociosa(d)'
  BY <1>2 DEF Ociosa, Paso
<1>5. \A i \in 1 .. Len(libres) : libres[i] \in CPUs
  BY <1>1, ElementOfSeq
<1>6. LibresDistintas'
  BY <1>3 DEF LibresDistintas, Quantum, DuenoDeCpu
<1>7. LibresOciosas'
  BY <1>3, <1>4, <1>5 DEF LibresOciosas, Quantum, DuenoDeCpu, Ociosa
<1>8. DespachoExclusivo'
  BY <1>1, <1>3, <1>4 DEF DespachoExclusivo, Quantum, DuenoDeCpu, LocalDespacho, Ociosa
<1>9. LoQueCorre'
  BY <1>2 DEF LoQueCorre, Quantum, DuenoDeCpu, Paso
<1>10. Despachado'
  BY <1>1, <1>2, <1>3 DEF Despachado, Quantum, DuenoDeCpu, Paso, LocalDespacho
<1>11. QuantumArmado'
  <2>1. \A d \in CPUs : Pulsos(d)' \in Nat /\ Pulsos(d) \in Nat
    BY PulsosTipo DEF Tipos, TypeOK, TipoQuantum, Pulsos
  <2>2. \A d \in CPUs \ {c} : Pulsos(d) > 0 => Pulsos(d)' > 0
    BY <2>1 DEF Paso
  <2>3. pc'[c] = "espera" /\ enCpu'[c] # NADIE /\ EnRR(enCpu'[c]) => Pulsos(c)' > 0
    BY <1>2 DEF Paso
  <2> QED BY <1>2, <1>3, <2>2, <2>3 DEF Quantum, QuantumArmado, Pulsos
<1> QED BY <1>6, <1>7, <1>8, <1>9, <1>10, <1>11 DEF Quantum, DuenoDeCpu

(* A CPU that is given back, or connects, is pushed to cola_cpus_libres.    *)
LEMMA PasoALibres ==
  ASSUME Tipos, Tipos', Quantum, NEW c \in CPUs,
         pc[c] \in {"sin_conectar", "liberar"}, pc' = [pc EXCEPT ![c] = "espera"],
         proc' \in {proc, [proc EXCEPT ![c] = NADIE]},
         libres' = Append(libres, c), UNCHANGED <<enCpu, despacho, quantum>>
  PROVE  Quantum'
<1>1. /\ pc \in [CPUs -> PCs] /\ enCpu \in [CPUs -> Pids \cup {NADIE}]
      /\ proc \in [CPUs -> Pids \cup {NADIE}]
      /\ libres \in Seq(CPUs) /\ LocalDespacho
  BY DEF Tipos, TypeOK, TipoManejador, TipoListas
<1>2. /\ pc'[c] = "espera"
      /\ \A d \in CPUs \ {c} : pc'[d] = pc[d] /\ proc'[d] = proc[d]
  BY <1>1
<1>3. UNCHANGED <<enCpu, dpc, dproc, dcpu, timers, vencidos, marcas>>
  BY DEF despacho, quantum
<1>4. enCpu[c] = NADIE /\ ~Ociosa(c)
  BY DEF Quantum, DuenoDeCpu, LoQueCorre, SinCpu, Ociosa
<1>5. \A d \in CPUs : Ociosa(d) => Ociosa(d)'
  BY <1>2, <1>3, <1>4 DEF Ociosa
<1>6. Ociosa(c)'
  BY <1>2, <1>3, <1>4 DEF Ociosa
<1>7. /\ Len(libres') = Len(libres) + 1 /\ Len(libres) \in Nat
      /\ libres'[Len(libres) + 1] = c
      /\ \A i \in 1 .. Len(libres) : libres'[i] = libres[i] /\ libres[i] \in CPUs
  BY <1>1, AppendProperties, LenProperties, ElementOfSeq
<1>8. \A i \in 1 .. Len(libres') : i \in 1 .. Len(libres) \/ i = Len(libres) + 1
  BY <1>7
<1>9. \A i \in 1 .. Len(libres) : Ociosa(libres[i]) /\ libres[i] # c
  BY <1>4 DEF Quantum, DuenoDeCpu, LibresOciosas
<1>10. LibresDistintas'
  BY <1>7, <1>8, <1>9 DEF LibresDistintas, Quantum, DuenoDeCpu
<1>11. LibresOciosas'
  <2>1. \A d \in CPUs : Ociosa(d) \/ d = c =>
          \/ pc'[d] = "espera" /\ enCpu'[d] = NADIE
          \/ pc'[d] \in {"caida", "prio_rescate"}
    BY <1>5, <1>6 DEF Ociosa
  <2>2. \A i \in 1 .. Len(libres') :
          libres'[i] \in CPUs /\ (Ociosa(libres'[i]) \/ libres'[i] = c)
    BY <1>7, <1>8, <1>9
  <2> QED BY <2>1, <2>2 DEF LibresOciosas, Ociosa
<1>12. DespachoExclusivo'
  <2>1. dpc \in {"compactacion", "exec"} => Ociosa(dcpu) /\ dcpu # c /\ dcpu \in CPUs
    BY <1>1, <1>4 DEF Quantum, DuenoDeCpu, DespachoExclusivo, LocalDespacho
  <2>2. dpc \in {"compactacion", "exec"} => Ociosa(dcpu)'
    BY <1>3, <1>5, <2>1 DEF Ociosa
  <2> QED BY <1>3, <1>7, <1>8, <2>1, <2>2 DEF DespachoExclusivo, Quantum, DuenoDeCpu
<1>13. LoQueCorre'
  BY <1>2, <1>3 DEF LoQueCorre, Quantum, DuenoDeCpu, SinCpu, ConCpu
<1>14. Despachado'
  BY <1>1, <1>2, <1>3, <1>4 DEF Despachado, Quantum, DuenoDeCpu, LocalDespacho
<1>15. QuantumArmado'
  BY <1>2, <1>3, <1>4 DEF Quantum, QuantumArmado
<1> QED BY <1>10, <1>11, <1>12, <1>13, <1>14, <1>15 DEF Quantum, DuenoDeCpu

(* agregar_a_ready only adds marks.                                         *)
LEMMA MarcasCrecen ==
  ASSUME Tipos, NEW p
  PROVE  \A d \in CPUs : MarcasPorPrioridad(p)[d] >= marcas[d]
<1> DEFINE v == PeorCandidato(p)
           c == IF v = NADIE THEN NADIE ELSE SocketCpuDe(v)
<1>1. MarcasPorPrioridad(p) = IF c = NADIE THEN marcas ELSE [marcas EXCEPT ![c] = @ + 1]
  BY DEF MarcasPorPrioridad
<1> HIDE DEF c, v
<1>2. marcas \in [CPUs -> Nat]
  BY DEF Tipos, TypeOK, TipoQuantum
<1> QED BY <1>1, <1>2

(* The mark and the timer a handler drops are those of its own CPU.         *)
LEMMA PulsosAjenos ==
  ASSUME Tipos, NEW c \in CPUs, timers' \in {timers, MenosUno(timers, c)},
         marcas' \in {marcas, MenosUno(marcas, c)}, UNCHANGED vencidos
  PROVE  \A d \in CPUs \ {c} : Pulsos(d)' >= Pulsos(d)
<1>1. timers \in [CPUs -> Nat] /\ marcas \in [CPUs -> Nat] /\ vencidos \in [CPUs -> Nat]
  BY DEF Tipos, TypeOK, TipoQuantum
<1>2. \A d \in CPUs \ {c} : timers'[d] = timers[d] /\ marcas'[d] = marcas[d]
  BY <1>1 DEF MenosUno
<1> QED BY <1>1, <1>2 DEF Pulsos

(* Where agregar_a_ready leaves its thread.                                 *)
LEMMA TrasAgregarValor ==
  ASSUME NEW p, NEW prio \in DOMAIN Siguiente
  PROVE  TrasAgregar(p, prio) \in {prio, Siguiente[prio]}
BY DEF TrasAgregar

(***************************************************************************)
(* The actions of a handler, of its CPU and of Kernel Memory: each one is a *)
(* Paso of that handler.                                                    *)
(***************************************************************************)
LEMMA QuantumTickDesaloja ==
  ASSUME Tipos, Tipos', Quantum, NEW c \in CPUs, TickDesaloja(c)
  PROVE  Quantum'
<1>1. \A d \in CPUs \ {c} : Pulsos(d)' >= Pulsos(d)
  BY PulsosAjenos DEF TickDesaloja, CancelarTimer
<1>2. Paso(c, "reencolar", NADIE, enCpu[c])
  BY <1>1, PidsFacts DEF TickDesaloja, Recibe, CancelarTimer,
     Paso, IrA, PCs, SinCpu, ConCpu, Ociosa, Quantum, DuenoDeCpu, LoQueCorre,
     Tipos, TypeOK, TipoManejador, TipoProceso
<1> QED BY <1>2, PasoDeManejador

LEMMA QuantumSyscallExit ==
  ASSUME Tipos, Tipos', Quantum, NEW c \in CPUs, SyscallExit(c)
  PROVE  Quantum'
<1>1. \A d \in CPUs \ {c} : Pulsos(d)' >= Pulsos(d)
  BY PulsosAjenos DEF SyscallExit, CancelarTimer
<1>2. Paso(c, "finalizar", NADIE, enCpu[c])
  BY <1>1, PidsFacts DEF SyscallExit, CancelarTimer,
     Paso, IrA, PCs, SinCpu, ConCpu, Ociosa, Quantum, DuenoDeCpu, LoQueCorre,
     Tipos, TypeOK, TipoManejador, TipoProceso
<1> QED BY <1>2, PasoDeManejador

LEMMA QuantumSyscallInitProc ==
  ASSUME Tipos, Tipos', Quantum, NEW c \in CPUs, SyscallInitProc(c)
  PROVE  Quantum'
<1>1. \A d \in CPUs \ {c} : Pulsos(d)' >= Pulsos(d)
  BY PulsosAjenos DEF SyscallInitProc, quantum
<1>2. Paso(c, "crear", enCpu[c], enCpu[c])
  BY <1>1, PidsFacts DEF SyscallInitProc, Recibe, quantum, listas,
     Paso, IrA, PCs, SinCpu, ConCpu, Ociosa, Quantum, DuenoDeCpu, LoQueCorre,
     Tipos, TypeOK, TipoManejador, TipoProceso
<1> QED BY <1>2, PasoDeManejador

LEMMA QuantumReencolarPorCompactacion ==
  ASSUME Tipos, Tipos', Quantum, NEW c \in CPUs, ReencolarPorCompactacion(c)
  PROVE  Quantum'
<1>1. \A d \in CPUs \ {c} : Pulsos(d)' >= Pulsos(d)
  BY PulsosAjenos DEF ReencolarPorCompactacion, quantum
<1>2. Paso(c, "liberar", enCpu[c], proc[c])
  BY <1>1, PidsFacts DEF ReencolarPorCompactacion, quantum,
     Paso, IrA, PCs, SinCpu, ConCpu, Ociosa, Quantum, DuenoDeCpu, LoQueCorre,
     Tipos, TypeOK, TipoManejador, TipoProceso
<1> QED BY <1>2, PasoDeManejador

LEMMA QuantumFinalizarProceso ==
  ASSUME Tipos, Tipos', Quantum, NEW c \in CPUs, FinalizarProceso(c)
  PROVE  Quantum'
<1>1. \A d \in CPUs \ {c} : Pulsos(d)' >= Pulsos(d)
  BY PulsosAjenos DEF FinalizarProceso, quantum
<1>2. Paso(c, "liberar", enCpu[c], proc[c])
  BY <1>1, PidsFacts DEF FinalizarProceso, quantum, listas,
     Paso, IrA, PCs, SinCpu, ConCpu, Ociosa, Quantum, DuenoDeCpu, LoQueCorre,
     Tipos, TypeOK, TipoManejador, TipoProceso
<1> QED BY <1>2, PasoDeManejador

LEMMA QuantumProcesoRechazado ==
  ASSUME Tipos, Tipos', Quantum, NEW c \in CPUs, ProcesoRechazado(c)
  PROVE  Quantum'
<1>1. \A d \in CPUs \ {c} : Pulsos(d)' >= Pulsos(d)
  BY PulsosAjenos DEF ProcesoRechazado, quantum
<1>2. Paso(c, "devolver", enCpu[c], proc[c])
  BY <1>1, PidsFacts DEF ProcesoRechazado, quantum, listas,
     Paso, IrA, PCs, SinCpu, ConCpu, Ociosa, Quantum, DuenoDeCpu, LoQueCorre,
     Tipos, TypeOK, TipoManejador, TipoProceso
<1> QED BY <1>2, PasoDeManejador

LEMMA QuantumKmResponde ==
  ASSUME Tipos, Tipos', Quantum, NEW c \in CPUs, KmResponde(c)
  PROVE  Quantum'
<1>1. \A d \in CPUs \ {c} : Pulsos(d)' >= Pulsos(d)
  BY PulsosAjenos DEF KmResponde, quantum
<1>2. Paso(c, "volver", enCpu[c], proc[c])
  BY <1>1, PidsFacts DEF KmResponde, quantum, listas,
     Paso, IrA, PCs, SinCpu, ConCpu, Ociosa, Quantum, DuenoDeCpu, LoQueCorre,
     Tipos, TypeOK, TipoManejador, TipoProceso
<1> QED BY <1>2, PasoDeManejador

LEMMA QuantumKmPideCompactar ==
  ASSUME Tipos, Tipos', Quantum, NEW c \in CPUs, KmPideCompactar(c)
  PROVE  Quantum'
<1>1. \A d \in CPUs \ {c} : Pulsos(d)' >= Pulsos(d)
  BY PulsosAjenos DEF KmPideCompactar, quantum
<1>2. Paso(c, "km_espera_ok", enCpu[c], proc[c])
  BY <1>1, PidsFacts DEF KmPideCompactar, quantum, listas,
     Paso, IrA, PCs, SinCpu, ConCpu, Ociosa, Quantum, DuenoDeCpu, LoQueCorre,
     Tipos, TypeOK, TipoManejador, TipoProceso
<1> QED BY <1>2, PasoDeManejador

LEMMA QuantumKmEmpiezaACompactar ==
  ASSUME Tipos, Tipos', Quantum, NEW c \in CPUs, KmEmpiezaACompactar(c)
  PROVE  Quantum'
<1>1. \A d \in CPUs \ {c} : Pulsos(d)' >= Pulsos(d)
  BY PulsosAjenos DEF KmEmpiezaACompactar, quantum
<1>2. Paso(c, "km_compacta", enCpu[c], proc[c])
  BY <1>1, PidsFacts DEF KmEmpiezaACompactar, quantum, listas,
     Paso, IrA, PCs, SinCpu, ConCpu, Ociosa, Quantum, DuenoDeCpu, LoQueCorre,
     Tipos, TypeOK, TipoManejador, TipoProceso
<1> QED BY <1>2, PasoDeManejador

LEMMA QuantumKmTerminaDeCompactar ==
  ASSUME Tipos, Tipos', Quantum, NEW c \in CPUs, KmTerminaDeCompactar(c)
  PROVE  Quantum'
<1>1. \A d \in CPUs \ {c} : Pulsos(d)' >= Pulsos(d)
  BY PulsosAjenos DEF KmTerminaDeCompactar, quantum
<1>2. Paso(c, "volver", enCpu[c], proc[c])
  BY <1>1, PidsFacts DEF KmTerminaDeCompactar, quantum, listas,
     Paso, IrA, PCs, SinCpu, ConCpu, Ociosa, Quantum, DuenoDeCpu, LoQueCorre,
     Tipos, TypeOK, TipoManejador, TipoProceso
<1> QED BY <1>2, PasoDeManejador

LEMMA QuantumReencolarPorTick ==
  ASSUME Tipos, Tipos', Quantum, NEW c \in CPUs, ReencolarPorTick(c)
  PROVE  Quantum'
<1>1. \A d \in CPUs \ {c} : Pulsos(d)' >= Pulsos(d)
  BY PulsosAjenos DEF ReencolarPorTick, quantum
<1>2. PICK x \in {"prio_tick", "liberar"} : pc' = [pc EXCEPT ![c] = x]
  BY TrasAgregarValor DEF ReencolarPorTick, IrA, Siguiente
<1>3. Paso(c, x, enCpu[c], proc[c])
  BY <1>1, <1>2, PidsFacts DEF ReencolarPorTick,
     Paso, IrA, PCs, SinCpu, ConCpu, Ociosa, Quantum, DuenoDeCpu, LoQueCorre,
     Tipos, TypeOK, TipoManejador, TipoProceso
<1> QED BY <1>3, PasoDeManejador

LEMMA QuantumProcesoCreado ==
  ASSUME Tipos, Tipos', Quantum, NEW c \in CPUs, ProcesoCreado(c)
  PROVE  Quantum'
<1>1. \A d \in CPUs \ {c} : Pulsos(d)' >= Pulsos(d)
  BY PulsosAjenos DEF ProcesoCreado, quantum
<1>2. PICK x \in {"prio_nuevo", "devolver"} : pc' = [pc EXCEPT ![c] = x]
  BY TrasAgregarValor DEF ProcesoCreado, IrA, Siguiente
<1>3. Paso(c, x, enCpu[c], proc[c])
  BY <1>1, <1>2, PidsFacts DEF ProcesoCreado,
     Paso, IrA, PCs, SinCpu, ConCpu, Ociosa, Quantum, DuenoDeCpu, LoQueCorre,
     Tipos, TypeOK, TipoManejador, TipoProceso
<1> QED BY <1>3, PasoDeManejador

LEMMA QuantumDevolverLlamador ==
  ASSUME Tipos, Tipos', Quantum, NEW c \in CPUs, DevolverLlamador(c)
  PROVE  Quantum'
<1>1. \A d \in CPUs \ {c} : Pulsos(d)' >= Pulsos(d)
  BY PulsosAjenos DEF DevolverLlamador, CancelarTimer
<1>2. PICK x \in {"prio_llamador", "liberar"} : pc' = [pc EXCEPT ![c] = x]
  BY TrasAgregarValor DEF DevolverLlamador, IrA, Siguiente
<1>3. Paso(c, x, NADIE, proc[c])
  BY <1>1, <1>2, PidsFacts DEF DevolverLlamador,
     Paso, IrA, PCs, SinCpu, ConCpu, Ociosa, Quantum, DuenoDeCpu, LoQueCorre,
     Tipos, TypeOK, TipoManejador, TipoProceso
<1> QED BY <1>3, PasoDeManejador

LEMMA QuantumSyscallMem ==
  ASSUME Tipos, Tipos', Quantum, NEW c \in CPUs, SyscallMem(c)
  PROVE  Quantum'
<1>1. \A d \in CPUs \ {c} : Pulsos(d)' >= Pulsos(d)
  BY PulsosAjenos DEF SyscallMem, CancelarTimer
<1>2. PICK x \in {"pedir_alloc", "pedir_free"} : pc' = [pc EXCEPT ![c] = x]
  BY DEF SyscallMem, IrA
<1>3. /\ proc' = [proc EXCEPT ![c] = enCpu[c]] /\ UNCHANGED <<enCpu, libres, despacho>>
      /\ pc[c] = "espera"
  BY DEF SyscallMem, Recibe
<1>4. enCpu[c] \in Pids
  BY RecibeTipo DEF SyscallMem, Tipos, TypeOK
<1>5. Paso(c, x, enCpu[c], enCpu[c])
  BY <1>1, <1>2, <1>3, <1>4, PidsFacts DEF
     Paso, PCs, SinCpu, ConCpu, Ociosa, Tipos, TypeOK, TipoManejador
<1> QED BY <1>5, PasoDeManejador

LEMMA QuantumPedirKm ==
  ASSUME Tipos, Tipos', Quantum, NEW c \in CPUs, PedirKm(c)
  PROVE  Quantum'
<1>1. \A d \in CPUs \ {c} : Pulsos(d)' >= Pulsos(d)
  BY PulsosAjenos DEF PedirKm, quantum
<1>2. PICK x \in {"km_alloc", "volver"} : pc' = [pc EXCEPT ![c] = x]
  BY DEF PedirKm, IrA
<1>3. Paso(c, x, enCpu[c], proc[c])
  BY <1>1, <1>2, PidsFacts DEF PedirKm, listas,
     Paso, IrA, PCs, SinCpu, ConCpu, Ociosa, Quantum, DuenoDeCpu, LoQueCorre,
     Tipos, TypeOK, TipoManejador, TipoProceso
<1> QED BY <1>3, PasoDeManejador

LEMMA QuantumDesconectar ==
  ASSUME Tipos, Tipos', Quantum, NEW c \in CPUs, Desconectar(c)
  PROVE  Quantum'
<1>1. \A d \in CPUs \ {c} : Pulsos(d)' >= Pulsos(d)
  BY PulsosAjenos DEF Desconectar, CancelarTimer
<1>2. PICK x \in {"caida", "prio_rescate"} : pc' = [pc EXCEPT ![c] = x]
  BY TrasAgregarValor DEF Desconectar, IrA, Siguiente
<1>3. PICK q : proc' = [proc EXCEPT ![c] = q]
  BY DEF Desconectar
<1>4. Paso(c, x, NADIE, q)
  BY <1>1, <1>2, <1>3 DEF Desconectar, Paso, PCs, SinCpu, ConCpu
<1> QED BY <1>4, PasoDeManejador

LEMMA QuantumDesalojarPorPrioridad ==
  ASSUME Tipos, Tipos', Quantum, NEW c \in CPUs, DesalojarPorPrioridad(c)
  PROVE  Quantum'
<1>1. \A d \in CPUs : Pulsos(d)' >= Pulsos(d)
  <2>1. \A d \in CPUs : marcas'[d] >= marcas[d]
    BY MarcasCrecen DEF DesalojarPorPrioridad
  <2>2. \A d \in CPUs : timers'[d] = timers[d] /\ vencidos'[d] = vencidos[d]
    BY DEF DesalojarPorPrioridad
  <2>3. TipoQuantum /\ TipoQuantum'
    BY DEF Tipos, TypeOK
  <2> QED BY <2>1, <2>2, <2>3 DEF Pulsos, TipoQuantum
<1>2. Paso(c, Siguiente[pc[c]], enCpu[c], proc[c])
  BY <1>1, PidsFacts DEF DesalojarPorPrioridad, listas, Siguiente,
     Paso, IrA, PCs, SinCpu, ConCpu, Ociosa, Quantum, DuenoDeCpu, LoQueCorre,
     Tipos, TypeOK, TipoManejador, TipoProceso
<1> QED BY <1>2, PasoDeManejador

LEMMA QuantumVolverAExec ==
  ASSUME Tipos, Tipos', Quantum, NEW c \in CPUs, VolverAExec(c)
  PROVE  Quantum'
<1>1. /\ timers' = IF EnRR(proc[c]) THEN [timers EXCEPT ![c] = @ + 1] ELSE timers
      /\ UNCHANGED <<vencidos, marcas>>
  BY DEF VolverAExec
<1>2. enCpu[c] = proc[c]
  BY DEF VolverAExec, Quantum, DuenoDeCpu, LoQueCorre, ConCpu
<1>3. TipoQuantum
  BY DEF Tipos, TypeOK
<1>4. \A d \in CPUs : Pulsos(d)' >= Pulsos(d)
  BY <1>1, <1>3 DEF Pulsos, TipoQuantum
<1>5. EnRR(enCpu[c]) => Pulsos(c)' > 0
  BY <1>1, <1>2, <1>3 DEF Pulsos, TipoQuantum
<1>6. Paso(c, "espera", enCpu[c], NADIE)
  BY <1>4, <1>5 DEF VolverAExec,
     Paso, IrA, PCs, SinCpu, ConCpu, Ociosa, Quantum, DuenoDeCpu, LoQueCorre,
     Tipos, TypeOK, TipoManejador, TipoProceso
<1> QED BY <1>6, PasoDeManejador

(* The dispatcher takes a CPU, sends it a process and creates its timer.    *)
LEMMA QuantumObtenerCpu ==
  ASSUME Tipos, Tipos', Quantum, ObtenerCpu
  PROVE  Quantum'
<1>1. libres \in Seq(CPUs) /\ libres # <<>>
  BY DEF Tipos, TypeOK, TipoListas, ObtenerCpu
<1>2. /\ Len(libres') = Len(libres) - 1 /\ Len(libres) \in Nat /\ Len(libres) > 0
      /\ \A i \in 1 .. Len(libres') : libres'[i] = libres[i + 1]
      /\ dcpu' = libres[1]
  BY <1>1, HeadTailProperties, LenProperties DEF ObtenerCpu
<1>3. \A i \in 1 .. Len(libres') : i + 1 \in 1 .. Len(libres) /\ i + 1 # 1
  BY <1>2
<1>4. 1 \in 1 .. Len(libres)
  BY <1>2
<1>5. UNCHANGED <<pc, enCpu, proc, timers, vencidos, marcas>> /\ dpc' = "compactacion"
  BY DEF ObtenerCpu, quantum, manejador
<1>6. LibresDistintas'
  <2>1. ASSUME NEW i \in 1 .. Len(libres'), NEW j \in 1 .. Len(libres'),
               libres'[i] = libres'[j]
        PROVE  i = j
    <3>1. libres[i + 1] = libres[j + 1] /\ i + 1 \in 1 .. Len(libres)
          /\ j + 1 \in 1 .. Len(libres)
      BY <1>2, <1>3, <2>1
    <3>2. i + 1 = j + 1
      BY <3>1 DEF Quantum, DuenoDeCpu, LibresDistintas
    <3> QED BY <3>2
  <2> QED BY <2>1 DEF LibresDistintas
<1>7. LibresOciosas'
  BY <1>2, <1>3, <1>5 DEF Quantum, DuenoDeCpu, LibresOciosas, Ociosa
<1>8. DespachoExclusivo'
  <2>1. Ociosa(libres[1])
    BY <1>4 DEF Quantum, DuenoDeCpu, LibresOciosas
  <2>2. Ociosa(dcpu)'
    BY <1>2, <1>5, <2>1 DEF Ociosa
  <2>3. \A i \in 1 .. Len(libres') : libres'[i] # dcpu'
    BY <1>2, <1>3, <1>4 DEF Quantum, DuenoDeCpu, LibresDistintas
  <2> QED BY <2>2, <2>3 DEF DespachoExclusivo
<1>9. LoQueCorre' /\ Despachado'
  BY <1>5 DEF LoQueCorre, Despachado, Quantum, DuenoDeCpu
<1>10. QuantumArmado'
  BY <1>5 DEF QuantumArmado, Quantum, ObtenerCpu
<1> QED BY <1>6, <1>7, <1>8, <1>9, <1>10 DEF Quantum, DuenoDeCpu

LEMMA QuantumDespachar ==
  ASSUME Tipos, Tipos', Quantum, Despachar
  PROVE  Quantum'
<1>1. enCpu \in [CPUs -> Pids \cup {NADIE}] /\ libres \in Seq(CPUs)
      /\ dcpu \in CPUs /\ dproc \in Pids
  BY DEF Tipos, TypeOK, TipoListas, TipoManejador, LocalDespacho, Despachar
<1>2. /\ UNCHANGED <<libres, pc, proc, timers, vencidos, marcas, dcpu, dproc>>
      /\ dpc = "exec" /\ dpc' = "registrar"
      /\ enCpu' \in {enCpu, [enCpu EXCEPT ![dcpu] = dproc]}
      /\ ~Cerrada(dcpu) => enCpu' = [enCpu EXCEPT ![dcpu] = dproc]
  BY DEF Despachar, quantum
<1>3. Ociosa(dcpu) /\ \A i \in 1 .. Len(libres) : libres[i] # dcpu
  BY <1>2 DEF Quantum, DuenoDeCpu, DespachoExclusivo
<1>4. \A d \in CPUs \ {dcpu} : enCpu'[d] = enCpu[d]
  BY <1>1, <1>2
<1>5. LibresDistintas'
  BY <1>2 DEF LibresDistintas, Quantum, DuenoDeCpu
<1>6. LibresOciosas'
  <2>1. \A i \in 1 .. Len(libres) : libres[i] \in CPUs \ {dcpu}
    BY <1>1, <1>3, ElementOfSeq
  <2> QED BY <1>2, <1>4, <2>1 DEF LibresOciosas, Ociosa, Quantum, DuenoDeCpu
<1>7. DespachoExclusivo'
  BY <1>2 DEF DespachoExclusivo
<1>8. LoQueCorre'
  BY <1>2, <1>3, <1>4 DEF LoQueCorre, Ociosa, SinCpu, ConCpu, Quantum, DuenoDeCpu
<1>9. Despachado'
  BY <1>1, <1>2, <1>3 DEF Despachado, Ociosa, Cerrada
<1>10. QuantumArmado'
  BY <1>2, <1>4 DEF QuantumArmado, Quantum
<1> QED BY <1>5, <1>6, <1>7, <1>8, <1>9, <1>10 DEF Quantum, DuenoDeCpu

LEMMA QuantumCrearTimer ==
  ASSUME Tipos, Tipos', Quantum, CrearTimer
  PROVE  Quantum'
<1>1. TipoQuantum /\ dcpu \in CPUs /\ dproc \in Pids
  BY DEF Tipos, TypeOK, LocalDespacho, CrearTimer
<1>2. /\ UNCHANGED <<libres, pc, enCpu, proc, vencidos, marcas>>
      /\ dpc = "timer" /\ dpc' = "siguiente"
      /\ timers' = IF EnRR(dproc) THEN [timers EXCEPT ![dcpu] = @ + 1] ELSE timers
  BY DEF CrearTimer, listas, manejador
<1>3. DuenoDeCpu'
  BY <1>2 DEF Quantum, DuenoDeCpu, LibresDistintas, LibresOciosas, DespachoExclusivo,
     LoQueCorre, Despachado, Ociosa
<1>4. \A d \in CPUs : Pulsos(d) > 0 => Pulsos(d)' > 0
  BY <1>1, <1>2 DEF Pulsos, TipoQuantum
<1>5. ASSUME EnRR(dproc) PROVE timers'[dcpu] + vencidos'[dcpu] + marcas'[dcpu] > 0
  <2>1. /\ timers'[dcpu] = timers[dcpu] + 1 /\ vencidos'[dcpu] = vencidos[dcpu]
        /\ marcas'[dcpu] = marcas[dcpu]
    BY <1>1, <1>2, <1>5 DEF TipoQuantum
  <2>2. timers[dcpu] \in Nat /\ vencidos[dcpu] \in Nat /\ marcas[dcpu] \in Nat
    BY <1>1 DEF TipoQuantum
  <2> QED BY <2>1, <2>2
<1>6. pc[dcpu] = "espera" => enCpu[dcpu] \in {dproc, NADIE}
  BY <1>2 DEF Quantum, DuenoDeCpu, Despachado
<1>7. QuantumArmado'
  <2>1. \A d \in CPUs : pc[d] = "espera" /\ enCpu[d] # NADIE /\ EnRR(enCpu[d])
                          => Pulsos(d)' > 0
    <3>1. \A d \in CPUs \ {dcpu} : pc[d] = "espera" /\ enCpu[d] # NADIE /\ EnRR(enCpu[d])
                          => Pulsos(d)' > 0
      BY <1>4 DEF Quantum, QuantumArmado, Pulsos
    <3>2. pc[dcpu] = "espera" /\ enCpu[dcpu] # NADIE /\ EnRR(enCpu[dcpu])
                          => timers'[dcpu] + vencidos'[dcpu] + marcas'[dcpu] > 0
      BY <1>5, <1>6
    <3>3. ASSUME NEW d \in CPUs, d = dcpu, pc[d] = "espera", enCpu[d] # NADIE,
                 EnRR(enCpu[d])
          PROVE  Pulsos(d)' > 0
      BY <3>2, <3>3 DEF Pulsos
    <3> QED BY <3>1, <3>3
  <2> QED BY <1>2, <2>1 DEF QuantumArmado, Pulsos
<1> QED BY <1>3, <1>7 DEF Quantum

(* The compaction marks what lista_exec has; a mark is never taken.          *)
LEMMA QuantumMarcarEnExec ==
  ASSUME Tipos, Tipos', Quantum, MarcarEnExec
  PROVE  Quantum'
<1> DEFINE suyas(c) == Cardinality({i \in DOMAIN exec : SocketCpuDe(exec[i]) = c})
<1>1. \A c \in CPUs : suyas(c) \in Nat
  BY MarcadosTipo DEF Tipos, TypeOK, TipoListas
<1>2. marcas' = [c \in CPUs |-> marcas[c] + suyas(c)]
  BY DEF MarcarEnExec
<1>3. UNCHANGED <<libres, pc, enCpu, proc, despacho, timers, vencidos>>
  BY DEF MarcarEnExec, listas, manejador
<1> HIDE DEF suyas
<1>4. \A c \in CPUs : Pulsos(c)' >= Pulsos(c)
  BY <1>1, <1>2, <1>3 DEF Pulsos, Tipos, TypeOK, TipoQuantum
<1> QED BY <1>3, <1>4, SinMoverCpu

(* Every action keeps the owners of the CPUs and their quantum.             *)
LEMMA QuantumPaso == Tipos /\ Tipos' /\ Quantum /\ [Next]_vars => Quantum'
<1> SUFFICES ASSUME Tipos, Tipos', Quantum, [Next]_vars PROVE Quantum'
  OBVIOUS
<1>a. ASSUME UNCHANGED quantum PROVE \A d \in CPUs : Pulsos(d)' >= Pulsos(d)
  BY <1>a DEF quantum, Pulsos, Tipos, TypeOK, TipoQuantum
(* The dispatcher                                                           *)
<1>1. CASE ObtenerSiguiente
  <2>1. /\ UNCHANGED <<libres, pc, enCpu, proc, timers, vencidos, marcas, dcpu>>
        /\ dpc = "siguiente" /\ dpc' = "cpu"
    BY <1>1 DEF ObtenerSiguiente, quantum, manejador
  <2> QED BY <2>1 DEF Quantum, DuenoDeCpu, LibresDistintas, LibresOciosas,
         DespachoExclusivo, LoQueCorre, Despachado, Ociosa, QuantumArmado
<1>2. CASE ObtenerCpu
  BY <1>2, QuantumObtenerCpu
<1>3. CASE EsperarCompactacion
  <2>1. /\ UNCHANGED <<libres, pc, enCpu, proc, timers, vencidos, marcas, dcpu, dproc>>
        /\ dpc = "compactacion" /\ dpc' = "exec"
    BY <1>3 DEF EsperarCompactacion, quantum, manejador, listas
  <2> QED BY <2>1 DEF Quantum, DuenoDeCpu, LibresDistintas, LibresOciosas,
         DespachoExclusivo, LoQueCorre, Despachado, Ociosa, QuantumArmado
<1>4. CASE Despachar
  BY <1>4, QuantumDespachar
<1>5. CASE RegistrarCpuProceso
  <2>1. /\ UNCHANGED <<libres, pc, enCpu, proc, timers, vencidos, marcas, dcpu, dproc>>
        /\ dpc = "registrar" /\ dpc' = "timer"
    BY <1>5 DEF RegistrarCpuProceso, quantum, manejador
  <2> QED BY <2>1 DEF Quantum, DuenoDeCpu, LibresDistintas, LibresOciosas,
         DespachoExclusivo, LoQueCorre, Despachado, Ociosa, QuantumArmado
<1>6. CASE CrearTimer
  BY <1>6, QuantumCrearTimer
(* The timers                                                               *)
<1>7. ASSUME NEW c \in CPUs, VencerQuantum(c) \/ MarcarVencido(c) PROVE Quantum'
  <2>1. \A d \in CPUs : Pulsos(d)' >= Pulsos(d)
    BY <1>7 DEF VencerQuantum, MarcarVencido, Pulsos, Tipos, TypeOK, TipoQuantum
  <2>2. UNCHANGED <<libres, pc, enCpu, proc, despacho>>
    BY <1>7 DEF VencerQuantum, MarcarVencido, listas, manejador
  <2> QED BY <2>1, <2>2, SinMoverCpu
(* The handlers and Kernel Memory                                           *)
<1>8. ASSUME NEW c \in CPUs, Conectar(c) PROVE Quantum'
  BY <1>8, PasoALibres DEF Conectar, IrA
<1>9. ASSUME NEW c \in CPUs, LiberarCpu(c) PROVE Quantum'
  BY <1>9, PasoALibres DEF LiberarCpu, IrA
<1>10. ASSUME NEW c \in CPUs, TickSigue(c) PROVE Quantum'
  BY <1>10, <1>a, SinMoverCpu DEF TickSigue, listas, manejador
<1>11. ASSUME NEW c \in CPUs, Cpu(c) PROVE Quantum'
  BY <1>10, <1>11, QuantumTickDesaloja, QuantumSyscallExit, QuantumSyscallInitProc,
     QuantumSyscallMem DEF Cpu
<1>12. ASSUME NEW c \in CPUs, Manejador(c) PROVE Quantum'
  BY <1>9, <1>12, QuantumReencolarPorCompactacion, QuantumReencolarPorTick,
     QuantumDesalojarPorPrioridad, QuantumFinalizarProceso, QuantumProcesoCreado,
     QuantumProcesoRechazado, QuantumDevolverLlamador, QuantumPedirKm, QuantumVolverAExec
     DEF Manejador
<1>13. ASSUME NEW c \in CPUs, KernelMemory(c) PROVE Quantum'
  BY <1>13, QuantumKmResponde, QuantumKmPideCompactar, QuantumKmEmpiezaACompactar,
     QuantumKmTerminaDeCompactar DEF KernelMemory
<1>14. ASSUME NEW c \in CPUs, Desconectar(c) PROVE Quantum'
  BY <1>14, QuantumDesconectar
(* The listener: only MarcarEnExec touches the marks.                       *)
<1>15. CASE EscucharKernelMemory
  <2>1. CASE MarcarEnExec
    BY <2>1, QuantumMarcarEnExec
  <2>2. CASE ~MarcarEnExec
    <3>1. UNCHANGED quantum /\ UNCHANGED <<libres, pc, enCpu, proc, despacho>>
      BY <1>15, <2>2 DEF EscucharKernelMemory, RecibirCompactar, AvisarDesalojo,
         EsperarDesalojo, ConfirmarCompactacion, BajarDesalojo, RecibirFin, listas,
         manejador
    <3> QED BY <1>a, <3>1, SinMoverCpu
  <2> QED BY <2>1, <2>2
<1>16. CASE UNCHANGED vars
  <2>1. UNCHANGED quantum /\ UNCHANGED <<libres, pc, enCpu, proc, despacho>>
    BY <1>16 DEF vars, listas, manejador
  <2> QED BY <1>a, <2>1, SinMoverCpu
<1> QED BY <1>1, <1>2, <1>3, <1>4, <1>5, <1>6, <1>7, <1>8, <1>11, <1>12, <1>13, <1>14,
       <1>15, <1>16 DEF Next, Despachador, Reposo

LEMMA QuantumInit == Init => Quantum
<1> SUFFICES ASSUME Init PROVE Quantum
  OBVIOUS
<1>1. Len(libres) = 0 /\ dpc = "siguiente"
  BY DEF Init
<1>2. \A c \in CPUs : pc[c] = "sin_conectar" /\ enCpu[c] = NADIE
  BY DEF Init
<1> QED BY <1>1, <1>2 DEF Quantum, DuenoDeCpu, LibresDistintas, LibresOciosas,
       DespachoExclusivo, LoQueCorre, Despachado, QuantumArmado, SinCpu, ConCpu

(* A process of an RR queue never runs without a quantum, whatever CPUs     *)
(* disconnect while the dispatcher is creating its timer.                   *)
THEOREM QuantumSiempre == Spec => []QuantumArmado
<1>1. Quantum => QuantumArmado
  BY DEF Quantum
<1> QED BY <1>1, TiposInit, TiposPaso, QuantumInit, QuantumPaso, PTL DEF Spec

(***************************************************************************)
(* Where the processes and the CPUs are, while no CPU has disconnected: a   *)
(* process is in ready, in the hands of the dispatcher or in those of one   *)
(* CPU.                                                                     *)
(***************************************************************************)
EnDespacho(p) == dpc \in {"cpu", "compactacion", "exec"} /\ dproc = p
EnAlgunLugar(p) ==
  Contains(ready, p) \/ EnDespacho(p) \/ \E c \in CPUs : EnManosDe(c, p)

SinCaidas == \A c \in CPUs : pc[c] \notin {"caida", "prio_rescate"}
Separados ==
  \A p \in Pids :
    /\ EnDespacho(p) => ~Contains(ready, p) /\ \A c \in CPUs : ~EnManosDe(c, p)
    /\ Contains(ready, p) => \A c \in CPUs : ~EnManosDe(c, p)
    /\ \A c, d \in CPUs : EnManosDe(c, p) /\ EnManosDe(d, p) => c = d
Vivos ==
  \A p \in Pids : /\ EnAlgunLugar(p) => p \in activos
                  /\ p \in activos /\ Planificable(p) => EnAlgunLugar(p)
(* A pid that has not been given out yet is nowhere, and the process that   *)
(* asks for a new one is another.                                           *)
PidsDados == \A p \in activos : p < proximo_pid
NuevoDistinto == \A c \in CPUs : pc[c] = "crear" => nuevo[c] # enCpu[c]

(* A CPU that waits with no process is free or in the hands of the          *)
(* dispatcher.                                                              *)
EnDespachoCpu(c) == dpc \in {"compactacion", "exec"} /\ dcpu = c
CpusEnSuLugar ==
  \A c \in CPUs : pc[c] = "espera" /\ enCpu[c] = NADIE => Contains(libres, c) \/ EnDespachoCpu(c)

(* lista_exec, with no repetitions, has what runs.                          *)
Corre(c, p) == enCpu[c] = p /\ pc[c] \notin Paradas
EnExec ==
  /\ SinRepetidos(exec)
  /\ \A p \in Pids : Contains(exec, p) <=> \E c \in CPUs : Corre(c, p)

Ubicados == SinRepetidos(ready) /\ Separados /\ Vivos /\ PidsDados /\ NuevoDistinto
EnSuLugar == SinCaidas /\ Ubicados /\ CpusEnSuLugar /\ EnExec
Lugar == caidas = 0 => EnSuLugar

(***************************************************************************)
(* Steps that are alike                                                     *)
(***************************************************************************)
(* The hands of a CPU whose handler is at x and has q and n, while the CPU  *)
(* runs e.                                                                  *)
Manos(x, e, q, n, p) ==
  e = p \/ (x \in {"reencolar", "finalizar"} /\ q = p) \/ (x = "crear" /\ n = p)

(* A step of the handler of CPU c, which leaves it at x with q and n in its *)
(* hands and its CPU with e: no other handler moves.                        *)
Mueve(c, x, e, q, n) ==
  /\ pc' = [pc EXCEPT ![c] = x] /\ enCpu' = [enCpu EXCEPT ![c] = e]
  /\ proc' = [proc EXCEPT ![c] = q] /\ nuevo' = [nuevo EXCEPT ![c] = n]
  /\ UNCHANGED despacho
  /\ x \notin {"caida", "prio_rescate"}
  /\ x = "crear" => n # e
  /\ \A d \in CPUs : Contains(libres, d) => Contains(libres', d)
  /\ x = "espera" /\ e = NADIE => Contains(libres', c)

LEMMA ManosDelPaso ==
  ASSUME Tipos, EnSuLugar, NEW c \in CPUs, NEW x, NEW e, NEW q, NEW n, Mueve(c, x, e, q, n)
  PROVE  /\ SinCaidas' /\ CpusEnSuLugar' /\ NuevoDistinto'
         /\ \A p : EnDespacho(p)' <=> EnDespacho(p)
         /\ \A p : EnManosDe(c, p)' <=> Manos(x, e, q, n, p)
         /\ \A d \in CPUs \ {c} : \A p : EnManosDe(d, p)' <=> EnManosDe(d, p)
         /\ \A p : Corre(c, p)' <=> e = p /\ x \notin Paradas
         /\ \A d \in CPUs \ {c} : \A p : Corre(d, p)' <=> Corre(d, p)
<1>1. /\ pc \in [CPUs -> PCs] /\ enCpu \in [CPUs -> Pids \cup {NADIE}]
      /\ proc \in [CPUs -> Pids \cup {NADIE}] /\ nuevo \in [CPUs -> Pids \cup {NADIE}]
  BY DEF Tipos, TypeOK, TipoManejador
<1>2. pc'[c] = x /\ enCpu'[c] = e /\ proc'[c] = q /\ nuevo'[c] = n
  BY <1>1 DEF Mueve
<1>3. \A d \in CPUs \ {c} : /\ pc'[d] = pc[d] /\ enCpu'[d] = enCpu[d]
                            /\ proc'[d] = proc[d] /\ nuevo'[d] = nuevo[d]
  BY <1>1 DEF Mueve
<1>4. UNCHANGED <<dpc, dproc, dcpu>>
  BY DEF Mueve, despacho
<1>5. SinCaidas'
  BY <1>2, <1>3 DEF EnSuLugar, SinCaidas, Mueve
<1>6. CpusEnSuLugar'
  BY <1>2, <1>3, <1>4 DEF EnSuLugar, CpusEnSuLugar, EnDespachoCpu, Mueve
<1>7. NuevoDistinto'
  BY <1>2, <1>3 DEF EnSuLugar, Ubicados, NuevoDistinto, Mueve
<1>8. \A p : EnDespacho(p)' <=> EnDespacho(p)
  BY <1>4 DEF EnDespacho
<1>9. /\ \A p : EnManosDe(c, p)' <=> Manos(x, e, q, n, p)
      /\ \A d \in CPUs \ {c} : \A p : EnManosDe(d, p)' <=> EnManosDe(d, p)
  BY <1>2, <1>3 DEF EnManosDe, Manos
<1>10. /\ \A p : Corre(c, p)' <=> e = p /\ x \notin Paradas
       /\ \A d \in CPUs \ {c} : \A p : Corre(d, p)' <=> Corre(d, p)
  BY <1>2, <1>3 DEF Corre
<1> QED BY <1>5, <1>6, <1>7, <1>8, <1>9, <1>10

(* No process changes hands.                                                *)
LEMMA UbicadosEstables ==
  ASSUME Ubicados, UNCHANGED <<ready, activos, proximo_pid>>,
         \A p \in Pids : EnDespacho(p)' <=> EnDespacho(p),
         \A c \in CPUs, p \in Pids : EnManosDe(c, p)' <=> EnManosDe(c, p),
         NuevoDistinto'
  PROVE  Ubicados'
<1>1. \A p \in Pids : EnAlgunLugar(p)' <=> EnAlgunLugar(p)
  BY DEF EnAlgunLugar
<1>2. Separados'
  BY DEF Ubicados, Separados
<1>3. Vivos'
  BY <1>1 DEF Ubicados, Vivos
<1> QED BY <1>2, <1>3 DEF Ubicados, PidsDados

(* A handler puts p, which it has, in ready, if there is a queue for it.    *)
LEMMA UbicadosAReady ==
  ASSUME Ubicados, NEW c \in CPUs, NEW p \in Pids, EnManosDe(c, p),
         UNCHANGED <<activos, proximo_pid>>,
         SinRepetidos(ready'),
         \A q \in Pids : Contains(ready', q) <=> Contains(ready, q) \/ (q = p /\ Planificable(p)),
         \A q \in Pids : EnDespacho(q)' <=> EnDespacho(q),
         \A q \in Pids : EnManosDe(c, q)' <=> EnManosDe(c, q) /\ q # p,
         \A d \in CPUs \ {c} : \A q \in Pids : EnManosDe(d, q)' <=> EnManosDe(d, q),
         NuevoDistinto'
  PROVE  Ubicados'
<1>1. \A d \in CPUs, q \in Pids : EnManosDe(d, q)' => EnManosDe(d, q) /\ q # p
  BY DEF Ubicados, Separados
<1>2. \A q \in Pids \ {p} : EnAlgunLugar(q)' <=> EnAlgunLugar(q)
  BY DEF EnAlgunLugar
<1>3. EnAlgunLugar(p)' <=> Planificable(p)
  BY <1>1 DEF EnAlgunLugar, Ubicados, Separados
<1>4. Separados'
  BY <1>1 DEF Ubicados, Separados
<1>5. EnAlgunLugar(p)
  BY DEF EnAlgunLugar
<1>6. Vivos'
  BY <1>2, <1>3, <1>5 DEF Ubicados, Vivos
<1> QED BY <1>4, <1>6 DEF Ubicados, PidsDados

(* A handler destroys p, which it has.                                      *)
LEMMA UbicadosSinUno ==
  ASSUME Ubicados, NEW c \in CPUs, NEW p \in Pids, EnManosDe(c, p),
         UNCHANGED <<ready, proximo_pid>>, activos' = activos \ {p},
         \A q \in Pids : EnDespacho(q)' <=> EnDespacho(q),
         \A q \in Pids : EnManosDe(c, q)' <=> EnManosDe(c, q) /\ q # p,
         \A d \in CPUs \ {c} : \A q \in Pids : EnManosDe(d, q)' <=> EnManosDe(d, q),
         NuevoDistinto'
  PROVE  Ubicados'
<1>1. \A d \in CPUs, q \in Pids : EnManosDe(d, q)' => EnManosDe(d, q) /\ q # p
  BY DEF Ubicados, Separados
<1>2. \A q \in Pids \ {p} : EnAlgunLugar(q)' <=> EnAlgunLugar(q)
  BY DEF EnAlgunLugar
<1>3. ~EnAlgunLugar(p)'
  BY <1>1 DEF EnAlgunLugar, Ubicados, Separados
<1>4. Separados'
  BY <1>1 DEF Ubicados, Separados
<1>5. Vivos'
  BY <1>2, <1>3 DEF Ubicados, Vivos
<1> QED BY <1>4, <1>5 DEF Ubicados, PidsDados

(* The pushes of agregar_a_ready and of the eviction for a compaction.      *)
LEMMA ReadyMas ==
  ASSUME ready \in Seq(Pids), SinRepetidos(ready), NEW p \in Pids, ~Contains(ready, p),
         NEW r, r \in {ConEnReady(p), IF Planificable(p) THEN <<p>> \o ready ELSE ready}
  PROVE  /\ SinRepetidos(r)
         /\ \A q \in Pids : Contains(r, q) <=> Contains(ready, q) \/ (q = p /\ Planificable(p))
<1>1. CASE ~Planificable(p)
  BY <1>1 DEF ConEnReady
<1>2. CASE Planificable(p)
  <2>1. CASE r = Append(ready, p)
    BY <1>2, <2>1, AppendLista
  <2>2. CASE r = <<p>> \o ready
    BY <1>2, <2>2, ConsLista
  <2> QED BY <1>2, <2>1, <2>2 DEF ConEnReady
<1> QED BY <1>1, <1>2

(* What runs is in the hands of its CPU.                                    *)
LEMMA EnExecEstable ==
  ASSUME EnExec, UNCHANGED exec, \A c \in CPUs, p \in Pids : Corre(c, p)' <=> Corre(c, p)
  PROVE  EnExec'
BY DEF EnExec

(* The handler of c takes p, which its CPU was running, out of exec.        *)
LEMMA EnExecSinUno ==
  ASSUME exec \in Seq(Pids), EnExec, Separados, NEW c \in CPUs, NEW p \in Pids, enCpu[c] = p,
         exec' = RemoveFirst(exec, p),
         \A q \in Pids : ~Corre(c, q)',
         \A d \in CPUs \ {c} : \A q \in Pids : Corre(d, q)' <=> Corre(d, q)
  PROVE  EnExec'
<1>1. /\ SinRepetidos(exec')
      /\ \A q : Contains(exec', q) <=> Contains(exec, q) /\ q # p
  BY RemoveFirstLista DEF EnExec
<1>2. \A d \in CPUs \ {c} : ~Corre(d, p)
  BY DEF Corre, EnManosDe, Separados
<1>3. \A q \in Pids \ {p} : ~Corre(c, q)
  BY DEF Corre
<1> QED BY <1>1, <1>2, <1>3 DEF EnExec

(* ... and puts p, which runs nowhere, in exec when CPU c runs it.          *)
LEMMA EnExecConUno ==
  ASSUME exec \in Seq(Pids), EnExec, NEW c \in CPUs, NEW p \in Pids,
         exec' = Append(exec, p), \A d \in CPUs : ~Corre(d, p),
         \A q \in Pids : ~Corre(c, q), \A q \in Pids : Corre(c, q)' <=> q = p,
         \A d \in CPUs \ {c} : \A q \in Pids : Corre(d, q)' <=> Corre(d, q)
  PROVE  EnExec'
<1>1. ~Contains(exec, p)
  BY DEF EnExec
<1>2. /\ SinRepetidos(exec')
      /\ \A q : Contains(exec', q) <=> Contains(exec, q) \/ q = p
  BY <1>1, AppendLista DEF EnExec
<1> QED BY <1>2 DEF EnExec

(***************************************************************************)
(* Steps that change no process of place                                    *)
(***************************************************************************)
LEMMA LugarSinMover ==
  ASSUME EnSuLugar, UNCHANGED <<pc, enCpu, proc, nuevo, despacho, ready, exec, libres,
                                activos, proximo_pid>>
  PROVE  EnSuLugar'
<1>1. UNCHANGED <<dpc, dproc, dcpu>>
  BY DEF despacho
<1>2. \A c \in CPUs, p \in Pids : EnManosDe(c, p)' <=> EnManosDe(c, p)
  BY DEF EnManosDe
<1>3. \A p \in Pids : EnDespacho(p)' <=> EnDespacho(p)
  BY <1>1 DEF EnDespacho
<1>4. \A c \in CPUs, p \in Pids : Corre(c, p)' <=> Corre(c, p)
  BY DEF Corre
<1>5. SinCaidas' /\ NuevoDistinto' /\ CpusEnSuLugar'
  BY <1>1 DEF EnSuLugar, SinCaidas, Ubicados, NuevoDistinto, CpusEnSuLugar, EnDespachoCpu
<1>6. Ubicados'
  BY <1>2, <1>3, <1>5, UbicadosEstables DEF EnSuLugar
<1>7. EnExec'
  BY <1>4, EnExecEstable DEF EnSuLugar
<1> QED BY <1>5, <1>6, <1>7 DEF EnSuLugar

LEMMA LugarEstable ==
  ASSUME Tipos, EnSuLugar, NEW c \in CPUs, NEW x, NEW e, NEW q, NEW n, Mueve(c, x, e, q, n),
         UNCHANGED <<ready, exec, activos, proximo_pid>>,
         \A p \in Pids : Manos(x, e, q, n, p) <=> EnManosDe(c, p),
         \A p \in Pids : e = p /\ x \notin Paradas <=> Corre(c, p)
  PROVE  EnSuLugar'
<1>1. SinCaidas' /\ CpusEnSuLugar' /\ NuevoDistinto'
  BY ManosDelPaso
<1>2. \A p \in Pids : EnDespacho(p)' <=> EnDespacho(p)
  BY ManosDelPaso
<1>3. \A d \in CPUs, p \in Pids : EnManosDe(d, p)' <=> EnManosDe(d, p)
  BY ManosDelPaso
<1>4. \A d \in CPUs, p \in Pids : Corre(d, p)' <=> Corre(d, p)
  BY ManosDelPaso
<1>5. Ubicados'
  BY <1>1, <1>2, <1>3, UbicadosEstables DEF EnSuLugar
<1>6. EnExec'
  BY <1>4, EnExecEstable DEF EnSuLugar
<1> QED BY <1>1, <1>5, <1>6 DEF EnSuLugar

LEMMA LugarDesalojarPorPrioridad ==
  ASSUME Tipos, Quantum, EnSuLugar, NEW c \in CPUs, DesalojarPorPrioridad(c)
  PROVE  EnSuLugar'
<1>1. pc[c] \in {"prio_tick", "prio_nuevo", "prio_llamador"}
  BY DEF DesalojarPorPrioridad, Siguiente, EnSuLugar, SinCaidas
<1>2. PICK x \in {"liberar", "devolver"} : pc' = [pc EXCEPT ![c] = x]
  <2>1. Siguiente[pc[c]] \in {"liberar", "devolver"}
    BY <1>1 DEF Siguiente
  <2> QED BY <2>1 DEF DesalojarPorPrioridad, IrA
<1>3. UNCHANGED <<enCpu, proc, nuevo, despacho, ready, exec, libres, activos, proximo_pid>>
  BY DEF DesalojarPorPrioridad, listas, proceso
<1>4. Mueve(c, x, enCpu[c], proc[c], nuevo[c])
  BY <1>2, <1>3 DEF Mueve, Tipos, TypeOK, TipoManejador
<1>5. \A p \in Pids : Manos(x, enCpu[c], proc[c], nuevo[c], p) <=> EnManosDe(c, p)
  BY <1>1, <1>2 DEF Manos, EnManosDe
<1>6. \A p \in Pids : enCpu[c] = p /\ x \notin Paradas <=> Corre(c, p)
  BY <1>1, <1>2 DEF Corre, Paradas
<1> QED BY <1>3, <1>4, <1>5, <1>6, LugarEstable

(* Kernel Memory serves a process that waits for it: nothing changes hands. *)
LEMMA LugarParada ==
  ASSUME Tipos, EnSuLugar, NEW c \in CPUs, NEW x \in Paradas, pc[c] \in Paradas,
         pc' = [pc EXCEPT ![c] = x],
         UNCHANGED <<enCpu, proc, nuevo, despacho, ready, exec, libres, activos, proximo_pid>>
  PROVE  EnSuLugar'
<1>1. Mueve(c, x, enCpu[c], proc[c], nuevo[c])
  BY DEF Mueve, Tipos, TypeOK, TipoManejador, Paradas
<1>2. \A p \in Pids : Manos(x, enCpu[c], proc[c], nuevo[c], p) <=> EnManosDe(c, p)
  BY DEF Manos, EnManosDe, Paradas
<1>3. \A p \in Pids : enCpu[c] = p /\ x \notin Paradas <=> Corre(c, p)
  BY DEF Corre
<1> QED BY <1>1, <1>2, <1>3, LugarEstable

LEMMA LugarKernelMemory ==
  ASSUME Tipos, EnSuLugar, NEW c \in CPUs, PedirKm(c) \/ KernelMemory(c)
  PROVE  EnSuLugar'
<1>1. UNCHANGED <<enCpu, proc, nuevo, despacho, ready, exec, libres, activos, proximo_pid>>
  BY DEF PedirKm, KernelMemory, KmResponde, KmPideCompactar, KmEmpiezaACompactar,
     KmTerminaDeCompactar, listas, proceso
<1>2. \E x \in Paradas : pc' = [pc EXCEPT ![c] = x]
  BY DEF PedirKm, KernelMemory, KmResponde, KmPideCompactar, KmEmpiezaACompactar,
     KmTerminaDeCompactar, IrA, Paradas
<1>3. pc[c] \in Paradas
  BY DEF PedirKm, KernelMemory, KmResponde, KmPideCompactar, KmEmpiezaACompactar,
     KmTerminaDeCompactar, Paradas
<1> QED BY <1>1, <1>2, <1>3, LugarParada

(* A CPU goes to cola_cpus_libres.                                          *)
LEMMA LugarALibres ==
  ASSUME Tipos, Quantum, EnSuLugar, NEW c \in CPUs, Conectar(c) \/ LiberarCpu(c)
  PROVE  EnSuLugar'
<1>1. pc[c] \in {"sin_conectar", "liberar"} /\ enCpu[c] = NADIE
  BY DEF Conectar, LiberarCpu, Quantum, DuenoDeCpu, LoQueCorre, SinCpu
<1>2. /\ pc' = [pc EXCEPT ![c] = "espera"] /\ libres' = Append(libres, c)
      /\ UNCHANGED <<enCpu, nuevo, despacho, ready, exec, activos, proximo_pid>>
  BY DEF Conectar, LiberarCpu, IrA, proceso
<1>3. PICK q : proc' = [proc EXCEPT ![c] = q]
  <2>1. proc = [proc EXCEPT ![c] = proc[c]]
    BY DEF Tipos, TypeOK, TipoManejador
  <2> QED BY <2>1 DEF Conectar, LiberarCpu
<1>4. \A d : Contains(libres', d) <=> Contains(libres, d) \/ d = c
  BY <1>2, AppendLista DEF Tipos, TypeOK, TipoListas
<1>5. Mueve(c, "espera", NADIE, q, nuevo[c])
  BY <1>1, <1>2, <1>3, <1>4 DEF Mueve, Tipos, TypeOK, TipoManejador
<1>6. \A p \in Pids : Manos("espera", NADIE, q, nuevo[c], p) <=> EnManosDe(c, p)
  BY <1>1, PidsFacts DEF Manos, EnManosDe
<1>7. \A p \in Pids : NADIE = p /\ "espera" \notin Paradas <=> Corre(c, p)
  BY <1>1, PidsFacts DEF Corre
<1> QED BY <1>2, <1>5, <1>6, <1>7, LugarEstable

(***************************************************************************)
(* A process leaves exec                                                    *)
(***************************************************************************)
LEMMA LugarDeExec ==
  ASSUME Tipos, EnSuLugar, NEW c \in CPUs, TickDesaloja(c) \/ SyscallExit(c)
  PROVE  EnSuLugar'
<1> DEFINE p == enCpu[c]
<1>1. pc[c] = "espera" /\ p \in Pids
  BY DEF TickDesaloja, SyscallExit, Recibe, Tipos, TypeOK, TipoProceso
<1>2. /\ proc' = [proc EXCEPT ![c] = p] /\ enCpu' = [enCpu EXCEPT ![c] = NADIE]
      /\ exec' = RemoveFirst(exec, p)
      /\ UNCHANGED <<nuevo, despacho, ready, libres, activos, proximo_pid>>
  BY DEF TickDesaloja, SyscallExit, QuitarDeExec
<1>3. PICK x \in {"reencolar", "finalizar"} : pc' = [pc EXCEPT ![c] = x]
  BY DEF TickDesaloja, SyscallExit, IrA
<1>4. Mueve(c, x, NADIE, p, nuevo[c])
  BY <1>2, <1>3 DEF Mueve, Tipos, TypeOK, TipoManejador
<1>5. \A r \in Pids : Manos(x, NADIE, p, nuevo[c], r) <=> EnManosDe(c, r)
  BY <1>1, PidsFacts DEF Manos, EnManosDe
<1> HIDE DEF p
<1>6. SinCaidas' /\ CpusEnSuLugar' /\ NuevoDistinto'
  BY <1>4, ManosDelPaso
<1>7. \A r \in Pids : EnDespacho(r)' <=> EnDespacho(r)
  BY <1>4, ManosDelPaso
<1>8. \A d \in CPUs, r \in Pids : EnManosDe(d, r)' <=> EnManosDe(d, r)
  BY <1>4, <1>5, ManosDelPaso
<1>9. /\ \A r \in Pids : ~Corre(c, r)'
      /\ \A d \in CPUs \ {c} : \A r \in Pids : Corre(d, r)' <=> Corre(d, r)
  BY <1>4, PidsFacts, ManosDelPaso
<1>10. Ubicados'
  BY <1>2, <1>6, <1>7, <1>8, UbicadosEstables DEF EnSuLugar
<1>11. EnExec'
  BY <1>1, <1>2, <1>9, EnExecSinUno DEF EnSuLugar, Ubicados, Tipos, TypeOK, TipoListas, p
<1> QED BY <1>6, <1>10, <1>11 DEF EnSuLugar

LEMMA LugarSyscallMem ==
  ASSUME Tipos, EnSuLugar, NEW c \in CPUs, SyscallMem(c)
  PROVE  EnSuLugar'
<1> DEFINE p == enCpu[c]
<1>1. pc[c] = "espera" /\ p \in Pids
  BY DEF SyscallMem, Recibe, Tipos, TypeOK, TipoProceso
<1>2. /\ proc' = [proc EXCEPT ![c] = p] /\ exec' = RemoveFirst(exec, p)
      /\ UNCHANGED <<enCpu, nuevo, despacho, ready, libres, activos, proximo_pid>>
  BY DEF SyscallMem
<1>3. PICK x \in {"pedir_alloc", "pedir_free"} : pc' = [pc EXCEPT ![c] = x]
  BY DEF SyscallMem, IrA
<1>4. Mueve(c, x, p, p, nuevo[c])
  BY <1>2, <1>3 DEF Mueve, Tipos, TypeOK, TipoManejador
<1>5. \A r \in Pids : Manos(x, p, p, nuevo[c], r) <=> EnManosDe(c, r)
  BY <1>1 DEF Manos, EnManosDe
<1> HIDE DEF p
<1>6. SinCaidas' /\ CpusEnSuLugar' /\ NuevoDistinto'
  BY <1>4, ManosDelPaso
<1>7. \A r \in Pids : EnDespacho(r)' <=> EnDespacho(r)
  BY <1>4, ManosDelPaso
<1>8. \A d \in CPUs, r \in Pids : EnManosDe(d, r)' <=> EnManosDe(d, r)
  BY <1>4, <1>5, ManosDelPaso
<1>9. /\ \A r \in Pids : ~Corre(c, r)'
      /\ \A d \in CPUs \ {c} : \A r \in Pids : Corre(d, r)' <=> Corre(d, r)
  BY <1>4, ManosDelPaso DEF Paradas
<1>10. Ubicados'
  BY <1>2, <1>6, <1>7, <1>8, UbicadosEstables DEF EnSuLugar
<1>11. EnExec'
  BY <1>1, <1>2, <1>9, EnExecSinUno DEF EnSuLugar, Ubicados, Tipos, TypeOK, TipoListas, p
<1> QED BY <1>6, <1>10, <1>11 DEF EnSuLugar

(* Kernel Memory has answered: the process goes on in the CPU it had.       *)
LEMMA LugarVolverAExec ==
  ASSUME Tipos, Quantum, EnSuLugar, NEW c \in CPUs, VolverAExec(c)
  PROVE  EnSuLugar'
<1> DEFINE p == proc[c]
<1>1. pc[c] = "volver" /\ p \in Pids /\ enCpu[c] = p
  BY DEF VolverAExec, Tipos, LocalManejador, ConProceso, PCs, Quantum, DuenoDeCpu, LoQueCorre,
     ConCpu
<1>2. /\ proc' = [proc EXCEPT ![c] = NADIE] /\ exec' = Append(exec, p)
      /\ pc' = [pc EXCEPT ![c] = "espera"]
      /\ UNCHANGED <<enCpu, nuevo, despacho, ready, libres, activos, proximo_pid>>
  BY DEF VolverAExec, IrA, proceso
<1>3. Mueve(c, "espera", p, NADIE, nuevo[c])
  BY <1>1, <1>2, PidsFacts DEF Mueve, Tipos, TypeOK, TipoManejador
<1>4. \A r \in Pids : Manos("espera", p, NADIE, nuevo[c], r) <=> EnManosDe(c, r)
  BY <1>1 DEF Manos, EnManosDe
<1>5. \A d \in CPUs : ~Corre(d, p)
  <2>1. \A d \in CPUs : Corre(d, p) => d = c
    BY <1>1 DEF Corre, EnManosDe, EnSuLugar, Ubicados, Separados
  <2> QED BY <1>1, <2>1 DEF Corre, Paradas
<1>6. \A r \in Pids : ~Corre(c, r)
  BY <1>1 DEF Corre, Paradas
<1> HIDE DEF p
<1>7. SinCaidas' /\ CpusEnSuLugar' /\ NuevoDistinto'
  BY <1>3, ManosDelPaso
<1>8. \A r \in Pids : EnDespacho(r)' <=> EnDespacho(r)
  BY <1>3, ManosDelPaso
<1>9. \A d \in CPUs, r \in Pids : EnManosDe(d, r)' <=> EnManosDe(d, r)
  BY <1>3, <1>4, ManosDelPaso
<1>10. /\ \A r \in Pids : Corre(c, r)' <=> r = p
       /\ \A d \in CPUs \ {c} : \A r \in Pids : Corre(d, r)' <=> Corre(d, r)
  BY <1>3, ManosDelPaso DEF Paradas
<1>11. Ubicados'
  BY <1>2, <1>7, <1>8, <1>9, UbicadosEstables DEF EnSuLugar
<1>12. EnExec'
  BY <1>1, <1>2, <1>5, <1>6, <1>10, EnExecConUno DEF EnSuLugar, Tipos, TypeOK, TipoListas
<1> QED BY <1>7, <1>11, <1>12 DEF EnSuLugar

(***************************************************************************)
(* A process goes to ready, leaves it or ends                               *)
(***************************************************************************)
(* The handler of c pushes p, which its CPU no longer runs.                 *)
LEMMA LugarAReady ==
  ASSUME Tipos, EnSuLugar, NEW c \in CPUs, NEW p \in Pids, EnManosDe(c, p),
         NEW x, NEW e, NEW q, NEW n, Mueve(c, x, e, q, n),
         ready' \in {ConEnReady(p), IF Planificable(p) THEN <<p>> \o ready ELSE ready},
         UNCHANGED <<activos, proximo_pid>>,
         \A r \in Pids : Manos(x, e, q, n, r) <=> EnManosDe(c, r) /\ r # p,
         EnExec'
  PROVE  EnSuLugar'
<1>1. ~Contains(ready, p)
  BY DEF EnSuLugar, Ubicados, Separados
<1>2. /\ SinRepetidos(ready')
      /\ \A r \in Pids : Contains(ready', r) <=> Contains(ready, r) \/ (r = p /\ Planificable(p))
  <2>1. ready \in Seq(Pids) /\ SinRepetidos(ready)
    BY DEF EnSuLugar, Ubicados, Tipos, TypeOK, TipoListas
  <2> QED BY <1>1, <2>1, ReadyMas
<1>3. SinCaidas' /\ CpusEnSuLugar' /\ NuevoDistinto'
  BY ManosDelPaso
<1>4. \A r \in Pids : EnDespacho(r)' <=> EnDespacho(r)
  BY ManosDelPaso
<1>5. \A r \in Pids : EnManosDe(c, r)' <=> EnManosDe(c, r) /\ r # p
  BY ManosDelPaso
<1>6. \A d \in CPUs \ {c} : \A r \in Pids : EnManosDe(d, r)' <=> EnManosDe(d, r)
  BY ManosDelPaso
<1>7. Ubicados'
  BY <1>2, <1>3, <1>4, <1>5, <1>6, UbicadosAReady DEF EnSuLugar
<1> QED BY <1>3, <1>7 DEF EnSuLugar

LEMMA LugarReencolar ==
  ASSUME Tipos, Quantum, EnSuLugar, NEW c \in CPUs,
         ReencolarPorCompactacion(c) \/ ReencolarPorTick(c)
  PROVE  EnSuLugar'
<1> DEFINE p == proc[c]
<1>1. pc[c] = "reencolar" /\ p \in Pids /\ enCpu[c] = NADIE
  BY DEF ReencolarPorCompactacion, ReencolarPorTick, Tipos, LocalManejador, ConProceso, PCs,
     Quantum, DuenoDeCpu, LoQueCorre, SinCpu
<1>2. UNCHANGED <<enCpu, proc, nuevo, despacho, exec, libres, activos, proximo_pid>>
  BY DEF ReencolarPorCompactacion, ReencolarPorTick, proceso
<1>3. PICK x \in {"prio_tick", "liberar"} : pc' = [pc EXCEPT ![c] = x]
  BY TrasAgregarValor DEF ReencolarPorCompactacion, ReencolarPorTick, IrA, Siguiente
<1>4. ready' \in {ConEnReady(p), IF Planificable(p) THEN <<p>> \o ready ELSE ready}
  BY DEF ReencolarPorCompactacion, ReencolarPorTick
<1>5. Mueve(c, x, NADIE, p, nuevo[c])
  BY <1>1, <1>2, <1>3 DEF Mueve, Tipos, TypeOK, TipoManejador
<1>6. EnManosDe(c, p)
  BY <1>1 DEF EnManosDe
<1>7. \A r \in Pids : Manos(x, NADIE, p, nuevo[c], r) <=> EnManosDe(c, r) /\ r # p
  BY <1>1, PidsFacts DEF Manos, EnManosDe
<1>8. \A d \in CPUs, r \in Pids : Corre(d, r)' <=> Corre(d, r)
  <2>1. \A r \in Pids : ~Corre(c, r)' /\ ~Corre(c, r)
    BY <1>1, <1>5, PidsFacts, ManosDelPaso DEF Corre
  <2>2. \A d \in CPUs \ {c} : \A r \in Pids : Corre(d, r)' <=> Corre(d, r)
    BY <1>5, ManosDelPaso
  <2> QED BY <2>1, <2>2
<1>9. EnExec'
  BY <1>2, <1>8, EnExecEstable DEF EnSuLugar
<1> HIDE DEF p
<1> QED BY <1>1, <1>2, <1>4, <1>5, <1>6, <1>7, <1>9, LugarAReady

LEMMA LugarProcesoCreado ==
  ASSUME Tipos, Quantum, EnSuLugar, NEW c \in CPUs, ProcesoCreado(c)
  PROVE  EnSuLugar'
<1> DEFINE p == nuevo[c]
<1>1. pc[c] = "crear" /\ p \in Pids /\ p # enCpu[c]
  BY DEF ProcesoCreado, Tipos, LocalManejador, EnSuLugar, Ubicados, NuevoDistinto
<1>2. /\ UNCHANGED <<enCpu, proc, nuevo, despacho, exec, libres, activos, proximo_pid>>
      /\ ready' = ConEnReady(p)
  BY DEF ProcesoCreado
<1>3. PICK x \in {"prio_nuevo", "devolver"} : pc' = [pc EXCEPT ![c] = x]
  BY TrasAgregarValor DEF ProcesoCreado, IrA, Siguiente
<1>4. Mueve(c, x, enCpu[c], proc[c], p)
  BY <1>2, <1>3 DEF Mueve, Tipos, TypeOK, TipoManejador
<1>5. EnManosDe(c, p)
  BY <1>1 DEF EnManosDe
<1>6. \A r \in Pids : Manos(x, enCpu[c], proc[c], p, r) <=> EnManosDe(c, r) /\ r # p
  BY <1>1 DEF Manos, EnManosDe
<1>7. \A d \in CPUs, r \in Pids : Corre(d, r)' <=> Corre(d, r)
  <2>1. \A r \in Pids : Corre(c, r)' <=> Corre(c, r)
    BY <1>1, <1>4, ManosDelPaso DEF Corre, Paradas
  <2>2. \A d \in CPUs \ {c} : \A r \in Pids : Corre(d, r)' <=> Corre(d, r)
    BY <1>4, ManosDelPaso
  <2> QED BY <2>1, <2>2
<1>8. EnExec'
  BY <1>2, <1>7, EnExecEstable DEF EnSuLugar
<1> HIDE DEF p
<1> QED BY <1>1, <1>2, <1>4, <1>5, <1>6, <1>8, LugarAReady

LEMMA LugarDevolverLlamador ==
  ASSUME Tipos, Quantum, EnSuLugar, NEW c \in CPUs, DevolverLlamador(c)
  PROVE  EnSuLugar'
<1> DEFINE p == proc[c]
<1>1. pc[c] = "devolver" /\ p \in Pids /\ enCpu[c] = p
  BY DEF DevolverLlamador, Tipos, LocalManejador, ConProceso, PCs, Quantum, DuenoDeCpu,
     LoQueCorre, ConCpu
<1>2. /\ UNCHANGED <<proc, despacho, libres, activos, proximo_pid>>
      /\ nuevo' = [nuevo EXCEPT ![c] = NADIE] /\ enCpu' = [enCpu EXCEPT ![c] = NADIE]
      /\ exec' = RemoveFirst(exec, p) /\ ready' = ConEnReady(p)
  BY DEF DevolverLlamador, QuitarDeExec
<1>3. PICK x \in {"prio_llamador", "liberar"} : pc' = [pc EXCEPT ![c] = x]
  BY TrasAgregarValor DEF DevolverLlamador, IrA, Siguiente
<1>4. Mueve(c, x, NADIE, p, NADIE)
  BY <1>2, <1>3 DEF Mueve, Tipos, TypeOK, TipoManejador
<1>5. EnManosDe(c, p)
  BY <1>1 DEF EnManosDe
<1>6. \A r \in Pids : Manos(x, NADIE, p, NADIE, r) <=> EnManosDe(c, r) /\ r # p
  BY <1>1, PidsFacts DEF Manos, EnManosDe
<1> HIDE DEF p
<1>7. /\ \A r \in Pids : ~Corre(c, r)'
      /\ \A d \in CPUs \ {c} : \A r \in Pids : Corre(d, r)' <=> Corre(d, r)
  BY <1>4, PidsFacts, ManosDelPaso
<1>8. EnExec'
  BY <1>1, <1>2, <1>7, EnExecSinUno DEF EnSuLugar, Ubicados, Tipos, TypeOK, TipoListas
<1>9. /\ ready' \in {ConEnReady(p), IF Planificable(p) THEN <<p>> \o ready ELSE ready}
      /\ UNCHANGED <<activos, proximo_pid>> /\ p \in Pids
  BY <1>1, <1>2
<1> QED BY <1>4, <1>5, <1>6, <1>8, <1>9, LugarAReady

(* The PCB of a process that ends, or that Kernel Memory rejects, goes.     *)
LEMMA LugarSinUno ==
  ASSUME Tipos, EnSuLugar, NEW c \in CPUs, NEW p \in Pids, EnManosDe(c, p),
         NEW x, Mueve(c, x, enCpu[c], proc[c], nuevo[c]), ~Corre(c, p),
         activos' = activos \ {p}, UNCHANGED <<ready, exec, proximo_pid>>,
         \A r \in Pids : Manos(x, enCpu[c], proc[c], nuevo[c], r) <=> EnManosDe(c, r) /\ r # p,
         x \notin Paradas, pc[c] \notin Paradas
  PROVE  EnSuLugar'
<1>1. SinCaidas' /\ CpusEnSuLugar' /\ NuevoDistinto'
  BY ManosDelPaso
<1>2. \A r \in Pids : EnDespacho(r)' <=> EnDespacho(r)
  BY ManosDelPaso
<1>3. \A r \in Pids : EnManosDe(c, r)' <=> EnManosDe(c, r) /\ r # p
  BY ManosDelPaso
<1>4. \A d \in CPUs \ {c} : \A r \in Pids : EnManosDe(d, r)' <=> EnManosDe(d, r)
  BY ManosDelPaso
<1>5. Ubicados'
  BY <1>1, <1>2, <1>3, <1>4, UbicadosSinUno DEF EnSuLugar
<1>6. \A d \in CPUs, r \in Pids : Corre(d, r)' <=> Corre(d, r)
  <2>1. \A r \in Pids : Corre(c, r)' <=> Corre(c, r)
    BY ManosDelPaso DEF Corre
  <2>2. \A d \in CPUs \ {c} : \A r \in Pids : Corre(d, r)' <=> Corre(d, r)
    BY ManosDelPaso
  <2> QED BY <2>1, <2>2
<1>7. EnExec'
  BY <1>6, EnExecEstable DEF EnSuLugar
<1> QED BY <1>1, <1>5, <1>7 DEF EnSuLugar

LEMMA LugarFinalizarProceso ==
  ASSUME Tipos, Quantum, EnSuLugar, NEW c \in CPUs, FinalizarProceso(c)
  PROVE  EnSuLugar'
<1> DEFINE p == proc[c]
<1>1. pc[c] = "finalizar" /\ p \in Pids /\ enCpu[c] = NADIE
  BY DEF FinalizarProceso, Tipos, LocalManejador, ConProceso, PCs, Quantum, DuenoDeCpu,
     LoQueCorre, SinCpu
<1>2. /\ UNCHANGED <<enCpu, proc, nuevo, despacho, ready, exec, libres, proximo_pid>>
      /\ activos' = activos \ {p} /\ pc' = [pc EXCEPT ![c] = "liberar"]
  BY DEF FinalizarProceso, IrA, listas
<1>3. Mueve(c, "liberar", enCpu[c], p, nuevo[c])
  BY <1>2 DEF Mueve, Tipos, TypeOK, TipoManejador
<1>4. EnManosDe(c, p) /\ ~Corre(c, p)
  BY <1>1, PidsFacts DEF EnManosDe, Corre
<1>5. \A r \in Pids : Manos("liberar", enCpu[c], p, nuevo[c], r) <=> EnManosDe(c, r) /\ r # p
  BY <1>1, PidsFacts DEF Manos, EnManosDe
<1>6. "liberar" \notin Paradas /\ pc[c] \notin Paradas
  BY <1>1 DEF Paradas
<1> QED BY <1>1, <1>2, <1>3, <1>4, <1>5, <1>6, LugarSinUno

LEMMA LugarProcesoRechazado ==
  ASSUME Tipos, Quantum, EnSuLugar, NEW c \in CPUs, ProcesoRechazado(c)
  PROVE  EnSuLugar'
<1> DEFINE p == nuevo[c]
<1>1. pc[c] = "crear" /\ p \in Pids /\ p # enCpu[c]
  BY DEF ProcesoRechazado, Tipos, LocalManejador, EnSuLugar, Ubicados, NuevoDistinto
<1>2. /\ UNCHANGED <<enCpu, proc, nuevo, despacho, ready, exec, libres, proximo_pid>>
      /\ activos' = activos \ {p} /\ pc' = [pc EXCEPT ![c] = "devolver"]
  BY DEF ProcesoRechazado, IrA, listas
<1>3. Mueve(c, "devolver", enCpu[c], proc[c], p)
  BY <1>2 DEF Mueve, Tipos, TypeOK, TipoManejador
<1>4. EnManosDe(c, p) /\ ~Corre(c, p)
  BY <1>1 DEF EnManosDe, Corre
<1>5. \A r \in Pids : Manos("devolver", enCpu[c], proc[c], p, r) <=> EnManosDe(c, r) /\ r # p
  BY <1>1 DEF Manos, EnManosDe
<1>6. "devolver" \notin Paradas /\ pc[c] \notin Paradas
  BY <1>1 DEF Paradas
<1> QED BY <1>1, <1>2, <1>3, <1>4, <1>5, <1>6, LugarSinUno

(* The pid crear_proceso takes is new: no list, handler or CPU has it.      *)
LEMMA LugarSyscallInitProc ==
  ASSUME Tipos, Tipos', EnSuLugar, NEW c \in CPUs, SyscallInitProc(c)
  PROVE  EnSuLugar'
<1> DEFINE p == enCpu[c]
           n == proximo_pid
<1>1. pc[c] = "espera" /\ p \in Pids /\ p \in activos
  BY DEF SyscallInitProc, Recibe, Tipos, TypeOK, TipoProceso
<1>2. /\ UNCHANGED <<enCpu, despacho, ready, exec, libres>>
      /\ pc' = [pc EXCEPT ![c] = "crear"] /\ proc' = [proc EXCEPT ![c] = p]
      /\ nuevo' = [nuevo EXCEPT ![c] = n]
      /\ proximo_pid' = n + 1 /\ activos' = activos \cup {n}
  BY DEF SyscallInitProc, IrA, listas
<1>3. n \in Pids /\ n \in Nat /\ n \notin activos /\ p # n
  BY <1>1 DEF SyscallInitProc, Tipos, TypeOK, TipoProceso, Pids, EnSuLugar, Ubicados, PidsDados
<1>4. Mueve(c, "crear", p, p, n)
  BY <1>2, <1>3 DEF Mueve, Tipos, TypeOK, TipoManejador
<1>5. \A r \in Pids : Manos("crear", p, p, n, r) <=> EnManosDe(c, r) \/ r = n
  BY <1>1 DEF Manos, EnManosDe
<1> HIDE DEF p, n
<1>6. SinCaidas' /\ CpusEnSuLugar' /\ NuevoDistinto'
  BY <1>4, ManosDelPaso
<1>7. \A r \in Pids : EnDespacho(r)' <=> EnDespacho(r)
  BY <1>4, ManosDelPaso
<1>8. /\ \A r \in Pids : EnManosDe(c, r)' <=> EnManosDe(c, r) \/ r = n
      /\ \A d \in CPUs \ {c} : \A r \in Pids : EnManosDe(d, r)' <=> EnManosDe(d, r)
  BY <1>4, <1>5, ManosDelPaso
<1>9. ~EnAlgunLugar(n)
  BY <1>3 DEF EnSuLugar, Ubicados, Vivos
<1>10. Separados'
  BY <1>2, <1>7, <1>8, <1>9 DEF EnSuLugar, Ubicados, Separados, EnAlgunLugar
<1>11. \A r \in Pids : EnAlgunLugar(r)' <=> EnAlgunLugar(r) \/ r = n
  BY <1>2, <1>7, <1>8 DEF EnAlgunLugar
<1>12. Vivos'
  BY <1>2, <1>11 DEF EnSuLugar, Ubicados, Vivos
<1>13. PidsDados'
  <2>1. \A r \in activos : r \in Int
    BY PidsFacts DEF Tipos, TypeOK, TipoProceso
  <2>2. \A r \in activos : r < n
    BY DEF EnSuLugar, Ubicados, PidsDados, n
  <2>3. \A r \in activos \cup {n} : r < n + 1
    BY <1>3, <2>1, <2>2
  <2> QED BY <1>2, <2>3 DEF PidsDados
<1>14. Ubicados'
  BY <1>2, <1>6, <1>10, <1>12, <1>13 DEF EnSuLugar, Ubicados
<1>15. \A d \in CPUs, r \in Pids : Corre(d, r)' <=> Corre(d, r)
  <2>1. \A r \in Pids : Corre(c, r)' <=> Corre(c, r)
    BY <1>1, <1>4, ManosDelPaso DEF Corre, Paradas, p
  <2>2. \A d \in CPUs \ {c} : \A r \in Pids : Corre(d, r)' <=> Corre(d, r)
    BY <1>4, ManosDelPaso
  <2> QED BY <2>1, <2>2
<1>16. EnExec'
  BY <1>2, <1>15, EnExecEstable DEF EnSuLugar
<1> QED BY <1>6, <1>14, <1>16 DEF EnSuLugar

(***************************************************************************)
(* The dispatcher                                                           *)
(***************************************************************************)
LEMMA LugarObtenerSiguiente ==
  ASSUME Tipos, EnSuLugar, ObtenerSiguiente
  PROVE  EnSuLugar'
<1>1. PICK i \in DOMAIN ready : dproc' = ready[i] /\ ready' = RemoveAt(ready, i)
  BY DEF ObtenerSiguiente
<1>2. ready \in Seq(Pids) /\ i \in 1 .. Len(ready) /\ ready[i] \in Pids
  BY ElementOfSeq DEF Tipos, TypeOK, TipoListas
<1>3. /\ UNCHANGED <<pc, enCpu, proc, nuevo, activos, proximo_pid, exec, libres, dcpu>>
      /\ dpc = "siguiente" /\ dpc' = "cpu"
  BY DEF ObtenerSiguiente, proceso, manejador
<1> DEFINE p == ready[i]
<1>4. /\ SinRepetidos(ready')
      /\ \A q : Contains(ready', q) <=> Contains(ready, q) /\ q # p
  BY <1>1, <1>2, RemoveAtLista DEF EnSuLugar, Ubicados
<1>5. Contains(ready, p)
  BY <1>2 DEF Contains
<1>6. \A c \in CPUs, q \in Pids : EnManosDe(c, q)' <=> EnManosDe(c, q)
  BY <1>3 DEF EnManosDe
<1>7. \A q \in Pids : ~EnDespacho(q) /\ (EnDespacho(q)' <=> q = p)
  BY <1>1, <1>3 DEF EnDespacho
<1> HIDE DEF p
<1>8. p \in Pids
  BY <1>2 DEF p
<1>9. Separados'
  BY <1>4, <1>5, <1>6, <1>7, <1>8 DEF EnSuLugar, Ubicados, Separados
<1>10. \A q \in Pids : EnAlgunLugar(q)' <=> EnAlgunLugar(q)
  BY <1>4, <1>5, <1>6, <1>7 DEF EnAlgunLugar
<1>11. Vivos' /\ PidsDados' /\ NuevoDistinto'
  BY <1>3, <1>10 DEF EnSuLugar, Ubicados, Vivos, PidsDados, NuevoDistinto
<1>12. Ubicados'
  BY <1>4, <1>9, <1>11 DEF Ubicados
<1>13. SinCaidas' /\ CpusEnSuLugar'
  BY <1>3 DEF EnSuLugar, SinCaidas, CpusEnSuLugar, EnDespachoCpu
<1>14. \A c \in CPUs, q \in Pids : Corre(c, q)' <=> Corre(c, q)
  BY <1>3 DEF Corre
<1>15. EnExec'
  BY <1>3, <1>14, EnExecEstable DEF EnSuLugar
<1> QED BY <1>12, <1>13, <1>15 DEF EnSuLugar

(* It takes a CPU, waits for the gate, and registers what it has sent.      *)
LEMMA LugarDespacho ==
  ASSUME Tipos, EnSuLugar,
         ObtenerCpu \/ EsperarCompactacion \/ RegistrarCpuProceso \/ CrearTimer
  PROVE  EnSuLugar'
<1>1. UNCHANGED <<pc, enCpu, proc, nuevo, activos, proximo_pid, ready, exec>>
  BY DEF ObtenerCpu, EsperarCompactacion, RegistrarCpuProceso, CrearTimer, proceso, listas,
     manejador
<1>2. \A p \in Pids : EnDespacho(p)' <=> EnDespacho(p)
  BY DEF ObtenerCpu, EsperarCompactacion, RegistrarCpuProceso, CrearTimer, EnDespacho
<1>3. \A c \in CPUs, p \in Pids : EnManosDe(c, p)' <=> EnManosDe(c, p)
  BY <1>1 DEF EnManosDe
<1>4. \A c \in CPUs, p \in Pids : Corre(c, p)' <=> Corre(c, p)
  BY <1>1 DEF Corre
<1>5. SinCaidas' /\ NuevoDistinto'
  BY <1>1 DEF EnSuLugar, SinCaidas, Ubicados, NuevoDistinto
<1>6. \A c \in CPUs : Contains(libres, c) \/ EnDespachoCpu(c)
                         => (Contains(libres, c) \/ EnDespachoCpu(c))'
  <2>1. CASE ObtenerCpu
    <3>1. libres \in Seq(CPUs) /\ libres # <<>>
      BY <2>1 DEF ObtenerCpu, Tipos, TypeOK, TipoListas
    <3>2. \A c : Contains(libres, c) <=> Contains(libres', c) \/ c = dcpu'
      BY <2>1, <3>1, TailLista DEF ObtenerCpu
    <3> QED BY <2>1, <3>2 DEF ObtenerCpu, EnDespachoCpu
  <2>2. CASE ~ObtenerCpu
    BY <2>2 DEF EsperarCompactacion, RegistrarCpuProceso, CrearTimer, EnDespachoCpu, listas
  <2> QED BY <2>1, <2>2
<1>7. CpusEnSuLugar'
  BY <1>1, <1>6 DEF EnSuLugar, CpusEnSuLugar
<1>8. Ubicados'
  BY <1>1, <1>2, <1>3, <1>5, UbicadosEstables DEF EnSuLugar
<1>9. EnExec'
  BY <1>1, <1>4, EnExecEstable DEF EnSuLugar
<1> QED BY <1>5, <1>7, <1>8, <1>9 DEF EnSuLugar

(* The process goes from its hands to those of the CPU, which is idle.      *)
LEMMA LugarDespachar ==
  ASSUME Tipos, Quantum, EnSuLugar, Despachar
  PROVE  EnSuLugar'
<1>0. PICK c \in CPUs, p \in Pids : c = dcpu /\ p = dproc
  BY DEF Despachar, Tipos, LocalDespacho
<1>1. dpc = "exec" /\ dpc' = "registrar"
  BY DEF Despachar
<1>2. pc[c] = "espera" /\ enCpu[c] = NADIE
  BY <1>0, <1>1 DEF Quantum, DuenoDeCpu, DespachoExclusivo, Ociosa, EnSuLugar, SinCaidas
<1>3. /\ UNCHANGED <<pc, proc, nuevo, activos, proximo_pid, ready, libres, dcpu, dproc>>
      /\ exec' = Append(exec, p) /\ enCpu' = [enCpu EXCEPT ![c] = p]
  BY <1>0, <1>2 DEF Despachar, Cerrada
<1>4. enCpu'[c] = p /\ \A d \in CPUs \ {c} : enCpu'[d] = enCpu[d]
  BY <1>3 DEF Tipos, TypeOK, TipoManejador
<1>5. \A q \in Pids : (EnDespacho(q) <=> q = p) /\ ~EnDespacho(q)'
  BY <1>0, <1>1 DEF EnDespacho
<1>6. \A d \in CPUs, q \in Pids : EnManosDe(d, q)' <=> EnManosDe(d, q) \/ (d = c /\ q = p)
  <2>1. \A q \in Pids : ~EnManosDe(c, q) /\ (EnManosDe(c, q)' <=> q = p)
    BY <1>2, <1>3, <1>4, PidsFacts DEF EnManosDe
  <2>2. \A d \in CPUs \ {c} : \A q \in Pids : EnManosDe(d, q)' <=> EnManosDe(d, q)
    BY <1>3, <1>4 DEF EnManosDe
  <2> QED BY <2>1, <2>2
<1>7. /\ \A q \in Pids : ~Corre(c, q)
      /\ \A q \in Pids : Corre(c, q)' <=> q = p
      /\ \A d \in CPUs \ {c} : \A q \in Pids : Corre(d, q)' <=> Corre(d, q)
  BY <1>2, <1>3, <1>4, PidsFacts DEF Corre, Paradas
<1>8. \A d \in CPUs : ~EnManosDe(d, p)
  BY <1>1, <1>5 DEF EnSuLugar, Ubicados, Separados
<1>9. Separados'
  BY <1>1, <1>3, <1>5, <1>6, <1>8 DEF EnSuLugar, Ubicados, Separados
<1>10. \A q \in Pids : EnAlgunLugar(q)' <=> EnAlgunLugar(q)
  BY <1>1, <1>3, <1>5, <1>6 DEF EnAlgunLugar
<1>11. Vivos' /\ PidsDados'
  BY <1>3, <1>10 DEF EnSuLugar, Ubicados, Vivos, PidsDados
<1>12. NuevoDistinto'
  BY <1>2, <1>3, <1>4 DEF EnSuLugar, Ubicados, NuevoDistinto
<1>13. Ubicados'
  BY <1>3, <1>9, <1>11, <1>12 DEF EnSuLugar, Ubicados
<1>14. SinCaidas' /\ CpusEnSuLugar'
  <2>1. enCpu'[c] # NADIE
    BY <1>1, <1>4, PidsFacts
  <2>2. \A d \in CPUs \ {c} : ~EnDespachoCpu(d)
    BY <1>0 DEF EnDespachoCpu
  <2> QED BY <1>3, <1>4, <2>1, <2>2 DEF EnSuLugar, SinCaidas, CpusEnSuLugar
<1>15. \A d \in CPUs : ~Corre(d, p)
  BY <1>8 DEF Corre, EnManosDe
<1>16. EnExec'
  BY <1>1, <1>3, <1>7, <1>15, EnExecConUno DEF EnSuLugar, Tipos, TypeOK, TipoListas
<1> QED BY <1>13, <1>14, <1>16 DEF EnSuLugar

(***************************************************************************)
(* Every action, and the theorems                                           *)
(***************************************************************************)
(* While no CPU has disconnected, a handler knows the pid its CPU runs.     *)
LEMMA NadieDesconocido ==
  ASSUME Tipos, EnSuLugar, NEW c \in CPUs, Desconectar(c), caidas' = 0, caidas = 0
  PROVE  FALSE
<1>1. enCpu[c] \in Pids /\ enCpu[c] \notin activos
  BY DEF Desconectar, Tipos, TypeOK, TipoManejador
<1>2. EnAlgunLugar(enCpu[c])
  BY DEF EnAlgunLugar, EnManosDe
<1> QED BY <1>1, <1>2 DEF EnSuLugar, Ubicados, Vivos

(* caidas changes only, and grows, when a CPU disconnects.                  *)
LEMMA CaidasSoloSuben ==
  ASSUME [Next]_vars, caidas' # caidas
  PROVE  \E c \in CPUs : Desconectar(c) /\ caidas < MaxCaidas /\ caidas' = caidas + 1
<1>1. Despachador => UNCHANGED caidas
  BY DEF Despachador, ObtenerSiguiente, ObtenerCpu, EsperarCompactacion, Despachar,
     RegistrarCpuProceso, CrearTimer
<1>2. ASSUME NEW c \in CPUs, VencerQuantum(c) \/ MarcarVencido(c) \/ Conectar(c) \/ Cpu(c)
      PROVE  UNCHANGED caidas
  BY <1>2 DEF VencerQuantum, MarcarVencido, Conectar, Cpu, TickSigue, TickDesaloja, SyscallExit,
     SyscallInitProc, SyscallMem
<1>3. ASSUME NEW c \in CPUs, Manejador(c) PROVE UNCHANGED caidas
  BY <1>3 DEF Manejador, ReencolarPorCompactacion, ReencolarPorTick, DesalojarPorPrioridad,
     LiberarCpu, FinalizarProceso, ProcesoCreado, ProcesoRechazado, DevolverLlamador, PedirKm,
     VolverAExec
<1>4. ASSUME NEW c \in CPUs, KernelMemory(c) PROVE UNCHANGED caidas
  BY <1>4 DEF KernelMemory, KmResponde, KmPideCompactar, KmEmpiezaACompactar,
     KmTerminaDeCompactar
<1>5. EscucharKernelMemory \/ Reposo \/ UNCHANGED vars => UNCHANGED caidas
  BY DEF EscucharKernelMemory, RecibirCompactar, AvisarDesalojo, MarcarEnExec, EsperarDesalojo,
     ConfirmarCompactacion, BajarDesalojo, RecibirFin, Reposo, vars
<1>6. PICK c \in CPUs : Desconectar(c)
  BY <1>1, <1>2, <1>3, <1>4, <1>5 DEF Next
<1> QED BY <1>6 DEF Desconectar

LEMMA LugarPaso == Tipos /\ Tipos' /\ Quantum /\ Lugar /\ [Next]_vars => Lugar'
<1> SUFFICES ASSUME Tipos, Tipos', Quantum, Lugar, [Next]_vars, caidas' = 0
             PROVE  EnSuLugar'
  BY DEF Lugar
<1>1. caidas = 0 /\ EnSuLugar
  BY CaidasSoloSuben DEF Lugar, Tipos, TypeOK
<1>2. CASE Despachador
  BY <1>1, <1>2, LugarObtenerSiguiente, LugarDespacho, LugarDespachar DEF Despachador
<1>3. ASSUME NEW c \in CPUs, VencerQuantum(c) \/ MarcarVencido(c) \/ TickSigue(c)
      PROVE  EnSuLugar'
  <2>1. UNCHANGED <<pc, enCpu, proc, nuevo, despacho, ready, exec, libres, activos, proximo_pid>>
    BY <1>3 DEF VencerQuantum, MarcarVencido, TickSigue, proceso, listas, manejador
  <2> QED BY <1>1, <2>1, LugarSinMover
<1>4. ASSUME NEW c \in CPUs, Conectar(c) PROVE EnSuLugar'
  BY <1>1, <1>4, LugarALibres
<1>5. ASSUME NEW c \in CPUs, Cpu(c) PROVE EnSuLugar'
  BY <1>1, <1>3, <1>5, LugarDeExec, LugarSyscallInitProc, LugarSyscallMem DEF Cpu
<1>6. ASSUME NEW c \in CPUs, Manejador(c) PROVE EnSuLugar'
  BY <1>1, <1>6, LugarReencolar, LugarDesalojarPorPrioridad, LugarALibres,
     LugarFinalizarProceso, LugarProcesoCreado, LugarProcesoRechazado,
     LugarDevolverLlamador, LugarKernelMemory, LugarVolverAExec DEF Manejador
<1>7. ASSUME NEW c \in CPUs, KernelMemory(c) PROVE EnSuLugar'
  BY <1>1, <1>7, LugarKernelMemory
<1>8. ASSUME NEW c \in CPUs, Desconectar(c) PROVE EnSuLugar'
  BY <1>1, <1>8, NadieDesconocido
<1>9. CASE EscucharKernelMemory \/ UNCHANGED vars
  <2>1. UNCHANGED <<pc, enCpu, proc, nuevo, despacho, ready, exec, libres, activos, proximo_pid>>
    BY <1>9 DEF EscucharKernelMemory, RecibirCompactar, AvisarDesalojo, MarcarEnExec,
       EsperarDesalojo, ConfirmarCompactacion, BajarDesalojo, RecibirFin, proceso, listas,
       manejador, vars
  <2> QED BY <1>1, <2>1, LugarSinMover
<1> QED BY <1>2, <1>3, <1>4, <1>5, <1>6, <1>7, <1>8, <1>9 DEF Next, Reposo

LEMMA LugarInit == Init => Lugar
<1> SUFFICES ASSUME Init PROVE EnSuLugar
  BY DEF Lugar
<1>1. /\ activos = {0} /\ proximo_pid = 1 /\ dpc = "siguiente"
      /\ \A c \in CPUs : pc[c] = "sin_conectar" /\ enCpu[c] = NADIE
  BY DEF Init
<1>2. Len(ready) = 1 /\ ready[1] = 0 /\ Len(exec) = 0
  BY DEF Init
<1>3. /\ SinRepetidos(ready) /\ SinRepetidos(exec)
      /\ \A p : (Contains(ready, p) <=> p = 0) /\ ~Contains(exec, p)
  BY <1>2 DEF SinRepetidos, Contains
<1>4. /\ \A c \in CPUs, p \in Pids : ~EnManosDe(c, p) /\ ~Corre(c, p)
      /\ \A p : ~EnDespacho(p)
  BY <1>1, PidsFacts DEF EnManosDe, Corre, EnDespacho
<1>5. Separados /\ Vivos
  BY <1>1, <1>3, <1>4 DEF Separados, Vivos, EnAlgunLugar
<1>6. PidsDados /\ NuevoDistinto /\ SinCaidas /\ CpusEnSuLugar
  BY <1>1 DEF PidsDados, NuevoDistinto, SinCaidas, CpusEnSuLugar
<1>7. EnExec
  BY <1>3, <1>4 DEF EnExec
<1> QED BY <1>3, <1>5, <1>6, <1>7 DEF EnSuLugar, Ubicados

(* The three places of the properties are those of the invariant.           *)
LEMMA LugaresDelProceso ==
  ASSUME Tipos, EnSuLugar, NEW p \in Pids
  PROVE  /\ \A l, m \in Lugares(p) : l = m
         /\ Lugares(p) # {} <=> EnAlgunLugar(p)
<1> DEFINE R == {<<"ready", i>> : i \in {j \in DOMAIN ready : ready[j] = p}}
           D == {<<"dispatcher", d>> : d \in {dproc} \cap
                   (IF dpc \in {"cpu", "compactacion", "exec"} THEN {p} ELSE {})}
           C == {<<"cpu", c>> : c \in {d \in CPUs : EnManosDe(d, p)}}
<1>1. DOMAIN ready = 1 .. Len(ready)
  BY LenProperties DEF Tipos, TypeOK, TipoListas
<1>2. Lugares(p) = R \cup D \cup C
  BY DEF Lugares
<1>3. /\ R # {} <=> Contains(ready, p)
      /\ \A l, m \in R : l = m
  <2>1. \A i, j \in {k \in DOMAIN ready : ready[k] = p} : i = j
    BY <1>1 DEF EnSuLugar, Ubicados, SinRepetidos
  <2>2. {k \in DOMAIN ready : ready[k] = p} # {} <=> Contains(ready, p)
    BY <1>1 DEF Contains
  <2> QED BY <2>1, <2>2
<1>4. /\ D # {} <=> EnDespacho(p)
      /\ \A l, m \in D : l = m
  BY DEF EnDespacho
<1>5. /\ C # {} <=> \E c \in CPUs : EnManosDe(c, p)
      /\ \A l, m \in C : l = m
  BY DEF EnSuLugar, Ubicados, Separados
<1> HIDE DEF R, D, C
<1>6. /\ R # {} => D = {} /\ C = {}
      /\ D # {} => C = {}
  BY <1>3, <1>4, <1>5 DEF EnSuLugar, Ubicados, Separados
<1> QED BY <1>2, <1>3, <1>4, <1>5, <1>6 DEF EnAlgunLugar

LEMMA LugaresDeLaCpu ==
  ASSUME Tipos, Quantum, EnSuLugar, NEW c \in CPUs
  PROVE  /\ \A l, m \in LugaresCpu(c) : l = m
         /\ pc[c] # "sin_conectar" <=> LugaresCpu(c) # {}
<1> DEFINE L == {<<"libres", i>> : i \in {j \in DOMAIN libres : libres[j] = c}}
           D == IF dpc \in {"compactacion", "exec"} /\ dcpu = c
                THEN {<<"dispatcher", 0>>} ELSE {}
           O == IF Ocupada(c) THEN {<<"ocupada", 0>>} ELSE {}
<1>1. DOMAIN libres = 1 .. Len(libres)
  BY LenProperties DEF Tipos, TypeOK, TipoListas
<1>2. LugaresCpu(c) = L \cup D \cup O
  BY DEF LugaresCpu
<1>3. /\ L # {} <=> Contains(libres, c)
      /\ \A l, m \in L : l = m
  <2>1. \A i, j \in {k \in DOMAIN libres : libres[k] = c} : i = j
    BY <1>1 DEF Quantum, DuenoDeCpu, LibresDistintas
  <2>2. {k \in DOMAIN libres : libres[k] = c} # {} <=> Contains(libres, c)
    BY <1>1 DEF Contains
  <2> QED BY <2>1, <2>2
<1>4. /\ D # {} <=> EnDespachoCpu(c)
      /\ \A l, m \in D : l = m
  BY DEF EnDespachoCpu
<1>5. /\ O # {} <=> Ocupada(c)
      /\ \A l, m \in O : l = m
  OBVIOUS
<1>6. Ociosa(c) => pc[c] = "espera" /\ enCpu[c] = NADIE
  BY DEF Ociosa, EnSuLugar, SinCaidas
<1>7. Contains(libres, c) => Ociosa(c) /\ ~EnDespachoCpu(c)
  BY DEF Contains, Quantum, DuenoDeCpu, LibresOciosas, DespachoExclusivo, EnDespachoCpu
<1>8. EnDespachoCpu(c) => Ociosa(c)
  BY DEF Quantum, DuenoDeCpu, DespachoExclusivo, EnDespachoCpu
<1>9. Ociosa(c) => ~Ocupada(c)
  BY <1>6 DEF Ocupada
<1>10. pc[c] # "sin_conectar" <=> Contains(libres, c) \/ EnDespachoCpu(c) \/ Ocupada(c)
  <2>1. pc[c] = "sin_conectar" => ~Ociosa(c) /\ ~Ocupada(c)
    BY DEF Ociosa, Ocupada, Quantum, DuenoDeCpu, LoQueCorre, SinCpu
  <2>2. pc[c] \notin {"sin_conectar", "espera"} => Ocupada(c)
    BY DEF Ocupada, EnSuLugar, SinCaidas
  <2>3. pc[c] = "espera" => Contains(libres, c) \/ EnDespachoCpu(c) \/ Ocupada(c)
    BY DEF Ocupada, EnSuLugar, CpusEnSuLugar
  <2> QED BY <1>7, <1>8, <2>1, <2>2, <2>3
<1> HIDE DEF L, D, O
<1> QED BY <1>2, <1>3, <1>4, <1>5, <1>7, <1>8, <1>9, <1>10

(* No live process is lost, is in two queues or runs twice, and no list     *)
(* keeps a freed PCB, whatever the threads do while every CPU stays.        *)
THEOREM UnSoloLugarSiempre == Spec => []ProcesoEnUnSoloLugar
<1>1. Tipos /\ Lugar => ProcesoEnUnSoloLugar
  BY LugaresDelProceso DEF Lugar, ProcesoEnUnSoloLugar, EnSuLugar, Ubicados, Vivos
<1> QED BY <1>1, TiposInit, TiposPaso, QuantumInit, QuantumPaso, LugarInit, LugarPaso, PTL
       DEF Spec

(* Every CPU is free, in the hands of the dispatcher or busy, never two of  *)
(* them: the dispatcher sends a pid only to a CPU that waits for one.       *)
THEOREM CpuEnUnSoloLugarSiempre == Spec => []CpuEnUnSoloLugar
<1>1. Tipos /\ Quantum /\ Lugar => CpuEnUnSoloLugar
  BY LugaresDeLaCpu DEF Lugar, CpuEnUnSoloLugar
<1> QED BY <1>1, TiposInit, TiposPaso, QuantumInit, QuantumPaso, LugarInit, LugarPaso, PTL
       DEF Spec

(* lista_exec is what runs: the compaction counts, and the preemption       *)
(* chooses among, the processes that run and no other.                      *)
THEOREM ExecAlDiaSiempre == Spec => []ExecAlDia
<1>1. Tipos /\ Lugar => ExecAlDia
  <2>1. Tipos => DOMAIN exec = 1 .. Len(exec)
    BY LenProperties DEF Tipos, TypeOK, TipoListas
  <2> QED BY <2>1 DEF Lugar, EnSuLugar, EnExec, SinRepetidos, Corre, ExecAlDia
<1> QED BY <1>1, TiposInit, TiposPaso, QuantumInit, QuantumPaso, LugarInit, LugarPaso, PTL
       DEF Spec

-----------------------------------------------------------------------------
(* While no CPU has disconnected, what a CPU runs is in lista_cpu_proceso,  *)
(* for any number of CPUs and processes.                                    *)

(* quitar_de_exec(p) drops a pair of p: those of the others stay.           *)
LEMMA SinParLista ==
  ASSUME NEW pares \in Seq(Pares), NEW p, NEW par, Contains(pares, par), par.pid # p
  PROVE  Contains(SinPar(pares, p), par)
<1> DEFINE I == {i \in 1 .. Len(pares) : pares[i].pid = p}
<1>1. CASE I = {}
  BY <1>1 DEF SinPar, RemoveFirstMatch
<1>2. CASE I # {}
  <2> DEFINE m == Min(I)
             t == RemoveAt(pares, m)
  <2>1. m \in I
    <3>1. I \subseteq Nat
      BY LenProperties
    <3> HIDE DEF I
    <3> QED BY <1>2, <3>1, MinProperties
  <2>2. SinPar(pares, p) = t
    BY <1>2 DEF SinPar, RemoveFirstMatch, SelectInSeq
  <2>3. m \in 1 .. Len(pares) /\ pares[m].pid = p
    <3> HIDE DEF m
    <3> QED BY <2>1
  <2>4. PICK i \in 1 .. Len(pares) : pares[i] = par
    BY DEF Contains
  <2> HIDE DEF m, I
  <2>5. i # m
    BY <2>3, <2>4
  <2>6. /\ Len(pares) \in Nat /\ Len(t) = Len(pares) - 1
        /\ \A k \in 1 .. Len(t) : t[k] = IF k < m THEN pares[k] ELSE pares[k + 1]
    BY <2>3, RemoveAtProperties, LenProperties
  <2> HIDE DEF t
  <2>7. CASE i < m
    <3>1. i \in 1 .. Len(t) /\ t[i] = par
      BY <2>3, <2>4, <2>6, <2>7
    <3> QED BY <2>2, <3>1 DEF Contains
  <2>8. CASE i > m
    <3>1. i - 1 \in 1 .. Len(t) /\ t[i - 1] = par
      BY <2>3, <2>4, <2>6, <2>8
    <3> QED BY <2>2, <3>1 DEF Contains
  <2> QED BY <2>3, <2>4, <2>5, <2>7, <2>8
<1> QED BY <1>1, <1>2

(* Two CPUs do not run one process.                                         *)
LEMMA CorrenDistintos ==
  ASSUME Tipos, EnSuLugar, NEW c \in CPUs, NEW d \in CPUs, enCpu[c] # NADIE, c # d
  PROVE  enCpu[c] # enCpu[d]
<1>1. enCpu[c] \in Pids
  BY DEF Tipos, TypeOK, TipoManejador
<1> QED BY <1>1 DEF EnSuLugar, Ubicados, Separados, EnManosDe

(* While no CPU has disconnected, what a CPU runs has a pair from its        *)
(* registration on.                                                         *)
Registrada ==
  caidas = 0 =>
    \A c \in CPUs : enCpu[c] # NADIE /\ ~(dcpu = c /\ dpc = "registrar")
                      => Contains(cpuProceso, [cpu |-> c, pid |-> enCpu[c]])

LEMMA ParesEstables ==
  ASSUME Registrada, caidas = 0, UNCHANGED <<cpuProceso, enCpu, dpc, dcpu>>
  PROVE  Registrada'
BY DEF Registrada

(* The handler of c takes what its CPU was running out of exec.             *)
LEMMA ParesQuitar ==
  ASSUME Tipos, EnSuLugar, Registrada, caidas = 0,
         NEW c \in CPUs, QuitarDeExec(enCpu[c]), enCpu[c] # NADIE,
         enCpu' = [enCpu EXCEPT ![c] = NADIE], UNCHANGED <<dpc, dcpu>>
  PROVE  Registrada'
<1> DEFINE p == enCpu[c]
<1>1. enCpu \in [CPUs -> Pids \cup {NADIE}] /\ cpuProceso \in Seq(Pares)
  BY DEF Tipos, TypeOK, TipoManejador, TipoListas
<1> SUFFICES ASSUME NEW d \in CPUs, enCpu'[d] # NADIE, ~(dcpu = d /\ dpc = "registrar")
             PROVE  Contains(cpuProceso', [cpu |-> d, pid |-> enCpu'[d]])
  BY DEF Registrada
<1>2. d # c /\ enCpu'[d] = enCpu[d]
  BY <1>1
<1> DEFINE par == [cpu |-> d, pid |-> enCpu[d]]
<1>3. Contains(cpuProceso, par)
  BY <1>2 DEF Registrada
<1>4. par.pid # p
  BY <1>2, CorrenDistintos
<1>5. cpuProceso' \in {cpuProceso, SinPar(cpuProceso, p)}
  BY DEF QuitarDeExec
<1> HIDE DEF par, p
<1>6. Contains(cpuProceso', par)
  BY <1>1, <1>3, <1>4, <1>5, SinParLista
<1> QED BY <1>2, <1>6 DEF par

(* From its registration on, the CPU the dispatcher chose has its pair: it  *)
(* runs what was sent to it, or nothing.                                    *)
LEMMA ParesRegistrar ==
  ASSUME Tipos, Quantum, EnSuLugar, Registrada, caidas = 0, RegistrarCpuProceso
  PROVE  Registrada'
<1>1. /\ dpc = "registrar" /\ cpuProceso' = Append(cpuProceso, [cpu |-> dcpu, pid |-> dproc])
      /\ enCpu' = enCpu
  BY DEF RegistrarCpuProceso, manejador
<1>2. [cpu |-> dcpu, pid |-> dproc] \in Pares /\ cpuProceso \in Seq(Pares)
  BY <1>1 DEF Tipos, LocalDespacho, TypeOK, TipoListas, Pares
<1>3. enCpu[dcpu] \in {dproc, NADIE}
  BY <1>1, <1>2 DEF Quantum, DuenoDeCpu, Despachado, EnSuLugar, SinCaidas, Pares
<1>4. \A x : Contains(cpuProceso', x) <=>
               Contains(cpuProceso, x) \/ x = [cpu |-> dcpu, pid |-> dproc]
  BY <1>1, <1>2, AppendLista
<1> SUFFICES ASSUME NEW c \in CPUs, enCpu[c] # NADIE
             PROVE  Contains(cpuProceso', [cpu |-> c, pid |-> enCpu[c]])
  BY <1>1 DEF Registrada
<1>5. CASE c = dcpu
  BY <1>3, <1>4, <1>5
<1>6. CASE c # dcpu
  BY <1>4, <1>6 DEF Registrada
<1> QED BY <1>5, <1>6

(* A CPU that is sent a pid is the one that is being registered.            *)
LEMMA ParesDespachar ==
  ASSUME Tipos, Registrada, caidas = 0, Despachar
  PROVE  Registrada'
<1>1. dpc' = "registrar" /\ dcpu' = dcpu /\ dpc = "exec" /\ cpuProceso' = cpuProceso
  BY DEF Despachar
<1>2. \A c \in CPUs : c # dcpu => enCpu'[c] = enCpu[c]
  BY DEF Despachar, Tipos, TypeOK, TipoManejador
<1> QED BY <1>1, <1>2 DEF Registrada

LEMMA ParesPaso == Tipos /\ Quantum /\ Lugar /\ Registrada /\ [Next]_vars => Registrada'
<1> SUFFICES ASSUME Tipos, Quantum, Lugar, Registrada, [Next]_vars, caidas' = 0
             PROVE  Registrada'
  BY DEF Registrada
<1>1. caidas = 0 /\ EnSuLugar
  BY CaidasSoloSuben DEF Lugar, Tipos, TypeOK
<1>2. CASE Despachador
  <2>1. CASE ObtenerSiguiente \/ ObtenerCpu \/ EsperarCompactacion \/ CrearTimer
    <3>1. /\ cpuProceso' = cpuProceso /\ enCpu' = enCpu
          /\ dpc # "registrar" /\ dpc' # "registrar"
      BY <2>1 DEF ObtenerSiguiente, ObtenerCpu, EsperarCompactacion, CrearTimer, listas, manejador
    <3> QED BY <1>1, <3>1 DEF Registrada
  <2> QED BY <1>1, <1>2, <2>1, ParesRegistrar, ParesDespachar DEF Despachador
<1>3. ASSUME NEW c \in CPUs, TickDesaloja(c) \/ SyscallExit(c) \/ DevolverLlamador(c)
      PROVE  Registrada'
  <2>1. enCpu[c] # NADIE /\ QuitarDeExec(enCpu[c])
    <3>1. CASE TickDesaloja(c) \/ SyscallExit(c)
      BY <3>1, PidsFacts DEF TickDesaloja, SyscallExit, Recibe, Tipos, TypeOK, TipoProceso
    <3>2. CASE DevolverLlamador(c)
      BY <3>2, PidsFacts DEF DevolverLlamador, Tipos, LocalManejador, ConProceso, PCs,
         Quantum, DuenoDeCpu, LoQueCorre, ConCpu
    <3> QED BY <1>3, <3>1, <3>2
  <2>2. enCpu' = [enCpu EXCEPT ![c] = NADIE] /\ UNCHANGED <<dpc, dcpu>>
    BY <1>3 DEF TickDesaloja, SyscallExit, DevolverLlamador, despacho
  <2> QED BY <1>1, <2>1, <2>2, ParesQuitar
<1>4. ASSUME NEW c \in CPUs, VencerQuantum(c) \/ MarcarVencido(c) \/ Conectar(c)
      PROVE  Registrada'
  BY <1>1, <1>4, ParesEstables DEF VencerQuantum, MarcarVencido, Conectar, listas,
     manejador, despacho
<1>5. ASSUME NEW c \in CPUs, Cpu(c) PROVE Registrada'
  <2>1. CASE TickSigue(c) \/ SyscallInitProc(c) \/ SyscallMem(c)
    BY <1>1, <2>1, ParesEstables DEF TickSigue, SyscallInitProc, SyscallMem, listas,
       manejador, despacho
  <2> QED BY <1>3, <1>5, <2>1 DEF Cpu
<1>6. ASSUME NEW c \in CPUs, Manejador(c) PROVE Registrada'
  <2>1. CASE ReencolarPorCompactacion(c) \/ ReencolarPorTick(c) \/ DesalojarPorPrioridad(c)
             \/ LiberarCpu(c) \/ FinalizarProceso(c)
    BY <1>1, <2>1, ParesEstables DEF ReencolarPorCompactacion, ReencolarPorTick,
       DesalojarPorPrioridad, LiberarCpu, FinalizarProceso, listas, despacho
  <2>2. CASE ProcesoCreado(c) \/ ProcesoRechazado(c) \/ PedirKm(c) \/ VolverAExec(c)
    BY <1>1, <2>2, ParesEstables DEF ProcesoCreado, ProcesoRechazado, PedirKm, VolverAExec,
       listas, despacho
  <2> QED BY <1>3, <1>6, <2>1, <2>2 DEF Manejador
<1>7. ASSUME NEW c \in CPUs, KernelMemory(c) PROVE Registrada'
  BY <1>1, <1>7, ParesEstables DEF KernelMemory, KmResponde, KmPideCompactar,
     KmEmpiezaACompactar, KmTerminaDeCompactar, listas, manejador, despacho
<1>8. ASSUME NEW c \in CPUs, Desconectar(c) PROVE FALSE
  BY <1>1, <1>8, NadieDesconocido
<1>9. CASE EscucharKernelMemory \/ UNCHANGED vars
  BY <1>1, <1>9, ParesEstables DEF EscucharKernelMemory, RecibirCompactar, AvisarDesalojo,
     MarcarEnExec, EsperarDesalojo, ConfirmarCompactacion, BajarDesalojo, RecibirFin, listas,
     manejador, despacho, vars
<1> QED BY <1>2, <1>4, <1>5, <1>6, <1>7, <1>8, <1>9 DEF Next, Reposo

(* The search of a CPU, and the one of a process, take a pair that matches.  *)
LEMMA PrimerDeProceso ==
  ASSUME cpuProceso \in Seq(Pares), NEW p, NEW k \in 1 .. Len(cpuProceso), cpuProceso[k].pid = p
  PROVE  \E i \in 1 .. Len(cpuProceso) :
           cpuProceso[i].pid = p /\ SocketCpuDe(p) = cpuProceso[i].cpu
<1> DEFINE I == {i \in 1 .. Len(cpuProceso) : cpuProceso[i].pid = p}
<1>1. k \in I
  OBVIOUS
<1>2. Min(I) \in I
  <2>1. I \subseteq Nat
    BY LenProperties
  <2> HIDE DEF I
  <2> QED BY <1>1, <2>1, MinProperties
<1>3. SocketCpuDe(p) = IF Min(I) = 0 THEN NADIE ELSE cpuProceso[Min(I)].cpu
  BY <1>1 DEF SocketCpuDe, SelectInSeq
<1>4. Min(I) \in 1 .. Len(cpuProceso) /\ cpuProceso[Min(I)].pid = p /\ Min(I) # 0
  <2> HIDE DEF I
  <2>1. Min(I) \in 1 .. Len(cpuProceso) /\ cpuProceso[Min(I)].pid = p
    BY <1>2 DEF I
  <2> QED BY <2>1
<1> HIDE DEF I
<1> QED BY <1>3, <1>4

LEMMA PrimerDeCpu ==
  ASSUME cpuProceso \in Seq(Pares), NEW c, NEW k \in 1 .. Len(cpuProceso), cpuProceso[k].cpu = c
  PROVE  \E i \in 1 .. Len(cpuProceso) :
           cpuProceso[i].cpu = c /\ PidDeCpu(c) = cpuProceso[i].pid
<1> DEFINE I == {i \in 1 .. Len(cpuProceso) : cpuProceso[i].cpu = c}
<1>1. k \in I
  OBVIOUS
<1>2. Min(I) \in I
  <2>1. I \subseteq Nat
    BY LenProperties
  <2> HIDE DEF I
  <2> QED BY <1>1, <2>1, MinProperties
<1>3. PidDeCpu(c) = IF Min(I) = 0 THEN NADIE ELSE cpuProceso[Min(I)].pid
  BY <1>1 DEF PidDeCpu, SelectInSeq
<1>4. Min(I) \in 1 .. Len(cpuProceso) /\ cpuProceso[Min(I)].cpu = c /\ Min(I) # 0
  <2> HIDE DEF I
  <2>1. Min(I) \in 1 .. Len(cpuProceso) /\ cpuProceso[Min(I)].cpu = c
    BY <1>2 DEF I
  <2> QED BY <2>1
<1> HIDE DEF I
<1> QED BY <1>3, <1>4

(* Both searches find it, if no pair of the past may come first: two CPUs    *)
(* never run one process.                                                   *)
LEMMA RegistradaAlDia == Tipos /\ Lugar /\ Registrada => ParAlDia
<1> SUFFICES ASSUME Tipos, Lugar, Registrada, caidas = 0, NEW c \in CPUs, enCpu[c] # NADIE,
                    ~(dcpu = c /\ dpc = "registrar")
             PROVE  /\ (\A i \in Viejos : cpuProceso[i].pid # enCpu[c]) => SocketCpuDe(enCpu[c]) = c
                    /\ (\A i \in Viejos : cpuProceso[i].cpu # c) => PidDeCpu(c) = enCpu[c]
  BY DEF ParAlDia
<1>1. cpuProceso \in Seq(Pares) /\ DOMAIN cpuProceso = 1 .. Len(cpuProceso)
  BY LenProperties DEF Tipos, TypeOK, TipoListas
<1>2. \A i \in DOMAIN cpuProceso : cpuProceso[i].cpu \in CPUs
  <2>1. \A i \in 1 .. Len(cpuProceso) : cpuProceso[i] \in Pares
    BY <1>1, ElementOfSeq
  <2> QED BY <1>1, <2>1 DEF Pares
<1>3. PICK k \in DOMAIN cpuProceso : cpuProceso[k] = [cpu |-> c, pid |-> enCpu[c]]
  BY <1>1 DEF Registrada, Contains
<1>4. k \in 1 .. Len(cpuProceso) /\ cpuProceso[k].cpu = c /\ cpuProceso[k].pid = enCpu[c]
  BY <1>1, <1>3
<1>5. ASSUME \A i \in Viejos : cpuProceso[i].pid # enCpu[c] PROVE SocketCpuDe(enCpu[c]) = c
  <2>1. \A i \in DOMAIN cpuProceso : cpuProceso[i].pid = enCpu[c] => cpuProceso[i].cpu = c
    BY <1>2, <1>5, CorrenDistintos DEF Viejos, Lugar
  <2>2. \E i \in 1 .. Len(cpuProceso) :
          cpuProceso[i].pid = enCpu[c] /\ SocketCpuDe(enCpu[c]) = cpuProceso[i].cpu
    BY <1>1, <1>4, PrimerDeProceso
  <2> QED BY <1>1, <2>1, <2>2
<1>6. ASSUME \A i \in Viejos : cpuProceso[i].cpu # c PROVE PidDeCpu(c) = enCpu[c]
  <2>1. \A i \in DOMAIN cpuProceso : cpuProceso[i].cpu = c => cpuProceso[i].pid = enCpu[c]
    BY <1>6 DEF Viejos
  <2>2. \E i \in 1 .. Len(cpuProceso) :
          cpuProceso[i].cpu = c /\ PidDeCpu(c) = cpuProceso[i].pid
    BY <1>1, <1>4, PrimerDeCpu
  <2> QED BY <1>1, <2>1, <2>2
<1> QED BY <1>5, <1>6

(* Until a CPU disconnects, preemption, compaction and rescue find what each *)
(* CPU runs by its first pair, except behind a pair of the past.            *)
THEOREM ParAlDiaSiempre == Spec => []ParAlDia
<1>1. Init => Registrada
  BY DEF Init, Registrada
<1> QED BY <1>1, TiposInit, TiposPaso, QuantumInit, QuantumPaso, LugarInit, LugarPaso,
       ParesPaso, RegistradaAlDia, PTL DEF Spec

-----------------------------------------------------------------------------
(* While no CPU has disconnected the scheduler implements Turnos, for any   *)
(* number of CPUs and processes.                                            *)

Abstractas == <<proximo_pid, activos, enCpu>>

LEMMA TurnosInit == Init => Programas!Init
<1> SUFFICES ASSUME Init PROVE Programas!Init
  OBVIOUS
<1>1. 0 .. proximo_pid - 1 = {0} /\ activos = {0} /\ enCpu = [c \in CPUs |-> NADIE]
  BY DEF Init
<1> QED BY <1>1, PidsFacts DEF Programas!Init

(* A CPU that is sent a pid starts it: it ran nothing, nobody ran it.       *)
LEMMA TurnosDespachar ==
  ASSUME Tipos, Quantum, EnSuLugar, Despachar
  PROVE  Programas!Next
<1>0. PICK c \in CPUs, p \in Pids : c = dcpu /\ p = dproc
  BY DEF Despachar, Tipos, LocalDespacho
<1>1. EnDespacho(p)
  BY <1>0 DEF EnDespacho, Despachar
<1>2. p \in activos /\ \A d \in CPUs : enCpu[d] # p
  BY <1>1 DEF EnSuLugar, Ubicados, Separados, Vivos, EnAlgunLugar, EnManosDe
<1>3. pc[c] = "espera" /\ enCpu[c] = NADIE
  BY <1>0 DEF Despachar, Quantum, DuenoDeCpu, DespachoExclusivo, Ociosa, EnSuLugar, SinCaidas
<1>4. enCpu' = [enCpu EXCEPT ![c] = p] /\ UNCHANGED <<proximo_pid, activos>>
  BY <1>0, <1>3 DEF Despachar, Cerrada
<1>5. Programas!Correr(c, p)
  BY <1>2, <1>3, <1>4 DEF Programas!Correr
<1> QED BY <1>5 DEF Programas!Next

(* A new pid was in no list and was not given out.                          *)
LEMMA TurnosSyscallInitProc ==
  ASSUME Tipos, NEW c \in CPUs, SyscallInitProc(c)
  PROVE  Programas!Next
<1> DEFINE n == proximo_pid
<1>1. n \in Nat /\ n \in Pids
  BY MaxProcesosAssumption DEF SyscallInitProc, Tipos, TypeOK, TipoProceso, Pids
<1>2. enCpu[c] \in activos
  BY DEF SyscallInitProc, Recibe
<1>3. proximo_pid' = n + 1 /\ activos' = activos \cup {n} /\ UNCHANGED enCpu
  BY DEF SyscallInitProc
<1> HIDE DEF n
<1>4. /\ n \notin 0 .. proximo_pid - 1
      /\ 0 .. proximo_pid' - 1 = (0 .. proximo_pid - 1) \cup {n}
  <2>1. \A k \in Nat : k \notin 0 .. k - 1 /\ 0 .. k + 1 - 1 = (0 .. k - 1) \cup {k}
    OBVIOUS
  <2> QED BY <1>1, <1>3, <2>1 DEF n
<1>5. Programas!Crear(n)
  BY <1>2, <1>3, <1>4 DEF Programas!Crear
<1> QED BY <1>1, <1>5 DEF Programas!Next

(* A tick with a mark, EXIT and the return of the caller stop a process.    *)
LEMMA TurnosDejar ==
  ASSUME Tipos, Quantum, EnSuLugar, NEW c \in CPUs,
         TickDesaloja(c) \/ SyscallExit(c) \/ DevolverLlamador(c)
  PROVE  Programas!Next
<1>1. enCpu[c] \in activos
  <2>1. CASE TickDesaloja(c) \/ SyscallExit(c)
    BY <2>1 DEF TickDesaloja, SyscallExit, Recibe
  <2>2. CASE DevolverLlamador(c)
    <3>1. enCpu[c] \in Pids
      BY <2>2 DEF DevolverLlamador, Tipos, LocalManejador, ConProceso, PCs, Quantum,
         DuenoDeCpu, LoQueCorre, ConCpu
    <3>2. EnAlgunLugar(enCpu[c])
      BY DEF EnAlgunLugar, EnManosDe
    <3> QED BY <3>1, <3>2 DEF EnSuLugar, Ubicados, Vivos
  <2> QED BY <2>1, <2>2
<1>2. enCpu' = [enCpu EXCEPT ![c] = NADIE] /\ UNCHANGED <<proximo_pid, activos>>
  BY DEF TickDesaloja, SyscallExit, DevolverLlamador
<1>3. Programas!Dejar(c)
  BY <1>1, <1>2 DEF Programas!Dejar
<1> QED BY <1>3 DEF Programas!Next

(* The PCB that is destroyed belongs to a process no CPU runs.              *)
LEMMA TurnosTerminar ==
  ASSUME Tipos, Quantum, EnSuLugar, NEW c \in CPUs, FinalizarProceso(c) \/ ProcesoRechazado(c)
  PROVE  Programas!Next
<1>1. PICK p \in Pids : /\ EnManosDe(c, p) /\ enCpu[c] # p /\ activos' = activos \ {p}
                        /\ UNCHANGED <<proximo_pid, enCpu>>
  <2>1. CASE FinalizarProceso(c)
    <3>1. pc[c] = "finalizar" /\ proc[c] \in Pids /\ enCpu[c] = NADIE
      BY <2>1 DEF FinalizarProceso, Tipos, LocalManejador, ConProceso, PCs, Quantum,
         DuenoDeCpu, LoQueCorre, SinCpu
    <3>2. EnManosDe(c, proc[c]) /\ enCpu[c] # proc[c]
      BY <3>1, PidsFacts DEF EnManosDe
    <3> QED BY <2>1, <3>1, <3>2 DEF FinalizarProceso
  <2>2. CASE ProcesoRechazado(c)
    <3>1. nuevo[c] \in Pids /\ EnManosDe(c, nuevo[c]) /\ enCpu[c] # nuevo[c]
      BY <2>2 DEF ProcesoRechazado, Tipos, LocalManejador, EnSuLugar, Ubicados,
         NuevoDistinto, EnManosDe
    <3> QED BY <2>2, <3>1 DEF ProcesoRechazado
  <2> QED BY <2>1, <2>2
<1>2. p \in activos
  BY <1>1 DEF EnSuLugar, Ubicados, Vivos, EnAlgunLugar
<1>3. \A d \in CPUs : enCpu[d] # p
  BY <1>1 DEF EnSuLugar, Ubicados, Separados, EnManosDe
<1>4. Programas!Terminar(p)
  BY <1>1, <1>2, <1>3 DEF Programas!Terminar
<1> QED BY <1>4 DEF Programas!Next

LEMMA TurnosPaso ==
  ASSUME Tipos, Quantum, EnSuLugar, caidas = 0, caidas' = 0, [Next]_vars
  PROVE  Programas!Next \/ UNCHANGED Abstractas
<1>1. CASE Despachador
  BY <1>1, TurnosDespachar DEF Despachador, ObtenerSiguiente, ObtenerCpu,
     EsperarCompactacion, RegistrarCpuProceso, CrearTimer, proceso, manejador, Abstractas
<1>2. ASSUME NEW c \in CPUs, VencerQuantum(c) \/ MarcarVencido(c) \/ Conectar(c)
      PROVE  UNCHANGED Abstractas
  BY <1>2 DEF VencerQuantum, MarcarVencido, Conectar, proceso, manejador, Abstractas
<1>3. ASSUME NEW c \in CPUs, Cpu(c)
      PROVE  Programas!Next \/ UNCHANGED Abstractas
  BY <1>3, TurnosDejar, TurnosSyscallInitProc DEF Cpu, TickSigue, SyscallMem, manejador,
     Abstractas
<1>4. ASSUME NEW c \in CPUs, Manejador(c)
      PROVE  Programas!Next \/ UNCHANGED Abstractas
  BY <1>4, TurnosDejar, TurnosTerminar DEF Manejador, ReencolarPorCompactacion,
     ReencolarPorTick, DesalojarPorPrioridad, LiberarCpu, ProcesoCreado, PedirKm,
     VolverAExec, proceso, Abstractas
<1>5. ASSUME NEW c \in CPUs, KernelMemory(c) PROVE UNCHANGED Abstractas
  BY <1>5 DEF KernelMemory, KmResponde, KmPideCompactar, KmEmpiezaACompactar,
     KmTerminaDeCompactar, proceso, Abstractas
<1>6. ASSUME NEW c \in CPUs, Desconectar(c) PROVE FALSE
  BY <1>6, NadieDesconocido
<1>7. CASE EscucharKernelMemory \/ UNCHANGED vars
  BY <1>7 DEF EscucharKernelMemory, RecibirCompactar, AvisarDesalojo, MarcarEnExec,
     EsperarDesalojo, ConfirmarCompactacion, BajarDesalojo, RecibirFin, proceso, manejador,
     vars, Abstractas
<1> QED BY <1>1, <1>2, <1>3, <1>4, <1>5, <1>6, <1>7 DEF Next, Reposo

(* Whatever the queues, the algorithm and the interleaving of the threads,  *)
(* the programs see Turnos until a CPU disconnects: nobody runs twice, on a *)
(* CPU that another has, or after its end.                                  *)
THEOREM TurnosImplementado == Spec => ImplementaTurnos
<1> DEFINE UnTurno == caidas' = 0 => [Programas!Next]_Abstractas
<1>1. Tipos /\ Quantum /\ Lugar /\ [Next]_vars => UnTurno
  <2> SUFFICES ASSUME Tipos, Quantum, Lugar, [Next]_vars, caidas' = 0
               PROVE  [Programas!Next]_Abstractas
    OBVIOUS
  <2>1. caidas = 0
    <3> SUFFICES ASSUME caidas # 0 PROVE FALSE
      OBVIOUS
    <3>1. caidas \in Nat
      BY CotasAssumption DEF Tipos, TypeOK
    <3>2. caidas' = caidas \/ caidas' = caidas + 1
      BY CaidasSoloSuben
    <3> QED BY <3>1, <3>2
  <2> QED BY <2>1, TurnosPaso DEF Lugar
<1>2. UnTurno => [caidas' = 0 => [Programas!Next]_<<proximo_pid, activos, enCpu>>]_vars
  BY DEF Abstractas
<1> HIDE DEF UnTurno
<1> QED BY <1>1, <1>2, TiposInit, TiposPaso, QuantumInit, QuantumPaso, LugarInit,
       LugarPaso, TurnosInit, PTL DEF Spec, ImplementaTurnos
=============================================================================
