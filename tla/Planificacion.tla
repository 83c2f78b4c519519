---------------------------- MODULE Planificacion ----------------------------
(***************************************************************************)
(* Short-term scheduling of the kernel scheduler: ready queues, dispatcher  *)
(* thread, one atender_cpu thread per CPU connection, quantum timers,       *)
(* interruption marks, preemption between queues, the compaction handshake  *)
(* with Kernel Memory and the rescue of a process whose CPU disconnects.    *)
(*                                                                          *)
(* One action is one critical section of one thread.  A sem_post joins the  *)
(* push it announces and a sem_wait the pop it allows (only the dispatcher  *)
(* waits on those two semaphores), so "a token is available" is "the queue  *)
(* is not empty".  A CPU is synchronous with its atender_cpu thread: what   *)
(* both are doing is pc[c].                                                 *)
(***************************************************************************)
EXTENDS Integers, Sequences, SequencesExt, FiniteSets

CONSTANTS
  CPUs,              \* sockets (file descriptors) of the CPU connections
  MaxProcesos,       \* bound: pids are 0 .. MaxProcesos - 1
  Prioridad,         \* priority INIT_PROC asks for, by pid
  CantPrioridades,   \* cant_prioridades: number of ready queues
  ColasRR,           \* the levels whose algorithm is "RR"
  HayDesalojo,       \* hay_desalojo_cmn
  Syscalls,          \* syscalls the programs use: "INIT_PROC", "MEM_ALLOC", "MEM_FREE"
  Instrucciones,     \* bound: instructions each program runs before its EXIT
  MaxCaidas,         \* bound: CPU disconnections
  MaxCompactaciones, \* bound: compactions Kernel Memory asks for
  NADIE              \* no process, no CPU

Pids == 0 .. MaxProcesos - 1

ASSUME MaxProcesosAssumption == MaxProcesos \in Nat \ {0}
ASSUME PrioridadAssumption == Prioridad \in [Pids -> Nat]
ASSUME CantPrioridadesAssumption == CantPrioridades \in Nat \ {0}
ASSUME InicialAssumption == Prioridad[0] < CantPrioridades
ASSUME NadieAssumption == NADIE \notin Pids /\ NADIE \notin CPUs
ASSUME CotasAssumption ==
  Instrucciones \in [Pids -> Nat] /\ MaxCaidas \in Nat /\ MaxCompactaciones \in Nat

VARIABLES
  proximo_pid,      \* pids already given out
  activos,          \* p_activos_global
  estado,           \* estado of each PCB
  resto,            \* instructions left to each program
  ready,            \* colas_ready: one sequence, its level is the priority
  exec,             \* lista_exec
  cpuProceso,       \* lista_cpu_proceso
  libres,           \* cola_cpus_libres
  timers,           \* entries of lista_timers, by CPU
  vencidos,         \* hilo_quantum threads between list_remove and the mark
  marcas,           \* cpus_con_interrupcion, by CPU
  pc,               \* where the atender_cpu thread of each CPU is
  enCpu,            \* the process each CPU is running
  proc,             \* atender_cpu: proceso
  nuevo,            \* crear_proceso: nuevo
  dpc, dproc, dcpu, \* hilo_dispatcher: where it is, proceso, cpu
  semCompactacion,  \* sem_compactacion
  desalojo,         \* desalojo_por_compactacion
  semDesalojo,      \* sem_desalojo_ok
  lpc,              \* where escuchar_kernel_memory is
  porDesalojar,     \* its count of confirmations still to wait for
  notif,            \* messages on socket_km_notificaciones
  okCompactar,      \* sem_compactacion_ok of Kernel Memory
  caidas,           \* disconnections so far
  compactaciones    \* compactions asked so far

proceso == <<proximo_pid, activos, estado, resto>>
listas == <<ready, exec, cpuProceso, libres>>
quantum == <<timers, vencidos, marcas>>
manejador == <<pc, enCpu, proc, nuevo>>
despacho == <<dpc, dproc, dcpu>>
compactacion == <<semCompactacion, desalojo, semDesalojo, lpc, porDesalojar,
                  notif, okCompactar, compactaciones>>
vars == <<proceso, listas, quantum, manejador, despacho, compactacion, caidas>>

Estados == {"NEW", "READY", "EXEC", "EXIT"}

(* "espera" is recibir_opcode; "prio_*" is the second half of              *)
(* agregar_a_ready, which looks for a process to preempt.                  *)
PCs == {"sin_conectar", "espera", "reencolar", "prio_tick", "finalizar",
        "liberar", "crear", "prio_nuevo", "devolver", "prio_llamador",
        "pedir_alloc", "pedir_free", "km_alloc", "km_espera_ok", "km_compacta",
        "volver", "prio_rescate", "caida"}

Pares == [cpu : CPUs, pid : Pids]

-----------------------------------------------------------------------------
(* Lists and queues of the scheduler.                                       *)

Planificable(p) == Prioridad[p] < CantPrioridades
EnRR(p) == Prioridad[p] \in ColasRR

(* ready[i] is at the head of the first level that is not empty.            *)
EsSiguiente(i) ==
  \A j \in DOMAIN ready : \/ Prioridad[ready[i]] < Prioridad[ready[j]]
                          \/ Prioridad[ready[i]] = Prioridad[ready[j]] /\ i <= j

ConEnReady(p) == IF Planificable(p) THEN Append(ready, p) ELSE ready

SinPar(pares, p) == RemoveFirstMatch(pares, LAMBDA par : par.pid = p)

QuitarDeExec(p) ==
  /\ exec' = RemoveFirst(exec, p)
  /\ cpuProceso' = IF Contains(exec, p) THEN SinPar(cpuProceso, p) ELSE cpuProceso

SocketCpuDe(p) ==
  LET i == SelectInSeq(cpuProceso, LAMBDA par : par.pid = p)
  IN IF i = 0 THEN NADIE ELSE cpuProceso[i].cpu

PidDeCpu(c) ==
  LET i == SelectInSeq(cpuProceso, LAMBDA par : par.cpu = c)
  IN IF i = 0 THEN NADIE ELSE cpuProceso[i].pid

(* Mutant of MenosUno: the entry is dropped without looking for it.         *)
MenosUnoSinBuscar(f, c) == [f EXCEPT ![c] = @ - 1]
MenosUno(f, c) == IF f[c] > 0 THEN [f EXCEPT ![c] = @ - 1] ELSE f
CancelarTimer(c) == timers' = MenosUno(timers, c)

(* The running process agregar_a_ready(p) preempts: of the ones with a      *)
(* worse priority than p, the first with the worst.                         *)
PeorCandidato(p) ==
  LET peores == {i \in DOMAIN exec : Prioridad[exec[i]] > Prioridad[p]}
      peor(i) == \A j \in peores :
                   \/ Prioridad[exec[i]] > Prioridad[exec[j]]
                   \/ Prioridad[exec[i]] = Prioridad[exec[j]] /\ i <= j
  IN IF peores = {} THEN NADIE ELSE exec[CHOOSE i \in peores : peor(i)]

MarcasPorPrioridad(p) ==
  LET victima == PeorCandidato(p)
      c == IF victima = NADIE THEN NADIE ELSE SocketCpuDe(victima)
  IN IF c = NADIE THEN marcas ELSE [marcas EXCEPT ![c] = @ + 1]

(* After the push of agregar_a_ready(p), where its thread goes on.          *)
Siguiente == [prio_tick |-> "liberar", prio_nuevo |-> "devolver",
              prio_llamador |-> "liberar", prio_rescate |-> "caida"]
TrasAgregar(p, prio) ==
  IF HayDesalojo /\ Planificable(p) THEN prio ELSE Siguiente[prio]

(* mutex_socket_km_operaciones, held while Kernel Memory serves a MEM_ALLOC *)
KmLibre == \A c \in CPUs : pc[c] \notin {"km_alloc", "km_espera_ok", "km_compacta"}
(* mutex_desalojo_compactacion, held by manejar_tick_progress.              *)
MutexDesalojoLibre == \A c \in CPUs : pc[c] # "prio_tick"
(* mutex_p_activos, held during the whole rescue of a process.              *)
MutexActivosLibre == \A c \in CPUs : pc[c] # "prio_rescate"

IrA(c, donde) == pc' = [pc EXCEPT ![c] = donde]
CambiarEstado(p, e) == estado' = [estado EXCEPT ![p] = e]

-----------------------------------------------------------------------------
(* The program starts when main has created PID 0.                          *)
Init ==
  /\ proximo_pid = 1
  /\ activos = {0}
  /\ estado = [p \in Pids |-> IF p = 0 THEN "READY" ELSE "NEW"]
  /\ resto = Instrucciones
  /\ ready = <<0>> /\ exec = <<>> /\ cpuProceso = <<>> /\ libres = <<>>
  /\ timers = [c \in CPUs |-> 0]
  /\ vencidos = [c \in CPUs |-> 0]
  /\ marcas = [c \in CPUs |-> 0]
  /\ pc = [c \in CPUs |-> "sin_conectar"]
  /\ enCpu = [c \in CPUs |-> NADIE]
  /\ proc = [c \in CPUs |-> NADIE]
  /\ nuevo = [c \in CPUs |-> NADIE]
  /\ dpc = "siguiente" /\ dproc = NADIE /\ dcpu = NADIE
  /\ semCompactacion = 1 /\ desalojo = FALSE /\ semDesalojo = 0
  /\ lpc = "recibir" /\ porDesalojar = 0 /\ notif = <<>> /\ okCompactar = 0
  /\ caidas = 0 /\ compactaciones = 0

-----------------------------------------------------------------------------
(* hilo_dispatcher                                                          *)

(* Mutant: the process of the best level is taken, the oldest is popped.    *)
ObtenerSiguienteSacandoOtro ==
  /\ dpc = "siguiente"
  /\ \E i \in DOMAIN ready : EsSiguiente(i) /\ dproc' = ready[i]
  /\ ready' = Tail(ready)
  /\ dpc' = "cpu"
  /\ UNCHANGED <<proceso, exec, cpuProceso, libres, quantum, manejador, dcpu,
                 compactacion, caidas>>

ObtenerSiguiente ==
  /\ dpc = "siguiente"
  /\ \E i \in DOMAIN ready :
       /\ EsSiguiente(i)
       /\ dproc' = ready[i]
       /\ ready' = RemoveAt(ready, i)
  /\ dpc' = "cpu"
  /\ UNCHANGED <<proceso, exec, cpuProceso, libres, quantum, manejador, dcpu,
                 compactacion, caidas>>

ObtenerCpu ==
  /\ dpc = "cpu" /\ libres # <<>>
  /\ dcpu' = Head(libres)
  /\ libres' = Tail(libres)
  /\ dpc' = "compactacion"
  /\ UNCHANGED <<proceso, ready, exec, cpuProceso, quantum, manejador, dproc,
                 compactacion, caidas>>

EsperarCompactacion ==
  /\ dpc = "compactacion" /\ semCompactacion > 0
  /\ dpc' = "exec"
  /\ UNCHANGED <<proceso, listas, quantum, manejador, dproc, dcpu,
                 compactacion, caidas>>

(* agregar_a_exec and enviar_uint32: from here on the CPU runs the process  *)
(* (a CPU that has closed its connection receives nothing).                 *)
Cerrada(c) == pc[c] \in {"prio_rescate", "caida"}
Despachar ==
  /\ dpc = "exec"
  /\ CambiarEstado(dproc, "EXEC")
  /\ exec' = Append(exec, dproc)
  /\ enCpu' = IF Cerrada(dcpu) THEN enCpu ELSE [enCpu EXCEPT ![dcpu] = dproc]
  /\ dpc' = "registrar"
  /\ UNCHANGED <<proximo_pid, activos, resto, ready, cpuProceso, libres, quantum,
                 pc, proc, nuevo, dproc, dcpu, compactacion, caidas>>

RegistrarCpuProceso ==
  /\ dpc = "registrar"
  /\ cpuProceso' = Append(cpuProceso, [cpu |-> dcpu, pid |-> dproc])
  /\ dpc' = "timer"
  /\ UNCHANGED <<proceso, ready, exec, libres, quantum, manejador, dproc, dcpu,
                 compactacion, caidas>>

CrearTimer ==
  /\ dpc = "timer"
  /\ timers' = IF EnRR(dproc) THEN [timers EXCEPT ![dcpu] = @ + 1] ELSE timers
  /\ dpc' = "siguiente" /\ dproc' = NADIE /\ dcpu' = NADIE
  /\ UNCHANGED <<proceso, listas, vencidos, marcas, manejador, compactacion, caidas>>

Despachador ==
  \/ ObtenerSiguiente \/ ObtenerCpu \/ EsperarCompactacion
  \/ Despachar \/ RegistrarCpuProceso \/ CrearTimer

-----------------------------------------------------------------------------
(* hilo_quantum, one thread per timer                                       *)

VencerQuantum(c) ==
  /\ timers[c] > 0
  /\ timers' = [timers EXCEPT ![c] = @ - 1]
  /\ vencidos' = [vencidos EXCEPT ![c] = @ + 1]
  /\ UNCHANGED <<proceso, listas, marcas, manejador, despacho, compactacion, caidas>>

MarcarVencido(c) ==
  /\ vencidos[c] > 0
  /\ vencidos' = [vencidos EXCEPT ![c] = @ - 1]
  /\ marcas' = [marcas EXCEPT ![c] = @ + 1]
  /\ UNCHANGED <<proceso, listas, timers, manejador, despacho, compactacion, caidas>>

-----------------------------------------------------------------------------
(* atender_cpu and the handlers it calls                                    *)

Conectar(c) ==
  /\ pc[c] = "sin_conectar"
  /\ libres' = Append(libres, c)
  /\ IrA(c, "espera")
  /\ UNCHANGED <<proceso, ready, exec, cpuProceso, quantum, enCpu, proc, nuevo, despacho,
                 compactacion, caidas>>

(* The CPU has run an instruction of p: the request its handler receives.   *)
Recibe(c, p) ==
  /\ pc[c] = "espera" /\ MutexActivosLibre
  /\ p = enCpu[c] /\ p \in activos
  /\ resto[p] > 0
  /\ resto' = [resto EXCEPT ![p] = @ - 1]

(* manejar_tick_progress with no mark: the CPU goes on.                     *)
TickSigue(c) ==
  /\ Recibe(c, enCpu[c]) /\ marcas[c] = 0
  /\ UNCHANGED <<proximo_pid, activos, estado, listas, quantum, manejador, despacho,
                 compactacion, caidas>>

(* ... and with one: the mark and the timer go, the process leaves exec.    *)
TickDesaloja(c) ==
  LET p == enCpu[c] IN
  /\ Recibe(c, p) /\ marcas[c] > 0
  /\ marcas' = MenosUno(marcas, c)
  /\ CancelarTimer(c)
  /\ QuitarDeExec(p)
  /\ CambiarEstado(p, "READY")
  /\ proc' = [proc EXCEPT ![c] = p]
  /\ enCpu' = [enCpu EXCEPT ![c] = NADIE]
  /\ IrA(c, "reencolar")
  /\ UNCHANGED <<proximo_pid, activos, ready, libres, vencidos, nuevo, despacho,
                 compactacion, caidas>>

ReencolarPorCompactacion(c) ==
  /\ pc[c] = "reencolar" /\ MutexDesalojoLibre /\ desalojo
  /\ ready' = IF Planificable(proc[c]) THEN <<proc[c]>> \o ready ELSE ready
  /\ semDesalojo' = semDesalojo + 1
  /\ IrA(c, "liberar")
  /\ UNCHANGED <<proceso, exec, cpuProceso, libres, quantum, enCpu, proc, nuevo,
                 despacho, semCompactacion, desalojo, lpc, porDesalojar, notif,
                 okCompactar, compactaciones, caidas>>

ReencolarPorTick(c) ==
  /\ pc[c] = "reencolar" /\ MutexDesalojoLibre /\ ~desalojo
  /\ ready' = ConEnReady(proc[c])
  /\ IrA(c, TrasAgregar(proc[c], "prio_tick"))
  /\ UNCHANGED <<proceso, exec, cpuProceso, libres, quantum, enCpu, proc, nuevo,
                 despacho, compactacion, caidas>>

(* The second half of agregar_a_ready, for each of its callers.             *)
DesalojarPorPrioridad(c) ==
  /\ pc[c] \in DOMAIN Siguiente
  /\ marcas' = MarcasPorPrioridad(IF pc[c] = "prio_nuevo" THEN nuevo[c] ELSE proc[c])
  /\ IrA(c, Siguiente[pc[c]])
  /\ UNCHANGED <<proceso, listas, timers, vencidos, enCpu, proc, nuevo, despacho,
                 compactacion, caidas>>

(* Mutant: the handler ends without giving its CPU back.                    *)
LiberarCpuSinPush(c) ==
  /\ pc[c] = "liberar"
  /\ proc' = [proc EXCEPT ![c] = NADIE]
  /\ IrA(c, "espera")
  /\ UNCHANGED <<proceso, listas, quantum, enCpu, nuevo, despacho, compactacion, caidas>>

LiberarCpu(c) ==
  /\ pc[c] = "liberar"
  /\ libres' = Append(libres, c)
  /\ proc' = [proc EXCEPT ![c] = NADIE]
  /\ IrA(c, "espera")
  /\ UNCHANGED <<proceso, ready, exec, cpuProceso, quantum, enCpu, nuevo, despacho,
                 compactacion, caidas>>

(* manejar_syscall_exit, up to the call to Kernel Memory and after it.      *)
SyscallExit(c) ==
  LET p == enCpu[c] IN
  /\ pc[c] = "espera" /\ MutexActivosLibre
  /\ p \in activos
  /\ CancelarTimer(c)
  /\ QuitarDeExec(p)
  /\ CambiarEstado(p, "EXIT")
  /\ proc' = [proc EXCEPT ![c] = p]
  /\ enCpu' = [enCpu EXCEPT ![c] = NADIE]
  /\ IrA(c, "finalizar")
  /\ UNCHANGED <<proximo_pid, activos, resto, ready, libres, vencidos, marcas, nuevo,
                 despacho, compactacion, caidas>>

FinalizarProceso(c) ==
  /\ pc[c] = "finalizar" /\ KmLibre /\ MutexActivosLibre
  /\ activos' = activos \ {proc[c]}
  /\ IrA(c, "liberar")
  /\ UNCHANGED <<proximo_pid, estado, resto, listas, quantum, enCpu, proc, nuevo,
                 despacho, compactacion, caidas>>

(* Mutant: the pid is taken and proximo_pid does not advance.               *)
SyscallInitProcSinAvanzar(c) ==
  /\ "INIT_PROC" \in Syscalls /\ proximo_pid < MaxProcesos
  /\ Recibe(c, enCpu[c])
  /\ activos' = activos \cup {proximo_pid}
  /\ nuevo' = [nuevo EXCEPT ![c] = proximo_pid]
  /\ proc' = [proc EXCEPT ![c] = enCpu[c]]
  /\ IrA(c, "crear")
  /\ UNCHANGED <<proximo_pid, estado, listas, quantum, enCpu, despacho, compactacion, caidas>>

(* manejar_iniciar_proceso: crear_proceso takes a pid and a PCB, ...        *)
SyscallInitProc(c) ==
  /\ "INIT_PROC" \in Syscalls /\ proximo_pid < MaxProcesos
  /\ Recibe(c, enCpu[c])
  /\ proximo_pid' = proximo_pid + 1
  /\ activos' = activos \cup {proximo_pid}
  /\ nuevo' = [nuevo EXCEPT ![c] = proximo_pid]
  /\ proc' = [proc EXCEPT ![c] = enCpu[c]]
  /\ IrA(c, "crear")
  /\ UNCHANGED <<estado, listas, quantum, enCpu, despacho, compactacion, caidas>>

(* ... asks Kernel Memory for its context, which it grants ...              *)
ProcesoCreado(c) ==
  /\ pc[c] = "crear" /\ KmLibre
  /\ CambiarEstado(nuevo[c], "READY")
  /\ ready' = ConEnReady(nuevo[c])
  /\ IrA(c, TrasAgregar(nuevo[c], "prio_nuevo"))
  /\ UNCHANGED <<proximo_pid, activos, resto, exec, cpuProceso, libres, quantum,
                 enCpu, proc, nuevo, despacho, compactacion, caidas>>

(* ... or rejects: the orphan PCB goes.                                     *)
ProcesoRechazado(c) ==
  /\ pc[c] = "crear" /\ KmLibre /\ MutexActivosLibre
  /\ activos' = activos \ {nuevo[c]}
  /\ IrA(c, "devolver")
  /\ UNCHANGED <<proximo_pid, estado, resto, listas, quantum, enCpu, proc, nuevo,
                 despacho, compactacion, caidas>>

(* The caller goes back to ready.                                           *)
DevolverLlamador(c) ==
  LET p == proc[c] IN
  /\ pc[c] = "devolver"
  /\ CancelarTimer(c)
  /\ QuitarDeExec(p)
  /\ CambiarEstado(p, "READY")
  /\ ready' = ConEnReady(p)
  /\ nuevo' = [nuevo EXCEPT ![c] = NADIE]
  /\ enCpu' = [enCpu EXCEPT ![c] = NADIE]
  /\ IrA(c, TrasAgregar(p, "prio_llamador"))
  /\ UNCHANGED <<proximo_pid, activos, resto, libres, vencidos, marcas, proc, despacho,
                 compactacion, caidas>>

(* Mutant of SyscallMem: no pausar_en_exec.                                 *)
SyscallMemSinPausar(c) ==
  /\ Recibe(c, enCpu[c])
  /\ CancelarTimer(c)
  /\ proc' = [proc EXCEPT ![c] = enCpu[c]]
  /\ \E s \in Syscalls \cap {"MEM_ALLOC", "MEM_FREE"} :
       IrA(c, IF s = "MEM_ALLOC" THEN "pedir_alloc" ELSE "pedir_free")
  /\ UNCHANGED <<proximo_pid, activos, estado, listas, vencidos, marcas, enCpu, nuevo,
                 despacho, compactacion, caidas>>

(* Mutant of SyscallMem: quitar_de_exec instead of pausar_en_exec.          *)
SyscallMemQuitando(c) ==
  /\ Recibe(c, enCpu[c])
  /\ CancelarTimer(c)
  /\ QuitarDeExec(enCpu[c])
  /\ proc' = [proc EXCEPT ![c] = enCpu[c]]
  /\ \E s \in Syscalls \cap {"MEM_ALLOC", "MEM_FREE"} :
       IrA(c, IF s = "MEM_ALLOC" THEN "pedir_alloc" ELSE "pedir_free")
  /\ UNCHANGED <<proximo_pid, activos, estado, ready, libres, vencidos, marcas, enCpu,
                 nuevo, despacho, compactacion, caidas>>

(* manejar_syscall_mem_alloc and _mem_free: the timer stops and the process *)
(* leaves exec (its pair stays) until Kernel Memory has answered.           *)
SyscallMem(c) ==
  /\ Recibe(c, enCpu[c])
  /\ CancelarTimer(c)
  /\ exec' = RemoveFirst(exec, enCpu[c])
  /\ proc' = [proc EXCEPT ![c] = enCpu[c]]
  /\ \E s \in Syscalls \cap {"MEM_ALLOC", "MEM_FREE"} :
       IrA(c, IF s = "MEM_ALLOC" THEN "pedir_alloc" ELSE "pedir_free")
  /\ UNCHANGED <<proximo_pid, activos, estado, ready, cpuProceso, libres, vencidos,
                 marcas, enCpu, nuevo, despacho, compactacion, caidas>>

PedirKm(c) ==
  /\ pc[c] \in {"pedir_alloc", "pedir_free"} /\ KmLibre
  /\ IrA(c, IF pc[c] = "pedir_alloc" THEN "km_alloc" ELSE "volver")
  /\ UNCHANGED <<proceso, listas, quantum, enCpu, proc, nuevo, despacho,
                 compactacion, caidas>>

(* Mutants: the timer is not created again; the CPU is given back as the    *)
(* handlers that block its process do.                                      *)
VolverAExecSinTimer(c) ==
  /\ pc[c] = "volver"
  /\ exec' = Append(exec, proc[c])
  /\ proc' = [proc EXCEPT ![c] = NADIE]
  /\ IrA(c, "espera")
  /\ UNCHANGED <<proceso, ready, cpuProceso, libres, quantum, enCpu, nuevo,
                 despacho, compactacion, caidas>>
VolverAExecLiberando(c) ==
  LET p == proc[c] IN
  /\ pc[c] = "volver"
  /\ exec' = Append(exec, p)
  /\ libres' = Append(libres, c)
  /\ timers' = IF EnRR(p) THEN [timers EXCEPT ![c] = @ + 1] ELSE timers
  /\ proc' = [proc EXCEPT ![c] = NADIE]
  /\ IrA(c, "espera")
  /\ UNCHANGED <<proceso, ready, cpuProceso, vencidos, marcas, enCpu, nuevo,
                 despacho, compactacion, caidas>>

VolverAExec(c) ==
  LET p == proc[c] IN
  /\ pc[c] = "volver"
  /\ exec' = Append(exec, p)
  /\ timers' = IF EnRR(p) THEN [timers EXCEPT ![c] = @ + 1] ELSE timers
  /\ proc' = [proc EXCEPT ![c] = NADIE]
  /\ IrA(c, "espera")
  /\ UNCHANGED <<proceso, ready, cpuProceso, libres, vencidos, marcas, enCpu, nuevo,
                 despacho, compactacion, caidas>>

(* The connection closes, or its handler gives up on a pid nobody knows:    *)
(* rescatar_proceso_de_cpu_desconectada of the pid paired with the CPU.     *)
Desconectar(c) ==
  LET p == PidDeCpu(c)
      rescata == p # NADIE /\ p \in activos
  IN
  /\ pc[c] = "espera" /\ MutexActivosLibre
  /\ \/ caidas < MaxCaidas /\ caidas' = caidas + 1
     \/ enCpu[c] # NADIE /\ enCpu[c] \notin activos /\ UNCHANGED caidas
  /\ CancelarTimer(c)
  /\ marcas' = MenosUno(marcas, c)
  /\ IF rescata
     THEN /\ QuitarDeExec(p)
          /\ CambiarEstado(p, "READY")
          /\ ready' = ConEnReady(p)
          /\ IrA(c, TrasAgregar(p, "prio_rescate"))
     ELSE /\ IrA(c, "caida")
          /\ UNCHANGED <<exec, cpuProceso, estado, ready>>
  /\ proc' = [proc EXCEPT ![c] = IF rescata THEN p ELSE NADIE]
  /\ enCpu' = [enCpu EXCEPT ![c] = NADIE]
  /\ UNCHANGED <<proximo_pid, activos, resto, libres, vencidos, nuevo, despacho,
                 compactacion>>

-----------------------------------------------------------------------------
(* Kernel Memory serving MEM_ALLOC, and escuchar_kernel_memory              *)

KmResponde(c) ==
  /\ pc[c] = "km_alloc"
  /\ IrA(c, "volver")
  /\ UNCHANGED <<proceso, listas, quantum, enCpu, proc, nuevo, despacho,
                 compactacion, caidas>>

(* Enough memory, no hole large enough: compaction is asked for.            *)
KmPideCompactar(c) ==
  /\ pc[c] = "km_alloc" /\ compactaciones < MaxCompactaciones
  /\ compactaciones' = compactaciones + 1
  /\ notif' = Append(notif, "COMPACTAR")
  /\ IrA(c, "km_espera_ok")
  /\ UNCHANGED <<proceso, listas, quantum, enCpu, proc, nuevo, despacho, caidas,
                 semCompactacion, desalojo, semDesalojo, lpc, porDesalojar,
                 okCompactar>>

KmEmpiezaACompactar(c) ==
  /\ pc[c] = "km_espera_ok" /\ okCompactar > 0
  /\ okCompactar' = okCompactar - 1
  /\ IrA(c, "km_compacta")
  /\ UNCHANGED <<proceso, listas, quantum, enCpu, proc, nuevo, despacho, caidas,
                 semCompactacion, desalojo, semDesalojo, lpc, porDesalojar, notif,
                 compactaciones>>

KmTerminaDeCompactar(c) ==
  /\ pc[c] = "km_compacta"
  /\ notif' = Append(notif, "FIN")
  /\ IrA(c, "volver")
  /\ UNCHANGED <<proceso, listas, quantum, enCpu, proc, nuevo, despacho, caidas,
                 semCompactacion, desalojo, semDesalojo, lpc, porDesalojar,
                 okCompactar, compactaciones>>

RecibirCompactar ==
  /\ lpc = "recibir" /\ notif # <<>> /\ Head(notif) = "COMPACTAR"
  /\ semCompactacion > 0
  /\ semCompactacion' = semCompactacion - 1
  /\ notif' = Tail(notif)
  /\ lpc' = "avisar"
  /\ UNCHANGED <<proceso, listas, quantum, manejador, despacho, caidas, desalojo,
                 semDesalojo, porDesalojar, okCompactar, compactaciones>>

AvisarDesalojo ==
  /\ lpc = "avisar" /\ MutexDesalojoLibre
  /\ desalojo' = TRUE
  /\ lpc' = "marcar"
  /\ UNCHANGED <<proceso, listas, quantum, manejador, despacho, caidas,
                 semCompactacion, semDesalojo, porDesalojar, notif, okCompactar,
                 compactaciones>>

(* Every entry of lista_exec is counted; only the ones paired with a CPU    *)
(* are marked.                                                              *)
MarcarEnExec ==
  /\ lpc = "marcar"
  /\ porDesalojar' = Len(exec)
  /\ marcas' = [c \in CPUs |-> marcas[c] +
                   Cardinality({i \in DOMAIN exec : SocketCpuDe(exec[i]) = c})]
  /\ lpc' = "esperar"
  /\ UNCHANGED <<proceso, listas, timers, vencidos, manejador, despacho, caidas,
                 semCompactacion, desalojo, semDesalojo, notif, okCompactar,
                 compactaciones>>

EsperarDesalojo ==
  /\ lpc = "esperar" /\ porDesalojar > 0 /\ semDesalojo > 0
  /\ semDesalojo' = semDesalojo - 1
  /\ porDesalojar' = porDesalojar - 1
  /\ UNCHANGED <<proceso, listas, quantum, manejador, despacho, caidas,
                 semCompactacion, desalojo, lpc, notif, okCompactar, compactaciones>>

ConfirmarCompactacion ==
  /\ lpc = "esperar" /\ porDesalojar = 0
  /\ okCompactar' = okCompactar + 1
  /\ lpc' = "bajar"
  /\ UNCHANGED <<proceso, listas, quantum, manejador, despacho, caidas,
                 semCompactacion, desalojo, semDesalojo, porDesalojar, notif,
                 compactaciones>>

(* Mutant: the gate opens as soon as Kernel Memory has its answer.          *)
BajarDesalojoYAbrir ==
  /\ lpc = "bajar" /\ MutexDesalojoLibre
  /\ desalojo' = FALSE
  /\ semCompactacion' = semCompactacion + 1
  /\ lpc' = "recibir"
  /\ UNCHANGED <<proceso, listas, quantum, manejador, despacho, caidas,
                 semDesalojo, porDesalojar, notif, okCompactar, compactaciones>>

BajarDesalojo ==
  /\ lpc = "bajar" /\ MutexDesalojoLibre
  /\ desalojo' = FALSE
  /\ lpc' = "recibir"
  /\ UNCHANGED <<proceso, listas, quantum, manejador, despacho, caidas,
                 semCompactacion, semDesalojo, porDesalojar, notif, okCompactar,
                 compactaciones>>

RecibirFin ==
  /\ lpc = "recibir" /\ notif # <<>> /\ Head(notif) = "FIN"
  /\ semCompactacion' = semCompactacion + 1
  /\ notif' = Tail(notif)
  /\ UNCHANGED <<proceso, listas, quantum, manejador, despacho, caidas, desalojo,
                 semDesalojo, lpc, porDesalojar, okCompactar, compactaciones>>

EscucharKernelMemory ==
  \/ RecibirCompactar \/ AvisarDesalojo \/ MarcarEnExec \/ EsperarDesalojo
  \/ ConfirmarCompactacion \/ BajarDesalojo \/ RecibirFin

-----------------------------------------------------------------------------
Cpu(c) ==
  \/ TickSigue(c) \/ TickDesaloja(c) \/ SyscallExit(c) \/ SyscallInitProc(c)
  \/ SyscallMem(c)

Manejador(c) ==
  \/ ReencolarPorCompactacion(c) \/ ReencolarPorTick(c) \/ DesalojarPorPrioridad(c)
  \/ LiberarCpu(c) \/ FinalizarProceso(c) \/ ProcesoCreado(c) \/ ProcesoRechazado(c)
  \/ DevolverLlamador(c) \/ PedirKm(c) \/ VolverAExec(c)

KernelMemory(c) ==
  \/ KmResponde(c) \/ KmPideCompactar(c) \/ KmEmpiezaACompactar(c)
  \/ KmTerminaDeCompactar(c)

(* Every process that can run has finished and every thread waits.          *)
Reposo ==
  /\ \A p \in activos : estado[p] = "READY" /\ ~Planificable(p)
  /\ dpc = "siguiente" /\ ready = <<>>
  /\ \A c \in CPUs : pc[c] \in {"espera", "caida"} /\ timers[c] + vencidos[c] = 0
  /\ lpc = "recibir" /\ notif = <<>>
  /\ UNCHANGED vars

Next ==
  \/ Despachador
  \/ \E c \in CPUs : \/ VencerQuantum(c) \/ MarcarVencido(c) \/ Conectar(c)
                     \/ Cpu(c) \/ Manejador(c) \/ KernelMemory(c) \/ Desconectar(c)
  \/ EscucharKernelMemory
  \/ Reposo

(* Every thread of the scheduler and of Kernel Memory that can go on does,  *)
(* every CPU goes on with its program, and the CPUs connect.  Nothing has   *)
(* to disconnect, and a quantum may never expire.                           *)
Fairness ==
  /\ WF_vars(Despachador)
  /\ WF_vars(EscucharKernelMemory)
  /\ \A c \in CPUs : /\ WF_vars(Conectar(c))
                     /\ WF_vars(Cpu(c)) /\ WF_vars(Manejador(c))
                     /\ WF_vars(KernelMemory(c)) /\ WF_vars(MarcarVencido(c))

Spec == Init /\ [][Next]_vars /\ Fairness

-----------------------------------------------------------------------------
(* Properties                                                               *)

TipoProceso ==
  /\ proximo_pid \in 1 .. MaxProcesos
  /\ activos \subseteq Pids
  /\ estado \in [Pids -> Estados]
  /\ resto \in [Pids -> Nat]
TipoListas ==
  /\ ready \in Seq(Pids) /\ exec \in Seq(Pids)
  /\ cpuProceso \in Seq(Pares)
  /\ libres \in Seq(CPUs)
TipoQuantum ==
  timers \in [CPUs -> Nat] /\ vencidos \in [CPUs -> Nat] /\ marcas \in [CPUs -> Nat]
TipoManejador ==
  /\ pc \in [CPUs -> PCs]
  /\ enCpu \in [CPUs -> Pids \cup {NADIE}]
  /\ proc \in [CPUs -> Pids \cup {NADIE}]
  /\ nuevo \in [CPUs -> Pids \cup {NADIE}]
TipoDespacho ==
  /\ dpc \in {"siguiente", "cpu", "compactacion", "exec", "registrar", "timer"}
  /\ dproc \in Pids \cup {NADIE} /\ dcpu \in CPUs \cup {NADIE}
TipoCompactacion ==
  /\ semCompactacion \in Nat /\ desalojo \in BOOLEAN /\ semDesalojo \in Nat
  /\ lpc \in {"recibir", "avisar", "marcar", "esperar", "bajar"}
  /\ porDesalojar \in Nat /\ okCompactar \in Nat
  /\ notif \in Seq({"COMPACTAR", "FIN"})
  /\ compactaciones \in Nat

TypeOK == /\ TipoProceso /\ TipoListas /\ TipoQuantum /\ TipoManejador
          /\ TipoDespacho /\ TipoCompactacion /\ caidas \in Nat

(* Where a process can be: a position of ready, the hands of the dispatcher, *)
(* or a CPU and its handler.                                                *)
EnManosDe(c, p) ==
  \/ enCpu[c] = p
  \/ pc[c] \in {"reencolar", "finalizar"} /\ proc[c] = p
  \/ pc[c] = "crear" /\ nuevo[c] = p

Lugares(p) ==
  {<<"ready", i>> : i \in {j \in DOMAIN ready : ready[j] = p}}
    \cup {<<"dispatcher", d>> : d \in {dproc} \cap
            (IF dpc \in {"cpu", "compactacion", "exec"} THEN {p} ELSE {})}
    \cup {<<"cpu", c>> : c \in {d \in CPUs : EnManosDe(d, p)}}

(* While no CPU has disconnected, each live process that can be scheduled   *)
(* is in exactly one place, so it is never lost and never runs twice, and a *)
(* PCB that was freed (or rejected) is in none: no list keeps it.           *)
ProcesoEnUnSoloLugar ==
  caidas = 0 =>
    \A p \in Pids : /\ \A l, m \in Lugares(p) : l = m
                    /\ Lugares(p) # {} => p \in activos
                    /\ p \in activos /\ Planificable(p) => Lugares(p) # {}

(* While no CPU has disconnected, a CPU is free once, in the hands of the   *)
(* dispatcher, or busy, and never two of them: the dispatcher sends no pid  *)
(* to a CPU that is still working for another process.                      *)
Ocupada(c) == enCpu[c] # NADIE \/ pc[c] \notin {"sin_conectar", "espera", "caida"}
LugaresCpu(c) ==
  {<<"libres", i>> : i \in {j \in DOMAIN libres : libres[j] = c}}
    \cup (IF dpc \in {"compactacion", "exec"} /\ dcpu = c THEN {<<"dispatcher", 0>>} ELSE {})
    \cup (IF Ocupada(c) THEN {<<"ocupada", 0>>} ELSE {})

CpuEnUnSoloLugar ==
  caidas = 0 =>
    \A c \in CPUs : /\ \A l, m \in LugaresCpu(c) : l = m
                    /\ pc[c] # "sin_conectar" <=> LugaresCpu(c) # {}

(* lista_exec holds, once each, the processes that run on some CPU, except  *)
(* while their MEM_ALLOC or MEM_FREE is served: what the compaction and the *)
(* preemption read from it is up to date, whatever the race between the     *)
(* dispatcher and the handler of the CPU it has just sent a pid to.         *)
Paradas == {"pedir_alloc", "pedir_free", "km_alloc", "km_espera_ok", "km_compacta",
            "volver"}
ExecAlDia ==
  caidas = 0 =>
    /\ \A i, j \in DOMAIN exec : exec[i] = exec[j] => i = j
    /\ \A p \in Pids : Contains(exec, p) <=>
                         \E c \in CPUs : enCpu[c] = p /\ pc[c] \notin Paradas

(* The pairs of the past: their CPU does not run their process.  A system    *)
(* call that beats the registration of its process leaves one behind.       *)
Viejos == {i \in DOMAIN cpuProceso : enCpu[cpuProceso[i].cpu] # cpuProceso[i].pid}

(* Preemption and compaction ask for the CPU of a process, and the rescue of *)
(* a disconnection for the process of a CPU: each search takes the first     *)
(* pair that matches.  While no CPU has disconnected, what a CPU runs is     *)
(* found both ways from its registration on, unless a pair of the past has   *)
(* the same process, or the same CPU, and may come first.                   *)
ParAlDia ==
  caidas = 0 =>
    \A c \in CPUs :
      enCpu[c] # NADIE /\ ~(dcpu = c /\ dpc = "registrar") =>
        /\ (\A i \in Viejos : cpuProceso[i].pid # enCpu[c]) => SocketCpuDe(enCpu[c]) = c
        /\ (\A i \in Viejos : cpuProceso[i].cpu # c) => PidDeCpu(c) = enCpu[c]

(* While no CPU has disconnected, the scheduler implements Turnos: each     *)
(* step of its threads creates, starts, stops or ends one process, or none. *)
Programas == INSTANCE Turnos WITH
  Procesos <- Pids, dados <- 0 .. proximo_pid - 1, vivos <- activos, corre <- enCpu
ImplementaTurnos ==
  /\ Programas!Init
  /\ [][caidas' = 0 => [Programas!Next]_<<proximo_pid, activos, enCpu>>]_vars

(* A process of an RR queue never runs without a quantum: once dispatched,  *)
(* its CPU has a timer, or one that expired, or a mark, although system     *)
(* calls cancel and recreate timers while the dispatcher creates them.      *)
QuantumArmado ==
  \A c \in CPUs :
    /\ pc[c] = "espera" /\ enCpu[c] # NADIE /\ EnRR(enCpu[c])
    /\ ~(dcpu = c /\ dpc \in {"registrar", "timer"})
    => timers[c] + vencidos[c] + marcas[c] > 0

(* Kernel Memory compacts only while the dispatcher's gate is closed, and   *)
(* the gate opens again exactly once for each compaction.                   *)
PuertaCerrada ==
  /\ semCompactacion <= 1
  /\ (\E c \in CPUs : pc[c] = "km_compacta") => semCompactacion = 0
  /\ desalojo => semCompactacion = 0

(* Every process that can be scheduled ends: nothing is left in ready with  *)
(* free CPUs, no handler waits for ever.                                    *)
TodosTerminan ==
  \A p \in Pids : (p \in activos /\ Planificable(p)) ~> (p \notin activos)

(* main.c:29: the gate is there "so that it sends no process to the CPUs    *)
(* while I am compacting".                                                  *)
NadieCorreCompactando ==
  (\E c \in CPUs : pc[c] = "km_compacta") =>
    \A c \in CPUs : enCpu[c] # NADIE => pc[c] \in Paradas

(* main.c:230: every CPU counted confirms its eviction, so the scheduler    *)
(* always answers Kernel Memory.                                            *)
CompactacionAvanza == (lpc = "esperar") ~> (lpc = "recibir")

=============================================================================
