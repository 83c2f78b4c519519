----------------------------- MODULE Suspension -----------------------------
(***************************************************************************)
(* Medium-term scheduling and IO of the kernel scheduler: processes that    *)
(* block on an IO, the hilo_suspension thread each block starts, the        *)
(* listener of the IO interface, intentar_reanudar_proceso (run by the      *)
(* thread that listens to Kernel Memory and by the handlers of EXIT), and   *)
(* where Kernel Memory keeps the segments of each process.                  *)
(*                                                                          *)
(* One action is one critical section, or one request to Kernel Memory      *)
(* under mutex_socket_km_operaciones.  There are CPUs for every process and *)
(* one level of priority, and the oldest block is the first in susp_block.  *)
(***************************************************************************)
EXTENDS Integers, Sequences, SequencesExt, FiniteSets

CONSTANTS
  Procesos,
  ESCUCHAR,         \* the thread escuchar_kernel_memory
  MaxIO,            \* bound: IO requests of each process
  TipoIO,           \* type of the interface: "SLEEP" or "STDIN"
  Capacidad,        \* processes whose segments fit in the memory sticks
  CapacidadSwap,    \* ... and in swap
  MaxFallas,        \* bound: failures of the IO device
  MaxCompactaciones,\* bound: compactions
  NADIE             \* no process

ASSUME ProcesosAssumption == IsFiniteSet(Procesos)
ASSUME EscucharAssumption == ESCUCHAR \notin Procesos
ASSUME NadieProcesoAssumption == NADIE \notin Procesos
ASSUME TipoIOAssumption == TipoIO \in {"SLEEP", "STDIN"}
ASSUME BoundsAssumption ==
  {MaxIO, Capacidad, CapacidadSwap, MaxFallas, MaxCompactaciones} \subseteq Nat

VARIABLES
  estado,          \* estado of each PCB
  pc,              \* the CPU of each process and the handler that serves it
  ready,           \* colas_ready
  block,           \* lista_block
  suspBlock,       \* listas_susp_block
  suspReady,       \* listas_susp_ready
  candidatos,      \* candidatos, of each thread that resumes processes
  ack,             \* what Kernel Memory answered it about the first of them
  salteados,       \* history: who was between two lists when they were last collected
  bloqueos,        \* blocks of each process so far
  hilos,           \* sleeping hilo_suspension threads, by the block that started them
  avisos,          \* the ones that have still to ask Kernel Memory
  cola,            \* cola_requests of the interface
  lio,             \* where hilo_io_listener is
  atendido,        \* its pid_finalizado
  sacado,          \* its proceso: out of susp_block and not yet in susp_ready
  fallas,          \* failures of the device so far
  mem,             \* Kernel Memory: where the segments of each process are
  kpc,             \* where escuchar_kernel_memory is
  notif,           \* messages on socket_km_notificaciones
  okCompactar,     \* sem_compactacion_ok
  compactaciones   \* compactions asked so far

control == <<estado, pc>>
listas == <<ready, block, suspBlock, suspReady>>
reanudaciones == <<candidatos, ack, salteados>>
suspensiones == <<bloqueos, hilos, avisos>>
interfaz == <<cola, lio, atendido, sacado, fallas>>
memoria == <<mem, notif, okCompactar, compactaciones>>
vars == <<control, listas, reanudaciones, suspensiones, interfaz, memoria, kpc>>

Estados == {"READY", "EXEC", "BLOCK", "SUSP_BLOCK", "SUSP_READY", "EXIT"}
(* "corre" is the CPU running the process; "fuera" is no CPU.               *)
PCs == {"fuera", "corre", "encolar", "alloc", "km_espera_ok", "km_compacta",
        "finalizar", "juntar", "reanudar", "fin"}

Reanudadores == Procesos \cup {ESCUCHAR}

CambiarEstado(p, e) == estado' = [estado EXCEPT ![p] = e]
IrA(p, donde) == pc' = [pc EXCEPT ![p] = donde]

(* mutex_socket_km_operaciones, which a MEM_ALLOC keeps while it waits.     *)
KmLibre == \A p \in Procesos : pc[p] \notin {"km_espera_ok", "km_compacta"}
(* mutex_transicion_block, which the listener keeps from one list to the next. *)
MutexTransicionLibre == lio \notin {"buscar_susp", "agregar"}

En(lugar) == {p \in Procesos : mem[p] = lugar}
Entra(p) == mem[p] = "ram" \/ Cardinality(En("ram")) < Capacidad
EntraEnSwap == Cardinality(En("swap")) < CapacidadSwap

-----------------------------------------------------------------------------
Init ==
  /\ estado = [p \in Procesos |-> "READY"]
  /\ pc = [p \in Procesos |-> "fuera"]
  /\ ready \in SetToSeqs(Procesos)
  /\ block = <<>> /\ suspBlock = <<>> /\ suspReady = <<>>
  /\ candidatos = [t \in Reanudadores |-> <<>>]
  /\ ack = [t \in Reanudadores |-> "ninguno"] /\ salteados = {}
  /\ bloqueos = [p \in Procesos |-> 0]
  /\ hilos = [p \in Procesos |-> {}] /\ avisos = {}
  /\ cola = <<>> /\ lio = "esperar" /\ atendido = NADIE /\ sacado = NADIE /\ fallas = 0
  /\ mem = [p \in Procesos |-> "nada"]
  /\ kpc = "recibir" /\ notif = <<>> /\ okCompactar = 0 /\ compactaciones = 0

-----------------------------------------------------------------------------
(* The dispatcher and the system calls of the running processes             *)

Despachar ==
  /\ ready # <<>>
  /\ LET p == Head(ready) IN CambiarEstado(p, "EXEC") /\ IrA(p, "corre")
  /\ ready' = Tail(ready)
  /\ UNCHANGED <<block, suspBlock, suspReady, reanudaciones, suspensiones, interfaz,
                 memoria, kpc>>

(* manejar_syscall_io: the process blocks and its suspension thread starts, *)
SyscallIO(p) ==
  /\ pc[p] = "corre" /\ bloqueos[p] < MaxIO
  /\ CambiarEstado(p, "BLOCK")
  /\ block' = Append(block, p)
  /\ bloqueos' = [bloqueos EXCEPT ![p] = @ + 1]
  /\ hilos' = [hilos EXCEPT ![p] = @ \cup {bloqueos[p] + 1}]
  /\ IrA(p, "encolar")
  /\ UNCHANGED <<ready, suspBlock, suspReady, reanudaciones, avisos, interfaz, memoria, kpc>>

(* ... and the request is queued, if there is an interface.                 *)
EncolarRequest(p) ==
  /\ pc[p] = "encolar"
  /\ cola' = IF lio = "sin_interfaz" THEN cola ELSE Append(cola, p)
  /\ IrA(p, "fuera")
  /\ UNCHANGED <<estado, listas, reanudaciones, suspensiones, lio, atendido, sacado, fallas,
                 memoria, kpc>>

SyscallMemAlloc(p) ==
  /\ pc[p] = "corre" /\ mem[p] = "nada"
  /\ IrA(p, "alloc")
  /\ UNCHANGED <<estado, listas, reanudaciones, suspensiones, interfaz, memoria, kpc>>

SyscallExit(p) ==
  /\ pc[p] = "corre"
  /\ CambiarEstado(p, "EXIT")
  /\ IrA(p, "finalizar")
  /\ UNCHANGED <<listas, reanudaciones, suspensiones, interfaz, memoria, kpc>>

FinalizarProceso(p) ==
  /\ pc[p] = "finalizar" /\ KmLibre
  /\ mem' = [mem EXCEPT ![p] = "no_existe"]
  /\ IrA(p, "juntar")
  /\ UNCHANGED <<estado, listas, reanudaciones, suspensiones, interfaz, notif, okCompactar,
                 compactaciones, kpc>>

-----------------------------------------------------------------------------
(* Kernel Memory serving MEM_ALLOC                                          *)

KmAlloc(p) ==
  /\ pc[p] = "alloc" /\ KmLibre
  /\ mem' = IF Entra(p) THEN [mem EXCEPT ![p] = "ram"] ELSE mem
  /\ IrA(p, "corre")
  /\ UNCHANGED <<estado, listas, reanudaciones, suspensiones, interfaz, notif, okCompactar,
                 compactaciones, kpc>>

(* It would fit, but not in one hole.                                       *)
KmPideCompactar(p) ==
  /\ pc[p] = "alloc" /\ KmLibre /\ Entra(p) /\ compactaciones < MaxCompactaciones
  /\ notif' = Append(notif, "COMPACTAR")
  /\ compactaciones' = compactaciones + 1
  /\ IrA(p, "km_espera_ok")
  /\ UNCHANGED <<estado, listas, reanudaciones, suspensiones, interfaz, mem, okCompactar, kpc>>

KmEmpiezaACompactar(p) ==
  /\ pc[p] = "km_espera_ok" /\ okCompactar > 0
  /\ okCompactar' = okCompactar - 1
  /\ IrA(p, "km_compacta")
  /\ UNCHANGED <<estado, listas, reanudaciones, suspensiones, interfaz, mem, notif,
                 compactaciones, kpc>>

KmTerminaDeCompactar(p) ==
  /\ pc[p] = "km_compacta"
  /\ notif' = Append(notif, "FIN")
  /\ mem' = [mem EXCEPT ![p] = "ram"]
  /\ IrA(p, "corre")
  /\ UNCHANGED <<estado, listas, reanudaciones, suspensiones, interfaz, okCompactar,
                 compactaciones, kpc>>

-----------------------------------------------------------------------------
(* hilo_suspension of block k of process p                                  *)

(* Mutant: the process is found in BLOCK and not taken out of it.            *)
SuspenderSinQuitar(p, k) ==
  /\ k \in hilos[p] /\ MutexTransicionLibre
  /\ Contains(block, p)
  /\ CambiarEstado(p, "SUSP_BLOCK")
  /\ suspBlock' = Append(suspBlock, p)
  /\ hilos' = [hilos EXCEPT ![p] = @ \ {k}]
  /\ avisos' = avisos \cup {<<p, k>>}
  /\ UNCHANGED <<pc, ready, block, suspReady, reanudaciones, bloqueos, interfaz, memoria, kpc>>

(* The timeout passes and the process is in BLOCK.                          *)
Suspender(p, k) ==
  /\ k \in hilos[p] /\ MutexTransicionLibre
  /\ Contains(block, p)
  /\ block' = RemoveFirst(block, p)
  /\ CambiarEstado(p, "SUSP_BLOCK")
  /\ suspBlock' = Append(suspBlock, p)
  /\ hilos' = [hilos EXCEPT ![p] = @ \ {k}]
  /\ avisos' = avisos \cup {<<p, k>>}
  /\ UNCHANGED <<pc, ready, suspReady, reanudaciones, bloqueos, interfaz, memoria, kpc>>

(* ... or it is not, and there is nothing to do.                            *)
NoSuspender(p, k) ==
  /\ k \in hilos[p] /\ MutexTransicionLibre
  /\ ~Contains(block, p)
  /\ hilos' = [hilos EXCEPT ![p] = @ \ {k}]
  /\ UNCHANGED <<control, listas, reanudaciones, bloqueos, avisos, interfaz, memoria, kpc>>

(* Mutant: Kernel Memory does not say that there is memory.                  *)
AvisarSinNotificar(p, k) ==
  /\ <<p, k>> \in avisos /\ KmLibre
  /\ avisos' = avisos \ {<<p, k>>}
  /\ mem' = IF mem[p] = "ram" /\ EntraEnSwap THEN [mem EXCEPT ![p] = "swap"] ELSE mem
  /\ UNCHANGED <<control, listas, reanudaciones, bloqueos, hilos, interfaz, notif,
                 okCompactar, compactaciones, kpc>>

(* Kernel Memory moves the segments to swap and says there is memory, or    *)
(* answers an error the scheduler does not look at.                         *)
AvisarSuspension(p, k) ==
  /\ <<p, k>> \in avisos /\ KmLibre
  /\ avisos' = avisos \ {<<p, k>>}
  /\ IF mem[p] = "no_existe" \/ (mem[p] = "ram" /\ ~EntraEnSwap)
     THEN UNCHANGED <<mem, notif>>
     ELSE /\ mem' = IF mem[p] = "ram" THEN [mem EXCEPT ![p] = "swap"] ELSE mem
          /\ notif' = Append(notif, "MEMORIA_LIBRE")
  /\ UNCHANGED <<control, listas, reanudaciones, bloqueos, hilos, interfaz, okCompactar,
                 compactaciones, kpc>>

-----------------------------------------------------------------------------
(* intentar_reanudar_proceso                                                *)

(* Both lists, under their two mutexes: not the process the listener has in  *)
(* its hands, which it moves under mutex_transicion_block.                  *)
JuntarCandidatos(t) ==
  /\ candidatos' = [candidatos EXCEPT ![t] = suspReady \o suspBlock]
  /\ salteados' = (salteados \ ToSet(suspReady)) \cup ({sacado} \ {NADIE})
  /\ suspReady' = <<>> /\ suspBlock' = <<>>

(* Kernel Memory brings the segments of the next candidate back, if they fit, *)
PedirReanudar(t) ==
  LET p == Head(candidatos[t])
      ok == mem[p] \in {"nada", "ram"} \/ (mem[p] = "swap" /\ Entra(p))
  IN
  /\ candidatos[t] # <<>> /\ ack[t] = "ninguno" /\ KmLibre
  /\ ack' = [ack EXCEPT ![t] = IF ok THEN "ok" ELSE "error"]
  /\ mem' = IF ok /\ mem[p] = "swap" THEN [mem EXCEPT ![p] = "ram"] ELSE mem

(* Mutant: every process that comes back is ready.                           *)
RecolocarEnReady(t) ==
  LET p == Head(candidatos[t]) IN
  /\ ack[t] # "ninguno"
  /\ candidatos' = [candidatos EXCEPT ![t] = Tail(@)]
  /\ ack' = [ack EXCEPT ![t] = "ninguno"]
  /\ IF ack[t] = "ok"
     THEN /\ CambiarEstado(p, "READY") /\ ready' = Append(ready, p)
          /\ UNCHANGED <<block, suspReady, suspBlock>>
     ELSE /\ suspReady' = IF estado[p] = "SUSP_READY" THEN Append(suspReady, p) ELSE suspReady
          /\ suspBlock' = IF estado[p] = "SUSP_READY" THEN suspBlock ELSE Append(suspBlock, p)
          /\ UNCHANGED <<estado, ready, block>>

(* ... and the candidate goes to READY or BLOCK, or to the list it came from. *)
Recolocar(t) ==
  LET p == Head(candidatos[t])
      ok == ack[t] = "ok"
      termino == estado[p] = "SUSP_READY"
  IN
  /\ ack[t] # "ninguno"
  /\ candidatos' = [candidatos EXCEPT ![t] = Tail(@)]
  /\ ack' = [ack EXCEPT ![t] = "ninguno"]
  /\ IF ok THEN CambiarEstado(p, IF termino THEN "READY" ELSE "BLOCK") ELSE UNCHANGED estado
  /\ ready' = IF ok /\ termino THEN Append(ready, p) ELSE ready
  /\ block' = IF ok /\ ~termino THEN Append(block, p) ELSE block
  /\ suspReady' = IF ~ok /\ termino THEN Append(suspReady, p) ELSE suspReady
  /\ suspBlock' = IF ~ok /\ ~termino THEN Append(suspBlock, p) ELSE suspBlock

(* By the handler of EXIT of process p ...                                  *)
JuntarAlSalir(p) ==
  /\ pc[p] = "juntar"
  /\ JuntarCandidatos(p)
  /\ IrA(p, "reanudar")
  /\ UNCHANGED <<estado, ready, block, ack, suspensiones, interfaz, memoria, kpc>>
PedirAlSalir(p) ==
  /\ PedirReanudar(p)
  /\ UNCHANGED <<control, listas, candidatos, salteados, suspensiones, interfaz, notif,
                 okCompactar, compactaciones, kpc>>
RecolocarAlSalir(p) ==
  /\ Recolocar(p)
  /\ UNCHANGED <<pc, salteados, suspensiones, interfaz, memoria, kpc>>
Salir(p) ==
  /\ pc[p] = "reanudar" /\ candidatos[p] = <<>>
  /\ IrA(p, "fin")
  /\ UNCHANGED <<estado, listas, reanudaciones, suspensiones, interfaz, memoria, kpc>>

(* ... and by escuchar_kernel_memory.                                       *)
RecibirNotificacion ==
  /\ kpc = "recibir" /\ notif # <<>> /\ Head(notif) \in {"MEMORIA_LIBRE", "FIN"}
  /\ JuntarCandidatos(ESCUCHAR)
  /\ notif' = Tail(notif)
  /\ kpc' = "reanudar"
  /\ UNCHANGED <<control, ready, block, ack, suspensiones, interfaz, mem, okCompactar,
                 compactaciones>>
PedirPorNotificacion ==
  /\ PedirReanudar(ESCUCHAR)
  /\ UNCHANGED <<control, listas, candidatos, salteados, suspensiones, interfaz, notif,
                 okCompactar, compactaciones, kpc>>
RecolocarPorNotificacion ==
  /\ Recolocar(ESCUCHAR)
  /\ UNCHANGED <<pc, salteados, suspensiones, interfaz, memoria, kpc>>
VolverARecibir ==
  /\ kpc = "reanudar" /\ candidatos[ESCUCHAR] = <<>>
  /\ kpc' = "recibir"
  /\ UNCHANGED <<control, listas, reanudaciones, suspensiones, interfaz, memoria>>
(* Mutant: it confirms and leaves the message to be confirmed again.         *)
RecibirCompactarSinSacar ==
  /\ kpc = "recibir" /\ notif # <<>> /\ Head(notif) = "COMPACTAR"
  /\ okCompactar' = okCompactar + 1
  /\ UNCHANGED <<control, listas, reanudaciones, suspensiones, interfaz, mem, notif,
                 compactaciones, kpc>>

RecibirCompactar ==
  /\ kpc = "recibir" /\ notif # <<>> /\ Head(notif) = "COMPACTAR"
  /\ notif' = Tail(notif)
  /\ okCompactar' = okCompactar + 1
  /\ UNCHANGED <<control, listas, reanudaciones, suspensiones, interfaz, mem,
                 compactaciones, kpc>>

-----------------------------------------------------------------------------
(* hilo_io_listener                                                         *)

TomarRequest ==
  /\ lio = "esperar" /\ cola # <<>>
  /\ atendido' = Head(cola)
  /\ cola' = Tail(cola)
  /\ lio' = IF TipoIO = "STDIN" THEN "escribir" ELSE "respuesta"
  /\ UNCHANGED <<control, listas, reanudaciones, suspensiones, sacado, fallas, memoria, kpc>>

(* escribir_en_kernel_memory, at the physical address of the request        *)
EscribirLeido ==
  /\ lio = "escribir" /\ KmLibre
  /\ lio' = "respuesta"
  /\ UNCHANGED <<control, listas, reanudaciones, suspensiones, cola, atendido, sacado, fallas,
                 memoria, kpc>>

(* The device answers OK: the process is looked for in BLOCK,               *)
BuscarEnBlock ==
  /\ lio = "respuesta"
  /\ IF Contains(block, atendido)
     THEN /\ block' = RemoveFirst(block, atendido)
          /\ CambiarEstado(atendido, "READY")
          /\ ready' = Append(ready, atendido)
          /\ lio' = "esperar" /\ atendido' = NADIE
     ELSE /\ lio' = "buscar_susp"
          /\ UNCHANGED <<block, estado, ready, atendido>>
  /\ UNCHANGED <<pc, suspBlock, suspReady, reanudaciones, suspensiones, cola, sacado, fallas,
                 memoria, kpc>>

(* ... and then in SUSP_BLOCK, under the mutex of that list; once out of it  *)
(* nobody else has the PCB, and its estado changes with it.                 *)
BuscarEnSuspBlock ==
  /\ lio = "buscar_susp"
  /\ IF Contains(suspBlock, atendido)
     THEN /\ suspBlock' = RemoveFirst(suspBlock, atendido)
          /\ CambiarEstado(atendido, "SUSP_READY")
          /\ sacado' = atendido /\ lio' = "agregar"
     ELSE /\ lio' = "esperar"
          /\ UNCHANGED <<suspBlock, estado, sacado>>
  /\ atendido' = NADIE
  /\ UNCHANGED <<pc, ready, block, suspReady, reanudaciones, suspensiones, cola, fallas,
                 memoria, kpc>>

(* It joins SUSP_READY in a section of its own.                             *)
AgregarASuspReady ==
  /\ lio = "agregar"
  /\ suspReady' = Append(suspReady, sacado)
  /\ sacado' = NADIE /\ lio' = "esperar"
  /\ UNCHANGED <<control, ready, block, suspBlock, reanudaciones, suspensiones, cola, atendido,
                 fallas, memoria, kpc>>

(* The device disconnects, or reports an error: the listener ends.          *)
FallarIO ==
  /\ lio \in {"escribir", "respuesta"} /\ fallas < MaxFallas
  /\ fallas' = fallas + 1
  /\ lio' = "drenar" /\ atendido' = NADIE
  /\ UNCHANGED <<control, listas, reanudaciones, suspensiones, cola, sacado, memoria, kpc>>
Drenar ==
  /\ lio = "drenar"
  /\ cola' = <<>>
  /\ lio' = "quitar_interfaz"
  /\ UNCHANGED <<control, listas, reanudaciones, suspensiones, atendido, sacado, fallas,
                 memoria, kpc>>
QuitarInterfaz ==
  /\ lio = "quitar_interfaz"
  /\ cola' = <<>>
  /\ lio' = "sin_interfaz"
  /\ UNCHANGED <<control, listas, reanudaciones, suspensiones, atendido, sacado, fallas,
                 memoria, kpc>>
RegistrarInterfaz ==
  /\ lio = "sin_interfaz"
  /\ lio' = "esperar"
  /\ UNCHANGED <<control, listas, reanudaciones, suspensiones, cola, atendido, sacado, fallas,
                 memoria, kpc>>

-----------------------------------------------------------------------------
Cpu(p) == SyscallIO(p) \/ SyscallMemAlloc(p) \/ SyscallExit(p)
Manejador(p) ==
  \/ EncolarRequest(p) \/ FinalizarProceso(p) \/ KmAlloc(p) \/ KmPideCompactar(p)
  \/ KmEmpiezaACompactar(p) \/ KmTerminaDeCompactar(p)
  \/ JuntarAlSalir(p) \/ PedirAlSalir(p) \/ RecolocarAlSalir(p) \/ Salir(p)
HiloSuspension(p, k) == Suspender(p, k) \/ NoSuspender(p, k) \/ AvisarSuspension(p, k)
EscucharKernelMemory ==
  \/ RecibirNotificacion \/ PedirPorNotificacion \/ RecolocarPorNotificacion
  \/ VolverARecibir \/ RecibirCompactar
Listener ==
  \/ TomarRequest \/ EscribirLeido \/ BuscarEnBlock \/ BuscarEnSuspBlock
  \/ AgregarASuspReady \/ Drenar \/ QuitarInterfaz

Next ==
  \/ Despachar
  \/ \E p \in Procesos : Cpu(p) \/ Manejador(p) \/ \E k \in 1 .. MaxIO : HiloSuspension(p, k)
  \/ EscucharKernelMemory \/ Listener \/ FallarIO \/ RegistrarInterfaz

(* Every thread goes on, every timeout passes and the device answers.  It   *)
(* need not fail, and once gone it need not come back.                      *)
Fairness ==
  /\ WF_vars(Despachar) /\ WF_vars(EscucharKernelMemory) /\ WF_vars(Listener)
  /\ \A p \in Procesos : /\ WF_vars(Cpu(p)) /\ WF_vars(Manejador(p))
                         /\ \A k \in 1 .. MaxIO : WF_vars(HiloSuspension(p, k))

Spec == Init /\ [][Next]_vars /\ Fairness

-----------------------------------------------------------------------------
(* Every variable has its type.                                             *)
TypeOK ==
  /\ estado \in [Procesos -> Estados] /\ pc \in [Procesos -> PCs]
  /\ {ready, block, suspBlock, suspReady, cola} \subseteq Seq(Procesos)
  /\ candidatos \in [Reanudadores -> Seq(Procesos)]
  /\ ack \in [Reanudadores -> {"ninguno", "ok", "error"}] /\ salteados \subseteq Procesos
  /\ bloqueos \in [Procesos -> 0 .. MaxIO] /\ hilos \in [Procesos -> SUBSET (1 .. MaxIO)]
  /\ avisos \subseteq Procesos \X (1 .. MaxIO)
  /\ lio \in {"esperar", "escribir", "respuesta", "buscar_susp", "agregar", "drenar",
              "quitar_interfaz", "sin_interfaz"}
  /\ {atendido, sacado} \subseteq Procesos \cup {NADIE} /\ fallas \in 0 .. MaxFallas
  /\ mem \in [Procesos -> {"nada", "ram", "swap", "no_existe"}]
  /\ kpc \in {"recibir", "reanudar"}
  /\ notif \in Seq({"MEMORIA_LIBRE", "COMPACTAR", "FIN"})
  /\ okCompactar \in 0 .. 1 /\ compactaciones \in 0 .. MaxCompactaciones

EnCpu(p) == pc[p] \in {"corre", "alloc", "km_espera_ok", "km_compacta"}

(* Where a process can be: a list, the hands of the listener or of a thread  *)
(* that resumes processes, or a CPU.                                        *)
Sitios ==
  ({"ready", "block", "susp_block", "susp_ready", "cpu", "listener"} \X {NADIE})
    \cup ({"candidato"} \X Reanudadores)
Esta(p, s) ==
  CASE s[1] = "ready" -> Contains(ready, p)
    [] s[1] = "block" -> Contains(block, p)
    [] s[1] = "susp_block" -> Contains(suspBlock, p)
    [] s[1] = "susp_ready" -> Contains(suspReady, p)
    [] s[1] = "cpu" -> EnCpu(p)
    [] s[1] = "listener" -> sacado = p
    [] s[1] = "candidato" -> Contains(candidatos[s[2]], p)
(* The estado that goes with each place; a candidate keeps the one it had.   *)
EstadosEn(s) ==
  CASE s[1] = "ready" -> {"READY"}
    [] s[1] = "block" -> {"BLOCK"}
    [] s[1] = "susp_block" -> {"SUSP_BLOCK"}
    [] s[1] \in {"susp_ready", "listener"} -> {"SUSP_READY"}
    [] s[1] = "cpu" -> {"EXEC"}
    [] s[1] = "candidato" -> {"SUSP_BLOCK", "SUSP_READY"}

(* The listener, the suspension threads, the handlers and the threads that   *)
(* resume move PCBs between the lists under different mutexes: a process     *)
(* that has not ended is in one of them, once, and that one agrees with its  *)
(* estado; one that has ended is in none.                                   *)
EnUnaSolaLista ==
  /\ IsInjective(ready) /\ IsInjective(block) /\ IsInjective(suspBlock)
  /\ IsInjective(suspReady) /\ \A t \in Reanudadores : IsInjective(candidatos[t])
  /\ \A p \in Procesos :
       /\ \A s \in Sitios : Esta(p, s) => /\ estado[p] \in EstadosEn(s)
                                          /\ \A t \in Sitios : Esta(p, t) => s = t
       /\ estado[p] # "EXIT" => \E s \in Sitios : Esta(p, s)

(* A request is for a process that waits for it: nobody with a request in    *)
(* the interface runs, is ready to, or has a second one, so no answer of the *)
(* device is taken for another's.                                           *)
SolicitudDeBloqueado ==
  /\ IsInjective(cola) /\ ~Contains(cola, atendido)
  /\ \A p \in Procesos :
       Contains(cola, p) \/ atendido = p => estado[p] \in {"BLOCK", "SUSP_BLOCK"}

(* With memory for everyone a process in SUSP_READY does not stay there: a   *)
(* suspension always notifies after it has published the process, or a later *)
(* event does, and intentar_reanudar_proceso collects it.  Not one that the  *)
(* last collection missed because the listener had it in its hands: that     *)
(* notification is spent, and another need not come.                        *)
SuspReadyVuelve ==
  \A p \in Procesos : Contains(suspReady, p) /\ p \notin salteados ~> ~Contains(suspReady, p)

(* "SUSP_BLOCK todavia en IO, va a BLOCK (el listener lo va a mover a        *)
(* READY)": a process in BLOCK has a request at the interface, or is about   *)
(* to queue it, unless there is, or was, no interface.                      *)
ElListenerLoMueve ==
  fallas = 0 =>
    \A p \in Procesos :
      Contains(block, p) => pc[p] = "encolar" \/ Contains(cola, p) \/ atendido = p

(* "todavia en BLOCK. Suspender": Kernel Memory does not take to swap the    *)
(* segments of a process that is in a CPU.                                  *)
NoSuspendeAlQueCorre ==
  \A p \in Procesos : EnCpu(p) => mem[p] # "swap"

(* "si el tipo del IO era STDIN, escribo en memoria lo solicitado": what is  *)
(* read is written where the process that asked for it has its segments, and *)
(* not where they were before they went to swap.                            *)
EscribeEnLoSuyo ==
  [][EscribirLeido => mem[atendido] \notin {"swap", "no_existe"}]_vars

=============================================================================
