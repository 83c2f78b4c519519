# Verification of plug-n-pray

`plug-n-pray` is a small distributed operating system simulator: a *Kernel
Scheduler*, a *Kernel Memory*, CPUs, memory sticks, a swap module and IO
devices, each a process of its own, joined by TCP connections.  This directory
holds TLA+ models of the parts where threads and messages interleave, the
configurations that model-check them with TLC and proofs checked by TLAPS.
Names of the models are the names of the C code wherever TLA+ allows it.

## The system

| component | state it keeps | operations | talks to |
|---|---|---|---|
| Kernel Scheduler: short term | `colas_ready`, `lista_exec`, `lista_cpu_proceso`, `cola_cpus_libres`, `lista_timers`, `cpus_con_interrupcion`, `p_activos_global` | one `atender_cpu` thread per CPU, `hilo_dispatcher`, one `hilo_quantum` per timer | CPUs (requests), Kernel Memory (operations socket, one mutex) |
| Kernel Scheduler: compaction handshake | `sem_compactacion`, `desalojo_por_compactacion`, `sem_desalojo_ok` | `escuchar_kernel_memory` | Kernel Memory (notifications, control) |
| Kernel Scheduler: medium term | `lista_block`, `listas_susp_block`, `listas_susp_ready` | `hilo_suspension` per block, `intentar_reanudar_proceso` | Kernel Memory |
| Kernel Scheduler: IO manager | interfaces and their queues | `manejar_syscall_io`, `hilo_io_listener` | IO devices |
| Kernel Scheduler: mutex manager | `lista_mutexes` (owner, waiters), inherited priorities | `crear_mutex`, `mutex_lock`, `mutex_unlock`, `liberar_mutexes_de_proceso` | ready queues, block |
| Kernel Memory | processes, segments, holes (`g_huecos`), sticks, swap blocks | `op_*`, `compactar_memoria` | scheduler, CPUs, sticks, swap |
| CPU | context (registers, copy of the segment table) of the process it runs | `ciclo_instruccion`: fetch, `decode`, `execute`, `mmu_traducir`, check of interrupts | scheduler, Kernel Memory |
| Memory stick, swap, IO, utils | bytes, blocks, device | request loops | |

What is hard in this code: every list has a mutex of its own and a process
moves between lists in several critical sections; the dispatcher sends a pid to
a CPU before it registers it; timers and marks are per CPU and not per process;
suspension threads outlive the block that started them; Kernel Memory asks the
scheduler for an eviction in the middle of an operation the scheduler itself is
waiting for; a process that locks a mutex is among its waiters before it has left
its CPU, and an unlock moves processes between ready queues in several steps; the
context of a process travels between Kernel Memory and a CPU and there are two
copies of it meanwhile; CPUs and devices may disconnect at any moment.

For each component, what makes it correct:

* short term: a live process is in exactly one place; a CPU works for one
  process; `lista_exec` tells what runs; an RR process has a quantum; nothing
  starves; a disconnected CPU loses no process.
* compaction: nobody runs while segments move; the handshake always ends; the
  gate opens once for each compaction.
* medium term and IO: a blocked process is in exactly one list; the end of an
  IO is never lost; only a process that has been blocked for the whole timeout
  is suspended; a process runs only with its segments in memory.
* mutexes: one owner; a waiter is in the queue of the mutex and blocked, or
  neither; a mutex never stays with a process that has ended; the owner has the
  priority its waiters need and gives it back; every wait ends.
* CPU: a program runs as if it were alone, on whichever CPU it goes on and
  wherever its segments have been moved; a register keeps its width; an access
  outside a segment never reaches memory.
* memory: segments and holes partition the memory; swap blocks have one owner; a
  process finds in its segments what it wrote, wherever they have been meanwhile;
  a compaction makes the room it was asked for.

## Modules

* `Planificacion` models the short-term scheduler, the compaction handshake and
  the disconnection of CPUs.
* `MCPlanificacion` gives the priorities and program lengths of the instances.
* `Secuencias` proves what the operators on sequences taken from the community
  modules return (`RemoveAt`, `RemoveFirst`, `Min`), and what each operation of a
  list does to its elements and to its having no repetitions.
* `Turnos` is what the short-term scheduler promises to the programs, which
  `Planificacion` implements while no CPU disconnects.
* `PlanificacionProofs` proves that `Planificacion` keeps its types, its
  compaction handshake, its CPUs and their quantum, then where its processes and
  CPUs are and that it knows which CPU runs each of them, and that it implements
  `Turnos`.
* `Suspension` models the medium-term scheduler, the IO listener and where
  Kernel Memory keeps the segments of each process; `MCSuspension` is its
  instance for TLC, and `SuspensionProofs` proves its types, that each process is in
  one list and that only a blocked one has a request.
* `Espacio` is what Kernel Memory promises to the processes, and `Memoria` how it
  keeps it: holes, segments, compaction and blocks of swap.  `MCMemoria` is its
  instance for TLC.  `MemoriaProofs` proves the types and the four safety invariants,
  from lemmas about holes, segments and lists of blocks, and `EspacioProofs` that
  `Memoria` implements `Espacio`.
* `Mutexes` models the mutex manager with the ready queues, their semaphore and
  the dispatcher; `MCMutexes` has the programs of its instance.  `MutexesProofs`
  proves its types, that each process is in one place, that owners are alive and that
  the tokens are the processes in ready; `HerenciaProofs` proves priority inheritance.
* `Instrucciones` has the registers and what an instruction does to them.
  `Maquina` is the machine a program is promised, and `CicloInstruccion` how CPUs,
  scheduler and Kernel Memory make it; `MCCicloInstruccion` has its programs, and
  `CicloProofs` proves its types and that a CPU's copy of a context is current.

### Planificacion

State: each list of the scheduler is a sequence (`ready`, `exec`,
`cpuProceso`, `libres`); `lista_timers` and `cpus_con_interrupcion` are counts
by CPU, because their entries differ only by the CPU; `vencidos[c]` counts the
`hilo_quantum` threads that have left `lista_timers` and have not marked yet;
`pc[c]` says where the `atender_cpu` thread of CPU `c` is, `proc[c]` and
`nuevo[c]` are its local variables, `enCpu[c]` is the process the CPU itself
believes to be running; `dpc`, `dproc`, `dcpu` are the dispatcher; `lpc` and
`porDesalojar` are `escuchar_kernel_memory`.  The ready queues are one sequence:
the level of a process is its priority and each level keeps its order.

Actions, by thread:

| thread | actions |
|---|---|
| `hilo_dispatcher` | `ObtenerSiguiente`, `ObtenerCpu`, `EsperarCompactacion`, `Despachar`, `RegistrarCpuProceso`, `CrearTimer` |
| `hilo_quantum` | `VencerQuantum`, `MarcarVencido` |
| `atender_cpu` | `Conectar`, `TickSigue`, `TickDesaloja` + `Reencolar*` + `LiberarCpu`, `SyscallExit` + `FinalizarProceso`, `SyscallInitProc` + `ProcesoCreado`/`ProcesoRechazado` + `DevolverLlamador`, `SyscallMem` + `PedirKm` + `VolverAExec`, `Desconectar` |
| second half of `agregar_a_ready` | `DesalojarPorPrioridad` |
| Kernel Memory | `KmResponde`, `KmPideCompactar`, `KmEmpiezaACompactar`, `KmTerminaDeCompactar` |
| `escuchar_kernel_memory` | `RecibirCompactar`, `AvisarDesalojo`, `MarcarEnExec`, `EsperarDesalojo`, `ConfirmarCompactacion`, `BajarDesalojo`, `RecibirFin` |

One action is one critical section.  Sections are merged only where no other
thread can tell: a `sem_post` with the push it announces and a `sem_wait` with
the pop it allows (the dispatcher is the only waiter), the two sections of
`quitar_de_exec` and the `cancelar_timer` before them (they touch entries of the
handler's own CPU and process), `agregar_a_exec` with the send of the pid.
`TickDesaloja` answers the CPU after the lists are updated and not before: the
CPU waits for its next pid in both cases.
`mutex_desalojo_compactacion` and `mutex_p_activos` are held across the
preemption scan by two callers, and the model holds them there too
(`MutexDesalojoLibre`, `MutexActivosLibre`); `mutex_socket_km_operaciones` is
held while Kernel Memory serves a MEM_ALLOC (`KmLibre`).

Left out of this module: IO, mutexes and suspension (their system calls end as
the modelled ones do, plus a list of blocked processes), the release of mutexes
and the resumption at the end of EXIT and of a compaction, connection errors
with Kernel Memory (the scheduler then stops: `sem_bsod`), and registers.  A
timer thread does not wake before its entry is in `lista_timers`, a freed timer
is not confused with a later one at the same address, and a file descriptor is
not reused.  The model starts when `main` has created PID 0.

Bounds: `MaxProcesos` pids, `Instrucciones[p]` instructions for each program
before its EXIT, `MaxCaidas` disconnections, `MaxCompactaciones` compactions.
Two CPUs and two or three processes are enough for a process to be preempted by
one that is better, for a CPU to change process while the dispatcher is still
registering the previous one, and for two handlers to contend for Kernel Memory.

`Turnos` has the pids given out (`dados`), the live processes (`vivos`) and what
each CPU runs (`corre`), and four steps: a running process creates another, a live
process that runs nowhere starts on a CPU that runs nothing, it stops, and a
process that runs nowhere ends.  `ImplementaTurnos` maps `dados` to
`0 .. proximo_pid - 1`, `vivos` to `activos` and `corre` to `enCpu`: queues,
dispatcher, handlers, timers and the compaction are then stuttering steps.  A rescue
can start a process a second time, so the refinement is of the steps taken while no
CPU has disconnected (`caidas' = 0`).

### Suspension

State: `ready`, `block`, `suspBlock`, `suspReady` are the lists; `candidatos[t]`
and `ack[t]` are the local variables of `intentar_reanudar_proceso` in thread
`t`, which is `escuchar_kernel_memory` or the handler of an EXIT; `hilos[p]` are
the sleeping `hilo_suspension` threads of process `p`, by the number of the
block that started them, and `avisos` the ones that have suspended it in the
scheduler and have still to tell Kernel Memory; `cola`, `lio`, `atendido` and
`sacado` are the interface, its listener and the process it has taken out of
`suspBlock` and not yet added to `suspReady`; `mem[p]` is where Kernel Memory has the segments
of `p`; `notif` is the channel of notifications.  `pc[p]` is the CPU that runs
`p` and the handler that serves it.

| thread | actions |
|---|---|
| dispatcher, CPU and its handler | `Despachar`, `SyscallIO` + `EncolarRequest`, `SyscallMemAlloc`, `SyscallExit` + `FinalizarProceso` + `JuntarAlSalir` + `PedirAlSalir`/`RecolocarAlSalir` + `Salir` |
| `hilo_suspension` | `Suspender` + `AvisarSuspension`, or `NoSuspender` |
| `escuchar_kernel_memory` | `RecibirNotificacion` + `PedirPorNotificacion`/`RecolocarPorNotificacion` + `VolverARecibir`, `RecibirCompactar` |
| `hilo_io_listener` | `TomarRequest`, `EscribirLeido`, `BuscarEnBlock`, `BuscarEnSuspBlock` + `AgregarASuspReady`, `FallarIO` + `Drenar` + `QuitarInterfaz`; `RegistrarInterfaz` starts another |
| Kernel Memory | `KmAlloc`, `KmPideCompactar`, `KmEmpiezaACompactar`, `KmTerminaDeCompactar`, and its part of each request |

A request to Kernel Memory is one action, because the scheduler makes one at a
time (`mutex_socket_km_operaciones`, `KmLibre`); the one that takes several is a
MEM_ALLOC that needs a compaction.  `quitar_de_block` is one action with the
insertion in the next list: both callers hold `mutex_transicion_block`, and
`intentar_reanudar_proceso`, which does not, looks neither in BLOCK nor in READY.
It can miss a process that goes from BLOCK to SUSP_BLOCK by coming between the two
sections, as it does by coming before both, and either way the suspension thread
has still to ask Kernel Memory, whose notification makes it look again.  That does
not hold of a process that goes from SUSP_BLOCK to SUSP_READY: those two sections
are two actions, and `salteados` (a history variable) has the processes the last
collection missed between them.

Left out: there are CPUs for every process and one level of priority, so the
short term is reduced to a queue; `sacar_mas_antiguo` takes the first of the
list, which is the one that was suspended first; the segments of a process are
one block that fits or does not (`Capacidad` processes in memory and
`CapacidadSwap` in swap), so the failures half way of `op_suspender_proceso` and
`op_reanudar_proceso` belong to `Memoria`; the eviction of a
compaction is the one of `Planificacion`; a suspension thread whose process has
ended, and whose PCB has been freed, finds nothing in BLOCK; the interface is
looked up and given the request in one step.

Bounds: `MaxIO` blocks for each process, `MaxFallas` failures of the device,
`MaxCompactaciones` compactions.  Two blocks let a suspension thread outlive its
block; two processes and memory for one make them take each other's place.

### Memoria

State: `tabla[p]` is the segment table of the context of `p` and `ctx[p]` the
copy in the CPU that runs it; `porGuardar` are the copies in CPUs that were told
to stop and have not saved them yet, and `pisado` says that a CPU has used a copy
that was out of date; `suspendidos[p]` are its segments in swap, each with
the sequence of its blocks; `huecos` is `g_huecos`; `bytes` are the bytes of the
sticks, one stick after the other, and `disco` those of the blocks; `libres` is
`g_bloques_libres`; `swap` is the connection (`caida` until Kernel Memory
notices, then `perdida`).  A written byte is `<<p, id, offset>>`, the process and
the place it was written at, and every other one is `BASURA`.  `paso`, `pid`,
`pedido`, `sueltos` and `movidos` are the thread that serves the scheduler and
its local variables.  `fase[p]` is the environment: what the scheduler and the
CPUs are doing with `p`, and so which request can come next.

| thread | actions |
|---|---|
| operations | `CrearProceso`; `MemAllocRechazado`, or `MemAlloc` (+ `CompactarMemoria` + `Reintentar`) + `RegistrarSegmento`; `MemFreeRechazado`, or `MemFree` + `LiberarSegmento`; `FinalizarProceso` + `LiberarUno` for each segment + `DestruirProceso`; `SuspenderSinSwap`, or `SuspenderProceso` + `SuspenderSegmento` for each + `TerminarSuspension`, or `SuspenderFalla`; `ReanudarProceso` + `ReanudarSegmento` for each + `TerminarReanudacion`, or `ReanudarFalla` |
| CPUs, one connection each | `PedirContexto`, `MemWrite`, `ActualizarContexto` before a system call; `Desalojar` and later `GuardarContexto` for an eviction; `Despertar` is the end of an IO |
| sticks and swap | `ConectarStick`, `ConectarSwap`, `CaerSwap` |

`MemAlloc`, `MemFree` and `FinalizarProceso` have the segment in no hole and in no
table between two critical sections, and the model has those steps too, with the
CPUs and new sticks in between.

`ImplementaEspacio` is the refinement.  `Espacio` has, for each process, its
segments and the bytes that hold what it wrote, and nothing else: only the process
itself changes them, by `Reservar`, `Escribir`, `Liberar` and `Terminar`.  The
mapping joins what is in memory and in swap (`EnMemoria`, `EnSwap`), half way of
a suspension or of a resumption included, so that compaction, suspension,
resumption and everything the other processes do are stuttering steps.  Once the
connection with swap is lost (`respaldo`), `Espacio` lets a process lose what it
had there, because a resumption skips the blocks it cannot read and answers OK.  One
step may lose several segments (`Perder(p, S)`): a resumption that fails half way
gives up the memory of those it had brought back, whatever it held.

Environment, and what it leaves out:

* a program asks for sizes greater than zero and for identifiers it does not
  have; nobody asks about a process that does not exist;
* a process has one context to save, and all of them `MaxPorGuardar`;
* only a blocked process is suspended (`susp_al_que_corre` shows a case in which
  the one suspended runs);
* a stick does not disconnect (the scheduler stops when one does), swap connects
  once, and its loss is noticed at its next use;
* the memory that the scheduler reads and writes for an IO belongs to
  `Suspension`; the program files and the instructions are left out;
* the list of segments of a process is a set, gone through in any order.

Nothing in Kernel Memory waits for the CPUs before a compaction: it waits for
KM_COMPACTACION_OK, and the scheduler counts a process as evicted when it tells its
CPU to stop (`planificador.c:248`), before the CPU saves the context
(`ciclo.c:442`).  So `CompactarMemoria` asks nothing of the CPUs.  It may overtake a
save, or move the segments of a process that the dispatcher sent late and that runs
(`plan_compactacion_gente`), and the table that comes back afterwards, or that the
CPU translates with, names the old places: over holes and other segments, where the
process no longer finds what it wrote.  A table is also out of date without a
compaction, when the evicted process runs on another CPU and gets a segment there, before the first CPU saves.  A step that writes back a table
other than the one Kernel Memory has, or one that a suspension is going through, or
writes through a segment that is not in it, sets `pisado`.

When `op_suspender_proceso` or `op_reanudar_proceso` fail after they have moved a
segment, `paso` becomes `a_medias`.  What they leave is not sound: a failed suspension
has freed the memory of segments the table still has and whose blocks it has given
back, and a failed resumption has freed the blocks and the records of segments that
are still in the list.

After either of the two (`Entero` is false) the model stops.  `CadaByteDeUno` and
`CadaBloqueDeUno` do not hold there, so `Particion` and `BloquesDeUnSolo` are claims
about every state before, and `ImplementaEspacio` about every step that does not set
`pisado`.  They say that no interleaving of the operations of Kernel Memory, with
CPUs, sticks and swap, goes wrong by itself; they do not say that the whole system
keeps the memory apart, and it does not.

Bounds: `MaxSticks` sticks, `MaxEscrituras` bytes written, at the offsets
`Desplazamientos`.  Two processes with two identifiers fragment the memory;
sticks and blocks of two bytes and segments of one or three make a segment take
two sticks, or two blocks with the last one half used; two blocks make swap full
with one segment; size four is rejected.  One written byte is enough for a
property that compares each byte with what was written there, because no step
looks at the bytes.  One context that is saved late is enough for a compaction, a
suspension or a segment given out in another CPU to overtake it.

`VIEW Vista` keeps the run small.  It joins the states that differ only in bytes that
are not what the program of their segment wrote there (no guard reads a byte, and a
new segment may hold anything), in which of the free blocks is the next, or in what
an out-of-date context that is still to be saved says; and, since the model stops
there, those that are not whole and have the same holes.  Two things are then
explored for one of the joined states and not for all: what a new segment happens to
hold, and an old context that becomes right again because the segments go back to
where they were.  The theorems have neither limit.

### Mutexes

State: `programa[p]` and `pos[p]` are what each process does next; `prioridad`
and `estado` are the fields of its PCB; `creados`, `duenio` and `bloqueados` are
`lista_mutexes`; `ready` has one queue for each level and `tokens` is
`sem_procesos_en_ready`, apart from the queues because `mutex_lock` moves a
process between two of them without the semaphore; `despachador` and `hilo[c]`
are the dispatcher and the thread that serves CPU `c`, each with its local
variables; `enBlock[p]` and `enSuspBlock[p]` count the entries of `p` in
`lista_block` and in `listas_susp_block` (an unlock takes none out), and
`timers[p]` the suspension threads that sleep for one.

| thread | actions |
|---|---|
| `hilo_dispatcher` | `EsperarToken`, `SacarSiguiente`, `EjecutarEn` |
| `mutex_lock` | `LockInexistente`, `LockLibre`, or `LockOcupado` (+ `SacarDuenio` + `PonerDuenio`) + `Bloquear` |
| `mutex_unlock` | `SoltarNada`, or `SoltarMutex` (+ `Despertar`) + `CalcularPrioridad` + `AsignarPrioridad` |
| handler of MUTEX_UNLOCK, of EXIT | `Unlock` + `mutex_unlock` + `Devolver`; `Exit` + one `mutex_unlock` for each mutex it owns + `DestruirPcb` |
| the rest of a program | `CrearMutex`, `NoopSigue`, `NoopDesaloja`, `Sleep` + `TerminarIO` |
| medium term | `Suspender`, `Reanudar` |

`mutex_interno` is held by a lock while it moves the owner (`MutexInternoLibre`);
every other use of it is one action.  `LockOcupado` reads the `estado` of the owner
and `SacarDuenio` looks for it later; `CalcularPrioridad` takes the mutexes one by
one in the code and in one step here, which reads no more than what the writer of
each mutex leaves.  `SacarSiguiente` may find the queues empty, when the owner is
between two of them: `obtener_siguiente_proceso` then returns a null process, which
the dispatcher uses, and it stops there.

Left out: preemption between queues and quanta are the choice of `NoopDesaloja`;
the compaction gate and `exec` are in `Planificacion`, and where the segments go in
`Suspension`.  Two `MUTEX_CREATE` of one name at a time make two mutexes, of which
`buscar_mutex` always returns the first.  A suspension thread whose process has
ended does nothing: what it does with a PCB that was freed is not modelled.

A program may be any sequence of those instructions that ends with its EXIT and, between
two MUTEX_LOCK of one mutex, unlocks it (`ProgramasAssumption`): a process that locks
what it already has waits for itself, which is its own doing.  What the model says of
priorities is of programs that also unlock only what they have locked, or what no other
program locks (`CadaUnoLoSuyo`, which TLC evaluates on the programs of the run): the code
does not ask who unlocks, and `mutex_unlock` gives the former owner its priority back
without moving it, though another may have unlocked while it is in a ready queue.

Bounds: the programs (`ProgramasMC`), three processes of three priorities, two
CPUs, two mutexes.  In one set of programs everyone wants one mutex, so that two
wait while a third has it; in the other the worst process has two, each wanted by a
better one, so that its priority has to come down in two steps.

### CicloInstruccion, Maquina and Instrucciones

State: `contexto[p]` is the context in Kernel Memory (registers and segment
table), `memoria` the bytes of the sticks, `cpu[c]` the local variables of
`ciclo_instruccion` in CPU `c` (its step, pid, context, instruction, and the bytes
of a COPY_MEM); `enviado[c]` and `llamada[c]` are the messages between `c` and its
handler; `listos`, `libres` and `io` are as much of the scheduler as brings a
process to a CPU and back.  `desalojo` is the eviction for a compaction: the CPU
whose MEM_ALLOC waits for it, the CPUs that are marked, the confirmations that are
missing (negative when there was one too many) and whether the dispatcher had passed
the gate.  `adelantado` tells that a context that is in a CPU has been overtaken.

| thread | actions |
|---|---|
| CPU | `RecibirPid`, `PedirContexto`, `Fetch` or `FetchFalla`, then one of `ExecuteRegistros`, `MovIn`, `MovOut`, `CopyMemLeer` + `CopyMemEscribir`, `SegFault` or `Syscall` (+ `EnviarSyscall`), and `Guardar` after an interruption |
| `atender_cpu` | `TickSigue`, `TickDesaloja`, `MutexCreate`, `MemAllocRechazado`, `MemAlloc`, `PedirCompactacion` (with the listener of Kernel Memory), `MemAllocCompactando`, `MemFree`, `InitProc`, `SyscallIO`, `Exit` |
| dispatcher, IO listener | `Despachar`, `TerminarIO` |

Each request of a CPU to Kernel Memory is a step.  `Traducir` is `mmu_traducir`
with its sum that wraps; registers are truncated to their width, one byte or
`TAM_GRANDE`; MOV_IN and MOV_OUT put the least significant byte first.  An access
whose last byte wraps is translated, and Kernel Memory refuses to read what it does
not have (`LecturaAceptada`): the CPU ends the process as after a fault of the MMU.

`ImplementaMaquina` is the refinement.  In `Maquina` each program has registers,
segments and at most one system call pending, and there are no CPUs, no contexts
and no addresses of memory.  The registers are mapped to the context that counts:
the one of the CPU that has loaded the process, or else the one in Kernel Memory
(`Vigente`); the segments are read in `memoria` through the table of Kernel Memory
(`Segmentos`), so a compaction has to be a stuttering step; the system call is in
the CPU, on its way or in the IO (`Pedido`).  Loading and saving a context, ticks,
evictions and dispatches are stuttering steps.

Left out: MUTEX_LOCK and MUTEX_UNLOCK, which are system calls like the others
for a CPU (`Mutexes`); writes that Kernel Memory refuses, and STDIN and STDOUT of
sizes that wrap; a MEM_ALLOC of an identifier the process has; suspension
(`Memoria`).

Evictions do not wait.  `manejar_tick_progress` tells the CPU to stop and queues its
process, or confirms its eviction, before the CPU has saved the context
(`planificador.c:234` and `248`, `ciclo.c:442`), so `Despachar` and
`MemAllocCompactando` ask nothing of the CPUs that are in `guardar`; nor of a process
that the dispatcher sent late, past the gate (one at most, `tarde`).  Two steps can
overtake a context: another CPU loads the process before the save (`PedirContexto`),
or a compaction moves its segments (`MemAllocCompactando`).  Both set `adelantado`,
and the model does not go on: what is lost then depends on which of the two tables
survives, which is what `pisado` stands for in `Memoria`.  Everything else goes
on, such as a save after a compaction that left those segments where they were, and
processes that run while the segments of others move.  A MEM_ALLOC keeps
`mutex_socket_km_operaciones` until its answer, so no other request of the
scheduler gets to Kernel Memory meanwhile (`SocketLibre`).  A confirmation more
than was waited for stays in the semaphore, and one that never comes stops the
compaction for good; the pairs of the past, which mark the wrong CPU, are in
`Planificacion`.  A STDIN that is pending when the segments move is in none of the
instances.

Bounds: a byte has 4 values and a large register 2 bytes, so both widths wrap
within the programs; segments have up to 4 bytes and memory 6, so that three
segments need a compaction; `MCConfiguraciones` has one CPU with a quantum and two
programs (one that compacts and leaves its segment, one that counts in one byte and
jumps); or two CPUs and three programs (STDIN, COPY_MEM, STDOUT and a copy whose last
byte wraps; SLEEP; one without EXIT); or two CPUs, with a quantum and
without, and two programs, one of which leaves a hole below its bytes and needs it for
a larger segment, and the other writes, goes on and reads what it wrote; either may
be below the other in memory, so a compaction moves both, one or none.

## Runs

| run | what it asks | result |
|---|---|---|
| `plan_cmn` | CMN with preemption, one FIFO and one RR level, a process with no level, MEM_ALLOC, MEM_FREE, a compaction, a CPU that disconnects: `TypeOK`, `ProcesoEnUnSoloLugar`, `CpuEnUnSoloLugar`, `ExecAlDia`, `ParAlDia`, `QuantumArmado`, `PuertaCerrada`, and that `Planificacion` implements `Turnos` while no CPU has disconnected (`ImplementaTurnos`) | holds |
| `plan_rr` | RR, three programs on one CPU: `TodosTerminan` under fairness | holds |
| `plan_compactacion_gente` | nobody runs while Kernel Memory compacts (`main.c:29`) | violated: the dispatcher passes the gate before the compaction starts and sends its process afterwards |
| `plan_compactacion_avanza` | the compaction gets its confirmations (`main.c:230`) | violated: a counted process makes a MEM_ALLOC instead of a tick |
| `susp_listas` | two processes, two STDIN each, memory for one, a device that fails, a compaction: `TypeOK`, `EnUnaSolaLista`, `SolicitudDeBloqueado` | holds |
| `susp_vuelve` | memory for everyone: `SuspReadyVuelve` under fairness, of the processes the last collection did not miss between two lists | holds |
| `susp_fin_perdido` | the listener takes to READY a process brought back to BLOCK (`scheduler.c:553`) | violated: its IO ended while it was a candidate, in no list |
| `susp_al_que_corre` | a process is suspended while it is blocked (`scheduler.c:486`) | violated: Kernel Memory is told when the process runs again |
| `susp_stdin` | what is read goes where it was asked for (`IO_manager.c:153`) | violated: the segments are in swap |
| `mem_espacio` | two processes that allocate, free, write, end, are suspended and resumed over two sticks, with compactions, a swap that may be lost and one context that is saved late: `TypeOK`, `Particion`, `BloquesDeUnSolo`, `HuecosFusionados`, `TrasCompactarHayLugar`, and that `Memoria` implements `Espacio` (`ImplementaEspacio`) | holds |
| `mutex_prioridades` | CMN with three levels, two CPUs, three processes that lock, unlock, sleep and end without unlocking: `TypeOK`, `EnUnSoloLugar`, `TokensAlDia`, `DuenioVivo`, `HeredaPrioridad`, `DevuelvePrioridad`, `NivelAlDia`, and `EsperaTermina` under fairness | holds |
| `ciclo_maquina` | programs with every kind of instruction, one CPU with a quantum and a compaction, two CPUs without quantum, or two that are evicted with nobody waiting for their saves: `TypeOK`, `CopiaAlDia`, that `CicloInstruccion` implements `Maquina` (`ImplementaMaquina`), and `Terminan` under fairness, until a context is overtaken | holds |

`CHECK_DEADLOCK FALSE` is used only where the system may really stop: when the
handshake of a compaction hangs or every CPU disconnects (`plan_cmn` and the runs that show a violation), when every process may end (the `susp_` runs, whose
threads then wait for ever, and `mutex_prioridades`), or when the dispatcher takes
a null process (`mutex_prioridades`). In the other runs `Reposo` is the one state
in which every thread waits with nothing left to do (in `mem_espacio`, also a
failure half way or a table out of date; in `ciclo_maquina`, a CPU that left the cycle may be waiting for
ever, a context that was overtaken is the end, and so is a compaction whose
confirmations do not come, `NadieConfirma`), so that TLC reports any other state without successors.

Fairness (`plan_rr`, `plan_compactacion_avanza`): weak fairness of each thread
of the scheduler and of Kernel Memory (the operating system schedules them), of
each CPU (it goes on with its program) and of the connection of each CPU.
A quantum need not expire and nothing has to disconnect.  In `susp_vuelve`: weak
fairness of each thread, of each `usleep` (a suspension timeout passes) and of
the answers of Kernel Memory and of the device; a device need not fail, nor come
back once it has gone.  In `mutex_prioridades`: weak fairness of the dispatcher, of
each CPU with its thread and of the end of each IO; suspension threads need not
wake up.  In `ciclo_maquina`: weak fairness of each CPU with its handler (they
answer each other in turn, so one of the two always has a step), of the dispatcher
and of the end of each IO.  No quantum has to expire, and an eviction always
comes after an instruction, so evictions do not put off a program for ever.

The models also reach behaviours that no property of a run forbids: the mark of
a quantum evicts the next process of its CPU; a pair of the past makes a compaction
or a preemption mark a CPU other than the one that runs the process (`ParAlDia` has
those pairs as its exception), and a CPU that disconnects rescue a process that runs
on another; one that disconnects before the registration of its process rescues
nobody; a process that the listener has taken out of SUSP_BLOCK is missed by a
collection, and may stay in SUSP_READY (`salteados`, the exception of
`SuspReadyVuelve`); a context that was evicted for a compaction is saved after it,
with the table of before (`pisado`, `adelantado`); a confirmation of an eviction
that no compaction asked for is left for the next; the suspension thread of one block
suspends the next; the notification its own suspension causes brings a process
back to BLOCK, without a suspension thread for the rest of the block; a
candidate Kernel Memory refused is put back after the process that frees the
memory has looked for candidates, so `SuspReadyVuelve` needs memory for
everyone; and a resumption waits for the socket that a MEM_ALLOC holds while the
compaction waits for the thread that resumes; and the failures half way of a
suspension or of a resumption that `Memoria` stops at; a MUTEX_LOCK of a mutex
that does not exist leaves its process in no list; a process that was given its
mutex is suspended while it is ready or runs, because its entry stays in
`lista_block`; the priority an unlock has computed undoes what a lock raised
meanwhile, for a program with two mutexes; and the dispatcher takes a null process
when the owner it should find is between two queues.  Most of them are under "hazards" in
`PROJECT.json`.

## Proofs

`TipoCorrecto`: `Spec => []TypeOK`, for any number of CPUs and processes, any
priorities and algorithm.  `TypeOK` is not inductive: an action copies a local
variable of a thread (`proc`, `nuevo`, `dproc`, `dcpu`) into a list, so the
invariant `Tipos` adds that such a variable is set wherever its thread uses it
(`LocalManejador`, `LocalDespacho`).  `TiposPaso` has a step per action and,
under it, one per group of variables the action changes; `TiposEstables` covers
the rest.  The assumptions are the ones `Planificacion` declares on its
constants.

`PuertaCerradaSiempre`: `Spec => []PuertaCerrada`.  `PuertaCerrada` speaks of
the semaphore of the gate and of who compacts, which says nothing of how many
permits are on their way.  The invariant `Puerta` says where the one permit is:
at the gate (`Abierta`), taken by the listener while it evicts (`Desalojando`),
given to Kernel Memory with the confirmation (`Confirmada`), used to compact
(`EnCurso`), or coming back with the one `FIN` of the channel (`Terminada`).
Every step outside the handshake leaves it where it is (`PuertaEstable`,
`CompactandoEstable`); `FinesAppend` and `FinesTail` count the messages.

`QuantumSiempre`: `Spec => []QuantumArmado`, whatever disconnects.  A timer is
created for `dcpu` after the process was sent, and cancelled by the handler of
that CPU: the theorem needs that no other process is sent to a CPU in between,
so the invariant `Quantum` adds `DuenoDeCpu`: `cola_cpus_libres` has no
repetitions and, like the dispatcher, holds only CPUs that run nothing
(`LibresDistintas`, `LibresOciosas`, `DespachoExclusivo`), a handler knows what
its CPU runs (`LoQueCorre`), and until its timer exists a CPU runs what was
dispatched to it or nothing (`Despachado`).  The CPUs that closed their
connection while they were free or being dispatched to are the exception
throughout.  Every action of a handler is an instance of one step, `Paso`.

`UnSoloLugarSiempre`, `CpuEnUnSoloLugarSiempre` and `ExecAlDiaSiempre`:
`Spec => []ProcesoEnUnSoloLugar`, `[]CpuEnUnSoloLugar` and `[]ExecAlDia`.  The three
hold while no CPU has disconnected, so the invariant `Lugar` is an implication too,
and `NadieDesconocido` closes the circle: a handler gives up its CPU when it does not
know the pid, which cannot happen while every running process is alive.  `Lugar`
says that the places of a process exclude each other (`Separados`), that being alive
is being in one of them (`Vivos`, of those with a queue), that a pid not given out is
nowhere (`PidsDados`), that the creator of a process is another (`NuevoDistinto`),
that a CPU with nothing to do is free or about to be sent something
(`CpusEnSuLugar`), and that `lista_exec` is what runs (`EnExec`).  What moves is
always one process of one handler or of the dispatcher: `ManosDelPaso` covers the
other handlers, and a lemma for each kind of move (to ready, out of `exec`, back to
it, to its end) the actions that make it.  `DuenoDeCpu`, from `Quantum`, is what
makes the CPU that is sent a pid an idle one.

`ParAlDiaSiempre`: `Spec => []ParAlDia`, from `Lugar`.  The invariant is `Registrada`: a CPU that runs
a process has a pair with it.  The pair is registered
after the pid has been sent, and dropped by `quitar_de_exec`, which looks for it by pid:
that it drops the pair of no other process needs that no two CPUs run the same one
(`CorrenDistintos`), and that the registration is of what its CPU still runs, or comes
after the process has gone, is `Despachado`.  The searches of the code return the first
pair that matches (`PrimerDeProceso`, `PrimerDeCpu`): it is the right one when no pair of
the past (`Viejos`) matches too, by `CorrenDistintos` again (`RegistradaAlDia`).  When one
does, the wrong one may come first: a MEM_ALLOC that beats the registration of its process
leaves one behind, and a compaction then marks the CPU of the old pair.

`TurnosImplementado`: `Spec => ImplementaTurnos`, from `Lugar` as it is before any
disconnection.  `Despachar` is `Correr`, the system calls that stop a process
are `Dejar`, `SyscallInitProc` is `Crear`, the two ends of a PCB are `Terminar`, and
every other action leaves the three abstract variables alone; `Lugar` gives each of
them its guard.

`TipoCorrecto` of `MutexesProofs`: `Spec => []TypeOK`, for any programs, processes, CPUs
and mutexes.  The threads use what they read under a `mutex_interno` they have
released, so the invariant `Locales` says what their variables hold where they are
used, and that two locks never move owners of one mutex (`MutexInterno`): an owner
being moved stays the owner.

`EnUnSoloLugarSiempre`: `Spec => []EnUnSoloLugar`.  Every step moves at most one process
from one place to another (`Mudanza`), leaves everybody where they were or takes one
away (`Quietos`).  What each of them needs is that the process that moves was where the
thread takes it from, and the threads that do not move keep the one they have
(`OtrasManos`, from `MutexInterno`).  `Distintos` is the strengthening: the thread
that wakes a waiter up has a process of its own, another one, to give back.

`DuenioVivoSiempre`: `Spec => []DuenioVivo`, from the one above.  The invariant
`Propiedad` follows the ownership: a mutex without owner has no waiters and an owned one
exists (`ConDuenio`), no owner waits for what it has (`NoSeEspera`), a process that has
ended is nowhere and owns nothing (`Muertos`), the handler of an EXIT has in its list
every mutex its process still owns (`Saliendo`: nobody gives it another meanwhile, because
it waits for none), and who owns a mutex or waits for it has run its LOCK and not its
UNLOCK, unless the handler is about to do it (`Pedidos`).  That is where
`ProgramasAssumption` comes in: a program that locked a mutex it has would wait for
itself.  `SoloSalen`, which the lemmas of `EnUnSoloLugarSiempre` also give, is that nobody
comes back from nowhere.

`TokensAlDiaSiempre`: `Spec => []TokensAlDia`.  The invariant `Fichas` has the sum of the
lengths of the queues as the number of processes that are in one (`Largo`: no queue has a
process twice and no process is in two, by `EnUnSoloLugar`), so that a step adds or takes
one element of a set: the tokens, with the one the dispatcher holds, are the processes in
the queues and those a lock has in its hands.

`HeredaPrioridadSiempre`, `DevuelvePrioridadSiempre` and `NivelAlDiaSiempre`:
`[]HeredaPrioridad`, `[]DevuelvePrioridad` and `[]NivelAlDia` under `Spec`, for any
processes, CPUs, mutexes, levels and programs with `CadaUnoLoSuyo`.  First, `Base`: a
handler takes a mutex only from its own process (`Suyos`, and then `LocalSoltar`: the
former owner is that process).  That needs the converse of `Pedidos`: a process between its
LOCK and its UNLOCK has the mutex or waits for it, unless it was lost by the LOCK of a name
that does not exist (`Tiene`), and only who has the LOCK in its program ever has the mutex
(`Pide`).  Who wants two mutexes nests them (`Dos`).  Then `Correcta`: a process that
unlocks and does not nest has no mutex left, nor gets one before its priority is assigned
(`Conserva`), so that the priority computed under the mutexes and assigned later, without
them, is still right.  `Hereda` and `Devuelve` follow from what a step does to owners,
waiters and priorities (`Avanza`, `Entrega`, `OtroPaso`), and `EnSuNivel` from where the
process whose priority changes is: waiting, in the hands of a thread, or about to be moved
by the lock that raised it, which keeps the mutex from being unlocked meanwhile
(`MoverSigue`).

`EnUnaSolaListaSiempre` and `SolicitudDeBloqueadoSiempre`: `Spec => []EnUnaSolaLista`
and `Spec => []SolicitudDeBloqueado`, for any number of processes, IO requests, failures
and compactions.  The second needs the first: a process with a request is blocked until
the listener finds it, because what resumes or dispatches processes takes them from
lists that a blocked process is not in, and puts a candidate whose IO has not ended
back in BLOCK or SUSP_BLOCK.  The invariant `Orden` adds what the threads know between two critical sections:
`Reanudando` (candidates are of a thread that is resuming, and an answer of Kernel
Memory is about one of them), `Fases` (a handler of EXIT serves a process that has
ended, and a request that is not queued yet belongs to a blocked process with no other),
`EnManos` (the listener has a process in its hands exactly while it is between the two
lists) and `Confirmacion` (a COMPACTAR message or a permit is of the one MEM_ALLOC that waits,
which is what bounds `okCompactar` in `TypeOK`).  Each action moves one process from a
list to another, or the whole of two lists to the candidates of a thread.

`ParticionSiempre`, `HuecosFusionadosSiempre`, `TrasCompactarHayLugarSiempre` and
`BloquesDeUnSoloSiempre`: `Spec => []Particion`, `[]HuecosFusionados`,
`[]TrasCompactarHayLugar` and `[]BloquesDeUnSolo` of `Memoria`, for any number of
processes, identifiers, sizes, sticks and blocks, and for both strategies.
Their invariant is `IInv`.  None of the four is inductive: that the bytes are
partitioned does not say that the list of holes is the one `fusionar_huecos` keeps.
`Reparto` does: every segment has one holder, a table or the thread of operations
(`DeUno`), segments are apart and inside the sticks (`BienPuestos`), and the holes are
exactly the maximal runs (`Corridas`) of the bytes no segment has (`Libre`).  Then
joining a released segment with its neighbours (`ConHuecoCorridas`), taking the front
of a hole (`SinOcupadoCorridas`) and a new stick give the maximal runs of the new set;
and a compaction (`Compactado`), where each new base is the sum of the sizes below it,
keeps the segments apart and in order and leaves one hole as large as all the free
bytes, which is why the retry finds room (`HayLugar`; a stick that connects before it
does not break the hole).  `HuecosMaximos` is what survives an operation that fails
half way.  `Orden` says what the thread of operations knows at each step, that only a
suspended process has segments in swap, and that identifiers do not repeat, so the segments already moved are told from the others by
their identifier.  `Bloques` is `CadaBloqueDeUno` as lists: no block twice in
`g_bloques_libres` nor in a segment, nor in two of them.  All of it
until an operation fails half way or a CPU uses a table that is out of date (`RepartoVivo`,
`BloquesVivos`, `OrdenVivo`).  Nothing is supposed of the CPUs: a table comes back
whenever it likes, and either it is the one Kernel Memory has, so that nothing changes
(`TablaQuieta`), or the step sets `pisado`, which is what `Entero` excludes
(`PasoPisado`).

`EspacioImplementado`: `Spec => ImplementaEspacio`, with `IInv` and `Datos`.  A segment
with its bytes is a piece (`Trozos`), read from the sticks or through its blocks, and what
a process sees is what its pieces hold (`PromesaDeTrozos`).  A compaction
(`TrozoMudado`), a segment that goes to swap (`EscritosFacts`, which follows every byte to
its block and place) and one that comes back (`Reanuda`) leave the pieces as they were;
what one process writes is apart from the pieces of the others (`TrozoAjeno`, from
`Reparto`).  `Datos` is what makes the failures half way stuttering steps too: a segment
that was moved to swap is still whole in the sticks, although its memory is in a hole by
then (`CopiaEnSticks`: one thread serves every operation, so nobody has been given that
memory, and a CPU that writes outside the tables, which are apart from it, sets `pisado`:
`TablasPuestas`), and one
that was brought back is still whole in its blocks, although they are free (`CopiaEnSwap`).
Without swap the pieces that came back are the ones `Perder` names (`PiezasPerdidas`).  The
proof needed `Perder` to lose several segments at once, which instances with one or two
identifiers had not shown.

`TiposDelCiclo`: `Spec => []TypeOK` of `CicloInstruccion`, for any processes, CPUs,
programs, widths and memory.  `Tipos` gives each local variable of a CPU the type of the
step it is in: the instruction is one of the program from `fetch` to the system call, the
bytes of a COPY_MEM are bytes.  `ConfiguracionesAssumption` says that the parameters of an
instruction are what its name needs (decode.c takes them from the text and registros.c
knows seven names).  A register is a truncation (`EscribirRegistroTipo`), and a compaction
takes a segment to the number of occupied bytes below it, so segment and bytes below still
fit in the memory (`NuevaDirFacts`).

`CopiaSiempreAlDia`: `Spec => []CopiaAlDia`, for any CPUs, with a quantum or without and
with compactions that wait for no save, until a context is overtaken; and
`UnaCpuNoSeAdelanta`: with one CPU none ever is.  The invariant `CopiasCoherentes` holds
as long as `adelantado` does not (`CopiasMientras`).  It has one process at most in each
CPU, on its way in, in its registers or on its way out (`Ocupante`), and every process in
one place: a CPU, the ready queue or an IO (`EnUnLugar`).  An evicted process is queued
while its CPU still has its context, so it is in two places; `Guardados` says what
remains true of it: no other CPU has loaded it and it has no other call.  So nobody has
loaded a process whose call is being served (`CargadoSolo`, `LlamadaSola`), which is when
its segments change; a compaction that overtakes no context leaves the table of each
context that is in a CPU as it was.  The pid of a new process is new (`PidNuevo`), so
INIT_PROC clears the context of nobody.  With one CPU, the one that has still to save is
the one that would load the process, and the one whose MEM_ALLOC compacts has stopped.

The sums over a list of segments and the loops that release them are folds over sets,
and a fold says nothing without induction.  The library's induction theorems are out of
the provers' reach, but not the well-foundedness of finite sets under inclusion and of
the naturals: `SumaDef`, `LiberarDef` and `BloquesDef` build the function the fold
computes by a minimal counterexample, and `SumaDisjuntos` (the sum of the sizes of
separate segments is the number of bytes they cover), `LiberadosLibre` and `BloquesTipo`
are proved from it in the same way.  `Secuencias` has the general lemmas
(`IteracionExiste`, `PlegadoTipo`, `PlegadoExiste`), and `ValoresFacts` and `ValorDeTipo`
of `CicloProofs` use them for the powers of `Byte` and the value of some bytes.

Only model-checked: liveness (TLAPS does not prove it), and that `CicloInstruccion`
implements `Maquina` until a context is overtaken (`ImplementaMaquina`), which the plan leaves for later.  Neither the
run nor the theorems about `HeredaPrioridad` and its companions say anything of programs that unlock what another has locked: with such
programs `NivelAlDia` is false, as the priority of a former owner that is in a ready
queue changes and its place does not.  Theorems about `Planificacion` once a CPU has disconnected stop at its types, the gate and the
quantum: processes do not keep their places then, since a stale pair makes a
disconnection rescue a process that runs elsewhere.

## Plan

Done, in this order: the short term and the handshake (`Planificacion`), its
first theorems, the medium term (`Suspension`), memory (`Espacio`, `Memoria`),
mutexes (`Mutexes`), the CPU (`Maquina`, `CicloInstruccion`) and the abstract
scheduler (`Turnos`).  What follows:

1. Proofs: that every step of `CicloInstruccion` that overtakes no context is one of
   `Maquina` or a stutter, from the invariants of `CicloProofs` and one more about the
   bytes of each segment, as in `EspacioProofs`.  It also has to suppose what the programs
   of the run do: no write, STDIN or STDOUT whose last byte wraps, and no identifier
   allocated twice.
2. Runs that show, against what the comments of the code say, the wrong CPU that is
   marked (`main.c:216`), the process that is not rescued (`main.c:127`), the one that
   is not collected (`planificador.c:466`) and the save that follows the compaction
   (`planificador.c:247`).
3. `CicloInstruccion` beyond a context that was overtaken, with an abstract machine that
   says what a program may lose then; `Memoria` beyond a failure half way or a table out of date: what `op_suspender_proceso` says of
   itself ("liberando la memoria principal a medida que cada segmento queda
   copiado", `kernelmemory.c:853-855`) against the state such a failure leaves; an
   instance with the WORST strategy.

## Not modelled

The memory sticks, the swap module and the IO devices are request loops over an
array, a file and a terminal: their bytes are part of `Memoria`, and the order of
their answers part of `Suspension`.  How a message is laid out, handshakes, the
configuration and the start of each module are pure input and output.
