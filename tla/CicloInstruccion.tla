--------------------------- MODULE CicloInstruccion ---------------------------
(***************************************************************************)
(* The instruction cycle: the CPUs, each with the context of the process it  *)
(* runs, the contexts and the bytes that Kernel Memory keeps, and as much of *)
(* the scheduler as brings a process to a CPU and serves its system calls.  *)
(*                                                                          *)
(* Every request of a CPU to Kernel Memory and every message to the          *)
(* scheduler is a step, so the context a process goes on with may be in its  *)
(* CPU, on its way or in Kernel Memory.  That programs cannot tell is what   *)
(* ImplementaMaquina says, as long as no CPU saves its context too late: the *)
(* scheduler does not wait for the save, and adelantado tells that another   *)
(* CPU or a compaction did not either.  This module does not go on then.    *)
(***************************************************************************)
EXTENDS Instrucciones, FiniteSets, FiniteSetsExt, TLC

CONSTANTS
  Procesos, Inicial,
  TamMemoria,        \* bytes of the memory sticks
  Configuraciones,   \* [programa, cpus, rr]: what may be run
  NADA               \* no process, no system call

ASSUME NadaAssumption == NADA \notin Procesos /\ Inicial \in Procesos
ASSUME MemoriaAssumption == TamMemoria \in Nat

(* What the parameters of an instruction are.                               *)
EsInstruccion(inst) ==
  /\ inst[1] \in {"SET", "JNZ", "MOV_IN", "MOV_OUT", "COPY_MEM"} => inst[2] \in Registros
  /\ inst[1] \in {"SUM", "SUB", "STDOUT", "STDIN"} => {inst[2], inst[3]} \subseteq Registros
  /\ inst[1] \in {"SET", "JNZ", "MEM_ALLOC"} => inst[3] \in Nat
  /\ inst[1] = "MEM_ALLOC" => inst[2] \in Nat
  /\ inst[1] = "INIT_PROC" => inst[2] \in Procesos

ASSUME ConfiguracionesAssumption ==
  \A k \in Configuraciones : \A p \in Procesos :
    LET instrucciones == {k.programa[p][i] : i \in DOMAIN k.programa[p]} IN
    /\ k.programa[p] \in Seq(instrucciones)
    /\ \A inst \in instrucciones : EsInstruccion(inst)

VARIABLES
  programa,  \* the instructions of each process
  cpus,      \* the CPUs that are connected
  rr,        \* whether a quantum may expire
  contexto,  \* proc->contexto, in Kernel Memory
  memoria,   \* the bytes of the sticks
  vivos,     \* g_procesos
  cpu,       \* the local variables of ciclo_instruccion and execute
  enviado,   \* pid on its way to a CPU
  llamada,   \* system call on its way to the handler of a CPU
  listos,    \* the queue of ready
  libres,    \* cola_cpus_libres
  io,        \* the request of a process that waits for an IO
  desalojo,  \* the evictions for a compaction: the CPU whose MEM_ALLOC waits for
             \* it, cpus_con_interrupcion, the confirmations that are missing, and
             \* whether the dispatcher had passed the gate
  adelantado \* whether a context that is in a CPU has been overtaken

configuracion == <<programa, cpus, rr>>
km == <<contexto, memoria, vivos>>
planificador == <<enviado, llamada, listos, libres, io>>
compactacion == <<desalojo, adelantado>>
vars == <<configuracion, km, cpu, planificador, compactacion>>

Pasos == {"espera", "contexto", "fetch", "execute", "copiar", "tick", "guardar", "syscall", "perdida"}
EnCiclo == Pasos \ {"espera", "contexto"}

ContextoVacio == [reg |-> EnCero, tabla |-> <<>>]
Ociosa == [pc |-> "espera", pid |-> NADA, ctx |-> ContextoVacio, inst |-> NADA, dato |-> <<>>]
SinLlamada == [pid |-> NADA, inst |-> NADA, dato |-> <<>>]

Init ==
  /\ \E c \in Configuraciones : programa = c.programa /\ cpus = c.cpus /\ rr = c.rr
  /\ contexto = [p \in Procesos |-> ContextoVacio]
  /\ memoria = [a \in 0 .. TamMemoria - 1 |-> Byte - 1]
  /\ vivos = {Inicial}
  /\ cpu = [c \in cpus |-> Ociosa]
  /\ enviado = [c \in cpus |-> NADA] /\ llamada = [c \in cpus |-> SinLlamada]
  /\ listos = <<Inicial>> /\ libres = cpus
  /\ io = [p \in Procesos |-> SinLlamada]
  /\ desalojo = [pide |-> NADA, marcadas |-> {}, faltan |-> 0, tarde |-> FALSE]
  /\ adelantado = FALSE

-----------------------------------------------------------------------------
(* The MMU.                                                                 *)
SEG_FAULT == -1

Traducir(tabla, dir, tamanio) ==
  LET i == SelectInSeq(tabla, LAMBDA s : s.id = dir \div SEGMENT_MAX_SIZE)
      d == dir % SEGMENT_MAX_SIZE
  IN  IF i = 0 THEN SEG_FAULT
      ELSE IF (d + tamanio) % Palabra > tabla[i].limite THEN SEG_FAULT
      ELSE tabla[i].base + d

Leer(dir, tamanio) == [i \in 1 .. tamanio |-> memoria[dir + i - 1]]
Escribir(dir, bytes) ==
  memoria' = [a \in DOMAIN memoria |->
                IF a - dir + 1 \in DOMAIN bytes THEN bytes[a - dir + 1] ELSE memoria[a]]

-----------------------------------------------------------------------------
(* The CPU c.                                                               *)
En(c, paso) == cpu[c].pc = paso
Con(c, nombres) == En(c, "execute") /\ cpu[c].inst[1] \in nombres
Registro(c, r) == cpu[c].ctx.reg[r]
Fisica(c, acceso) == Traducir(cpu[c].ctx.tabla, acceso[1], acceso[2])
Traduce(c) ==
  \A acceso \in Accesos(cpu[c].ctx.reg, cpu[c].inst) : Fisica(c, acceso) # SEG_FAULT

(* What MOV_IN and COPY_MEM read; Kernel Memory refuses what it does not     *)
(* have, which is where an access goes whose last byte wraps.               *)
Lectura(c) ==
  LET r == cpu[c].inst[2]
  IN  <<Registro(c, "SI"), IF Con(c, {"MOV_IN"}) THEN TamanioRegistro(r) ELSE Registro(c, r)>>
LecturaAceptada(c) ==
  \A i \in 0 .. Lectura(c)[2] - 1 : Fisica(c, Lectura(c)) + i \in DOMAIN memoria
Leido(c) == Leer(Fisica(c, Lectura(c)), Lectura(c)[2])

Sigue(c, paso, reg) == cpu' = [cpu EXCEPT ![c].pc = paso, ![c].ctx.reg = reg]

RecibirPid(c) ==
  /\ En(c, "espera") /\ enviado[c] # NADA
  /\ cpu' = [cpu EXCEPT ![c] = [Ociosa EXCEPT !.pc = "contexto", !.pid = enviado[c]]]
  /\ enviado' = [enviado EXCEPT ![c] = NADA]
  /\ UNCHANGED <<configuracion, km, llamada, listos, libres, io, compactacion>>

(* Another CPU may have evicted this process and not have saved it yet.     *)
PedirContexto(c) ==
  /\ En(c, "contexto")
  /\ cpu' = [cpu EXCEPT ![c].pc = "fetch", ![c].ctx = contexto[cpu[c].pid]]
  /\ adelantado' = \E d \in cpus : En(d, "guardar") /\ cpu[d].pid = cpu[c].pid
  /\ UNCHANGED <<configuracion, km, planificador, desalojo>>

HayInstruccion(p, reg) == reg["PC"] < Len(programa[p])

Fetch(c) ==
  /\ En(c, "fetch") /\ HayInstruccion(cpu[c].pid, cpu[c].ctx.reg)
  /\ cpu' = [cpu EXCEPT ![c].pc = "execute",
                        ![c].inst = programa[cpu[c].pid][Registro(c, "PC") + 1]]
  /\ UNCHANGED <<configuracion, km, planificador, compactacion>>

(* Past the last instruction the CPU leaves the cycle and tells nobody.  It  *)
(* waits for a pid that does not come: for the scheduler its process runs.  *)
FetchFalla(c) ==
  /\ En(c, "fetch") /\ ~HayInstruccion(cpu[c].pid, cpu[c].ctx.reg)
  /\ cpu' = [cpu EXCEPT ![c].pc = "perdida"]
  /\ UNCHANGED <<configuracion, km, planificador, compactacion>>

ExecuteRegistros(c) ==
  /\ Con(c, DeRegistros)
  /\ Sigue(c, "tick", Efecto(cpu[c].ctx.reg, cpu[c].inst))
  /\ UNCHANGED <<configuracion, km, planificador, compactacion>>

MovIn(c) ==
  /\ Con(c, {"MOV_IN"}) /\ Traduce(c) /\ LecturaAceptada(c)
  /\ Sigue(c, "tick", Avanzar(EscribirRegistro(cpu[c].ctx.reg, cpu[c].inst[2], ValorDe(Leido(c)))))
  /\ UNCHANGED <<configuracion, km, planificador, compactacion>>

MovOut(c) ==
  LET bytes == BytesDe(cpu[c].ctx.reg, cpu[c].inst[2]) IN
  /\ Con(c, {"MOV_OUT"}) /\ Traduce(c)
  /\ Escribir(Fisica(c, <<Registro(c, "DI"), Len(bytes)>>), bytes)
  /\ Sigue(c, "tick", Avanzar(cpu[c].ctx.reg))
  /\ UNCHANGED <<configuracion, contexto, vivos, planificador, compactacion>>

(* The bytes of COPY_MEM are in the CPU between its two requests.           *)
CopyMemLeer(c) ==
  /\ Con(c, {"COPY_MEM"}) /\ Traduce(c) /\ LecturaAceptada(c)
  /\ cpu' = [cpu EXCEPT ![c].pc = "copiar", ![c].dato = Leido(c)]
  /\ UNCHANGED <<configuracion, km, planificador, compactacion>>

CopyMemEscribir(c) ==
  /\ En(c, "copiar")
  /\ Escribir(Fisica(c, <<Registro(c, "DI"), Len(cpu[c].dato)>>), cpu[c].dato)
  /\ cpu' = [cpu EXCEPT ![c].pc = "tick", ![c].dato = <<>>, ![c].ctx.reg = Avanzar(@)]
  /\ UNCHANGED <<configuracion, contexto, vivos, planificador, compactacion>>

(* enviar_seg_fault: also for an instruction decode does not know.          *)
SegFault(c) ==
  /\ \/ Con(c, DeMemoria \cup ConDireccion) /\ ~Traduce(c)
     \/ Con(c, {"MOV_IN", "COPY_MEM"}) /\ Traduce(c) /\ ~LecturaAceptada(c)
     \/ Con(c, {"DESCONOCIDA"})
  /\ cpu' = [cpu EXCEPT ![c].pc = "syscall", ![c].inst = <<"EXIT">>, ![c].ctx.reg = Avanzar(@)]
  /\ UNCHANGED <<configuracion, km, planificador, compactacion>>

(* Mutant: the advance is left for the end of execute, which a system call   *)
(* does not reach.                                                          *)
SyscallSinAvanzar(c) ==
  /\ Con(c, DeSistema) \/ (Con(c, ConDireccion) /\ Traduce(c))
  /\ cpu' = [cpu EXCEPT ![c].pc = "syscall"]
  /\ UNCHANGED <<configuracion, km, planificador, compactacion>>

(* A system call; STDOUT and STDIN send the physical address and the size.  *)
Syscall(c) ==
  /\ Con(c, DeSistema) \/ (Con(c, ConDireccion) /\ Traduce(c))
  /\ cpu' = [cpu EXCEPT ![c].pc = "syscall", ![c].ctx.reg = Avanzar(@),
                        ![c].dato = IF Con(c, ConDireccion)
                                    THEN LET t == Registro(c, cpu[c].inst[3])
                                         IN  <<Fisica(c, <<Registro(c, cpu[c].inst[2]), t>>), t>>
                                    ELSE <<>>]
  /\ UNCHANGED <<configuracion, km, planificador, compactacion>>

ActualizarContexto(c) == contexto' = [contexto EXCEPT ![cpu[c].pid] = cpu[c].ctx]

(* The context is saved, and then the message of the system call is sent.   *)
EnviarSyscall(c) ==
  /\ En(c, "syscall") /\ ActualizarContexto(c)
  /\ llamada' = [llamada EXCEPT ![c] = [pid |-> cpu[c].pid, inst |-> cpu[c].inst, dato |-> cpu[c].dato]]
  /\ cpu' = [cpu EXCEPT ![c] = Ociosa]
  /\ UNCHANGED <<configuracion, memoria, vivos, enviado, listos, libres, io, compactacion>>

(* Mutant: the CPU stops without saving the context.                        *)
GuardarSinActualizar(c) ==
  /\ En(c, "guardar")
  /\ cpu' = [cpu EXCEPT ![c] = Ociosa]
  /\ UNCHANGED <<configuracion, km, planificador, compactacion>>

(* After HAY_INTERRUPCION.                                                  *)
Guardar(c) ==
  /\ En(c, "guardar") /\ ActualizarContexto(c)
  /\ cpu' = [cpu EXCEPT ![c] = Ociosa]
  /\ UNCHANGED <<configuracion, memoria, vivos, planificador, compactacion>>

-----------------------------------------------------------------------------
(* The scheduler: the dispatcher and the handler of c.  A compaction closes  *)
(* the gate, which the dispatcher may have passed.                          *)
Despachar(c) ==
  /\ listos # <<>> /\ c \in libres
  /\ desalojo.pide = NADA \/ desalojo.tarde
  /\ enviado' = [enviado EXCEPT ![c] = Head(listos)]
  /\ listos' = Tail(listos) /\ libres' = libres \ {c}
  /\ desalojo' = [desalojo EXCEPT !.tarde = FALSE]
  /\ UNCHANGED <<configuracion, km, cpu, llamada, io, adelantado>>

TickSigue(c) ==
  /\ En(c, "tick") /\ c \notin desalojo.marcadas
  /\ cpu' = [cpu EXCEPT ![c].pc = "fetch"]
  /\ UNCHANGED <<configuracion, km, planificador, compactacion>>

(* The process and the CPU are available, and the compaction has its         *)
(* confirmation, before the CPU has saved.                                  *)
TickDesaloja(c) ==
  /\ rr \/ c \in desalojo.marcadas
  /\ En(c, "tick")
  /\ cpu' = [cpu EXCEPT ![c].pc = "guardar"]
  /\ \/ /\ desalojo.pide = NADA
        /\ listos' = Append(listos, cpu[c].pid)
        /\ desalojo' = [desalojo EXCEPT !.marcadas = @ \ {c}]
     \/ /\ desalojo.pide # NADA
        /\ listos' = <<cpu[c].pid>> \o listos
        /\ desalojo' = [desalojo EXCEPT !.marcadas = @ \ {c}, !.faltan = @ - 1]
  /\ libres' = libres \cup {c}
  /\ UNCHANGED <<configuracion, km, enviado, llamada, io, adelantado>>

Pide(c, nombre) == llamada[c].inst # NADA /\ llamada[c].inst[1] = nombre
Parametro(c, i) == llamada[c].inst[i + 1]
Atendida(c) == llamada' = [llamada EXCEPT ![c] = SinLlamada]

(* Mutant: the process is queued as if it had left its CPU.                 *)
DevolverYEncolar(c) ==
  /\ Atendida(c)
  /\ enviado' = [enviado EXCEPT ![c] = llamada[c].pid]
  /\ listos' = Append(listos, llamada[c].pid)
  /\ UNCHANGED <<configuracion, cpu, libres, io>>

(* The process keeps its CPU.                                               *)
Devolver(c) ==
  /\ Atendida(c)
  /\ enviado' = [enviado EXCEPT ![c] = llamada[c].pid]
  /\ UNCHANGED <<configuracion, cpu, listos, libres, io>>

MutexCreate(c) ==
  /\ Pide(c, "MUTEX_CREATE") /\ Devolver(c)
  /\ UNCHANGED <<km, compactacion>>

(* mutex_socket_km_operaciones: a MEM_ALLOC keeps it while it waits for a    *)
(* compaction.                                                              *)
SocketLibre == desalojo.pide = NADA

Rango(s) == s.base .. s.base + s.limite - 1
Ocupado(tablas) == UNION {UNION {Rango(tablas[p].tabla[i]) : i \in DOMAIN tablas[p].tabla} : p \in Procesos}
Libre(tablas) == DOMAIN memoria \ Ocupado(tablas)

(* The bases of the holes where t bytes fit: either strategy takes one.     *)
Huecos(tablas, t) ==
  {b \in Libre(tablas) : b - 1 \notin Libre(tablas) /\ b .. b + t - 1 \subseteq Libre(tablas)}

ConSegmento(tablas, c, b) ==
  [tablas EXCEPT ![llamada[c].pid].tabla =
     Append(@, [id |-> Parametro(c, 1), base |-> b, limite |-> Parametro(c, 2)])]

MemAllocRechazado(c) ==
  /\ Pide(c, "MEM_ALLOC") /\ SocketLibre /\ Devolver(c)
  /\ \/ Parametro(c, 2) > SEGMENT_MAX_SIZE
     \/ Cardinality(Libre(contexto)) < Parametro(c, 2)
  /\ UNCHANGED <<km, compactacion>>

MemAlloc(c) ==
  /\ Pide(c, "MEM_ALLOC") /\ SocketLibre /\ Devolver(c)
  /\ Parametro(c, 2) <= SEGMENT_MAX_SIZE
  /\ \E b \in Huecos(contexto, Parametro(c, 2)) : contexto' = ConSegmento(contexto, c, b)
  /\ UNCHANGED <<memoria, vivos, compactacion>>

(* Where a compaction takes a byte of a segment.                            *)
NuevaDir(a) == Cardinality({o \in Ocupado(contexto) : o < a})
Compactada(tabla) == [i \in DOMAIN tabla |-> [tabla[i] EXCEPT !.base = NuevaDir(@)]]
Compactados == [p \in Procesos |-> [contexto[p] EXCEPT !.tabla = Compactada(@)]]

BytesCompactados ==
  [a \in DOMAIN memoria |->
     LET o == {b \in Ocupado(contexto) : NuevaDir(b) = a}
     IN  memoria[IF o = {} THEN a ELSE CHOOSE b \in o : TRUE]]

(* The process in d is in lista_exec.                                       *)
EnExec(d) ==
  \/ enviado[d] # NADA \/ cpu[d].pc \notin {"espera", "guardar"}
  \/ Pide(d, "MUTEX_CREATE") \/ Pide(d, "INIT_PROC")

(* There is room, in pieces.  The listener marks the CPUs of lista_exec, one  *)
(* that has sent another call or not according to how far its handler got,   *)
(* and waits for as many confirmations.                                     *)
PedirCompactacion(c) ==
  LET t == Parametro(c, 2) IN
  /\ Pide(c, "MEM_ALLOC") /\ SocketLibre
  /\ t <= SEGMENT_MAX_SIZE /\ Cardinality(Libre(contexto)) >= t /\ Huecos(contexto, t) = {}
  /\ \E llamaron \in SUBSET {d \in cpus \ {c} : llamada[d] # SinLlamada}, tarde \in BOOLEAN :
       LET exec == {d \in cpus : EnExec(d)} \cup llamaron IN
       desalojo' = [pide |-> c, marcadas |-> desalojo.marcadas \cup exec,
                    faltan |-> desalojo.faltan + Cardinality(exec), tarde |-> tarde]
  /\ UNCHANGED <<configuracion, km, cpu, planificador, adelantado>>

(* A CPU may have still to save the context of a process whose segments      *)
(* move, or may run one that was dispatched late.                           *)
MemAllocCompactando(c) ==
  /\ desalojo.pide = c /\ desalojo.faltan <= 0 /\ Pide(c, "MEM_ALLOC") /\ Devolver(c)
  /\ Parametro(c, 2) <= SEGMENT_MAX_SIZE
  /\ memoria' = BytesCompactados
  /\ \E b \in Huecos(Compactados, Parametro(c, 2)) : contexto' = ConSegmento(Compactados, c, b)
  /\ adelantado' = \E d \in cpus : cpu[d].pc \in EnCiclo /\ Compactada(cpu[d].ctx.tabla) # cpu[d].ctx.tabla
  /\ desalojo' = [desalojo EXCEPT !.pide = NADA, !.tarde = FALSE]
  /\ UNCHANGED vivos

SinSegmento(tabla, id) == RemoveFirstMatch(tabla, LAMBDA s : s.id = id)

MemFree(c) ==
  /\ Pide(c, "MEM_FREE") /\ SocketLibre /\ Devolver(c)
  /\ contexto' = [contexto EXCEPT ![llamada[c].pid].tabla = SinSegmento(@, Parametro(c, 1))]
  /\ UNCHANGED <<memoria, vivos, compactacion>>

(* pid_nuevo: nobody has the pid that is given to the new process.          *)
PidNuevo(p) == p \notin vivos

(* Its CPU is given back, and the process goes to ready after the new one.  *)
InitProc(c) ==
  /\ Pide(c, "INIT_PROC") /\ SocketLibre /\ PidNuevo(Parametro(c, 1)) /\ Atendida(c)
  /\ vivos' = vivos \cup {Parametro(c, 1)}
  /\ contexto' = [contexto EXCEPT ![Parametro(c, 1)] = ContextoVacio]
  /\ listos' = listos \o <<Parametro(c, 1), llamada[c].pid>>
  /\ libres' = libres \cup {c}
  /\ UNCHANGED <<configuracion, memoria, cpu, enviado, io, compactacion>>

SyscallIO(c) ==
  /\ \E nombre \in {"SLEEP", "STDOUT", "STDIN"} : Pide(c, nombre)
  /\ Atendida(c)
  /\ io' = [io EXCEPT ![llamada[c].pid] = llamada[c]]
  /\ libres' = libres \cup {c}
  /\ UNCHANGED <<configuracion, km, cpu, enviado, listos, compactacion>>

TerminarIO(p) ==
  /\ io[p] # SinLlamada
  /\ io' = [io EXCEPT ![p] = SinLlamada]
  /\ listos' = Append(listos, p)
  /\ IF io[p].inst[1] = "STDIN"
     THEN SocketLibre /\ \E leido \in [1 .. io[p].dato[2] -> {0, Byte - 1}] : Escribir(io[p].dato[1], leido)
     ELSE UNCHANGED memoria
  /\ UNCHANGED <<configuracion, contexto, vivos, cpu, enviado, llamada, libres, compactacion>>

Exit(c) ==
  /\ Pide(c, "EXIT") /\ SocketLibre /\ Atendida(c)
  /\ vivos' = vivos \ {llamada[c].pid}
  /\ contexto' = [contexto EXCEPT ![llamada[c].pid] = ContextoVacio]
  /\ libres' = libres \cup {c}
  /\ UNCHANGED <<configuracion, memoria, cpu, enviado, listos, io, compactacion>>

-----------------------------------------------------------------------------
Cpu(c) ==
  \/ RecibirPid(c) \/ PedirContexto(c) \/ Fetch(c) \/ FetchFalla(c)
  \/ ExecuteRegistros(c) \/ MovIn(c) \/ MovOut(c) \/ CopyMemLeer(c) \/ CopyMemEscribir(c)
  \/ SegFault(c) \/ Syscall(c) \/ EnviarSyscall(c) \/ Guardar(c)
Manejador(c) ==
  \/ TickSigue(c) \/ TickDesaloja(c) \/ MutexCreate(c)
  \/ MemAllocRechazado(c) \/ MemAlloc(c) \/ PedirCompactacion(c)
  \/ MemAllocCompactando(c) \/ MemFree(c) \/ InitProc(c) \/ SyscallIO(c) \/ Exit(c)

(* A compaction waits for a confirmation that nobody has to give, and every  *)
(* handler that needs the connection waits for it.                          *)
NadieConfirma ==
  /\ desalojo.pide # NADA /\ desalojo.faltan > 0
  /\ desalojo.tarde => listos = <<>> \/ libres = {}
  /\ \A c \in cpus :
       /\ En(c, "espera") \/ En(c, "perdida")
       /\ enviado[c] = NADA
       /\ llamada[c] = SinLlamada \/ llamada[c].inst[1] \in {"MEM_ALLOC", "MEM_FREE", "INIT_PROC", "EXIT"}

Reposo ==
  /\ \/ adelantado \/ NadieConfirma
     \/ /\ listos = <<>>
        /\ \A c \in cpus :
             /\ En(c, "espera") \/ En(c, "perdida")
             /\ enviado[c] = NADA /\ llamada[c] = SinLlamada
        /\ \A p \in Procesos : io[p] = SinLlamada
  /\ UNCHANGED vars

Next ==
  \/ /\ ~adelantado
     /\ \/ \E c \in cpus : Cpu(c) \/ Manejador(c) \/ Despachar(c)
        \/ \E p \in Procesos : TerminarIO(p)
  \/ Reposo

Fairness ==
  /\ \A c \in UNION {k.cpus : k \in Configuraciones} :
       WF_vars(~adelantado /\ c \in cpus /\ (Cpu(c) \/ Manejador(c)))
  /\ WF_vars(~adelantado /\ \E c \in cpus : Despachar(c))
  /\ \A p \in Procesos : WF_vars(~adelantado /\ TerminarIO(p))

Spec == Init /\ [][Next]_vars /\ Fairness

-----------------------------------------------------------------------------
(* The context a process goes on with is the one of the CPU that has loaded  *)
(* it, or else the one in Kernel Memory.                                    *)
Cargado(c, p) == cpu[c].pid = p /\ cpu[c].pc \in EnCiclo
Vigente(p) ==
  IF \E c \in cpus : Cargado(c, p) THEN cpu[CHOOSE c \in cpus : Cargado(c, p)].ctx ELSE contexto[p]

Segmentos(p) ==
  LET tabla == contexto[p].tabla
      Con1(id) == tabla[SelectInSeq(tabla, LAMBDA s : s.id = id)]
  IN  [id \in {tabla[i].id : i \in DOMAIN tabla} |-> Leer(Con1(id).base, Con1(id).limite)]

Pedido(p) ==
  IF \E c \in cpus : Cargado(c, p) /\ En(c, "syscall")
  THEN cpu[CHOOSE c \in cpus : Cargado(c, p) /\ En(c, "syscall")].inst
  ELSE IF \E c \in cpus : llamada[c].pid = p THEN llamada[CHOOSE c \in cpus : llamada[c].pid = p].inst
  ELSE io[p].inst

M == INSTANCE Maquina WITH
  reg <- [p \in Procesos |-> Vigente(p).reg],
  segmentos <- [p \in Procesos |-> Segmentos(p)],
  pedido <- [p \in Procesos |-> Pedido(p)]

-----------------------------------------------------------------------------
EsContexto(x) ==
  /\ \A r \in Registros : x.reg[r] \in ValoresDe(r)
  /\ \A i \in DOMAIN x.tabla : x.tabla[i].limite \in 0 .. SEGMENT_MAX_SIZE /\ Rango(x.tabla[i]) \subseteq DOMAIN memoria

(* Every register keeps its width and every segment of a context lies in the *)
(* memory: registros.c and ciclo.c truncate what they write, and a           *)
(* translated address is one Kernel Memory has.                             *)
TypeOK ==
  /\ memoria \in [0 .. TamMemoria - 1 -> Bytes]
  /\ vivos \subseteq Procesos /\ libres \subseteq cpus /\ listos \in Seq(Procesos)
  /\ enviado \in [cpus -> Procesos \cup {NADA}]
  /\ \A p \in Procesos : EsContexto(contexto[p])
  /\ \A c \in cpus : cpu[c].pc \in Pasos /\ EsContexto(cpu[c].ctx)

(* A process is loaded in one CPU at a time, and that CPU has the segment    *)
(* table that Kernel Memory has: the one it writes back when it stops        *)
(* (actualizar_contexto) undoes nothing that was allocated, freed or moved   *)
(* meanwhile, unless another CPU loaded the process or a compaction moved it *)
(* while its context was on the way.                                        *)
CopiaAlDia ==
  ~adelantado =>
    \A c \in cpus, p \in Procesos :
      Cargado(c, p) => /\ cpu[c].ctx.tabla = contexto[p].tabla
                       /\ \A d \in cpus \ {c} : ~Cargado(d, p)

(* A program runs as if it were alone: whatever evicts it, whichever CPU it  *)
(* goes on in, and although its segments move, its registers and its         *)
(* segments are those of the machine of Maquina, instruction by instruction, *)
(* until a context is overtaken.                                            *)
ImplementaMaquina == M!Init /\ [][~adelantado' => M!Next]_(M!vars)

(* Every process ends, or goes past the last instruction of its program,    *)
(* unless a compaction hangs (planificador.c:248) or a context is overtaken. *)
Terminan ==
  <>[](\/ \A p \in vivos : ~HayInstruccion(p, Vigente(p).reg)
       \/ adelantado \/ NadieConfirma)
=============================================================================
