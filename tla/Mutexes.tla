------------------------------- MODULE Mutexes -------------------------------
(***************************************************************************)
(* The mutex manager of the kernel scheduler (mutex_manager.c): MUTEX_CREATE,*)
(* MUTEX_LOCK and MUTEX_UNLOCK, priority inheritance, the release of what a  *)
(* process still owns when it ends, and the ready queues and the dispatcher  *)
(* they act on.                                                             *)
(*                                                                          *)
(* One action is one critical section of the thread that serves a CPU, or    *)
(* of the dispatcher.  Between two of them the threads interleave: after     *)
(* mutex_interno of one mutex is released, and between the reads of estado   *)
(* and the sections of mutex_ready.  Planificacion has the rest of the       *)
(* dispatcher (gate, exec, quantum) and Suspension the blocks of an IO.      *)
(***************************************************************************)
EXTENDS Integers, Sequences, SequencesExt, FiniteSets, FiniteSetsExt

CONSTANTS
  Procesos,
  CPUs,
  Nombres,            \* names of mutexes
  prioridad_original, \* priority each process was created with
  CantPrioridades,
  EsCMN,              \* the algorithm is CMN: one queue for each priority
  Programas,          \* the programs the processes may have, together
  Creados,            \* the mutexes that exist when the processes start
  NADIE               \* no process, no mutex

Prioridades == 0 .. CantPrioridades - 1
Operaciones == {"CREATE", "LOCK", "UNLOCK", "NOOP", "SLEEP", "EXIT"}

(* agregar_a_ready takes a process of any other priority nowhere: that is in *)
(* Planificacion.                                                           *)
ASSUME PrioridadOriginalAssumption == prioridad_original \in [Procesos -> Prioridades]
ASSUME CantPrioridadesAssumption == CantPrioridades \in Nat \ {0}
ASSUME NadieAssumption == NADIE \notin Procesos \cup Nombres
ASSUME CreadosAssumption == Creados \subseteq Nombres
ASSUME FinitosAssumption == IsFiniteSet(Procesos) /\ IsFiniteSet(Nombres)
(* A process ends with its EXIT, after which nothing of it would run, and      *)
(* between two LOCKs of a mutex unlocks it.                                 *)
ASSUME ProgramasAssumption ==
  \A f \in Programas : \A p \in Procesos :
    /\ f[p] \in Seq((Operaciones \X Nombres) \cup ({"NOOP", "SLEEP", "EXIT"} \X {NADIE}))
    /\ f[p] # <<>> /\ \A i \in DOMAIN f[p] : f[p][i][1] = "EXIT" <=> i = Len(f[p])
    /\ \A i, j \in DOMAIN f[p] :
         i < j /\ f[p][i] = f[p][j] /\ f[p][i][1] = "LOCK"
           => \E k \in i .. j : f[p][k] = <<"UNLOCK", f[p][i][2]>>

VARIABLES
  programa,     \* the program of each process
  pos,          \* the next instruction of each process
  prioridad, estado,
  creados,      \* lista_mutexes: a second mutex of one name is never found
  duenio, bloqueados,
  ready,        \* colas_ready
  tokens,       \* sem_procesos_en_ready
  despachador,  \* hilo_dispatcher: where it is, and its process
  hilo,         \* the thread that serves each CPU: where it is, and its variables
  enIO,         \* processes with an IO in course
  enBlock,      \* entries of each process in lista_block by MUTEX_LOCK
  enSuspBlock,  \* ... and in listas_susp_block
  timers,       \* hilo_suspension threads those blocks started, still asleep
  terminados    \* processes whose PCB has been destroyed

proceso == <<programa, pos>>
pcb == <<prioridad, estado>>
mutexes == <<creados, duenio, bloqueados>>
colas == <<ready, tokens>>
bloqueos == <<enBlock, enSuspBlock, timers>>
vars == <<proceso, pcb, mutexes, colas, despachador, hilo, enIO, bloqueos, terminados>>

Libre == [pc |-> "libre", proceso |-> NADIE, mutex |-> NADIE, duenio_anterior |-> NADIE,
          siguiente |-> NADIE, correcta |-> 0, liberar |-> <<>>]

(* nivel_de                                                                 *)
NivelInicial(p) == IF EsCMN THEN prioridad_original[p] ELSE 0
Nivel(p) == IF EsCMN THEN prioridad[p] ELSE 0
EnReady(p) == \E n \in Prioridades : Contains(ready[n], p)

AgregarAReady(p) ==
  /\ ready' = [ready EXCEPT ![Nivel(p)] = Append(@, p)]
  /\ tokens' = tokens + 1

(* mutex_interno of m, which a lock keeps while it moves the owner in ready. *)
MutexInternoLibre(m) ==
  \A c \in CPUs : hilo[c].pc \in {"sacar", "poner"} => hilo[c].mutex # m

(* The process of CPU c executes an instruction op.                         *)
Ejecuta(c, op) ==
  LET p == hilo[c].proceso IN
  /\ hilo[c].pc = "corre"
  /\ pos[p] \in DOMAIN programa[p] /\ programa[p][pos[p]][1] = op
  /\ pos' = [pos EXCEPT ![p] = @ + 1]
  /\ UNCHANGED programa
Operando(c) == programa[hilo[c].proceso][pos[hilo[c].proceso]][2]

-----------------------------------------------------------------------------
Init ==
  /\ programa \in Programas
  /\ pos = [p \in Procesos |-> 1]
  /\ prioridad = prioridad_original
  /\ estado = [p \in Procesos |-> "READY"]
  /\ creados = Creados
  /\ duenio = [m \in Nombres |-> NADIE] /\ bloqueados = [m \in Nombres |-> <<>>]
  /\ LET delNivel(n) == {p \in Procesos : NivelInicial(p) = n} IN
       ready \in {f \in [Prioridades -> UNION {SetToSeqs(delNivel(n)) : n \in Prioridades}] :
                   \A n \in Prioridades : f[n] \in SetToSeqs(delNivel(n))}
  /\ tokens = Cardinality(Procesos)
  /\ despachador = [pc |-> "esperar", proceso |-> NADIE]
  /\ hilo = [c \in CPUs |-> Libre]
  /\ enIO = {} /\ terminados = {}
  /\ enBlock = [p \in Procesos |-> 0] /\ enSuspBlock = [p \in Procesos |-> 0]
  /\ timers = [p \in Procesos |-> 0]

-----------------------------------------------------------------------------
(* hilo_dispatcher: obtener_siguiente_proceso waits for a token,            *)
EsperarToken ==
  /\ despachador.pc = "esperar" /\ tokens > 0
  /\ tokens' = tokens - 1
  /\ despachador' = [despachador EXCEPT !.pc = "sacar"]
  /\ UNCHANGED <<proceso, pcb, mutexes, ready, hilo, enIO, bloqueos, terminados>>

(* ... and takes the first process of the best queue that has one.  It finds *)
(* none while a lock has it in its hands: the dispatcher goes on with a null *)
(* process, and ends there.                                                 *)
SacarSiguiente ==
  /\ despachador.pc = "sacar"
  /\ LET conGente == {n \in Prioridades : ready[n] # <<>>} IN
     IF conGente = {}
     THEN /\ despachador' = [despachador EXCEPT !.pc = "nulo"]
          /\ UNCHANGED ready
     ELSE LET n == Min(conGente) IN
          /\ despachador' = [pc |-> "ejecutar", proceso |-> Head(ready[n])]
          /\ ready' = [ready EXCEPT ![n] = Tail(@)]
  /\ UNCHANGED <<proceso, pcb, mutexes, tokens, hilo, enIO, bloqueos, terminados>>

(* A free CPU gets it.                                                      *)
EjecutarEn(c) ==
  LET p == despachador.proceso IN
  /\ despachador.pc = "ejecutar" /\ hilo[c].pc = "libre"
  /\ estado' = [estado EXCEPT ![p] = "EXEC"]
  /\ hilo' = [hilo EXCEPT ![c].pc = "corre", ![c].proceso = p]
  /\ despachador' = [pc |-> "esperar", proceso |-> NADIE]
  /\ UNCHANGED <<proceso, prioridad, mutexes, colas, enIO, bloqueos, terminados>>

-----------------------------------------------------------------------------
(* Instructions that use no mutex: the process goes on, is evicted at the    *)
(* tick (by its quantum or by a better priority), or waits for an IO.        *)
NoopSigue(c) ==
  /\ Ejecuta(c, "NOOP")
  /\ UNCHANGED <<pcb, mutexes, colas, despachador, hilo, enIO, bloqueos, terminados>>

NoopDesaloja(c) ==
  LET p == hilo[c].proceso IN
  /\ Ejecuta(c, "NOOP")
  /\ estado' = [estado EXCEPT ![p] = "READY"]
  /\ AgregarAReady(p)
  /\ hilo' = [hilo EXCEPT ![c] = Libre]
  /\ UNCHANGED <<prioridad, mutexes, despachador, enIO, bloqueos, terminados>>

Sleep(c) ==
  LET p == hilo[c].proceso IN
  /\ Ejecuta(c, "SLEEP")
  /\ estado' = [estado EXCEPT ![p] = "BLOCK"]
  /\ enIO' = enIO \cup {p}
  /\ hilo' = [hilo EXCEPT ![c] = Libre]
  /\ UNCHANGED <<prioridad, mutexes, colas, despachador, bloqueos, terminados>>

TerminarIO(p) ==
  /\ p \in enIO
  /\ enIO' = enIO \ {p}
  /\ estado' = [estado EXCEPT ![p] = "READY"]
  /\ AgregarAReady(p)
  /\ UNCHANGED <<proceso, prioridad, mutexes, despachador, hilo, bloqueos, terminados>>

-----------------------------------------------------------------------------
(* MUTEX_CREATE: a name that exists is ignored.                             *)
CrearMutex(c) ==
  /\ Ejecuta(c, "CREATE")
  /\ creados' = creados \cup {Operando(c)}
  /\ UNCHANGED <<pcb, duenio, bloqueados, colas, despachador, hilo, enIO, bloqueos, terminados>>

(* MUTEX_LOCK of a mutex that does not exist: the CPU is given back, and the *)
(* process is in no list from which it could go on.                         *)
LockInexistente(c) ==
  /\ Ejecuta(c, "LOCK") /\ Operando(c) \notin creados
  /\ hilo' = [hilo EXCEPT ![c] = Libre]
  /\ UNCHANGED <<pcb, mutexes, colas, despachador, enIO, bloqueos, terminados>>

LockLibre(c) ==
  LET m == Operando(c) IN
  /\ Ejecuta(c, "LOCK") /\ m \in creados /\ MutexInternoLibre(m)
  /\ duenio[m] = NADIE
  /\ duenio' = [duenio EXCEPT ![m] = hilo[c].proceso]
  /\ UNCHANGED <<pcb, creados, bloqueados, colas, despachador, hilo, enIO, bloqueos, terminados>>

(* Mutant: an owner that is READY is left in the queue it is in.            *)
LockOcupadoSinReubicar(c) ==
  LET p == hilo[c].proceso
      m == Operando(c)
      d == duenio[m]
  IN
  /\ Ejecuta(c, "LOCK") /\ m \in creados /\ MutexInternoLibre(m)
  /\ d # NADIE
  /\ bloqueados' = [bloqueados EXCEPT ![m] = Append(@, p)]
  /\ prioridad' = [prioridad EXCEPT ![d] = Min({@, prioridad[p]})]
  /\ hilo' = [hilo EXCEPT ![c].mutex = m, ![c].pc = "bloquear"]
  /\ UNCHANGED <<estado, creados, duenio, colas, despachador, enIO, bloqueos, terminados>>

(* Busy: the process waits, and the owner inherits its priority.            *)
LockOcupado(c) ==
  LET p == hilo[c].proceso
      m == Operando(c)
      d == duenio[m]
      sube == prioridad[p] < prioridad[d]
  IN
  /\ Ejecuta(c, "LOCK") /\ m \in creados /\ MutexInternoLibre(m)
  /\ d # NADIE
  /\ bloqueados' = [bloqueados EXCEPT ![m] = Append(@, p)]
  /\ prioridad' = IF sube THEN [prioridad EXCEPT ![d] = prioridad[p]] ELSE prioridad
  /\ hilo' = [hilo EXCEPT ![c].mutex = m,
                          ![c].pc = IF sube /\ estado[d] = "READY" THEN "sacar" ELSE "bloquear"]
  /\ UNCHANGED <<estado, creados, duenio, colas, despachador, enIO, bloqueos, terminados>>

(* An owner that is READY leaves its queue (quitar_de_ready_por_pid), if it  *)
(* is in one,                                                               *)
SacarDuenio(c) ==
  LET d == duenio[hilo[c].mutex] IN
  /\ hilo[c].pc = "sacar"
  /\ ready' = [n \in Prioridades |-> RemoveFirst(ready[n], d)]
  /\ hilo' = [hilo EXCEPT ![c].pc = IF EnReady(d) THEN "poner" ELSE "bloquear"]
  /\ UNCHANGED <<proceso, pcb, mutexes, tokens, despachador, enIO, bloqueos, terminados>>

(* Mutant: it is put back with a token more.                                *)
PonerDuenioConPost(c) ==
  LET d == duenio[hilo[c].mutex] IN
  /\ hilo[c].pc = "poner"
  /\ ready' = [ready EXCEPT ![Nivel(d)] = <<d>> \o @]
  /\ tokens' = tokens + 1
  /\ hilo' = [hilo EXCEPT ![c].pc = "bloquear"]
  /\ UNCHANGED <<proceso, pcb, mutexes, despachador, enIO, bloqueos, terminados>>

(* ... and is put at the head of its new one (reinsertar_al_principio_de_    *)
(* ready), with the token it had.                                           *)
PonerDuenio(c) ==
  LET d == duenio[hilo[c].mutex] IN
  /\ hilo[c].pc = "poner"
  /\ ready' = [ready EXCEPT ![Nivel(d)] = <<d>> \o @]
  /\ hilo' = [hilo EXCEPT ![c].pc = "bloquear"]
  /\ UNCHANGED <<proceso, pcb, mutexes, tokens, despachador, enIO, bloqueos, terminados>>

(* The locker leaves exec and enters BLOCK, where its suspension thread      *)
(* starts, and the CPU is free.  The mutex has been released before.        *)
Bloquear(c) ==
  LET p == hilo[c].proceso IN
  /\ hilo[c].pc = "bloquear"
  /\ estado' = [estado EXCEPT ![p] = "BLOCK"]
  /\ enBlock' = [enBlock EXCEPT ![p] = @ + 1]
  /\ timers' = [timers EXCEPT ![p] = @ + 1]
  /\ hilo' = [hilo EXCEPT ![c] = Libre]
  /\ UNCHANGED <<proceso, prioridad, mutexes, colas, despachador, enIO, enSuspBlock, terminados>>

-----------------------------------------------------------------------------
(* MUTEX_UNLOCK has one mutex to unlock,                                    *)
Unlock(c) ==
  /\ Ejecuta(c, "UNLOCK")
  /\ hilo' = [hilo EXCEPT ![c].pc = "soltar", ![c].liberar = <<Operando(c)>>]
  /\ UNCHANGED <<pcb, mutexes, colas, despachador, enIO, bloqueos, terminados>>

(* Mutant: a process that ends keeps its mutexes.                           *)
ExitSinLiberar(c) ==
  /\ Ejecuta(c, "EXIT") /\ \A m \in Nombres : MutexInternoLibre(m)
  /\ estado' = [estado EXCEPT ![hilo[c].proceso] = "EXIT"]
  /\ hilo' = [hilo EXCEPT ![c].pc = "soltar"]
  /\ UNCHANGED <<prioridad, mutexes, colas, despachador, enIO, bloqueos, terminados>>

(* ... and EXIT the ones liberar_mutexes_de_proceso finds the process owns.  *)
Exit(c) ==
  LET p == hilo[c].proceso IN
  /\ Ejecuta(c, "EXIT") /\ \A m \in Nombres : MutexInternoLibre(m)
  /\ estado' = [estado EXCEPT ![p] = "EXIT"]
  /\ \E nombres \in SetToSeqs({m \in Nombres : duenio[m] = p}) :
       hilo' = [hilo EXCEPT ![c].pc = "soltar", ![c].liberar = nombres]
  /\ UNCHANGED <<prioridad, mutexes, colas, despachador, enIO, bloqueos, terminados>>

(* mutex_unlock of a mutex that does not exist or has no owner.             *)
SoltarNada(c) ==
  LET m == Head(hilo[c].liberar) IN
  /\ hilo[c].pc = "soltar" /\ hilo[c].liberar # <<>>
  /\ m \notin creados \/ (MutexInternoLibre(m) /\ duenio[m] = NADIE)
  /\ hilo' = [hilo EXCEPT ![c].liberar = Tail(@)]
  /\ UNCHANGED <<proceso, pcb, mutexes, colas, despachador, enIO, bloqueos, terminados>>

(* Mutants of SoltarMutex: the new owner stays among the ones that wait, or  *)
(* inherits from nobody.                                                    *)
SoltarMutexSinQuitar(c) ==
  LET m == Head(hilo[c].liberar) IN
  /\ hilo[c].pc = "soltar" /\ hilo[c].liberar # <<>>
  /\ m \in creados /\ MutexInternoLibre(m) /\ duenio[m] # NADIE
  /\ bloqueados[m] # <<>>
  /\ duenio' = [duenio EXCEPT ![m] = Head(bloqueados[m])]
  /\ hilo' = [hilo EXCEPT ![c].pc = "despertar", ![c].duenio_anterior = duenio[m],
                          ![c].siguiente = Head(bloqueados[m]), ![c].liberar = Tail(@)]
  /\ UNCHANGED <<proceso, pcb, bloqueados, creados, colas, despachador, enIO, bloqueos,
                 terminados>>
SoltarMutexSinHeredar(c) ==
  LET m == Head(hilo[c].liberar) IN
  /\ hilo[c].pc = "soltar" /\ hilo[c].liberar # <<>>
  /\ m \in creados /\ MutexInternoLibre(m) /\ duenio[m] # NADIE
  /\ bloqueados[m] # <<>>
  /\ duenio' = [duenio EXCEPT ![m] = Head(bloqueados[m])]
  /\ bloqueados' = [bloqueados EXCEPT ![m] = Tail(@)]
  /\ hilo' = [hilo EXCEPT ![c].pc = "despertar", ![c].duenio_anterior = duenio[m],
                          ![c].siguiente = Head(bloqueados[m]), ![c].liberar = Tail(@)]
  /\ UNCHANGED <<proceso, pcb, creados, colas, despachador, enIO, bloqueos, terminados>>

(* Of any other, whoever its owner is: the first that waits is the new one,  *)
(* and inherits the best priority of those left.                            *)
SoltarMutex(c) ==
  LET m == Head(hilo[c].liberar)
      resto == Tail(bloqueados[m])
  IN
  /\ hilo[c].pc = "soltar" /\ hilo[c].liberar # <<>>
  /\ m \in creados /\ MutexInternoLibre(m) /\ duenio[m] # NADIE
  /\ IF bloqueados[m] = <<>>
     THEN /\ duenio' = [duenio EXCEPT ![m] = NADIE]
          /\ hilo' = [hilo EXCEPT ![c].pc = "calcular", ![c].duenio_anterior = duenio[m],
                                  ![c].liberar = Tail(@)]
          /\ UNCHANGED <<prioridad, bloqueados>>
     ELSE LET s == Head(bloqueados[m]) IN
          /\ duenio' = [duenio EXCEPT ![m] = s]
          /\ bloqueados' = [bloqueados EXCEPT ![m] = resto]
          /\ prioridad' = [prioridad EXCEPT
                             ![s] = Min({@} \cup {prioridad[e] : e \in Range(resto)})]
          /\ hilo' = [hilo EXCEPT ![c].pc = "despertar", ![c].duenio_anterior = duenio[m],
                                  ![c].siguiente = s, ![c].liberar = Tail(@)]
  /\ UNCHANGED <<proceso, estado, creados, colas, despachador, enIO, bloqueos, terminados>>

(* Mutant: it goes there, and the dispatcher is not told.                   *)
DespertarSinPost(c) ==
  LET s == hilo[c].siguiente IN
  /\ hilo[c].pc = "despertar"
  /\ estado' = [estado EXCEPT ![s] = "READY"]
  /\ ready' = [ready EXCEPT ![Nivel(s)] = Append(@, s)]
  /\ hilo' = [hilo EXCEPT ![c].pc = "calcular", ![c].siguiente = NADIE]
  /\ UNCHANGED <<proceso, prioridad, mutexes, tokens, despachador, enIO, bloqueos, terminados>>

(* The new owner goes to READY; its entry stays in lista_block.             *)
Despertar(c) ==
  LET s == hilo[c].siguiente IN
  /\ hilo[c].pc = "despertar"
  /\ estado' = [estado EXCEPT ![s] = "READY"]
  /\ AgregarAReady(s)
  /\ hilo' = [hilo EXCEPT ![c].pc = "calcular", ![c].siguiente = NADIE]
  /\ UNCHANGED <<proceso, prioridad, mutexes, despachador, enIO, bloqueos, terminados>>

(* Mutant: the search for the best starts at the priority it has now.       *)
PrioridadNecesariaActual(d) ==
  LET esperan == UNION {Range(bloqueados[m]) : m \in {n \in Nombres : duenio[n] = d}}
  IN  Min({prioridad[d]} \cup {prioridad[e] : e \in esperan})

(* calcular_prioridad_necesaria of the former owner: the best of its own and *)
(* of whoever waits for a mutex it still owns.                              *)
PrioridadNecesaria(d) ==
  LET esperan == UNION {Range(bloqueados[m]) : m \in {n \in Nombres : duenio[n] = d}}
  IN  Min({prioridad_original[d]} \cup {prioridad[e] : e \in esperan})

CalcularPrioridad(c) ==
  /\ hilo[c].pc = "calcular" /\ \A m \in Nombres : MutexInternoLibre(m)
  /\ hilo' = [hilo EXCEPT ![c].pc = "asignar",
                          ![c].correcta = PrioridadNecesaria(hilo[c].duenio_anterior)]
  /\ UNCHANGED <<proceso, pcb, mutexes, colas, despachador, enIO, bloqueos, terminados>>

(* Mutant: it is assigned one level below.                                  *)
AsignarPrioridadDeMas(c) ==
  /\ hilo[c].pc = "asignar"
  /\ prioridad' = [prioridad EXCEPT ![hilo[c].duenio_anterior] = hilo[c].correcta + 1]
  /\ hilo' = [hilo EXCEPT ![c].pc = "soltar", ![c].duenio_anterior = NADIE, ![c].correcta = 0]
  /\ UNCHANGED <<proceso, estado, mutexes, colas, despachador, enIO, bloqueos, terminados>>

(* It is assigned later, when no mutex is held.                             *)
AsignarPrioridad(c) ==
  /\ hilo[c].pc = "asignar"
  /\ prioridad' = [prioridad EXCEPT ![hilo[c].duenio_anterior] = hilo[c].correcta]
  /\ hilo' = [hilo EXCEPT ![c].pc = "soltar", ![c].duenio_anterior = NADIE, ![c].correcta = 0]
  /\ UNCHANGED <<proceso, estado, mutexes, colas, despachador, enIO, bloqueos, terminados>>

(* With nothing left to unlock, the process of an UNLOCK goes to READY, the  *)
(* one of an EXIT is destroyed, and the CPU is free.                        *)
SaleElProceso(c) == pos[hilo[c].proceso] > Len(programa[hilo[c].proceso])

Devolver(c) ==
  LET p == hilo[c].proceso IN
  /\ hilo[c].pc = "soltar" /\ hilo[c].liberar = <<>> /\ ~SaleElProceso(c)
  /\ estado' = [estado EXCEPT ![p] = "READY"]
  /\ AgregarAReady(p)
  /\ hilo' = [hilo EXCEPT ![c] = Libre]
  /\ UNCHANGED <<proceso, prioridad, mutexes, despachador, enIO, bloqueos, terminados>>

DestruirPcb(c) ==
  /\ hilo[c].pc = "soltar" /\ hilo[c].liberar = <<>> /\ SaleElProceso(c)
  /\ terminados' = terminados \cup {hilo[c].proceso}
  /\ hilo' = [hilo EXCEPT ![c] = Libre]
  /\ UNCHANGED <<proceso, pcb, mutexes, colas, despachador, enIO, bloqueos>>

-----------------------------------------------------------------------------
(* hilo_suspension of a block of p by a lock: no unlock has taken the entry  *)
(* out of lista_block, even if p has gone on since then.                    *)
Suspender(p) ==
  /\ timers[p] > 0 /\ enBlock[p] > 0 /\ p \notin terminados
  /\ timers' = [timers EXCEPT ![p] = @ - 1]
  /\ enBlock' = [enBlock EXCEPT ![p] = @ - 1]
  /\ enSuspBlock' = [enSuspBlock EXCEPT ![p] = @ + 1]
  /\ estado' = [estado EXCEPT ![p] = "SUSP_BLOCK"]
  /\ UNCHANGED <<proceso, prioridad, mutexes, colas, despachador, hilo, enIO, terminados>>

(* intentar_reanudar_proceso, when there is memory: it goes to BLOCK.       *)
Reanudar(p) ==
  /\ enSuspBlock[p] > 0 /\ p \notin terminados
  /\ enSuspBlock' = [enSuspBlock EXCEPT ![p] = @ - 1]
  /\ enBlock' = [enBlock EXCEPT ![p] = @ + 1]
  /\ estado' = [estado EXCEPT ![p] = "BLOCK"]
  /\ UNCHANGED <<proceso, prioridad, mutexes, colas, despachador, hilo, enIO, timers, terminados>>

-----------------------------------------------------------------------------
Cpu(c) ==
  \/ NoopSigue(c) \/ NoopDesaloja(c) \/ Sleep(c) \/ CrearMutex(c)
  \/ LockInexistente(c) \/ LockLibre(c) \/ LockOcupado(c) \/ Unlock(c) \/ Exit(c)
Manejador(c) ==
  \/ SacarDuenio(c) \/ PonerDuenio(c) \/ Bloquear(c)
  \/ SoltarNada(c) \/ SoltarMutex(c) \/ Despertar(c)
  \/ CalcularPrioridad(c) \/ AsignarPrioridad(c) \/ Devolver(c) \/ DestruirPcb(c)
Despachador == EsperarToken \/ SacarSiguiente \/ \E c \in CPUs : EjecutarEn(c)

Next ==
  \/ Despachador
  \/ \E c \in CPUs : Cpu(c) \/ Manejador(c)
  \/ \E p \in Procesos : TerminarIO(p) \/ Suspender(p) \/ Reanudar(p)

(* Every thread goes on and every IO ends.                                  *)
Fairness ==
  /\ WF_vars(Despachador)
  /\ \A c \in CPUs : WF_vars(Cpu(c) \/ Manejador(c))
  /\ \A p \in Procesos : WF_vars(TerminarIO(p))

Spec == Init /\ [][Next]_vars /\ Fairness

-----------------------------------------------------------------------------
(* Every variable has its type.                                             *)
TipoHilo ==
  [pc : {"libre", "corre", "sacar", "poner", "bloquear", "soltar", "despertar",
         "calcular", "asignar"},
   proceso : Procesos \cup {NADIE}, mutex : Nombres \cup {NADIE},
   duenio_anterior : Procesos \cup {NADIE}, siguiente : Procesos \cup {NADIE},
   correcta : Prioridades, liberar : Seq(Nombres)]
TypeOK ==
  /\ programa \in Programas
  /\ pos \in [Procesos -> Nat \ {0}]
  /\ prioridad \in [Procesos -> Prioridades]
  /\ estado \in [Procesos -> {"READY", "EXEC", "BLOCK", "SUSP_BLOCK", "EXIT"}]
  /\ creados \in SUBSET Nombres
  /\ duenio \in [Nombres -> Procesos \cup {NADIE}]
  /\ bloqueados \in [Nombres -> Seq(Procesos)]
  /\ ready \in [Prioridades -> Seq(Procesos)] /\ tokens \in Nat
  /\ despachador \in [pc : {"esperar", "sacar", "ejecutar", "nulo"},
                      proceso : Procesos \cup {NADIE}]
  /\ hilo \in [CPUs -> TipoHilo]
  /\ enIO \in SUBSET Procesos /\ terminados \in SUBSET Procesos
  /\ enBlock \in [Procesos -> Nat] /\ enSuspBlock \in [Procesos -> Nat]
  /\ timers \in [Procesos -> Nat]

(* Where a process waits for a mutex, may be chosen to run, or runs.         *)
Sitios ==
  ({"espera"} \X Nombres) \cup ({"ready"} \X Prioridades) \cup ({"cpu"} \X CPUs)
    \cup {<<"dispatcher", 0>>, <<"io", 0>>}
EnManos(p, c) ==
  \/ hilo[c].pc \in {"corre", "soltar", "despertar", "calcular", "asignar"} /\ hilo[c].proceso = p
  \/ hilo[c].pc = "despertar" /\ hilo[c].siguiente = p
  \/ hilo[c].pc = "poner" /\ duenio[hilo[c].mutex] = p
Esta(p, s) ==
  CASE s[1] = "espera" -> Contains(bloqueados[s[2]], p)
    [] s[1] = "ready" -> Contains(ready[s[2]], p)
    [] s[1] = "cpu" -> EnManos(p, s[2])
    [] s[1] = "dispatcher" -> despachador.proceso = p
    [] s[1] = "io" -> p \in enIO

(* The lock publishes the process among the waiters before its CPU lets it  *)
(* go, an unlock by another CPU hands it the mutex meanwhile, and a lock     *)
(* moves an owner in ready that the dispatcher is taking: a process is never *)
(* in two places from which it would run twice or be woken up twice.        *)
EnUnSoloLugar ==
  /\ \A m \in Nombres : IsInjective(bloqueados[m])
  /\ \A n \in Prioridades : IsInjective(ready[n])
  /\ \A p \in Procesos : \A s, t \in Sitios : Esta(p, s) /\ Esta(p, t) => s = t

(* "Sin sem_post: el proceso ya tiene su token": there are as many tokens as *)
(* processes in ready and on the way between two queues; one is short only   *)
(* if the dispatcher used it when its process was on the way.               *)
TokensAlDia ==
  tokens + (IF despachador.pc \in {"sacar", "nulo"} THEN 1 ELSE 0) =
    FoldSet(LAMBDA k, n : n + Len(ready[k]), 0, Prioridades)
      + Cardinality({c \in CPUs : hilo[c].pc = "poner"})

(* Whoever waits has an owner to wait for, which is alive, is not itself, and *)
(* is a process that did a LOCK: a mutex does not stay with one that ended.  *)
DuenioVivo ==
  \A m \in Nombres :
    /\ duenio[m] = NADIE => bloqueados[m] = <<>>
    /\ duenio[m] \notin terminados
    /\ ~Contains(bloqueados[m], duenio[m])

(* A program that asks for a mutex while it has another.                    *)
Anida(p) ==
  \E i, j \in DOMAIN programa[p] :
    /\ i < j /\ programa[p][i][1] = "LOCK" /\ programa[p][j][1] = "LOCK"
    /\ \A k \in i .. j : programa[p][k] # <<"UNLOCK", programa[p][i][2]>>

(* mutex_unlock does not ask who unlocks: a process can take the mutex of     *)
(* another, and change its priority while it is in a ready queue.  In these   *)
(* programs one unlocks what it has locked, or what no other process locks.  *)
CadaUnoLoSuyo ==
  \A f \in Programas : \A p \in Procesos : \A j \in DOMAIN f[p] : f[p][j][1] = "UNLOCK" =>
    LET m == f[p][j][2] IN
    \/ \E i \in 1 .. j - 1 : /\ f[p][i] = <<"LOCK", m>>
                            /\ \A k \in i .. j - 1 : f[p][k] # <<"UNLOCK", m>>
    \/ \A q \in Procesos \ {p} : \A i \in DOMAIN f[q] : f[q][i] # <<"LOCK", m>>

(* Priority inheritance, among programs that use one mutex at a time: the     *)
(* owner has at least the priority of each process that waits for it.       *)
HeredaPrioridad ==
  \A m \in Nombres : \A i \in DOMAIN bloqueados[m] :
    LET e == bloqueados[m][i] IN
    ~Anida(duenio[m]) /\ ~Anida(e) => prioridad[duenio[m]] <= prioridad[e]

(* "recien ahi corresponde restaurarla": a process with no mutex has the     *)
(* priority it was created with, once the unlock of the last one is over.   *)
Soltando(p) == \E c \in CPUs : hilo[c].duenio_anterior = p
DevuelvePrioridad ==
  \A p \in Procesos :
    (\A m \in Nombres : duenio[m] # p) /\ ~Soltando(p) => prioridad[p] = prioridad_original[p]

(* "Si el dueno esta en READY, reposicionarlo en la cola correcta": a        *)
(* process whose estado is READY is in the queue of its priority, unless a   *)
(* lock is about to move it.                                                *)
PorMover(p) == \E c \in CPUs : hilo[c].pc = "sacar" /\ duenio[hilo[c].mutex] = p
NivelAlDia ==
  \A n \in Prioridades : \A i \in DOMAIN ready[n] :
    LET p == ready[n][i] IN
    estado[p] = "READY" /\ ~PorMover(p) => n = Nivel(p)

(* A process that waits for a mutex gets it: the programs end, so from some  *)
(* moment on nobody waits, unless the dispatcher took a null process.       *)
EsperaTermina ==
  <>[]((\A m \in Nombres : bloqueados[m] = <<>>) \/ despachador.pc = "nulo")

=============================================================================
