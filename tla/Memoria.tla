------------------------------ MODULE Memoria ------------------------------
(***************************************************************************)
(* Kernel Memory: the segments of the processes, the holes of the memory    *)
(* sticks, compaction, and the blocks of swap.                              *)
(*                                                                          *)
(* The scheduler makes its requests one at a time, on the connection of     *)
(* operations: paso, pid, pedido, sueltos and movidos are the local         *)
(* variables of the thread that serves it.  Each CPU has a connection of    *)
(* its own, served by another thread, and the sticks and the swap module    *)
(* connect when they like.  What the scheduler and the CPU do between two   *)
(* requests is in fase: it is the environment of this module.  A CPU that is *)
(* told to stop saves its context later, when its process is ready again:   *)
(* porGuardar.                                                              *)
(*                                                                          *)
(* One action is one critical section, or one segment of a suspension or of *)
(* a resumption, whose bytes nobody else has.  The list of segments of a    *)
(* process is a set: the code goes through it in the order of allocation,   *)
(* the model in any.                                                        *)
(***************************************************************************)
EXTENDS Integers, Sequences, SequencesExt, FiniteSets, FiniteSetsExt

CONSTANTS
  Procesos,
  Ids,               \* identifiers of segment a program uses
  Tamanios,          \* sizes it asks for
  SEGMENT_MAX_SIZE,
  ALLOCATION_STRATEGY,
  TamStick,          \* size of each memory stick
  MaxSticks,         \* bound: sticks that connect
  BLOCK_SIZE,        \* of swap
  CantBloques,       \* blocks of swap
  MaxEscrituras,     \* bound: bytes the programs write
  Desplazamientos,   \* bound: the offsets they write at
  MaxPorGuardar,     \* bound: contexts that CPUs have still to save
  SwapSeCae,         \* whether the swap module may disconnect
  NADIE,             \* no process
  BASURA             \* a byte no process wrote

ASSUME NadieMemoriaAssumption == NADIE \notin Procesos
ASSUME TamaniosAssumption == Tamanios \subseteq Nat \ {0}
ASSUME EstrategiaAssumption == ALLOCATION_STRATEGY \in {"BEST", "WORST"}
ASSUME BloquesAssumption == BLOCK_SIZE \in Nat \ {0} /\ CantBloques \in Nat
ASSUME SticksAssumption == TamStick \in Nat \ {0} /\ MaxSticks \in Nat
ASSUME EscriturasAssumption == MaxEscrituras \in Nat /\ Desplazamientos \subseteq Nat
ASSUME PorGuardarAssumption == MaxPorGuardar \in Nat
ASSUME SwapAssumption == SwapSeCae \in BOOLEAN

VARIABLES
  fase,        \* what the scheduler and the CPUs are doing with each process
  ctx,         \* the segment table in the CPU that runs it
  porGuardar,  \* tables in CPUs that were told to stop and have not saved yet
  pisado,      \* whether a CPU has used a table that was out of date
  tabla,       \* contexto.tabla_segmentos
  suspendidos, \* segmentos_suspendidos
  huecos,      \* g_huecos
  bytes,       \* contents of the memory sticks, one after the other
  sticks,      \* connected sticks
  escrituras,  \* bytes written so far
  swap,        \* connection of the swap module
  libres,      \* g_bloques_libres
  disco,       \* contents of the blocks
  paso,        \* where the thread of operations is
  pid,         \* the process it serves
  pedido,      \* id_segmento and tamanio of its MEM_ALLOC
  sueltos,     \* segments it holds that are in no table
  movidos      \* nuevos_suspendidos

cpus == <<ctx, porGuardar, pisado>>
procesos == <<fase, cpus>>
memoria == <<tabla, huecos, bytes, sticks, escrituras>>
respaldo == <<suspendidos, swap, libres, disco>>
operacion == <<paso, pid, pedido, sueltos, movidos>>
vars == <<procesos, memoria, respaldo, operacion>>

Fases == {"no_existe", "lista", "corre", "pide", "bloqueado", "suspendido", "sale", "fin"}
Pasos == {"espera", "registrar", "espera_ok", "reintentar", "liberar", "finalizar",
          "suspender", "reanudar", "a_medias"}

Segmentos == [id : Ids, base : 0 .. MaxSticks * TamStick - 1, tam : Tamanios]
Huecos == [base : 0 .. MaxSticks * TamStick - 1, tam : 1 .. MaxSticks * TamStick]
SinPedido == [id |-> NADIE, tam |-> 0]

-----------------------------------------------------------------------------
(* Holes and segments are intervals [base, tam].                            *)
Rango(s) == s.base .. s.base + s.tam - 1
Tope == sticks * TamStick
Suma(S) == MapThenSumSet(LAMBDA s : s.tam, S)
IdsDe(S) == {s.id : s \in S}

Alcanzan(t) == {h \in huecos : h.tam >= t}
Prefiere(h, g) == IF ALLOCATION_STRATEGY = "BEST" THEN h.tam < g.tam ELSE h.tam > g.tam
(* The first of the list, which is in order of base, among the preferred.   *)
Elegido(t) ==
  CHOOSE h \in Alcanzan(t) :
    \A g \in Alcanzan(t) \ {h} : Prefiere(h, g) \/ (h.tam = g.tam /\ h.base < g.base)

(* Mutant: a hole that is used up stays in the list.                        *)
SinOcupadoVacio(h, t) ==
  (huecos \ {h}) \cup {[base |-> h.base + t, tam |-> h.tam - t]}

(* Mutant: the hole shrinks from its end while the segment takes its start. *)
SinOcupadoMismaBase(h, t) ==
  (huecos \ {h}) \cup
    (IF h.tam = t THEN {} ELSE {[base |-> h.base, tam |-> h.tam - t]})

SinOcupado(h, t) ==
  (huecos \ {h}) \cup
    (IF h.tam = t THEN {} ELSE {[base |-> h.base + t, tam |-> h.tam - t]})

(* Mutant: the hole is only joined to the one before it.                    *)
ConHuecoSinSiguiente(hs, base, t) ==
  LET izq == {h \in hs : h.base + h.tam = base}
  IN  (hs \ izq) \cup
        {[base |-> Min({base} \cup {h.base : h \in izq}), tam |-> t + Suma(izq)]}

(* list_add and fusionar_huecos, which finds all the others fused already.  *)
ConHueco(hs, base, t) ==
  LET izq == {h \in hs : h.base + h.tam = base}
      der == {h \in hs : h.base = base + t}
      todos == izq \cup der
  IN  (hs \ todos) \cup
        {[base |-> Min({base} \cup {h.base : h \in izq}), tam |-> t + Suma(todos)]}

Liberado(s) == ConHueco(huecos, s.base, s.tam)

Cantidad(t) == (t + BLOCK_SIZE - 1) \div BLOCK_SIZE
Asignados(t) == SubSeq(libres, 1, Cantidad(t))

(* Mutant: the last block that is assigned stays free.                      *)
RestantesConUno(t) == SubSeq(libres, Cantidad(t), Len(libres))

Restantes(t) == SubSeq(libres, Cantidad(t) + 1, Len(libres))
LeerDeSticks(s, o) == bytes[s.base + o]
EscribirEnSticks(dir, dato) == bytes' = [bytes EXCEPT ![dir] = dato]
EnBloque(bs, o) == disco[bs[o \div BLOCK_SIZE + 1]][o % BLOCK_SIZE]
BloquesDe(S) == FoldSet(LAMBDA ss, q : q \o ss.bloques, <<>>, S)

Pasar(p, f) == fase' = [fase EXCEPT ![p] = f]

-----------------------------------------------------------------------------
Init ==
  /\ fase = [p \in Procesos |-> "no_existe"]
  /\ ctx = [p \in Procesos |-> {}] /\ porGuardar = {} /\ pisado = FALSE
  /\ tabla = [p \in Procesos |-> {}]
  /\ suspendidos = [p \in Procesos |-> {}]
  /\ huecos = {}
  /\ bytes = [b \in 0 .. MaxSticks * TamStick - 1 |-> BASURA]
  /\ sticks = 0 /\ escrituras = 0
  /\ swap = "no"
  /\ libres = <<>>
  /\ disco = [b \in 1 .. CantBloques |-> [o \in 0 .. BLOCK_SIZE - 1 |-> BASURA]]
  /\ paso = "espera" /\ pid = NADIE /\ pedido = SinPedido
  /\ sueltos = {} /\ movidos = {}

-----------------------------------------------------------------------------
(* Connections.                                                             *)
ConectarStick ==
  /\ sticks < MaxSticks
  /\ sticks' = sticks + 1
  /\ huecos' = ConHueco(huecos, Tope, TamStick)
  /\ UNCHANGED <<procesos, tabla, bytes, escrituras, respaldo, operacion>>

ConectarSwap ==
  /\ swap = "no" /\ swap' = "si"
  /\ libres' = [b \in 1 .. CantBloques |-> b]
  /\ UNCHANGED <<procesos, memoria, suspendidos, disco, operacion>>

(* Kernel Memory finds out when it next uses the connection.                *)
CaerSwap ==
  /\ SwapSeCae /\ swap = "si" /\ swap' = "caida"
  /\ UNCHANGED <<procesos, memoria, suspendidos, libres, disco, operacion>>

-----------------------------------------------------------------------------
(* The CPUs.                                                                *)
PedirContexto(p) ==
  /\ fase[p] = "lista" /\ Pasar(p, "corre")
  /\ ctx' = [ctx EXCEPT ![p] = tabla[p]]
  /\ UNCHANGED <<porGuardar, pisado, memoria, respaldo, operacion>>

Existe(p) == fase[p] # "fin" /\ ~(paso = "finalizar" /\ pid = p)

(* op_actualizar_contexto: the table t of the CPU takes the place of the one *)
(* Kernel Memory has, which a suspension may be going through.              *)
Recibir(p, t) ==
  /\ tabla' = IF Existe(p) THEN [tabla EXCEPT ![p] = t] ELSE tabla
  /\ pisado' = (Existe(p) /\ (t # tabla[p] \/ (paso = "suspender" /\ pid = p)))

(* The table goes back with the registers before a system call: the process  *)
(* leaves the CPU ready, with a MEM_ALLOC or a MEM_FREE, blocked or to end. *)
ActualizarContexto(p) ==
  /\ fase[p] = "corre"
  /\ \E f \in {"lista", "pide", "bloqueado", "sale"} : Pasar(p, f)
  /\ Recibir(p, ctx[p])
  /\ ctx' = [ctx EXCEPT ![p] = {}]
  /\ UNCHANGED <<porGuardar, huecos, bytes, sticks, escrituras, respaldo, operacion>>

(* An interruption: the process is ready, and counted as evicted by the one *)
(* who waits to compact, before its CPU saves.  Bound: a process has one    *)
(* context to save, and all of them MaxPorGuardar.                          *)
Desalojar(p) ==
  /\ fase[p] = "corre" /\ Pasar(p, "lista")
  /\ Cardinality(porGuardar) < MaxPorGuardar /\ \A g \in porGuardar : g.pid # p
  /\ porGuardar' = porGuardar \cup {[pid |-> p, tabla |-> ctx[p]]}
  /\ ctx' = [ctx EXCEPT ![p] = {}]
  /\ UNCHANGED <<pisado, memoria, respaldo, operacion>>

GuardarContexto(p) ==
  /\ \E g \in porGuardar :
       /\ g.pid = p /\ porGuardar' = porGuardar \ {g}
       /\ Recibir(p, g.tabla)
  /\ UNCHANGED <<fase, ctx, huecos, bytes, sticks, escrituras, respaldo, operacion>>

(* The MMU of the CPU translates with the table it has.                     *)
MmuTraducir(p) == {so \in ctx[p] \X Desplazamientos : so[2] < so[1].tam}

(* MOV_OUT.                                                                 *)
MemWrite(p) ==
  /\ fase[p] = "corre" /\ escrituras < MaxEscrituras
  /\ escrituras' = escrituras + 1
  /\ \E so \in MmuTraducir(p) :
       /\ EscribirEnSticks(so[1].base + so[2], <<p, so[1].id, so[2]>>)
       /\ pisado' = (so[1] \notin tabla[p])
  /\ UNCHANGED <<fase, ctx, porGuardar, tabla, huecos, sticks, respaldo, operacion>>

(* The IO of a blocked process ends before it has been suspended.           *)
Despertar(p) ==
  /\ fase[p] = "bloqueado" /\ Pasar(p, "lista")
  /\ UNCHANGED <<cpus, memoria, respaldo, operacion>>

-----------------------------------------------------------------------------
(* The thread of operations.                                                *)
Responder(p, f) ==
  /\ Pasar(p, f)
  /\ paso' = "espera" /\ pid' = NADIE /\ pedido' = SinPedido

Ocupar(t) ==
  /\ huecos' = SinOcupado(Elegido(t), t)
  /\ paso' = "registrar"

CrearProceso(p) ==
  /\ paso = "espera" /\ fase[p] = "no_existe" /\ Pasar(p, "lista")
  /\ UNCHANGED <<cpus, memoria, respaldo, operacion>>

(* MEM_ALLOC.  A program does not ask for an identifier it already has.     *)
MemAllocRechazado(p) ==
  /\ paso = "espera" /\ fase[p] = "pide"
  /\ \E t \in Tamanios : t > SEGMENT_MAX_SIZE \/ Suma(huecos) < t
  /\ Responder(p, "lista")
  /\ UNCHANGED <<cpus, memoria, respaldo, sueltos, movidos>>

MemAlloc(p) ==
  /\ paso = "espera" /\ fase[p] = "pide" /\ pid' = p
  /\ \E i \in Ids \ IdsDe(tabla[p]), t \in Tamanios :
       /\ t <= SEGMENT_MAX_SIZE
       /\ pedido' = [id |-> i, tam |-> t]
       /\ \/ /\ Alcanzan(t) # {} /\ Ocupar(t)
             /\ sueltos' = {[id |-> i, base |-> Elegido(t).base, tam |-> t]}
          \/ /\ Alcanzan(t) = {} /\ Suma(huecos) >= t
             /\ paso' = "espera_ok" /\ UNCHANGED <<huecos, sueltos>>
  /\ UNCHANGED <<procesos, tabla, bytes, sticks, escrituras, respaldo, movidos>>

EnTablas == UNION {tabla[p] : p \in Procesos}
NuevaBase(s) == Suma({t \in EnTablas : t.base < s.base})
Mudado(s) == [s EXCEPT !.base = NuevaBase(s)]

(* Mutant: the tables change and the bytes stay.                            *)
BytesMudadosSinCopiar == bytes

(* Segments move down in order of base: none is written over before it moves. *)
BytesMudados ==
  [b \in DOMAIN bytes |->
     IF \E s \in EnTablas : b \in Rango(Mudado(s))
     THEN LET s == CHOOSE s \in EnTablas : b \in Rango(Mudado(s))
          IN  LeerDeSticks(s, b - NuevaBase(s))
     ELSE bytes[b]]

(* Mutant: the list of holes is not made again.                             *)
HuecoFinalSinRehacer == huecos

HuecoFinal ==
  LET ocupado == Suma(EnTablas)
  IN  IF ocupado < Tope THEN {[base |-> ocupado, tam |-> Tope - ocupado]} ELSE {}

(* KM_COMPACTACION_OK: the scheduler has evicted the processes it counted.  *)
(* Nothing waits for what their CPUs have to save, nor for a process that   *)
(* the dispatcher sends late.                                               *)
CompactarMemoria ==
  /\ paso = "espera_ok" /\ paso' = "reintentar"
  /\ tabla' = [p \in Procesos |-> {Mudado(s) : s \in tabla[p]}]
  /\ bytes' = BytesMudados
  /\ huecos' = HuecoFinal
  /\ UNCHANGED <<procesos, sticks, escrituras, respaldo, pid, pedido, sueltos, movidos>>

Reintentar ==
  /\ paso = "reintentar"
  /\ IF Alcanzan(pedido.tam) # {}
     THEN /\ Ocupar(pedido.tam)
          /\ sueltos' = {[id |-> pedido.id, base |-> Elegido(pedido.tam).base, tam |-> pedido.tam]}
          /\ UNCHANGED <<fase, pid, pedido>>
     ELSE Responder(pid, "lista") /\ UNCHANGED <<huecos, sueltos>>
  /\ UNCHANGED <<cpus, tabla, bytes, sticks, escrituras, respaldo, movidos>>

RegistrarSegmento ==
  /\ paso = "registrar" /\ Responder(pid, "lista")
  /\ tabla' = [tabla EXCEPT ![pid] = @ \cup sueltos]
  /\ sueltos' = {}
  /\ UNCHANGED <<cpus, huecos, bytes, sticks, escrituras, respaldo, movidos>>

(* MEM_FREE.                                                                *)
MemFreeRechazado(p) ==
  /\ paso = "espera" /\ fase[p] = "pide" /\ Ids \ IdsDe(tabla[p]) # {}
  /\ Responder(p, "lista")
  /\ UNCHANGED <<cpus, memoria, respaldo, sueltos, movidos>>

MemFree(p) ==
  /\ paso = "espera" /\ fase[p] = "pide"
  /\ \E s \in tabla[p] :
       tabla' = [tabla EXCEPT ![p] = @ \ {s}] /\ sueltos' = {s}
  /\ paso' = "liberar" /\ pid' = p
  /\ UNCHANGED <<procesos, huecos, bytes, sticks, escrituras, respaldo, pedido, movidos>>

LiberarSegmento ==
  /\ paso = "liberar" /\ Responder(pid, "lista")
  /\ \E s \in sueltos : huecos' = Liberado(s) /\ sueltos' = sueltos \ {s}
  /\ UNCHANGED <<cpus, tabla, bytes, sticks, escrituras, respaldo, movidos>>

(* FINALIZAR_PROCESO.                                                       *)
FinalizarProceso(p) ==
  /\ paso = "espera" /\ fase[p] = "sale"
  /\ paso' = "finalizar" /\ pid' = p /\ sueltos' = tabla[p]
  /\ tabla' = [tabla EXCEPT ![p] = {}]
  /\ UNCHANGED <<procesos, huecos, bytes, sticks, escrituras, respaldo, pedido, movidos>>

LiberarUno ==
  /\ paso = "finalizar"
  /\ \E s \in sueltos : huecos' = Liberado(s) /\ sueltos' = sueltos \ {s}
  /\ UNCHANGED <<procesos, tabla, bytes, sticks, escrituras, respaldo, paso, pid, pedido, movidos>>

DestruirProceso ==
  /\ paso = "finalizar" /\ sueltos = {} /\ Responder(pid, "fin")
  /\ libres' = libres \o BloquesDe(suspendidos[pid])
  /\ suspendidos' = [suspendidos EXCEPT ![pid] = {}]
  /\ UNCHANGED <<cpus, memoria, swap, disco, sueltos, movidos>>

-----------------------------------------------------------------------------
(* SUSPENDER_PROCESO.  The scheduler has taken the process to SUSP_BLOCK    *)
(* and does not look at the answer.                                         *)
SuspenderSinSwap(p) ==
  /\ paso = "espera" /\ fase[p] = "bloqueado" /\ swap \in {"no", "perdida"}
  /\ Responder(p, "suspendido")
  /\ UNCHANGED <<cpus, memoria, respaldo, sueltos, movidos>>

SuspenderProceso(p) ==
  /\ paso = "espera" /\ fase[p] = "bloqueado" /\ swap \in {"si", "caida"}
  /\ Pasar(p, "suspendido") /\ paso' = "suspender" /\ pid' = p
  /\ UNCHANGED <<cpus, memoria, respaldo, pedido, sueltos, movidos>>

PorMover == {s \in tabla[pid] : s.id \notin IdsDe(movidos)}

(* The blocks bs once they hold the segment s, the last one filled up.      *)
Escritos(bs, s) ==
  [b \in DOMAIN disco |->
     IF ~Contains(bs, b) THEN disco[b]
     ELSE LET n == (SelectInSeq(bs, LAMBDA x : x = b) - 1) * BLOCK_SIZE
          IN  [o \in DOMAIN disco[b] |->
                 IF n + o < s.tam THEN LeerDeSticks(s, n + o) ELSE BASURA]]

SuspenderSegmento ==
  /\ paso = "suspender" /\ swap = "si"
  /\ \E s \in PorMover :
       /\ Len(libres) >= Cantidad(s.tam)
       /\ disco' = Escritos(Asignados(s.tam), s)
       /\ libres' = Restantes(s.tam)
       /\ huecos' = Liberado(s)
       /\ movidos' = movidos \cup
                       {[id |-> s.id, tam |-> s.tam, bloques |-> Asignados(s.tam)]}
  /\ UNCHANGED <<procesos, tabla, bytes, sticks, escrituras, suspendidos, swap, paso, pid, pedido, sueltos>>

(* No blocks for a segment, or the connection fails: the blocks of the ones *)
(* that were moved are released.  Their memory was released before, and the *)
(* table still names it: the model goes no further.                         *)
SuspenderFalla ==
  /\ paso = "suspender"
  /\ \E s \in PorMover :
       \/ /\ Len(libres) < Cantidad(s.tam)
          /\ libres' = libres \o BloquesDe(movidos) /\ UNCHANGED swap
       \/ /\ Len(libres) >= Cantidad(s.tam) /\ swap = "caida" /\ swap' = "perdida"
          /\ libres' = Restantes(s.tam) \o Asignados(s.tam) \o BloquesDe(movidos)
  /\ paso' = IF movidos = {} THEN "espera" ELSE "a_medias"
  /\ pid' = NADIE /\ movidos' = {}
  /\ UNCHANGED <<procesos, memoria, suspendidos, disco, pedido, sueltos>>

TerminarSuspension ==
  /\ paso = "suspender" /\ PorMover = {} /\ Responder(pid, "suspendido")
  /\ tabla' = [tabla EXCEPT ![pid] = {}]
  /\ suspendidos' = [suspendidos EXCEPT ![pid] = @ \cup movidos]
  /\ movidos' = {}
  /\ UNCHANGED <<cpus, huecos, bytes, sticks, escrituras, swap, libres, disco, sueltos>>

-----------------------------------------------------------------------------
(* REANUDAR_PROCESO.                                                        *)
ReanudarProceso(p) ==
  /\ paso = "espera" /\ fase[p] = "suspendido"
  /\ paso' = "reanudar" /\ pid' = p
  /\ UNCHANGED <<procesos, memoria, respaldo, pedido, sueltos, movidos>>

PorTraer == {ss \in suspendidos[pid] : ss.id \notin IdsDe(sueltos)}

(* A block that cannot be read is skipped.                                  *)
ReanudarSegmento ==
  /\ paso = "reanudar"
  /\ \E ss \in PorTraer :
       LET s == [id |-> ss.id, base |-> Elegido(ss.tam).base, tam |-> ss.tam]
       IN  /\ Alcanzan(ss.tam) # {}
           /\ huecos' = SinOcupado(Elegido(ss.tam), ss.tam)
           /\ bytes' = IF swap = "si"
                       THEN [b \in DOMAIN bytes |->
                               IF b \in Rango(s) THEN EnBloque(ss.bloques, b - s.base)
                               ELSE bytes[b]]
                       ELSE bytes
           /\ libres' = libres \o ss.bloques
           /\ sueltos' = sueltos \cup {s}
  /\ swap' = IF swap = "caida" THEN "perdida" ELSE swap
  /\ UNCHANGED <<procesos, tabla, sticks, escrituras, suspendidos, disco, paso, pid, pedido, movidos>>

(* A segment does not fit: the memory of the ones already brought back is   *)
(* released.  Their blocks and records were released before, and the list   *)
(* still names them: the model goes no further.                             *)
ReanudarFalla ==
  /\ paso = "reanudar"
  /\ \E ss \in PorTraer : Alcanzan(ss.tam) = {}
  /\ huecos' = FoldSet(LAMBDA s, hs : ConHueco(hs, s.base, s.tam), huecos, sueltos)
  /\ paso' = IF sueltos = {} THEN "espera" ELSE "a_medias"
  /\ pid' = NADIE /\ sueltos' = {}
  /\ UNCHANGED <<procesos, tabla, bytes, sticks, escrituras, respaldo, pedido, movidos>>

(* READY if its IO ended meanwhile, and otherwise BLOCK.                    *)
TerminarReanudacion ==
  /\ paso = "reanudar" /\ PorTraer = {}
  /\ \E f \in {"lista", "bloqueado"} : Responder(pid, f)
  /\ tabla' = [tabla EXCEPT ![pid] = @ \cup sueltos]
  /\ suspendidos' = [suspendidos EXCEPT ![pid] = {}]
  /\ sueltos' = {}
  /\ UNCHANGED <<cpus, huecos, bytes, sticks, escrituras, swap, libres, disco, movidos>>

-----------------------------------------------------------------------------
Cpu(p) ==
  \/ PedirContexto(p) \/ ActualizarContexto(p) \/ Desalojar(p) \/ GuardarContexto(p)
  \/ MemWrite(p) \/ Despertar(p)
Atender(p) ==
  \/ CrearProceso(p) \/ MemAllocRechazado(p) \/ MemAlloc(p)
  \/ MemFreeRechazado(p) \/ MemFree(p) \/ FinalizarProceso(p)
  \/ SuspenderSinSwap(p) \/ SuspenderProceso(p) \/ ReanudarProceso(p)
Seguir ==
  \/ CompactarMemoria \/ Reintentar \/ RegistrarSegmento
  \/ LiberarSegmento \/ LiberarUno \/ DestruirProceso
  \/ SuspenderSegmento \/ SuspenderFalla \/ TerminarSuspension
  \/ ReanudarSegmento \/ ReanudarFalla \/ TerminarReanudacion

(* No operation has failed half way, and no CPU has written back, or written *)
(* through, a table that was out of date: the model goes no further.        *)
Entero == paso # "a_medias" /\ ~pisado

Reposo ==
  /\ Entero => paso = "espera" /\ \A p \in Procesos : fase[p] = "fin"
  /\ UNCHANGED vars

Next ==
  \/ /\ Entero
     /\ \/ ConectarStick \/ ConectarSwap \/ CaerSwap \/ Seguir
        \/ \E p \in Procesos : Cpu(p) \/ Atender(p)
  \/ Reposo

Spec == Init /\ [][Next]_vars

-----------------------------------------------------------------------------
(* Where a process has its segments, half way of an operation included.     *)
EnMemoria(p) ==
  CASE paso = "suspender" /\ pid = p -> PorMover
    [] paso = "reanudar" /\ pid = p -> tabla[p] \cup sueltos
    [] OTHER -> tabla[p]
EnSwap(p) ==
  CASE paso = "suspender" /\ pid = p -> suspendidos[p] \cup movidos
    [] paso = "reanudar" /\ pid = p -> PorTraer
    [] OTHER -> suspendidos[p]

(* Every variable has its type.                                             *)
TypeOK ==
  /\ fase \in [Procesos -> Fases]
  /\ ctx \in [Procesos -> SUBSET Segmentos] /\ tabla \in [Procesos -> SUBSET Segmentos]
  /\ \A g \in porGuardar : g.pid \in Procesos /\ g.tabla \subseteq Segmentos
  /\ pisado \in BOOLEAN
  /\ huecos \subseteq Huecos /\ sticks \in 0 .. MaxSticks /\ escrituras \in 0 .. MaxEscrituras
  /\ swap \in {"no", "si", "caida", "perdida"}
  /\ libres \in Seq(1 .. CantBloques)
  /\ \A p \in Procesos : \A ss \in suspendidos[p] \cup movidos :
       ss.id \in Ids /\ ss.tam \in Tamanios /\ ss.bloques \in Seq(DOMAIN disco)
  /\ paso \in Pasos /\ pid \in Procesos \cup {NADIE} /\ sueltos \subseteq Segmentos

(* MEM_ALLOC, MEM_FREE, EXIT, a suspension and a resumption move a segment  *)
(* between the holes, a local variable and a table in two or more critical  *)
(* sections, and a compaction moves all of them: every byte of the sticks   *)
(* is in one hole or in one segment, and in no more, until an operation     *)
(* fails half way or a CPU uses a table that is out of date.                *)
Duenos(b) ==
  {<<NADIE, h>> : h \in {h \in huecos : b \in Rango(h)}}
  \cup {<<NADIE, s>> : s \in {s \in IF paso = "reanudar" THEN {} ELSE sueltos : b \in Rango(s)}}
  \cup UNION {{<<p, s>> : s \in {s \in EnMemoria(p) : b \in Rango(s)}} : p \in Procesos}
CadaByteDeUno == \A b \in 0 .. Tope - 1 : Cardinality(Duenos(b)) = 1
Particion == Entero => CadaByteDeUno

(* Every block of swap is free or of one segment, and in its place once,    *)
(* through suspensions and resumptions that fail before they move anything: *)
(* none leaks and none has two owners, until one fails half way or a CPU    *)
(* writes back a table that is out of date.                                 *)
UsosDe(b) ==
  {<<NADIE, i>> : i \in {i \in DOMAIN libres : libres[i] = b}}
  \cup UNION {{<<p, ss.id>> : ss \in {ss \in EnSwap(p) : Contains(ss.bloques, b)}} : p \in Procesos}
CadaBloqueDeUno == swap # "no" => \A b \in DOMAIN disco : Cardinality(UsosDe(b)) = 1
BloquesDeUnSolo == Entero => CadaBloqueDeUno

(* No two holes touch, so a MEM_ALLOC or a resumption that fits in free     *)
(* memory that is together finds it.                                        *)
HuecosFusionados ==
  \A h, g \in huecos : h.base + h.tam # g.base

(* The compaction a MEM_ALLOC has asked for makes room for it: the retry    *)
(* does not fail, although other threads have worked in between.            *)
TrasCompactarHayLugar == paso = "reintentar" => Alcanzan(pedido.tam) # {}

(* Kernel Memory keeps the promise of Espacio: through compactions,         *)
(* suspensions and resumptions each process finds in its segments what it   *)
(* wrote, as long as the swap module stays connected, until a CPU uses a    *)
(* table that is out of date.                                               *)
SegmentosDe(p) ==
  {[id |-> s.id, tam |-> s.tam] : s \in EnMemoria(p) \cup EnSwap(p)}
ContenidoDe(p) ==
  (UNION {{<<s.id, o>> : o \in {o \in 0 .. s.tam - 1 : LeerDeSticks(s, o) = <<p, s.id, o>>}} :
            s \in EnMemoria(p)})
  \cup
  (UNION {{<<ss.id, o>> : o \in {o \in 0 .. ss.tam - 1 : EnBloque(ss.bloques, o) = <<p, ss.id, o>>}} :
            ss \in EnSwap(p)})

Promesa == INSTANCE Espacio WITH
             segmentos <- [p \in Procesos |-> SegmentosDe(p)],
             contenido <- [p \in Procesos |-> ContenidoDe(p)],
             respaldo <- swap \in {"no", "si"}
ImplementaEspacio ==
  Promesa!Init /\ [][~pisado' => [Promesa!Next]_(Promesa!vars)]_vars

=============================================================================
