--------------------------- MODULE SuspensionProofs ---------------------------
(* Proofs about Suspension, for any number of processes, blocks, failures   *)
(* and compactions, any memory and both types of interface.                 *)
EXTENDS Suspension, Secuencias

(* A thread holds candidates only while it resumes, and Kernel Memory has    *)
(* answered only about a candidate.                                         *)
Reanudando ==
  /\ \A p \in Procesos : candidatos[p] # <<>> => pc[p] = "reanudar"
  /\ candidatos[ESCUCHAR] # <<>> => kpc = "reanudar"
  /\ \A t \in Reanudadores : ack[t] # "ninguno" => candidatos[t] # <<>>

(* One compaction at a time waits for its confirmation: the request is on the *)
(* socket, once, or the confirmation has been given.                        *)
Confirmacion ==
  /\ \A i, j \in 1 .. Len(notif) : notif[i] = "COMPACTAR" /\ notif[j] = "COMPACTAR" => i = j
  /\ Contains(notif, "COMPACTAR") => okCompactar = 0
  /\ Contains(notif, "COMPACTAR") \/ okCompactar > 0 => \E p \in Procesos : pc[p] = "km_espera_ok"

(* The handler of EXIT serves a process that has ended, and a request that is *)
(* not queued yet is of a blocked process with no other.                    *)
Fases ==
  \A p \in Procesos :
    /\ pc[p] \in {"finalizar", "juntar", "reanudar", "fin"} => estado[p] = "EXIT"
    /\ pc[p] = "encolar" => /\ estado[p] \in {"BLOCK", "SUSP_BLOCK"}
                            /\ ~Contains(cola, p) /\ atendido # p

(* The listener has a process in its hands while it is between two lists.    *)
EnManos == sacado # NADIE <=> lio = "agregar"

Orden ==
  /\ TypeOK /\ Reanudando /\ Confirmacion /\ Fases /\ EnManos
  /\ EnUnaSolaLista /\ SolicitudDeBloqueado

(***************************************************************************)
(* Types                                                                    *)
(***************************************************************************)
LEMMA ListasTipo ==
  ASSUME TypeOK
  PROVE  /\ ready \in Seq(Procesos) /\ block \in Seq(Procesos) /\ suspBlock \in Seq(Procesos)
         /\ suspReady \in Seq(Procesos) /\ cola \in Seq(Procesos)
         /\ \A t \in Reanudadores : candidatos[t] \in Seq(Procesos)
BY DEF TypeOK

(* The head of a list that is not empty, and the rest.                      *)
LEMMA PrimeroTipo ==
  ASSUME NEW s \in Seq(Procesos), s # <<>>
  PROVE  Head(s) \in Procesos /\ Tail(s) \in Seq(Procesos)
BY HeadTailProperties

(* What a list of processes contains is a process.                          *)
LEMMA ContieneTipo ==
  ASSUME NEW s \in Seq(Procesos), NEW p, Contains(s, p)
  PROVE  p \in Procesos
BY ElementOfSeq, LenProperties DEF Contains

(* The candidate Kernel Memory is asked about, and the one it answered about. *)
LEMMA CandidatoTipo ==
  ASSUME TypeOK, Reanudando, NEW t \in Reanudadores, candidatos[t] # <<>> \/ ack[t] # "ninguno"
  PROVE  /\ candidatos[t] # <<>> /\ Head(candidatos[t]) \in Procesos
         /\ Tail(candidatos[t]) \in Seq(Procesos)
<1>1. candidatos[t] \in Seq(Procesos) /\ candidatos[t] # <<>>
  BY DEF TypeOK, Reanudando
<1> QED BY <1>1, PrimeroTipo

LEMMA TipoInit == Init => TypeOK
<1> SUFFICES ASSUME Init PROVE TypeOK
  OBVIOUS
<1>1. ready \in Seq(Procesos)
  BY ProcesosAssumption, SetToSeqsFacts DEF Init
<1>2. {MaxIO, MaxFallas, MaxCompactaciones} \subseteq Nat
  BY BoundsAssumption
<1> QED BY <1>1, <1>2 DEF Init, TypeOK, Estados, PCs

LEMMA TipoCpu ==
  ASSUME TypeOK, NEW p \in Procesos, Cpu(p)
  PROVE  TypeOK'
<1>1. CASE SyscallIO(p)
  <2>1. block' \in Seq(Procesos)
    BY <1>1, AppendProperties DEF SyscallIO, TypeOK
  <2>2. bloqueos[p] + 1 \in 1 .. MaxIO /\ bloqueos[p] + 1 \in 0 .. MaxIO
    <3>1. MaxIO \in Nat
      BY BoundsAssumption
    <3>2. bloqueos[p] \in 0 .. MaxIO
      BY DEF TypeOK
    <3>3. bloqueos[p] < MaxIO
      BY <1>1 DEF SyscallIO
    <3> QED BY <3>1, <3>2, <3>3
  <2>3. bloqueos' \in [Procesos -> 0 .. MaxIO] /\ hilos' \in [Procesos -> SUBSET (1 .. MaxIO)]
    BY <1>1, <2>2 DEF SyscallIO, TypeOK
  <2>4. estado' \in [Procesos -> Estados] /\ pc' \in [Procesos -> PCs]
    BY <1>1 DEF SyscallIO, CambiarEstado, IrA, Estados, PCs, TypeOK
  <2>5. UNCHANGED <<ready, suspBlock, suspReady, reanudaciones, avisos, interfaz, memoria, kpc>>
    BY <1>1 DEF SyscallIO
  <2> QED BY <2>1, <2>3, <2>4, <2>5 DEF reanudaciones, interfaz, memoria, TypeOK
<1>2. CASE SyscallMemAlloc(p)
  BY <1>2 DEF SyscallMemAlloc, IrA, PCs, listas, reanudaciones, suspensiones, interfaz, memoria,
     TypeOK
<1>3. CASE SyscallExit(p)
  BY <1>3 DEF SyscallExit, CambiarEstado, IrA, Estados, PCs, listas, reanudaciones, suspensiones,
     interfaz, memoria, TypeOK
<1> QED BY <1>1, <1>2, <1>3 DEF Cpu

LEMMA TipoJuntar ==
  ASSUME TypeOK, NEW t \in Reanudadores, JuntarCandidatos(t)
  PROVE  /\ candidatos' \in [Reanudadores -> Seq(Procesos)]
         /\ suspReady' \in Seq(Procesos) /\ suspBlock' \in Seq(Procesos)
         /\ salteados' \subseteq Procesos
<1>1. suspReady \o suspBlock \in Seq(Procesos)
  BY ListasTipo, ConcatProperties
<1>2. <<>> \in Seq(Procesos)
  OBVIOUS
<1>3. salteados' \subseteq Procesos
  <2>1. salteados \subseteq Procesos /\ {sacado} \ {NADIE} \subseteq Procesos
    BY DEF TypeOK
  <2>2. salteados' = (salteados \ ToSet(suspReady)) \cup ({sacado} \ {NADIE})
    BY DEF JuntarCandidatos
  <2> QED BY <2>1, <2>2
<1> QED BY <1>1, <1>2, <1>3 DEF JuntarCandidatos, TypeOK

LEMMA TipoPedir ==
  ASSUME TypeOK, Reanudando, NEW t \in Reanudadores, PedirReanudar(t)
  PROVE  /\ ack' \in [Reanudadores -> {"ninguno", "ok", "error"}]
         /\ mem' \in [Procesos -> {"nada", "ram", "swap", "no_existe"}]
<1> DEFINE p == Head(candidatos[t])
<1>1. p \in Procesos
  BY CandidatoTipo DEF PedirReanudar
<1>2. mem' = mem \/ mem' = [mem EXCEPT ![p] = "ram"]
  BY DEF PedirReanudar
<1>3. ack' \in [Reanudadores -> {"ninguno", "ok", "error"}]
  BY DEF PedirReanudar, TypeOK
<1> HIDE DEF p
<1> QED BY <1>1, <1>2, <1>3 DEF TypeOK

LEMMA TipoRecolocar ==
  ASSUME TypeOK, Reanudando, NEW t \in Reanudadores, Recolocar(t)
  PROVE  /\ candidatos' \in [Reanudadores -> Seq(Procesos)]
         /\ ack' \in [Reanudadores -> {"ninguno", "ok", "error"}]
         /\ estado' \in [Procesos -> Estados]
         /\ {ready', block', suspBlock', suspReady'} \subseteq Seq(Procesos)
<1> DEFINE p == Head(candidatos[t])
<1>1. p \in Procesos /\ Tail(candidatos[t]) \in Seq(Procesos)
  BY CandidatoTipo DEF Recolocar
<1>2. candidatos' \in [Reanudadores -> Seq(Procesos)]
  BY <1>1 DEF Recolocar, TypeOK
<1>3. ack' \in [Reanudadores -> {"ninguno", "ok", "error"}]
  BY DEF Recolocar, TypeOK
<1>4. estado' \in [Procesos -> Estados]
  <2>1. estado' = estado \/ \E e \in {"READY", "BLOCK"} : estado' = [estado EXCEPT ![p] = e]
    BY DEF Recolocar, CambiarEstado
  <2> HIDE DEF p
  <2> QED BY <1>1, <2>1 DEF TypeOK, Estados
<1>5. /\ ready' \in {ready, Append(ready, p)} /\ block' \in {block, Append(block, p)}
      /\ suspBlock' \in {suspBlock, Append(suspBlock, p)}
      /\ suspReady' \in {suspReady, Append(suspReady, p)}
  BY DEF Recolocar
<1> HIDE DEF p
<1>6. \A s \in Seq(Procesos) : Append(s, p) \in Seq(Procesos)
  BY <1>1, AppendProperties
<1> QED BY <1>2, <1>3, <1>4, <1>5, <1>6, ListasTipo

LEMMA NotifTipo ==
  ASSUME TypeOK
  PROVE  /\ \A x \in {"MEMORIA_LIBRE", "COMPACTAR", "FIN"} :
              Append(notif, x) \in Seq({"MEMORIA_LIBRE", "COMPACTAR", "FIN"})
         /\ notif # <<>> => Tail(notif) \in Seq({"MEMORIA_LIBRE", "COMPACTAR", "FIN"})
<1> DEFINE M == {"MEMORIA_LIBRE", "COMPACTAR", "FIN"}
<1>1. notif \in Seq(M)
  BY DEF TypeOK
<1> HIDE DEF M
<1>2. notif # <<>> => Tail(notif) \in Seq(M)
  BY <1>1, HeadTailProperties
<1>3. \A x \in M : Append(notif, x) \in Seq(M)
  BY <1>1, AppendProperties
<1> QED BY <1>2, <1>3 DEF M

LEMMA TipoManejador ==
  ASSUME TypeOK, Reanudando, NEW p \in Procesos, Manejador(p)
  PROVE  TypeOK'
<1> USE DEF IrA, PCs, reanudaciones, suspensiones, interfaz, memoria
<1>0. p \in Reanudadores
  BY DEF Reanudadores
<1>1. CASE EncolarRequest(p)
  <2>1. cola' \in Seq(Procesos)
    BY <1>1, AppendProperties DEF EncolarRequest, TypeOK
  <2> QED BY <1>1, <2>1 DEF EncolarRequest, listas, TypeOK
<1>2. CASE FinalizarProceso(p)
  BY <1>2 DEF FinalizarProceso, listas, TypeOK
<1>3. CASE KmAlloc(p)
  <2>1. mem' \in [Procesos -> {"nada", "ram", "swap", "no_existe"}]
    BY <1>3 DEF KmAlloc, TypeOK
  <2> QED BY <1>3, <2>1 DEF KmAlloc, listas, TypeOK
<1>4. CASE KmPideCompactar(p)
  <2>1. compactaciones' \in 0 .. MaxCompactaciones
    <3>1. MaxCompactaciones \in Nat
      BY BoundsAssumption
    <3>2. compactaciones \in 0 .. MaxCompactaciones
      BY DEF TypeOK
    <3>3. compactaciones < MaxCompactaciones /\ compactaciones' = compactaciones + 1
      BY <1>4 DEF KmPideCompactar
    <3> QED BY <3>1, <3>2, <3>3
  <2>2. notif' \in Seq({"MEMORIA_LIBRE", "COMPACTAR", "FIN"})
    BY <1>4, NotifTipo DEF KmPideCompactar
  <2> QED BY <1>4, <2>1, <2>2 DEF KmPideCompactar, listas, TypeOK
<1>5. CASE KmEmpiezaACompactar(p)
  <2>1. okCompactar' \in 0 .. 1
    BY <1>5 DEF KmEmpiezaACompactar, TypeOK
  <2> QED BY <1>5, <2>1 DEF KmEmpiezaACompactar, listas, TypeOK
<1>6. CASE KmTerminaDeCompactar(p)
  <2>1. notif' \in Seq({"MEMORIA_LIBRE", "COMPACTAR", "FIN"})
    BY <1>6, NotifTipo DEF KmTerminaDeCompactar
  <2> QED BY <1>6, <2>1 DEF KmTerminaDeCompactar, listas, TypeOK
<1>7. CASE JuntarAlSalir(p)
  <2>1. /\ candidatos' \in [Reanudadores -> Seq(Procesos)]
        /\ suspReady' \in Seq(Procesos) /\ suspBlock' \in Seq(Procesos)
        /\ salteados' \subseteq Procesos
    BY <1>0, <1>7, TipoJuntar DEF JuntarAlSalir
  <2> QED BY <1>7, <2>1 DEF JuntarAlSalir, TypeOK
<1>8. CASE PedirAlSalir(p)
  <2>1. /\ ack' \in [Reanudadores -> {"ninguno", "ok", "error"}]
        /\ mem' \in [Procesos -> {"nada", "ram", "swap", "no_existe"}]
    BY <1>0, <1>8, TipoPedir DEF PedirAlSalir
  <2> QED BY <1>8, <2>1 DEF PedirAlSalir, control, listas, TypeOK
<1>9. CASE RecolocarAlSalir(p)
  <2>1. /\ candidatos' \in [Reanudadores -> Seq(Procesos)]
        /\ ack' \in [Reanudadores -> {"ninguno", "ok", "error"}]
        /\ estado' \in [Procesos -> Estados]
        /\ {ready', block', suspBlock', suspReady'} \subseteq Seq(Procesos)
    BY <1>0, <1>9, TipoRecolocar DEF RecolocarAlSalir
  <2> QED BY <1>9, <2>1 DEF RecolocarAlSalir, TypeOK
<1>10. CASE Salir(p)
  BY <1>10 DEF Salir, listas, TypeOK
<1> QED BY <1>1, <1>2, <1>3, <1>4, <1>5, <1>6, <1>7, <1>8, <1>9, <1>10 DEF Manejador

LEMMA TipoHiloSuspension ==
  ASSUME TypeOK, NEW p \in Procesos, NEW k \in 1 .. MaxIO, HiloSuspension(p, k)
  PROVE  TypeOK'
<1> USE DEF reanudaciones, interfaz, memoria
<1>1. CASE Suspender(p, k)
  <2>1. block' \in Seq(Procesos) /\ suspBlock' \in Seq(Procesos)
    BY <1>1, ListasTipo, RemoveFirstProperties, AppendProperties DEF Suspender
  <2>2. hilos' \in [Procesos -> SUBSET (1 .. MaxIO)] /\ avisos' \subseteq Procesos \X (1 .. MaxIO)
    BY <1>1 DEF Suspender, TypeOK
  <2>3. estado' \in [Procesos -> Estados]
    BY <1>1 DEF Suspender, CambiarEstado, Estados, TypeOK
  <2>4. UNCHANGED <<pc, ready, suspReady, reanudaciones, bloqueos, interfaz, memoria, kpc>>
    BY <1>1 DEF Suspender
  <2> QED BY <2>1, <2>2, <2>3, <2>4 DEF TypeOK
<1>2. CASE NoSuspender(p, k)
  BY <1>2 DEF NoSuspender, control, listas, TypeOK
<1>3. CASE AvisarSuspension(p, k)
  <2>1. mem' \in [Procesos -> {"nada", "ram", "swap", "no_existe"}]
    BY <1>3 DEF AvisarSuspension, TypeOK
  <2>2. notif' \in Seq({"MEMORIA_LIBRE", "COMPACTAR", "FIN"})
    BY <1>3, NotifTipo DEF AvisarSuspension, TypeOK
  <2>3. avisos' \subseteq Procesos \X (1 .. MaxIO)
    BY <1>3 DEF AvisarSuspension, TypeOK
  <2> QED BY <1>3, <2>1, <2>2, <2>3 DEF AvisarSuspension, control, listas, TypeOK
<1> QED BY <1>1, <1>2, <1>3 DEF HiloSuspension

LEMMA TipoEscuchar ==
  ASSUME TypeOK, Reanudando, Confirmacion, EscucharKernelMemory
  PROVE  TypeOK'
<1> USE DEF suspensiones, interfaz, memoria
<1>0. ESCUCHAR \in Reanudadores
  BY DEF Reanudadores
<1>1. CASE RecibirNotificacion
  <2>1. /\ candidatos' \in [Reanudadores -> Seq(Procesos)]
        /\ suspReady' \in Seq(Procesos) /\ suspBlock' \in Seq(Procesos)
        /\ salteados' \subseteq Procesos
    BY <1>0, <1>1, TipoJuntar DEF RecibirNotificacion
  <2>2. notif' \in Seq({"MEMORIA_LIBRE", "COMPACTAR", "FIN"})
    BY <1>1, NotifTipo DEF RecibirNotificacion
  <2> QED BY <1>1, <2>1, <2>2 DEF RecibirNotificacion, control, TypeOK
<1>2. CASE PedirPorNotificacion
  <2>1. /\ ack' \in [Reanudadores -> {"ninguno", "ok", "error"}]
        /\ mem' \in [Procesos -> {"nada", "ram", "swap", "no_existe"}]
    BY <1>0, <1>2, TipoPedir DEF PedirPorNotificacion
  <2> QED BY <1>2, <2>1 DEF PedirPorNotificacion, control, listas, TypeOK
<1>3. CASE RecolocarPorNotificacion
  <2>1. /\ candidatos' \in [Reanudadores -> Seq(Procesos)]
        /\ ack' \in [Reanudadores -> {"ninguno", "ok", "error"}]
        /\ estado' \in [Procesos -> Estados]
        /\ {ready', block', suspBlock', suspReady'} \subseteq Seq(Procesos)
    BY <1>0, <1>3, TipoRecolocar DEF RecolocarPorNotificacion
  <2> QED BY <1>3, <2>1 DEF RecolocarPorNotificacion, TypeOK
<1>4. CASE VolverARecibir
  BY <1>4 DEF VolverARecibir, control, listas, reanudaciones, TypeOK
<1>5. CASE RecibirCompactar
  <2>1. notif' \in Seq({"MEMORIA_LIBRE", "COMPACTAR", "FIN"})
    BY <1>5, NotifTipo DEF RecibirCompactar
  <2>2. okCompactar = 0
    <3>1. notif \in Seq({"MEMORIA_LIBRE", "COMPACTAR", "FIN"})
      BY DEF TypeOK
    <3>2. Len(notif) \in Nat /\ Len(notif) > 0 /\ notif[1] = Head(notif)
      BY <1>5, <3>1, HeadTailProperties, LenProperties DEF RecibirCompactar
    <3>3. Contains(notif, "COMPACTAR")
      BY <1>5, <3>2 DEF RecibirCompactar, Contains
    <3> QED BY <3>3 DEF Confirmacion
  <2>3. okCompactar' = 1
    BY <1>5, <2>2 DEF RecibirCompactar
  <2>4. okCompactar' \in 0 .. 1
    BY <2>3
  <2>5. UNCHANGED <<estado, pc, ready, block, suspBlock, suspReady, candidatos, ack, salteados,
                    bloqueos, hilos, avisos, cola, lio, atendido, sacado, fallas, mem, compactaciones,
                    kpc>>
    BY <1>5 DEF RecibirCompactar, control, listas, reanudaciones
  <2> QED BY <2>1, <2>4, <2>5 DEF TypeOK
<1> QED BY <1>1, <1>2, <1>3, <1>4, <1>5 DEF EscucharKernelMemory

LEMMA TipoListener ==
  ASSUME TypeOK, EnManos, Listener \/ FallarIO \/ RegistrarInterfaz
  PROVE  TypeOK'
<1> USE DEF reanudaciones, suspensiones, memoria
<1>1. CASE TomarRequest
  <2>1. atendido' \in Procesos /\ cola' \in Seq(Procesos)
    BY <1>1, ListasTipo, PrimeroTipo DEF TomarRequest
  <2> QED BY <1>1, <2>1 DEF TomarRequest, control, listas, TypeOK
<1>2. CASE EscribirLeido
  BY <1>2 DEF EscribirLeido, control, listas, TypeOK
<1>3. CASE BuscarEnBlock
  <2>1. CASE Contains(block, atendido)
    <3>1. atendido \in Procesos
      BY <2>1, ListasTipo, ContieneTipo
    <3>2. block' = RemoveFirst(block, atendido) /\ ready' = Append(ready, atendido)
      BY <1>3, <2>1 DEF BuscarEnBlock
    <3>3. block' \in Seq(Procesos) /\ ready' \in Seq(Procesos)
      BY <3>1, <3>2, ListasTipo, RemoveFirstProperties, AppendProperties
    <3> QED BY <1>3, <2>1, <3>1, <3>3 DEF BuscarEnBlock, CambiarEstado, Estados, TypeOK
  <2>2. CASE ~Contains(block, atendido)
    <3>1. lio' = "buscar_susp" /\ UNCHANGED <<block, estado, ready, atendido>>
      BY <1>3, <2>2 DEF BuscarEnBlock
    <3> QED BY <1>3, <3>1 DEF BuscarEnBlock, TypeOK
  <2> QED BY <2>1, <2>2
<1>4. CASE BuscarEnSuspBlock
  <2>1. CASE Contains(suspBlock, atendido)
    <3>1. atendido \in Procesos
      BY <2>1, ListasTipo, ContieneTipo
    <3>2. /\ suspBlock' = RemoveFirst(suspBlock, atendido) /\ sacado' = atendido
          /\ lio' = "agregar" /\ atendido' = NADIE
      BY <1>4, <2>1 DEF BuscarEnSuspBlock
    <3>3. suspBlock' \in Seq(Procesos)
      BY <3>2, ListasTipo, RemoveFirstProperties
    <3> QED BY <1>4, <2>1, <3>1, <3>2, <3>3 DEF BuscarEnSuspBlock, CambiarEstado, Estados, TypeOK
  <2>2. CASE ~Contains(suspBlock, atendido)
    <3>1. lio' = "esperar" /\ atendido' = NADIE /\ UNCHANGED <<suspBlock, estado, sacado>>
      BY <1>4, <2>2 DEF BuscarEnSuspBlock
    <3> QED BY <1>4, <3>1 DEF BuscarEnSuspBlock, TypeOK
  <2> QED BY <2>1, <2>2
<1>8. CASE AgregarASuspReady
  <2>1. sacado \in Procesos
    BY <1>8 DEF AgregarASuspReady, EnManos, TypeOK
  <2>2. suspReady' \in Seq(Procesos)
    BY <1>8, <2>1, ListasTipo, AppendProperties DEF AgregarASuspReady
  <2> QED BY <1>8, <2>2 DEF AgregarASuspReady, control, TypeOK
<1>5. CASE FallarIO
  <2>1. fallas' \in 0 .. MaxFallas
    <3>1. MaxFallas \in Nat
      BY BoundsAssumption
    <3>2. fallas \in 0 .. MaxFallas
      BY DEF TypeOK
    <3>3. fallas < MaxFallas /\ fallas' = fallas + 1
      BY <1>5 DEF FallarIO
    <3> QED BY <3>1, <3>2, <3>3
  <2> QED BY <1>5, <2>1 DEF FallarIO, control, listas, TypeOK
<1>6. CASE Drenar \/ QuitarInterfaz
  <2>1. <<>> \in Seq(Procesos)
    OBVIOUS
  <2>2. cola' \in Seq(Procesos)
    BY <1>6, <2>1 DEF Drenar, QuitarInterfaz
  <2> QED BY <1>6, <2>2 DEF Drenar, QuitarInterfaz, control, listas, TypeOK
<1>7. CASE RegistrarInterfaz
  BY <1>7 DEF RegistrarInterfaz, control, listas, TypeOK
<1> QED BY <1>1, <1>2, <1>3, <1>4, <1>5, <1>6, <1>7, <1>8 DEF Listener

LEMMA TipoDespachar ==
  ASSUME TypeOK, Despachar
  PROVE  TypeOK'
<1>1. Head(ready) \in Procesos /\ Tail(ready) \in Seq(Procesos)
  BY ListasTipo, PrimeroTipo DEF Despachar
<1> QED BY <1>1 DEF Despachar, CambiarEstado, IrA, Estados, PCs, reanudaciones, suspensiones,
           interfaz, memoria, TypeOK

LEMMA TipoPaso == TypeOK /\ Reanudando /\ Confirmacion /\ EnManos /\ [Next]_vars => TypeOK'
<1> SUFFICES ASSUME TypeOK, Reanudando, Confirmacion, EnManos, [Next]_vars PROVE TypeOK'
  OBVIOUS
<1>1. CASE UNCHANGED vars
  BY <1>1 DEF vars, control, listas, reanudaciones, suspensiones, interfaz, memoria, TypeOK
<1> QED BY <1>1, TipoDespachar, TipoCpu, TipoManejador, TipoHiloSuspension, TipoEscuchar,
           TipoListener DEF Next

(***************************************************************************)
(* Places                                                                   *)
(***************************************************************************)
EnReady == <<"ready", NADIE>>
EnBlock == <<"block", NADIE>>
EnSuspBlock == <<"susp_block", NADIE>>
EnSuspReady == <<"susp_ready", NADIE>>
EnLaCpu == <<"cpu", NADIE>>
EnElListener == <<"listener", NADIE>>
Candidato(t) == <<"candidato", t>>

LEMMA SonSitios ==
  /\ {EnReady, EnBlock, EnSuspBlock, EnSuspReady, EnLaCpu, EnElListener} \subseteq Sitios
  /\ \A t \in Reanudadores : Candidato(t) \in Sitios
BY DEF Sitios, EnReady, EnBlock, EnSuspBlock, EnSuspReady, EnLaCpu, EnElListener, Candidato

LEMMA SitiosDef ==
  ASSUME NEW s \in Sitios
  PROVE  \/ s \in {EnReady, EnBlock, EnSuspBlock, EnSuspReady, EnLaCpu, EnElListener}
         \/ \E t \in Reanudadores : s = Candidato(t)
BY DEF Sitios, EnReady, EnBlock, EnSuspBlock, EnSuspReady, EnLaCpu, EnElListener, Candidato

LEMMA SitiosDistintos ==
  /\ EnReady # EnBlock /\ EnReady # EnSuspBlock /\ EnReady # EnSuspReady /\ EnReady # EnLaCpu
  /\ EnBlock # EnSuspBlock /\ EnBlock # EnSuspReady /\ EnBlock # EnLaCpu
  /\ EnSuspBlock # EnSuspReady /\ EnSuspBlock # EnLaCpu /\ EnSuspReady # EnLaCpu
  /\ EnElListener \notin {EnReady, EnBlock, EnSuspBlock, EnSuspReady, EnLaCpu}
  /\ \A t : /\ Candidato(t) # EnReady /\ Candidato(t) # EnBlock /\ Candidato(t) # EnSuspBlock
            /\ Candidato(t) # EnSuspReady /\ Candidato(t) # EnLaCpu /\ Candidato(t) # EnElListener
  /\ \A t, u : Candidato(t) = Candidato(u) <=> t = u
BY DEF EnReady, EnBlock, EnSuspBlock, EnSuspReady, EnLaCpu, EnElListener, Candidato

LEMMA EstaDef ==
  ASSUME NEW p
  PROVE  /\ Esta(p, EnReady) <=> Contains(ready, p)
         /\ Esta(p, EnBlock) <=> Contains(block, p)
         /\ Esta(p, EnSuspBlock) <=> Contains(suspBlock, p)
         /\ Esta(p, EnSuspReady) <=> Contains(suspReady, p)
         /\ Esta(p, EnLaCpu) <=> EnCpu(p)
         /\ Esta(p, EnElListener) <=> sacado = p
         /\ \A t : Esta(p, Candidato(t)) <=> Contains(candidatos[t], p)
BY DEF Esta, EnReady, EnBlock, EnSuspBlock, EnSuspReady, EnLaCpu, EnElListener, Candidato

LEMMA EstaDefPrima ==
  ASSUME NEW p
  PROVE  /\ Esta(p, EnReady)' <=> Contains(ready', p)
         /\ Esta(p, EnBlock)' <=> Contains(block', p)
         /\ Esta(p, EnSuspBlock)' <=> Contains(suspBlock', p)
         /\ Esta(p, EnSuspReady)' <=> Contains(suspReady', p)
         /\ Esta(p, EnLaCpu)' <=> EnCpu(p)'
         /\ Esta(p, EnElListener)' <=> sacado' = p
         /\ \A t : Esta(p, Candidato(t))' <=> Contains(candidatos'[t], p)
BY DEF Esta, EnReady, EnBlock, EnSuspBlock, EnSuspReady, EnLaCpu, EnElListener, Candidato

LEMMA EstadosEnDef ==
  /\ EstadosEn(EnReady) = {"READY"} /\ EstadosEn(EnBlock) = {"BLOCK"}
  /\ EstadosEn(EnSuspBlock) = {"SUSP_BLOCK"} /\ EstadosEn(EnSuspReady) = {"SUSP_READY"}
  /\ EstadosEn(EnLaCpu) = {"EXEC"} /\ EstadosEn(EnElListener) = {"SUSP_READY"}
  /\ \A t : EstadosEn(Candidato(t)) = {"SUSP_BLOCK", "SUSP_READY"}
BY DEF EstadosEn, EnReady, EnBlock, EnSuspBlock, EnSuspReady, EnLaCpu, EnElListener, Candidato

(* The estado of a process, by where it is.                                 *)
LEMMA EstadoDe ==
  ASSUME EnUnaSolaLista, NEW p \in Procesos
  PROVE  /\ Contains(ready, p) => estado[p] = "READY"
         /\ Contains(block, p) => estado[p] = "BLOCK"
         /\ Contains(suspBlock, p) => estado[p] = "SUSP_BLOCK"
         /\ Contains(suspReady, p) => estado[p] = "SUSP_READY"
         /\ EnCpu(p) => estado[p] = "EXEC"
         /\ sacado = p => estado[p] = "SUSP_READY"
         /\ \A t \in Reanudadores :
              Contains(candidatos[t], p) => estado[p] \in {"SUSP_BLOCK", "SUSP_READY"}
<1>1. \A s \in Sitios : Esta(p, s) => estado[p] \in EstadosEn(s)
  BY DEF EnUnaSolaLista
<1> QED BY <1>1, SonSitios, EstaDef, EstadosEnDef

LEMMA Quietos ==
  ASSUME EnUnaSolaLista, UNCHANGED <<estado, listas, candidatos, sacado>>,
         \A q \in Procesos : EnCpu(q)' <=> EnCpu(q)
  PROVE  EnUnaSolaLista'
<1>1. UNCHANGED <<ready, block, suspBlock, suspReady>>
  BY DEF listas
<1>2. ASSUME NEW q \in Procesos, NEW s \in Sitios PROVE Esta(q, s)' <=> Esta(q, s)
  BY <1>1, SitiosDef, EstaDef, EstaDefPrima
<1>3. Sitios' = Sitios /\ \A s : EstadosEn(s)' = EstadosEn(s)
  BY DEF Sitios, EstadosEn
<1> QED BY <1>1, <1>2, <1>3 DEF EnUnaSolaLista

(* The lists have no repetitions, and who is where after p moves.           *)
SinRepetir ==
  /\ IsInjective(ready) /\ IsInjective(block) /\ IsInjective(suspBlock)
  /\ IsInjective(suspReady) /\ \A t \in Reanudadores : IsInjective(candidatos[t])
Pasa(p, de, a) ==
  \A q \in Procesos :
    /\ Contains(ready', q) <=>
         (q = p /\ a = EnReady) \/ (Contains(ready, q) /\ ~(q = p /\ de = EnReady))
    /\ Contains(block', q) <=>
         (q = p /\ a = EnBlock) \/ (Contains(block, q) /\ ~(q = p /\ de = EnBlock))
    /\ Contains(suspBlock', q) <=>
         (q = p /\ a = EnSuspBlock) \/ (Contains(suspBlock, q) /\ ~(q = p /\ de = EnSuspBlock))
    /\ Contains(suspReady', q) <=>
         (q = p /\ a = EnSuspReady) \/ (Contains(suspReady, q) /\ ~(q = p /\ de = EnSuspReady))
    /\ EnCpu(q)' <=> (q = p /\ a = EnLaCpu) \/ (EnCpu(q) /\ ~(q = p /\ de = EnLaCpu))
    /\ sacado' = q <=> (q = p /\ a = EnElListener) \/ (sacado = q /\ ~(q = p /\ de = EnElListener))
    /\ \A t \in Reanudadores : Contains(candidatos'[t], q) <=>
         (q = p /\ a = Candidato(t)) \/ (Contains(candidatos[t], q) /\ ~(q = p /\ de = Candidato(t)))

(* The process p moves from one place to another, or to none if it has ended. *)
LEMMA Mudanza ==
  ASSUME TypeOK, EnUnaSolaLista, NEW p \in Procesos, NEW de \in Sitios, Esta(p, de), NEW a,
         estado'[p] # "EXIT" => a \in Sitios,
         a \in Sitios => estado'[p] \in EstadosEn(a),
         \A q \in Procesos : q # p => estado'[q] = estado[q],
         SinRepetir', Pasa(p, de, a)
  PROVE  EnUnaSolaLista'
<1>1. ASSUME NEW q \in Procesos, NEW s \in Sitios
      PROVE  Esta(q, s)' <=> (q = p /\ s = a) \/ (Esta(q, s) /\ ~(q = p /\ s = de))
  <2> USE DEF Pasa
  <2>1. CASE \E t \in Reanudadores : s = Candidato(t)
    BY <2>1, EstaDef, EstaDefPrima
  <2>2. CASE s = EnReady
    BY <2>2, EstaDef, EstaDefPrima
  <2>3. CASE s = EnBlock
    BY <2>3, EstaDef, EstaDefPrima
  <2>4. CASE s = EnSuspBlock
    BY <2>4, EstaDef, EstaDefPrima
  <2>5. CASE s = EnSuspReady
    BY <2>5, EstaDef, EstaDefPrima
  <2>6. CASE s = EnLaCpu
    BY <2>6, EstaDef, EstaDefPrima
  <2>7. CASE s = EnElListener
    BY <2>7, EstaDef, EstaDefPrima
  <2> QED BY <2>1, <2>2, <2>3, <2>4, <2>5, <2>6, <2>7, SitiosDef
<1>2. \A q \in Procesos : /\ \A s \in Sitios : Esta(q, s) => estado[q] \in EstadosEn(s)
                          /\ \A s, t \in Sitios : Esta(q, s) /\ Esta(q, t) => s = t
                          /\ estado[q] # "EXIT" => \E s \in Sitios : Esta(q, s)
  BY DEF EnUnaSolaLista
<1>3. \A s \in Sitios : Esta(p, s)' <=> s = a
  BY <1>1, <1>2
<1>4. \A q \in Procesos : q # p => \A s \in Sitios : Esta(q, s)' <=> Esta(q, s)
  BY <1>1
<1>5. Sitios' = Sitios /\ \A s : EstadosEn(s)' = EstadosEn(s)
  BY DEF Sitios, EstadosEn
<1>6. ASSUME NEW q \in Procesos
      PROVE  /\ \A s \in Sitios : Esta(q, s)' => estado'[q] \in EstadosEn(s)
             /\ \A s, t \in Sitios : Esta(q, s)' /\ Esta(q, t)' => s = t
             /\ estado'[q] # "EXIT" => \E s \in Sitios : Esta(q, s)'
  <2>1. CASE q = p
    BY <1>3, <2>1
  <2>2. CASE q # p
    BY <1>2, <1>4, <2>2
  <2> QED BY <2>1, <2>2
<1> QED BY <1>5, <1>6 DEF EnUnaSolaLista, SinRepetir

LEMMA ListasUnaVez ==
  ASSUME TypeOK, EnUnaSolaLista
  PROVE  /\ ready \in Seq(Procesos) /\ IsInjective(ready)
         /\ block \in Seq(Procesos) /\ IsInjective(block)
         /\ suspBlock \in Seq(Procesos) /\ IsInjective(suspBlock)
         /\ suspReady \in Seq(Procesos) /\ IsInjective(suspReady)
         /\ \A t \in Reanudadores : candidatos[t] \in Seq(Procesos) /\ IsInjective(candidatos[t])
BY ListasTipo DEF EnUnaSolaLista

LEMMA NoEsta ==
  ASSUME EnUnaSolaLista, NEW p \in Procesos, NEW de \in Sitios, Esta(p, de)
  PROVE  /\ de # EnReady => ~Contains(ready, p)
         /\ de # EnBlock => ~Contains(block, p)
         /\ de # EnSuspBlock => ~Contains(suspBlock, p)
         /\ de # EnSuspReady => ~Contains(suspReady, p)
         /\ de # EnLaCpu => ~EnCpu(p)
         /\ de # EnElListener => sacado # p
         /\ \A t \in Reanudadores : de # Candidato(t) => ~Contains(candidatos[t], p)
<1>1. \A s \in Sitios : Esta(p, s) => s = de
  BY DEF EnUnaSolaLista
<1> QED BY <1>1, SonSitios, EstaDef

LEMMA LugaresDespachar ==
  ASSUME TypeOK, EnUnaSolaLista, Despachar
  PROVE  EnUnaSolaLista'
<1> DEFINE p == Head(ready)
<1>1. /\ ready # <<>> /\ ready' = Tail(ready)
      /\ estado' = [estado EXCEPT ![p] = "EXEC"] /\ pc' = [pc EXCEPT ![p] = "corre"]
      /\ UNCHANGED <<block, suspBlock, suspReady, candidatos, sacado>>
  BY DEF Despachar, CambiarEstado, IrA, reanudaciones, interfaz
<1>2. /\ p \in Procesos /\ Contains(ready, p) /\ IsInjective(ready')
      /\ \A q : Contains(ready', q) <=> Contains(ready, q) /\ q # p
  BY <1>1, ListasUnaVez, SinPrimero
<1> HIDE DEF p
<1>3. EnReady \in Sitios /\ EnLaCpu \in Sitios /\ Esta(p, EnReady)
  BY <1>2, SonSitios, EstaDef
<1>4. /\ estado'[p] = "EXEC" /\ \A q \in Procesos : q # p => estado'[q] = estado[q]
      /\ pc'[p] = "corre" /\ \A q \in Procesos : q # p => pc'[q] = pc[q]
  BY <1>1, <1>2 DEF TypeOK
<1>5. \A q \in Procesos : EnCpu(q)' <=> q = p \/ EnCpu(q)
  BY <1>4 DEF EnCpu
<1>6. SinRepetir'
  BY <1>1, <1>2, ListasUnaVez DEF SinRepetir
<1>7. Pasa(p, EnReady, EnLaCpu)
  BY <1>1, <1>2, <1>5, SitiosDistintos DEF Pasa
<1>8. estado'[p] \in EstadosEn(EnLaCpu)
  BY <1>4, EstadosEnDef
<1> QED BY <1>2, <1>3, <1>4, <1>6, <1>7, <1>8, Mudanza

LEMMA LugaresCpu ==
  ASSUME TypeOK, EnUnaSolaLista, NEW p \in Procesos, Cpu(p)
  PROVE  EnUnaSolaLista'
<1>1. pc[p] = "corre" /\ EnCpu(p) /\ Esta(p, EnLaCpu) /\ EnLaCpu \in Sitios
  BY SonSitios, EstaDef DEF Cpu, SyscallIO, SyscallMemAlloc, SyscallExit, EnCpu
<1>2. CASE SyscallIO(p)
  <2>1. /\ estado' = [estado EXCEPT ![p] = "BLOCK"] /\ pc' = [pc EXCEPT ![p] = "encolar"]
        /\ block' = Append(block, p) /\ UNCHANGED <<ready, suspBlock, suspReady, candidatos, sacado>>
    BY <1>2 DEF SyscallIO, CambiarEstado, IrA, reanudaciones, interfaz
  <2>2. IsInjective(block') /\ \A q : Contains(block', q) <=> Contains(block, q) \/ q = p
    BY <1>1, <2>1, NoEsta, SitiosDistintos, ListasUnaVez, AlFinal
  <2>3. /\ estado'[p] = "BLOCK" /\ \A q \in Procesos : q # p => estado'[q] = estado[q]
        /\ pc'[p] = "encolar" /\ \A q \in Procesos : q # p => pc'[q] = pc[q]
    BY <2>1 DEF TypeOK
  <2>4. \A q \in Procesos : EnCpu(q)' <=> q # p /\ EnCpu(q)
    BY <2>3 DEF EnCpu
  <2>5. SinRepetir'
    BY <2>1, <2>2, ListasUnaVez DEF SinRepetir
  <2>6. Pasa(p, EnLaCpu, EnBlock)
    BY <2>1, <2>2, <2>4, SitiosDistintos DEF Pasa
  <2>7. EnBlock \in Sitios /\ estado'[p] \in EstadosEn(EnBlock)
    BY <2>3, SonSitios, EstadosEnDef
  <2> QED BY <1>1, <2>3, <2>5, <2>6, <2>7, Mudanza
<1>3. CASE SyscallMemAlloc(p)
  <2>1. \A q \in Procesos : EnCpu(q)' <=> EnCpu(q)
    BY <1>1, <1>3 DEF SyscallMemAlloc, IrA, EnCpu, TypeOK
  <2> QED BY <1>3, <2>1, Quietos DEF SyscallMemAlloc, reanudaciones, interfaz
<1>4. CASE SyscallExit(p)
  <2> DEFINE a == <<"fin", NADIE>>
  <2>1. /\ estado' = [estado EXCEPT ![p] = "EXIT"] /\ pc' = [pc EXCEPT ![p] = "finalizar"]
        /\ UNCHANGED <<ready, block, suspBlock, suspReady, candidatos, sacado>>
    BY <1>4 DEF SyscallExit, CambiarEstado, IrA, reanudaciones, listas, interfaz
  <2>2. a \notin Sitios
    BY DEF Sitios
  <2>3. a # EnReady /\ a # EnBlock /\ a # EnSuspBlock /\ a # EnSuspReady /\ a # EnLaCpu
        /\ a # EnElListener /\ \A t : a # Candidato(t)
    BY DEF EnReady, EnBlock, EnSuspBlock, EnSuspReady, EnLaCpu, EnElListener, Candidato
  <2>4. /\ estado'[p] = "EXIT" /\ \A q \in Procesos : q # p => estado'[q] = estado[q]
        /\ pc'[p] = "finalizar" /\ \A q \in Procesos : q # p => pc'[q] = pc[q]
    BY <2>1 DEF TypeOK
  <2>5. \A q \in Procesos : EnCpu(q)' <=> q # p /\ EnCpu(q)
    BY <2>4 DEF EnCpu
  <2> HIDE DEF a
  <2>6. SinRepetir'
    BY <2>1, ListasUnaVez DEF SinRepetir
  <2>7. Pasa(p, EnLaCpu, a)
    BY <2>1, <2>3, <2>5, SitiosDistintos DEF Pasa
  <2> QED BY <1>1, <2>2, <2>4, <2>6, <2>7, Mudanza
<1> QED BY <1>2, <1>3, <1>4 DEF Cpu

LEMMA LugaresSuspender ==
  ASSUME TypeOK, EnUnaSolaLista, NEW p \in Procesos, NEW k, Suspender(p, k)
  PROVE  EnUnaSolaLista'
<1>1. /\ Contains(block, p) /\ block' = RemoveFirst(block, p) /\ suspBlock' = Append(suspBlock, p)
      /\ estado' = [estado EXCEPT ![p] = "SUSP_BLOCK"]
      /\ UNCHANGED <<ready, suspReady, candidatos, pc, sacado>>
  BY DEF Suspender, CambiarEstado, reanudaciones, interfaz
<1>2. Esta(p, EnBlock) /\ EnBlock \in Sitios /\ EnSuspBlock \in Sitios
  BY <1>1, SonSitios, EstaDef
<1>3. IsInjective(block') /\ \A q : Contains(block', q) <=> Contains(block, q) /\ q # p
  BY <1>1, ListasUnaVez, SinElegido
<1>4. IsInjective(suspBlock') /\ \A q : Contains(suspBlock', q) <=> Contains(suspBlock, q) \/ q = p
  BY <1>1, <1>2, NoEsta, SitiosDistintos, ListasUnaVez, AlFinal
<1>5. estado'[p] = "SUSP_BLOCK" /\ \A q \in Procesos : q # p => estado'[q] = estado[q]
  BY <1>1 DEF TypeOK
<1>6. \A q \in Procesos : EnCpu(q)' <=> EnCpu(q)
  BY <1>1 DEF EnCpu
<1>7. SinRepetir'
  BY <1>1, <1>3, <1>4, ListasUnaVez DEF SinRepetir
<1>8. Pasa(p, EnBlock, EnSuspBlock)
  BY <1>1, <1>3, <1>4, <1>6, SitiosDistintos DEF Pasa
<1> QED BY <1>2, <1>5, <1>7, <1>8, EstadosEnDef, Mudanza

LEMMA LugaresListener ==
  ASSUME TypeOK, EnManos, EnUnaSolaLista,
         BuscarEnBlock \/ BuscarEnSuspBlock \/ AgregarASuspReady
  PROVE  EnUnaSolaLista'
<1> DEFINE p == atendido
<1>1. CASE BuscarEnBlock /\ Contains(block, p)
  <2>1. /\ block' = RemoveFirst(block, p) /\ ready' = Append(ready, p)
        /\ estado' = [estado EXCEPT ![p] = "READY"]
        /\ UNCHANGED <<suspBlock, suspReady, candidatos, pc, sacado>>
    BY <1>1 DEF BuscarEnBlock, CambiarEstado, reanudaciones
  <2>2. p \in Procesos /\ Esta(p, EnBlock) /\ EnBlock \in Sitios /\ EnReady \in Sitios
    BY <1>1, ListasTipo, ContieneTipo, SonSitios, EstaDef
  <2> HIDE DEF p
  <2>3. IsInjective(block') /\ \A q : Contains(block', q) <=> Contains(block, q) /\ q # p
    BY <2>1, ListasUnaVez, SinElegido
  <2>4. IsInjective(ready') /\ \A q : Contains(ready', q) <=> Contains(ready, q) \/ q = p
    BY <2>1, <2>2, NoEsta, SitiosDistintos, ListasUnaVez, AlFinal
  <2>5. estado'[p] = "READY" /\ \A q \in Procesos : q # p => estado'[q] = estado[q]
    BY <2>1, <2>2 DEF TypeOK
  <2>6. \A q \in Procesos : EnCpu(q)' <=> EnCpu(q)
    BY <2>1 DEF EnCpu
  <2>7. SinRepetir'
    BY <2>1, <2>3, <2>4, ListasUnaVez DEF SinRepetir
  <2>8. Pasa(p, EnBlock, EnReady)
    BY <2>1, <2>3, <2>4, <2>6, SitiosDistintos DEF Pasa
  <2> QED BY <2>2, <2>5, <2>7, <2>8, EstadosEnDef, Mudanza
<1>2. CASE BuscarEnSuspBlock /\ Contains(suspBlock, p)
  <2>1. /\ suspBlock' = RemoveFirst(suspBlock, p) /\ sacado' = p /\ sacado = NADIE
        /\ estado' = [estado EXCEPT ![p] = "SUSP_READY"]
        /\ UNCHANGED <<ready, block, suspReady, candidatos, pc>>
    BY <1>2 DEF BuscarEnSuspBlock, CambiarEstado, reanudaciones, EnManos
  <2>2. p \in Procesos /\ Esta(p, EnSuspBlock) /\ EnSuspBlock \in Sitios /\ EnElListener \in Sitios
    BY <1>2, ListasTipo, ContieneTipo, SonSitios, EstaDef
  <2> HIDE DEF p
  <2>3. IsInjective(suspBlock') /\ \A q : Contains(suspBlock', q) <=> Contains(suspBlock, q) /\ q # p
    BY <2>1, ListasUnaVez, SinElegido
  <2>4. \A q \in Procesos : sacado # q /\ (sacado' = q <=> q = p)
    BY <2>1, NadieProcesoAssumption
  <2>5. estado'[p] = "SUSP_READY" /\ \A q \in Procesos : q # p => estado'[q] = estado[q]
    BY <2>1, <2>2 DEF TypeOK
  <2>6. \A q \in Procesos : EnCpu(q)' <=> EnCpu(q)
    BY <2>1 DEF EnCpu
  <2>7. SinRepetir'
    BY <2>1, <2>3, ListasUnaVez DEF SinRepetir
  <2>8. Pasa(p, EnSuspBlock, EnElListener)
    BY <2>1, <2>3, <2>4, <2>6, SitiosDistintos DEF Pasa
  <2> QED BY <2>2, <2>5, <2>7, <2>8, EstadosEnDef, Mudanza
<1>4. CASE AgregarASuspReady
  <2> DEFINE q0 == sacado
  <2>1. /\ suspReady' = Append(suspReady, q0) /\ sacado' = NADIE
        /\ UNCHANGED <<estado, ready, block, suspBlock, candidatos, pc>>
    BY <1>4 DEF AgregarASuspReady, control, reanudaciones
  <2>2. q0 \in Procesos /\ Esta(q0, EnElListener) /\ EnElListener \in Sitios /\ EnSuspReady \in Sitios
    BY <1>4, SonSitios, EstaDef DEF AgregarASuspReady, EnManos, TypeOK
  <2>3. \A q \in Procesos : sacado' # q /\ (sacado = q <=> q = q0)
    BY <2>1, NadieProcesoAssumption
  <2> HIDE DEF q0
  <2>4. IsInjective(suspReady') /\ \A q : Contains(suspReady', q) <=> Contains(suspReady, q) \/ q = q0
    BY <2>1, <2>2, NoEsta, SitiosDistintos, ListasUnaVez, AlFinal
  <2>5. estado'[q0] = "SUSP_READY" /\ \A q \in Procesos : q # q0 => estado'[q] = estado[q]
    BY <2>1, <2>2, EstaDef, EstadoDe
  <2>6. \A q \in Procesos : EnCpu(q)' <=> EnCpu(q)
    BY <2>1 DEF EnCpu
  <2>7. SinRepetir'
    BY <2>1, <2>4, ListasUnaVez DEF SinRepetir
  <2>8. Pasa(q0, EnElListener, EnSuspReady)
    BY <2>1, <2>3, <2>4, <2>6, SitiosDistintos DEF Pasa
  <2> QED BY <2>2, <2>5, <2>7, <2>8, EstadosEnDef, Mudanza
<1>3. CASE \/ BuscarEnBlock /\ ~Contains(block, p)
           \/ BuscarEnSuspBlock /\ ~Contains(suspBlock, p)
  <2>1. UNCHANGED <<estado, ready, block, suspBlock, suspReady, candidatos, pc, sacado>>
    BY <1>3 DEF BuscarEnBlock, BuscarEnSuspBlock, reanudaciones
  <2> QED BY <2>1, Quietos DEF listas, EnCpu
<1> QED BY <1>1, <1>2, <1>3, <1>4

(* The candidates are all the suspended ones: the two lists become one.      *)
LEMMA LugaresJuntar ==
  ASSUME TypeOK, EnUnaSolaLista, NEW t \in Reanudadores, candidatos[t] = <<>>,
         JuntarCandidatos(t), UNCHANGED <<estado, ready, block, sacado>>,
         \A q \in Procesos : EnCpu(q)' <=> EnCpu(q)
  PROVE  EnUnaSolaLista'
<1> DEFINE juntos == suspReady \o suspBlock
<1>1. /\ suspReady' = <<>> /\ suspBlock' = <<>> /\ candidatos'[t] = juntos
      /\ \A u \in Reanudadores : u # t => candidatos'[u] = candidatos[u]
  BY DEF JuntarCandidatos, TypeOK
<1>2. IsInjective(juntos) /\ \A q : Contains(juntos, q) <=> Contains(suspReady, q) \/ Contains(suspBlock, q)
  <2>1. \A q \in Procesos : ~(Contains(suspReady, q) /\ Contains(suspBlock, q))
    BY EstadoDe
  <2> QED BY <2>1, ListasUnaVez, ConcatLista
<1>3. \A q : ~Contains(<<>>, q)
  BY DEF Contains
<1>4. IsInjective(<<>>)
  BY DEF IsInjective
<1> HIDE DEF juntos
<1>5. SinRepetir'
  BY <1>1, <1>2, <1>4, ListasUnaVez DEF SinRepetir
<1> DEFINE de == {EnSuspReady, EnSuspBlock}
<1>6. ASSUME NEW q \in Procesos, NEW s \in Sitios
      PROVE  /\ s \in de => ~Esta(q, s)'
             /\ s = Candidato(t) => (Esta(q, s)' <=> Esta(q, EnSuspReady) \/ Esta(q, EnSuspBlock))
             /\ s = Candidato(t) => ~Esta(q, s)
             /\ s \notin de /\ s # Candidato(t) => (Esta(q, s)' <=> Esta(q, s))
  <2>1. CASE \E u \in Reanudadores : s = Candidato(u)
    BY <2>1, <1>1, <1>2, <1>3, EstaDef, EstaDefPrima, SitiosDistintos
  <2>2. CASE s \in {EnReady, EnBlock, EnLaCpu, EnElListener}
    BY <2>2, EstaDef, EstaDefPrima, SitiosDistintos
  <2>3. CASE s \in de
    BY <2>3, <1>1, <1>3, EstaDefPrima, SitiosDistintos
  <2> QED BY <2>1, <2>2, <2>3, SitiosDef
<1>7. EnSuspReady \in Sitios /\ EnSuspBlock \in Sitios /\ Candidato(t) \in Sitios
  BY SonSitios
<1>8. \A q \in Procesos : /\ \A s \in Sitios : Esta(q, s) => estado[q] \in EstadosEn(s)
                          /\ \A s, u \in Sitios : Esta(q, s) /\ Esta(q, u) => s = u
                          /\ estado[q] # "EXIT" => \E s \in Sitios : Esta(q, s)
  BY DEF EnUnaSolaLista
<1>9. ASSUME NEW q \in Procesos
      PROVE  /\ \A s \in Sitios : Esta(q, s)' => estado'[q] \in EstadosEn(s)
             /\ \A s, u \in Sitios : Esta(q, s)' /\ Esta(q, u)' => s = u
             /\ estado'[q] # "EXIT" => \E s \in Sitios : Esta(q, s)'
  <2>1. CASE Esta(q, EnSuspReady) \/ Esta(q, EnSuspBlock)
    <3>1. \A s \in Sitios : Esta(q, s)' <=> s = Candidato(t)
      BY <1>6, <1>7, <1>8, <2>1
    <3>2. estado[q] \in EstadosEn(Candidato(t))
      BY <1>7, <1>8, <2>1, EstadosEnDef
    <3> QED BY <1>7, <3>1, <3>2
  <2>2. CASE ~(Esta(q, EnSuspReady) \/ Esta(q, EnSuspBlock))
    <3>1. \A s \in Sitios : Esta(q, s)' <=> Esta(q, s)
      BY <1>6, <2>2
    <3> QED BY <1>8, <3>1
  <2> QED BY <2>1, <2>2
<1>10. Sitios' = Sitios /\ \A s : EstadosEn(s)' = EstadosEn(s)
  BY DEF Sitios, EstadosEn
<1> QED BY <1>5, <1>9, <1>10 DEF EnUnaSolaLista, SinRepetir

(* The candidate goes to one of the four lists.                             *)
LEMMA LugaresRecolocar ==
  ASSUME TypeOK, Reanudando, EnUnaSolaLista, NEW t \in Reanudadores, Recolocar(t),
         UNCHANGED <<pc, sacado>>
  PROVE  EnUnaSolaLista'
<1> DEFINE p == Head(candidatos[t])
           de == Candidato(t)
           termino == estado[p] = "SUSP_READY"
           ok == ack[t] = "ok"
<1>1. candidatos[t] # <<>> /\ candidatos[t] \in Seq(Procesos) /\ IsInjective(candidatos[t])
  BY CandidatoTipo, ListasUnaVez DEF Recolocar
<1>2. /\ candidatos'[t] = Tail(candidatos[t])
      /\ \A u \in Reanudadores : u # t => candidatos'[u] = candidatos[u]
  BY DEF Recolocar, TypeOK
<1>3. /\ p \in Procesos /\ Contains(candidatos[t], p) /\ IsInjective(candidatos'[t])
      /\ \A q : Contains(candidatos'[t], q) <=> Contains(candidatos[t], q) /\ q # p
  BY <1>1, <1>2, SinPrimero
<1>4. /\ estado' = IF ok THEN [estado EXCEPT ![p] = IF termino THEN "READY" ELSE "BLOCK"] ELSE estado
      /\ ready' = IF ok /\ termino THEN Append(ready, p) ELSE ready
      /\ block' = IF ok /\ ~termino THEN Append(block, p) ELSE block
      /\ suspReady' = IF ~ok /\ termino THEN Append(suspReady, p) ELSE suspReady
      /\ suspBlock' = IF ~ok /\ ~termino THEN Append(suspBlock, p) ELSE suspBlock
  BY DEF Recolocar, CambiarEstado
<1> HIDE DEF p, ok
<1>5. de \in Sitios /\ Esta(p, de) /\ estado[p] \in {"SUSP_BLOCK", "SUSP_READY"}
  BY <1>3, SonSitios, EstaDef, EstadoDe
<1>6. /\ ~Contains(ready, p) /\ ~Contains(block, p) /\ ~Contains(suspReady, p) /\ ~Contains(suspBlock, p)
      /\ sacado # p /\ \A u \in Reanudadores : u # t => ~Contains(candidatos[u], p)
  BY <1>3, <1>5, NoEsta, SitiosDistintos
<1>7. /\ estado'[p] = IF ok THEN IF termino THEN "READY" ELSE "BLOCK" ELSE estado[p]
      /\ \A q \in Procesos : q # p => estado'[q] = estado[q]
  BY <1>3, <1>4 DEF TypeOK
<1>8. \A s \in {ready, block, suspReady, suspBlock} :
        IsInjective(s) /\ (~Contains(s, p) => IsInjective(Append(s, p))
                             /\ \A q : Contains(Append(s, p), q) <=> Contains(s, q) \/ q = p)
  BY <1>3, ListasUnaVez, AlFinal
<1>9. SinRepetir'
  <2>1. IsInjective(ready') /\ IsInjective(block') /\ IsInjective(suspReady') /\ IsInjective(suspBlock')
    BY <1>4, <1>6, <1>8
  <2>2. \A u \in Reanudadores : IsInjective(candidatos'[u])
    BY <1>2, <1>3, ListasUnaVez
  <2> QED BY <2>1, <2>2 DEF SinRepetir
<1>10. \A q \in Procesos : EnCpu(q)' <=> EnCpu(q)
  BY DEF EnCpu
<1>11. \A q \in Procesos, u \in Reanudadores :
         Contains(candidatos'[u], q) <=> Contains(candidatos[u], q) /\ ~(q = p /\ u = t)
  BY <1>2, <1>3
<1> HIDE DEF termino
<1>12. ASSUME ok, termino PROVE EnUnaSolaLista'
  <2>1. Pasa(p, de, EnReady)
    BY <1>4, <1>6, <1>8, <1>10, <1>11, <1>12, SitiosDistintos DEF Pasa
  <2>2. EnReady \in Sitios /\ estado'[p] \in EstadosEn(EnReady)
    BY <1>7, <1>12, SonSitios, EstadosEnDef
  <2> HIDE DEF de
  <2> QED BY <1>3, <1>5, <1>7, <1>9, <2>1, <2>2, Mudanza
<1>13. ASSUME ok, ~termino PROVE EnUnaSolaLista'
  <2>1. Pasa(p, de, EnBlock)
    BY <1>4, <1>6, <1>8, <1>10, <1>11, <1>13, SitiosDistintos DEF Pasa
  <2>2. EnBlock \in Sitios /\ estado'[p] \in EstadosEn(EnBlock)
    BY <1>7, <1>13, SonSitios, EstadosEnDef
  <2> HIDE DEF de
  <2> QED BY <1>3, <1>5, <1>7, <1>9, <2>1, <2>2, Mudanza
<1>14. ASSUME ~ok, termino PROVE EnUnaSolaLista'
  <2>1. Pasa(p, de, EnSuspReady)
    BY <1>4, <1>6, <1>8, <1>10, <1>11, <1>14, SitiosDistintos DEF Pasa
  <2>2. EnSuspReady \in Sitios /\ estado'[p] \in EstadosEn(EnSuspReady)
    BY <1>7, <1>14, SonSitios, EstadosEnDef DEF termino
  <2> HIDE DEF de
  <2> QED BY <1>3, <1>5, <1>7, <1>9, <2>1, <2>2, Mudanza
<1>15. ASSUME ~ok, ~termino PROVE EnUnaSolaLista'
  <2>1. Pasa(p, de, EnSuspBlock)
    BY <1>4, <1>6, <1>8, <1>10, <1>11, <1>15, SitiosDistintos DEF Pasa
  <2>2. EnSuspBlock \in Sitios /\ estado'[p] \in EstadosEn(EnSuspBlock)
    BY <1>5, <1>7, <1>15, SonSitios, EstadosEnDef DEF termino
  <2> HIDE DEF de
  <2> QED BY <1>3, <1>5, <1>7, <1>9, <2>1, <2>2, Mudanza
<1> QED BY <1>12, <1>13, <1>14, <1>15

LEMMA LugaresManejador ==
  ASSUME TypeOK, Reanudando, EnUnaSolaLista, NEW p \in Procesos, Manejador(p)
  PROVE  EnUnaSolaLista'
<1> USE DEF IrA, reanudaciones, interfaz
<1>0. p \in Reanudadores
  BY DEF Reanudadores
<1>1. CASE \/ EncolarRequest(p) \/ FinalizarProceso(p) \/ KmAlloc(p) \/ KmPideCompactar(p)
           \/ KmEmpiezaACompactar(p) \/ KmTerminaDeCompactar(p) \/ Salir(p)
  <2>1. /\ UNCHANGED <<estado, listas, candidatos, sacado>>
        /\ \E d \in PCs :
             /\ pc' = [pc EXCEPT ![p] = d]
             /\ d \in {"corre", "alloc", "km_espera_ok", "km_compacta"} <=> EnCpu(p)
    BY <1>1 DEF EncolarRequest, FinalizarProceso, KmAlloc, KmPideCompactar, KmEmpiezaACompactar,
       KmTerminaDeCompactar, Salir, EnCpu, PCs
  <2>2. \A q \in Procesos : EnCpu(q)' <=> EnCpu(q)
    BY <2>1 DEF EnCpu, TypeOK
  <2> QED BY <2>1, <2>2, Quietos
<1>2. CASE JuntarAlSalir(p)
  <2>1. \A q \in Procesos : EnCpu(q)' <=> EnCpu(q)
    BY <1>2 DEF JuntarAlSalir, EnCpu, TypeOK
  <2>2. candidatos[p] = <<>>
    BY <1>2 DEF JuntarAlSalir, Reanudando
  <2> QED BY <1>0, <1>2, <2>1, <2>2, LugaresJuntar DEF JuntarAlSalir
<1>3. CASE PedirAlSalir(p)
  BY <1>3, Quietos DEF PedirAlSalir, control, EnCpu
<1>4. CASE RecolocarAlSalir(p)
  BY <1>0, <1>4, LugaresRecolocar DEF RecolocarAlSalir
<1> QED BY <1>1, <1>2, <1>3, <1>4 DEF Manejador

LEMMA LugaresEscuchar ==
  ASSUME TypeOK, Reanudando, EnUnaSolaLista, EscucharKernelMemory
  PROVE  EnUnaSolaLista'
<1>0. ESCUCHAR \in Reanudadores
  BY DEF Reanudadores
<1>1. CASE RecibirNotificacion
  <2>1. UNCHANGED <<estado, pc, ready, block, sacado>> /\ JuntarCandidatos(ESCUCHAR)
    BY <1>1 DEF RecibirNotificacion, control, interfaz
  <2>2. candidatos[ESCUCHAR] = <<>>
    BY <1>1 DEF RecibirNotificacion, Reanudando
  <2> QED BY <1>0, <2>1, <2>2, LugaresJuntar DEF EnCpu
<1>2. CASE PedirPorNotificacion \/ VolverARecibir \/ RecibirCompactar
  <2>1. UNCHANGED <<estado, pc, listas, candidatos, sacado>>
    BY <1>2 DEF PedirPorNotificacion, VolverARecibir, RecibirCompactar, control, reanudaciones,
       interfaz
  <2> QED BY <2>1, Quietos DEF EnCpu
<1>3. CASE RecolocarPorNotificacion
  BY <1>0, <1>3, LugaresRecolocar DEF RecolocarPorNotificacion, interfaz
<1> QED BY <1>1, <1>2, <1>3 DEF EscucharKernelMemory

LEMMA LugaresPaso ==
  TypeOK /\ Reanudando /\ EnManos /\ EnUnaSolaLista /\ [Next]_vars => EnUnaSolaLista'
<1> SUFFICES ASSUME TypeOK, Reanudando, EnManos, EnUnaSolaLista, [Next]_vars
             PROVE  EnUnaSolaLista'
  OBVIOUS
<1>1. ASSUME NEW p \in Procesos, NEW k \in 1 .. MaxIO, HiloSuspension(p, k)
      PROVE  EnUnaSolaLista'
  <2>1. CASE NoSuspender(p, k) \/ AvisarSuspension(p, k)
    <3>1. UNCHANGED <<estado, pc, listas, candidatos, sacado>>
      BY <2>1 DEF NoSuspender, AvisarSuspension, control, reanudaciones, interfaz
    <3> QED BY <3>1, Quietos DEF EnCpu
  <2> QED BY <1>1, <2>1, LugaresSuspender DEF HiloSuspension
<1>2. CASE Listener \/ FallarIO \/ RegistrarInterfaz
  <2>1. CASE \/ TomarRequest \/ EscribirLeido \/ Drenar \/ QuitarInterfaz \/ FallarIO
             \/ RegistrarInterfaz
    <3>1. UNCHANGED <<estado, pc, listas, candidatos, sacado>>
      BY <2>1 DEF TomarRequest, EscribirLeido, Drenar, QuitarInterfaz, FallarIO,
         RegistrarInterfaz, control, reanudaciones
    <3> QED BY <3>1, Quietos DEF EnCpu
  <2> QED BY <1>2, <2>1, LugaresListener DEF Listener
<1>3. CASE UNCHANGED vars
  <2>1. UNCHANGED <<estado, pc, listas, candidatos, sacado>>
    BY <1>3 DEF vars, control, reanudaciones, interfaz
  <2> QED BY <2>1, Quietos DEF EnCpu
<1> QED BY <1>1, <1>2, <1>3, LugaresDespachar, LugaresCpu, LugaresManejador, LugaresEscuchar DEF Next

LEMMA LugaresInit == Init => EnUnaSolaLista
<1> SUFFICES ASSUME Init PROVE EnUnaSolaLista
  OBVIOUS
<1>1. /\ block = <<>> /\ suspBlock = <<>> /\ suspReady = <<>>
      /\ \A t \in Reanudadores : candidatos[t] = <<>>
      /\ \A p \in Procesos : estado[p] = "READY" /\ pc[p] = "fuera" /\ sacado # p
  BY NadieProcesoAssumption DEF Init
<1>2. IsInjective(ready) /\ \A p \in Procesos : Contains(ready, p)
  BY ProcesosAssumption, SetToSeqsFacts DEF Init
<1>3. IsInjective(<<>>) /\ \A p : ~Contains(<<>>, p)
  BY DEF IsInjective, Contains
<1>4. ASSUME NEW p \in Procesos, NEW s \in Sitios PROVE Esta(p, s) <=> s = EnReady
  <2>1. ASSUME NEW t \in Reanudadores, s = Candidato(t) PROVE Esta(p, s) <=> s = EnReady
    <3>1. ~Contains(candidatos[t], p) /\ s # EnReady
      BY <2>1, <1>1, <1>3, SitiosDistintos
    <3> QED BY <2>1, <3>1, EstaDef
  <2>2. CASE s = EnReady
    BY <2>2, <1>2, EstaDef
  <2>3. CASE s \in {EnBlock, EnSuspBlock, EnSuspReady}
    BY <2>3, <1>1, <1>3, EstaDef, SitiosDistintos
  <2>4. CASE s = EnLaCpu
    BY <2>4, <1>1, EstaDef, SitiosDistintos DEF EnCpu
  <2>5. CASE s = EnElListener
    BY <2>5, <1>1, EstaDef, SitiosDistintos
  <2> QED BY <2>1, <2>2, <2>3, <2>4, <2>5, SitiosDef
<1>5. EnReady \in Sitios /\ EstadosEn(EnReady) = {"READY"}
  BY SonSitios, EstadosEnDef
<1>6. ASSUME NEW p \in Procesos
      PROVE  /\ \A s \in Sitios : Esta(p, s) => estado[p] \in EstadosEn(s)
             /\ \A s, t \in Sitios : Esta(p, s) /\ Esta(p, t) => s = t
             /\ \E s \in Sitios : Esta(p, s)
  BY <1>1, <1>4, <1>5
<1> QED BY <1>1, <1>2, <1>3, <1>6 DEF EnUnaSolaLista

(***************************************************************************)
(* Requests                                                                 *)
(***************************************************************************)
Solicitudes == Fases /\ SolicitudDeBloqueado

(* Only one process changes, or makes or loses its request.                 *)
LEMMA SolicitudesDeUno ==
  ASSUME Solicitudes, NEW p \in Procesos,
         \A q \in Procesos : q # p =>
           /\ estado'[q] = estado[q] /\ pc'[q] = pc[q]
           /\ Contains(cola', q) => Contains(cola, q)
           /\ atendido' = q => atendido = q,
         IsInjective(cola'), ~Contains(cola', atendido'),
         Contains(cola', p) \/ atendido' = p => estado'[p] \in {"BLOCK", "SUSP_BLOCK"},
         pc'[p] \in {"finalizar", "juntar", "reanudar", "fin"} => estado'[p] = "EXIT",
         pc'[p] = "encolar" => /\ estado'[p] \in {"BLOCK", "SUSP_BLOCK"}
                               /\ ~Contains(cola', p) /\ atendido' # p
  PROVE  Solicitudes'
<1>1. ASSUME NEW q \in Procesos
      PROVE  /\ Contains(cola', q) \/ atendido' = q => estado'[q] \in {"BLOCK", "SUSP_BLOCK"}
             /\ pc'[q] \in {"finalizar", "juntar", "reanudar", "fin"} => estado'[q] = "EXIT"
             /\ pc'[q] = "encolar" => /\ estado'[q] \in {"BLOCK", "SUSP_BLOCK"}
                                      /\ ~Contains(cola', q) /\ atendido' # q
  <2>1. CASE q # p
    BY <2>1 DEF Solicitudes, Fases, SolicitudDeBloqueado
  <2> QED BY <2>1
<1> QED BY <1>1 DEF Solicitudes, Fases, SolicitudDeBloqueado

(* Nobody changes, and the listener has the same requests or none.           *)
LEMMA SolicitudesQuietas ==
  ASSUME TypeOK, Solicitudes, UNCHANGED <<estado, pc>>, cola' \in {cola, <<>>},
         atendido' \in {atendido, NADIE}
  PROVE  Solicitudes'
<1>1. IsInjective(<<>>) /\ \A q : ~Contains(<<>>, q)
  BY DEF IsInjective, Contains
<1>2. ~Contains(cola, NADIE)
  BY ListasTipo, ContieneTipo, NadieProcesoAssumption
<1> QED BY <1>1, <1>2, NadieProcesoAssumption DEF Solicitudes, Fases, SolicitudDeBloqueado

(* A process that waits for the answer of the device is blocked.             *)
LEMMA SinSolicitud ==
  ASSUME Solicitudes, NEW p \in Procesos, estado[p] \notin {"BLOCK", "SUSP_BLOCK"}
  PROVE  ~Contains(cola, p) /\ atendido # p /\ pc[p] # "encolar"
BY DEF Solicitudes, Fases, SolicitudDeBloqueado

LEMMA SolicitudesDespachar ==
  ASSUME TypeOK, EnUnaSolaLista, Solicitudes, Despachar
  PROVE  Solicitudes'
<1> DEFINE p == Head(ready)
<1>1. p \in Procesos /\ Contains(ready, p)
  BY ListasUnaVez, SinPrimero DEF Despachar
<1>2. /\ estado' = [estado EXCEPT ![p] = "EXEC"] /\ pc' = [pc EXCEPT ![p] = "corre"]
      /\ UNCHANGED <<cola, atendido>>
  BY DEF Despachar, CambiarEstado, IrA, interfaz
<1> HIDE DEF p
<1>3. ~Contains(cola, p) /\ atendido # p
  BY <1>1, EstadoDe, SinSolicitud
<1>4. /\ estado'[p] = "EXEC" /\ pc'[p] = "corre"
      /\ \A q \in Procesos : q # p => estado'[q] = estado[q] /\ pc'[q] = pc[q]
  BY <1>1, <1>2 DEF TypeOK
<1>5. IsInjective(cola') /\ ~Contains(cola', atendido')
  BY <1>2 DEF Solicitudes, SolicitudDeBloqueado
<1> QED BY <1>1, <1>2, <1>3, <1>4, <1>5, SolicitudesDeUno

LEMMA SolicitudesCpu ==
  ASSUME TypeOK, EnUnaSolaLista, Solicitudes, NEW p \in Procesos, Cpu(p)
  PROVE  Solicitudes'
<1>1. pc[p] = "corre" /\ EnCpu(p) /\ UNCHANGED <<cola, atendido>>
  BY DEF Cpu, SyscallIO, SyscallMemAlloc, SyscallExit, EnCpu, interfaz
<1>2. ~Contains(cola, p) /\ atendido # p
  BY <1>1, EstadoDe, SinSolicitud
<1>3. \E e \in Estados, d \in PCs :
        /\ estado' = [estado EXCEPT ![p] = e] /\ pc' = [pc EXCEPT ![p] = d]
        /\ \/ e = "BLOCK" /\ d = "encolar"
           \/ d = "alloc"
           \/ e = "EXIT" /\ d = "finalizar"
  <2>1. CASE SyscallIO(p)
    BY <2>1 DEF SyscallIO, CambiarEstado, IrA, Estados, PCs
  <2>2. CASE SyscallMemAlloc(p)
    <3>1. estado' = [estado EXCEPT ![p] = estado[p]] /\ estado[p] \in Estados
      BY <2>2 DEF SyscallMemAlloc, TypeOK
    <3> QED BY <2>2, <3>1 DEF SyscallMemAlloc, IrA, PCs
  <2>3. CASE SyscallExit(p)
    BY <2>3 DEF SyscallExit, CambiarEstado, IrA, Estados, PCs
  <2> QED BY <2>1, <2>2, <2>3 DEF Cpu
<1>4. PICK e \in Estados, d \in PCs :
        /\ estado' = [estado EXCEPT ![p] = e] /\ pc' = [pc EXCEPT ![p] = d]
        /\ \/ e = "BLOCK" /\ d = "encolar"
           \/ d = "alloc"
           \/ e = "EXIT" /\ d = "finalizar"
  BY <1>3
<1>5. /\ estado'[p] = e /\ pc'[p] = d
      /\ \A q \in Procesos : q # p => estado'[q] = estado[q] /\ pc'[q] = pc[q]
  BY <1>4 DEF TypeOK
<1>6. IsInjective(cola') /\ ~Contains(cola', atendido')
  BY <1>1 DEF Solicitudes, SolicitudDeBloqueado
<1> QED BY <1>1, <1>2, <1>4, <1>5, <1>6, SolicitudesDeUno

(* A process that is suspended or comes back keeps its request.             *)
LEMMA SolicitudesMover ==
  ASSUME TypeOK, Solicitudes, NEW p \in Procesos, UNCHANGED <<pc, cola, atendido>>, NEW e,
         estado' = [estado EXCEPT ![p] = e], estado[p] # "EXIT",
         estado[p] \in {"BLOCK", "SUSP_BLOCK"} => e \in {"BLOCK", "SUSP_BLOCK"}
  PROVE  Solicitudes'
<1>1. estado'[p] = e /\ \A q \in Procesos : q # p => estado'[q] = estado[q]
  BY DEF TypeOK
<1>2. IsInjective(cola') /\ ~Contains(cola', atendido')
  BY DEF Solicitudes, SolicitudDeBloqueado
<1>3. /\ pc[p] \notin {"finalizar", "juntar", "reanudar", "fin"}
      /\ Contains(cola, p) \/ atendido = p \/ pc[p] = "encolar" => e \in {"BLOCK", "SUSP_BLOCK"}
      /\ pc[p] = "encolar" => ~Contains(cola, p) /\ atendido # p
  BY DEF Solicitudes, Fases, SolicitudDeBloqueado
<1> QED BY <1>1, <1>2, <1>3, SolicitudesDeUno

LEMMA SolicitudesRecolocar ==
  ASSUME TypeOK, Reanudando, EnUnaSolaLista, Solicitudes, NEW t \in Reanudadores, Recolocar(t),
         UNCHANGED <<pc, cola, atendido>>
  PROVE  Solicitudes'
<1> DEFINE p == Head(candidatos[t])
<1>1. candidatos[t] # <<>> /\ candidatos[t] \in Seq(Procesos) /\ IsInjective(candidatos[t])
  BY CandidatoTipo, ListasUnaVez DEF Recolocar
<1>2. p \in Procesos /\ Contains(candidatos[t], p)
  BY <1>1, SinPrimero
<1>3. estado' = estado \/ estado' = [estado EXCEPT ![p] = IF estado[p] = "SUSP_READY" THEN "READY" ELSE "BLOCK"]
  BY DEF Recolocar, CambiarEstado
<1> HIDE DEF p
<1>4. estado[p] \in {"SUSP_BLOCK", "SUSP_READY"}
  BY <1>2, EstadoDe
<1> QED BY <1>2, <1>3, <1>4, SolicitudesMover, SolicitudesQuietas

LEMMA SolicitudesManejador ==
  ASSUME TypeOK, Reanudando, EnUnaSolaLista, Solicitudes, NEW p \in Procesos, Manejador(p)
  PROVE  Solicitudes'
<1> USE DEF IrA
<1>0. /\ p \in Reanudadores
      /\ IsInjective(cola) /\ ~Contains(cola, atendido)
  BY DEF Reanudadores, Solicitudes, SolicitudDeBloqueado
<1>1. CASE EncolarRequest(p)
  <2>1. /\ pc[p] = "encolar" /\ estado[p] \in {"BLOCK", "SUSP_BLOCK"}
        /\ ~Contains(cola, p) /\ atendido # p
    BY <1>1 DEF EncolarRequest, Solicitudes, Fases
  <2>2. cola' \in {cola, Append(cola, p)} /\ pc' = [pc EXCEPT ![p] = "fuera"]
    BY <1>1 DEF EncolarRequest
  <2>3. IsInjective(cola') /\ \A q : Contains(cola', q) => Contains(cola, q) \/ q = p
    <3>1. IsInjective(Append(cola, p)) /\ \A q : Contains(Append(cola, p), q) <=> Contains(cola, q) \/ q = p
      BY <1>0, <2>1, ListasTipo, AlFinal
    <3>2. CASE cola' = cola
      BY <1>0, <3>2
    <3>3. CASE cola' = Append(cola, p)
      BY <3>1, <3>3
    <3> QED BY <2>2, <3>2, <3>3
  <2>4. pc'[p] = "fuera" /\ \A q \in Procesos : q # p => pc'[q] = pc[q]
    BY <2>2 DEF TypeOK
  <2>5. UNCHANGED <<estado, atendido>>
    BY <1>1 DEF EncolarRequest
  <2>6. ~Contains(cola', atendido')
    BY <1>0, <2>1, <2>3, <2>5
  <2> QED BY <2>1, <2>3, <2>4, <2>5, <2>6, SolicitudesDeUno
<1>2. CASE \/ FinalizarProceso(p) \/ KmAlloc(p) \/ KmPideCompactar(p) \/ KmEmpiezaACompactar(p)
           \/ KmTerminaDeCompactar(p) \/ JuntarAlSalir(p) \/ Salir(p)
  <2>1. /\ UNCHANGED <<estado, cola, atendido>>
        /\ \E d \in PCs :
             /\ pc' = [pc EXCEPT ![p] = d] /\ d # "encolar" /\ pc[p] # "encolar"
             /\ d \in {"finalizar", "juntar", "reanudar", "fin"} =>
                  pc[p] \in {"finalizar", "juntar", "reanudar", "fin"}
    BY <1>2 DEF FinalizarProceso, KmAlloc, KmPideCompactar, KmEmpiezaACompactar,
       KmTerminaDeCompactar, JuntarAlSalir, Salir, PCs, interfaz
  <2>2. /\ pc'[p] # "encolar"
        /\ pc'[p] \in {"finalizar", "juntar", "reanudar", "fin"} => estado[p] = "EXIT"
        /\ \A q \in Procesos : q # p => pc'[q] = pc[q]
    BY <2>1 DEF TypeOK, Solicitudes, Fases
  <2>3. Contains(cola, p) \/ atendido = p => estado[p] \in {"BLOCK", "SUSP_BLOCK"}
    BY DEF Solicitudes, SolicitudDeBloqueado
  <2> QED BY <1>0, <2>1, <2>2, <2>3, SolicitudesDeUno
<1>3. CASE PedirAlSalir(p)
  BY <1>3, SolicitudesQuietas DEF PedirAlSalir, control, interfaz
<1>4. CASE RecolocarAlSalir(p)
  BY <1>0, <1>4, SolicitudesRecolocar DEF RecolocarAlSalir, interfaz
<1> QED BY <1>1, <1>2, <1>3, <1>4 DEF Manejador

LEMMA SolicitudesListener ==
  ASSUME TypeOK, EnUnaSolaLista, Solicitudes, Listener \/ FallarIO \/ RegistrarInterfaz
  PROVE  Solicitudes'
<1>0. IsInjective(cola) /\ ~Contains(cola, atendido)
  BY DEF Solicitudes, SolicitudDeBloqueado
<1>1. CASE TomarRequest
  <2> DEFINE p == Head(cola)
  <2>1. /\ cola # <<>> /\ atendido' = p /\ cola' = Tail(cola) /\ UNCHANGED <<estado, pc>>
    BY <1>1 DEF TomarRequest, control
  <2>2. /\ p \in Procesos /\ Contains(cola, p) /\ IsInjective(cola')
        /\ \A q : Contains(cola', q) <=> Contains(cola, q) /\ q # p
    BY <1>0, <2>1, ListasTipo, SinPrimero
  <2> HIDE DEF p
  <2>3. estado[p] \in {"BLOCK", "SUSP_BLOCK"} /\ pc[p] # "encolar"
    BY <2>2 DEF Solicitudes, Fases, SolicitudDeBloqueado
  <2>4. pc[p] \notin {"finalizar", "juntar", "reanudar", "fin"}
    BY <2>2, <2>3 DEF Solicitudes, Fases
  <2> QED BY <2>1, <2>2, <2>3, <2>4, SolicitudesDeUno
<1>2. CASE EscribirLeido \/ FallarIO \/ Drenar \/ QuitarInterfaz \/ RegistrarInterfaz
  <2>1. UNCHANGED <<estado, pc>> /\ cola' \in {cola, <<>>} /\ atendido' \in {atendido, NADIE}
    BY <1>2 DEF EscribirLeido, FallarIO, Drenar, QuitarInterfaz, RegistrarInterfaz, control
  <2> QED BY <2>1, SolicitudesQuietas
<1>3. ASSUME NEW e, atendido \in Procesos, estado' = [estado EXCEPT ![atendido] = e],
             atendido' = NADIE, UNCHANGED <<pc, cola>>, estado[atendido] # "EXIT"
      PROVE  Solicitudes'
  <2> DEFINE p == atendido
  <2>1. p \in Procesos /\ ~Contains(cola, p) /\ pc[p] # "encolar"
    BY <1>0, <1>3 DEF Solicitudes, Fases
  <2>2. pc[p] \notin {"finalizar", "juntar", "reanudar", "fin"}
    BY <1>3 DEF Solicitudes, Fases
  <2>3. \A q \in Procesos : q # p => estado'[q] = estado[q]
    BY <1>3 DEF TypeOK
  <2>4. IsInjective(cola') /\ ~Contains(cola', atendido')
    BY <1>0, <1>3, ListasTipo, ContieneTipo, NadieProcesoAssumption
  <2>5. atendido' # p /\ \A q \in Procesos : atendido' # q
    BY <1>3, NadieProcesoAssumption
  <2> HIDE DEF p
  <2> QED BY <1>3, <2>1, <2>2, <2>3, <2>4, <2>5, SolicitudesDeUno
<1>4. CASE BuscarEnBlock /\ Contains(block, atendido)
  <2>1. atendido \in Procesos
    BY <1>4, ListasTipo, ContieneTipo
  <2>2. estado[atendido] = "BLOCK"
    BY <1>4, <2>1, EstadoDe
  <2>3. estado' = [estado EXCEPT ![atendido] = "READY"] /\ atendido' = NADIE /\ UNCHANGED <<pc, cola>>
    BY <1>4 DEF BuscarEnBlock, CambiarEstado
  <2> QED BY <1>3, <2>1, <2>2, <2>3
<1>5. CASE BuscarEnSuspBlock /\ Contains(suspBlock, atendido)
  <2>1. atendido \in Procesos
    BY <1>5, ListasTipo, ContieneTipo
  <2>2. estado[atendido] = "SUSP_BLOCK"
    BY <1>5, <2>1, EstadoDe
  <2>3. estado' = [estado EXCEPT ![atendido] = "SUSP_READY"] /\ atendido' = NADIE
        /\ UNCHANGED <<pc, cola>>
    BY <1>5 DEF BuscarEnSuspBlock, CambiarEstado
  <2> QED BY <1>3, <2>1, <2>2, <2>3
<1>6. CASE \/ BuscarEnBlock /\ ~Contains(block, atendido)
           \/ BuscarEnSuspBlock /\ ~Contains(suspBlock, atendido)
           \/ AgregarASuspReady
  <2>1. UNCHANGED <<estado, pc, cola>> /\ atendido' \in {atendido, NADIE}
    BY <1>6 DEF BuscarEnBlock, BuscarEnSuspBlock, AgregarASuspReady, control
  <2> QED BY <2>1, SolicitudesQuietas
<1> QED BY <1>1, <1>2, <1>4, <1>5, <1>6 DEF Listener

LEMMA SolicitudesPaso ==
  TypeOK /\ Reanudando /\ EnUnaSolaLista /\ Solicitudes /\ [Next]_vars => Solicitudes'
<1> SUFFICES ASSUME TypeOK, Reanudando, EnUnaSolaLista, Solicitudes, [Next]_vars
             PROVE  Solicitudes'
  OBVIOUS
<1>1. ASSUME NEW p \in Procesos, NEW k \in 1 .. MaxIO, HiloSuspension(p, k)
      PROVE  Solicitudes'
  <2>1. CASE Suspender(p, k)
    <3>1. /\ Contains(block, p) /\ estado' = [estado EXCEPT ![p] = "SUSP_BLOCK"]
          /\ UNCHANGED <<pc, cola, atendido>>
      BY <2>1 DEF Suspender, CambiarEstado, interfaz
    <3> QED BY <3>1, EstadoDe, SolicitudesMover
  <2>2. CASE NoSuspender(p, k) \/ AvisarSuspension(p, k)
    BY <2>2, SolicitudesQuietas DEF NoSuspender, AvisarSuspension, control, interfaz
  <2> QED BY <1>1, <2>1, <2>2 DEF HiloSuspension
<1>2. CASE EscucharKernelMemory
  <2>1. CASE RecolocarPorNotificacion
    BY <2>1, SolicitudesRecolocar DEF RecolocarPorNotificacion, Reanudadores, interfaz
  <2>2. CASE RecibirNotificacion \/ PedirPorNotificacion \/ VolverARecibir \/ RecibirCompactar
    BY <2>2, SolicitudesQuietas DEF RecibirNotificacion, PedirPorNotificacion, VolverARecibir,
       RecibirCompactar, control, interfaz
  <2> QED BY <1>2, <2>1, <2>2 DEF EscucharKernelMemory
<1>3. CASE UNCHANGED vars
  BY <1>3, SolicitudesQuietas DEF vars, control, interfaz
<1> QED BY <1>1, <1>2, <1>3, SolicitudesDespachar, SolicitudesCpu, SolicitudesManejador,
           SolicitudesListener DEF Next

(***************************************************************************)
(* Candidates and the confirmation of a compaction                          *)
(***************************************************************************)
LEMMA ReanudandoEstable ==
  ASSUME Reanudando, UNCHANGED <<candidatos, ack>>,
         \A p \in Procesos : candidatos[p] # <<>> => pc'[p] = "reanudar",
         candidatos[ESCUCHAR] # <<>> => kpc' = "reanudar"
  PROVE  Reanudando'
<1>1. Reanudadores' = Reanudadores
  BY DEF Reanudadores
<1> QED BY <1>1 DEF Reanudando

LEMMA ReanudandoDe ==
  ASSUME TypeOK, Reanudando, NEW t \in Reanudadores,
         t \in Procesos => pc'[t] = "reanudar", t = ESCUCHAR => kpc' = "reanudar",
         \A p \in Procesos : p # t => pc'[p] = pc[p],
         t # ESCUCHAR => kpc' = kpc,
         \A u \in Reanudadores : u # t => candidatos'[u] = candidatos[u] /\ ack'[u] = ack[u],
         ack'[t] # "ninguno" => candidatos'[t] # <<>>
  PROVE  Reanudando'
<1>1. /\ Reanudadores' = Reanudadores /\ ESCUCHAR \in Reanudadores
      /\ \A p \in Procesos : p \in Reanudadores
  BY DEF Reanudadores
<1>2. \A p \in Procesos : candidatos'[p] # <<>> => pc'[p] = "reanudar"
  BY <1>1 DEF Reanudando
<1>3. candidatos'[ESCUCHAR] # <<>> => kpc' = "reanudar"
  BY <1>1 DEF Reanudando
<1>4. \A u \in Reanudadores : ack'[u] # "ninguno" => candidatos'[u] # <<>>
  BY DEF Reanudando
<1> QED BY <1>1, <1>2, <1>3, <1>4 DEF Reanudando

(* Who resumes is resuming while it has candidates.                         *)
LEMMA QuienReanuda ==
  ASSUME Reanudando, NEW t \in Reanudadores, candidatos[t] # <<>>
  PROVE  (t \in Procesos => pc[t] = "reanudar") /\ (t = ESCUCHAR => kpc = "reanudar")
BY EscucharAssumption DEF Reanudando

LEMMA ReanudandoPedir ==
  ASSUME TypeOK, Reanudando, NEW t \in Reanudadores, UNCHANGED <<pc, kpc>>,
         \/ PedirReanudar(t) /\ UNCHANGED candidatos
         \/ Recolocar(t)
  PROVE  Reanudando'
<1>1. candidatos[t] # <<>>
  BY DEF PedirReanudar, Recolocar, Reanudando
<1>2. \A u \in Reanudadores : u # t => candidatos'[u] = candidatos[u] /\ ack'[u] = ack[u]
  BY DEF PedirReanudar, Recolocar, TypeOK
<1>3. ack'[t] # "ninguno" => candidatos'[t] # <<>>
  BY <1>1 DEF PedirReanudar, Recolocar, TypeOK
<1> QED BY <1>1, <1>2, <1>3, QuienReanuda, ReanudandoDe

LEMMA ReanudandoJuntar ==
  ASSUME TypeOK, Reanudando, NEW t \in Reanudadores, JuntarCandidatos(t), UNCHANGED ack,
         candidatos[t] = <<>>,
         t \in Procesos => pc'[t] = "reanudar", t = ESCUCHAR => kpc' = "reanudar",
         \A p \in Procesos : p # t => pc'[p] = pc[p],
         t # ESCUCHAR => kpc' = kpc
  PROVE  Reanudando'
<1>1. ack'[t] = "ninguno"
  BY DEF Reanudando
<1>2. \A u \in Reanudadores : u # t => candidatos'[u] = candidatos[u] /\ ack'[u] = ack[u]
  BY DEF JuntarCandidatos, TypeOK
<1> QED BY <1>1, <1>2, ReanudandoDe

LEMMA ReanudandoPaso ==
  TypeOK /\ Reanudando /\ EnUnaSolaLista /\ Solicitudes /\ [Next]_vars => Reanudando'
<1> SUFFICES ASSUME TypeOK, Reanudando, EnUnaSolaLista, Solicitudes, [Next]_vars
             PROVE  Reanudando'
  OBVIOUS
<1>1. CASE Despachar
  <2> DEFINE p == Head(ready)
  <2>1. p \in Procesos /\ Contains(ready, p)
    BY <1>1, ListasUnaVez, SinPrimero DEF Despachar
  <2>2. pc' = [pc EXCEPT ![p] = "corre"] /\ UNCHANGED <<candidatos, ack, kpc>>
    BY <1>1 DEF Despachar, IrA, reanudaciones
  <2> HIDE DEF p
  <2>3. pc[p] # "reanudar"
    BY <2>1, EstadoDe DEF Solicitudes, Fases
  <2>4. \A q \in Procesos : candidatos[q] # <<>> => pc'[q] = "reanudar"
    BY <2>2, <2>3 DEF Reanudando, TypeOK
  <2> QED BY <2>2, <2>4, ReanudandoEstable DEF Reanudando
<1>2. ASSUME NEW p \in Procesos, Cpu(p) \/ Manejador(p) PROVE Reanudando'
  <2>0. p \in Reanudadores /\ p # ESCUCHAR
    BY EscucharAssumption DEF Reanudadores
  <2>1. CASE \/ Cpu(p) \/ EncolarRequest(p) \/ FinalizarProceso(p) \/ KmAlloc(p)
             \/ KmPideCompactar(p) \/ KmEmpiezaACompactar(p) \/ KmTerminaDeCompactar(p) \/ Salir(p)
    <3>1. /\ UNCHANGED <<candidatos, ack, kpc>> /\ \E d \in PCs : pc' = [pc EXCEPT ![p] = d]
          /\ pc[p] # "reanudar" \/ candidatos[p] = <<>>
      BY <2>1 DEF Cpu, SyscallIO, SyscallMemAlloc, SyscallExit, EncolarRequest, FinalizarProceso,
         KmAlloc, KmPideCompactar, KmEmpiezaACompactar, KmTerminaDeCompactar, Salir, IrA, PCs,
         reanudaciones
    <3>2. \A q \in Procesos : candidatos[q] # <<>> => pc'[q] = "reanudar"
      BY <3>1 DEF Reanudando, TypeOK
    <3> QED BY <3>1, <3>2, ReanudandoEstable DEF Reanudando
  <2>2. CASE JuntarAlSalir(p)
    <3>1. /\ pc[p] = "juntar" /\ JuntarCandidatos(p) /\ pc' = [pc EXCEPT ![p] = "reanudar"]
          /\ UNCHANGED <<ack, kpc>>
      BY <2>2 DEF JuntarAlSalir, IrA
    <3>2. candidatos[p] = <<>>
      BY <3>1 DEF Reanudando
    <3>3. pc'[p] = "reanudar" /\ \A q \in Procesos : q # p => pc'[q] = pc[q]
      BY <3>1 DEF TypeOK
    <3> QED BY <2>0, <3>1, <3>2, <3>3, ReanudandoJuntar
  <2>3. CASE PedirAlSalir(p) \/ RecolocarAlSalir(p)
    BY <2>0, <2>3, ReanudandoPedir DEF PedirAlSalir, RecolocarAlSalir, control
  <2> QED BY <1>2, <2>1, <2>2, <2>3 DEF Manejador
<1>3. CASE EscucharKernelMemory
  <2>0. ESCUCHAR \in Reanudadores /\ ESCUCHAR \notin Procesos
    BY EscucharAssumption DEF Reanudadores
  <2>1. CASE RecibirNotificacion
    <3>1. /\ kpc = "recibir" /\ JuntarCandidatos(ESCUCHAR) /\ kpc' = "reanudar"
          /\ UNCHANGED <<pc, ack>>
      BY <2>1 DEF RecibirNotificacion, control
    <3>2. candidatos[ESCUCHAR] = <<>>
      BY <3>1 DEF Reanudando
    <3> QED BY <2>0, <3>1, <3>2, ReanudandoJuntar
  <2>2. CASE PedirPorNotificacion \/ RecolocarPorNotificacion
    BY <2>0, <2>2, ReanudandoPedir DEF PedirPorNotificacion, RecolocarPorNotificacion, control
  <2>3. CASE VolverARecibir \/ RecibirCompactar
    <3>1. UNCHANGED <<candidatos, ack, pc>> /\ (kpc' = kpc \/ candidatos[ESCUCHAR] = <<>>)
      BY <2>3 DEF VolverARecibir, RecibirCompactar, control, reanudaciones
    <3> QED BY <3>1, ReanudandoEstable DEF Reanudando
  <2> QED BY <1>3, <2>1, <2>2, <2>3 DEF EscucharKernelMemory
<1>4. CASE \/ \E p \in Procesos : \E k \in 1 .. MaxIO : HiloSuspension(p, k)
           \/ Listener \/ FallarIO \/ RegistrarInterfaz \/ UNCHANGED vars
  <2>1. UNCHANGED <<candidatos, ack, pc, kpc>>
    BY <1>4 DEF HiloSuspension, Suspender, NoSuspender, AvisarSuspension, Listener, TomarRequest,
       EscribirLeido, BuscarEnBlock, BuscarEnSuspBlock, AgregarASuspReady, Drenar, QuitarInterfaz,
       FallarIO, RegistrarInterfaz, vars, control, reanudaciones
  <2> QED BY <2>1, ReanudandoEstable DEF Reanudando
<1> QED BY <1>1, <1>2, <1>3, <1>4 DEF Next

(* A message at the end of the channel, or the first one taken.             *)
LEMMA Encolado ==
  ASSUME TypeOK, NEW m \in {"MEMORIA_LIBRE", "COMPACTAR", "FIN"}
  PROVE  /\ Len(Append(notif, m)) = Len(notif) + 1 /\ Len(notif) \in Nat
         /\ \A i \in 1 .. Len(notif) : Append(notif, m)[i] = notif[i]
         /\ Append(notif, m)[Len(notif) + 1] = m
BY AppendProperties, LenProperties DEF TypeOK

LEMMA ConfirmacionEstable ==
  ASSUME TypeOK, Confirmacion, UNCHANGED okCompactar,
         notif' = notif \/ \E m \in {"MEMORIA_LIBRE", "FIN"} : notif' = Append(notif, m),
         \A p \in Procesos : pc[p] = "km_espera_ok" => pc'[p] = "km_espera_ok"
  PROVE  Confirmacion'
<1>1. ASSUME NEW i \in 1 .. Len(notif'), notif'[i] = "COMPACTAR"
      PROVE  i \in 1 .. Len(notif) /\ notif[i] = "COMPACTAR"
  <2>1. CASE notif' = notif
    BY <1>1, <2>1
  <2>2. ASSUME NEW m \in {"MEMORIA_LIBRE", "FIN"}, notif' = Append(notif, m)
        PROVE  i \in 1 .. Len(notif) /\ notif[i] = "COMPACTAR"
    <3>1. /\ Len(notif') = Len(notif) + 1 /\ Len(notif) \in Nat
          /\ \A j \in 1 .. Len(notif) : notif'[j] = notif[j]
          /\ notif'[Len(notif) + 1] = m
      BY <2>2, Encolado
    <3>2. i # Len(notif) + 1
      BY <1>1, <3>1
    <3>3. i \in 1 .. Len(notif)
      BY <3>1, <3>2
    <3> QED BY <1>1, <3>1, <3>3
  <2> QED BY <2>1, <2>2
<1>2. \A i, j \in 1 .. Len(notif') : notif'[i] = "COMPACTAR" /\ notif'[j] = "COMPACTAR" => i = j
  BY <1>1 DEF Confirmacion
<1>3. Contains(notif', "COMPACTAR") => Contains(notif, "COMPACTAR")
  BY <1>1 DEF Contains
<1> QED BY <1>2, <1>3 DEF Confirmacion

LEMMA ConfirmacionSacar ==
  ASSUME TypeOK, Confirmacion, notif # <<>>, notif' = Tail(notif), UNCHANGED pc,
         IF Head(notif) = "COMPACTAR" THEN okCompactar' = okCompactar + 1 ELSE UNCHANGED okCompactar
  PROVE  Confirmacion'
<1>1. /\ Len(notif) \in Nat /\ Len(notif) > 0 /\ Head(notif) = notif[1]
      /\ Len(notif') = Len(notif) - 1 /\ \A i \in 1 .. Len(notif') : notif'[i] = notif[i + 1]
  <2>1. notif \in Seq({"MEMORIA_LIBRE", "COMPACTAR", "FIN"})
    BY DEF TypeOK
  <2> QED BY <2>1, HeadTailProperties, LenProperties
<1>2. \A i \in 1 .. Len(notif') : i + 1 \in 1 .. Len(notif) /\ i + 1 # 1 /\ i \in Int
  BY <1>1
<1>3. 1 \in 1 .. Len(notif)
  BY <1>1
<1>4. ASSUME NEW i \in 1 .. Len(notif'), NEW j \in 1 .. Len(notif'),
             notif'[i] = "COMPACTAR", notif'[j] = "COMPACTAR"
      PROVE  i = j
  <2>1. i + 1 = j + 1
    BY <1>1, <1>2, <1>4 DEF Confirmacion
  <2> QED BY <1>2, <2>1
<1>5. Contains(notif', "COMPACTAR") => Contains(notif, "COMPACTAR") /\ Head(notif) # "COMPACTAR"
  BY <1>1, <1>2, <1>3 DEF Confirmacion, Contains
<1>6. Head(notif) = "COMPACTAR" => Contains(notif, "COMPACTAR")
  BY <1>1, <1>3 DEF Contains
<1> QED BY <1>4, <1>5, <1>6 DEF Confirmacion

LEMMA ConfirmacionPaso ==
  TypeOK /\ EnUnaSolaLista /\ Confirmacion /\ [Next]_vars => Confirmacion'
<1> SUFFICES ASSUME TypeOK, EnUnaSolaLista, Confirmacion, [Next]_vars PROVE Confirmacion'
  OBVIOUS
<1>1. CASE Despachar
  <2> DEFINE p == Head(ready)
  <2>1. p \in Procesos /\ Contains(ready, p)
    BY <1>1, ListasUnaVez, SinPrimero DEF Despachar
  <2>2. pc' = [pc EXCEPT ![p] = "corre"] /\ UNCHANGED <<notif, okCompactar>>
    BY <1>1 DEF Despachar, IrA, memoria
  <2> HIDE DEF p
  <2>3. pc[p] # "km_espera_ok"
    BY <2>1, EstadoDe DEF EnCpu
  <2>4. \A q \in Procesos : pc[q] = "km_espera_ok" => pc'[q] = "km_espera_ok"
    BY <2>2, <2>3 DEF TypeOK
  <2> QED BY <2>2, <2>4, ConfirmacionEstable
<1>2. ASSUME NEW p \in Procesos, Cpu(p) \/ Manejador(p) PROVE Confirmacion'
  <2>1. CASE \/ Cpu(p) \/ EncolarRequest(p) \/ FinalizarProceso(p) \/ KmAlloc(p)
             \/ JuntarAlSalir(p) \/ Salir(p)
    <3>1. /\ UNCHANGED <<notif, okCompactar>> /\ \E d \in PCs : pc' = [pc EXCEPT ![p] = d]
          /\ pc[p] # "km_espera_ok"
      BY <2>1 DEF Cpu, SyscallIO, SyscallMemAlloc, SyscallExit, EncolarRequest, FinalizarProceso,
         KmAlloc, JuntarAlSalir, Salir, IrA, PCs, memoria
    <3>2. \A q \in Procesos : pc[q] = "km_espera_ok" => pc'[q] = "km_espera_ok"
      BY <3>1 DEF TypeOK
    <3> QED BY <3>1, <3>2, ConfirmacionEstable
  <2>2. CASE PedirAlSalir(p) \/ RecolocarAlSalir(p)
    BY <2>2, ConfirmacionEstable DEF PedirAlSalir, RecolocarAlSalir, control, memoria
  <2>3. CASE KmPideCompactar(p)
    <3>1. /\ notif' = Append(notif, "COMPACTAR") /\ UNCHANGED okCompactar
          /\ pc' = [pc EXCEPT ![p] = "km_espera_ok"]
          /\ \A q \in Procesos : pc[q] # "km_espera_ok"
      BY <2>3 DEF KmPideCompactar, IrA, KmLibre
    <3>2. ~Contains(notif, "COMPACTAR") /\ okCompactar = 0 /\ pc'[p] = "km_espera_ok"
      BY <3>1 DEF Confirmacion, TypeOK
    <3>3. /\ Len(notif') = Len(notif) + 1 /\ Len(notif) \in Nat
          /\ \A i \in 1 .. Len(notif) : notif'[i] = notif[i]
      BY <3>1, Encolado
    <3>4. \A i \in 1 .. Len(notif') : notif'[i] = "COMPACTAR" => i = Len(notif) + 1
      BY <3>2, <3>3 DEF Contains
    <3> QED BY <3>1, <3>2, <3>4 DEF Confirmacion
  <2>4. CASE KmEmpiezaACompactar(p)
    <3>1. okCompactar > 0 /\ okCompactar' = okCompactar - 1 /\ UNCHANGED notif
      BY <2>4 DEF KmEmpiezaACompactar
    <3>2. okCompactar' = 0 /\ ~Contains(notif, "COMPACTAR")
      BY <3>1 DEF Confirmacion, TypeOK
    <3> QED BY <3>1, <3>2 DEF Confirmacion
  <2>5. CASE KmTerminaDeCompactar(p)
    <3>1. /\ notif' = Append(notif, "FIN") /\ UNCHANGED okCompactar
          /\ pc[p] # "km_espera_ok" /\ pc' = [pc EXCEPT ![p] = "corre"]
      BY <2>5 DEF KmTerminaDeCompactar, IrA
    <3>2. \A q \in Procesos : pc[q] = "km_espera_ok" => pc'[q] = "km_espera_ok"
      BY <3>1 DEF TypeOK
    <3> QED BY <3>1, <3>2, ConfirmacionEstable
  <2> QED BY <1>2, <2>1, <2>2, <2>3, <2>4, <2>5 DEF Manejador
<1>3. CASE EscucharKernelMemory
  <2>1. CASE PedirPorNotificacion \/ RecolocarPorNotificacion \/ VolverARecibir
    BY <2>1, ConfirmacionEstable DEF PedirPorNotificacion, RecolocarPorNotificacion,
       VolverARecibir, control, memoria
  <2>2. CASE RecibirNotificacion \/ RecibirCompactar
    BY <2>2, ConfirmacionSacar DEF RecibirNotificacion, RecibirCompactar, control
  <2> QED BY <1>3, <2>1, <2>2 DEF EscucharKernelMemory
<1>4. ASSUME NEW p \in Procesos, NEW k \in 1 .. MaxIO, HiloSuspension(p, k) PROVE Confirmacion'
  <2>1. CASE Suspender(p, k) \/ NoSuspender(p, k)
    BY <2>1, ConfirmacionEstable DEF Suspender, NoSuspender, control, memoria
  <2>2. CASE AvisarSuspension(p, k)
    <3>1. /\ notif' = notif \/ notif' = Append(notif, "MEMORIA_LIBRE")
          /\ UNCHANGED <<pc, okCompactar>>
      BY <2>2 DEF AvisarSuspension, control
    <3> QED BY <3>1, ConfirmacionEstable
  <2> QED BY <1>4, <2>1, <2>2 DEF HiloSuspension
<1>5. CASE Listener \/ FallarIO \/ RegistrarInterfaz \/ UNCHANGED vars
  <2>1. UNCHANGED <<pc, notif, okCompactar>>
    BY <1>5 DEF Listener, TomarRequest, EscribirLeido, BuscarEnBlock, BuscarEnSuspBlock,
       AgregarASuspReady, Drenar, QuitarInterfaz, FallarIO, RegistrarInterfaz, vars, control, memoria
  <2> QED BY <2>1, ConfirmacionEstable
<1> QED BY <1>1, <1>2, <1>3, <1>4, <1>5 DEF Next

(* Only the listener takes a process between two lists, and leaves it there. *)
LEMMA EnManosPaso == TypeOK /\ EnManos /\ [Next]_vars => EnManos'
<1> SUFFICES ASSUME TypeOK, EnManos, [Next]_vars PROVE EnManos'
  OBVIOUS
<1> USE DEF interfaz
<1>1. ASSUME NEW p \in Procesos,
             Cpu(p) \/ Manejador(p) \/ \E k \in 1 .. MaxIO : HiloSuspension(p, k)
      PROVE  UNCHANGED <<lio, sacado>>
  BY <1>1 DEF Cpu, SyscallIO, SyscallMemAlloc, SyscallExit, Manejador, EncolarRequest,
     FinalizarProceso, KmAlloc, KmPideCompactar, KmEmpiezaACompactar, KmTerminaDeCompactar,
     JuntarAlSalir, PedirAlSalir, RecolocarAlSalir, Salir, HiloSuspension, Suspender, NoSuspender,
     AvisarSuspension
<1>2. CASE Despachar \/ EscucharKernelMemory \/ UNCHANGED vars
  BY <1>2 DEF Despachar, EscucharKernelMemory, RecibirNotificacion, PedirPorNotificacion,
     RecolocarPorNotificacion, VolverARecibir, RecibirCompactar, vars, EnManos
<1>3. CASE Listener \/ FallarIO \/ RegistrarInterfaz
  <2>1. CASE TomarRequest \/ EscribirLeido \/ Drenar \/ QuitarInterfaz \/ FallarIO \/ RegistrarInterfaz
    BY <2>1 DEF TomarRequest, EscribirLeido, Drenar, QuitarInterfaz, FallarIO, RegistrarInterfaz,
       EnManos
  <2>2. CASE BuscarEnBlock \/ AgregarASuspReady
    BY <2>2 DEF BuscarEnBlock, AgregarASuspReady, EnManos
  <2>3. CASE BuscarEnSuspBlock
    BY <2>3, ContieneTipo, ListasTipo, NadieProcesoAssumption DEF BuscarEnSuspBlock, EnManos
  <2> QED BY <1>3, <2>1, <2>2, <2>3 DEF Listener
<1> QED BY <1>1, <1>2, <1>3 DEF Next, EnManos

(***************************************************************************)
(* The theorems                                                             *)
(***************************************************************************)
LEMMA OrdenInit == Init => Orden
<1> SUFFICES ASSUME Init PROVE Orden
  OBVIOUS
<1>1. Reanudando /\ Confirmacion /\ EnManos
  BY DEF Init, Reanudando, Confirmacion, Contains, Reanudadores, EnManos
<1>2. Fases /\ SolicitudDeBloqueado
  BY NadieProcesoAssumption DEF Init, Fases, SolicitudDeBloqueado, Contains, IsInjective
<1> QED BY <1>1, <1>2, TipoInit, LugaresInit DEF Orden

LEMMA OrdenPaso == Orden /\ [Next]_vars => Orden'
BY TipoPaso, LugaresPaso, SolicitudesPaso, ReanudandoPaso, ConfirmacionPaso,
   EnManosPaso DEF Orden, Solicitudes

(* Every variable of the medium term keeps its type.                        *)
THEOREM TipoCorrecto == Spec => []TypeOK
<1>1. Orden => TypeOK
  BY DEF Orden
<1> QED BY <1>1, OrdenInit, OrdenPaso, PTL DEF Spec

(* A process that blocks, is suspended, comes back and ends while the         *)
(* listener, the suspension threads and the handlers move PCBs is always in  *)
(* one list, once, the one its estado says.                                 *)
THEOREM EnUnaSolaListaSiempre == Spec => []EnUnaSolaLista
<1>1. Orden => EnUnaSolaLista
  BY DEF Orden
<1> QED BY <1>1, OrdenInit, OrdenPaso, PTL DEF Spec

(* The answer of the device is for a process that is still blocked for it,   *)
(* suspended or not, and that has no other request.                         *)
THEOREM SolicitudDeBloqueadoSiempre == Spec => []SolicitudDeBloqueado
<1>1. Orden => SolicitudDeBloqueado
  BY DEF Orden
<1> QED BY <1>1, OrdenInit, OrdenPaso, PTL DEF Spec
=============================================================================
