---------------------------- MODULE EspacioProofs ----------------------------
(* Kernel Memory implements Espacio, for any number of processes, sticks    *)
(* and blocks: compactions, suspensions and resumptions move the segments   *)
(* of the processes, with what is written in them.                          *)
EXTENDS MemoriaProofs

(***************************************************************************)
(* A segment with its bytes, in the sticks by or in the blocks dk           *)
(***************************************************************************)
TrozoEn(by, s) ==
  [id |-> s.id, tam |-> s.tam, datos |-> [o \in 0 .. s.tam - 1 |-> by[s.base + o]]]
TrozoDeSwap(dk, ss) ==
  [id |-> ss.id, tam |-> ss.tam,
   datos |-> [o \in 0 .. ss.tam - 1 |-> dk[ss.bloques[o \div BLOCK_SIZE + 1]][o % BLOCK_SIZE]]]
Trozos(p) ==
  {TrozoEn(bytes, s) : s \in EnMemoria(p)} \cup {TrozoDeSwap(disco, ss) : ss \in EnSwap(p)}

Formas(X) == {[id |-> x.id, tam |-> x.tam] : x \in X}
Escrito(p, X) ==
  UNION {{<<x.id, o>> : o \in {o \in 0 .. x.tam - 1 : x.datos[o] = <<p, x.id, o>>}} : x \in X}

Marca(p, x, o, y) == x.datos[o] = <<p, x.id, o>> /\ y = <<x.id, o>>

LEMMA EnEscrito ==
  ASSUME NEW p, NEW X, NEW y
  PROVE  y \in Escrito(p, X) <=> \E x \in X : \E o \in 0 .. x.tam - 1 : Marca(p, x, o, y)
BY DEF Escrito, Marca

LEMMA TrozoEnFacts ==
  \A by, s : /\ TrozoEn(by, s).id = s.id /\ TrozoEn(by, s).tam = s.tam
             /\ \A o \in 0 .. s.tam - 1 : TrozoEn(by, s).datos[o] = by[s.base + o]
BY DEF TrozoEn

LEMMA TrozoDeSwapFacts ==
  \A dk, ss :
    /\ TrozoDeSwap(dk, ss).id = ss.id /\ TrozoDeSwap(dk, ss).tam = ss.tam
    /\ \A o \in 0 .. ss.tam - 1 :
         TrozoDeSwap(dk, ss).datos[o] = dk[ss.bloques[o \div BLOCK_SIZE + 1]][o % BLOCK_SIZE]
BY DEF TrozoDeSwap

LEMMA EnTrozos ==
  \A p, x : x \in Trozos(p) <=> \/ \E s \in EnMemoria(p) : x = TrozoEn(bytes, s)
                                \/ \E ss \in EnSwap(p) : x = TrozoDeSwap(disco, ss)
BY DEF Trozos

LEMMA EnTrozosPrima ==
  \A p, x : x \in Trozos(p)' <=> \/ \E s \in EnMemoria(p)' : x = TrozoEn(bytes', s)
                                 \/ \E ss \in EnSwap(p)' : x = TrozoDeSwap(disco', ss)
BY DEF Trozos, TrozoEn, TrozoDeSwap

(* What the process sees is what its pieces hold.                           *)
LEMMA FormasDeTrozos == \A p : SegmentosDe(p) = Formas(Trozos(p))
<1> SUFFICES ASSUME NEW p, NEW f PROVE f \in SegmentosDe(p) <=> f \in Formas(Trozos(p))
  OBVIOUS
<1>1. f \in SegmentosDe(p) <=> \E s \in EnMemoria(p) \cup EnSwap(p) : f = [id |-> s.id, tam |-> s.tam]
  BY DEF SegmentosDe
<1>2. f \in Formas(Trozos(p)) <=> \E x \in Trozos(p) : f = [id |-> x.id, tam |-> x.tam]
  BY DEF Formas
<1> QED BY <1>1, <1>2, EnTrozos, TrozoEnFacts, TrozoDeSwapFacts

LEMMA ContenidoDeTrozos == \A p : ContenidoDe(p) = Escrito(p, Trozos(p))
<1> SUFFICES ASSUME NEW p, NEW y PROVE y \in ContenidoDe(p) <=> y \in Escrito(p, Trozos(p))
  OBVIOUS
<1> DEFINE Marcado(x) == \E o \in 0 .. x.tam - 1 : Marca(p, x, o, y)
           M == UNION {{<<s.id, o>> : o \in {o \in 0 .. s.tam - 1 : LeerDeSticks(s, o) = <<p, s.id, o>>}} :
                         s \in EnMemoria(p)}
           D == UNION {{<<ss.id, o>> : o \in {o \in 0 .. ss.tam - 1 :
                                               EnBloque(ss.bloques, o) = <<p, ss.id, o>>}} :
                         ss \in EnSwap(p)}
<1>1. y \in M <=> \E s \in EnMemoria(p) : Marcado(TrozoEn(bytes, s))
  <2>1. y \in M <=> \E s \in EnMemoria(p) : \E o \in 0 .. s.tam - 1 :
                     LeerDeSticks(s, o) = <<p, s.id, o>> /\ y = <<s.id, o>>
    OBVIOUS
  <2>2. ASSUME NEW s
        PROVE  Marcado(TrozoEn(bytes, s)) <=>
                 \E o \in 0 .. s.tam - 1 : LeerDeSticks(s, o) = <<p, s.id, o>> /\ y = <<s.id, o>>
    BY TrozoEnFacts DEF LeerDeSticks, Marca
  <2> HIDE DEF Marcado, M
  <2> QED BY <2>1, <2>2
<1>2. y \in D <=> \E ss \in EnSwap(p) : Marcado(TrozoDeSwap(disco, ss))
  <2>1. y \in D <=> \E ss \in EnSwap(p) : \E o \in 0 .. ss.tam - 1 :
                     EnBloque(ss.bloques, o) = <<p, ss.id, o>> /\ y = <<ss.id, o>>
    OBVIOUS
  <2>2. ASSUME NEW ss
        PROVE  Marcado(TrozoDeSwap(disco, ss)) <=>
                 \E o \in 0 .. ss.tam - 1 : EnBloque(ss.bloques, o) = <<p, ss.id, o>> /\ y = <<ss.id, o>>
    BY TrozoDeSwapFacts DEF EnBloque, Marca
  <2> HIDE DEF Marcado, D
  <2> QED BY <2>1, <2>2
<1>3. y \in Escrito(p, Trozos(p)) <=> \E x \in Trozos(p) : Marcado(x)
  <2>1. \A X : y \in Escrito(p, X) <=> \E x \in X : Marcado(x)
    BY EnEscrito
  <2> HIDE DEF Marcado
  <2> QED BY <2>1
<1>4. ContenidoDe(p) = M \cup D
  BY DEF ContenidoDe
<1> HIDE DEF Marcado, M, D
<1> QED BY <1>1, <1>2, <1>3, <1>4, EnTrozos

LEMMA PromesaDeTrozos ==
  \A p : SegmentosDe(p) = Formas(Trozos(p)) /\ ContenidoDe(p) = Escrito(p, Trozos(p))
BY FormasDeTrozos, ContenidoDeTrozos

LEMMA PromesaDeTrozosPrima ==
  (\A p : SegmentosDe(p) = Formas(Trozos(p)) /\ ContenidoDe(p) = Escrito(p, Trozos(p)))'
BY PromesaDeTrozos, PTL

(***************************************************************************)
(* Where a byte of a segment is in its blocks                               *)
(***************************************************************************)
LEMMA Lugar ==
  ASSUME NEW t \in Nat, NEW o \in 0 .. t - 1
  PROVE  /\ o \div BLOCK_SIZE + 1 \in 1 .. Cantidad(t) /\ o % BLOCK_SIZE \in 0 .. BLOCK_SIZE - 1
         /\ (o \div BLOCK_SIZE) * BLOCK_SIZE + (o % BLOCK_SIZE) = o
<1> DEFINE B == BLOCK_SIZE
           q == o \div B
           k == (t + B - 1) \div B
<1>0. B \in Nat /\ B > 0 /\ o \in Nat /\ o < t /\ t + B - 1 \in Nat
  BY BloquesAssumption
<1>1. ASSUME NEW n \in Nat, NEW m \in Nat, m > 0
      PROVE  /\ n \div m \in Nat /\ n % m \in 0 .. m - 1 /\ n = (n \div m) * m + (n % m)
  BY <1>1
<1>2. q \in Nat /\ o % B \in 0 .. B - 1 /\ o = q * B + (o % B)
  BY <1>0, <1>1
<1>3. k \in Nat /\ (t + B - 1) % B \in 0 .. B - 1 /\ t + B - 1 = k * B + ((t + B - 1) % B)
  BY <1>0, <1>1
<1>4. q < k
  <2> SUFFICES ASSUME k <= q PROVE FALSE
    BY <1>2, <1>3
  <2>1. \A a, b, c \in Nat : a <= b => a * c <= b * c
    OBVIOUS
  <2>2. \A a, c \in Nat : a * c \in Nat
    OBVIOUS
  <2>3. k * B <= q * B /\ k * B \in Nat /\ q * B \in Nat
    BY <1>0, <1>2, <1>3, <2>1, <2>2
  <2> HIDE DEF k, q, B
  <2> QED BY <1>0, <1>2, <1>3, <2>3
<1>5. Cantidad(t) = k
  BY DEF Cantidad
<1> HIDE DEF q, k
<1> QED BY <1>2, <1>3, <1>4, <1>5 DEF q

(* The bytes of a segment change only if its part of the sticks, or one of  *)
(* its blocks, does.                                                        *)
LEMMA TrozoEstable ==
  ASSUME NEW by, NEW bz, NEW s, \A o \in 0 .. s.tam - 1 : bz[s.base + o] = by[s.base + o]
  PROVE  TrozoEn(bz, s) = TrozoEn(by, s)
BY DEF TrozoEn

LEMMA TrozoDeSwapEstable ==
  ASSUME NEW dk, NEW dz, NEW ss \in Registros, Len(ss.bloques) = Cantidad(ss.tam),
         \A b : Contains(ss.bloques, b) => dz[b] = dk[b]
  PROVE  TrozoDeSwap(dz, ss) = TrozoDeSwap(dk, ss)
<1>1. ASSUME NEW o \in 0 .. ss.tam - 1
      PROVE  dz[ss.bloques[o \div BLOCK_SIZE + 1]] = dk[ss.bloques[o \div BLOCK_SIZE + 1]]
  <2>1. ss.tam \in Nat
    BY RegistrosFacts, TamaniosNat
  <2>2. o \div BLOCK_SIZE + 1 \in 1 .. Len(ss.bloques)
    BY <2>1, Lugar
  <2>3. Contains(ss.bloques, ss.bloques[o \div BLOCK_SIZE + 1])
    BY <2>2 DEF Contains
  <2> QED BY <2>3
<1> QED BY <1>1 DEF TrozoDeSwap

(***************************************************************************)
(* What the thread of operations knows of the bytes it moves                *)
(***************************************************************************)
Dominios ==
  /\ DOMAIN bytes = 0 .. Limite - 1
  /\ \A b \in 1 .. CantBloques : DOMAIN disco[b] = 0 .. BLOCK_SIZE - 1
Largos ==
  /\ \A p \in Procesos : \A ss \in suspendidos[p] : Len(ss.bloques) = Cantidad(ss.tam)
  /\ \A ss \in movidos : Len(ss.bloques) = Cantidad(ss.tam)
SinSwapNada == swap = "no" => \A p \in Procesos : suspendidos[p] = {}

(* A segment that was moved to swap is still whole in the sticks, and one   *)
(* that was brought back is still whole in its blocks: that is why nothing  *)
(* is lost when a suspension or a resumption stops half way.                *)
Separadas ==
  \A p, q \in Procesos : \A s \in tabla[p], t \in tabla[q] :
    (p = q /\ s = t) \/ Antes(s, t) \/ Antes(t, s)
Dentro(S) == \A s \in S : Tramo(s) /\ s.base + s.tam <= Limite
TablasPuestas == paso = "suspender" => Separadas /\ \A p \in Procesos : Dentro(tabla[p])
CopiaEnSticks == \A r \in movidos : \E s \in tabla[pid] : TrozoDeSwap(disco, r) = TrozoEn(bytes, s)
CopiaEnSwap ==
  \A x \in sueltos : \E ss \in suspendidos[pid] :
    /\ x.id = ss.id /\ x.tam = ss.tam
    /\ swap = "si" => TrozoEn(bytes, x) = TrozoDeSwap(disco, ss)
Copias ==
  /\ paso = "suspender" => CopiaEnSticks
  /\ paso = "reanudar" => CopiaEnSwap
Datos == Dominios /\ Largos /\ SinSwapNada /\ TablasPuestas /\ Copias
DatosVivos == ~pisado => Datos

(* The records of a process come from the suspension, and go when it ends.  *)
LEMMA SuspendidosSalen ==
  ASSUME TypeOK, Orden, Next
  PROVE  /\ \A p \in Procesos : suspendidos'[p] \subseteq suspendidos[p] \cup movidos
         /\ TerminarSuspension \/ \A p \in Procesos : suspendidos'[p] \subseteq suspendidos[p]
<1>1. suspendidos \in [Procesos -> SUBSET Registros]
  BY DEF Orden, TiposSwap
<1>2. CASE TerminarSuspension
  <2>1. suspendidos' = [suspendidos EXCEPT ![pid] = @ \cup movidos]
    BY <1>2 DEF TerminarSuspension
  <2> QED BY <1>1, <1>2, <2>1
<1>3. CASE DestruirProceso \/ TerminarReanudacion
  <2>1. suspendidos' = [suspendidos EXCEPT ![pid] = {}]
    BY <1>3 DEF DestruirProceso, TerminarReanudacion
  <2> QED BY <1>1, <2>1
<1>4. ~TerminarSuspension /\ ~DestruirProceso /\ ~TerminarReanudacion => suspendidos' = suspendidos
  BY DEF Next, Reposo, ConectarStick, ConectarSwap, CaerSwap, Cpu, PedirContexto,
     ActualizarContexto, Desalojar, GuardarContexto, Recibir, MemWrite, Despertar, Atender,
     CrearProceso, MemAllocRechazado, MemAlloc, MemFreeRechazado, MemFree, FinalizarProceso,
     SuspenderSinSwap, SuspenderProceso, ReanudarProceso, Seguir, CompactarMemoria, Reintentar,
     RegistrarSegmento, LiberarSegmento, LiberarUno, SuspenderSegmento, SuspenderFalla,
     ReanudarSegmento, ReanudarFalla, vars, respaldo
<1> QED BY <1>2, <1>3, <1>4

LEMMA DominiosPaso ==
  ASSUME TypeOK, Orden, Dominios, Next
  PROVE  Dominios'
<1>1. DOMAIN bytes' = DOMAIN bytes
  <2>1. ASSUME NEW p \in Procesos, MemWrite(p) PROVE DOMAIN bytes' = DOMAIN bytes
    BY <2>1 DEF MemWrite, EscribirEnSticks
  <2>2. CASE CompactarMemoria
    BY <2>2 DEF CompactarMemoria, BytesMudados
  <2>3. CASE ReanudarSegmento
    <3>1. \E s : bytes' = (IF swap = "si"
                          THEN [b \in DOMAIN bytes |-> s[b]]
                          ELSE bytes)
      <4>1. PICK ss \in PorTraer : \E s :
              bytes' = IF swap = "si"
                       THEN [b \in DOMAIN bytes |->
                               IF b \in Rango(s) THEN EnBloque(ss.bloques, b - s.base) ELSE bytes[b]]
                       ELSE bytes
        BY <2>3, Zenon DEF ReanudarSegmento
      <4>2. PICK s :
              bytes' = IF swap = "si"
                       THEN [b \in DOMAIN bytes |->
                               IF b \in Rango(s) THEN EnBloque(ss.bloques, b - s.base) ELSE bytes[b]]
                       ELSE bytes
        BY <4>1
      <4> DEFINE g == [b \in DOMAIN bytes |->
                        IF b \in Rango(s) THEN EnBloque(ss.bloques, b - s.base) ELSE bytes[b]]
      <4>3. g = [b \in DOMAIN bytes |-> g[b]] /\ bytes' = IF swap = "si" THEN g ELSE bytes
        BY <4>2
      <4> HIDE DEF g
      <4> QED BY <4>3
    <3> QED BY <3>1
  <2>4. ~(\E p \in Procesos : MemWrite(p)) /\ ~CompactarMemoria /\ ~ReanudarSegmento => bytes' = bytes
    BY DEF Next, Reposo, ConectarStick, ConectarSwap, CaerSwap, Cpu, PedirContexto,
       ActualizarContexto, Desalojar, GuardarContexto, Recibir, Despertar, Atender, CrearProceso,
       MemAllocRechazado, MemAlloc, MemFreeRechazado, MemFree, FinalizarProceso, SuspenderSinSwap,
       SuspenderProceso, ReanudarProceso, Seguir, Reintentar, RegistrarSegmento, LiberarSegmento,
       LiberarUno, DestruirProceso, SuspenderSegmento, SuspenderFalla, TerminarSuspension,
       ReanudarFalla, TerminarReanudacion, vars, memoria
  <2> QED BY <2>1, <2>2, <2>3, <2>4
<1>2. \A b \in 1 .. CantBloques : DOMAIN disco'[b] = DOMAIN disco[b]
  <2>1. CASE SuspenderSegmento
    <3>1. PICK s \in PorMover : disco' = Escritos(Asignados(s.tam), s)
      BY <2>1 DEF SuspenderSegmento
    <3>2. ASSUME NEW b \in 1 .. CantBloques PROVE DOMAIN disco'[b] = DOMAIN disco[b]
      <4>1. b \in DOMAIN disco
        BY DEF Orden, TiposSwap
      <4> QED BY <3>1, <4>1 DEF Escritos
    <3> QED BY <3>2
  <2>2. ~SuspenderSegmento => disco' = disco
    BY DEF Next, Reposo, ConectarStick, ConectarSwap, CaerSwap, Cpu, PedirContexto,
       ActualizarContexto, Desalojar, GuardarContexto, Recibir, MemWrite, Despertar, Atender,
       CrearProceso, MemAllocRechazado, MemAlloc, MemFreeRechazado, MemFree, FinalizarProceso,
       SuspenderSinSwap, SuspenderProceso, ReanudarProceso, Seguir, CompactarMemoria, Reintentar,
       RegistrarSegmento, LiberarSegmento, LiberarUno, DestruirProceso, SuspenderFalla,
       TerminarSuspension, ReanudarSegmento, ReanudarFalla, TerminarReanudacion, vars, respaldo
  <2> QED BY <2>1, <2>2
<1> QED BY <1>1, <1>2 DEF Dominios, Limite

LEMMA AsignadosLargo ==
  ASSUME TypeOK, NEW t \in Tamanios, Len(libres) >= Cantidad(t)
  PROVE  Len(Asignados(t)) = Cantidad(t)
<1> DEFINE n == Cantidad(t)
<1>1. n \in Nat /\ n <= Len(libres) /\ libres \in Seq(1 .. CantBloques)
  BY CantidadNat, TamaniosNat DEF TypeOK
<1>2. Asignados(t) = SubSeq(libres, 1, n)
  BY DEF Asignados
<1> HIDE DEF n
<1>3. Len(SubSeq(libres, 1, n)) = n
  BY <1>1, Parten
<1> QED BY <1>2, <1>3 DEF n

LEMMA LargosPaso ==
  ASSUME TypeOK, Orden, Largos, Next
  PROVE  Largos'
<1>1. ASSUME NEW ss, ss \in movidos' PROVE Len(ss.bloques) = Cantidad(ss.tam)
  <2>1. CASE SuspenderSegmento
    <3>1. PICK s \in PorMover :
            /\ Len(libres) >= Cantidad(s.tam)
            /\ movidos' = movidos \cup {[id |-> s.id, tam |-> s.tam, bloques |-> Asignados(s.tam)]}
      BY <2>1 DEF SuspenderSegmento
    <3>2. s.tam \in Tamanios
      BY <2>1, <3>1 DEF PorMover, Segmentos, SuspenderSegmento, TypeOK, Orden, Operacion
    <3>3. Len(Asignados(s.tam)) = Cantidad(s.tam)
      BY <3>1, <3>2, AsignadosLargo
    <3> QED BY <1>1, <3>1, <3>3 DEF Largos
  <2>2. ~SuspenderSegmento => movidos' \subseteq movidos
    BY DEF Next, Reposo, ConectarStick, ConectarSwap, CaerSwap, Cpu, PedirContexto,
       ActualizarContexto, Desalojar, GuardarContexto, Recibir, MemWrite, Despertar, Atender,
       CrearProceso, MemAllocRechazado, MemAlloc, MemFreeRechazado, MemFree, FinalizarProceso,
       SuspenderSinSwap, SuspenderProceso, ReanudarProceso, Seguir, CompactarMemoria, Reintentar,
       RegistrarSegmento, LiberarSegmento, LiberarUno, DestruirProceso, SuspenderFalla,
       TerminarSuspension, ReanudarSegmento, ReanudarFalla, TerminarReanudacion, vars, operacion
  <2> QED BY <1>1, <2>1, <2>2 DEF Largos
<1>2. \A p \in Procesos : suspendidos'[p] \subseteq suspendidos[p] \cup movidos
  BY SuspendidosSalen
<1> QED BY <1>1, <1>2 DEF Largos, Cantidad

LEMMA SinSwapNadaPaso ==
  ASSUME TypeOK, Orden, BloquesVivos, SinSwapNada, Next, ~pisado'
  PROVE  SinSwapNada'
<1> SUFFICES ASSUME swap' = "no", NEW p \in Procesos, NEW ss \in suspendidos'[p] PROVE FALSE
  BY DEF SinSwapNada
<1>1. swap = "no"
  BY DEF Next, Reposo, ConectarStick, ConectarSwap, CaerSwap, Cpu, PedirContexto,
     ActualizarContexto, Desalojar, GuardarContexto, Recibir, MemWrite, Despertar, Atender,
     CrearProceso, MemAllocRechazado, MemAlloc, MemFreeRechazado, MemFree, FinalizarProceso,
     SuspenderSinSwap, SuspenderProceso, ReanudarProceso, Seguir, CompactarMemoria, Reintentar,
     RegistrarSegmento, LiberarSegmento, LiberarUno, DestruirProceso, SuspenderSegmento,
     SuspenderFalla, TerminarSuspension, ReanudarSegmento, ReanudarFalla, TerminarReanudacion,
     vars, respaldo
<1>2. TerminarSuspension
  BY <1>1, SuspendidosSalen DEF SinSwapNada
<1>3. paso = "suspender" /\ pid \in Procesos /\ suspendidos' = [suspendidos EXCEPT ![pid] = @ \cup movidos]
  BY <1>2 DEF TerminarSuspension, Orden, Operacion, TypeOK
<1>4. EnSwap(pid) = {} /\ EnSwap(pid) = suspendidos[pid] \cup movidos
  <2>1. PICK q \in Procesos : q = pid
    BY <1>3
  <2>2. EnSwap(q) = {}
    BY <1>1, <1>3, SinPisar DEF BloquesVivos, Bloques, Entero
  <2>3. EnSwap(q) = suspendidos[q] \cup movidos
    BY <1>3, <2>1, EnSwapFacts
  <2> QED BY <2>1, <2>2, <2>3
<1>5. movidos = {}
  BY <1>4
<1>6. ss \in suspendidos[p]
  BY <1>3, <1>5 DEF Orden, TiposSwap
<1> QED BY <1>1, <1>6 DEF SinSwapNada

(* What moves bytes while the thread is half way of a suspension or of a    *)
(* resumption: itself, and the programs of the other processes.             *)
LEMMA PasoSuspender ==
  ASSUME TypeOK, Orden, Next, ~pisado', paso' = "suspender"
  PROVE  \/ paso = "espera" /\ movidos' = {} /\ UNCHANGED tabla
         \/ SuspenderSegmento
         \/ /\ paso = "suspender" /\ UNCHANGED <<disco, tabla, movidos, pid>>
            /\ bytes' = bytes \/ \E p \in Procesos : MemWrite(p)
<1>1. Operacion /\ tabla \in [Procesos -> SUBSET Segmentos]
  BY DEF Orden, TypeOK
<1>2. CASE UNCHANGED vars
  BY <1>2 DEF vars, memoria, respaldo, operacion
<1>3. CASE ConectarStick \/ ConectarSwap \/ CaerSwap
  BY <1>3 DEF ConectarStick, ConectarSwap, CaerSwap, memoria, respaldo, operacion
<1>4. ASSUME NEW p \in Procesos, Cpu(p)
      PROVE  /\ paso = "suspender" /\ UNCHANGED <<disco, tabla, movidos, pid>>
             /\ bytes' = bytes \/ \E q \in Procesos : MemWrite(q)
  <2>1. tabla' = tabla
    BY <1>1, <1>4, TablaQuieta
  <2> QED BY <1>4, <2>1 DEF Cpu, PedirContexto, ActualizarContexto, Desalojar, GuardarContexto,
       Recibir, MemWrite, Despertar, memoria, respaldo, operacion
<1>5. ASSUME NEW p \in Procesos, Atender(p)
      PROVE  paso = "espera" /\ movidos' = {} /\ UNCHANGED tabla
  <2>1. CASE SuspenderProceso(p)
    BY <1>1, <2>1 DEF SuspenderProceso, Operacion, memoria
  <2>2. CASE MemAlloc(p)
    <3>1. paso' \in {"registrar", "espera_ok"}
      BY <2>2, Zenon DEF MemAlloc, Ocupar
    <3> QED BY <3>1
  <2> QED BY <1>5, <2>1, <2>2 DEF Atender, CrearProceso, MemAllocRechazado, MemFreeRechazado,
       MemFree, FinalizarProceso, SuspenderSinSwap, ReanudarProceso, Responder, operacion
<1>6. ASSUME Seguir PROVE SuspenderSegmento
  BY <1>6 DEF Seguir, CompactarMemoria, Reintentar, RegistrarSegmento, LiberarSegmento, LiberarUno,
     DestruirProceso, SuspenderFalla, TerminarSuspension, ReanudarSegmento, ReanudarFalla,
     TerminarReanudacion, Responder, Ocupar
<1> QED BY <1>2, <1>3, <1>4, <1>5, <1>6 DEF Next, Reposo

LEMMA PasoReanudar ==
  ASSUME TypeOK, Orden, Next, ~pisado', paso' = "reanudar"
  PROVE  \/ paso = "espera" /\ sueltos' = {}
         \/ ReanudarSegmento
         \/ /\ paso = "reanudar" /\ UNCHANGED <<disco, tabla, suspendidos, sueltos, pid>>
            /\ swap' = "si" => swap \in {"no", "si"}
            /\ bytes' = bytes \/ \E p \in Procesos : MemWrite(p)
<1>1. Operacion /\ tabla \in [Procesos -> SUBSET Segmentos]
  BY DEF Orden, TypeOK
<1>2. CASE UNCHANGED vars
  BY <1>2 DEF vars, memoria, respaldo, operacion
<1>3. CASE ConectarStick \/ ConectarSwap \/ CaerSwap
  BY <1>3 DEF ConectarStick, ConectarSwap, CaerSwap, memoria, respaldo, operacion
<1>4. ASSUME NEW p \in Procesos, Cpu(p)
      PROVE  /\ paso = "reanudar" /\ UNCHANGED <<disco, tabla, suspendidos, sueltos, pid>>
             /\ swap' = "si" => swap \in {"no", "si"}
             /\ bytes' = bytes \/ \E q \in Procesos : MemWrite(q)
  <2>1. tabla' = tabla
    BY <1>1, <1>4, TablaQuieta
  <2> QED BY <1>4, <2>1 DEF Cpu, PedirContexto, ActualizarContexto, Desalojar, GuardarContexto,
       Recibir, MemWrite, Despertar, memoria, respaldo, operacion
<1>5. ASSUME NEW p \in Procesos, Atender(p)
      PROVE  paso = "espera" /\ sueltos' = {}
  <2>1. CASE ReanudarProceso(p)
    BY <1>1, <2>1 DEF ReanudarProceso, Operacion
  <2>2. CASE MemAlloc(p)
    <3>1. paso' \in {"registrar", "espera_ok"}
      BY <2>2, Zenon DEF MemAlloc, Ocupar
    <3> QED BY <3>1
  <2> QED BY <1>5, <2>1, <2>2 DEF Atender, CrearProceso, MemAllocRechazado, MemFreeRechazado,
       MemFree, FinalizarProceso, SuspenderSinSwap, SuspenderProceso, Responder, operacion
<1>6. ASSUME Seguir PROVE ReanudarSegmento
  BY <1>6 DEF Seguir, CompactarMemoria, Reintentar, RegistrarSegmento, LiberarSegmento, LiberarUno,
     DestruirProceso, SuspenderFalla, TerminarSuspension, SuspenderSegmento, ReanudarFalla,
     TerminarReanudacion, Responder, Ocupar
<1> QED BY <1>2, <1>3, <1>4, <1>5, <1>6 DEF Next, Reposo

LEMMA TablasPuestasPaso ==
  ASSUME TypeOK, Orden, RepartoVivo, TablasPuestas, Next, ~pisado'
  PROVE  TablasPuestas'
<1> SUFFICES ASSUME paso' = "suspender" PROVE (Separadas /\ \A p \in Procesos : Dentro(tabla[p]))'
  BY DEF TablasPuestas
<1>1. ASSUME Separadas, \A p \in Procesos : Dentro(tabla[p]), UNCHANGED tabla
      PROVE  (Separadas /\ \A p \in Procesos : Dentro(tabla[p]))'
  BY <1>1 DEF Separadas, Dentro, Limite
<1>2. CASE paso = "espera" /\ UNCHANGED tabla
  <2>1. Reparto
    BY <1>2, SinPisar DEF RepartoVivo, Entero
  <2>2. \A p \in Procesos : Tiene(p) = tabla[p] /\ p \in Tenedores
    BY <1>2, TodosEnTablas, TieneFacts
  <2>3. \A p \in Procesos : tabla[p] \subseteq Todos
    BY <2>2, TodosDe
  <2>4. Separadas
    BY <2>1, <2>2, <2>3 DEF Reparto, DeUno, BienPuestos, Disjuntos, Separadas
  <2>5. ASSUME NEW p \in Procesos, NEW s \in tabla[p] PROVE Tramo(s) /\ s.base + s.tam <= Limite
    <3>1. s \in Todos
      BY <2>3
    <3>2. Tramo(s) /\ s.base + s.tam <= Tope /\ Tope <= Limite /\ Tope \in Nat /\ Limite \in Nat
      BY <2>1, <3>1, LimiteNat DEF Reparto, BienPuestos, Tramos
    <3> QED BY <3>2 DEF Tramo
  <2> QED BY <1>1, <1>2, <2>4, <2>5 DEF Dentro
<1>3. CASE SuspenderSegmento
  BY <1>1, <1>3 DEF SuspenderSegmento, TablasPuestas
<1> QED BY <1>1, <1>2, <1>3, PasoSuspender DEF TablasPuestas

(* What is written in one segment does not change another.                  *)
LEMMA TrozoAjeno ==
  ASSUME Dominios, NEW s, Tramo(s), NEW t, Tramo(t), t.base + t.tam <= Limite,
         Antes(s, t) \/ Antes(t, s),
         NEW by, \A b \in 0 .. Limite - 1 : b \notin Rango(s) => by[b] = bytes[b]
  PROVE  TrozoEn(by, t) = TrozoEn(bytes, t)
<1>1. ASSUME NEW o \in 0 .. t.tam - 1 PROVE by[t.base + o] = bytes[t.base + o]
  <2>1. t.base + o \in 0 .. Limite - 1 /\ ~(s.base <= t.base + o /\ t.base + o < s.base + s.tam)
    BY LimiteNat DEF Tramo, Antes
  <2>2. t.base + o \notin Rango(s)
    BY <2>1, RangoFacts
  <2> QED BY <2>1, <2>2
<1> QED BY <1>1, TrozoEstable

(* A write of a program, in a segment of its own.                           *)
LEMMA Escribe ==
  ASSUME TypeOK, Orden, Dominios, ~pisado', NEW p \in Procesos, MemWrite(p)
  PROVE  /\ fase[p] = "corre"
         /\ \E s \in tabla[p] : \E o \in 0 .. s.tam - 1 :
              /\ bytes' = [bytes EXCEPT ![s.base + o] = <<p, s.id, o>>]
              /\ \A b \in 0 .. Limite - 1 : b # s.base + o => bytes'[b] = bytes[b]
              /\ \A b \in 0 .. Limite - 1 : b \notin Rango(s) => bytes'[b] = bytes[b]
<1>1. PICK so \in MmuTraducir(p) :
        /\ bytes' = [bytes EXCEPT ![so[1].base + so[2]] = <<p, so[1].id, so[2]>>]
        /\ so[1] \in tabla[p]
  BY DEF MemWrite, EscribirEnSticks
<1>2. fase[p] = "corre"
  BY DEF MemWrite
<1>3. PICK s \in tabla[p], o \in Desplazamientos : so = <<s, o>> /\ o < s.tam
  BY <1>1, <1>2 DEF MmuTraducir
<1>4. s.tam \in Nat \ {0} /\ s.base \in Nat /\ o \in Nat
  BY SticksAssumption, EscriturasAssumption, TamaniosNat DEF TypeOK, Segmentos
<1>5. bytes' = [bytes EXCEPT ![s.base + o] = <<p, s.id, o>>] /\ o \in 0 .. s.tam - 1
  BY <1>1, <1>3, <1>4
<1>6. s.base + o \in Rango(s)
  BY <1>4, <1>5 DEF Rango
<1>7. \A b \in 0 .. Limite - 1 : b # s.base + o => bytes'[b] = bytes[b]
  BY <1>5 DEF Dominios
<1> QED BY <1>2, <1>5, <1>6, <1>7

(***************************************************************************)
(* A segment that goes to swap                                              *)
(***************************************************************************)
IndiceDe(q, b) == LET I == {i \in 1 .. Len(q) : q[i] = b} IN IF I # {} THEN Min(I) ELSE 0

LEMMA IndiceUnico ==
  ASSUME NEW S, NEW q \in Seq(S), IsInjective(q), NEW i \in 1 .. Len(q)
  PROVE  IndiceDe(q, q[i]) = i
<1> DEFINE I == {j \in 1 .. Len(q) : q[j] = q[i]}
<1>1. Len(q) \in Nat /\ SinRepetidos(q)
  BY Vueltas
<1>2. I = {i}
  BY <1>1 DEF SinRepetidos
<1>3. IndiceDe(q, q[i]) = Min(I)
  BY <1>2 DEF IndiceDe
<1> HIDE DEF I
<1>4. Min(I) \in I
  BY <1>1, <1>2, MinProperties
<1> QED BY <1>2, <1>3, <1>4

LEMMA EscritosFacts ==
  ASSUME Dominios, DOMAIN disco = 1 .. CantBloques, NEW s, s.tam \in Nat \ {0},
         NEW r \in Registros, IsInjective(r.bloques), Len(r.bloques) = Cantidad(s.tam),
         r.id = s.id, r.tam = s.tam
  PROVE  /\ TrozoDeSwap(Escritos(r.bloques, s), r) = TrozoEn(bytes, s)
         /\ \A b \in 1 .. CantBloques : ~Contains(r.bloques, b) => Escritos(r.bloques, s)[b] = disco[b]
<1> DEFINE bs == r.bloques
           dz == Escritos(bs, s)
<1>1. bs \in Seq(1 .. CantBloques)
  BY RegistrosFacts
<1>2. \A b \in 1 .. CantBloques : ~Contains(bs, b) => dz[b] = disco[b]
  BY DEF Escritos
<1>3. \A b \in 1 .. CantBloques : Contains(bs, b) =>
        dz[b] = [o \in DOMAIN disco[b] |->
                   IF (IndiceDe(bs, b) - 1) * BLOCK_SIZE + o < s.tam
                   THEN LeerDeSticks(s, (IndiceDe(bs, b) - 1) * BLOCK_SIZE + o) ELSE BASURA]
  BY DEF Escritos, SelectInSeq, IndiceDe
<1> HIDE DEF dz, bs
<1>4. ASSUME NEW o \in 0 .. s.tam - 1
      PROVE  dz[bs[o \div BLOCK_SIZE + 1]][o % BLOCK_SIZE] = bytes[s.base + o]
  <2> DEFINE i == o \div BLOCK_SIZE + 1
             k == o % BLOCK_SIZE
             b == bs[i]
             n == (IndiceDe(bs, b) - 1) * BLOCK_SIZE
  <2>1. i \in 1 .. Len(bs) /\ k \in 0 .. BLOCK_SIZE - 1 /\ (i - 1) * BLOCK_SIZE + k = o
    <3>1. (o \div BLOCK_SIZE + 1) - 1 = o \div BLOCK_SIZE
      BY BloquesAssumption
    <3> QED BY <3>1, Lugar DEF bs
  <2> HIDE DEF i, k
  <2>2. b \in 1 .. CantBloques /\ Contains(bs, b)
    <3>2. b \in 1 .. CantBloques
      BY <1>1, <2>1, ElementOfSeq
    <3>3. \E j \in 1 .. Len(bs) : bs[j] = b
      BY <2>1
    <3> QED BY <3>2, <3>3 DEF Contains
  <2>3. IndiceDe(bs, b) = i
    BY <1>1, <2>1, IndiceUnico DEF bs
  <2>4. n = (i - 1) * BLOCK_SIZE /\ k \in DOMAIN disco[b]
    BY <2>1, <2>2, <2>3 DEF Dominios
  <2>5. dz[b] = [m \in DOMAIN disco[b] |-> IF n + m < s.tam THEN LeerDeSticks(s, n + m) ELSE BASURA]
    BY <1>3, <2>2
  <2> HIDE DEF n, b
  <2>6. n + k = o /\ o < s.tam
    BY <2>1, <2>4
  <2>7. dz[b][k] = LeerDeSticks(s, o)
    BY <2>4, <2>5, <2>6
  <2> QED BY <2>7 DEF LeerDeSticks, i, k, b
<1> QED BY <1>2, <1>4 DEF TrozoDeSwap, TrozoEn, bs, dz

LEMMA Suspende ==
  ASSUME TypeOK, Orden, Bloques, Dominios, Largos, SuspenderSegmento
  PROVE  \E s \in PorMover, r \in Registros :
           /\ r.id = s.id /\ r.tam = s.tam /\ movidos' = movidos \cup {r}
           /\ PorMover' = PorMover \ {s}
           /\ TrozoDeSwap(disco', r) = TrozoEn(bytes, s)
           /\ \A p \in Procesos : \A ss \in EnSwap(p) :
                TrozoDeSwap(disco', ss) = TrozoDeSwap(disco, ss)
<1>1. /\ UNCHANGED <<tabla, suspendidos, pid>> /\ paso = "suspender" /\ pid \in Procesos
      /\ tabla \in [Procesos -> SUBSET Segmentos] /\ libres \in Seq(1 .. CantBloques)
      /\ DOMAIN disco = 1 .. CantBloques
  BY DEF SuspenderSegmento, TypeOK, Orden, Operacion, TiposSwap
<1>2. PICK s \in PorMover :
       /\ Len(libres) >= Cantidad(s.tam)
       /\ disco' = Escritos(Asignados(s.tam), s)
       /\ movidos' = movidos \cup {[id |-> s.id, tam |-> s.tam, bloques |-> Asignados(s.tam)]}
  BY DEF SuspenderSegmento
<1> DEFINE r == [id |-> s.id, tam |-> s.tam, bloques |-> Asignados(s.tam)]
<1>3. s \in tabla[pid] /\ s.tam \in Tamanios /\ s.tam \in Nat \ {0} /\ s.id \in Ids
  BY <1>1, <1>2, TamaniosNat DEF PorMover, Segmentos
<1>4. r.bloques \in Seq(1 .. CantBloques) /\ Len(r.bloques) = Cantidad(s.tam)
  BY <1>2, <1>3, AsignadosTipo, AsignadosLargo
<1>5. r \in Registros /\ r.id = s.id /\ r.tam = s.tam
  BY <1>3, <1>4 DEF Registros
<1>6. movidos' = movidos \cup {r} /\ disco' = Escritos(r.bloques, s)
  BY <1>2
<1>7. IsInjective(r.bloques) /\ \A b : Contains(r.bloques, b) => Contains(libres, b)
  <2> DEFINE n == Cantidad(s.tam)
  <2>1. n \in Nat /\ n <= Len(libres) /\ r.bloques = SubSeq(libres, 1, n)
    BY <1>2, <1>3, CantidadNat DEF Asignados
  <2> HIDE DEF n, r
  <2> QED BY <1>1, <2>1, PartenLista DEF Bloques
<1> HIDE DEF r
<1>8. /\ TrozoDeSwap(disco', r) = TrozoEn(bytes, s)
      /\ \A b \in 1 .. CantBloques : ~Contains(r.bloques, b) => disco'[b] = disco[b]
  BY <1>1, <1>3, <1>4, <1>5, <1>6, <1>7, EscritosFacts
<1>9. ASSUME NEW p \in Procesos, NEW ss \in EnSwap(p)
      PROVE  TrozoDeSwap(disco', ss) = TrozoDeSwap(disco, ss)
  <2>1. ss \in Registros
    BY EnSwapTipo
  <2>2. Len(ss.bloques) = Cantidad(ss.tam)
    BY <1>1, EnSwapFacts DEF Largos
  <2>3. ASSUME NEW b, Contains(ss.bloques, b) PROVE disco'[b] = disco[b]
    <3>0. ss.bloques \in Seq(1 .. CantBloques)
      BY <2>1, RegistrosFacts
    <3>1. b \in 1 .. CantBloques
      BY <2>3, <3>0, ElementOfSeq DEF Contains
    <3>2. ~Contains(r.bloques, b)
      BY <1>7, <2>3 DEF Bloques
    <3> QED BY <1>8, <3>1, <3>2
  <2> QED BY <2>1, <2>2, <2>3, TrozoDeSwapEstable
<1>10. PorMover' = PorMover \ {s}
  <2>1. \A i : i \in IdsDe(movidos') <=> i \in IdsDe(movidos) \/ i = s.id
    BY <1>5, <1>6 DEF IdsDe
  <2>2. \A t \in tabla[pid] : t.id = s.id => t = s
    BY <1>1, <1>3 DEF Orden, Identificadores, IdsDistintos
  <2>3. \A t : t \in PorMover' <=> t \in tabla[pid] /\ t.id \notin IdsDe(movidos')
    BY <1>1 DEF PorMover
  <2>4. \A t : t \in PorMover <=> t \in tabla[pid] /\ t.id \notin IdsDe(movidos)
    BY DEF PorMover
  <2> QED BY <1>2, <2>1, <2>2, <2>3, <2>4
<1> QED BY <1>2, <1>5, <1>6, <1>8, <1>9, <1>10

(***************************************************************************)
(* A segment that comes back                                                *)
(***************************************************************************)
LEMMA EnMemoriaDeTodos ==
  \A p \in Procesos : Tiene(p) = EnMemoria(p) /\ EnMemoria(p) \subseteq Todos
BY NadieMemoriaAssumption, TodosDe DEF Tiene, Tenedores

LEMMA EnMemoriaDeTodosPrima ==
  (\A p \in Procesos : Tiene(p) = EnMemoria(p) /\ EnMemoria(p) \subseteq Todos)'
BY EnMemoriaDeTodos, PTL

(* The segments are apart, and inside the sticks.                           *)
Apartadas ==
  /\ \A p \in Procesos : Dentro(EnMemoria(p))
  /\ \A p, q \in Procesos : \A s \in EnMemoria(p), t \in EnMemoria(q) :
       (p = q /\ s = t) \/ Antes(s, t) \/ Antes(t, s)

LEMMA Apartados == Reparto => Apartadas
<1> SUFFICES ASSUME Reparto PROVE Apartadas
  OBVIOUS
<1>1. DeUno /\ BienPuestos(Todos, Tope)
  BY DEF Reparto
<1>2. ASSUME NEW p \in Procesos, NEW s \in EnMemoria(p) PROVE Tramo(s) /\ s.base + s.tam <= Limite
  <2>1. s \in Todos
    BY EnMemoriaDeTodos
  <2>2. Tramo(s) /\ s.base + s.tam <= Tope /\ Tope \in Nat /\ Tope <= Limite /\ Limite \in Nat
    BY <1>1, <2>1, LimiteNat DEF BienPuestos, Tramos
  <2> QED BY <2>2 DEF Tramo
<1>3. ASSUME NEW p \in Procesos, NEW q \in Procesos, NEW s \in EnMemoria(p), NEW t \in EnMemoria(q)
      PROVE  (p = q /\ s = t) \/ Antes(s, t) \/ Antes(t, s)
  <2>1. s \in Todos /\ t \in Todos /\ s \in Tiene(p) /\ t \in Tiene(q) /\ p \in Tenedores /\ q \in Tenedores
    BY EnMemoriaDeTodos, TieneFacts
  <2>2. s = t => p = q
    BY <1>1, <2>1 DEF DeUno
  <2> QED BY <1>1, <2>1, <2>2 DEF BienPuestos, Disjuntos
<1> QED BY <1>2, <1>3 DEF Dentro, Apartadas

LEMMA ApartadosPrima == Reparto' => Apartadas'
BY Apartados, PTL

LEMMA EnMemoriaFacts ==
  \A p \in Procesos :
    /\ ~(paso \in {"suspender", "reanudar"} /\ pid = p) => EnMemoria(p) = tabla[p]
    /\ paso = "suspender" /\ pid = p => EnMemoria(p) = PorMover
    /\ paso = "reanudar" /\ pid = p => EnMemoria(p) = tabla[p] \cup sueltos
BY DEF EnMemoria

LEMMA EnMemoriaFactsPrima ==
  \A p \in Procesos :
    /\ ~(paso' \in {"suspender", "reanudar"} /\ pid' = p) => EnMemoria(p)' = tabla'[p]
    /\ paso' = "suspender" /\ pid' = p => EnMemoria(p)' = PorMover'
    /\ paso' = "reanudar" /\ pid' = p => EnMemoria(p)' = tabla'[p] \cup sueltos'
BY DEF EnMemoria

LEMMA Reanuda ==
  ASSUME TypeOK, Orden, Reparto, Dominios, ReanudarSegmento
  PROVE  \E ss \in PorTraer : \E s :
           /\ s.id = ss.id /\ s.tam = ss.tam /\ sueltos' = sueltos \cup {s}
           /\ PorTraer' = PorTraer \ {ss}
           /\ swap = "si" => TrozoEn(bytes', s) = TrozoDeSwap(disco, ss)
           /\ \A p \in Procesos : \A t \in EnMemoria(p) : TrozoEn(bytes', t) = TrozoEn(bytes, t)
<1>1. /\ UNCHANGED <<tabla, suspendidos, sticks, paso, pid>> /\ paso = "reanudar" /\ pid \in Procesos
  BY DEF ReanudarSegmento, TypeOK, Orden, Operacion
<1>2. PICK ss \in PorTraer :
        /\ sueltos' = sueltos \cup {[id |-> ss.id, base |-> Elegido(ss.tam).base, tam |-> ss.tam]}
        /\ bytes' = IF swap = "si"
                    THEN [b \in DOMAIN bytes |->
                            IF b \in Rango([id |-> ss.id, base |-> Elegido(ss.tam).base, tam |-> ss.tam])
                            THEN EnBloque(ss.bloques,
                                   b - [id |-> ss.id, base |-> Elegido(ss.tam).base, tam |-> ss.tam].base)
                            ELSE bytes[b]]
                    ELSE bytes
  BY Zenon DEF ReanudarSegmento
<1> DEFINE s == [id |-> ss.id, base |-> Elegido(ss.tam).base, tam |-> ss.tam]
<1>3. s.id = ss.id /\ s.tam = ss.tam
  OBVIOUS
<1>4. /\ sueltos' = sueltos \cup {s}
      /\ bytes' = IF swap = "si"
                  THEN [b \in DOMAIN bytes |->
                          IF b \in Rango(s) THEN EnBloque(ss.bloques, b - s.base) ELSE bytes[b]]
                  ELSE bytes
  BY <1>2, Zenon
<1> HIDE DEF s
<1>0. PICK p0 \in Procesos : p0 = pid
  BY <1>1
<1>5. ss \in suspendidos[pid] /\ ss.id \notin IdsDe(sueltos) /\ tabla[pid] = {}
  <2>1. ss \in suspendidos[pid] /\ ss.id \notin IdsDe(sueltos)
    BY <1>2 DEF PorTraer
  <2> QED BY <1>0, <2>1 DEF Orden, Suspendidos
<1>6. Reparto'
  BY RepartoReanudar
<1>7. EnMemoria(p0)' = {s} \cup EnMemoria(p0) /\ \A q \in Procesos \ {p0} : EnMemoria(q)' = EnMemoria(q)
  BY <1>0, <1>1, <1>4, EnMemoriaFacts, EnMemoriaFactsPrima
<1>8. Tramo(s) /\ s.base + s.tam <= Limite
  BY <1>6, <1>7, ApartadosPrima DEF Apartadas, Dentro, Limite
<1>9. ASSUME NEW p \in Procesos, NEW t \in EnMemoria(p)
      PROVE  Tramo(t) /\ t.base + t.tam <= Limite /\ (Antes(s, t) \/ Antes(t, s))
  <2>1. t \in EnMemoria(p)' /\ s \in EnMemoria(p0)'
    BY <1>7
  <2>2. ~(p0 = p /\ s = t)
    <3> SUFFICES ASSUME p0 = p, s = t PROVE FALSE
      OBVIOUS
    <3>1. s \in sueltos
      BY <1>0, <1>1, <1>5, EnMemoriaFacts
    <3> QED BY <1>3, <1>5, <3>1 DEF IdsDe
  <2> QED BY <1>6, <2>1, <2>2, ApartadosPrima DEF Apartadas, Dentro, Limite
<1>10. \A b \in 0 .. Limite - 1 : b \notin Rango(s) => bytes'[b] = bytes[b]
  BY <1>4 DEF Dominios
<1>11. \A p \in Procesos : \A t \in EnMemoria(p) : TrozoEn(bytes', t) = TrozoEn(bytes, t)
  BY <1>8, <1>9, <1>10, TrozoAjeno
<1>12. ASSUME swap = "si" PROVE TrozoEn(bytes', s) = TrozoDeSwap(disco, ss)
  <2>1. ASSUME NEW o \in 0 .. s.tam - 1 PROVE bytes'[s.base + o] = EnBloque(ss.bloques, o)
    <3>1. s.base + o \in 0 .. Limite - 1 /\ s.base + o \in Rango(s)
      BY <1>8, LimiteNat DEF Tramo, Rango
    <3>2. \A b \in DOMAIN bytes : b \in Rango(s) => bytes'[b] = EnBloque(ss.bloques, b - s.base)
      BY <1>4, <1>12
    <3>3. PICK b \in 0 .. Limite - 1 : b = s.base + o
      BY <3>1
    <3>4. b \in DOMAIN bytes /\ b \in Rango(s)
      BY <3>1, <3>3 DEF Dominios
    <3>5. bytes'[b] = EnBloque(ss.bloques, b - s.base)
      BY <3>2, <3>4
    <3>6. b - s.base = o
      BY <1>8, <3>3 DEF Tramo
    <3> QED BY <3>3, <3>5, <3>6
  <2> QED BY <1>3, <2>1 DEF TrozoEn, TrozoDeSwap, EnBloque
<1>13. PorTraer' = PorTraer \ {ss}
  <2>1. \A i : i \in IdsDe(sueltos') <=> i \in IdsDe(sueltos) \/ i = ss.id
    BY <1>3, <1>4 DEF IdsDe
  <2>2. \A t \in suspendidos[pid] : t.id = ss.id => t = ss
    BY <1>1, <1>5 DEF Orden, Identificadores, IdsDistintos
  <2>3. \A t : t \in PorTraer' <=> t \in suspendidos[pid] /\ t.id \notin IdsDe(sueltos')
    BY <1>1 DEF PorTraer
  <2>4. \A t : t \in PorTraer <=> t \in suspendidos[pid] /\ t.id \notin IdsDe(sueltos)
    BY DEF PorTraer
  <2> QED BY <1>2, <2>1, <2>2, <2>3, <2>4
<1> QED BY <1>2, <1>3, <1>4, <1>11, <1>12, <1>13

(* A program does not write in the segments of another.                     *)
LEMMA EscribeAparte ==
  ASSUME TypeOK, Orden, Dominios, ~pisado', NEW p \in Procesos, MemWrite(p),
         NEW t, Tramo(t), t.base + t.tam <= Limite,
         \A s \in tabla[p] : Tramo(s) /\ (Antes(s, t) \/ Antes(t, s))
  PROVE  TrozoEn(bytes', t) = TrozoEn(bytes, t)
<1>1. PICK s \in tabla[p] : \A b \in 0 .. Limite - 1 : b \notin Rango(s) => bytes'[b] = bytes[b]
  BY Escribe
<1> QED BY <1>1, TrozoAjeno

LEMMA CopiaEnSticksPaso ==
  ASSUME TypeOK, Orden, BloquesVivos, Dominios, Largos, TablasPuestas, Copias, Next, ~pisado',
         paso' = "suspender"
  PROVE  CopiaEnSticks'
<1> SUFFICES ASSUME NEW r \in movidos'
             PROVE  \E s \in tabla'[pid'] : TrozoDeSwap(disco', r) = TrozoEn(bytes', s)
  BY DEF CopiaEnSticks, TrozoEn, TrozoDeSwap
<1>1. CASE SuspenderSegmento
  <2>1. UNCHANGED <<tabla, bytes, pid>> /\ paso = "suspender" /\ pid \in Procesos
    BY <1>1 DEF SuspenderSegmento, TypeOK, Orden, Operacion
  <2>2. Bloques
    BY <2>1, SinPisar DEF BloquesVivos, Entero
  <2>3. PICK s \in PorMover, q \in Registros :
           /\ movidos' = movidos \cup {q} /\ TrozoDeSwap(disco', q) = TrozoEn(bytes, s)
           /\ \A p \in Procesos : \A ss \in EnSwap(p) :
                TrozoDeSwap(disco', ss) = TrozoDeSwap(disco, ss)
    BY <1>1, <2>2, Suspende
  <2>4. CASE r = q
    BY <2>1, <2>3, <2>4 DEF PorMover
  <2>5. CASE r \in movidos
    <3>1. PICK t \in tabla[pid] : TrozoDeSwap(disco, r) = TrozoEn(bytes, t)
      BY <2>1, <2>5 DEF Copias, CopiaEnSticks
    <3>2. r \in EnSwap(pid)
      BY <2>1, <2>5, EnSwapFacts
    <3> QED BY <2>1, <2>3, <3>1, <3>2
  <2> QED BY <2>3, <2>4, <2>5
<1>2. ASSUME paso = "suspender", UNCHANGED <<disco, tabla, movidos, pid>>, bytes' = bytes
      PROVE  \E s \in tabla'[pid'] : TrozoDeSwap(disco', r) = TrozoEn(bytes', s)
  BY <1>2 DEF Copias, CopiaEnSticks
<1>3. ASSUME paso = "suspender", UNCHANGED <<disco, tabla, movidos, pid>>, NEW p \in Procesos, MemWrite(p)
      PROVE  \E s \in tabla'[pid'] : TrozoDeSwap(disco', r) = TrozoEn(bytes', s)
  <2>1. PICK t \in tabla[pid] : TrozoDeSwap(disco, r) = TrozoEn(bytes, t)
    BY <1>3 DEF Copias, CopiaEnSticks
  <2>2. pid \in Procesos /\ p # pid
    BY <1>3 DEF TypeOK, Orden, Operacion, MemWrite
  <2>3. Tramo(t) /\ t.base + t.tam <= Limite /\ \A s \in tabla[p] : Tramo(s) /\ (Antes(s, t) \/ Antes(t, s))
    BY <1>3, <2>2 DEF TablasPuestas, Separadas, Dentro
  <2>4. TrozoEn(bytes', t) = TrozoEn(bytes, t)
    BY <1>3, <2>3, EscribeAparte
  <2> QED BY <1>3, <2>1, <2>4
<1> QED BY <1>1, <1>2, <1>3, PasoSuspender

LEMMA CopiaEnSwapPaso ==
  ASSUME TypeOK, Orden, RepartoVivo, Dominios, SinSwapNada, Copias, Next, ~pisado',
         paso' = "reanudar"
  PROVE  CopiaEnSwap'
<1> DEFINE Copia(x, ss) == /\ x.id = ss.id /\ x.tam = ss.tam
                           /\ swap' = "si" => TrozoEn(bytes', x) = TrozoDeSwap(disco', ss)
<1> SUFFICES ASSUME NEW x \in sueltos' PROVE \E ss \in suspendidos'[pid'] : Copia(x, ss)
  BY DEF CopiaEnSwap, TrozoEn, TrozoDeSwap
<1>1. CASE ReanudarSegmento
  <2>1. /\ UNCHANGED <<tabla, suspendidos, disco, pid>> /\ paso = "reanudar" /\ pid \in Procesos
        /\ swap' = "si" <=> swap = "si"
    BY <1>1 DEF ReanudarSegmento, TypeOK, Orden, Operacion
  <2>2. Reparto
    BY <2>1, SinPisar DEF RepartoVivo, Entero
  <2>3. PICK ss \in PorTraer : \E s :
           /\ s.id = ss.id /\ s.tam = ss.tam /\ sueltos' = sueltos \cup {s}
           /\ swap = "si" => TrozoEn(bytes', s) = TrozoDeSwap(disco, ss)
           /\ \A p \in Procesos : \A t \in EnMemoria(p) : TrozoEn(bytes', t) = TrozoEn(bytes, t)
    BY <1>1, <2>2, Reanuda
  <2>4. PICK s :
           /\ s.id = ss.id /\ s.tam = ss.tam /\ sueltos' = sueltos \cup {s}
           /\ swap = "si" => TrozoEn(bytes', s) = TrozoDeSwap(disco, ss)
           /\ \A p \in Procesos : \A t \in EnMemoria(p) : TrozoEn(bytes', t) = TrozoEn(bytes, t)
    BY <2>3
  <2>5. CASE x = s
    <3>1. ss \in suspendidos'[pid']
      BY <2>1 DEF PorTraer
    <3> QED BY <2>1, <2>4, <2>5, <3>1
  <2>6. CASE x \in sueltos
    <3>1. PICK tt \in suspendidos[pid] :
             /\ x.id = tt.id /\ x.tam = tt.tam
             /\ swap = "si" => TrozoEn(bytes, x) = TrozoDeSwap(disco, tt)
      BY <2>1, <2>6 DEF Copias, CopiaEnSwap
    <3>2. x \in EnMemoria(pid)
      BY <2>1, <2>6, EnMemoriaFacts
    <3> QED BY <2>1, <2>4, <3>1, <3>2
  <2> QED BY <2>4, <2>5, <2>6
<1>2. ASSUME paso = "reanudar", UNCHANGED <<disco, tabla, suspendidos, sueltos, pid>>,
             swap' = "si" => swap \in {"no", "si"}, TrozoEn(bytes', x) = TrozoEn(bytes, x)
      PROVE  \E ss \in suspendidos'[pid'] : Copia(x, ss)
  <2>1. PICK tt \in suspendidos[pid] :
             /\ x.id = tt.id /\ x.tam = tt.tam
             /\ swap = "si" => TrozoEn(bytes, x) = TrozoDeSwap(disco, tt)
    BY <1>2 DEF Copias, CopiaEnSwap
  <2>2. swap # "no"
    BY <1>2, <2>1 DEF SinSwapNada, TypeOK, Orden, Operacion
  <2> QED BY <1>2, <2>1, <2>2
<1>3. ASSUME paso = "reanudar", UNCHANGED <<disco, tabla, suspendidos, sueltos, pid>>,
             NEW p \in Procesos, MemWrite(p)
      PROVE  TrozoEn(bytes', x) = TrozoEn(bytes, x)
  <2>1. pid \in Procesos /\ p # pid
    BY <1>3 DEF TypeOK, Orden, Operacion, MemWrite
  <2>2. PICK q \in Procesos : q = pid
    BY <2>1
  <2>3. x \in EnMemoria(q) /\ EnMemoria(p) = tabla[p] /\ p # q
    BY <1>3, <2>1, <2>2, EnMemoriaFacts
  <2>4. Apartadas
    BY <1>3, Apartados, SinPisar DEF RepartoVivo, Entero
  <2>5. Tramo(x) /\ x.base + x.tam <= Limite /\ \A s \in tabla[p] : Tramo(s) /\ (Antes(s, x) \/ Antes(x, s))
    BY <2>3, <2>4 DEF Apartadas, Dentro
  <2> QED BY <1>3, <2>5, EscribeAparte
<1>4. bytes' = bytes => TrozoEn(bytes', x) = TrozoEn(bytes, x)
  OBVIOUS
<1> HIDE DEF Copia
<1> QED BY <1>1, <1>2, <1>3, <1>4, PasoReanudar

(* With it the invariant is whole.                                          *)
LEMMA DatosPaso ==
  ASSUME IInv, DatosVivos, Next
  PROVE  DatosVivos'
<1> SUFFICES ASSUME ~pisado' PROVE Datos'
  BY DEF DatosVivos
<1>1. ~pisado
  BY SinPisar
<1>2. /\ TypeOK /\ Orden /\ RepartoVivo /\ BloquesVivos
      /\ Dominios /\ Largos /\ SinSwapNada /\ TablasPuestas /\ Copias
  BY <1>1 DEF IInv, OrdenVivo, DatosVivos, Datos
<1>3. Dominios' /\ Largos' /\ SinSwapNada' /\ TablasPuestas'
  BY <1>2, DominiosPaso, LargosPaso, SinSwapNadaPaso, TablasPuestasPaso
<1>4. Copias'
  BY <1>2, CopiaEnSticksPaso, CopiaEnSwapPaso DEF Copias
<1> QED BY <1>3, <1>4 DEF Datos

LEMMA DatosInicial == Init => Datos
<1> SUFFICES ASSUME Init PROVE Datos
  OBVIOUS
<1> USE BloquesAssumption DEF Init
<1>1. Dominios
  BY DEF Dominios, Limite
<1>2. Largos /\ SinSwapNada
  BY DEF Largos, SinSwapNada
<1>3. TablasPuestas /\ Copias
  BY DEF TablasPuestas, Copias
<1> QED BY <1>1, <1>2, <1>3 DEF Datos

LEMMA DatosQuietos == DatosVivos /\ UNCHANGED vars => DatosVivos'
<1> SUFFICES ASSUME Datos, UNCHANGED vars PROVE Datos'
  BY DEF DatosVivos, vars, procesos, cpus
<1>1. UNCHANGED <<fase, tabla, huecos, bytes, sticks, escrituras, suspendidos, swap, libres,
                  disco, paso, pid, pedido, sueltos, movidos>>
  BY DEF vars, procesos, memoria, respaldo, operacion
<1>2. Dominios'
  BY <1>1 DEF Datos, Dominios, Limite
<1>3. Largos' /\ SinSwapNada'
  BY <1>1 DEF Datos, Largos, SinSwapNada, Cantidad
<1>4. TablasPuestas'
  BY <1>1 DEF Datos, TablasPuestas, Separadas, Dentro, Limite
<1>5. /\ \A s : TrozoEn(bytes', s) = TrozoEn(bytes, s)
      /\ \A ss : TrozoDeSwap(disco', ss) = TrozoDeSwap(disco, ss)
  BY <1>1
<1>6. CopiaEnSticks => CopiaEnSticks'
  <2> SUFFICES ASSUME CopiaEnSticks, NEW r \in movidos'
               PROVE  \E s \in tabla'[pid'] : TrozoDeSwap(disco', r) = TrozoEn(bytes', s)
    BY DEF CopiaEnSticks, TrozoEn, TrozoDeSwap
  <2> QED BY <1>1, <1>5 DEF CopiaEnSticks
<1>7. CopiaEnSwap => CopiaEnSwap'
  <2> SUFFICES ASSUME CopiaEnSwap, NEW x \in sueltos'
               PROVE  \E ss \in suspendidos'[pid'] :
                        /\ x.id = ss.id /\ x.tam = ss.tam
                        /\ swap' = "si" => TrozoEn(bytes', x) = TrozoDeSwap(disco', ss)
    BY DEF CopiaEnSwap, TrozoEn, TrozoDeSwap
  <2> QED BY <1>1, <1>5 DEF CopiaEnSwap
<1>8. Copias'
  BY <1>1, <1>6, <1>7 DEF Datos, Copias
<1> QED BY <1>2, <1>3, <1>4, <1>8 DEF Datos

(***************************************************************************)
(* What a step does to the pieces of a process, as the processes see it     *)
(***************************************************************************)
Forma(x) == [id |-> x.id, tam |-> x.tam]

LEMMA EnFormas == \A X, f : f \in Formas(X) <=> \E x \in X : f = Forma(x)
BY DEF Formas, Forma

LEMMA FormaFacts == \A x : Forma(x).id = x.id /\ Forma(x).tam = x.tam
BY DEF Forma

LEMMA EnBytes ==
  ASSUME NEW s, NEW y
  PROVE  y \in Promesa!Bytes(s) <=> \E o \in 0 .. s.tam - 1 : y = <<s.id, o>>
BY DEF Promesa!Bytes

LEMMA MarcaEnBytes ==
  ASSUME NEW p, NEW x, NEW o \in 0 .. x.tam - 1, NEW y, Marca(p, x, o, y)
  PROVE  y \in Promesa!Bytes(Forma(x)) /\ y[1] = x.id
BY FormaFacts, EnBytes DEF Marca

LEMMA BytesDeOtro ==
  ASSUME NEW s, NEW y, y \in Promesa!Bytes(s)
  PROVE  y[1] = s.id
BY EnBytes

(* A piece more.                                                            *)
LEMMA PiezaMas ==
  ASSUME NEW p, NEW X, NEW x
  PROVE  /\ Formas(X \cup {x}) = Formas(X) \cup {Forma(x)}
         /\ \E c \in SUBSET Promesa!Bytes(Forma(x)) :
              Escrito(p, X \cup {x}) = Escrito(p, X) \cup c
<1>1. Formas(X \cup {x}) = Formas(X) \cup {Forma(x)}
  BY EnFormas
<1> DEFINE Ve(z, y) == \E o \in 0 .. z.tam - 1 : Marca(p, z, o, y)
           c == {y \in Promesa!Bytes(Forma(x)) : Ve(x, y)}
<1>2. \A Z, y : y \in Escrito(p, Z) <=> \E z \in Z : Ve(z, y)
  BY EnEscrito
<1>3. \A y : Ve(x, y) => y \in Promesa!Bytes(Forma(x))
  BY MarcaEnBytes
<1> HIDE DEF Ve
<1>4. \A y : y \in Escrito(p, X \cup {x}) <=> y \in Escrito(p, X) \cup c
  BY <1>2, <1>3
<1> HIDE DEF c
<1>5. c \in SUBSET Promesa!Bytes(Forma(x))
  BY DEF c
<1>6. Escrito(p, X \cup {x}) = Escrito(p, X) \cup c
  BY <1>4
<1> QED BY <1>1, <1>5, <1>6

(* A piece less.                                                            *)
LEMMA PiezaMenos ==
  ASSUME NEW p, NEW X, IdsDistintos(X), NEW x \in X
  PROVE  /\ Formas(X \ {x}) = Formas(X) \ {Forma(x)}
         /\ Escrito(p, X \ {x}) = Escrito(p, X) \ Promesa!Bytes(Forma(x))
<1>1. \A z \in X : z.id = x.id => z = x
  BY DEF IdsDistintos
<1>2. \A z \in X : Forma(z) = Forma(x) <=> z = x
  BY <1>1, FormaFacts
<1>3. Formas(X \ {x}) = Formas(X) \ {Forma(x)}
  BY <1>2, EnFormas
<1> DEFINE Ve(z, y) == \E o \in 0 .. z.tam - 1 : Marca(p, z, o, y)
<1>4. \A Z, y : y \in Escrito(p, Z) <=> \E z \in Z : Ve(z, y)
  BY EnEscrito
<1>5. \A z, y : Ve(z, y) => y \in Promesa!Bytes(Forma(z)) /\ y[1] = z.id
  BY MarcaEnBytes
<1>6. \A y : y \in Promesa!Bytes(Forma(x)) => y[1] = x.id
  BY BytesDeOtro, FormaFacts
<1> HIDE DEF Ve
<1>7. \A y : y \in Escrito(p, X \ {x}) <=> y \in Escrito(p, X) \ Promesa!Bytes(Forma(x))
  BY <1>1, <1>4, <1>5, <1>6
<1> QED BY <1>3, <1>7

Perdido(S) == UNION {Promesa!Bytes(s) : s \in S}

(* Some pieces that hold anything, and the same pieces with what they held. *)
LEMMA PiezasPerdidas ==
  ASSUME NEW p, NEW X, IdsDistintos(X), NEW Y, NEW S \in SUBSET Formas(X), Formas(Y) = Formas(X),
         \A x : Forma(x) \notin S => (x \in X <=> x \in Y)
  PROVE  \E c \in SUBSET Perdido(S) : Escrito(p, Y) = (Escrito(p, X) \ Perdido(S)) \cup c
<1> DEFINE perdido == Perdido(S)
           c == Escrito(p, Y) \cap perdido
           Ve(z, y) == \E o \in 0 .. z.tam - 1 : Marca(p, z, o, y)
<1>1. \A Z, y : y \in Escrito(p, Z) <=> \E z \in Z : Ve(z, y)
  BY EnEscrito
<1>2. \A z, y : Ve(z, y) => y \in Promesa!Bytes(Forma(z)) /\ y[1] = z.id
  BY MarcaEnBytes
<1>3. \A y : y \in perdido <=> \E s \in S : y \in Promesa!Bytes(s)
  BY DEF Perdido
<1>4. \A s, y : y \in Promesa!Bytes(s) => y[1] = s.id
  BY BytesDeOtro
<1> HIDE DEF Ve, perdido
<1>5. ASSUME NEW Z, Formas(Z) = Formas(X), NEW z \in Z, NEW y, Ve(z, y)
      PROVE  y \in perdido <=> Forma(z) \in S
  <2>1. Forma(z) \in S => y \in perdido
    BY <1>2, <1>3, <1>5
  <2>2. ASSUME NEW s \in S, y \in Promesa!Bytes(s) PROVE Forma(z) \in S
    <3>1. s.id = z.id
      BY <1>2, <1>4, <1>5, <2>2
    <3>2. PICK x \in X : s = Forma(x)
      BY EnFormas
    <3>3. PICK w \in X : Forma(z) = Forma(w)
      BY <1>5, EnFormas
    <3>4. x = w
      BY <3>1, <3>2, <3>3, FormaFacts DEF IdsDistintos
    <3> QED BY <2>2, <3>2, <3>3, <3>4
  <2> QED BY <1>3, <2>1, <2>2
<1>6. \A y : y \in Escrito(p, Y) <=> y \in (Escrito(p, X) \ perdido) \cup c
  <2>1. ASSUME NEW y, y \in Escrito(p, Y), y \notin perdido PROVE y \in Escrito(p, X)
    <3>1. PICK z \in Y : Ve(z, y)
      BY <1>1, <2>1
    <3>2. Forma(z) \notin S
      BY <1>5, <2>1, <3>1
    <3> QED BY <1>1, <3>1, <3>2
  <2>2. ASSUME NEW y, y \in Escrito(p, X), y \notin perdido PROVE y \in Escrito(p, Y)
    <3>1. PICK z \in X : Ve(z, y)
      BY <1>1, <2>2
    <3>2. Forma(z) \notin S
      BY <1>5, <2>2, <3>1
    <3> QED BY <1>1, <3>1, <3>2
  <2> QED BY <2>1, <2>2
<1> HIDE DEF c
<1>7. c \in SUBSET perdido
  BY DEF c
<1>8. Escrito(p, Y) = (Escrito(p, X) \ perdido) \cup c
  BY <1>6
<1>9. \E d \in SUBSET perdido : Escrito(p, Y) = (Escrito(p, X) \ perdido) \cup d
  BY <1>7, <1>8
<1> QED BY <1>9 DEF perdido

(* A byte that is written in a piece.                                       *)
LEMMA PiezaEscrita ==
  ASSUME NEW p, NEW X, NEW x \in X, NEW Y, NEW z,
         \A w : w \in Y <=> w = z \/ (w \in X /\ w # x),
         z.id = x.id, z.tam = x.tam, NEW o \in 0 .. x.tam - 1, z.datos[o] = <<p, x.id, o>>,
         \A k \in 0 .. x.tam - 1 : k # o => z.datos[k] = x.datos[k]
  PROVE  /\ Formas(Y) = Formas(X)
         /\ \E b \in Promesa!Bytes(Forma(x)) : Escrito(p, Y) = Escrito(p, X) \cup {b}
<1>1. Forma(z) = Forma(x)
  BY DEF Forma
<1>2. Formas(Y) = Formas(X)
  <2>1. ASSUME NEW f, f \in Formas(X) PROVE f \in Formas(Y)
    <3>1. PICK w \in X : f = Forma(w)
      BY <2>1, EnFormas
    <3>2. CASE w = x
      BY <1>1, <3>1, <3>2, EnFormas
    <3>3. CASE w # x
      BY <3>1, <3>3, EnFormas
    <3> QED BY <3>2, <3>3
  <2>2. ASSUME NEW f, f \in Formas(Y) PROVE f \in Formas(X)
    <3>1. PICK w \in Y : f = Forma(w)
      BY <2>2, EnFormas
    <3> QED BY <1>1, <3>1, EnFormas
  <2> QED BY <2>1, <2>2
<1> DEFINE b == <<x.id, o>>
           Ve(v, y) == \E k \in 0 .. v.tam - 1 : Marca(p, v, k, y)
<1>3. \A Z, y : y \in Escrito(p, Z) <=> \E v \in Z : Ve(v, y)
  BY EnEscrito
<1>4. \A y : Ve(z, y) <=> Ve(x, y) \/ y = b
  <2>1. ASSUME NEW y, NEW k \in 0 .. x.tam - 1, Marca(p, z, k, y) PROVE Ve(x, y) \/ y = b
    <3>1. CASE k = o
      BY <2>1, <3>1 DEF Marca
    <3>2. CASE k # o
      BY <2>1, <3>2 DEF Marca
    <3> QED BY <3>1, <3>2
  <2>2. ASSUME NEW y, NEW k \in 0 .. x.tam - 1, Marca(p, x, k, y) PROVE Ve(z, y)
    <3>1. CASE k = o
      BY <2>2, <3>1 DEF Marca
    <3>2. CASE k # o
      BY <2>2, <3>2 DEF Marca
    <3> QED BY <3>1, <3>2
  <2>3. Ve(z, b)
    BY DEF Marca
  <2> QED BY <2>1, <2>2, <2>3
<1>5. b \in Promesa!Bytes(Forma(x))
  BY EnBytes, FormaFacts
<1> HIDE DEF Ve, b
<1>6. Escrito(p, Y) = Escrito(p, X) \cup {b}
  <2>1. \A y : y \in Escrito(p, Y) <=> y \in Escrito(p, X) \cup {b}
    BY <1>3, <1>4
  <2> QED BY <2>1
<1> QED BY <1>2, <1>5, <1>6

(* The processes see what their pieces hold, before a step and after it.    *)
LEMMA Vista ==
  \A p : /\ SegmentosDe(p)' = Formas(Trozos(p)') /\ SegmentosDe(p) = Formas(Trozos(p))
         /\ ContenidoDe(p)' = Escrito(p, Trozos(p)') /\ ContenidoDe(p) = Escrito(p, Trozos(p))
BY PromesaDeTrozos, PromesaDeTrozosPrima DEF Formas, Escrito

Segmentados == [p \in Procesos |-> SegmentosDe(p)]
Contenidos == [p \in Procesos |-> ContenidoDe(p)]
Respaldado == swap \in {"no", "si"}

LEMMA VistaQuieta ==
  ASSUME \A p \in Procesos : Trozos(p)' = Trozos(p)
  PROVE  Segmentados' = Segmentados /\ Contenidos' = Contenidos
<1>1. \A p \in Procesos : SegmentosDe(p)' = SegmentosDe(p) /\ ContenidoDe(p)' = ContenidoDe(p)
  BY Vista
<1> QED BY <1>1 DEF Segmentados, Contenidos

(* A step that disturbs only the pieces of one process.                     *)
LEMMA VistaDeUno ==
  ASSUME NEW p \in Procesos, \A q \in Procesos \ {p} : Trozos(q)' = Trozos(q),
         NEW S, Formas(Trozos(p)') = S, NEW C, Escrito(p, Trozos(p)') = C
  PROVE  Segmentados' = [Segmentados EXCEPT ![p] = S] /\ Contenidos' = [Contenidos EXCEPT ![p] = C]
<1>1. \A q \in Procesos \ {p} : SegmentosDe(q)' = SegmentosDe(q) /\ ContenidoDe(q)' = ContenidoDe(q)
  BY Vista
<1>2. SegmentosDe(p)' = S /\ ContenidoDe(p)' = C
  BY Vista
<1> QED BY <1>1, <1>2 DEF Segmentados, Contenidos

LEMMA VistaFacts ==
  \A p \in Procesos : Segmentados[p] = Formas(Trozos(p)) /\ Contenidos[p] = Escrito(p, Trozos(p))
BY Vista DEF Segmentados, Contenidos

(***************************************************************************)
(* The steps the processes do not see                                       *)
(***************************************************************************)
LEMMA TrozosQuietos ==
  ASSUME UNCHANGED <<bytes, disco>>, NEW p, EnMemoria(p)' = EnMemoria(p), EnSwap(p)' = EnSwap(p)
  PROVE  Trozos(p)' = Trozos(p)
<1>1. ASSUME NEW x PROVE x \in Trozos(p)' <=> x \in Trozos(p)
  <2>1. x \in Trozos(p)' <=> \/ \E s \in EnMemoria(p) : x = TrozoEn(bytes', s)
                             \/ \E ss \in EnSwap(p) : x = TrozoDeSwap(disco', ss)
    BY EnTrozosPrima
  <2>2. bytes' = bytes /\ disco' = disco
    OBVIOUS
  <2> QED BY <2>1, <2>2, EnTrozos
<1> QED BY <1>1

Moviendo == {"suspender", "reanudar"}

LEMMA FueraDeSwap ==
  ASSUME paso \notin Moviendo, paso' \notin Moviendo, UNCHANGED <<tabla, suspendidos, bytes, disco>>
  PROVE  \A p \in Procesos : Trozos(p)' = Trozos(p)
<1>1. \A p \in Procesos : EnMemoria(p)' = EnMemoria(p) /\ EnSwap(p)' = EnSwap(p)
  BY EnMemoriaFacts, EnMemoriaFactsPrima, EnSwapFacts, EnSwapFactsPrima DEF Moviendo
<1> QED BY <1>1, TrozosQuietos

LEMMA SinTocarNada ==
  ASSUME UNCHANGED <<tabla, suspendidos, paso, pid, sueltos, movidos, bytes, disco>>
  PROVE  \A p \in Procesos : Trozos(p)' = Trozos(p)
<1>1. \A p \in Procesos : EnMemoria(p)' = EnMemoria(p) /\ EnSwap(p)' = EnSwap(p)
  BY DEF EnMemoria, PorMover, EnSwap, PorTraer
<1> QED BY <1>1, TrozosQuietos

LEMMA NoVenEntorno ==
  ASSUME TypeOK, ~pisado',
         \/ ConectarStick \/ ConectarSwap \/ CaerSwap
         \/ \E p \in Procesos : Cpu(p) /\ ~MemWrite(p)
  PROVE  \A p \in Procesos : Trozos(p)' = Trozos(p)
<1>1. UNCHANGED <<suspendidos, paso, pid, sueltos, movidos, bytes, disco>>
  BY DEF ConectarStick, ConectarSwap, CaerSwap, Cpu, PedirContexto, ActualizarContexto, Desalojar,
     GuardarContexto, Despertar, memoria, respaldo, operacion
<1>2. tabla' = tabla
  <2>1. tabla \in [Procesos -> SUBSET Segmentos]
    BY DEF TypeOK
  <2> QED BY <2>1, TablaQuieta DEF ConectarStick, ConectarSwap, CaerSwap, memoria
<1> QED BY <1>1, <1>2, SinTocarNada

LEMMA NoVenAtender ==
  ASSUME TypeOK, Orden, NEW p \in Procesos,
         \/ CrearProceso(p) \/ MemAllocRechazado(p) \/ MemAlloc(p) \/ MemFreeRechazado(p)
         \/ SuspenderSinSwap(p)
  PROVE  \A q \in Procesos : Trozos(q)' = Trozos(q)
<1>1. UNCHANGED <<tabla, suspendidos, bytes, disco>> /\ paso = "espera"
  BY DEF CrearProceso, MemAllocRechazado, MemAlloc, MemFreeRechazado, SuspenderSinSwap, memoria, respaldo
<1>2. MemAlloc(p) => paso' \in {"registrar", "espera_ok"}
  BY Zenon DEF MemAlloc, Ocupar
<1>3. ~MemAlloc(p) => paso' = "espera"
  BY <1>1 DEF CrearProceso, MemAllocRechazado, MemFreeRechazado, SuspenderSinSwap, Responder, operacion
<1>4. paso \notin Moviendo /\ paso' \notin Moviendo
  BY <1>1, <1>2, <1>3 DEF Moviendo
<1> QED BY <1>1, <1>4, FueraDeSwap

LEMMA NoVenSeguir ==
  ASSUME TypeOK, Orden, Reintentar \/ LiberarSegmento \/ LiberarUno \/ DestruirProceso
  PROVE  \A q \in Procesos : Trozos(q)' = Trozos(q)
<1>1. UNCHANGED <<tabla, bytes, disco>> /\ paso \in {"reintentar", "liberar", "finalizar"}
  BY DEF Reintentar, LiberarSegmento, LiberarUno, DestruirProceso, memoria, respaldo
<1>2. suspendidos' = suspendidos
  <2>1. CASE DestruirProceso
    <3>1. suspendidos' = [suspendidos EXCEPT ![pid] = {}] /\ paso = "finalizar"
      BY <2>1 DEF DestruirProceso
    <3> QED BY <3>1 DEF Orden, Operacion, TiposSwap
  <2> QED BY <2>1 DEF Reintentar, LiberarSegmento, LiberarUno, respaldo
<1>3. paso' \in {"registrar", "espera", "finalizar"}
  BY <1>1 DEF Reintentar, LiberarSegmento, LiberarUno, DestruirProceso, Responder, Ocupar
<1>4. paso \notin Moviendo /\ paso' \notin Moviendo
  BY <1>1, <1>3 DEF Moviendo
<1> QED BY <1>1, <1>2, <1>4, FueraDeSwap

(* A suspension or a resumption that begins, and one that ends.             *)
LEMMA NoVenEmpezar ==
  ASSUME TypeOK, Orden, NEW p \in Procesos, SuspenderProceso(p) \/ ReanudarProceso(p)
  PROVE  \A q \in Procesos : Trozos(q)' = Trozos(q)
<1>1. /\ UNCHANGED <<tabla, suspendidos, bytes, disco>> /\ sueltos' = {} /\ movidos' = {}
      /\ paso = "espera" /\ paso' \in Moviendo
  BY DEF SuspenderProceso, ReanudarProceso, memoria, respaldo, Orden, Operacion, Moviendo
<1>2. PorMover' = tabla'[pid'] /\ PorTraer' = suspendidos'[pid']
  BY <1>1 DEF PorMover, PorTraer, IdsDe
<1>3. ASSUME NEW q \in Procesos PROVE EnMemoria(q)' = EnMemoria(q) /\ EnSwap(q)' = EnSwap(q)
  BY <1>1, <1>2, EnMemoriaFacts, EnMemoriaFactsPrima, EnSwapFacts, EnSwapFactsPrima DEF Moviendo
<1> QED BY <1>1, <1>3, TrozosQuietos

LEMMA NoVenTerminar ==
  ASSUME TypeOK, Orden, TerminarSuspension \/ TerminarReanudacion
  PROVE  \A q \in Procesos : Trozos(q)' = Trozos(q)
<1>1. UNCHANGED <<bytes, disco>> /\ paso' = "espera" /\ pid \in Procesos
  BY DEF TerminarSuspension, TerminarReanudacion, Responder, TypeOK, Orden, Operacion
<1>2. tabla \in [Procesos -> SUBSET Segmentos] /\ suspendidos \in [Procesos -> SUBSET Registros]
  BY DEF TypeOK, Orden, TiposSwap
<1>3. CASE TerminarSuspension
  <2>1. /\ paso = "suspender" /\ PorMover = {}
        /\ tabla' = [tabla EXCEPT ![pid] = {}]
        /\ suspendidos' = [suspendidos EXCEPT ![pid] = @ \cup movidos]
    BY <1>3 DEF TerminarSuspension
  <2>2. ASSUME NEW q \in Procesos PROVE EnMemoria(q)' = EnMemoria(q) /\ EnSwap(q)' = EnSwap(q)
    BY <1>1, <1>2, <2>1, EnMemoriaFacts, EnMemoriaFactsPrima, EnSwapFacts, EnSwapFactsPrima
  <2> QED BY <1>1, <2>2, TrozosQuietos
<1>4. CASE TerminarReanudacion
  <2>1. /\ paso = "reanudar" /\ PorTraer = {}
        /\ tabla' = [tabla EXCEPT ![pid] = @ \cup sueltos]
        /\ suspendidos' = [suspendidos EXCEPT ![pid] = {}]
    BY <1>4 DEF TerminarReanudacion
  <2>2. ASSUME NEW q \in Procesos PROVE EnMemoria(q)' = EnMemoria(q) /\ EnSwap(q)' = EnSwap(q)
    <3>1. EnMemoria(q)' = tabla'[q] /\ EnSwap(q)' = suspendidos'[q]
      BY <1>1, EnMemoriaFactsPrima, EnSwapFactsPrima
    <3>2. CASE q = pid
      <4>1. EnMemoria(q) = tabla[q] \cup sueltos /\ EnSwap(q) = {}
        BY <2>1, <3>2, EnMemoriaFacts, EnSwapFacts
      <4>2. tabla'[q] = tabla[q] \cup sueltos /\ suspendidos'[q] = {}
        BY <1>2, <2>1, <3>2
      <4> QED BY <3>1, <4>1, <4>2
    <3>3. CASE q # pid
      <4>1. EnMemoria(q) = tabla[q] /\ EnSwap(q) = suspendidos[q]
        BY <3>3, EnMemoriaFacts, EnSwapFacts
      <4>2. tabla'[q] = tabla[q] /\ suspendidos'[q] = suspendidos[q]
        BY <1>1, <1>2, <2>1, <3>3
      <4> QED BY <3>1, <4>1, <4>2
    <3> QED BY <3>2, <3>3
  <2> QED BY <1>1, <2>2, TrozosQuietos
<1> QED BY <1>3, <1>4

(* A segment that goes to swap is the same piece there.                     *)
LEMMA NoVenSuspenderSegmento ==
  ASSUME TypeOK, Orden, Bloques, Dominios, Largos, SuspenderSegmento
  PROVE  \A q \in Procesos : Trozos(q)' = Trozos(q)
<1>1. UNCHANGED <<tabla, bytes, suspendidos, pid, paso>> /\ paso = "suspender"
  BY DEF SuspenderSegmento
<1>2. PICK s \in PorMover, r \in Registros :
         /\ movidos' = movidos \cup {r} /\ PorMover' = PorMover \ {s}
         /\ TrozoDeSwap(disco', r) = TrozoEn(bytes, s)
         /\ \A p \in Procesos : \A ss \in EnSwap(p) :
              TrozoDeSwap(disco', ss) = TrozoDeSwap(disco, ss)
  BY Suspende
<1>3. ASSUME NEW q \in Procesos, NEW x PROVE x \in Trozos(q)' <=> x \in Trozos(q)
  <2>0. bytes' = bytes
    BY <1>1
  <2>1. x \in Trozos(q)' <=> \/ \E t \in EnMemoria(q)' : x = TrozoEn(bytes, t)
                             \/ \E ss \in EnSwap(q)' : x = TrozoDeSwap(disco', ss)
    BY <2>0, EnTrozosPrima
  <2>2. x \in Trozos(q) <=> \/ \E t \in EnMemoria(q) : x = TrozoEn(bytes, t)
                            \/ \E ss \in EnSwap(q) : x = TrozoDeSwap(disco', ss)
    BY <1>2, EnTrozos
  <2>3. CASE q = pid
    <3>1. EnMemoria(q) = PorMover /\ EnMemoria(q)' = PorMover \ {s} /\ EnSwap(q)' = EnSwap(q) \cup {r}
      BY <1>1, <1>2, <2>3, EnMemoriaFacts, EnMemoriaFactsPrima, EnSwapFacts, EnSwapFactsPrima
    <3> QED BY <1>2, <2>1, <2>2, <3>1
  <2>4. CASE q # pid
    <3>1. EnMemoria(q)' = EnMemoria(q) /\ EnSwap(q)' = EnSwap(q)
      BY <1>1, <2>4, EnMemoriaFacts, EnMemoriaFactsPrima, EnSwapFacts, EnSwapFactsPrima
    <3> QED BY <2>1, <2>2, <3>1
  <2> QED BY <2>3, <2>4
<1> QED BY <1>3

(* A suspension that fails half way leaves them in the sticks.              *)
LEMMA NoVenSuspenderFalla ==
  ASSUME TypeOK, Orden, Copias, SuspenderFalla
  PROVE  \A q \in Procesos : Trozos(q)' = Trozos(q)
<1>1. /\ UNCHANGED <<tabla, bytes, suspendidos, disco>> /\ paso = "suspender"
      /\ paso' \notin Moviendo /\ pid \in Procesos
  BY DEF SuspenderFalla, memoria, Moviendo, TypeOK, Orden, Operacion
<1>2. \A r \in movidos : \E s \in tabla[pid] : s.id = r.id /\ TrozoDeSwap(disco, r) = TrozoEn(bytes, s)
  BY <1>1, TrozoEnFacts, TrozoDeSwapFacts DEF Copias, CopiaEnSticks
<1>3. \A s, t \in tabla[pid] : s.id = t.id => s = t
  BY <1>1 DEF Orden, Identificadores, IdsDistintos
<1>4. \A s \in tabla[pid] : s \in PorMover \/ \E r \in movidos : TrozoDeSwap(disco, r) = TrozoEn(bytes, s)
  BY <1>2, <1>3 DEF PorMover, IdsDe
<1>5. \A s \in PorMover : s \in tabla[pid]
  BY DEF PorMover
<1>6. ASSUME NEW q \in Procesos, NEW x PROVE x \in Trozos(q)' <=> x \in Trozos(q)
  <2>0. bytes' = bytes /\ disco' = disco
    BY <1>1
  <2>1. x \in Trozos(q)' <=> \/ \E t \in tabla[q] : x = TrozoEn(bytes, t)
                             \/ \E ss \in suspendidos[q] : x = TrozoDeSwap(disco, ss)
    <3>1. EnMemoria(q)' = tabla[q] /\ EnSwap(q)' = suspendidos[q]
      BY <1>1, EnMemoriaFactsPrima, EnSwapFactsPrima DEF Moviendo
    <3> QED BY <2>0, <3>1, EnTrozosPrima
  <2>2. CASE q = pid
    <3>1. x \in Trozos(q) <=> \/ \E t \in PorMover : x = TrozoEn(bytes, t)
                              \/ \E ss \in suspendidos[q] \cup movidos : x = TrozoDeSwap(disco, ss)
      <4>1. EnMemoria(q) = PorMover /\ EnSwap(q) = suspendidos[q] \cup movidos
        BY <1>1, <2>2, EnMemoriaFacts, EnSwapFacts
      <4> QED BY <4>1, EnTrozos
    <3> QED BY <1>2, <1>4, <1>5, <2>1, <2>2, <3>1
  <2>3. CASE q # pid
    <3>1. EnMemoria(q) = tabla[q] /\ EnSwap(q) = suspendidos[q]
      BY <1>1, <2>3, EnMemoriaFacts, EnSwapFacts
    <3> QED BY <2>1, <3>1, EnTrozos
  <2> QED BY <2>2, <2>3
<1> QED BY <1>6

(* What a compaction moves is what was there.                               *)
LEMMA TrozoMudado ==
  ASSUME TypeOK, Orden, Reparto, Dominios, CompactarMemoria, NEW s \in EnTablas
  PROVE  TrozoEn(bytes', Mudado(s)) = TrozoEn(bytes, s)
<1>1. paso = "espera_ok" /\ bytes' = BytesMudados
  BY DEF CompactarMemoria
<1>2. Todos = EnTablas /\ EnTablas \subseteq Segmentos
  BY <1>1, TodosEnTablas DEF EnTablas, TypeOK
<1> DEFINE E == {Mudado(t) : t \in EnTablas}
<1>3. BienPuestos(E, Tope) /\ \A t, r \in EnTablas : Mudado(t) = Mudado(r) => t = r
  BY <1>2, Compactado DEF Reparto
<1>4. \A t \in EnTablas : Mudado(t) \in E
  OBVIOUS
<1>5. \A t \in EnTablas : /\ Mudado(t).base = NuevaBase(t) /\ Mudado(t).tam = t.tam
                          /\ Mudado(t).id = t.id
  BY <1>2 DEF Segmentos, Mudado
<1> HIDE DEF E
<1>6. \A t \in EnTablas : Tramo(Mudado(t)) /\ Mudado(t).base + Mudado(t).tam <= Tope
  BY <1>3, <1>4 DEF BienPuestos, Tramos
<1>7. Tope \in Nat /\ Limite \in Nat /\ Tope <= Limite
  BY <1>3, LimiteNat DEF BienPuestos
<1>8. ASSUME NEW o \in 0 .. s.tam - 1 PROVE bytes'[Mudado(s).base + o] = bytes[s.base + o]
  <2> DEFINE n == NuevaBase(s)
             b == n + o
  <2>1. n \in Nat /\ s.tam \in Nat /\ n + s.tam <= Tope /\ o \in Nat /\ o < s.tam
    BY <1>5, <1>6 DEF Tramo
  <2> HIDE DEF n
  <2>2. b \in DOMAIN bytes
    BY <1>7, <2>1 DEF Dominios
  <2>3. b \in Rango(Mudado(s))
    <3>1. Mudado(s).base = n /\ Mudado(s).tam = s.tam
      BY <1>5 DEF n
    <3> QED BY <2>1, <3>1 DEF Rango
  <2>4. ASSUME NEW t \in EnTablas, b \in Rango(Mudado(t)) PROVE t = s
    <3>1. Tramo(Mudado(t)) /\ Tramo(Mudado(s)) /\ Mudado(t) \in E /\ Mudado(s) \in E
      BY <1>4, <1>6
    <3>2. ~Antes(Mudado(s), Mudado(t)) /\ ~Antes(Mudado(t), Mudado(s))
      <4> HIDE DEF b
      <4>1. /\ b \in Nat /\ Mudado(s).base <= b /\ b < Mudado(s).base + Mudado(s).tam
            /\ Mudado(t).base <= b /\ b < Mudado(t).base + Mudado(t).tam
        BY <2>3, <2>4, <3>1, RangoFacts
      <4> QED BY <3>1, <4>1 DEF Antes, Tramo
    <3>3. Mudado(t) = Mudado(s)
      BY <1>3, <3>1, <3>2 DEF BienPuestos, Disjuntos
    <3> QED BY <1>3, <3>3
  <2> HIDE DEF b
  <2>5. (CHOOSE t \in EnTablas : b \in Rango(Mudado(t))) = s
    BY <2>3, <2>4
  <2>6. BytesMudados[b] = LeerDeSticks(s, b - NuevaBase(s))
    BY <2>2, <2>3, <2>5 DEF BytesMudados
  <2>7. b - NuevaBase(s) = o
    BY <2>1 DEF b, n
  <2>8. Mudado(s).base + o = b
    BY <1>5 DEF b, n
  <2> QED BY <1>1, <2>6, <2>7, <2>8 DEF LeerDeSticks
<1> QED BY <1>5, <1>8 DEF TrozoEn

LEMMA NoVenCompactar ==
  ASSUME TypeOK, Orden, Reparto, Dominios, CompactarMemoria
  PROVE  \A q \in Procesos : Trozos(q)' = Trozos(q)
<1>1. /\ UNCHANGED <<suspendidos, disco>> /\ paso \notin Moviendo /\ paso' \notin Moviendo
      /\ tabla' = [p \in Procesos |-> {Mudado(s) : s \in tabla[p]}]
  BY DEF CompactarMemoria, respaldo, Moviendo
<1>2. ASSUME NEW q \in Procesos, NEW x PROVE x \in Trozos(q)' <=> x \in Trozos(q)
  <2>1. /\ EnMemoria(q) = tabla[q] /\ EnSwap(q) = suspendidos[q]
        /\ EnMemoria(q)' = tabla'[q] /\ EnSwap(q)' = suspendidos[q]
    BY <1>1, EnMemoriaFacts, EnMemoriaFactsPrima, EnSwapFacts, EnSwapFactsPrima DEF Moviendo
  <2>2. \A t : t \in tabla'[q] <=> \E s \in tabla[q] : t = Mudado(s)
    BY <1>1
  <2>3. \A s \in tabla[q] : TrozoEn(bytes', Mudado(s)) = TrozoEn(bytes, s)
    <3>1. \A s \in tabla[q] : s \in EnTablas
      BY DEF EnTablas
    <3> QED BY <3>1, TrozoMudado
  <2>4. disco' = disco
    BY <1>1
  <2>5. x \in Trozos(q)' <=> \/ \E t \in tabla'[q] : x = TrozoEn(bytes', t)
                             \/ \E ss \in suspendidos[q] : x = TrozoDeSwap(disco, ss)
    BY <2>1, <2>4, EnTrozosPrima
  <2>6. x \in Trozos(q) <=> \/ \E t \in tabla[q] : x = TrozoEn(bytes, t)
                            \/ \E ss \in suspendidos[q] : x = TrozoDeSwap(disco, ss)
    BY <2>1, EnTrozos
  <2> QED BY <2>2, <2>3, <2>5, <2>6
<1> QED BY <1>2

(***************************************************************************)
(* A resumption: the pieces come back, unless swap has been lost            *)
(***************************************************************************)
LEMMA HaySwap ==
  ASSUME TypeOK, SinSwapNada, pid \in Procesos, suspendidos[pid] # {}
  PROVE  swap # "si" => ~Respaldado /\ swap \in {"caida", "perdida"}
BY DEF SinSwapNada, TypeOK, Respaldado

(* The identifiers of the pieces of the process that comes back.            *)
LEMMA IdsDeTrozos ==
  ASSUME TypeOK, Orden, paso = "reanudar", NEW p \in Procesos, p = pid, suspendidos[pid] # {}
  PROVE  IdsDistintos(Trozos(p)) /\ tabla[p] = {}
<1>1. tabla[p] = {}
  BY DEF Orden, Suspendidos
<1>2. EnMemoria(p) = sueltos /\ EnSwap(p) = PorTraer
  BY <1>1, EnMemoriaFacts, EnSwapFacts
<1>3. /\ \A s, t \in sueltos : s.id = t.id => s = t
      /\ \A s, t \in PorTraer : s.id = t.id => s = t
      /\ \A s \in sueltos, t \in PorTraer : s.id # t.id
  BY DEF Orden, Identificadores, IdsDistintos, PorTraer, IdsDe
<1>4. ASSUME NEW x \in Trozos(p), NEW y \in Trozos(p), x.id = y.id PROVE x = y
  <2>1. \/ \E s \in sueltos : x = TrozoEn(bytes, s) /\ x.id = s.id
        \/ \E s \in PorTraer : x = TrozoDeSwap(disco, s) /\ x.id = s.id
    BY <1>2, EnTrozos, TrozoEnFacts, TrozoDeSwapFacts
  <2>2. \/ \E s \in sueltos : y = TrozoEn(bytes, s) /\ y.id = s.id
        \/ \E s \in PorTraer : y = TrozoDeSwap(disco, s) /\ y.id = s.id
    BY <1>2, EnTrozos, TrozoEnFacts, TrozoDeSwapFacts
  <2> QED BY <1>3, <1>4, <2>1, <2>2
<1> QED BY <1>1, <1>4 DEF IdsDistintos

(* What a step of it does to the pieces of each process.                    *)
SinPerder == \A q \in Procesos : Trozos(q)' = Trozos(q)
PierdeAlgo(p) ==
  /\ ~Respaldado /\ IdsDistintos(Trozos(p))
  /\ \A q \in Procesos \ {p} : Trozos(q)' = Trozos(q)
  /\ \E S \in SUBSET Formas(Trozos(p)) :
       /\ Formas(Trozos(p)') = Formas(Trozos(p))
       /\ \A x : Forma(x) \notin S => (x \in Trozos(p) <=> x \in Trozos(p)')

LEMMA VenReanudarSegmento ==
  ASSUME TypeOK, Orden, Reparto, Dominios, SinSwapNada, ReanudarSegmento
  PROVE  \E p \in Procesos : SinPerder \/ PierdeAlgo(p)
<1>1. /\ UNCHANGED <<tabla, disco, suspendidos, pid, paso>> /\ paso = "reanudar"
      /\ pid \in Procesos
  BY DEF ReanudarSegmento, TypeOK, Orden, Operacion
<1>0. PICK p \in Procesos : p = pid
  BY <1>1
<1>2. PICK ss \in PorTraer : \E s :
         /\ s.id = ss.id /\ s.tam = ss.tam /\ sueltos' = sueltos \cup {s}
         /\ PorTraer' = PorTraer \ {ss}
         /\ swap = "si" => TrozoEn(bytes', s) = TrozoDeSwap(disco, ss)
         /\ \A q \in Procesos : \A t \in EnMemoria(q) : TrozoEn(bytes', t) = TrozoEn(bytes, t)
  BY Reanuda
<1>3. PICK s :
         /\ s.id = ss.id /\ s.tam = ss.tam /\ sueltos' = sueltos \cup {s}
         /\ PorTraer' = PorTraer \ {ss}
         /\ swap = "si" => TrozoEn(bytes', s) = TrozoDeSwap(disco, ss)
         /\ \A q \in Procesos : \A t \in EnMemoria(q) : TrozoEn(bytes', t) = TrozoEn(bytes, t)
  BY <1>2
<1>4. suspendidos[pid] # {}
  BY <1>2 DEF PorTraer
<1>5. IdsDistintos(Trozos(p)) /\ tabla[p] = {}
  BY <1>0, <1>1, <1>4, IdsDeTrozos
<1>6. disco' = disco
  BY <1>1
<1>7. ASSUME NEW q \in Procesos \ {p} PROVE Trozos(q)' = Trozos(q)
  <2>1. EnMemoria(q)' = EnMemoria(q) /\ EnSwap(q)' = EnSwap(q)
    BY <1>0, <1>1, EnMemoriaFacts, EnMemoriaFactsPrima, EnSwapFacts, EnSwapFactsPrima
  <2>2. ASSUME NEW x PROVE x \in Trozos(q)' <=> x \in Trozos(q)
    <3>1. x \in Trozos(q)' <=> \/ \E t \in EnMemoria(q) : x = TrozoEn(bytes', t)
                               \/ \E r \in EnSwap(q) : x = TrozoDeSwap(disco, r)
      BY <1>6, <2>1, EnTrozosPrima
    <3> QED BY <1>3, <3>1, EnTrozos
  <2> QED BY <2>2
<1> DEFINE Queda(x) == \/ \E t \in sueltos : x = TrozoEn(bytes, t)
                       \/ \E r \in PorTraer \ {ss} : x = TrozoDeSwap(disco, r)
           a == TrozoDeSwap(disco, ss)
           b == TrozoEn(bytes', s)
<1>8. EnMemoria(p) = sueltos /\ EnMemoria(p)' = sueltos \cup {s} /\ EnSwap(p) = PorTraer
      /\ EnSwap(p)' = PorTraer \ {ss}
  <2>1. tabla'[p] = {}
    BY <1>1, <1>5
  <2> QED BY <1>0, <1>1, <1>3, <1>5, <2>1, EnMemoriaFacts, EnMemoriaFactsPrima, EnSwapFacts,
             EnSwapFactsPrima
<1>9. \A x : x \in Trozos(p) <=> Queda(x) \/ x = a
  BY <1>2, <1>8, EnTrozos
<1>10. \A x : x \in Trozos(p)' <=> Queda(x) \/ x = b
  <2>1. ASSUME NEW x
        PROVE  x \in Trozos(p)' <=> \/ \E t \in sueltos \cup {s} : x = TrozoEn(bytes', t)
                                    \/ \E r \in PorTraer \ {ss} : x = TrozoDeSwap(disco, r)
    BY <1>6, <1>8, EnTrozosPrima
  <2>2. \A t \in sueltos : TrozoEn(bytes', t) = TrozoEn(bytes, t)
    BY <1>3, <1>8
  <2> QED BY <2>1, <2>2
<1>11. Forma(a) = Forma(b)
  BY <1>3, TrozoEnFacts, TrozoDeSwapFacts DEF Forma
<1> HIDE DEF Queda, a, b
<1>12. CASE swap = "si"
  <2>1. a = b
    BY <1>3, <1>12 DEF a, b
  <2>2. Trozos(p)' = Trozos(p)
    BY <1>9, <1>10, <2>1
  <2> QED BY <1>7, <2>2 DEF SinPerder
<1>13. CASE swap # "si"
  <2>1. ~Respaldado
    BY <1>1, <1>4, <1>13, HaySwap
  <2> DEFINE S == {Forma(a)}
  <2>2. S \in SUBSET Formas(Trozos(p))
    BY <1>9, EnFormas
  <2>3. Formas(Trozos(p)') = Formas(Trozos(p))
    <3>1. \A f : f \in Formas(Trozos(p)') <=> f = Forma(b) \/ \E x : Queda(x) /\ f = Forma(x)
      BY <1>10, EnFormas
    <3>2. \A f : f \in Formas(Trozos(p)) <=> f = Forma(a) \/ \E x : Queda(x) /\ f = Forma(x)
      BY <1>9, EnFormas
    <3> QED BY <1>11, <3>1, <3>2
  <2>4. \A x : Forma(x) \notin S => (x \in Trozos(p) <=> x \in Trozos(p)')
    BY <1>9, <1>10, <1>11
  <2> HIDE DEF S
  <2> QED BY <1>5, <1>7, <2>1, <2>2, <2>3, <2>4 DEF PierdeAlgo
<1> QED BY <1>12, <1>13

LEMMA VenReanudarFalla ==
  ASSUME TypeOK, Orden, SinSwapNada, Copias, ReanudarFalla
  PROVE  \E p \in Procesos : SinPerder \/ PierdeAlgo(p)
<1>1. /\ UNCHANGED <<tabla, bytes, disco, suspendidos>> /\ paso = "reanudar"
      /\ paso' \notin Moviendo /\ pid \in Procesos
  BY DEF ReanudarFalla, respaldo, Moviendo, TypeOK, Orden, Operacion
<1>0. PICK p \in Procesos : p = pid
  BY <1>1
<1>2. suspendidos[pid] # {}
  <2>1. PorTraer # {}
    BY DEF ReanudarFalla
  <2> QED BY <2>1 DEF PorTraer
<1>3. IdsDistintos(Trozos(p)) /\ tabla[p] = {}
  BY <1>0, <1>1, <1>2, IdsDeTrozos
<1>4. bytes' = bytes /\ disco' = disco
  BY <1>1
<1>5. ASSUME NEW q \in Procesos, NEW x
      PROVE  x \in Trozos(q)' <=> \/ \E t \in tabla[q] : x = TrozoEn(bytes, t)
                                  \/ \E ss \in suspendidos[q] : x = TrozoDeSwap(disco, ss)
  <2>1. EnMemoria(q)' = tabla[q] /\ EnSwap(q)' = suspendidos[q]
    BY <1>1, EnMemoriaFactsPrima, EnSwapFactsPrima DEF Moviendo
  <2> QED BY <1>4, <2>1, EnTrozosPrima
<1>6. ASSUME NEW q \in Procesos \ {p} PROVE Trozos(q)' = Trozos(q)
  <2>1. EnMemoria(q) = tabla[q] /\ EnSwap(q) = suspendidos[q]
    BY <1>0, EnMemoriaFacts, EnSwapFacts
  <2>2. \A x : x \in Trozos(q)' <=> x \in Trozos(q)
    BY <1>5, <2>1, EnTrozos
  <2> QED BY <2>2
<1>7. \A x : x \in Trozos(p)' <=> \E ss \in suspendidos[p] : x = TrozoDeSwap(disco, ss)
  BY <1>3, <1>5
<1>8. \A x : x \in Trozos(p) <=> \/ \E t \in sueltos : x = TrozoEn(bytes, t)
                                 \/ \E ss \in PorTraer : x = TrozoDeSwap(disco, ss)
  <2>1. EnMemoria(p) = sueltos /\ EnSwap(p) = PorTraer
    BY <1>0, <1>1, <1>3, EnMemoriaFacts, EnSwapFacts
  <2> QED BY <2>1, EnTrozos
<1>9. ASSUME NEW t \in sueltos
      PROVE  \E ss \in suspendidos[p] :
               /\ t.id = ss.id /\ Forma(TrozoEn(bytes, t)) = Forma(TrozoDeSwap(disco, ss))
               /\ swap = "si" => TrozoEn(bytes, t) = TrozoDeSwap(disco, ss)
  <2>1. PICK ss \in suspendidos[pid] :
          /\ t.id = ss.id /\ t.tam = ss.tam
          /\ swap = "si" => TrozoEn(bytes, t) = TrozoDeSwap(disco, ss)
    BY <1>1 DEF Copias, CopiaEnSwap
  <2>2. Forma(TrozoEn(bytes, t)) = Forma(TrozoDeSwap(disco, ss))
    BY <2>1, TrozoEnFacts, TrozoDeSwapFacts DEF Forma
  <2> QED BY <1>0, <2>1, <2>2
<1>10. ASSUME NEW ss \in suspendidos[p], ss \notin PorTraer
       PROVE  \E t \in sueltos :
                /\ Forma(TrozoEn(bytes, t)) = Forma(TrozoDeSwap(disco, ss))
                /\ swap = "si" => TrozoEn(bytes, t) = TrozoDeSwap(disco, ss)
  <2>1. PICK t \in sueltos : t.id = ss.id
    BY <1>0, <1>10 DEF PorTraer, IdsDe
  <2>2. \A r \in suspendidos[p] : r.id = ss.id => r = ss
    BY DEF Orden, Identificadores, IdsDistintos
  <2> QED BY <1>9, <2>1, <2>2
<1>11. PorTraer \subseteq suspendidos[p]
  BY <1>0 DEF PorTraer
<1>12. CASE swap = "si"
  <2>1. \A x : x \in Trozos(p)' <=> x \in Trozos(p)
    BY <1>7, <1>8, <1>9, <1>10, <1>11, <1>12
  <2>2. Trozos(p)' = Trozos(p)
    BY <2>1
  <2> QED BY <1>6, <2>2 DEF SinPerder
<1>13. CASE swap # "si"
  <2>1. ~Respaldado
    BY <1>1, <1>2, <1>13, HaySwap
  <2> DEFINE S == {Forma(TrozoEn(bytes, t)) : t \in sueltos}
  <2>2. S \in SUBSET Formas(Trozos(p))
    BY <1>8, EnFormas
  <2>3. \A f : f \in Formas(Trozos(p)') <=> f \in Formas(Trozos(p))
    <3>1. ASSUME NEW f, f \in Formas(Trozos(p)') PROVE f \in Formas(Trozos(p))
      <4>1. PICK ss \in suspendidos[p] : f = Forma(TrozoDeSwap(disco, ss))
        BY <1>7, <3>1, EnFormas
      <4>2. CASE ss \in PorTraer
        BY <1>8, <4>1, <4>2, EnFormas
      <4>3. CASE ss \notin PorTraer
        BY <1>8, <1>10, <4>1, <4>3, EnFormas
      <4> QED BY <4>2, <4>3
    <3>2. ASSUME NEW f, f \in Formas(Trozos(p)) PROVE f \in Formas(Trozos(p)')
      <4>1. PICK x \in Trozos(p) : f = Forma(x)
        BY <3>2, EnFormas
      <4>2. CASE \E t \in sueltos : x = TrozoEn(bytes, t)
        BY <1>7, <1>9, <4>1, <4>2, EnFormas
      <4>3. CASE \E ss \in PorTraer : x = TrozoDeSwap(disco, ss)
        BY <1>7, <1>11, <4>1, <4>3, EnFormas
      <4> QED BY <1>8, <4>2, <4>3
    <3> QED BY <3>1, <3>2
  <2>4. ASSUME NEW x, Forma(x) \notin S PROVE x \in Trozos(p) <=> x \in Trozos(p)'
    <3>1. \A t \in sueltos : Forma(x) # Forma(TrozoEn(bytes, t))
      BY <2>4
    <3> QED BY <1>7, <1>8, <1>10, <1>11, <3>1
  <2> HIDE DEF S
  <2>5. Formas(Trozos(p)') = Formas(Trozos(p))
    BY <2>3
  <2> QED BY <1>3, <1>6, <2>1, <2>2, <2>4, <2>5 DEF PierdeAlgo
<1> QED BY <1>12, <1>13

(***************************************************************************)
(* The steps the processes see                                              *)
(***************************************************************************)
(* The segments of a process that is neither suspended nor on its way.      *)
LEMMA SoloTabla ==
  ASSUME TypeOK, Orden, NEW p \in Procesos, fase[p] # "suspendido"
  PROVE  /\ suspendidos[p] = {} /\ EnMemoria(p) = tabla[p] /\ EnSwap(p) = {}
         /\ \A x : x \in Trozos(p) <=> \E s \in tabla[p] : x = TrozoEn(bytes, s)
         /\ IdsDistintos(Trozos(p))
<1>1. suspendidos[p] = {} /\ ~(paso \in Moviendo /\ pid = p)
  BY DEF Orden, Suspendidos, Operacion, Moviendo
<1>2. EnMemoria(p) = tabla[p] /\ EnSwap(p) = {}
  BY <1>1, EnMemoriaFacts, EnSwapFacts DEF Moviendo
<1>3. \A x : x \in Trozos(p) <=> \E s \in tabla[p] : x = TrozoEn(bytes, s)
  BY <1>2, EnTrozos
<1>4. \A s, t \in tabla[p] : s.id = t.id => s = t
  BY DEF Orden, Identificadores, IdsDistintos
<1>5. \A x \in Trozos(p) : \E s \in tabla[p] : x = TrozoEn(bytes, s) /\ x.id = s.id
  BY <1>3, TrozoEnFacts
<1>6. IdsDistintos(Trozos(p))
  BY <1>4, <1>5 DEF IdsDistintos
<1> QED BY <1>1, <1>2, <1>3, <1>6

(* After a step of the thread on the table of one process only.             *)
LEMMA TablaDeUno ==
  ASSUME NEW p \in Procesos, paso \notin Moviendo, paso' \notin Moviendo,
         UNCHANGED <<bytes, disco, suspendidos>>, suspendidos[p] = {},
         \A q \in Procesos \ {p} : tabla'[q] = tabla[q]
  PROVE  /\ \A q \in Procesos \ {p} : Trozos(q)' = Trozos(q)
         /\ \A x : x \in Trozos(p)' <=> \E s \in tabla'[p] : x = TrozoEn(bytes, s)
<1>1. \A q \in Procesos : /\ EnMemoria(q) = tabla[q] /\ EnMemoria(q)' = tabla'[q]
                          /\ EnSwap(q) = suspendidos[q] /\ EnSwap(q)' = suspendidos[q]
  BY EnMemoriaFacts, EnMemoriaFactsPrima, EnSwapFacts, EnSwapFactsPrima DEF Moviendo
<1>2. \A q \in Procesos \ {p} : Trozos(q)' = Trozos(q)
  BY <1>1, TrozosQuietos
<1>3. bytes' = bytes
  OBVIOUS
<1>4. \A x : x \in Trozos(p)' <=> \E s \in tabla'[p] : x = TrozoEn(bytes, s)
  BY <1>1, <1>3, EnTrozosPrima
<1> QED BY <1>2, <1>4

(* What each of them does to the pieces of its process.                     *)
SoloDe(p) == \A q \in Procesos \ {p} : Trozos(q)' = Trozos(q)

LEMMA VeMemWrite ==
  ASSUME TypeOK, Orden, Reparto, Dominios, ~pisado', NEW p \in Procesos, MemWrite(p)
  PROVE  /\ SoloDe(p) /\ Formas(Trozos(p)') = Formas(Trozos(p))
         /\ \E f \in Formas(Trozos(p)) : \E b \in Promesa!Bytes(f) :
              Escrito(p, Trozos(p)') = Escrito(p, Trozos(p)) \cup {b}
<1>1. PICK s \in tabla[p] : \E o \in 0 .. s.tam - 1 :
        /\ bytes' = [bytes EXCEPT ![s.base + o] = <<p, s.id, o>>]
        /\ \A b \in 0 .. Limite - 1 : b # s.base + o => bytes'[b] = bytes[b]
        /\ \A b \in 0 .. Limite - 1 : b \notin Rango(s) => bytes'[b] = bytes[b]
  BY Escribe
<1>2. PICK o \in 0 .. s.tam - 1 :
        /\ bytes' = [bytes EXCEPT ![s.base + o] = <<p, s.id, o>>]
        /\ \A b \in 0 .. Limite - 1 : b # s.base + o => bytes'[b] = bytes[b]
        /\ \A b \in 0 .. Limite - 1 : b \notin Rango(s) => bytes'[b] = bytes[b]
  BY <1>1
<1>3. fase[p] # "suspendido" /\ disco' = disco
  BY Escribe DEF MemWrite, respaldo
<1>4. /\ EnMemoria(p) = tabla[p] /\ EnSwap(p) = {} /\ IdsDistintos(Trozos(p))
      /\ \A x : x \in Trozos(p) <=> \E t \in tabla[p] : x = TrozoEn(bytes, t)
  BY <1>3, SoloTabla
<1>5. \A q \in Procesos : EnMemoria(q)' = EnMemoria(q) /\ EnSwap(q)' = EnSwap(q)
  BY DEF MemWrite, respaldo, operacion, EnMemoria, PorMover, EnSwap, PorTraer
<1>6. Apartadas
  BY Apartados
<1>7. Tramo(s) /\ s.base + s.tam <= Limite
  BY <1>4, <1>6 DEF Apartadas, Dentro
<1>8. ASSUME NEW q \in Procesos, NEW t \in EnMemoria(q), ~(q = p /\ t = s)
      PROVE  TrozoEn(bytes', t) = TrozoEn(bytes, t)
  <2>1. Tramo(t) /\ t.base + t.tam <= Limite /\ (Antes(s, t) \/ Antes(t, s))
    BY <1>4, <1>6, <1>8 DEF Apartadas, Dentro
  <2> QED BY <1>2, <1>7, <2>1, TrozoAjeno
<1>9. SoloDe(p)
  <2>1. ASSUME NEW q \in Procesos \ {p}, NEW x PROVE x \in Trozos(q)' <=> x \in Trozos(q)
    <3>1. x \in Trozos(q)' <=> \/ \E t \in EnMemoria(q) : x = TrozoEn(bytes', t)
                               \/ \E ss \in EnSwap(q) : x = TrozoDeSwap(disco, ss)
      BY <1>3, <1>5, EnTrozosPrima
    <3>2. \A t \in EnMemoria(q) : TrozoEn(bytes', t) = TrozoEn(bytes, t)
      BY <1>8
    <3> QED BY <3>1, <3>2, EnTrozos
  <2> QED BY <2>1 DEF SoloDe
<1> DEFINE x == TrozoEn(bytes, s)
           z == TrozoEn(bytes', s)
<1>10. x \in Trozos(p)
  BY <1>4
<1>11. \A w : w \in Trozos(p)' <=> w = z \/ (w \in Trozos(p) /\ w # x)
  <2>1. ASSUME NEW w PROVE w \in Trozos(p)' <=> \E t \in tabla[p] : w = TrozoEn(bytes', t)
    BY <1>4, <1>5, EnTrozosPrima
  <2>2. \A t \in tabla[p] : t # s => TrozoEn(bytes', t) = TrozoEn(bytes, t)
    BY <1>4, <1>8
  <2>3. ASSUME NEW t \in tabla[p], t # s PROVE TrozoEn(bytes, t) # x
    <3>1. t.id # s.id
      BY <2>3 DEF Orden, Identificadores, IdsDistintos
    <3>2. TrozoEn(bytes, t).id = t.id /\ x.id = s.id
      BY TrozoEnFacts
    <3> QED BY <3>1, <3>2
  <2> HIDE DEF x, z
  <2>4. x = TrozoEn(bytes, s) /\ z = TrozoEn(bytes', s)
    BY DEF x, z
  <2> QED BY <1>4, <2>1, <2>2, <2>3, <2>4
<1>12. z.id = x.id /\ z.tam = x.tam /\ x.id = s.id /\ x.tam = s.tam
  BY TrozoEnFacts
<1>13. ASSUME NEW k \in 0 .. s.tam - 1
       PROVE  /\ s.base + k \in 0 .. Limite - 1
              /\ z.datos[k] = bytes'[s.base + k] /\ x.datos[k] = bytes[s.base + k]
              /\ k # o => s.base + k # s.base + o
  <2>1. s.base + k \in 0 .. Limite - 1 /\ (k # o => s.base + k # s.base + o)
    BY <1>7, LimiteNat DEF Tramo
  <2> QED BY <2>1, TrozoEnFacts
<1> HIDE DEF x, z
<1>14. z.datos[o] = <<p, x.id, o>>
  <2>1. s.base + o \in DOMAIN bytes /\ z.datos[o] = bytes'[s.base + o]
    BY <1>13 DEF Dominios
  <2>2. bytes'[s.base + o] = <<p, s.id, o>>
    BY <1>2, <2>1
  <2> QED BY <1>12, <2>1, <2>2
<1>15. \A k \in 0 .. x.tam - 1 : k # o => z.datos[k] = x.datos[k]
  BY <1>2, <1>12, <1>13
<1>16. /\ Formas(Trozos(p)') = Formas(Trozos(p))
       /\ \E b \in Promesa!Bytes(Forma(x)) : Escrito(p, Trozos(p)') = Escrito(p, Trozos(p)) \cup {b}
  <2> DEFINE X == Trozos(p)
             Y == Trozos(p)'
  <2>1. x \in X /\ \A w : w \in Y <=> w = z \/ (w \in X /\ w # x)
    BY <1>10, <1>11
  <2>2. z.id = x.id /\ z.tam = x.tam /\ o \in 0 .. x.tam - 1
    BY <1>12
  <2> HIDE DEF X, Y
  <2>3. Formas(Y) = Formas(X) /\ \E b \in Promesa!Bytes(Forma(x)) : Escrito(p, Y) = Escrito(p, X) \cup {b}
    BY <1>14, <1>15, <2>1, <2>2, PiezaEscrita, Z3
  <2> QED BY <2>3 DEF X, Y
<1> QED BY <1>9, <1>10, <1>16, EnFormas

LEMMA VeRegistrar ==
  ASSUME TypeOK, Orden, RegistrarSegmento
  PROVE  \/ SinPerder
         \/ \E p \in Procesos, s \in [id : Ids, tam : Tamanios] :
              /\ SoloDe(p) /\ \A f \in Formas(Trozos(p)) : f.id # s.id
              /\ Formas(Trozos(p)') = Formas(Trozos(p)) \cup {s}
              /\ \E c \in SUBSET Promesa!Bytes(s) :
                   Escrito(p, Trozos(p)') = Escrito(p, Trozos(p)) \cup c
<1>1. /\ paso = "registrar" /\ paso' = "espera" /\ pid \in Procesos
      /\ UNCHANGED <<bytes, disco, suspendidos>> /\ tabla' = [tabla EXCEPT ![pid] = @ \cup sueltos]
      /\ sueltos \subseteq Segmentos /\ tabla \in [Procesos -> SUBSET Segmentos]
  BY DEF RegistrarSegmento, Responder, respaldo, TypeOK, Orden, Operacion
<1>0. PICK p \in Procesos : p = pid
  BY <1>1
<1>2. /\ fase[p] = "pide" /\ pedido.id \notin IdsDe(tabla[p]) /\ \A s \in sueltos : s.id = pedido.id
      /\ \A s, t \in sueltos : s.id = t.id => s = t
  BY <1>0, <1>1 DEF Orden, Operacion, Pidiendo, Identificadores, IdsDistintos
<1>3. /\ suspendidos[p] = {} /\ \A x : x \in Trozos(p) <=> \E s \in tabla[p] : x = TrozoEn(bytes, s)
  BY <1>2, SoloTabla
<1>4. tabla'[p] = tabla[p] \cup sueltos /\ \A q \in Procesos \ {p} : tabla'[q] = tabla[q]
  BY <1>0, <1>1
<1>5. /\ SoloDe(p)
      /\ \A x : x \in Trozos(p)' <=> \E s \in tabla'[p] : x = TrozoEn(bytes, s)
  BY <1>1, <1>3, <1>4, TablaDeUno DEF Moviendo, SoloDe
<1>6. CASE sueltos = {}
  <2>1. \A x : x \in Trozos(p)' <=> x \in Trozos(p)
    BY <1>3, <1>4, <1>5, <1>6
  <2>2. Trozos(p)' = Trozos(p)
    BY <2>1
  <2> QED BY <1>5, <2>2 DEF SoloDe, SinPerder
<1>7. CASE sueltos # {}
  <2>1. PICK s \in sueltos : \A t \in sueltos : t = s
    BY <1>2, <1>7
  <2> DEFINE x == TrozoEn(bytes, s)
  <2>2. \A y : y \in Trozos(p)' <=> y \in Trozos(p) \/ y = x
    BY <1>3, <1>4, <1>5, <2>1
  <2>3. Forma(x) = [id |-> s.id, tam |-> s.tam]
    BY TrozoEnFacts DEF Forma
  <2>4. Forma(x) \in [id : Ids, tam : Tamanios] /\ Forma(x).id = pedido.id
    BY <1>1, <1>2, <2>3 DEF Segmentos
  <2> HIDE DEF x
  <2>5. Trozos(p)' = Trozos(p) \cup {x}
    BY <2>2
  <2>6. ASSUME NEW f \in Formas(Trozos(p)) PROVE f.id # Forma(x).id
    <3>1. PICK t \in tabla[p] : f = Forma(TrozoEn(bytes, t))
      BY <1>3, EnFormas
    <3>2. f.id = t.id
      BY <3>1, FormaFacts, TrozoEnFacts
    <3> QED BY <1>2, <2>4, <3>2 DEF IdsDe
  <2>7. /\ Formas(Trozos(p) \cup {x}) = Formas(Trozos(p)) \cup {Forma(x)}
        /\ \E c \in SUBSET Promesa!Bytes(Forma(x)) :
             Escrito(p, Trozos(p) \cup {x}) = Escrito(p, Trozos(p)) \cup c
    BY PiezaMas
  <2>8. /\ Formas(Trozos(p)') = Formas(Trozos(p)) \cup {Forma(x)}
        /\ \E c \in SUBSET Promesa!Bytes(Forma(x)) :
             Escrito(p, Trozos(p)') = Escrito(p, Trozos(p)) \cup c
    BY <2>5, <2>7
  <2> QED BY <1>5, <2>4, <2>6, <2>8
<1> QED BY <1>6, <1>7

LEMMA VeMemFree ==
  ASSUME TypeOK, Orden, NEW p \in Procesos, MemFree(p)
  PROVE  /\ SoloDe(p)
         /\ \E f \in Formas(Trozos(p)) :
              /\ Formas(Trozos(p)') = Formas(Trozos(p)) \ {f}
              /\ Escrito(p, Trozos(p)') = Escrito(p, Trozos(p)) \ Promesa!Bytes(f)
<1>1. /\ paso = "espera" /\ paso' = "liberar" /\ fase[p] = "pide"
      /\ UNCHANGED <<bytes, disco, suspendidos>> /\ tabla \in [Procesos -> SUBSET Segmentos]
  BY DEF MemFree, respaldo, TypeOK
<1>2. PICK s \in tabla[p] : tabla' = [tabla EXCEPT ![p] = @ \ {s}]
  BY DEF MemFree
<1>3. /\ suspendidos[p] = {} /\ IdsDistintos(Trozos(p))
      /\ \A x : x \in Trozos(p) <=> \E t \in tabla[p] : x = TrozoEn(bytes, t)
  BY <1>1, SoloTabla
<1>4. tabla'[p] = tabla[p] \ {s} /\ \A q \in Procesos \ {p} : tabla'[q] = tabla[q]
  BY <1>1, <1>2
<1>5. /\ SoloDe(p)
      /\ \A x : x \in Trozos(p)' <=> \E t \in tabla'[p] : x = TrozoEn(bytes, t)
  BY <1>1, <1>3, <1>4, TablaDeUno DEF Moviendo, SoloDe
<1> DEFINE x == TrozoEn(bytes, s)
<1>6. x \in Trozos(p)
  BY <1>3
<1>7. ASSUME NEW t \in tabla[p] PROVE TrozoEn(bytes, t) = x <=> t = s
  <2>1. t.id = s.id => t = s
    BY DEF Orden, Identificadores, IdsDistintos
  <2>2. TrozoEn(bytes, t).id = t.id /\ x.id = s.id
    BY TrozoEnFacts
  <2> QED BY <2>1, <2>2
<1> HIDE DEF x
<1>8. \A y : y \in Trozos(p)' <=> y \in Trozos(p) \ {x}
  BY <1>3, <1>4, <1>5, <1>7
<1>9. Trozos(p)' = Trozos(p) \ {x}
  BY <1>8
<1>10. /\ Formas(Trozos(p) \ {x}) = Formas(Trozos(p)) \ {Forma(x)}
       /\ Escrito(p, Trozos(p) \ {x}) = Escrito(p, Trozos(p)) \ Promesa!Bytes(Forma(x))
  BY <1>3, <1>6, PiezaMenos
<1>11. Forma(x) \in Formas(Trozos(p))
  BY <1>6, EnFormas
<1> QED BY <1>5, <1>9, <1>10, <1>11

LEMMA VeFinalizar ==
  ASSUME TypeOK, Orden, NEW p \in Procesos, FinalizarProceso(p)
  PROVE  SoloDe(p) /\ Formas(Trozos(p)') = {} /\ Escrito(p, Trozos(p)') = {}
<1>1. /\ paso = "espera" /\ paso' = "finalizar" /\ fase[p] = "sale"
      /\ UNCHANGED <<bytes, disco, suspendidos>> /\ tabla \in [Procesos -> SUBSET Segmentos]
      /\ tabla' = [tabla EXCEPT ![p] = {}]
  BY DEF FinalizarProceso, respaldo, TypeOK
<1>2. suspendidos[p] = {}
  BY <1>1, SoloTabla
<1>3. tabla'[p] = {} /\ \A q \in Procesos \ {p} : tabla'[q] = tabla[q]
  BY <1>1
<1>4. /\ SoloDe(p)
      /\ \A x : x \in Trozos(p)' <=> \E s \in tabla'[p] : x = TrozoEn(bytes, s)
  BY <1>1, <1>2, <1>3, TablaDeUno DEF Moviendo, SoloDe
<1>5. Trozos(p)' = {}
  BY <1>3, <1>4
<1>6. Formas({}) = {} /\ Escrito(p, {}) = {}
  BY DEF Formas, Escrito
<1> QED BY <1>4, <1>5, <1>6

(***************************************************************************)
(* Every step is a step of Espacio, or none                                 *)
(***************************************************************************)
Abstractas == <<Segmentados, Contenidos, Respaldado>>

LEMMA EsEscribir ==
  ASSUME NEW p \in Procesos, SoloDe(p), Respaldado' = Respaldado,
         Formas(Trozos(p)') = Formas(Trozos(p)), NEW f \in Formas(Trozos(p)),
         NEW b \in Promesa!Bytes(f), Escrito(p, Trozos(p)') = Escrito(p, Trozos(p)) \cup {b}
  PROVE  Promesa!Next
<1>1. /\ Segmentados' = [Segmentados EXCEPT ![p] = Formas(Trozos(p))]
      /\ Contenidos' = [Contenidos EXCEPT ![p] = Escrito(p, Trozos(p)) \cup {b}]
  BY VistaDeUno DEF SoloDe
<1>2. Segmentados[p] = Formas(Trozos(p)) /\ Contenidos[p] = Escrito(p, Trozos(p))
  BY VistaFacts
<1>3. /\ Segmentados' = Segmentados /\ Contenidos' = [Contenidos EXCEPT ![p] = Contenidos[p] \cup {b}]
      /\ f \in Segmentados[p]
  BY <1>1, <1>2 DEF Segmentados
<1>4. Promesa!Escribir(p, f)
  BY <1>3 DEF Promesa!Escribir, Segmentados, Contenidos, Respaldado
<1>5. f \in [q \in Procesos |-> SegmentosDe(q)][p]
  BY <1>3 DEF Segmentados
<1> QED BY <1>4, <1>5 DEF Promesa!Next

LEMMA EsReservar ==
  ASSUME NEW p \in Procesos, SoloDe(p), Respaldado' = Respaldado,
         NEW s \in [id : Ids, tam : Tamanios], \A f \in Formas(Trozos(p)) : f.id # s.id,
         Formas(Trozos(p)') = Formas(Trozos(p)) \cup {s}, NEW c \in SUBSET Promesa!Bytes(s),
         Escrito(p, Trozos(p)') = Escrito(p, Trozos(p)) \cup c
  PROVE  Promesa!Next
<1>1. /\ Segmentados' = [Segmentados EXCEPT ![p] = Formas(Trozos(p)) \cup {s}]
      /\ Contenidos' = [Contenidos EXCEPT ![p] = Escrito(p, Trozos(p)) \cup c]
  BY VistaDeUno DEF SoloDe
<1>2. Segmentados[p] = Formas(Trozos(p)) /\ Contenidos[p] = Escrito(p, Trozos(p))
  BY VistaFacts
<1>3. /\ Segmentados' = [Segmentados EXCEPT ![p] = Segmentados[p] \cup {s}]
      /\ Contenidos' = [Contenidos EXCEPT ![p] = Contenidos[p] \cup c]
      /\ \A t \in Segmentados[p] : t.id # s.id
  BY <1>1, <1>2
<1>4. Promesa!Reservar(p, s)
  BY <1>3 DEF Promesa!Reservar, Segmentados, Contenidos, Respaldado
<1> QED BY <1>4 DEF Promesa!Next

LEMMA EsLiberar ==
  ASSUME NEW p \in Procesos, SoloDe(p), Respaldado' = Respaldado, NEW f \in Formas(Trozos(p)),
         Formas(Trozos(p)') = Formas(Trozos(p)) \ {f},
         Escrito(p, Trozos(p)') = Escrito(p, Trozos(p)) \ Promesa!Bytes(f)
  PROVE  Promesa!Next
<1>1. /\ Segmentados' = [Segmentados EXCEPT ![p] = Formas(Trozos(p)) \ {f}]
      /\ Contenidos' = [Contenidos EXCEPT ![p] = Escrito(p, Trozos(p)) \ Promesa!Bytes(f)]
  BY VistaDeUno DEF SoloDe
<1>2. Segmentados[p] = Formas(Trozos(p)) /\ Contenidos[p] = Escrito(p, Trozos(p))
  BY VistaFacts
<1>3. /\ Segmentados' = [Segmentados EXCEPT ![p] = Segmentados[p] \ {f}]
      /\ Contenidos' = [Contenidos EXCEPT ![p] = Contenidos[p] \ Promesa!Bytes(f)]
  BY <1>1, <1>2
<1>4. Promesa!Liberar(p, f)
  BY <1>3 DEF Promesa!Liberar, Segmentados, Contenidos, Respaldado
<1>5. f \in [q \in Procesos |-> SegmentosDe(q)][p]
  BY <1>2 DEF Segmentados
<1> QED BY <1>4, <1>5 DEF Promesa!Next

LEMMA EsTerminar ==
  ASSUME NEW p \in Procesos, SoloDe(p), Respaldado' = Respaldado,
         Formas(Trozos(p)') = {}, Escrito(p, Trozos(p)') = {}
  PROVE  Promesa!Next
<1>1. /\ Segmentados' = [Segmentados EXCEPT ![p] = {}]
      /\ Contenidos' = [Contenidos EXCEPT ![p] = {}]
  BY VistaDeUno DEF SoloDe
<1>2. Promesa!Terminar(p)
  BY <1>1 DEF Promesa!Terminar, Segmentados, Contenidos, Respaldado
<1> QED BY <1>2 DEF Promesa!Next

LEMMA EsPerder ==
  ASSUME NEW p \in Procesos, PierdeAlgo(p), Respaldado' = Respaldado
  PROVE  Promesa!Next
<1>1. PICK S \in SUBSET Formas(Trozos(p)) :
        /\ Formas(Trozos(p)') = Formas(Trozos(p))
        /\ \A x : Forma(x) \notin S => (x \in Trozos(p) <=> x \in Trozos(p)')
  BY DEF PierdeAlgo
<1> DEFINE perdido == Perdido(S)
           Y == Trozos(p)'
<1>2. Formas(Y) = Formas(Trozos(p)) /\ \A x : Forma(x) \notin S => (x \in Trozos(p) <=> x \in Y)
  BY <1>1
<1>3. IdsDistintos(Trozos(p)) /\ ~Respaldado
  BY DEF PierdeAlgo
<1> HIDE DEF perdido, Y
<1>4. \E c \in SUBSET perdido : Escrito(p, Y) = (Escrito(p, Trozos(p)) \ perdido) \cup c
  BY <1>2, <1>3, PiezasPerdidas DEF perdido
<1>5. PICK c \in SUBSET perdido : Escrito(p, Trozos(p)') = (Escrito(p, Trozos(p)) \ perdido) \cup c
  BY <1>4 DEF Y
<1>6. /\ Segmentados' = [Segmentados EXCEPT ![p] = Formas(Trozos(p))]
      /\ Contenidos' = [Contenidos EXCEPT ![p] = (Escrito(p, Trozos(p)) \ perdido) \cup c]
  BY <1>1, <1>5, VistaDeUno DEF PierdeAlgo
<1>7. Segmentados[p] = Formas(Trozos(p)) /\ Contenidos[p] = Escrito(p, Trozos(p))
  BY VistaFacts
<1>8. /\ Segmentados' = Segmentados
      /\ Contenidos' = [Contenidos EXCEPT ![p] = (Contenidos[p] \ perdido) \cup c]
  BY <1>6, <1>7 DEF Segmentados
<1>9. \E d \in SUBSET perdido : Contenidos' = [Contenidos EXCEPT ![p] = (Contenidos[p] \ perdido) \cup d]
  BY <1>8
<1>10. Promesa!Perder(p, S)
  <2>1. \E d \in SUBSET UNION {Promesa!Bytes(s) : s \in S} :
          Contenidos' = [Contenidos EXCEPT ![p] = (@ \ UNION {Promesa!Bytes(s) : s \in S}) \cup d]
    BY <1>9 DEF perdido, Perdido
  <2>2. Respaldado = FALSE
    BY <1>3 DEF Respaldado
  <2>3. UNCHANGED <<Segmentados, Respaldado>>
    BY <1>8
  <2> QED BY <2>1, <2>2, <2>3, Zenon DEF Promesa!Perder, Segmentados, Contenidos, Respaldado
<1>11. S \in SUBSET ([q \in Procesos |-> SegmentosDe(q)][p])
  BY <1>7 DEF Segmentados
<1> QED BY <1>10, <1>11 DEF Promesa!Next

(* Only the disconnection of swap, when it is first lost, takes the backing *)
(* away.                                                                    *)
LEMMA RespaldoPaso ==
  ASSUME TypeOK, Next, ~CaerSwap
  PROVE  Respaldado' = Respaldado
<1>1. \/ swap' = swap \/ ConectarSwap \/ SuspenderFalla \/ ReanudarSegmento
  BY DEF Next, Reposo, ConectarStick, Cpu, PedirContexto, ActualizarContexto, Desalojar,
     GuardarContexto, Recibir, MemWrite, Despertar, Atender, CrearProceso, MemAllocRechazado,
     MemAlloc, MemFreeRechazado, MemFree, FinalizarProceso, SuspenderSinSwap, SuspenderProceso,
     ReanudarProceso, Seguir, CompactarMemoria, Reintentar, RegistrarSegmento, LiberarSegmento,
     LiberarUno, DestruirProceso, SuspenderSegmento, TerminarSuspension, ReanudarFalla,
     TerminarReanudacion, vars, respaldo
<1>2. CASE swap' = swap
  BY <1>2 DEF Respaldado
<1>3. CASE ConectarSwap
  BY <1>3 DEF ConectarSwap, Respaldado
<1>4. CASE SuspenderFalla
  <2>1. swap' = swap \/ (swap = "caida" /\ swap' = "perdida")
    BY <1>4 DEF SuspenderFalla
  <2> QED BY <2>1 DEF Respaldado
<1>5. CASE ReanudarSegmento
  <2>1. swap' = IF swap = "caida" THEN "perdida" ELSE swap
    BY <1>5 DEF ReanudarSegmento
  <2> QED BY <2>1 DEF Respaldado
<1> QED BY <1>1, <1>2, <1>3, <1>4, <1>5

LEMMA NadieVe ==
  ASSUME TypeOK, Next, ~CaerSwap, SinPerder
  PROVE  UNCHANGED Abstractas
BY VistaQuieta, RespaldoPaso DEF SinPerder, Abstractas

LEMMA EspacioCaida ==
  ASSUME TypeOK, ~pisado', CaerSwap
  PROVE  Promesa!Next
<1>1. Segmentados' = Segmentados /\ Contenidos' = Contenidos
  BY NoVenEntorno, VistaQuieta
<1>2. swap = "si" /\ swap' = "caida"
  BY DEF CaerSwap
<1>3. Promesa!PerderRespaldo
  BY <1>1, <1>2 DEF Promesa!PerderRespaldo, Segmentados, Contenidos
<1> QED BY <1>3 DEF Promesa!Next

LEMMA EspacioPaso ==
  ASSUME IInv, DatosVivos, Next, ~pisado'
  PROVE  Promesa!Next \/ UNCHANGED Abstractas
<1>0. /\ TypeOK /\ Orden /\ Dominios /\ Largos /\ SinSwapNada /\ Copias
      /\ Entero => Reparto /\ Bloques
  BY SinPisar DEF IInv, OrdenVivo, DatosVivos, Datos, RepartoVivo, BloquesVivos
<1>1. CASE CaerSwap
  BY <1>0, <1>1, EspacioCaida
<1> SUFFICES ASSUME ~CaerSwap PROVE Promesa!Next \/ UNCHANGED Abstractas
  BY <1>1
<1>2. Respaldado' = Respaldado
  BY <1>0, RespaldoPaso
<1>3. SinPerder => UNCHANGED Abstractas
  BY <1>0, NadieVe
<1>4. CASE Reposo
  <2>1. UNCHANGED <<tabla, suspendidos, paso, pid, sueltos, movidos, bytes, disco>>
    BY <1>4 DEF Reposo, vars, memoria, respaldo, operacion
  <2>2. SinPerder
    BY <2>1, SinTocarNada DEF SinPerder
  <2> QED BY <1>3, <2>2
<1> SUFFICES ASSUME ~Reposo PROVE Promesa!Next \/ UNCHANGED Abstractas
  BY <1>4
<1>5. Entero /\ Reparto /\ Bloques
  BY <1>0 DEF Next
<1>6. CASE ConectarStick \/ ConectarSwap
  BY <1>0, <1>3, <1>6, NoVenEntorno DEF SinPerder
<1>7. ASSUME NEW p \in Procesos, Cpu(p)
      PROVE  Promesa!Next \/ UNCHANGED Abstractas
  <2>1. CASE MemWrite(p)
    BY <1>0, <1>2, <1>5, <2>1, VeMemWrite, EsEscribir
  <2>2. CASE ~MemWrite(p)
    BY <1>0, <1>3, <1>7, <2>2, NoVenEntorno DEF SinPerder
  <2> QED BY <2>1, <2>2
<1>8. ASSUME NEW p \in Procesos, Atender(p)
      PROVE  Promesa!Next \/ UNCHANGED Abstractas
  <2>1. CASE MemFree(p)
    BY <1>0, <1>2, <2>1, VeMemFree, EsLiberar
  <2>2. CASE FinalizarProceso(p)
    BY <1>0, <1>2, <2>2, VeFinalizar, EsTerminar
  <2>3. CASE SuspenderProceso(p) \/ ReanudarProceso(p)
    BY <1>0, <1>3, <2>3, NoVenEmpezar DEF SinPerder
  <2>4. CASE \/ CrearProceso(p) \/ MemAllocRechazado(p) \/ MemAlloc(p) \/ MemFreeRechazado(p)
             \/ SuspenderSinSwap(p)
    BY <1>0, <1>3, <2>4, NoVenAtender DEF SinPerder
  <2> QED BY <1>8, <2>1, <2>2, <2>3, <2>4 DEF Atender
<1>9. CASE Seguir
  <2>1. CASE CompactarMemoria
    BY <1>0, <1>3, <1>5, <2>1, NoVenCompactar DEF SinPerder
  <2>2. CASE RegistrarSegmento
    BY <1>0, <1>2, <1>3, <2>2, VeRegistrar, EsReservar
  <2>3. CASE Reintentar \/ LiberarSegmento \/ LiberarUno \/ DestruirProceso
    BY <1>0, <1>3, <2>3, NoVenSeguir DEF SinPerder
  <2>4. CASE SuspenderSegmento
    BY <1>0, <1>3, <1>5, <2>4, NoVenSuspenderSegmento DEF SinPerder
  <2>5. CASE SuspenderFalla
    BY <1>0, <1>3, <2>5, NoVenSuspenderFalla DEF SinPerder
  <2>6. CASE TerminarSuspension \/ TerminarReanudacion
    BY <1>0, <1>3, <2>6, NoVenTerminar DEF SinPerder
  <2>7. CASE ReanudarSegmento
    BY <1>0, <1>2, <1>3, <1>5, <2>7, VenReanudarSegmento, EsPerder
  <2>8. CASE ReanudarFalla
    BY <1>0, <1>2, <1>3, <2>8, VenReanudarFalla, EsPerder
  <2> QED BY <1>9, <2>1, <2>2, <2>3, <2>4, <2>5, <2>6, <2>7, <2>8 DEF Seguir
<1> QED BY <1>6, <1>7, <1>8, <1>9 DEF Next

LEMMA EspacioQuieto == UNCHANGED vars => UNCHANGED Abstractas
<1> SUFFICES ASSUME UNCHANGED vars PROVE UNCHANGED Abstractas
  OBVIOUS
<1>1. UNCHANGED <<tabla, suspendidos, paso, pid, sueltos, movidos, bytes, disco, swap>>
  BY DEF vars, memoria, respaldo, operacion
<1>2. Segmentados' = Segmentados /\ Contenidos' = Contenidos
  BY <1>1, SinTocarNada, VistaQuieta
<1> QED BY <1>1, <1>2 DEF Abstractas, Respaldado

LEMMA EspacioInit == Init => Promesa!Init
<1> SUFFICES ASSUME Init PROVE Promesa!Init
  OBVIOUS
<1>1. paso = "espera" /\ swap = "no" /\ \A p \in Procesos : tabla[p] = {} /\ suspendidos[p] = {}
  BY DEF Init
<1>2. ASSUME NEW p \in Procesos PROVE SegmentosDe(p) = {} /\ ContenidoDe(p) = {}
  <2>1. EnMemoria(p) = {} /\ EnSwap(p) = {}
    BY <1>1, EnMemoriaFacts, EnSwapFacts
  <2>2. Trozos(p) = {}
    BY <2>1 DEF Trozos
  <2>3. Formas({}) = {} /\ Escrito(p, {}) = {}
    BY DEF Formas, Escrito
  <2> QED BY <2>2, <2>3, PromesaDeTrozos
<1> QED BY <1>1, <1>2 DEF Promesa!Init

(* Kernel Memory keeps the promise of Espacio, for any number of processes, *)
(* sticks and blocks and any strategy: whatever it moves, each process finds *)
(* its segments with what it wrote, and only a segment that comes back after *)
(* swap has been lost may hold anything else.  That is so until a CPU uses a *)
(* table that is out of date, which a compaction can make it do, or until an *)
(* operation fails half way.                                                *)
THEOREM EspacioImplementado == Spec => ImplementaEspacio
<1> DEFINE Paso1 == ~pisado' => [Promesa!Next]_Abstractas
<1>1. IInv /\ DatosVivos /\ [Next]_vars => Paso1
  BY EspacioPaso, EspacioQuieto
<1>2. DatosVivos /\ IInv /\ [Next]_vars => DatosVivos'
  BY DatosPaso, DatosQuietos
<1>3. Paso1 => (~pisado' => [Promesa!Next]_(Promesa!vars))
  BY DEF Abstractas, Segmentados, Contenidos, Respaldado, Promesa!vars
<1>4. Init => DatosVivos
  BY DatosInicial DEF DatosVivos
<1> HIDE DEF Paso1
<1> QED BY <1>1, <1>2, <1>3, <1>4, Inicial, Paso, EspacioInit, PTL DEF Spec, ImplementaEspacio

=============================================================================
