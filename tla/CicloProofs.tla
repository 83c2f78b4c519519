------------------------------ MODULE CicloProofs ------------------------------
(* Proofs about CicloInstruccion, for any programs and any number of         *)
(* processes and CPUs, any width of the registers and any memory.           *)
EXTENDS CicloInstruccion, Secuencias

(***************************************************************************)
(* Type correctness.  What a CPU has in its local variables depends on the  *)
(* step of the cycle it is in.                                              *)
(***************************************************************************)
TipoRegistros == {f \in [Registros -> Nat] : \A r \in Registros : f[r] \in ValoresDe(r)}
TipoSegmento ==
  {s \in [id : Nat, base : Nat, limite : 0 .. SEGMENT_MAX_SIZE] : Rango(s) \subseteq 0 .. TamMemoria - 1}
TipoContexto == [reg : TipoRegistros, tabla : Seq(TipoSegmento)]

TipoCpu(x) ==
  /\ x = [pc |-> x.pc, pid |-> x.pid, ctx |-> x.ctx, inst |-> x.inst, dato |-> x.dato]
  /\ x.pc \in Pasos /\ x.ctx \in TipoContexto
  /\ x.pc # "espera" => x.pid \in Procesos
  /\ x.pc \in {"execute", "syscall"} => EsInstruccion(x.inst)
  /\ x.pc = "copiar" => \A i \in DOMAIN x.dato : x.dato[i] \in Bytes
TipoLlamada(x) ==
  x = SinLlamada \/ (x.pid \in Procesos /\ EsInstruccion(x.inst))

ConfiguracionElegida ==
  \E k \in Configuraciones : programa = k.programa /\ cpus = k.cpus /\ rr = k.rr
TiposKm ==
  /\ memoria \in [0 .. TamMemoria - 1 -> Bytes]
  /\ contexto \in [Procesos -> TipoContexto] /\ vivos \subseteq Procesos
TiposCpu ==
  /\ cpu = [c \in cpus |-> cpu[c]]
  /\ \A c \in cpus : TipoCpu(cpu[c])
TiposPlanificador ==
  /\ libres \subseteq cpus /\ listos \in Seq(Procesos)
  /\ enviado \in [cpus -> Procesos \cup {NADA}]
  /\ llamada = [c \in cpus |-> llamada[c]] /\ \A c \in cpus : TipoLlamada(llamada[c])
  /\ io = [p \in Procesos |-> io[p]] /\ \A p \in Procesos : TipoLlamada(io[p])
Tipos == ConfiguracionElegida /\ TiposKm /\ TiposCpu /\ TiposPlanificador

(***************************************************************************)
(* Registers                                                                *)
(***************************************************************************)
LEMMA ValoresFacts ==
  /\ Valores \in [Nat -> Nat \ {0}]
  /\ Valores[0] = 1
<1> DEFINE V == Nat \ {0}
           Op == [v \in V |-> Byte * v]
           uno == 1
<1>1. Op \in [V -> V]
  BY ByteAssumption
<1>2. uno \in V
  OBVIOUS
<1> HIDE DEF V, Op, uno
<1>3. PICK f \in [Nat -> V] : Itera(f, uno, Op)
  BY <1>1, <1>2, IteracionExiste
<1> USE DEF uno, V
<1>4. \A n \in Nat : f[n] = IF n = 0 THEN 1 ELSE Byte * f[n - 1]
  <2>1. \A n \in Nat : n # 0 => n - 1 \in Nat
    OBVIOUS
  <2>2. \A v \in Nat \ {0} : Op[v] = Byte * v
    BY DEF Op
  <2>3. f = [n \in Nat |-> IF n = 0 THEN 1 ELSE Op[f[n - 1]]]
    BY <1>3 DEF Itera
  <2> QED BY <1>3, <2>1, <2>2, <2>3
<1>5. f = [n \in Nat |-> IF n = 0 THEN 1 ELSE Byte * f[n - 1]]
  BY <1>4
<1>6. Valores = [n \in Nat |-> IF n = 0 THEN 1 ELSE Byte * Valores[n - 1]]
  BY <1>5 DEF Valores
<1> DEFINE W == {n \in Nat : Valores[n] \notin Nat \ {0}}
<1>7. W = {}
  <2> SUFFICES ASSUME W # {} PROVE FALSE
    OBVIOUS
  <2>1. W \subseteq Nat
    OBVIOUS
  <2> DEFINE n == Min(W)
  <2>2. n \in W /\ \A k \in W : n <= k
    <3> HIDE DEF W
    <3> QED BY <2>1, MinProperties
  <2> HIDE DEF n
  <2>3. n # 0 /\ n \in Nat
    BY <1>6, <2>2
  <2>4. n - 1 \in Nat /\ n - 1 \notin W
    <3> HIDE DEF W
    <3> QED BY <2>2, <2>3
  <2>5. Valores[n] = Byte * Valores[n - 1] /\ Valores[n - 1] \in Nat \ {0}
    BY <1>6, <2>3, <2>4
  <2>6. Byte * Valores[n - 1] \in Nat \ {0}
    BY <2>5, ByteAssumption
  <2> QED BY <2>2, <2>5, <2>6
<1>8. Valores = [n \in Nat |-> Valores[n]]
  BY <1>6
<1>9. \A n \in Nat : Valores[n] \in Nat \ {0}
  BY <1>7
<1> QED BY <1>6, <1>8, <1>9

LEMMA AnchoFacts ==
  ASSUME NEW r
  PROVE  /\ TamanioRegistro(r) \in Nat \ {0}
         /\ Valores[TamanioRegistro(r)] \in Nat \ {0}
<1>1. TamanioRegistro(r) \in Nat \ {0}
  BY ByteAssumption DEF TamanioRegistro
<1> QED BY <1>1, ValoresFacts

(* What is written is truncated to the width of the register.               *)
LEMMA EscribirRegistroTipo ==
  ASSUME NEW reg \in TipoRegistros, NEW r, NEW v \in Int
  PROVE  EscribirRegistro(reg, r, v) \in TipoRegistros
<1> DEFINE n == Valores[TamanioRegistro(r)]
<1>1. n \in Nat \ {0}
  BY AnchoFacts
<1>2. ValoresDe(r) = 0 .. n - 1 /\ EscribirRegistro(reg, r, v) = [reg EXCEPT ![r] = v % n]
  BY DEF ValoresDe, EscribirRegistro
<1> HIDE DEF n
<1>3. v % n \in 0 .. n - 1 /\ v % n \in Nat
  BY <1>1
<1> DEFINE nuevo == [reg EXCEPT ![r] = v % n]
<1>4. nuevo \in [Registros -> Nat]
  BY <1>1, <1>3 DEF TipoRegistros
<1>5. ASSUME NEW s \in Registros PROVE nuevo[s] \in ValoresDe(s)
  <2>1. CASE s = r
    BY <1>2, <1>3, <2>1 DEF TipoRegistros
  <2>2. CASE s # r
    BY <2>2 DEF TipoRegistros
  <2> QED BY <2>1, <2>2
<1> QED BY <1>2, <1>4, <1>5 DEF TipoRegistros

LEMMA AvanzarTipo ==
  ASSUME NEW reg \in TipoRegistros PROVE Avanzar(reg) \in TipoRegistros
<1>1. reg["PC"] + 1 \in Int
  BY DEF TipoRegistros, Registros
<1> QED BY <1>1, EscribirRegistroTipo DEF Avanzar

LEMMA EnCeroTipo == EnCero \in TipoRegistros
<1>1. \A r \in Registros : 0 \in ValoresDe(r)
  BY AnchoFacts DEF ValoresDe
<1> QED BY <1>1 DEF EnCero, TipoRegistros

LEMMA EfectoTipo ==
  ASSUME NEW reg \in TipoRegistros, NEW inst, EsInstruccion(inst), inst[1] \in DeRegistros
  PROVE  Efecto(reg, inst) \in TipoRegistros
<1>1. \A r \in Registros : reg[r] \in Int
  BY DEF TipoRegistros
<1>2. CASE inst[1] = "NOOP"
  BY <1>2, AvanzarTipo DEF Efecto
<1>3. CASE inst[1] = "SET"
  <2>1. inst[3] \in Int
    BY <1>3 DEF EsInstruccion
  <2>2. EscribirRegistro(reg, inst[2], inst[3]) \in TipoRegistros
    BY <2>1, EscribirRegistroTipo
  <2> QED BY <1>3, <2>2, AvanzarTipo DEF Efecto
<1>4. CASE inst[1] = "SUM"
  <2>1. reg[inst[2]] + reg[inst[3]] \in Int
    BY <1>1, <1>4 DEF EsInstruccion
  <2>2. EscribirRegistro(reg, inst[2], reg[inst[2]] + reg[inst[3]]) \in TipoRegistros
    BY <2>1, EscribirRegistroTipo
  <2> QED BY <1>4, <2>2, AvanzarTipo DEF Efecto
<1>5. CASE inst[1] = "SUB"
  <2>1. reg[inst[2]] - reg[inst[3]] \in Int
    BY <1>1, <1>5 DEF EsInstruccion
  <2>2. EscribirRegistro(reg, inst[2], reg[inst[2]] - reg[inst[3]]) \in TipoRegistros
    BY <2>1, EscribirRegistroTipo
  <2> QED BY <1>5, <2>2, AvanzarTipo DEF Efecto
<1>6. CASE inst[1] = "JNZ"
  <2>1. inst[3] \in Int
    BY <1>6 DEF EsInstruccion
  <2>2. EscribirRegistro(reg, "PC", inst[3]) \in TipoRegistros
    BY <2>1, EscribirRegistroTipo
  <2> QED BY <1>6, <2>2, AvanzarTipo DEF Efecto
<1> QED BY <1>2, <1>3, <1>4, <1>5, <1>6 DEF DeRegistros

(* A register in memory, and back.                                          *)
LEMMA BytesDeTipo ==
  ASSUME NEW reg \in TipoRegistros, NEW r \in Registros
  PROVE  /\ DOMAIN BytesDe(reg, r) = 1 .. TamanioRegistro(r)
         /\ \A i \in 1 .. TamanioRegistro(r) : BytesDe(reg, r)[i] \in Bytes
<1>1. reg[r] \in Nat
  BY DEF TipoRegistros
<1>2. ASSUME NEW i \in 1 .. TamanioRegistro(r)
      PROVE  (reg[r] \div Valores[i - 1]) % Byte \in 0 .. Byte - 1
  <2>1. i - 1 \in Nat
    BY AnchoFacts
  <2>2. Valores[i - 1] \in Nat \ {0}
    BY <2>1, ValoresFacts
  <2>3. reg[r] \div Valores[i - 1] \in Int
    BY <1>1, <2>2
  <2> QED BY <2>3, ByteAssumption
<1> QED BY <1>2 DEF BytesDe, Bytes

PasoDeValor(f, bytes) == [T \in SUBSET (DOMAIN bytes) |->
  IF T = {} THEN 0 ELSE LET i == Min(T) IN bytes[i] + Byte * f[T \ {i}]]

LEMMA ValorDeDef ==
  ASSUME NEW bytes, NEW f, f = PasoDeValor(f, bytes)
  PROVE  \E g : g = PasoDeValor(g, bytes) /\ ValorDe(bytes) = g[DOMAIN bytes]
BY DEF ValorDe, FoldRight, MapThenFoldSet, PasoDeValor

LEMMA ValorDeTipo ==
  ASSUME NEW n \in Nat, NEW bytes, DOMAIN bytes = 1 .. n, \A i \in 1 .. n : bytes[i] \in Bytes
  PROVE  ValorDe(bytes) \in Int
<1> DEFINE S == 1 .. n
           El == [T \in SUBSET S |-> Min(T)]
           Op == [i \in S |-> [v \in Int |-> bytes[i] + Byte * v]]
           cero == 0
<1>1. \A i \in S : \A v \in Int : Op[i][v] = bytes[i] + Byte * v
  OBVIOUS
<1>2. \A T \in SUBSET S : El[T] = Min(T)
  OBVIOUS
<1>3. cero \in Int /\ Cierra(Op, S, Int) /\ Elige(El, S) /\ IsFiniteSet(S)
  <2>1. \A i \in S : \A v \in Int : bytes[i] + Byte * v \in Int
    BY ByteAssumption DEF Bytes
  <2>2. \A T \in SUBSET S : T # {} => Min(T) \in T
    <3> SUFFICES ASSUME NEW T \in SUBSET S, T # {} PROVE Min(T) \in T
      OBVIOUS
    <3>1. T \subseteq Nat
      OBVIOUS
    <3> QED BY <3>1, MinProperties
  <2>3. IsFiniteSet(S)
    BY FS_Interval
  <2>4. cero \in Int
    OBVIOUS
  <2> HIDE DEF Op, El, S, cero
  <2>5. Cierra(Op, S, Int)
    BY <1>1, <2>1 DEF Cierra
  <2>6. Elige(El, S)
    BY <1>2, <2>2 DEF Elige
  <2> QED BY <2>3, <2>4, <2>5, <2>6
<1> HIDE DEF El, Op, S, cero
<1>4. PICK f \in [SUBSET S -> Int] : Pliega(f, S, cero, El, Op)
  BY <1>3, PlegadoExiste
<1>5. \A T \in SUBSET S : T # {} => El[T] \in S /\ T \ {El[T]} \in SUBSET S
  BY <1>3 DEF Elige
<1>6. f = PasoDeValor(f, bytes)
  <2>1. ASSUME NEW T \in SUBSET S, T # {} PROVE f[T] = bytes[El[T]] + Byte * f[T \ {El[T]}]
    <3> DEFINE i == El[T]
               v == f[T \ {El[T]}]
    <3>1. i \in S /\ v \in Int /\ f[T] = Op[i][v]
      BY <1>4, <1>5, <2>1 DEF Pliega
    <3> HIDE DEF i, v
    <3>2. f[T] = bytes[i] + Byte * v
      BY <1>1, <3>1
    <3> QED BY <3>2 DEF i, v
  <2>2. \A T \in SUBSET S : f[T] = IF T = {} THEN 0 ELSE bytes[El[T]] + Byte * f[T \ {El[T]}]
    BY <1>4, <2>1 DEF Pliega, cero
  <2>3. f = [T \in SUBSET S |-> IF T = {} THEN 0 ELSE bytes[El[T]] + Byte * f[T \ {El[T]}]]
    BY <2>2
  <2>4. DOMAIN bytes = S
    BY DEF S
  <2> QED BY <1>2, <2>3, <2>4 DEF PasoDeValor
<1>7. PICK g : g = PasoDeValor(g, bytes) /\ ValorDe(bytes) = g[DOMAIN bytes]
  BY <1>6, ValorDeDef
<1>8. \A T \in SUBSET S : g[T] = IF T = {} THEN 0 ELSE bytes[El[T]] + Byte * g[T \ {El[T]}]
  <2>1. DOMAIN bytes = S
    BY DEF S
  <2> QED BY <1>2, <1>7, <2>1 DEF PasoDeValor
<1>9. PliegaEn(Int, g, S, cero, El, Op)
  <2>1. ASSUME NEW T \in SUBSET S, T # {}, g[T \ {El[T]}] \in Int
        PROVE  g[T] = Op[El[T]][g[T \ {El[T]}]]
    BY <1>1, <1>5, <1>8, <2>1
  <2> QED BY <1>8, <2>1 DEF PliegaEn, cero
<1>10. \A T \in SUBSET S : g[T] \in Int
  BY <1>3, <1>9, PlegadoTipo
<1> QED BY <1>7, <1>10 DEF S

(***************************************************************************)
(* Segments                                                                 *)
(***************************************************************************)
(* The addresses of the segments, and where a compaction takes them: what is *)
(* below a segment and the segment fit in the memory.                       *)
LEMMA OcupadoFacts ==
  ASSUME contexto \in [Procesos -> TipoContexto]
  PROVE  /\ Ocupado(contexto) \subseteq 0 .. TamMemoria - 1
         /\ \A p \in Procesos : \A i \in DOMAIN contexto[p].tabla :
              Rango(contexto[p].tabla[i]) \subseteq Ocupado(contexto)
<1>1. ASSUME NEW p \in Procesos, NEW i \in DOMAIN contexto[p].tabla
      PROVE  contexto[p].tabla[i] \in TipoSegmento
  <2>1. contexto[p].tabla \in Seq(TipoSegmento)
    BY DEF TipoContexto
  <2> QED BY <2>1, ElementOfSeq, LenProperties
<1> QED BY <1>1 DEF Ocupado, TipoSegmento

LEMMA LimiteFacts ==
  ASSUME NEW s \in TipoSegmento PROVE s.base \in Nat /\ s.limite \in Nat
<1>1. Palabra \in Nat
  BY ByteAssumption, ValoresFacts DEF Palabra
<1>2. SEGMENT_MAX_SIZE \in Nat
  BY <1>1, SegmentoAssumption
<1> QED BY <1>2 DEF TipoSegmento

LEMMA NuevaDirFacts ==
  ASSUME NEW s \in TipoSegmento, Ocupado(contexto) \subseteq 0 .. TamMemoria - 1,
         Rango(s) \subseteq Ocupado(contexto)
  PROVE  NuevaDir(s.base) \in Nat /\ NuevaDir(s.base) + s.limite <= TamMemoria
<1> DEFINE Dirs == 0 .. TamMemoria - 1
           A == {o \in Ocupado(contexto) : o < s.base}
           R == s.base .. s.base + s.limite - 1
<1>1. IsFiniteSet(Dirs) /\ Cardinality(Dirs) = TamMemoria
  BY FS_Interval, MemoriaAssumption
<1>2. s.base \in Nat /\ s.limite \in Nat
  BY LimiteFacts
<1>3. IsFiniteSet(R) /\ Cardinality(R) = s.limite
  <2> DEFINE a == s.base
             b == s.base + s.limite - 1
  <2>1. a \in Int /\ b \in Int /\ b - a + 1 = s.limite /\ (a > b => s.limite = 0)
    BY <1>2
  <2>2. R = a .. b
    OBVIOUS
  <2> HIDE DEF a, b, R
  <2> QED BY <2>1, <2>2, FS_Interval
<1>4. A \in SUBSET Dirs /\ R \subseteq Dirs /\ A \cap R = {}
  BY <1>2 DEF Rango
<1> HIDE DEF Dirs, A, R
<1>5. IsFiniteSet(A) /\ Cardinality(A) \in Nat
  BY <1>1, <1>4, FS_Subset, FS_CardinalityType
<1>6. Cardinality(A \cup R) = Cardinality(A) + Cardinality(R) - Cardinality(A \cap R)
  BY <1>3, <1>5, FS_Union
<1>7. Cardinality(A \cap R) = 0
  BY <1>4, FS_EmptySet
<1>8. Cardinality(A \cup R) <= Cardinality(Dirs)
  <2>1. A \cup R \in SUBSET Dirs
    BY <1>4
  <2> QED BY <1>1, <2>1, FS_Subset
<1>9. NuevaDir(s.base) = Cardinality(A)
  BY DEF NuevaDir, A
<1> QED BY <1>1, <1>2, <1>3, <1>5, <1>6, <1>7, <1>8, <1>9, MemoriaAssumption

LEMMA CompactadosTipo ==
  ASSUME contexto \in [Procesos -> TipoContexto]
  PROVE  Compactados \in [Procesos -> TipoContexto]
<1> SUFFICES ASSUME NEW p \in Procesos
             PROVE  [contexto[p] EXCEPT !.tabla = Compactada(@)] \in TipoContexto
  BY DEF Compactados
<1> DEFINE t == contexto[p].tabla
<1>1. t \in Seq(TipoSegmento) /\ Len(t) \in Nat /\ DOMAIN t = 1 .. Len(t)
  BY LenProperties DEF TipoContexto
<1>2. ASSUME NEW i \in DOMAIN t PROVE [t[i] EXCEPT !.base = NuevaDir(@)] \in TipoSegmento
  <2> DEFINE s == t[i]
             n == NuevaDir(s.base)
  <2>1. s \in TipoSegmento
    BY <1>1, ElementOfSeq
  <2>2. n \in Nat /\ n + s.limite <= TamMemoria
    BY <2>1, OcupadoFacts, NuevaDirFacts
  <2> HIDE DEF n, s
  <2>3. s.limite \in Nat
    BY <2>1, LimiteFacts
  <2>4. [s EXCEPT !.base = n] \in TipoSegmento
    BY <2>1, <2>2, <2>3, MemoriaAssumption DEF TipoSegmento, Rango
  <2> QED BY <2>4 DEF s, n
<1>3. Compactada(t) = [i \in 1 .. Len(t) |-> [t[i] EXCEPT !.base = NuevaDir(@)]]
  BY <1>1 DEF Compactada
<1>4. Compactada(t) \in Seq(TipoSegmento)
  <2>1. Compactada(t) \in [1 .. Len(t) -> TipoSegmento]
    BY <1>1, <1>2, <1>3
  <2> HIDE DEF t
  <2> QED BY <1>1, <2>1
<1> QED BY <1>4 DEF TipoContexto

LEMMA BytesCompactadosTipo ==
  ASSUME TiposKm PROVE BytesCompactados \in [0 .. TamMemoria - 1 -> Bytes]
<1>1. Ocupado(contexto) \subseteq 0 .. TamMemoria - 1
  BY OcupadoFacts DEF TiposKm
<1>2. DOMAIN memoria = 0 .. TamMemoria - 1 /\ \A a \in 0 .. TamMemoria - 1 : memoria[a] \in Bytes
  BY DEF TiposKm
<1>3. ASSUME NEW a \in 0 .. TamMemoria - 1, NEW o, o = {b \in Ocupado(contexto) : NuevaDir(b) = a}
      PROVE  memoria[IF o = {} THEN a ELSE CHOOSE b \in o : TRUE] \in Bytes
  <2>1. o # {} => (CHOOSE b \in o : TRUE) \in 0 .. TamMemoria - 1
    BY <1>1, <1>3
  <2> QED BY <1>2, <2>1
<1> QED BY <1>2, <1>3 DEF BytesCompactados

LEMMA HuecosFacts ==
  ASSUME memoria \in [0 .. TamMemoria - 1 -> Bytes], NEW tablas, NEW t \in Nat,
         NEW b \in Huecos(tablas, t)
  PROVE  b \in Nat /\ b .. b + t - 1 \subseteq 0 .. TamMemoria - 1
BY DEF Huecos, Libre

(* A segment less.                                                          *)
LEMMA SinSegmentoTipo ==
  ASSUME NEW tabla \in Seq(TipoSegmento), NEW x
  PROVE  SinSegmento(tabla, x) \in Seq(TipoSegmento)
<1> DEFINE I == {i \in 1 .. Len(tabla) : tabla[i].id = x}
<1>1. CASE I = {}
  BY <1>1 DEF SinSegmento, RemoveFirstMatch
<1>2. CASE I # {}
  <2>1. Min(I) \in I
    <3>1. I \subseteq Nat
      BY LenProperties
    <3> HIDE DEF I
    <3> QED BY <1>2, <3>1, MinProperties
  <2>2. SinSegmento(tabla, x) = RemoveAt(tabla, Min(I))
    BY <1>2 DEF SinSegmento, RemoveFirstMatch, SelectInSeq
  <2>3. Min(I) \in 1 .. Len(tabla)
    <3> HIDE DEF I
    <3> QED BY <2>1 DEF I
  <2> HIDE DEF I
  <2> QED BY <2>2, <2>3, RemoveAtProperties
<1> QED BY <1>1, <1>2

(***************************************************************************)
(* What a step leaves in the CPU that takes it                              *)
(***************************************************************************)
CpuCon(pc, pid, ctx, inst, dato) ==
  [pc |-> pc, pid |-> pid, ctx |-> ctx, inst |-> inst, dato |-> dato]
CtxCon(c, registros) == [reg |-> registros, tabla |-> cpu[c].ctx.tabla]
Cambia(c, x) == cpu' = [cpu EXCEPT ![c] = x]

LEMMA CambiaTipo ==
  ASSUME TiposCpu, NEW c \in cpus, NEW x, TipoCpu(x), Cambia(c, x), UNCHANGED cpus
  PROVE  TiposCpu'
<1>1. cpu' = [d \in cpus |-> IF d = c THEN x ELSE cpu[d]]
  BY DEF TiposCpu, Cambia
<1>2. \A d \in cpus : TipoCpu(cpu'[d])
  BY <1>1 DEF TiposCpu
<1>3. cpu' = [d \in cpus' |-> cpu'[d]]
  BY <1>1
<1>4. \A d \in cpus' : TipoCpu(cpu[d])'
  BY <1>2 DEF TipoCpu
<1> QED BY <1>3, <1>4 DEF TiposCpu

LEMMA OciosaTipo == TipoCpu(Ociosa) /\ ContextoVacio \in TipoContexto
<1>1. ContextoVacio \in TipoContexto
  BY EnCeroTipo, EmptySeq DEF ContextoVacio, TipoContexto
<1> HIDE DEF ContextoVacio
<1> QED BY <1>1 DEF Ociosa, TipoCpu, Pasos

LEMMA CpuForma ==
  ASSUME TiposCpu, NEW c \in cpus
  PROVE  /\ cpu = [d \in cpus |-> cpu[d]]
         /\ cpu[c] = CpuCon(cpu[c].pc, cpu[c].pid, cpu[c].ctx, cpu[c].inst, cpu[c].dato)
         /\ cpu[c].ctx = CtxCon(c, cpu[c].ctx.reg)
         /\ cpu[c].ctx.reg \in TipoRegistros /\ cpu[c].ctx.tabla \in Seq(TipoSegmento)
<1>1. cpu[c].ctx \in TipoContexto
  BY DEF TiposCpu, TipoCpu
<1>2. /\ cpu[c].ctx = [reg |-> cpu[c].ctx.reg, tabla |-> cpu[c].ctx.tabla]
      /\ cpu[c].ctx.reg \in TipoRegistros /\ cpu[c].ctx.tabla \in Seq(TipoSegmento)
  BY <1>1 DEF TipoContexto
<1> QED BY <1>2 DEF TiposCpu, TipoCpu, CpuCon, CtxCon

(* A field at a time.                                                       *)
ConPc(x, v) == [x EXCEPT !.pc = v]
ConPid(x, v) == [x EXCEPT !.pid = v]
ConCtx(x, v) == [x EXCEPT !.ctx = v]
ConInst(x, v) == [x EXCEPT !.inst = v]
ConDato(x, v) == [x EXCEPT !.dato = v]
ConReg(x, v) == [x EXCEPT !.ctx.reg = v]

LEMMA CampoFacts ==
  ASSUME NEW pc, NEW pid, NEW ctx, NEW inst, NEW dato, NEW v
  PROVE  /\ ConPc(CpuCon(pc, pid, ctx, inst, dato), v) = CpuCon(v, pid, ctx, inst, dato)
         /\ ConPid(CpuCon(pc, pid, ctx, inst, dato), v) = CpuCon(pc, v, ctx, inst, dato)
         /\ ConCtx(CpuCon(pc, pid, ctx, inst, dato), v) = CpuCon(pc, pid, v, inst, dato)
         /\ ConInst(CpuCon(pc, pid, ctx, inst, dato), v) = CpuCon(pc, pid, ctx, v, dato)
         /\ ConDato(CpuCon(pc, pid, ctx, inst, dato), v) = CpuCon(pc, pid, ctx, inst, v)
BY DEF CpuCon, ConPc, ConPid, ConCtx, ConInst, ConDato

LEMMA RegFacts ==
  ASSUME TiposCpu, NEW c \in cpus, NEW pc, NEW pid, NEW inst, NEW dato, NEW v
  PROVE  ConReg(CpuCon(pc, pid, cpu[c].ctx, inst, dato), v) = CpuCon(pc, pid, CtxCon(c, v), inst, dato)
<1> DEFINE x == CpuCon(pc, pid, cpu[c].ctx, inst, dato)
           r == cpu[c].ctx.reg
           t == cpu[c].ctx.tabla
<1>1. ConReg(x, v) = [x EXCEPT !.ctx = [x.ctx EXCEPT !.reg = v]]
  BY DEF ConReg
<1>2. x.ctx = [reg |-> r, tabla |-> t]
  BY CpuForma DEF CpuCon, CtxCon
<1>3. [x.ctx EXCEPT !.reg = v] = [reg |-> v, tabla |-> t]
  <2> HIDE DEF x, r, t
  <2> QED BY <1>2
<1>4. [x EXCEPT !.ctx = [reg |-> v, tabla |-> t]] = CpuCon(pc, pid, [reg |-> v, tabla |-> t], inst, dato)
  BY DEF CpuCon
<1> QED BY <1>1, <1>3, <1>4 DEF CtxCon

LEMMA SigueForma ==
  ASSUME TiposCpu, NEW c \in cpus, NEW paso, NEW registros, Sigue(c, paso, registros)
  PROVE  Cambia(c, CpuCon(paso, cpu[c].pid, CtxCon(c, registros), cpu[c].inst, cpu[c].dato))
<1>1. Cambia(c, ConReg(ConPc(cpu[c], paso), registros))
  BY CpuForma DEF Cambia, Sigue, ConPc, ConReg
<1>2. ConPc(cpu[c], paso) = CpuCon(paso, cpu[c].pid, cpu[c].ctx, cpu[c].inst, cpu[c].dato)
  BY CpuForma, CampoFacts
<1>3. ConReg(ConPc(cpu[c], paso), registros)
        = CpuCon(paso, cpu[c].pid, CtxCon(c, registros), cpu[c].inst, cpu[c].dato)
  BY <1>2, RegFacts
<1> QED BY <1>1, <1>3

LEMMA RecibirPidForma ==
  ASSUME TiposCpu, NEW c \in cpus, RecibirPid(c)
  PROVE  Cambia(c, CpuCon("contexto", enviado[c], ContextoVacio, NADA, <<>>))
<1>1. Cambia(c, ConPid(ConPc(Ociosa, "contexto"), enviado[c]))
  BY DEF RecibirPid, Cambia, ConPc, ConPid
<1>2. Ociosa = CpuCon("espera", NADA, ContextoVacio, NADA, <<>>)
  BY DEF CpuCon, Ociosa
<1>3. ConPc(Ociosa, "contexto") = CpuCon("contexto", NADA, ContextoVacio, NADA, <<>>)
  BY <1>2, CampoFacts
<1>4. ConPid(ConPc(Ociosa, "contexto"), enviado[c]) = CpuCon("contexto", enviado[c], ContextoVacio, NADA, <<>>)
  BY <1>3, CampoFacts
<1> QED BY <1>1, <1>4

LEMMA PedirContextoForma ==
  ASSUME TiposCpu, NEW c \in cpus, PedirContexto(c)
  PROVE  Cambia(c, CpuCon("fetch", cpu[c].pid, contexto[cpu[c].pid], cpu[c].inst, cpu[c].dato))
<1>1. Cambia(c, ConCtx(ConPc(cpu[c], "fetch"), contexto[cpu[c].pid]))
  BY CpuForma DEF Cambia, PedirContexto, ConPc, ConCtx
<1>2. ConPc(cpu[c], "fetch") = CpuCon("fetch", cpu[c].pid, cpu[c].ctx, cpu[c].inst, cpu[c].dato)
  BY CpuForma, CampoFacts
<1>3. ConCtx(ConPc(cpu[c], "fetch"), contexto[cpu[c].pid])
        = CpuCon("fetch", cpu[c].pid, contexto[cpu[c].pid], cpu[c].inst, cpu[c].dato)
  BY <1>2, CampoFacts
<1> QED BY <1>1, <1>3

LEMMA FetchForma ==
  ASSUME TiposCpu, NEW c \in cpus, Fetch(c)
  PROVE  Cambia(c, CpuCon("execute", cpu[c].pid, cpu[c].ctx,
                          programa[cpu[c].pid][Registro(c, "PC") + 1], cpu[c].dato))
<1> DEFINE n == programa[cpu[c].pid][Registro(c, "PC") + 1]
<1> HIDE DEF n
<1>1. Cambia(c, ConInst(ConPc(cpu[c], "execute"), n))
  BY CpuForma DEF Cambia, Fetch, ConPc, ConInst, n
<1>2. ConPc(cpu[c], "execute") = CpuCon("execute", cpu[c].pid, cpu[c].ctx, cpu[c].inst, cpu[c].dato)
  BY CpuForma, CampoFacts
<1>3. ConInst(ConPc(cpu[c], "execute"), n) = CpuCon("execute", cpu[c].pid, cpu[c].ctx, n, cpu[c].dato)
  BY <1>2, CampoFacts
<1> QED BY <1>1, <1>3 DEF n

LEMMA PasoForma ==
  ASSUME TiposCpu, NEW c \in cpus, NEW paso, cpu' = [cpu EXCEPT ![c].pc = paso]
  PROVE  Cambia(c, CpuCon(paso, cpu[c].pid, cpu[c].ctx, cpu[c].inst, cpu[c].dato))
<1>1. Cambia(c, ConPc(cpu[c], paso))
  BY CpuForma DEF Cambia, ConPc
<1>2. ConPc(cpu[c], paso) = CpuCon(paso, cpu[c].pid, cpu[c].ctx, cpu[c].inst, cpu[c].dato)
  BY CpuForma, CampoFacts
<1> QED BY <1>1, <1>2

LEMMA CopyMemLeerForma ==
  ASSUME TiposCpu, NEW c \in cpus, CopyMemLeer(c)
  PROVE  Cambia(c, CpuCon("copiar", cpu[c].pid, cpu[c].ctx, cpu[c].inst, Leido(c)))
<1>1. Cambia(c, ConDato(ConPc(cpu[c], "copiar"), Leido(c)))
  BY CpuForma DEF Cambia, CopyMemLeer, ConPc, ConDato
<1>2. ConPc(cpu[c], "copiar") = CpuCon("copiar", cpu[c].pid, cpu[c].ctx, cpu[c].inst, cpu[c].dato)
  BY CpuForma, CampoFacts
<1>3. ConDato(ConPc(cpu[c], "copiar"), Leido(c))
        = CpuCon("copiar", cpu[c].pid, cpu[c].ctx, cpu[c].inst, Leido(c))
  BY <1>2, CampoFacts
<1> QED BY <1>1, <1>3

CpuAvanzada(c, paso, inst, dato) ==
  CpuCon(paso, cpu[c].pid, CtxCon(c, Avanzar(cpu[c].ctx.reg)), inst, dato)

LEMMA CopyMemEscribirForma ==
  ASSUME TiposCpu, NEW c \in cpus, CopyMemEscribir(c)
  PROVE  Cambia(c, CpuAvanzada(c, "tick", cpu[c].inst, <<>>))
<1> DEFINE n == Avanzar(cpu[c].ctx.reg)
<1> HIDE DEF n
<1>1. Cambia(c, ConReg(ConDato(ConPc(cpu[c], "tick"), <<>>), n))
  BY CpuForma DEF Cambia, CopyMemEscribir, ConPc, ConDato, ConReg, n
<1>2. ConPc(cpu[c], "tick") = CpuCon("tick", cpu[c].pid, cpu[c].ctx, cpu[c].inst, cpu[c].dato)
  BY CpuForma, CampoFacts
<1>3. ConDato(ConPc(cpu[c], "tick"), <<>>) = CpuCon("tick", cpu[c].pid, cpu[c].ctx, cpu[c].inst, <<>>)
  BY <1>2, CampoFacts
<1>4. ConReg(ConDato(ConPc(cpu[c], "tick"), <<>>), n) = CpuAvanzada(c, "tick", cpu[c].inst, <<>>)
  BY <1>3, RegFacts DEF CpuAvanzada, n
<1> QED BY <1>1, <1>4

LEMMA SegFaultForma ==
  ASSUME TiposCpu, NEW c \in cpus, SegFault(c)
  PROVE  Cambia(c, CpuAvanzada(c, "syscall", <<"EXIT">>, cpu[c].dato))
<1> DEFINE n == Avanzar(cpu[c].ctx.reg)
<1> HIDE DEF n
<1>1. Cambia(c, ConReg(ConInst(ConPc(cpu[c], "syscall"), <<"EXIT">>), n))
  BY CpuForma DEF Cambia, SegFault, ConPc, ConInst, ConReg, n
<1>2. ConPc(cpu[c], "syscall") = CpuCon("syscall", cpu[c].pid, cpu[c].ctx, cpu[c].inst, cpu[c].dato)
  BY CpuForma, CampoFacts
<1>3. ConInst(ConPc(cpu[c], "syscall"), <<"EXIT">>)
        = CpuCon("syscall", cpu[c].pid, cpu[c].ctx, <<"EXIT">>, cpu[c].dato)
  BY <1>2, CampoFacts
<1>4. ConReg(ConInst(ConPc(cpu[c], "syscall"), <<"EXIT">>), n)
        = CpuAvanzada(c, "syscall", <<"EXIT">>, cpu[c].dato)
  BY <1>3, RegFacts DEF CpuAvanzada, n
<1> QED BY <1>1, <1>4

LEMMA SyscallForma ==
  ASSUME TiposCpu, NEW c \in cpus, Syscall(c)
  PROVE  \E dato : Cambia(c, CpuAvanzada(c, "syscall", cpu[c].inst, dato))
<1> DEFINE n == Avanzar(cpu[c].ctx.reg)
           dato == IF Con(c, ConDireccion)
                   THEN LET t == Registro(c, cpu[c].inst[3])
                        IN  <<Fisica(c, <<Registro(c, cpu[c].inst[2]), t>>), t>>
                   ELSE <<>>
<1> HIDE DEF n, dato
<1>1. Cambia(c, ConDato(ConReg(ConPc(cpu[c], "syscall"), n), dato))
  BY CpuForma DEF Cambia, Syscall, ConPc, ConDato, ConReg, n, dato
<1>2. ConPc(cpu[c], "syscall") = CpuCon("syscall", cpu[c].pid, cpu[c].ctx, cpu[c].inst, cpu[c].dato)
  BY CpuForma, CampoFacts
<1>3. ConReg(ConPc(cpu[c], "syscall"), n)
        = CpuCon("syscall", cpu[c].pid, CtxCon(c, n), cpu[c].inst, cpu[c].dato)
  BY <1>2, RegFacts
<1>4. ConDato(ConReg(ConPc(cpu[c], "syscall"), n), dato) = CpuAvanzada(c, "syscall", cpu[c].inst, dato)
  BY <1>3, CampoFacts DEF CpuAvanzada, n
<1> QED BY <1>1, <1>4

(***************************************************************************)
(* Every action keeps the types                                             *)
(***************************************************************************)
LEMMA CpuConTipo ==
  ASSUME NEW pc \in Pasos, NEW pid, NEW ctx \in TipoContexto, NEW inst, NEW dato,
         pc # "espera" => pid \in Procesos,
         pc \in {"execute", "syscall"} => EsInstruccion(inst),
         pc = "copiar" => \A i \in DOMAIN dato : dato[i] \in Bytes
  PROVE  TipoCpu(CpuCon(pc, pid, ctx, inst, dato))
BY DEF TipoCpu, CpuCon

LEMMA CtxConTipo ==
  ASSUME TiposCpu, NEW c \in cpus, NEW registros \in TipoRegistros
  PROVE  CtxCon(c, registros) \in TipoContexto
BY CpuForma DEF CtxCon, TipoContexto

LEMMA EscribirTipo ==
  ASSUME memoria \in [0 .. TamMemoria - 1 -> Bytes], NEW dir, NEW bytes,
         \A i \in DOMAIN bytes : bytes[i] \in Bytes, Escribir(dir, bytes)
  PROVE  memoria' \in [0 .. TamMemoria - 1 -> Bytes]
BY DEF Escribir

LEMMA TraducirTipo ==
  ASSUME NEW tabla \in Seq(TipoSegmento), NEW dir \in Nat, NEW t
  PROVE  Traducir(tabla, dir, t) \in Int
<1> DEFINE I == {j \in 1 .. Len(tabla) : tabla[j].id = dir \div SEGMENT_MAX_SIZE}
           i == SelectInSeq(tabla, LAMBDA s : s.id = dir \div SEGMENT_MAX_SIZE)
           d == dir % SEGMENT_MAX_SIZE
<1>1. i = IF I # {} THEN Min(I) ELSE 0
  BY DEF SelectInSeq
<1>2. i # 0 => i \in 1 .. Len(tabla)
  <2>1. I \subseteq Nat
    BY LenProperties
  <2>2. I # {} => Min(I) \in I
    <3> HIDE DEF I
    <3> QED BY <2>1, MinProperties
  <2> QED BY <1>1, <2>2
<1>3. Palabra \in Nat
  BY ByteAssumption, ValoresFacts DEF Palabra
<1>4. SEGMENT_MAX_SIZE \in Nat \ {0}
  BY <1>3, SegmentoAssumption
<1>5. d \in Int
  BY <1>4
<1> HIDE DEF i, d
<1>6. i # 0 => tabla[i].base \in Nat
  <2>1. i # 0 => tabla[i] \in TipoSegmento
    BY <1>2, ElementOfSeq
  <2> QED BY <2>1, LimiteFacts
<1>7. \/ Traducir(tabla, dir, t) = SEG_FAULT
      \/ i # 0 /\ Traducir(tabla, dir, t) = tabla[i].base + d
  BY DEF Traducir, i, d
<1> QED BY <1>5, <1>6, <1>7 DEF SEG_FAULT

LEMMA LeidoTipo ==
  ASSUME TiposKm, TiposCpu, NEW c \in cpus,
         Con(c, {"MOV_IN", "COPY_MEM"}), LecturaAceptada(c)
  PROVE  /\ Lectura(c)[2] \in Nat /\ DOMAIN Leido(c) = 1 .. Lectura(c)[2]
         /\ \A i \in 1 .. Lectura(c)[2] : Leido(c)[i] \in Bytes
<1> DEFINE r == cpu[c].inst[2]
<1>1. r \in Registros
  BY DEF TiposCpu, TipoCpu, EsInstruccion, Con, En
<1>2. \A x \in Registros : Registro(c, x) \in Nat
  BY CpuForma DEF Registro, TipoRegistros
<1>3. "SI" \in Registros
  BY DEF Registros
<1>4. Lectura(c)[1] \in Nat /\ Lectura(c)[2] \in Nat
  BY <1>1, <1>2, <1>3, AnchoFacts DEF Lectura
<1>5. Fisica(c, Lectura(c)) \in Int
  <2> DEFINE a == Lectura(c)
             t == cpu[c].ctx.tabla
  <2>1. a[1] \in Nat /\ t \in Seq(TipoSegmento)
    BY <1>4, CpuForma
  <2> HIDE DEF a, t
  <2>2. Traducir(t, a[1], a[2]) \in Int
    BY <2>1, TraducirTipo
  <2> QED BY <2>2 DEF Fisica, a, t
<1> DEFINE n == Lectura(c)[2]
           f == Fisica(c, Lectura(c))
<1>6. Leido(c) = [i \in 1 .. n |-> memoria[f + i - 1]]
  BY DEF Leido, Leer
<1>7. \A i \in 0 .. n - 1 : f + i \in DOMAIN memoria
  BY DEF LecturaAceptada
<1>8. n \in Nat /\ f \in Int
  BY <1>4, <1>5
<1> HIDE DEF n, f
<1>9. ASSUME NEW i \in 1 .. n PROVE memoria[f + i - 1] \in Bytes
  <2>1. i - 1 \in 0 .. n - 1 /\ f + (i - 1) = f + i - 1
    BY <1>8
  <2>2. f + i - 1 \in DOMAIN memoria
    BY <1>7, <2>1
  <2> QED BY <2>2 DEF TiposKm
<1>10. DOMAIN Leido(c) = 1 .. n /\ \A i \in 1 .. n : Leido(c)[i] \in Bytes
  BY <1>6, <1>9
<1> QED BY <1>8, <1>10 DEF n

LEMMA FetchTipo ==
  ASSUME ConfiguracionElegida, TiposCpu, NEW c \in cpus, Fetch(c)
  PROVE  EsInstruccion(programa[cpu[c].pid][Registro(c, "PC") + 1])
<1> DEFINE p == cpu[c].pid
           i == Registro(c, "PC") + 1
<1>1. p \in Procesos
  BY DEF Fetch, En, TiposCpu, TipoCpu
<1>2. Registro(c, "PC") \in Nat
  BY CpuForma DEF Registro, TipoRegistros, Registros
<1>3. Registro(c, "PC") < Len(programa[p])
  BY DEF Fetch, HayInstruccion, Registro
<1>4. PICK k \in Configuraciones : programa = k.programa
  BY DEF ConfiguracionElegida
<1> DEFINE I == {programa[p][j] : j \in DOMAIN programa[p]}
<1>5. programa[p] \in Seq(I) /\ \A inst \in I : EsInstruccion(inst)
  BY <1>1, <1>4, ConfiguracionesAssumption
<1>6. Len(programa[p]) \in Nat /\ DOMAIN programa[p] = 1 .. Len(programa[p])
  <2> HIDE DEF I
  <2> QED BY <1>5, LenProperties
<1>7. i \in DOMAIN programa[p]
  BY <1>2, <1>3, <1>6
<1> QED BY <1>5, <1>7

LEMMA PlanificadorQueda ==
  ASSUME TiposPlanificador, UNCHANGED planificador, UNCHANGED configuracion
  PROVE  TiposPlanificador'
BY DEF TiposPlanificador, planificador, configuracion, TipoLlamada

LEMMA ConfiguracionQueda ==
  ASSUME ConfiguracionElegida, UNCHANGED configuracion
  PROVE  ConfiguracionElegida' /\ UNCHANGED cpus
BY DEF ConfiguracionElegida, configuracion

LEMMA KmQueda ==
  ASSUME TiposKm, UNCHANGED km PROVE TiposKm'
BY DEF TiposKm, km

(* The steps of the cycle.                                                  *)
LEMMA CpuTipos ==
  ASSUME Tipos, NEW c \in cpus, Cpu(c)
  PROVE  Tipos'
<1>1. TipoCpu(cpu[c]) /\ cpu[c].ctx \in TipoContexto
  BY DEF Tipos, TiposCpu, TipoCpu
<1>2. DOMAIN llamada = cpus /\ DOMAIN enviado = cpus
  BY DEF Tipos, TiposPlanificador
<1> USE DEF Tipos
<1>3. CASE RecibirPid(c)
  <2>1. enviado[c] \in Procesos
    BY <1>3 DEF RecibirPid, TiposPlanificador
  <2>2. TipoCpu(CpuCon("contexto", enviado[c], ContextoVacio, NADA, <<>>))
    BY <2>1, OciosaTipo, CpuConTipo DEF Pasos
  <2>3. UNCHANGED <<configuracion, km, llamada, listos, libres, io>> /\ enviado' = [enviado EXCEPT ![c] = NADA]
    BY <1>3 DEF RecibirPid
  <2>4. ConfiguracionElegida' /\ UNCHANGED cpus /\ TiposKm'
    BY <2>3, ConfiguracionQueda, KmQueda
  <2>5. TiposCpu'
    BY <1>3, <2>2, <2>4, RecibirPidForma, CambiaTipo
  <2>6. TiposPlanificador'
    BY <2>3, <2>4 DEF TiposPlanificador, TipoLlamada
  <2> QED BY <2>4, <2>5, <2>6
<1>4. CASE PedirContexto(c)
  <2>1. cpu[c].pid \in Procesos
    BY <1>1, <1>4 DEF PedirContexto, En, TipoCpu
  <2>2. contexto[cpu[c].pid] \in TipoContexto
    BY <2>1 DEF TiposKm
  <2>3. TipoCpu(CpuCon("fetch", cpu[c].pid, contexto[cpu[c].pid], cpu[c].inst, cpu[c].dato))
    BY <2>1, <2>2, CpuConTipo DEF Pasos
  <2>4. UNCHANGED <<configuracion, km, planificador>>
    BY <1>4 DEF PedirContexto
  <2> QED BY <1>4, <2>3, <2>4, PedirContextoForma, CambiaTipo, ConfiguracionQueda, KmQueda, PlanificadorQueda
<1>5. CASE Fetch(c)
  <2> DEFINE n == programa[cpu[c].pid][Registro(c, "PC") + 1]
  <2>1. cpu[c].pid \in Procesos
    BY <1>1, <1>5 DEF Fetch, En, TipoCpu
  <2>2. EsInstruccion(n)
    BY <1>5, FetchTipo
  <2>3. Cambia(c, CpuCon("execute", cpu[c].pid, cpu[c].ctx, n, cpu[c].dato))
    BY <1>5, FetchForma
  <2>4. UNCHANGED <<configuracion, km, planificador>>
    BY <1>5 DEF Fetch
  <2> HIDE DEF n
  <2>5. TipoCpu(CpuCon("execute", cpu[c].pid, cpu[c].ctx, n, cpu[c].dato))
    BY <1>1, <2>1, <2>2, CpuConTipo DEF Pasos
  <2> QED BY <2>3, <2>4, <2>5, CambiaTipo, ConfiguracionQueda, KmQueda, PlanificadorQueda
<1>6. CASE FetchFalla(c)
  <2>1. cpu[c].pid \in Procesos
    BY <1>1, <1>6 DEF FetchFalla, En, TipoCpu
  <2>2. TipoCpu(CpuCon("perdida", cpu[c].pid, cpu[c].ctx, cpu[c].inst, cpu[c].dato))
    BY <1>1, <2>1, CpuConTipo DEF Pasos
  <2>3. cpu' = [cpu EXCEPT ![c].pc = "perdida"] /\ UNCHANGED <<configuracion, km, planificador>>
    BY <1>6 DEF FetchFalla
  <2>4. Cambia(c, CpuCon("perdida", cpu[c].pid, cpu[c].ctx, cpu[c].inst, cpu[c].dato))
    BY <2>3, PasoForma
  <2> QED BY <2>2, <2>3, <2>4, CambiaTipo, ConfiguracionQueda, KmQueda, PlanificadorQueda
<1>7. ASSUME NEW registros \in TipoRegistros, Sigue(c, "tick", registros), En(c, "execute")
      PROVE  UNCHANGED cpus => TiposCpu'
  <2>1. cpu[c].pid \in Procesos /\ EsInstruccion(cpu[c].inst)
    BY <1>1, <1>7 DEF En, TipoCpu
  <2>2. TipoCpu(CpuCon("tick", cpu[c].pid, CtxCon(c, registros), cpu[c].inst, cpu[c].dato))
    BY <1>7, <2>1, CtxConTipo, CpuConTipo DEF Pasos
  <2> QED BY <1>7, <2>2, SigueForma, CambiaTipo
<1>8. CASE ExecuteRegistros(c)
  <2>1. EsInstruccion(cpu[c].inst) /\ cpu[c].inst[1] \in DeRegistros
    BY <1>1, <1>8 DEF ExecuteRegistros, Con, En, TipoCpu
  <2>2. Efecto(cpu[c].ctx.reg, cpu[c].inst) \in TipoRegistros
    BY <2>1, CpuForma, EfectoTipo
  <2>3. /\ Sigue(c, "tick", Efecto(cpu[c].ctx.reg, cpu[c].inst)) /\ En(c, "execute")
        /\ UNCHANGED <<configuracion, km, planificador>>
    BY <1>8 DEF ExecuteRegistros, Con
  <2> QED BY <1>7, <2>2, <2>3, ConfiguracionQueda, KmQueda, PlanificadorQueda
<1>9. CASE MovIn(c)
  <2> DEFINE v == ValorDe(Leido(c))
  <2>1. v \in Int
    <3>1. Con(c, {"MOV_IN", "COPY_MEM"}) /\ LecturaAceptada(c)
      BY <1>9 DEF MovIn, Con
    <3> QED BY <3>1, LeidoTipo, ValorDeTipo
  <2> HIDE DEF v
  <2> DEFINE n == Avanzar(EscribirRegistro(cpu[c].ctx.reg, cpu[c].inst[2], v))
  <2>2. n \in TipoRegistros
    <3>1. EscribirRegistro(cpu[c].ctx.reg, cpu[c].inst[2], v) \in TipoRegistros
      BY <2>1, CpuForma, EscribirRegistroTipo
    <3> QED BY <3>1, AvanzarTipo
  <2>3. Sigue(c, "tick", n) /\ En(c, "execute") /\ UNCHANGED <<configuracion, km, planificador>>
    BY <1>9 DEF MovIn, Con, v
  <2> HIDE DEF n
  <2> QED BY <1>7, <2>2, <2>3, ConfiguracionQueda, KmQueda, PlanificadorQueda
<1>10. CASE MovOut(c)
  <2> DEFINE bytes == BytesDe(cpu[c].ctx.reg, cpu[c].inst[2])
             dir == Fisica(c, <<Registro(c, "DI"), Len(bytes)>>)
  <2>1. EsInstruccion(cpu[c].inst) /\ cpu[c].inst[1] = "MOV_OUT"
    BY <1>1, <1>10 DEF MovOut, Con, En, TipoCpu
  <2>2. \A i \in DOMAIN bytes : bytes[i] \in Bytes
    <3>1. cpu[c].inst[2] \in Registros
      BY <2>1 DEF EsInstruccion
    <3> QED BY <3>1, CpuForma, BytesDeTipo
  <2>3. Avanzar(cpu[c].ctx.reg) \in TipoRegistros
    BY CpuForma, AvanzarTipo
  <2>4. /\ Escribir(dir, bytes) /\ Sigue(c, "tick", Avanzar(cpu[c].ctx.reg)) /\ En(c, "execute")
        /\ UNCHANGED <<configuracion, contexto, vivos, planificador>>
    BY <1>10 DEF MovOut, Con
  <2> HIDE DEF bytes, dir
  <2>5. TiposKm'
    BY <2>2, <2>4, EscribirTipo DEF TiposKm
  <2> QED BY <1>7, <2>3, <2>4, <2>5, ConfiguracionQueda, PlanificadorQueda
<1>11. CASE CopyMemLeer(c)
  <2>1. cpu[c].pid \in Procesos
    BY <1>1, <1>11 DEF CopyMemLeer, Con, En, TipoCpu
  <2>2. \A i \in DOMAIN Leido(c) : Leido(c)[i] \in Bytes
    <3>1. Con(c, {"MOV_IN", "COPY_MEM"}) /\ LecturaAceptada(c)
      BY <1>11 DEF CopyMemLeer, Con
    <3> QED BY <3>1, LeidoTipo
  <2>3. TipoCpu(CpuCon("copiar", cpu[c].pid, cpu[c].ctx, cpu[c].inst, Leido(c)))
    BY <1>1, <2>1, <2>2, CpuConTipo DEF Pasos
  <2>4. UNCHANGED <<configuracion, km, planificador>>
    BY <1>11 DEF CopyMemLeer
  <2> QED BY <1>11, <2>3, <2>4, CopyMemLeerForma, CambiaTipo, ConfiguracionQueda, KmQueda, PlanificadorQueda
<1>12. ASSUME NEW paso \in {"tick", "syscall"}, NEW inst, NEW dato, EsInstruccion(inst) \/ paso = "tick",
              cpu[c].pc # "espera", UNCHANGED cpus, Cambia(c, CpuAvanzada(c, paso, inst, dato))
       PROVE  TiposCpu'
  <2> DEFINE n == Avanzar(cpu[c].ctx.reg)
  <2>1. n \in TipoRegistros
    BY CpuForma, AvanzarTipo
  <2>2. cpu[c].pid \in Procesos
    BY <1>1, <1>12 DEF TipoCpu
  <2> HIDE DEF n
  <2>3. TipoCpu(CpuCon(paso, cpu[c].pid, CtxCon(c, n), inst, dato))
    BY <1>12, <2>1, <2>2, CtxConTipo, CpuConTipo DEF Pasos
  <2>4. TipoCpu(CpuAvanzada(c, paso, inst, dato))
    BY <2>3 DEF CpuAvanzada, n
  <2> QED BY <1>12, <2>4, CambiaTipo
<1>13. CASE CopyMemEscribir(c)
  <2> DEFINE bytes == cpu[c].dato
             dir == Fisica(c, <<Registro(c, "DI"), Len(bytes)>>)
  <2>1. cpu[c].pc = "copiar" /\ \A i \in DOMAIN bytes : bytes[i] \in Bytes
    BY <1>1, <1>13 DEF CopyMemEscribir, En, TipoCpu
  <2>2. Escribir(dir, bytes) /\ UNCHANGED <<configuracion, contexto, vivos, planificador>>
    BY <1>13 DEF CopyMemEscribir
  <2>3. Cambia(c, CpuAvanzada(c, "tick", cpu[c].inst, <<>>))
    BY <1>13, CopyMemEscribirForma
  <2>4. TiposKm'
    <3> HIDE DEF dir, bytes
    <3> QED BY <2>1, <2>2, EscribirTipo DEF TiposKm
  <2> QED BY <1>12, <2>1, <2>2, <2>3, <2>4, ConfiguracionQueda, PlanificadorQueda
<1>14. CASE SegFault(c)
  <2>1. EsInstruccion(<<"EXIT">>)
    BY DEF EsInstruccion
  <2>2. cpu[c].pc = "execute" /\ UNCHANGED <<configuracion, km, planificador>>
    BY <1>14 DEF SegFault, Con, En
  <2>3. Cambia(c, CpuAvanzada(c, "syscall", <<"EXIT">>, cpu[c].dato))
    BY <1>14, SegFaultForma
  <2> QED BY <1>12, <2>1, <2>2, <2>3, ConfiguracionQueda, KmQueda, PlanificadorQueda
<1>15. CASE Syscall(c)
  <2>1. EsInstruccion(cpu[c].inst) /\ cpu[c].pc = "execute"
    BY <1>1, <1>15 DEF Syscall, Con, En, TipoCpu
  <2>2. UNCHANGED <<configuracion, km, planificador>>
    BY <1>15 DEF Syscall
  <2>3. PICK dato : Cambia(c, CpuAvanzada(c, "syscall", cpu[c].inst, dato))
    BY <1>15, SyscallForma
  <2> QED BY <1>12, <2>1, <2>2, <2>3, ConfiguracionQueda, KmQueda, PlanificadorQueda
<1>16. ASSUME cpu[c].pc # "espera", ActualizarContexto(c), UNCHANGED <<memoria, vivos>>
       PROVE  TiposKm'
  <2>1. contexto' = [contexto EXCEPT ![cpu[c].pid] = cpu[c].ctx]
    BY <1>16 DEF ActualizarContexto
  <2> QED BY <1>1, <1>16, <2>1 DEF TiposKm
<1>17. CASE EnviarSyscall(c)
  <2>1. cpu[c].pid \in Procesos /\ EsInstruccion(cpu[c].inst) /\ cpu[c].pc = "syscall"
    BY <1>1, <1>17 DEF EnviarSyscall, En, TipoCpu
  <2> DEFINE x == [pid |-> cpu[c].pid, inst |-> cpu[c].inst, dato |-> cpu[c].dato]
  <2>2. /\ ActualizarContexto(c) /\ llamada' = [llamada EXCEPT ![c] = x] /\ Cambia(c, Ociosa)
        /\ UNCHANGED <<configuracion, memoria, vivos, enviado, listos, libres, io>>
    BY <1>17 DEF EnviarSyscall, Cambia
  <2>3. TiposKm'
    BY <1>16, <2>1, <2>2
  <2>4. TipoLlamada(x)
    BY <2>1 DEF TipoLlamada
  <2>5. ConfiguracionElegida' /\ UNCHANGED cpus
    BY <2>2, ConfiguracionQueda
  <2> HIDE DEF x
  <2>6. \A d \in cpus : TipoLlamada(llamada'[d])
    BY <1>2, <2>2, <2>4 DEF TiposPlanificador
  <2>7. llamada' = [d \in cpus |-> llamada'[d]]
    BY <1>2, <2>2 DEF TiposPlanificador
  <2>8. TiposPlanificador'
    BY <2>2, <2>5, <2>6, <2>7 DEF TiposPlanificador, TipoLlamada
  <2> QED BY <2>2, <2>3, <2>5, <2>8, OciosaTipo, CambiaTipo
<1>18. CASE Guardar(c)
  <2>1. cpu[c].pc = "guardar"
    BY <1>18 DEF Guardar, En
  <2>2. ActualizarContexto(c) /\ Cambia(c, Ociosa) /\ UNCHANGED <<configuracion, memoria, vivos, planificador>>
    BY <1>18 DEF Guardar, Cambia
  <2>3. TiposKm'
    BY <1>16, <2>1, <2>2
  <2> QED BY <2>2, <2>3, OciosaTipo, CambiaTipo, ConfiguracionQueda, PlanificadorQueda
<1> QED BY <1>3, <1>4, <1>5, <1>6, <1>8, <1>9, <1>10, <1>11, <1>13, <1>14, <1>15, <1>17, <1>18 DEF Cpu

LEMMA CpuQueda ==
  ASSUME TiposCpu, UNCHANGED <<configuracion, cpu>> PROVE TiposCpu'
BY DEF TiposCpu, configuracion, TipoCpu

LEMMA LlamadaFacts ==
  ASSUME TiposPlanificador, NEW c \in cpus, NEW nombre, Pide(c, nombre)
  PROVE  /\ llamada[c].pid \in Procesos /\ EsInstruccion(llamada[c].inst)
         /\ llamada[c].inst[1] = nombre /\ llamada[c] # SinLlamada
BY DEF TiposPlanificador, TipoLlamada, Pide, SinLlamada

(* A call that is over, and what it leaves in the queues.                   *)
LEMMA AtendidaTipo ==
  ASSUME TiposPlanificador, NEW c \in cpus, Atendida(c), UNCHANGED cpus,
         enviado' \in [cpus -> Procesos \cup {NADA}], libres' \subseteq cpus,
         listos' \in Seq(Procesos), io' = [p \in Procesos |-> io'[p]],
         \A p \in Procesos : TipoLlamada(io'[p])
  PROVE  TiposPlanificador'
<1>1. llamada' = [llamada EXCEPT ![c] = SinLlamada]
  BY DEF Atendida
<1>2. TipoLlamada(SinLlamada)
  BY DEF TipoLlamada
<1> HIDE DEF SinLlamada
<1>3. llamada' = [d \in cpus |-> llamada'[d]]
  BY <1>1 DEF TiposPlanificador
<1>4. \A d \in cpus : TipoLlamada(llamada'[d])
  BY <1>1, <1>2 DEF TiposPlanificador
<1> QED BY <1>3, <1>4 DEF TiposPlanificador, TipoLlamada, SinLlamada

LEMMA DevolverTipo ==
  ASSUME Tipos, NEW c \in cpus, Devolver(c), llamada[c].pid \in Procesos
  PROVE  ConfiguracionElegida' /\ TiposCpu' /\ TiposPlanificador'
<1>1. UNCHANGED <<configuracion, cpu, listos, libres, io>> /\ Atendida(c)
      /\ enviado' = [enviado EXCEPT ![c] = llamada[c].pid]
  BY DEF Devolver
<1>2. ConfiguracionElegida' /\ UNCHANGED cpus
  BY <1>1, ConfiguracionQueda DEF Tipos
<1>3. TiposCpu'
  BY <1>1, CpuQueda DEF Tipos
<1>4. enviado' \in [cpus -> Procesos \cup {NADA}]
  BY <1>1 DEF Tipos, TiposPlanificador
<1>5. TiposPlanificador'
  BY <1>1, <1>2, <1>4, AtendidaTipo DEF Tipos, TiposPlanificador
<1> QED BY <1>2, <1>3, <1>5

LEMMA ConSegmentoTipo ==
  ASSUME TiposKm, NEW tablas \in [Procesos -> TipoContexto], NEW c,
         llamada[c].pid \in Procesos, EsInstruccion(llamada[c].inst),
         llamada[c].inst[1] = "MEM_ALLOC", Parametro(c, 2) <= SEGMENT_MAX_SIZE,
         NEW b \in Huecos(tablas, Parametro(c, 2))
  PROVE  ConSegmento(tablas, c, b) \in [Procesos -> TipoContexto]
<1> DEFINE p == llamada[c].pid
           id == Parametro(c, 1)
           t == Parametro(c, 2)
           s == [id |-> id, base |-> b, limite |-> t]
           x == tablas[p]
<1>1. id \in Nat /\ t \in Nat
  BY DEF Parametro, EsInstruccion
<1>2. b \in Nat /\ b .. b + t - 1 \subseteq 0 .. TamMemoria - 1
  <2> HIDE DEF t
  <2> QED BY <1>1, HuecosFacts DEF TiposKm, t
<1>3. Palabra \in Nat
  BY ByteAssumption, ValoresFacts DEF Palabra
<1>4. t \in 0 .. SEGMENT_MAX_SIZE
  BY <1>1, <1>3, SegmentoAssumption
<1> HIDE DEF id, t
<1>5. s \in TipoSegmento
  BY <1>1, <1>2, <1>4 DEF TipoSegmento, Rango
<1> HIDE DEF s
<1>6. x \in TipoContexto
  OBVIOUS
<1>7. x.tabla \in Seq(TipoSegmento)
  BY <1>6 DEF TipoContexto
<1>8. Append(x.tabla, s) \in Seq(TipoSegmento)
  BY <1>5, <1>7, AppendProperties
<1> DEFINE y == Append(x.tabla, s)
<1>9. ConSegmento(tablas, c, b) = [tablas EXCEPT ![p] = [x EXCEPT !.tabla = y]]
  BY DEF ConSegmento, s, id, t
<1> HIDE DEF y
<1>10. [x EXCEPT !.tabla = y] \in TipoContexto
  <2> HIDE DEF x
  <2> QED BY <1>6, <1>8 DEF TipoContexto, y
<1> QED BY <1>9, <1>10

(* The steps of the handlers and of the dispatcher.                         *)
LEMMA ManejadorTipos ==
  ASSUME Tipos, NEW c \in cpus, Manejador(c)
  PROVE  Tipos'
<1> USE DEF Tipos
<1>1. TipoCpu(cpu[c])
  BY DEF TiposCpu
<1>2. /\ contexto \in [Procesos -> TipoContexto] /\ listos \in Seq(Procesos) /\ libres \subseteq cpus
      /\ DOMAIN io = Procesos /\ enviado \in [cpus -> Procesos \cup {NADA}]
      /\ io = [p \in Procesos |-> io[p]] /\ \A p \in Procesos : TipoLlamada(io[p])
  BY DEF TiposKm, TiposPlanificador
<1>3. ASSUME NEW paso \in Pasos \ {"espera", "execute", "syscall", "copiar"}, En(c, "tick"),
             cpu' = [cpu EXCEPT ![c].pc = paso], UNCHANGED cpus
      PROVE  TiposCpu'
  <2>1. cpu[c].pid \in Procesos /\ cpu[c].ctx \in TipoContexto
    BY <1>1, <1>3 DEF En, TipoCpu
  <2>2. TipoCpu(CpuCon(paso, cpu[c].pid, cpu[c].ctx, cpu[c].inst, cpu[c].dato))
    BY <1>3, <2>1, CpuConTipo
  <2> QED BY <1>3, <2>2, PasoForma, CambiaTipo
<1>4. CASE TickSigue(c)
  <2>1. /\ En(c, "tick") /\ cpu' = [cpu EXCEPT ![c].pc = "fetch"]
        /\ UNCHANGED <<configuracion, km, planificador>>
    BY <1>4 DEF TickSigue
  <2> QED BY <1>3, <2>1, ConfiguracionQueda, KmQueda, PlanificadorQueda DEF Pasos
<1>5. CASE TickDesaloja(c)
  <2>1. /\ En(c, "tick") /\ cpu' = [cpu EXCEPT ![c].pc = "guardar"]
        /\ UNCHANGED <<configuracion, km, enviado, llamada, io>> /\ libres' = libres \cup {c}
        /\ listos' = Append(listos, cpu[c].pid) \/ listos' = <<cpu[c].pid>> \o listos
    BY <1>5 DEF TickDesaloja
  <2>2. ConfiguracionElegida' /\ UNCHANGED cpus /\ TiposKm'
    BY <2>1, ConfiguracionQueda, KmQueda
  <2>3. TiposCpu'
    BY <1>3, <2>1, <2>2 DEF Pasos
  <2>4. listos' \in Seq(Procesos)
    <3>1. cpu[c].pid \in Procesos
      BY <1>1, <2>1 DEF En, TipoCpu
    <3>2. Append(listos, cpu[c].pid) \in Seq(Procesos)
      BY <1>2, <3>1, AppendProperties
    <3>3. <<cpu[c].pid>> \o listos \in Seq(Procesos)
      <4> DEFINE u == <<cpu[c].pid>>
      <4>1. u \in Seq(Procesos)
        BY <3>1
      <4> HIDE DEF u
      <4>2. u \o listos \in Seq(Procesos)
        BY <1>2, <4>1, ConcatProperties
      <4> QED BY <4>2 DEF u
    <3> QED BY <2>1, <3>2, <3>3
  <2>5. libres' \subseteq cpus
    BY <1>2, <2>1
  <2>6. TiposPlanificador'
    BY <2>1, <2>2, <2>4, <2>5 DEF TiposPlanificador, TipoLlamada
  <2> QED BY <2>2, <2>3, <2>6
<1>6. CASE MutexCreate(c)
  <2>1. llamada[c].pid \in Procesos /\ Devolver(c) /\ UNCHANGED km
    BY <1>6, LlamadaFacts DEF MutexCreate
  <2> QED BY <2>1, DevolverTipo, KmQueda
<1>7. CASE MemAllocRechazado(c)
  <2>1. llamada[c].pid \in Procesos /\ Devolver(c) /\ UNCHANGED km
    BY <1>7, LlamadaFacts DEF MemAllocRechazado
  <2> QED BY <2>1, DevolverTipo, KmQueda
<1>8. CASE MemAlloc(c)
  <2>1. Pide(c, "MEM_ALLOC") /\ Devolver(c)
    BY <1>8 DEF MemAlloc
  <2>2. PICK b \in Huecos(contexto, Parametro(c, 2)) : contexto' = ConSegmento(contexto, c, b)
    BY <1>8 DEF MemAlloc
  <2>3. Parametro(c, 2) <= SEGMENT_MAX_SIZE /\ UNCHANGED <<memoria, vivos>>
    BY <1>8 DEF MemAlloc
  <2>4. contexto' \in [Procesos -> TipoContexto]
    BY <1>2, <2>1, <2>2, <2>3, LlamadaFacts, ConSegmentoTipo
  <2>5. TiposKm'
    BY <2>3, <2>4 DEF TiposKm
  <2> QED BY <2>1, <2>5, LlamadaFacts, DevolverTipo
<1>9. CASE MemAllocCompactando(c)
  <2>1. Pide(c, "MEM_ALLOC") /\ Devolver(c)
    BY <1>9 DEF MemAllocCompactando
  <2>2. PICK b \in Huecos(Compactados, Parametro(c, 2)) : contexto' = ConSegmento(Compactados, c, b)
    BY <1>9 DEF MemAllocCompactando
  <2>3. Parametro(c, 2) <= SEGMENT_MAX_SIZE /\ memoria' = BytesCompactados /\ UNCHANGED vivos
    BY <1>9 DEF MemAllocCompactando
  <2>4. Compactados \in [Procesos -> TipoContexto]
    BY <1>2, CompactadosTipo
  <2>5. contexto' \in [Procesos -> TipoContexto]
    BY <2>1, <2>2, <2>3, <2>4, LlamadaFacts, ConSegmentoTipo
  <2>6. TiposKm'
    BY <2>3, <2>5, BytesCompactadosTipo DEF TiposKm
  <2> QED BY <2>1, <2>6, LlamadaFacts, DevolverTipo
<1>10. CASE MemFree(c)
  <2> DEFINE p == llamada[c].pid
             tabla == contexto[p].tabla
             nueva == SinSegmento(tabla, Parametro(c, 1))
             x == contexto[p]
  <2>1. /\ Pide(c, "MEM_FREE") /\ Devolver(c) /\ UNCHANGED <<memoria, vivos>>
        /\ contexto' = [contexto EXCEPT ![p] = [x EXCEPT !.tabla = nueva]]
    BY <1>2, <1>10 DEF MemFree
  <2>2. p \in Procesos
    BY <2>1, LlamadaFacts
  <2>3. x \in TipoContexto /\ tabla \in Seq(TipoSegmento)
    BY <1>2, <2>2 DEF TipoContexto
  <2>4. nueva \in Seq(TipoSegmento)
    <3> HIDE DEF tabla
    <3> QED BY <2>3, SinSegmentoTipo
  <2> HIDE DEF nueva
  <2>5. [x EXCEPT !.tabla = nueva] \in TipoContexto
    <3> HIDE DEF x
    <3> QED BY <2>3, <2>4 DEF TipoContexto
  <2>6. TiposKm'
    BY <1>2, <2>1, <2>5 DEF TiposKm
  <2> QED BY <2>1, <2>2, <2>6, DevolverTipo
<1>11. CASE InitProc(c)
  <2> DEFINE p == llamada[c].pid
             q == Parametro(c, 1)
  <2>1. Pide(c, "INIT_PROC") /\ Atendida(c) /\ UNCHANGED <<configuracion, memoria, cpu, enviado, io>>
    BY <1>11 DEF InitProc
  <2>2. p \in Procesos /\ q \in Procesos
    BY <2>1, LlamadaFacts DEF Parametro, EsInstruccion
  <2>3. /\ vivos' = vivos \cup {q} /\ contexto' = [contexto EXCEPT ![q] = ContextoVacio]
        /\ listos' = listos \o <<q, p>> /\ libres' = libres \cup {c}
    BY <1>11 DEF InitProc
  <2>4. TiposKm'
    BY <1>2, <2>1, <2>2, <2>3, OciosaTipo DEF TiposKm
  <2>5. listos' \in Seq(Procesos)
    <3>1. <<q, p>> \in Seq(Procesos)
      BY <2>2
    <3> QED BY <1>2, <2>3, <3>1, ConcatProperties
  <2>6. ConfiguracionElegida' /\ UNCHANGED cpus /\ TiposCpu'
    BY <2>1, ConfiguracionQueda, CpuQueda
  <2>7. TiposPlanificador'
    BY <1>2, <2>1, <2>3, <2>5, <2>6, AtendidaTipo
  <2> QED BY <2>4, <2>6, <2>7
<1>12. CASE SyscallIO(c)
  <2>1. /\ llamada[c].pid \in Procesos /\ TipoLlamada(llamada[c])
        /\ Atendida(c) /\ io' = [io EXCEPT ![llamada[c].pid] = llamada[c]] /\ libres' = libres \cup {c}
        /\ UNCHANGED <<configuracion, km, cpu, enviado, listos>>
    BY <1>12, LlamadaFacts DEF SyscallIO, TiposPlanificador
  <2>2. ConfiguracionElegida' /\ UNCHANGED cpus /\ TiposCpu' /\ TiposKm'
    BY <2>1, ConfiguracionQueda, CpuQueda, KmQueda
  <2>3. io' = [p \in Procesos |-> io'[p]] /\ \A p \in Procesos : TipoLlamada(io'[p])
    BY <1>2, <2>1
  <2>4. TiposPlanificador'
    BY <1>2, <2>1, <2>2, <2>3, AtendidaTipo
  <2> QED BY <2>2, <2>4
<1>13. CASE Exit(c)
  <2>1. /\ llamada[c].pid \in Procesos /\ Atendida(c) /\ vivos' = vivos \ {llamada[c].pid}
        /\ contexto' = [contexto EXCEPT ![llamada[c].pid] = ContextoVacio] /\ libres' = libres \cup {c}
        /\ UNCHANGED <<configuracion, memoria, cpu, enviado, listos, io>>
    BY <1>13, LlamadaFacts DEF Exit
  <2>2. ConfiguracionElegida' /\ UNCHANGED cpus /\ TiposCpu'
    BY <2>1, ConfiguracionQueda, CpuQueda
  <2>3. TiposKm'
    BY <1>2, <2>1, OciosaTipo DEF TiposKm
  <2>4. TiposPlanificador'
    BY <1>2, <2>1, <2>2, AtendidaTipo
  <2> QED BY <2>2, <2>3, <2>4
<1>14. CASE PedirCompactacion(c)
  <2>1. UNCHANGED <<configuracion, km, cpu, planificador>>
    BY <1>14, Zenon DEF PedirCompactacion
  <2> QED BY <2>1, ConfiguracionQueda, KmQueda, CpuQueda, PlanificadorQueda
<1> QED BY <1>4, <1>5, <1>6, <1>7, <1>8, <1>9, <1>10, <1>11, <1>12, <1>13, <1>14 DEF Manejador

LEMMA DespacharTipos ==
  ASSUME Tipos, NEW c \in cpus, Despachar(c)
  PROVE  Tipos'
<1>1. /\ listos # <<>> /\ enviado' = [enviado EXCEPT ![c] = Head(listos)]
      /\ listos' = Tail(listos) /\ libres' = libres \ {c}
      /\ UNCHANGED <<configuracion, km, cpu, llamada, io>>
  BY DEF Despachar
<1>2. ConfiguracionElegida' /\ UNCHANGED cpus /\ TiposCpu' /\ TiposKm'
  BY <1>1, ConfiguracionQueda, CpuQueda, KmQueda DEF Tipos
<1>3. Head(listos) \in Procesos /\ Tail(listos) \in Seq(Procesos)
  BY <1>1, HeadTailProperties DEF Tipos, TiposPlanificador
<1>4. TiposPlanificador'
  BY <1>1, <1>2, <1>3 DEF Tipos, TiposPlanificador, TipoLlamada
<1> QED BY <1>2, <1>4 DEF Tipos

LEMMA TerminarIOTipos ==
  ASSUME Tipos, NEW p \in Procesos, TerminarIO(p)
  PROVE  Tipos'
<1>1. /\ io' = [io EXCEPT ![p] = SinLlamada] /\ listos' = Append(listos, p)
      /\ UNCHANGED <<configuracion, contexto, vivos, cpu, enviado, llamada, libres>>
  BY DEF TerminarIO
<1>2. memoria' \in [0 .. TamMemoria - 1 -> Bytes]
  <2>1. CASE io[p].inst[1] = "STDIN"
    <3>1. PICK leido \in [1 .. io[p].dato[2] -> {0, Byte - 1}] : Escribir(io[p].dato[1], leido)
      BY <2>1 DEF TerminarIO
    <3>2. \A i \in DOMAIN leido : leido[i] \in Bytes
      BY ByteAssumption DEF Bytes
    <3> QED BY <3>1, <3>2, EscribirTipo DEF Tipos, TiposKm
  <2>2. CASE io[p].inst[1] # "STDIN"
    BY <2>2 DEF TerminarIO, Tipos, TiposKm
  <2> QED BY <2>1, <2>2
<1>3. ConfiguracionElegida' /\ UNCHANGED cpus /\ TiposCpu'
  BY <1>1, ConfiguracionQueda, CpuQueda DEF Tipos
<1>4. TiposKm'
  BY <1>1, <1>2 DEF Tipos, TiposKm
<1>5. listos' \in Seq(Procesos)
  BY <1>1, AppendProperties DEF Tipos, TiposPlanificador
<1>6. TipoLlamada(SinLlamada)
  BY DEF TipoLlamada
<1>7. io' = [q \in Procesos |-> io'[q]] /\ \A q \in Procesos : TipoLlamada(io'[q])
  <2> HIDE DEF SinLlamada
  <2> QED BY <1>1, <1>6 DEF Tipos, TiposPlanificador
<1>8. TiposPlanificador'
  BY <1>1, <1>3, <1>5, <1>7 DEF Tipos, TiposPlanificador, TipoLlamada
<1> QED BY <1>3, <1>4, <1>8 DEF Tipos

LEMMA TiposInvariante == Spec => []Tipos
<1>1. Init => Tipos
  <2> SUFFICES ASSUME Init PROVE Tipos
    OBVIOUS
  <2>1. /\ contexto = [p \in Procesos |-> ContextoVacio]
        /\ memoria = [a \in 0 .. TamMemoria - 1 |-> Byte - 1] /\ vivos = {Inicial}
        /\ cpu = [c \in cpus |-> Ociosa] /\ enviado = [c \in cpus |-> NADA]
        /\ llamada = [c \in cpus |-> SinLlamada] /\ listos = <<Inicial>> /\ libres = cpus
        /\ io = [p \in Procesos |-> SinLlamada]
    BY DEF Init
  <2>2. ConfiguracionElegida
    BY DEF Init, ConfiguracionElegida
  <2>3. Inicial \in Procesos /\ Byte - 1 \in Bytes
    BY NadaAssumption, ByteAssumption DEF Bytes
  <2>4. TiposKm
    BY <2>1, <2>3, OciosaTipo DEF TiposKm
  <2>5. TiposCpu
    BY <2>1, OciosaTipo DEF TiposCpu
  <2>6. TiposPlanificador
    <3>1. listos \in Seq(Procesos)
      BY <2>1, <2>3
    <3>2. TipoLlamada(SinLlamada)
      BY DEF TipoLlamada
    <3> HIDE DEF SinLlamada
    <3> QED BY <2>1, <3>1, <3>2 DEF TiposPlanificador
  <2> QED BY <2>2, <2>4, <2>5, <2>6 DEF Tipos
<1>2. Tipos /\ [Next]_vars => Tipos'
  <2> SUFFICES ASSUME Tipos, [Next]_vars PROVE Tipos'
    OBVIOUS
  <2>1. CASE UNCHANGED vars
    <3>1. UNCHANGED <<configuracion, km, cpu, planificador>>
      BY <2>1 DEF vars
    <3> QED BY <3>1, ConfiguracionQueda, KmQueda, CpuQueda, PlanificadorQueda DEF Tipos
  <2>2. CASE Next
    BY <2>1, <2>2, CpuTipos, ManejadorTipos, DespacharTipos, TerminarIOTipos DEF Next, Reposo
  <2> QED BY <2>1, <2>2
<1> QED BY <1>1, <1>2, PTL DEF Spec

(* TypeOK: every register keeps its width and every segment of a context    *)
(* lies in the memory, whatever the programs.                               *)
THEOREM TiposDelCiclo == Spec => []TypeOK
<1>1. Tipos => TypeOK
  <2> SUFFICES ASSUME Tipos PROVE TypeOK
    OBVIOUS
  <2>1. ASSUME NEW x \in TipoContexto PROVE EsContexto(x)
    <3>1. \A r \in Registros : x.reg[r] \in ValoresDe(r)
      BY DEF TipoContexto, TipoRegistros
    <3>2. x.tabla \in Seq(TipoSegmento)
      BY DEF TipoContexto
    <3>3. ASSUME NEW i \in DOMAIN x.tabla PROVE x.tabla[i] \in TipoSegmento
      BY <3>2, ElementOfSeq, LenProperties
    <3>4. DOMAIN memoria = 0 .. TamMemoria - 1
      BY DEF Tipos, TiposKm
    <3>5. ASSUME NEW i \in DOMAIN x.tabla
          PROVE  x.tabla[i].limite \in 0 .. SEGMENT_MAX_SIZE /\ Rango(x.tabla[i]) \subseteq DOMAIN memoria
      BY <3>3, <3>4 DEF TipoSegmento
    <3> QED BY <3>1, <3>5 DEF EsContexto
  <2>2. \A p \in Procesos : contexto[p] \in TipoContexto
    BY DEF Tipos, TiposKm
  <2>3. \A c \in cpus : cpu[c].pc \in Pasos /\ cpu[c].ctx \in TipoContexto
    BY DEF Tipos, TiposCpu, TipoCpu
  <2> QED BY <2>1, <2>2, <2>3 DEF Tipos, TiposKm, TiposPlanificador, TypeOK
<1> QED BY <1>1, TiposInvariante, PTL

(***************************************************************************)
(* CopiaAlDia.  A process is in one place: a CPU has it on the way in, in    *)
(* its registers or on the way out, or it is queued, or it waits for an IO.  *)
(* A process that was evicted is queued although its CPU still has to save   *)
(* its context: until it has, no other CPU loads it, for that one would have *)
(* overtaken the context (adelantado), nor has it made another call.        *)
(***************************************************************************)
Ocupante(c) ==
  IF enviado[c] # NADA THEN enviado[c]
  ELSE IF cpu[c].pc \notin {"espera", "guardar"} THEN cpu[c].pid ELSE llamada[c].pid

CpuCoherente(c) ==
  /\ cpu[c].pc # "espera" => llamada[c].pid = NADA
  /\ cpu[c].pc \notin {"espera", "guardar"} \/ llamada[c].pid # NADA => enviado[c] = NADA
  /\ c \in libres => Ocupante(c) = NADA

EnUnLugar ==
  /\ IsInjective(listos)
  /\ \A c, d \in cpus : Ocupante(c) = Ocupante(d) /\ Ocupante(c) # NADA => c = d
  /\ \A c \in cpus : Ocupante(c) # NADA => /\ Ocupante(c) \in vivos /\ io[Ocupante(c)] = SinLlamada
                                           /\ ~Contains(listos, Ocupante(c))
  /\ \A p \in Procesos : Contains(listos, p) => p \in vivos /\ io[p] = SinLlamada
  /\ \A p \in Procesos : io[p] # SinLlamada => p \in vivos

TablaAlDia(c) ==
  cpu[c].pc \in EnCiclo => cpu[c].pid \in vivos /\ cpu[c].ctx.tabla = contexto[cpu[c].pid].tabla

Coherentes == \A c \in cpus : CpuCoherente(c)
Tablas == \A c \in cpus : TablaAlDia(c)
Guardados ==
  \A c \in cpus : cpu[c].pc = "guardar" =>
    \A d \in cpus : llamada[d].pid # cpu[c].pid /\ (d # c => ~Cargado(d, cpu[c].pid))
CopiasCoherentes == Tipos /\ Coherentes /\ EnUnLugar /\ Tablas /\ Guardados

(* What the rest of the system knows of a step of c.                        *)
SoloDe(c) ==
  /\ UNCHANGED configuracion
  /\ \A d \in cpus \ {c} : enviado'[d] = enviado[d] /\ llamada'[d] = llamada[d] /\ cpu'[d] = cpu[d]

LEMMA CambiaFacts ==
  ASSUME TiposCpu, NEW c \in cpus, NEW x, Cambia(c, x)
  PROVE  cpu'[c] = x /\ \A d \in cpus \ {c} : cpu'[d] = cpu[d]
BY DEF TiposCpu, Cambia

LEMMA CpuConFacts ==
  ASSUME NEW pc, NEW pid, NEW ctx, NEW inst, NEW dato
  PROVE  /\ CpuCon(pc, pid, ctx, inst, dato).pc = pc
         /\ CpuCon(pc, pid, ctx, inst, dato).pid = pid
         /\ CpuCon(pc, pid, ctx, inst, dato).ctx = ctx
BY DEF CpuCon

LEMMA AtendidaFacts ==
  ASSUME TiposPlanificador, NEW c \in cpus, Atendida(c)
  PROVE  llamada'[c].pid = NADA /\ \A d \in cpus \ {c} : llamada'[d] = llamada[d]
<1>1. llamada' = [llamada EXCEPT ![c] = SinLlamada] /\ SinLlamada.pid = NADA
  BY DEF Atendida, SinLlamada
<1> HIDE DEF SinLlamada
<1> QED BY <1>1 DEF TiposPlanificador

LEMMA OcupanteDeOtro ==
  ASSUME NEW c, SoloDe(c), NEW d \in cpus \ {c}
  PROVE  Ocupante(d)' = Ocupante(d)
BY DEF SoloDe, Ocupante

LEMMA OcupanteTipo ==
  ASSUME Tipos, NEW c \in cpus
  PROVE  Ocupante(c) \in Procesos \cup {NADA}
<1>1. enviado[c] \in Procesos \cup {NADA}
  BY DEF Tipos, TiposPlanificador
<1>2. cpu[c].pc # "espera" => cpu[c].pid \in Procesos
  BY DEF Tipos, TiposCpu, TipoCpu
<1>3. llamada[c].pid \in Procesos \cup {NADA}
  BY DEF Tipos, TiposPlanificador, TipoLlamada, SinLlamada
<1> QED BY <1>1, <1>2, <1>3 DEF Ocupante

LEMMA CoherentesDeOtros ==
  ASSUME Coherentes, NEW c, SoloDe(c), libres' \subseteq libres \cup {c}, CpuCoherente(c)'
  PROVE  Coherentes'
<1>1. cpus' = cpus /\ rr' = rr
  BY DEF SoloDe, configuracion
<1>2. ASSUME NEW d \in cpus \ {c} PROVE CpuCoherente(d)'
  <2>1. Ocupante(d)' = Ocupante(d)
    BY OcupanteDeOtro
  <2>2. CpuCoherente(d)
    BY DEF Coherentes
  <2> QED BY <1>1, <2>1, <2>2 DEF SoloDe, CpuCoherente
<1> QED BY <1>1, <1>2 DEF Coherentes

(* The tables that do not change.                                           *)
LEMMA TablasDeOtros ==
  ASSUME Tablas, NEW c, SoloDe(c), UNCHANGED vivos,
         \A p \in vivos : contexto'[p].tabla = contexto[p].tabla, TablaAlDia(c)'
  PROVE  Tablas'
<1>1. cpus' = cpus
  BY DEF SoloDe, configuracion
<1>2. ASSUME NEW d \in cpus \ {c} PROVE TablaAlDia(d)'
  <2>1. TablaAlDia(d)
    BY DEF Tablas
  <2> QED BY <2>1 DEF SoloDe, TablaAlDia
<1> QED BY <1>1, <1>2 DEF Tablas

(* A context that has still to be saved.                                    *)
LEMMA GuardadosDeOtros ==
  ASSUME Guardados, NEW c \in cpus, SoloDe(c),
         \A e \in cpus \ {c} : cpu[e].pc = "guardar" =>
            llamada'[c].pid # cpu[e].pid /\ (cpu'[c].pc \in EnCiclo => cpu'[c].pid # cpu[e].pid),
         cpu'[c].pc = "guardar" =>
            \A d \in cpus : llamada'[d].pid # cpu'[c].pid /\ (d # c => ~Cargado(d, cpu'[c].pid))
  PROVE  Guardados'
<1>1. cpus' = cpus /\ \A d \in cpus \ {c} : cpu'[d] = cpu[d] /\ llamada'[d] = llamada[d]
  BY DEF SoloDe, configuracion
<1>2. ASSUME NEW e \in cpus, cpu'[e].pc = "guardar", NEW d \in cpus
      PROVE  llamada'[d].pid # cpu'[e].pid /\ (d # e => ~(cpu'[d].pid = cpu'[e].pid /\ cpu'[d].pc \in EnCiclo))
  <2>1. CASE e = c
    BY <1>1, <1>2, <2>1 DEF Cargado
  <2>2. CASE e # c
    BY <1>1, <1>2, <2>2 DEF Guardados, Cargado
  <2> QED BY <2>1, <2>2
<1> QED BY <1>1, <1>2 DEF Guardados, Cargado

LEMMA GuardadosQuedan ==
  ASSUME Guardados, UNCHANGED <<cpus, cpu, llamada>>
  PROVE  Guardados'
BY DEF Guardados, Cargado

LEMMA NadieSeMueve ==
  ASSUME EnUnLugar, UNCHANGED <<cpus, listos, io, vivos>>, \A d \in cpus : Ocupante(d)' = Ocupante(d)
  PROVE  EnUnLugar'
<1>1. \A d \in cpus' : Ocupante(d)' = Ocupante(d)
  OBVIOUS
<1> HIDE DEF Ocupante
<1> QED BY <1>1 DEF EnUnLugar

(* A process that leaves its CPU for one of the other places, or for none.  *)
LEMMA Soltar ==
  ASSUME EnUnLugar, NEW c \in cpus, NEW p, p = Ocupante(c), p \in Procesos, p # NADA,
         Ocupante(c)' = NADA, UNCHANGED cpus, \A d \in cpus \ {c} : Ocupante(d)' = Ocupante(d),
         IsInjective(listos'), vivos \ {p} \subseteq vivos',
         \A q \in Procesos \ {p} : io'[q] = io[q],
         \A q \in Procesos : Contains(listos', q) =>
            Contains(listos, q) \/ q = p \/ (q \notin vivos /\ q \in vivos'),
         Contains(listos', p) => p \in vivos' /\ io'[p] = SinLlamada,
         io'[p] # SinLlamada => p \in vivos',
         \A d \in cpus : Ocupante(d) \in Procesos \cup {NADA}
  PROVE  EnUnLugar'
<1>1. \A d \in cpus \ {c} : Ocupante(d)' = Ocupante(d) /\ (Ocupante(d) # NADA => Ocupante(d) # p)
  BY DEF EnUnLugar
<1> HIDE DEF Ocupante, SinLlamada
<1>2. \A d, e \in cpus' : Ocupante(d)' = Ocupante(e)' /\ Ocupante(d)' # NADA => d = e
  BY <1>1 DEF EnUnLugar
<1>3. ASSUME NEW d \in cpus', Ocupante(d)' # NADA
      PROVE  /\ Ocupante(d)' \in vivos' /\ io'[Ocupante(d)'] = SinLlamada
             /\ ~Contains(listos', Ocupante(d)')
  <2>1. d \in cpus \ {c} /\ Ocupante(d)' = Ocupante(d) /\ Ocupante(d) # NADA /\ Ocupante(d) # p
    BY <1>1, <1>3
  <2>2. Ocupante(d) \in Procesos /\ Ocupante(d) \in vivos /\ io[Ocupante(d)] = SinLlamada
        /\ ~Contains(listos, Ocupante(d))
    BY <2>1 DEF EnUnLugar
  <2> QED BY <2>1, <2>2
<1>4. ASSUME NEW q \in Procesos, Contains(listos', q) PROVE q \in vivos' /\ io'[q] = SinLlamada
  <2>1. CASE q = p
    BY <1>4, <2>1
  <2>2. CASE q # p
    BY <1>4, <2>2 DEF EnUnLugar
  <2> QED BY <2>1, <2>2
<1>5. ASSUME NEW q \in Procesos, io'[q] # SinLlamada PROVE q \in vivos'
  BY <1>5 DEF EnUnLugar
<1>6. SinLlamada' = SinLlamada
  BY DEF SinLlamada
<1> QED BY <1>2, <1>3, <1>4, <1>5, <1>6 DEF EnUnLugar

Antes == CopiasCoherentes
Despues == Coherentes' /\ EnUnLugar' /\ Tablas' /\ Guardados'

(* A context that is in a CPU is in no other, and its process has no call.  *)
LEMMA CargadoSolo ==
  ASSUME Antes, NEW c \in cpus, cpu[c].pc \in EnCiclo, NEW d \in cpus
  PROVE  /\ cpu[c].pid \in Procesos /\ cpu[c].pid # NADA
         /\ llamada[d].pid # cpu[c].pid
         /\ d # c => ~Cargado(d, cpu[c].pid)
<1> USE DEF Antes, CopiasCoherentes
<1> DEFINE p == cpu[c].pid
<1>1. p \in Procesos /\ p # NADA
  BY NadaAssumption DEF Tipos, TiposCpu, TipoCpu, EnCiclo
<1>2. CpuCoherente(c) /\ CpuCoherente(d)
  BY DEF Coherentes
<1>3. CASE cpu[c].pc = "guardar"
  BY <1>1, <1>3 DEF Guardados
<1>4. CASE cpu[c].pc # "guardar"
  <2>1. Ocupante(c) = p /\ cpu[c].pc \notin {"espera", "guardar"}
    BY <1>2, <1>4 DEF CpuCoherente, Ocupante, EnCiclo
  <2>2. Ocupante(d) = p => d = c
    BY <1>1, <2>1 DEF EnUnLugar
  <2>3. llamada[d].pid = p => d = c
    BY <1>1, <1>2, <2>2 DEF CpuCoherente, Ocupante
  <2>4. llamada[d].pid # p
    BY <1>1, <1>2, <2>1, <2>3 DEF CpuCoherente
  <2>5. ASSUME d # c, Cargado(d, p) PROVE FALSE
    <3>1. CASE cpu[d].pc = "guardar"
      BY <2>5, <3>1 DEF Guardados, Cargado
    <3>2. CASE cpu[d].pc # "guardar"
      BY <1>2, <2>2, <2>5, <3>2 DEF CpuCoherente, Ocupante, Cargado, EnCiclo
    <3> QED BY <3>1, <3>2
  <2> QED BY <1>1, <2>4, <2>5
<1> QED BY <1>3, <1>4

(* A step inside the cycle.                                                 *)
LEMMA PasoInterno ==
  ASSUME Antes, NEW c \in cpus, NEW paso \in Pasos \ {"espera", "guardar"}, NEW ctx, NEW inst, NEW dato,
         Cambia(c, CpuCon(paso, cpu[c].pid, ctx, inst, dato)), cpu[c].pc \notin {"espera", "guardar"},
         UNCHANGED <<configuracion, contexto, vivos, planificador>>,
         ctx.tabla = contexto[cpu[c].pid].tabla,
         cpu[c].pc \in EnCiclo \/ \A e \in cpus : cpu[e].pc = "guardar" => cpu[e].pid # cpu[c].pid
  PROVE  Despues
<1> USE DEF Antes, CopiasCoherentes
<1>1. /\ cpu'[c].pc = paso /\ cpu'[c].pid = cpu[c].pid /\ cpu'[c].ctx = ctx
      /\ \A d \in cpus \ {c} : cpu'[d] = cpu[d]
  BY CambiaFacts, CpuConFacts DEF Tipos
<1>2. UNCHANGED <<cpus, rr, enviado, llamada, listos, libres, io>>
  BY DEF configuracion, planificador
<1>3. SoloDe(c)
  BY <1>1, <1>2 DEF SoloDe
<1>4. CpuCoherente(c)
  BY DEF Coherentes
<1>5. Ocupante(c)' = Ocupante(c) /\ Ocupante(c) = cpu[c].pid
  BY <1>1, <1>2, <1>4 DEF CpuCoherente, Ocupante
<1>6. CpuCoherente(c)'
  BY <1>1, <1>2, <1>4, <1>5 DEF CpuCoherente
<1>7. cpu[c].pid \in vivos
  <2>1. cpu[c].pid \in Procesos
    BY DEF Tipos, TiposCpu, TipoCpu
  <2> QED BY <1>5, <2>1, NadaAssumption DEF EnUnLugar
<1>8. TablaAlDia(c)'
  BY <1>1, <1>7 DEF TablaAlDia
<1>9. \A d \in cpus : Ocupante(d)' = Ocupante(d)
  BY <1>3, <1>5, OcupanteDeOtro
<1>10. Guardados'
  <2>1. \A e \in cpus \ {c} : cpu[e].pc = "guardar" => llamada[c].pid # cpu[e].pid /\ cpu[c].pid # cpu[e].pid
    BY DEF Guardados, Cargado
  <2> QED BY <1>1, <1>2, <1>3, <2>1, GuardadosDeOtros
<1> QED BY <1>2, <1>3, <1>6, <1>8, <1>9, <1>10, CoherentesDeOtros, TablasDeOtros, NadieSeMueve DEF Despues

(* The steps of the cycle.                                                  *)
LEMMA CpuCopias ==
  ASSUME Antes, NEW c \in cpus, Cpu(c) \/ TickSigue(c), ~adelantado'
  PROVE  Despues
<1>0. TiposCpu /\ Tipos
  BY DEF Antes, CopiasCoherentes, Tipos
<1>1. CpuCoherente(c) /\ TablaAlDia(c)
  BY DEF Antes, CopiasCoherentes, Coherentes, Tablas
<1>2. CtxCon(c, cpu[c].ctx.reg).tabla = cpu[c].ctx.tabla /\ \A r : CtxCon(c, r).tabla = cpu[c].ctx.tabla
  BY DEF CtxCon
<1>3. cpu[c].pc \in EnCiclo => cpu[c].ctx.tabla = contexto[cpu[c].pid].tabla
  BY <1>1 DEF TablaAlDia
<1>otros. \A e \in cpus \ {c} : cpu[e].pc = "guardar" =>
         llamada[c].pid # cpu[e].pid /\ (cpu[c].pc \in EnCiclo => cpu[c].pid # cpu[e].pid)
  BY DEF Antes, CopiasCoherentes, Guardados, Cargado
<1>4. CASE RecibirPid(c)
  <2>1. /\ cpu'[c].pc = "contexto" /\ cpu'[c].pid = enviado[c]
        /\ \A d \in cpus \ {c} : cpu'[d] = cpu[d]
    BY <1>0, <1>4, RecibirPidForma, CambiaFacts, CpuConFacts
  <2>2. /\ cpu[c].pc = "espera" /\ enviado[c] # NADA /\ enviado' = [enviado EXCEPT ![c] = NADA]
        /\ UNCHANGED <<configuracion, km, llamada, listos, libres, io>>
    BY <1>4 DEF RecibirPid, En
  <2>3. enviado'[c] = NADA /\ \A d \in cpus \ {c} : enviado'[d] = enviado[d]
    BY <1>0, <2>2 DEF Tipos, TiposPlanificador
  <2>4. SoloDe(c) /\ UNCHANGED <<cpus, rr, contexto, vivos>>
    BY <2>1, <2>2, <2>3 DEF SoloDe, configuracion, km
  <2>5. Ocupante(c) = enviado[c] /\ Ocupante(c)' = enviado[c]
    BY <2>1, <2>2, <2>3 DEF Ocupante
  <2>6. CpuCoherente(c)'
    BY <1>1, <2>1, <2>2, <2>3, <2>5 DEF CpuCoherente
  <2>7. TablaAlDia(c)'
    BY <2>1 DEF TablaAlDia, EnCiclo
  <2>8. \A d \in cpus : Ocupante(d)' = Ocupante(d)
    BY <2>4, <2>5, OcupanteDeOtro
  <2>9. Guardados'
    <3>1. cpu'[c].pc \notin EnCiclo /\ cpu'[c].pc # "guardar"
      BY <2>1 DEF EnCiclo
    <3> QED BY <1>otros, <2>2, <2>4, <3>1, GuardadosDeOtros DEF Antes, CopiasCoherentes
  <2> QED BY <2>2, <2>4, <2>6, <2>7, <2>8, <2>9, CoherentesDeOtros, TablasDeOtros, NadieSeMueve
          DEF Despues, Antes, CopiasCoherentes
<1>5. CASE PedirContexto(c)
  <2>1. cpu[c].pc = "contexto" /\ UNCHANGED <<configuracion, contexto, vivos, planificador>>
    BY <1>5 DEF PedirContexto, En, km
  <2>2. \A e \in cpus : cpu[e].pc = "guardar" => cpu[e].pid # cpu[c].pid
    BY <1>5 DEF PedirContexto, En
  <2> QED BY <1>0, <1>5, <2>1, <2>2, PedirContextoForma, PasoInterno DEF Pasos
<1>6. CASE Fetch(c)
  <2>1. cpu[c].pc = "fetch" /\ UNCHANGED <<configuracion, contexto, vivos, planificador>>
    BY <1>6 DEF Fetch, En, km
  <2> QED BY <1>0, <1>3, <1>6, <2>1, FetchForma, PasoInterno DEF Pasos, EnCiclo
<1>7. CASE FetchFalla(c)
  <2>1. /\ cpu[c].pc = "fetch" /\ cpu' = [cpu EXCEPT ![c].pc = "perdida"]
        /\ UNCHANGED <<configuracion, contexto, vivos, planificador>>
    BY <1>7 DEF FetchFalla, En, km
  <2> QED BY <1>0, <1>3, <2>1, PasoForma, PasoInterno DEF Pasos, EnCiclo
<1>8. ASSUME NEW registros, Sigue(c, "tick", registros), En(c, "execute"),
             UNCHANGED <<configuracion, contexto, vivos, planificador>>
      PROVE  Despues
  BY <1>0, <1>2, <1>3, <1>8, SigueForma, PasoInterno DEF Pasos, EnCiclo, En
<1>9. CASE ExecuteRegistros(c)
  BY <1>8, <1>9 DEF ExecuteRegistros, Con, km
<1>10. CASE MovIn(c)
  <2> DEFINE n == Avanzar(EscribirRegistro(cpu[c].ctx.reg, cpu[c].inst[2], ValorDe(Leido(c))))
  <2>1. Sigue(c, "tick", n) /\ En(c, "execute") /\ UNCHANGED <<configuracion, contexto, vivos, planificador>>
    BY <1>10 DEF MovIn, Con, km
  <2> HIDE DEF n
  <2> QED BY <1>8, <2>1
<1>11. CASE MovOut(c)
  BY <1>8, <1>11 DEF MovOut, Con
<1>12. CASE CopyMemLeer(c)
  <2>1. cpu[c].pc = "execute" /\ UNCHANGED <<configuracion, contexto, vivos, planificador>>
    BY <1>12 DEF CopyMemLeer, Con, En, km
  <2> QED BY <1>0, <1>3, <1>12, <2>1, CopyMemLeerForma, PasoInterno DEF Pasos, EnCiclo
<1>13. ASSUME NEW paso \in {"tick", "syscall"}, NEW inst, NEW dato, Cambia(c, CpuAvanzada(c, paso, inst, dato)),
              cpu[c].pc \in {"execute", "copiar"}, UNCHANGED <<configuracion, contexto, vivos, planificador>>
       PROVE  Despues
  <2> DEFINE n == Avanzar(cpu[c].ctx.reg)
  <2>1. Cambia(c, CpuCon(paso, cpu[c].pid, CtxCon(c, n), inst, dato))
    BY <1>13 DEF CpuAvanzada
  <2> HIDE DEF n
  <2> QED BY <1>2, <1>3, <1>13, <2>1, PasoInterno DEF Pasos, EnCiclo
<1>14. CASE CopyMemEscribir(c)
  <2>1. cpu[c].pc = "copiar" /\ UNCHANGED <<configuracion, contexto, vivos, planificador>>
    BY <1>14 DEF CopyMemEscribir, En
  <2> QED BY <1>0, <1>13, <1>14, <2>1, CopyMemEscribirForma
<1>15. CASE SegFault(c)
  <2>1. cpu[c].pc = "execute" /\ UNCHANGED <<configuracion, contexto, vivos, planificador>>
    BY <1>15 DEF SegFault, Con, En, km
  <2> QED BY <1>0, <1>13, <1>15, <2>1, SegFaultForma
<1>16. CASE Syscall(c)
  <2>1. cpu[c].pc = "execute" /\ UNCHANGED <<configuracion, contexto, vivos, planificador>>
    BY <1>16 DEF Syscall, Con, En, km
  <2> QED BY <1>0, <1>13, <1>16, <2>1, SyscallForma
<1>17. CASE TickSigue(c)
  <2>1. /\ cpu[c].pc = "tick" /\ cpu' = [cpu EXCEPT ![c].pc = "fetch"]
        /\ UNCHANGED <<configuracion, contexto, vivos, planificador>>
    BY <1>17 DEF TickSigue, En, km
  <2> QED BY <1>0, <1>3, <2>1, PasoForma, PasoInterno DEF Pasos, EnCiclo
<1>18. ASSUME ActualizarContexto(c), cpu[c].pc \in EnCiclo
       PROVE  \A p \in vivos : contexto'[p].tabla = contexto[p].tabla
  <2>1. contexto' = [contexto EXCEPT ![cpu[c].pid] = cpu[c].ctx]
    BY <1>18 DEF ActualizarContexto
  <2>2. DOMAIN contexto = Procesos /\ vivos \subseteq Procesos
    BY <1>0 DEF Tipos, TiposKm
  <2> QED BY <1>3, <1>18, <2>1, <2>2
<1>19. ASSUME cpu' = [cpu EXCEPT ![c] = Ociosa]
       PROVE  cpu'[c].pc = "espera" /\ \A d \in cpus \ {c} : cpu'[d] = cpu[d]
  <2>1. Ociosa.pc = "espera"
    BY DEF Ociosa
  <2> HIDE DEF Ociosa
  <2> QED BY <1>0, <1>19, <2>1 DEF TiposCpu
<1>20. CASE EnviarSyscall(c)
  <2> DEFINE x == [pid |-> cpu[c].pid, inst |-> cpu[c].inst, dato |-> cpu[c].dato]
  <2>1. /\ cpu[c].pc = "syscall" /\ ActualizarContexto(c) /\ llamada' = [llamada EXCEPT ![c] = x]
        /\ cpu' = [cpu EXCEPT ![c] = Ociosa]
        /\ UNCHANGED <<configuracion, memoria, vivos, enviado, listos, libres, io>>
    BY <1>20 DEF EnviarSyscall, En
  <2>2. x.pid = cpu[c].pid
    OBVIOUS
  <2> HIDE DEF x
  <2>3. llamada'[c] = x /\ \A d \in cpus \ {c} : llamada'[d] = llamada[d]
    BY <1>0, <2>1 DEF Tipos, TiposPlanificador
  <2>4. cpu'[c].pc = "espera" /\ \A d \in cpus \ {c} : cpu'[d] = cpu[d]
    BY <1>19, <2>1
  <2>5. SoloDe(c) /\ UNCHANGED <<cpus, rr>>
    BY <2>1, <2>3, <2>4 DEF SoloDe, configuracion
  <2>6. Ocupante(c)' = Ocupante(c) /\ enviado[c] = NADA
    BY <1>1, <2>1, <2>2, <2>3, <2>4 DEF CpuCoherente, Ocupante
  <2>7. CpuCoherente(c)'
    BY <1>1, <2>1, <2>3, <2>4, <2>6 DEF CpuCoherente
  <2>8. TablaAlDia(c)'
    BY <2>4 DEF TablaAlDia, EnCiclo
  <2>9. \A d \in cpus : Ocupante(d)' = Ocupante(d)
    BY <2>5, <2>6, OcupanteDeOtro
  <2>10. \A p \in vivos : contexto'[p].tabla = contexto[p].tabla
    BY <1>18, <2>1 DEF EnCiclo, Pasos
  <2>11. Guardados'
    <3>1. cpu'[c].pc \notin EnCiclo /\ cpu'[c].pc # "guardar" /\ cpu[c].pc \in EnCiclo
      BY <2>1, <2>4 DEF EnCiclo, Pasos
    <3> QED BY <1>otros, <2>2, <2>3, <2>5, <3>1, GuardadosDeOtros DEF Antes, CopiasCoherentes
  <2> QED BY <2>1, <2>5, <2>7, <2>8, <2>9, <2>10, <2>11, CoherentesDeOtros, TablasDeOtros, NadieSeMueve
          DEF Despues, Antes, CopiasCoherentes
<1>21. CASE Guardar(c)
  <2>1. /\ cpu[c].pc = "guardar" /\ ActualizarContexto(c) /\ cpu' = [cpu EXCEPT ![c] = Ociosa]
        /\ UNCHANGED <<configuracion, memoria, vivos, planificador>>
    BY <1>21 DEF Guardar, En
  <2>2. cpu'[c].pc = "espera" /\ \A d \in cpus \ {c} : cpu'[d] = cpu[d]
    BY <1>19, <2>1
  <2>3. SoloDe(c) /\ UNCHANGED <<cpus, rr, enviado, llamada, listos, libres, io>>
    BY <2>1, <2>2 DEF SoloDe, configuracion, planificador
  <2>4. Ocupante(c)' = Ocupante(c)
    BY <2>1, <2>2, <2>3 DEF Ocupante
  <2>5. CpuCoherente(c)'
    BY <1>1, <2>1, <2>2, <2>3, <2>4 DEF CpuCoherente
  <2>6. TablaAlDia(c)'
    BY <2>2 DEF TablaAlDia, EnCiclo
  <2>7. \A d \in cpus : Ocupante(d)' = Ocupante(d)
    BY <2>3, <2>4, OcupanteDeOtro
  <2>8. \A p \in vivos : contexto'[p].tabla = contexto[p].tabla
    BY <1>18, <2>1 DEF EnCiclo, Pasos
  <2>9. Guardados'
    <3>1. cpu'[c].pc \notin EnCiclo /\ cpu'[c].pc # "guardar"
      BY <2>2 DEF EnCiclo
    <3> QED BY <1>otros, <2>3, <3>1, GuardadosDeOtros DEF Antes, CopiasCoherentes
  <2> QED BY <2>1, <2>3, <2>5, <2>6, <2>7, <2>8, <2>9, CoherentesDeOtros, TablasDeOtros, NadieSeMueve
          DEF Despues, Antes, CopiasCoherentes
<1> QED BY <1>4, <1>5, <1>6, <1>7, <1>9, <1>10, <1>11, <1>12, <1>14, <1>15, <1>16, <1>17, <1>20, <1>21
        DEF Cpu

(* Nobody has loaded a process whose call is being served.                  *)
LEMMA LlamadaSola ==
  ASSUME Antes, NEW c \in cpus, NEW nombre, Pide(c, nombre)
  PROVE  /\ llamada[c].pid \in Procesos /\ llamada[c].pid # NADA /\ cpu[c].pc = "espera"
         /\ enviado[c] = NADA /\ Ocupante(c) = llamada[c].pid /\ c \notin libres
         /\ \A d \in cpus : cpu[d].pc \in EnCiclo => cpu[d].pid # llamada[c].pid
<1> USE DEF Antes, CopiasCoherentes
<1>1. llamada[c].pid \in Procesos /\ llamada[c].pid # NADA
  BY LlamadaFacts, NadaAssumption DEF Tipos
<1>2. \A d \in cpus : CpuCoherente(d)
  BY DEF Coherentes
<1>3. cpu[c].pc = "espera" /\ enviado[c] = NADA
  BY <1>1, <1>2 DEF CpuCoherente
<1>4. Ocupante(c) = llamada[c].pid
  BY <1>3 DEF Ocupante
<1>5. c \notin libres
  BY <1>1, <1>2, <1>4 DEF CpuCoherente
<1>6. \A d \in cpus : cpu[d].pc \in EnCiclo => cpu[d].pid # llamada[c].pid
  BY CargadoSolo
<1> QED BY <1>1, <1>3, <1>4, <1>5, <1>6

(* The contexts that have to be saved do not mind that a call is over.      *)
LEMMA GuardadosAtendida ==
  ASSUME Antes, NEW c \in cpus, cpu[c].pc = "espera", SoloDe(c), UNCHANGED cpu, llamada'[c].pid = NADA
  PROVE  Guardados'
<1>1. cpu'[c].pc \notin EnCiclo /\ cpu'[c].pc # "guardar"
  BY DEF EnCiclo
<1>2. ASSUME NEW e \in cpus, cpu[e].pc = "guardar" PROVE cpu[e].pid # NADA
  BY <1>2, NadaAssumption DEF Antes, CopiasCoherentes, Tipos, TiposCpu, TipoCpu
<1> QED BY <1>1, <1>2, GuardadosDeOtros DEF Antes, CopiasCoherentes

LEMMA TablasDeCargados ==
  ASSUME Tablas, UNCHANGED <<cpus, cpu>>,
         \A d \in cpus : cpu[d].pc \in EnCiclo /\ cpu[d].pid \in vivos =>
            cpu[d].pid \in vivos' /\ contexto'[cpu[d].pid].tabla = contexto[cpu[d].pid].tabla
  PROVE  Tablas'
<1>1. ASSUME NEW d \in cpus PROVE TablaAlDia(d)'
  <2>1. TablaAlDia(d)
    BY DEF Tablas
  <2> QED BY <2>1 DEF TablaAlDia
<1> QED BY <1>1 DEF Tablas

(* A call after which the process keeps its CPU.                            *)
LEMMA DevolverCopias ==
  ASSUME Antes, NEW c \in cpus, NEW nombre, Pide(c, nombre), Devolver(c), UNCHANGED vivos,
         \A d \in cpus : cpu[d].pc \in EnCiclo /\ cpu[d].pid \in vivos =>
            contexto'[cpu[d].pid].tabla = contexto[cpu[d].pid].tabla
  PROVE  Despues
<1> USE DEF Antes, CopiasCoherentes
<1>1. /\ enviado' = [enviado EXCEPT ![c] = llamada[c].pid] /\ Atendida(c)
      /\ UNCHANGED <<configuracion, cpu, listos, libres, io>>
  BY DEF Devolver
<1>2. enviado'[c] = llamada[c].pid /\ \A d \in cpus \ {c} : enviado'[d] = enviado[d]
  BY <1>1 DEF Tipos, TiposPlanificador
<1>3. llamada'[c].pid = NADA /\ \A d \in cpus \ {c} : llamada'[d] = llamada[d]
  BY <1>1, AtendidaFacts DEF Tipos
<1>4. SoloDe(c) /\ UNCHANGED <<cpus, rr>>
  BY <1>1, <1>2, <1>3 DEF SoloDe, configuracion
<1>5. /\ llamada[c].pid # NADA /\ cpu[c].pc = "espera" /\ Ocupante(c) = llamada[c].pid /\ c \notin libres
  BY LlamadaSola
<1>6. Ocupante(c)' = Ocupante(c)
  BY <1>2, <1>5 DEF Ocupante
<1>7. CpuCoherente(c)'
  BY <1>1, <1>3, <1>5 DEF CpuCoherente
<1>8. \A d \in cpus : Ocupante(d)' = Ocupante(d)
  BY <1>4, <1>6, OcupanteDeOtro
<1>9. Tablas'
  BY <1>1, <1>4, TablasDeCargados
<1>10. Guardados'
  BY <1>1, <1>3, <1>4, <1>5, GuardadosAtendida
<1> QED BY <1>1, <1>4, <1>7, <1>8, <1>9, <1>10, CoherentesDeOtros, NadieSeMueve DEF Despues

(* A call after which it does not: Soltar says where it goes.               *)
LEMMA LiberarCopias ==
  ASSUME Antes, NEW c \in cpus, NEW nombre, Pide(c, nombre), Atendida(c),
         libres' = libres \cup {c}, UNCHANGED <<configuracion, cpu, enviado>>,
         \A d \in cpus : cpu[d].pc \in EnCiclo /\ cpu[d].pid \in vivos =>
            cpu[d].pid \in vivos' /\ contexto'[cpu[d].pid].tabla = contexto[cpu[d].pid].tabla
  PROVE  /\ Coherentes' /\ Tablas' /\ Guardados' /\ Ocupante(c)' = NADA
         /\ \A d \in cpus \ {c} : Ocupante(d)' = Ocupante(d)
<1> USE DEF Antes, CopiasCoherentes
<1>1. llamada'[c].pid = NADA /\ \A d \in cpus \ {c} : llamada'[d] = llamada[d]
  BY AtendidaFacts DEF Tipos
<1>2. SoloDe(c) /\ UNCHANGED <<cpus, rr>>
  BY <1>1 DEF SoloDe, configuracion
<1>3. cpu[c].pc = "espera" /\ enviado[c] = NADA
  BY LlamadaSola
<1>4. Ocupante(c)' = NADA
  BY <1>1, <1>3 DEF Ocupante
<1>5. CpuCoherente(c)'
  BY <1>1, <1>3, <1>4 DEF CpuCoherente
<1>6. Tablas'
  BY <1>2, TablasDeCargados
<1>7. Guardados'
  BY <1>1, <1>2, <1>3, GuardadosAtendida
<1> QED BY <1>2, <1>4, <1>5, <1>6, <1>7, CoherentesDeOtros, OcupanteDeOtro

(* Nothing that a context depends on changes.                               *)
LEMMA QuietoCopias ==
  ASSUME Antes, UNCHANGED <<configuracion, km, cpu, planificador>>
  PROVE  Despues
<1>1. UNCHANGED <<cpus, contexto, vivos, cpu, enviado, llamada, listos, libres, io>>
  BY DEF configuracion, km, planificador
<1>2. \A d \in cpus : Ocupante(d)' = Ocupante(d)
  BY <1>1 DEF Ocupante
<1>3. EnUnLugar'
  BY <1>1, <1>2, NadieSeMueve DEF Antes, CopiasCoherentes
<1>4. Coherentes'
  <2>1. ASSUME NEW d \in cpus PROVE CpuCoherente(d)'
    BY <1>1, <1>2 DEF Antes, CopiasCoherentes, Coherentes, CpuCoherente
  <2> QED BY <1>1, <2>1 DEF Coherentes
<1>5. Tablas' /\ Guardados'
  BY <1>1, TablasDeCargados, GuardadosQuedan DEF Antes, CopiasCoherentes
<1> QED BY <1>3, <1>4, <1>5 DEF Despues

(* A segment more or less of p is nothing to the others.                    *)
LEMMA TablaDeUno ==
  ASSUME contexto \in [Procesos -> TipoContexto], NEW p \in Procesos, NEW t,
         contexto' = [contexto EXCEPT ![p].tabla = t]
  PROVE  \A q \in Procesos \ {p} : contexto'[q] = contexto[q]
OBVIOUS

LEMMA ManejadorCopias ==
  ASSUME Antes, NEW c \in cpus, Manejador(c), ~adelantado'
  PROVE  Despues
<1>0. /\ Tipos /\ contexto \in [Procesos -> TipoContexto] /\ vivos \subseteq Procesos
      /\ listos \in Seq(Procesos) /\ IsInjective(listos) /\ DOMAIN io = Procesos /\ EnUnLugar
      /\ \A d \in cpus : Ocupante(d) \in Procesos \cup {NADA}
  BY OcupanteTipo DEF Antes, CopiasCoherentes, Tipos, TiposKm, TiposPlanificador, EnUnLugar
<1>1. CASE TickSigue(c)
  BY <1>1, CpuCopias
<1>2. CASE TickDesaloja(c)
  <2> DEFINE p == cpu[c].pid
  <2>1. /\ cpu[c].pc = "tick" /\ cpu' = [cpu EXCEPT ![c].pc = "guardar"]
        /\ UNCHANGED <<configuracion, km, enviado, llamada, io>> /\ libres' = libres \cup {c}
        /\ listos' = Append(listos, p) \/ listos' = <<p>> \o listos
    BY <1>2 DEF TickDesaloja, En
  <2>2. /\ cpu'[c].pc = "guardar" /\ cpu'[c].pid = p /\ cpu'[c].ctx = cpu[c].ctx
        /\ \A d \in cpus \ {c} : cpu'[d] = cpu[d]
    <3>1. Cambia(c, CpuCon("guardar", p, cpu[c].ctx, cpu[c].inst, cpu[c].dato)) /\ TiposCpu
      BY <1>0, <2>1, PasoForma DEF Tipos
    <3> HIDE DEF p
    <3> QED BY <3>1, CambiaFacts, CpuConFacts
  <2>3. SoloDe(c) /\ UNCHANGED <<cpus, rr, contexto, vivos>>
    BY <2>1, <2>2 DEF SoloDe, configuracion, km
  <2>4. CpuCoherente(c) /\ TablaAlDia(c)
    BY DEF Antes, CopiasCoherentes, Coherentes, Tablas
  <2>5. enviado[c] = NADA /\ llamada[c].pid = NADA /\ Ocupante(c) = p
    BY <2>1, <2>4 DEF CpuCoherente, Ocupante
  <2>6. Ocupante(c)' = NADA
    BY <2>1, <2>2, <2>5 DEF Ocupante
  <2>7. CpuCoherente(c)'
    BY <2>1, <2>2, <2>3, <2>5, <2>6 DEF CpuCoherente
  <2>8. TablaAlDia(c)'
    BY <2>1, <2>2, <2>3, <2>4 DEF TablaAlDia, EnCiclo, Pasos
  <2>9. p \in Procesos /\ p # NADA
    BY <1>0, <2>1, NadaAssumption DEF Tipos, TiposCpu, TipoCpu
  <2>10. p \in vivos /\ io[p] = SinLlamada /\ ~Contains(listos, p)
    BY <2>5, <2>9 DEF Antes, CopiasCoherentes, EnUnLugar
  <2>11. IsInjective(listos') /\ \A q : Contains(listos', q) <=> Contains(listos, q) \/ q = p
    <3>1. SinRepetidos(listos)
      BY <1>0, Vueltas
    <3>2. <<p>> \o listos \in Seq(Procesos)
      <4> DEFINE u == <<p>>
      <4>1. u \in Seq(Procesos)
        BY <2>9
      <4> HIDE DEF u
      <4>2. u \o listos \in Seq(Procesos)
        BY <1>0, <4>1, ConcatProperties
      <4> QED BY <4>2 DEF u
    <3>3. /\ SinRepetidos(<<p>> \o listos)
          /\ \A q : Contains(<<p>> \o listos, q) <=> Contains(listos, q) \/ q = p
      BY <1>0, <2>9, <2>10, <3>1, ConsLista
    <3>4. IsInjective(<<p>> \o listos)
      <4> HIDE DEF p
      <4> QED BY <3>2, <3>3, Vueltas
    <3>5. CASE listos' = Append(listos, p)
      BY <1>0, <2>9, <2>10, <3>5, AlFinal
    <3>6. CASE listos' = <<p>> \o listos
      <4> HIDE DEF p
      <4> QED BY <3>3, <3>4, <3>6
    <3> QED BY <2>1, <3>5, <3>6
  <2>12. \A d \in cpus \ {c} : Ocupante(d)' = Ocupante(d)
    BY <2>3, OcupanteDeOtro
  <2>13. EnUnLugar'
    BY <1>0, <2>1, <2>3, <2>5, <2>6, <2>9, <2>10, <2>11, <2>12, Soltar
  <2>14. Guardados'
    <3>1. \A d \in cpus : llamada[d].pid # p /\ (d # c => ~Cargado(d, p))
      BY <2>1, CargadoSolo DEF EnCiclo, Pasos
    <3>2. UNCHANGED llamada /\ cpu'[c].pid = p
      BY <2>1, <2>2
    <3> HIDE DEF p
    <3>3. \A e \in cpus \ {c} : cpu[e].pc = "guardar" => llamada'[c].pid # cpu[e].pid /\ p # cpu[e].pid
      <4>1. \A e \in cpus \ {c} : cpu[e].pc = "guardar" => cpu[e].pc \in EnCiclo
        BY DEF EnCiclo, Pasos
      <4> QED BY <2>5, <3>1, <3>2, <4>1, CargadoSolo DEF Cargado
    <3> QED BY <2>3, <3>1, <3>2, <3>3, GuardadosDeOtros DEF Antes, CopiasCoherentes
  <2> QED BY <2>1, <2>3, <2>7, <2>8, <2>13, <2>14, CoherentesDeOtros, TablasDeOtros
          DEF Despues, Antes, CopiasCoherentes
<1>3. ASSUME NEW nombre, Pide(c, nombre), UNCHANGED vivos, Devolver(c),
             \A q \in Procesos \ {llamada[c].pid} : contexto'[q].tabla = contexto[q].tabla
      PROVE  Despues
  BY <1>0, <1>3, LlamadaSola, DevolverCopias
<1>4. CASE MutexCreate(c)
  BY <1>3, <1>4 DEF MutexCreate, km
<1>5. CASE MemAllocRechazado(c)
  BY <1>3, <1>5 DEF MemAllocRechazado, km
<1>6. CASE MemAlloc(c)
  <2>1. Pide(c, "MEM_ALLOC") /\ Devolver(c) /\ UNCHANGED vivos
    BY <1>6 DEF MemAlloc
  <2>2. PICK b : contexto' = ConSegmento(contexto, c, b)
    BY <1>6 DEF MemAlloc
  <2>3. \A q \in Procesos \ {llamada[c].pid} : contexto'[q].tabla = contexto[q].tabla
    BY <1>0, <2>2 DEF ConSegmento
  <2> QED BY <1>3, <2>1, <2>3
<1>7. CASE MemAllocCompactando(c)
  <2>1. Pide(c, "MEM_ALLOC") /\ Devolver(c) /\ UNCHANGED vivos
    BY <1>7 DEF MemAllocCompactando
  <2>2. PICK b : contexto' = ConSegmento(Compactados, c, b)
    BY <1>7 DEF MemAllocCompactando
  <2>3. \A q \in Procesos \ {llamada[c].pid} : contexto'[q].tabla = Compactada(contexto[q].tabla)
    <3>1. \A q \in Procesos \ {llamada[c].pid} : contexto'[q] = Compactados[q]
      BY <2>2 DEF ConSegmento, Compactados
    <3>2. ASSUME NEW q \in Procesos PROVE Compactados[q].tabla = Compactada(contexto[q].tabla)
      <4>1. Compactados[q] = [contexto[q] EXCEPT !.tabla = Compactada(@)]
        BY DEF Compactados
      <4>2. contexto[q] \in TipoContexto
        BY <1>0
      <4> HIDE DEF Compactados
      <4> QED BY <4>1, <4>2 DEF TipoContexto
    <3> QED BY <3>1, <3>2
  <2>4. ASSUME NEW d \in cpus, cpu[d].pc \in EnCiclo
        PROVE  contexto'[cpu[d].pid].tabla = contexto[cpu[d].pid].tabla
    <3>1. cpu[d].pid \in Procesos \ {llamada[c].pid}
      BY <2>4, CargadoSolo
    <3>2. cpu[d].ctx.tabla = contexto[cpu[d].pid].tabla
      BY <2>4 DEF Antes, CopiasCoherentes, Tablas, TablaAlDia
    <3>3. Compactada(cpu[d].ctx.tabla) = cpu[d].ctx.tabla
      BY <1>7, <2>4 DEF MemAllocCompactando
    <3> HIDE DEF Compactada
    <3> QED BY <2>3, <3>1, <3>2, <3>3
  <2> QED BY <2>1, <2>4, DevolverCopias
<1>8. CASE MemFree(c)
  <2>1. /\ Pide(c, "MEM_FREE") /\ Devolver(c) /\ UNCHANGED vivos
        /\ contexto' = [contexto EXCEPT ![llamada[c].pid].tabla = SinSegmento(@, Parametro(c, 1))]
    BY <1>8 DEF MemFree
  <2>2. \A q \in Procesos \ {llamada[c].pid} : contexto'[q].tabla = contexto[q].tabla
    BY <1>0, <2>1
  <2> QED BY <1>3, <2>1, <2>2
<1>9. CASE InitProc(c)
  <2> DEFINE p == llamada[c].pid
             q == Parametro(c, 1)
  <2>1. /\ Pide(c, "INIT_PROC") /\ q \notin vivos /\ Atendida(c)
        /\ vivos' = vivos \cup {q} /\ contexto' = [contexto EXCEPT ![q] = ContextoVacio]
        /\ listos' = listos \o <<q, p>> /\ libres' = libres \cup {c}
        /\ UNCHANGED <<configuracion, memoria, cpu, enviado, io>>
    BY <1>9 DEF InitProc, PidNuevo
  <2>2. q \in Procesos
    BY <1>0, <2>1, LlamadaFacts DEF Tipos, Parametro, EsInstruccion
  <2>3. p \in Procesos /\ p # NADA /\ Ocupante(c) = p
    BY <2>1, LlamadaSola
  <2>4. p \in vivos /\ io[p] = SinLlamada /\ ~Contains(listos, p)
    BY <2>3 DEF Antes, CopiasCoherentes, EnUnLugar
  <2>5. ~Contains(listos, q) /\ p # q
    BY <2>1, <2>2, <2>4 DEF Antes, CopiasCoherentes, EnUnLugar
  <2>6. \A d \in cpus : cpu[d].pid \in vivos =>
           cpu[d].pid \in vivos' /\ contexto'[cpu[d].pid].tabla = contexto[cpu[d].pid].tabla
    BY <1>0, <2>1
  <2>7. /\ Coherentes' /\ Tablas' /\ Guardados' /\ Ocupante(c)' = NADA
        /\ \A d \in cpus \ {c} : Ocupante(d)' = Ocupante(d)
    BY <2>1, <2>6, LiberarCopias
  <2> HIDE DEF p, q
  <2>8. IsInjective(listos') /\ \A x : Contains(listos', x) <=> Contains(listos, x) \/ x \in {q, p}
    <3> DEFINE t == <<q, p>>
    <3>1. t \in Seq(Procesos) /\ Len(t) = 2 /\ DOMAIN t = 1 .. 2 /\ t[1] = q /\ t[2] = p
      BY <2>2, <2>3
    <3> HIDE DEF t
    <3>2. \A x : Contains(t, x) <=> x \in {q, p}
      BY <3>1 DEF Contains
    <3>3. IsInjective(t)
      BY <2>5, <3>1 DEF IsInjective
    <3>4. \A x \in Procesos : ~(Contains(listos, x) /\ Contains(t, x))
      BY <2>4, <2>5, <3>2
    <3>5. IsInjective(listos \o t) /\ \A x : Contains(listos \o t, x) <=> Contains(listos, x) \/ Contains(t, x)
      BY <1>0, <3>1, <3>3, <3>4, ConcatLista
    <3> QED BY <2>1, <3>2, <3>5 DEF t
  <2>9. UNCHANGED cpus
    BY <2>1 DEF configuracion
  <2>10. /\ \A x \in Procesos : Contains(listos', x) =>
               Contains(listos, x) \/ x = p \/ (x \notin vivos /\ x \in vivos')
         /\ vivos \ {p} \subseteq vivos' /\ p \in vivos' /\ io' = io
    BY <2>1, <2>4, <2>8
  <2>11. EnUnLugar'
    BY <1>0, <2>3, <2>4, <2>7, <2>8, <2>9, <2>10, Soltar
  <2> QED BY <2>7, <2>11 DEF Despues
<1>10. CASE SyscallIO(c)
  <2> DEFINE p == llamada[c].pid
  <2>1. PICK nombre : Pide(c, nombre)
    BY <1>10 DEF SyscallIO
  <2>2. /\ Atendida(c) /\ io' = [io EXCEPT ![p] = llamada[c]] /\ libres' = libres \cup {c}
        /\ UNCHANGED <<configuracion, km, cpu, enviado, listos>>
    BY <1>10 DEF SyscallIO
  <2>3. p \in Procesos /\ p # NADA /\ Ocupante(c) = p
    BY <2>1, LlamadaSola
  <2>4. p \in vivos /\ ~Contains(listos, p)
    BY <2>3 DEF Antes, CopiasCoherentes, EnUnLugar
  <2>5. UNCHANGED <<cpus, contexto, vivos>>
    BY <2>2 DEF configuracion, km
  <2>6. /\ Coherentes' /\ Tablas' /\ Guardados' /\ Ocupante(c)' = NADA
        /\ \A d \in cpus \ {c} : Ocupante(d)' = Ocupante(d)
    BY <2>1, <2>2, <2>5, LiberarCopias
  <2>7. EnUnLugar'
    BY <1>0, <2>2, <2>3, <2>4, <2>5, <2>6, Soltar
  <2> QED BY <2>6, <2>7 DEF Despues
<1>11. CASE Exit(c)
  <2> DEFINE p == llamada[c].pid
  <2>1. /\ Pide(c, "EXIT") /\ Atendida(c) /\ vivos' = vivos \ {p}
        /\ contexto' = [contexto EXCEPT ![p] = ContextoVacio] /\ libres' = libres \cup {c}
        /\ UNCHANGED <<configuracion, memoria, cpu, enviado, listos, io>>
    BY <1>11 DEF Exit
  <2>2. /\ p \in Procesos /\ p # NADA /\ Ocupante(c) = p
        /\ \A d \in cpus : cpu[d].pc \in EnCiclo => cpu[d].pid # p
    BY <2>1, LlamadaSola
  <2>3. io[p] = SinLlamada /\ ~Contains(listos, p)
    BY <2>2 DEF Antes, CopiasCoherentes, EnUnLugar
  <2>4. \A d \in cpus : cpu[d].pc \in EnCiclo /\ cpu[d].pid \in vivos =>
           cpu[d].pid \in vivos' /\ contexto'[cpu[d].pid].tabla = contexto[cpu[d].pid].tabla
    BY <1>0, <2>1, <2>2
  <2>5. /\ Coherentes' /\ Tablas' /\ Guardados' /\ Ocupante(c)' = NADA
        /\ \A d \in cpus \ {c} : Ocupante(d)' = Ocupante(d)
    BY <2>1, <2>4, LiberarCopias
  <2>6. UNCHANGED cpus
    BY <2>1 DEF configuracion
  <2>7. EnUnLugar'
    BY <1>0, <2>1, <2>2, <2>3, <2>5, <2>6, Soltar
  <2> QED BY <2>5, <2>7 DEF Despues
<1>12. CASE PedirCompactacion(c)
  <2>1. UNCHANGED <<configuracion, km, cpu, planificador>>
    BY <1>12, Zenon DEF PedirCompactacion
  <2> QED BY <2>1, QuietoCopias
<1> QED BY <1>1, <1>2, <1>4, <1>5, <1>6, <1>7, <1>8, <1>9, <1>10, <1>11, <1>12 DEF Manejador

LEMMA DespacharCopias ==
  ASSUME Antes, NEW c \in cpus, Despachar(c)
  PROVE  Despues
<1> USE DEF Antes, CopiasCoherentes
<1> DEFINE p == Head(listos)
<1>1. /\ listos # <<>> /\ c \in libres /\ enviado' = [enviado EXCEPT ![c] = p]
      /\ listos' = Tail(listos) /\ libres' = libres \ {c}
      /\ UNCHANGED <<configuracion, km, cpu, llamada, io>>
  BY DEF Despachar
<1>2. enviado'[c] = p /\ \A d \in cpus \ {c} : enviado'[d] = enviado[d]
  BY <1>1 DEF Tipos, TiposPlanificador
<1>3. SoloDe(c) /\ UNCHANGED <<cpus, rr, contexto, vivos>>
  BY <1>1, <1>2 DEF SoloDe, configuracion, km
<1>4. listos \in Seq(Procesos) /\ IsInjective(listos)
  BY DEF Tipos, TiposPlanificador, EnUnLugar
<1>5. /\ p \in Procesos /\ IsInjective(listos') /\ Contains(listos, p)
      /\ \A q : Contains(listos', q) <=> Contains(listos, q) /\ q # p
  BY <1>1, <1>4, SinPrimero
<1>6. CpuCoherente(c) /\ Ocupante(c) = NADA
  BY <1>1 DEF Coherentes, CpuCoherente
<1> HIDE DEF p
<1>7. p # NADA /\ p \in vivos /\ io[p] = SinLlamada
  BY <1>5, NadaAssumption DEF EnUnLugar
<1>8. enviado[c] = NADA /\ llamada[c].pid = NADA /\ cpu[c].pc \in {"espera", "guardar"}
  <2>1. enviado[c] = NADA
    BY <1>6 DEF Ocupante
  <2>2. cpu[c].pc # "espera" => cpu[c].pid \in Procesos
    BY DEF Tipos, TiposCpu, TipoCpu
  <2> QED BY <1>6, <2>1, <2>2, NadaAssumption DEF Ocupante
<1>9. Ocupante(c)' = p
  BY <1>2, <1>7 DEF Ocupante
<1>10. CpuCoherente(c)'
  BY <1>1, <1>3, <1>6, <1>8 DEF CpuCoherente
<1>11. libres' \subseteq libres \cup {c}
  BY <1>1
<1>12. Coherentes'
  BY <1>3, <1>10, <1>11, CoherentesDeOtros
<1>13. Tablas'
  BY <1>1, <1>3, TablasDeCargados
<1>14. \A d \in cpus \ {c} : Ocupante(d)' = Ocupante(d)
  BY <1>3, OcupanteDeOtro
<1>15. \A d \in cpus : Ocupante(d) # NADA => Ocupante(d) # p
  BY <1>5 DEF EnUnLugar
<1>16. \A d \in cpus : Ocupante(d) \in Procesos \cup {NADA}
  BY OcupanteTipo
<1>17. UNCHANGED <<io, SinLlamada>>
  BY <1>1 DEF SinLlamada
<1>18. EnUnLugar'
  <2> HIDE DEF Ocupante, SinLlamada
  <2>1. \A d, e \in cpus' : Ocupante(d)' = Ocupante(e)' /\ Ocupante(d)' # NADA => d = e
    BY <1>3, <1>9, <1>14, <1>15 DEF EnUnLugar
  <2>2. ASSUME NEW d \in cpus', Ocupante(d)' # NADA
        PROVE  /\ Ocupante(d)' \in vivos' /\ io'[Ocupante(d)'] = SinLlamada
               /\ ~Contains(listos', Ocupante(d)')
    <3>1. CASE d = c
      BY <1>3, <1>5, <1>7, <1>9, <1>17, <3>1
    <3>2. CASE d # c
      <4>1. d \in cpus \ {c} /\ Ocupante(d)' = Ocupante(d) /\ Ocupante(d) # NADA
        BY <1>3, <1>14, <2>2, <3>2
      <4>2. Ocupante(d) \in vivos /\ io[Ocupante(d)] = SinLlamada /\ ~Contains(listos, Ocupante(d))
        BY <4>1 DEF EnUnLugar
      <4> QED BY <1>3, <1>5, <1>17, <4>1, <4>2
    <3> QED BY <3>1, <3>2
  <2>3. \A q \in Procesos : Contains(listos', q) => q \in vivos' /\ io'[q] = SinLlamada
    BY <1>3, <1>5, <1>17 DEF EnUnLugar
  <2>4. \A q \in Procesos : io'[q] # SinLlamada => q \in vivos'
    BY <1>3, <1>17 DEF EnUnLugar
  <2> QED BY <1>5, <1>17, <2>1, <2>2, <2>3, <2>4 DEF EnUnLugar
<1>19. Guardados'
  BY <1>1, <1>3, GuardadosQuedan
<1> QED BY <1>12, <1>13, <1>18, <1>19 DEF Despues

LEMMA TerminarIOCopias ==
  ASSUME Antes, NEW p \in Procesos, TerminarIO(p)
  PROVE  Despues
<1> USE DEF Antes, CopiasCoherentes
<1>1. /\ io[p] # SinLlamada /\ io' = [io EXCEPT ![p] = SinLlamada] /\ listos' = Append(listos, p)
      /\ UNCHANGED <<configuracion, contexto, vivos, cpu, enviado, llamada, libres>>
  BY DEF TerminarIO
<1>2. listos \in Seq(Procesos) /\ IsInjective(listos) /\ DOMAIN io = Procesos
  BY DEF Tipos, TiposPlanificador, EnUnLugar
<1>3. p \in vivos /\ ~Contains(listos, p) /\ \A d \in cpus : Ocupante(d) # NADA => Ocupante(d) # p
  BY <1>1 DEF EnUnLugar
<1>4. IsInjective(listos') /\ \A q : Contains(listos', q) <=> Contains(listos, q) \/ q = p
  BY <1>1, <1>2, <1>3, AlFinal
<1>5. UNCHANGED <<cpus, rr>>
  BY <1>1 DEF configuracion
<1>6. \A d \in cpus : Ocupante(d)' = Ocupante(d)
  BY <1>1 DEF Ocupante
<1>7. Coherentes'
  <2>1. ASSUME NEW d \in cpus PROVE CpuCoherente(d)'
    BY <1>1, <1>5, <1>6 DEF Coherentes, CpuCoherente
  <2> QED BY <1>5, <2>1 DEF Coherentes
<1>8. Tablas'
  BY <1>1, <1>5, TablasDeCargados
<1>9. SinLlamada' = SinLlamada
  BY DEF SinLlamada
<1>10. \A d \in cpus : Ocupante(d) \in Procesos \cup {NADA}
  BY OcupanteTipo
<1>11. EnUnLugar'
  <2> HIDE DEF Ocupante, SinLlamada
  <2>1. \A d, e \in cpus' : Ocupante(d)' = Ocupante(e)' /\ Ocupante(d)' # NADA => d = e
    BY <1>5, <1>6 DEF EnUnLugar
  <2>2. ASSUME NEW d \in cpus', Ocupante(d)' # NADA
        PROVE  /\ Ocupante(d)' \in vivos' /\ io'[Ocupante(d)'] = SinLlamada
               /\ ~Contains(listos', Ocupante(d)')
    <3>1. d \in cpus /\ Ocupante(d)' = Ocupante(d) /\ Ocupante(d) # NADA
      BY <1>5, <1>6, <2>2
    <3>2. /\ Ocupante(d) \in vivos /\ io[Ocupante(d)] = SinLlamada /\ ~Contains(listos, Ocupante(d))
          /\ Ocupante(d) # p /\ Ocupante(d) \in Procesos
      BY <1>3, <1>10, <3>1 DEF EnUnLugar
    <3> QED BY <1>1, <1>2, <1>4, <3>1, <3>2
  <2>3. \A q \in Procesos : Contains(listos', q) => q \in vivos' /\ io'[q] = SinLlamada
    BY <1>1, <1>2, <1>3, <1>4 DEF EnUnLugar
  <2>4. \A q \in Procesos : io'[q] # SinLlamada => q \in vivos'
    BY <1>1, <1>2 DEF EnUnLugar
  <2> QED BY <1>4, <1>9, <2>1, <2>2, <2>3, <2>4 DEF EnUnLugar
<1>12. Guardados'
  BY <1>1, <1>5, GuardadosQuedan
<1> QED BY <1>7, <1>8, <1>11, <1>12 DEF Despues

(* The invariant: it says nothing of what is left of a context that has been *)
(* overtaken, but the steps that overtake one are the only ones that break   *)
(* it.                                                                      *)
CopiasMientras == Tipos /\ (~adelantado => CopiasCoherentes)

LEMMA CopiasPaso ==
  CopiasMientras /\ Tipos' /\ [Next]_vars => CopiasMientras'
<1> SUFFICES ASSUME CopiasMientras, Tipos', [Next]_vars, ~adelantado' PROVE CopiasCoherentes'
  BY DEF CopiasMientras
<1>1. CASE UNCHANGED vars
  <2>1. UNCHANGED <<configuracion, km, cpu, planificador, adelantado>>
    BY <1>1 DEF vars, compactacion
  <2>2. Antes
    BY <2>1 DEF Antes, CopiasMientras
  <2> QED BY <2>1, <2>2, QuietoCopias DEF Despues, CopiasCoherentes
<1>2. CASE Next /\ ~UNCHANGED vars
  <2>1. ~adelantado /\ ((\E c \in cpus : Cpu(c) \/ Manejador(c) \/ Despachar(c)) \/ \E p \in Procesos : TerminarIO(p))
    BY <1>2 DEF Next, Reposo
  <2>2. Antes
    BY <2>1 DEF Antes, CopiasMientras
  <2>3. Despues
    BY <2>1, <2>2, CpuCopias, ManejadorCopias, DespacharCopias, TerminarIOCopias
  <2> QED BY <2>3 DEF Despues, CopiasCoherentes
<1> QED BY <1>1, <1>2

LEMMA CopiasInvariante == Spec => []CopiasMientras
<1>1. Init /\ Tipos => CopiasMientras
  <2> SUFFICES ASSUME Init, Tipos PROVE CopiasCoherentes
    BY DEF CopiasMientras
  <2>1. /\ cpu = [c \in cpus |-> Ociosa] /\ enviado = [c \in cpus |-> NADA]
        /\ llamada = [c \in cpus |-> SinLlamada] /\ listos = <<Inicial>> /\ vivos = {Inicial}
        /\ io = [p \in Procesos |-> SinLlamada]
    BY DEF Init
  <2>2. \A c \in cpus : cpu[c].pc = "espera" /\ enviado[c] = NADA /\ llamada[c].pid = NADA
    <3>1. Ociosa.pc = "espera" /\ SinLlamada.pid = NADA
      BY DEF Ociosa, SinLlamada
    <3> HIDE DEF Ociosa, SinLlamada
    <3> QED BY <2>1, <3>1
  <2>3. \A c \in cpus : Ocupante(c) = NADA
    BY <2>2 DEF Ocupante
  <2>4. Coherentes
    BY <2>2, <2>3 DEF Coherentes, CpuCoherente
  <2>5. Tablas /\ Guardados
    BY <2>2 DEF Tablas, TablaAlDia, EnCiclo, Guardados
  <2>6. IsInjective(listos) /\ \A p : Contains(listos, p) => p = Inicial
    BY <2>1 DEF IsInjective, Contains
  <2>7. EnUnLugar
    <3> HIDE DEF SinLlamada
    <3> QED BY <2>1, <2>3, <2>6 DEF EnUnLugar
  <2> QED BY <2>4, <2>5, <2>7 DEF CopiasCoherentes
<1>2. CopiasMientras /\ Tipos' /\ [Next]_vars => CopiasMientras'
  BY CopiasPaso
<1> QED BY <1>1, <1>2, TiposInvariante, PTL DEF Spec

(* CopiaAlDia, for any number of CPUs, with a quantum and with compactions   *)
(* that do not wait for the saves: what a CPU writes back undoes nothing     *)
(* that was allocated, freed or moved while it had the context, until        *)
(* another CPU loads the process too soon or a compaction moves its segments *)
(* meanwhile.                                                               *)
THEOREM CopiaSiempreAlDia == Spec => []CopiaAlDia
<1>1. CopiasMientras => CopiaAlDia
  <2> SUFFICES ASSUME CopiasMientras, ~adelantado, NEW c \in cpus, NEW p \in Procesos, Cargado(c, p)
               PROVE  /\ cpu[c].ctx.tabla = contexto[p].tabla
                      /\ \A d \in cpus \ {c} : ~Cargado(d, p)
    BY DEF CopiaAlDia
  <2>1. Antes
    BY DEF Antes, CopiasMientras
  <2>2. cpu[c].ctx.tabla = contexto[p].tabla
    BY <2>1 DEF Antes, CopiasCoherentes, Tablas, Cargado, TablaAlDia
  <2>3. \A d \in cpus \ {c} : ~Cargado(d, p)
    BY <2>1, CargadoSolo DEF Cargado
  <2> QED BY <2>2, <2>3
<1> QED BY <1>1, CopiasInvariante, PTL

(* With one CPU no context is ever overtaken, so that CopiaAlDia holds to    *)
(* the end: the CPU that has not saved is the one that would load the        *)
(* process, and the one whose MEM_ALLOC compacts has stopped.               *)
UnaCpu == \A c, d \in cpus : c = d
ConUnaCpu == CopiasMientras /\ UnaCpu /\ ~adelantado

THEOREM UnaCpuNoSeAdelanta ==
  ASSUME \A k \in Configuraciones : \A c, d \in k.cpus : c = d
  PROVE  Spec => []~adelantado
<1>1. Init /\ CopiasMientras => ConUnaCpu
  <2> SUFFICES ASSUME Init, CopiasMientras PROVE ConUnaCpu
    OBVIOUS
  <2>1. PICK k \in Configuraciones : cpus = k.cpus
    BY DEF Init
  <2>2. UnaCpu /\ ~adelantado
    BY <2>1 DEF Init, UnaCpu
  <2> QED BY <2>2 DEF ConUnaCpu
<1>2. ConUnaCpu /\ CopiasMientras' /\ [Next]_vars => ConUnaCpu'
  <2> SUFFICES ASSUME ConUnaCpu, CopiasMientras', [Next]_vars PROVE UnaCpu' /\ ~adelantado'
    BY DEF ConUnaCpu
  <2>1. Antes /\ ~adelantado /\ \A c, d \in cpus : c = d
    BY DEF ConUnaCpu, CopiasMientras, Antes, UnaCpu
  <2>2. CASE UNCHANGED vars
    BY <2>1, <2>2 DEF vars, configuracion, compactacion, UnaCpu
  <2>3. ASSUME NEW c \in cpus, PedirContexto(c) PROVE ~adelantado'
    <3>1. cpu[c].pc = "contexto"
      BY <2>3 DEF PedirContexto, En
    <3> QED BY <2>1, <2>3, <3>1 DEF PedirContexto, En
  <2>4. ASSUME NEW c \in cpus, MemAllocCompactando(c) PROVE ~adelantado'
    <3>1. Pide(c, "MEM_ALLOC")
      BY <2>4 DEF MemAllocCompactando
    <3>2. \A d \in cpus : cpu[d].pc \notin EnCiclo
      BY <2>1, <3>1, LlamadaSola DEF EnCiclo
    <3> QED BY <2>4, <3>2 DEF MemAllocCompactando
  <2>5. ASSUME NEW c \in cpus, Cpu(c) PROVE UNCHANGED configuracion /\ (PedirContexto(c) \/ UNCHANGED adelantado)
    BY <2>5, Zenon DEF Cpu, RecibirPid, PedirContexto, Fetch, FetchFalla, ExecuteRegistros, MovIn, MovOut,
       CopyMemLeer, CopyMemEscribir, SegFault, Syscall, EnviarSyscall, Guardar, compactacion
  <2>6. ASSUME NEW c \in cpus, Manejador(c)
        PROVE  UNCHANGED configuracion /\ (MemAllocCompactando(c) \/ UNCHANGED adelantado)
    BY <2>6, Zenon DEF Manejador, TickSigue, TickDesaloja, MutexCreate, MemAllocRechazado, MemAlloc,
       PedirCompactacion, MemAllocCompactando, MemFree, InitProc, SyscallIO, Exit, Devolver, compactacion
  <2>7. ASSUME NEW c \in cpus, Despachar(c) PROVE UNCHANGED <<configuracion, adelantado>>
    BY <2>7 DEF Despachar
  <2>8. ASSUME NEW p \in Procesos, TerminarIO(p) PROVE UNCHANGED <<configuracion, adelantado>>
    BY <2>8, Zenon DEF TerminarIO, compactacion
  <2>9. CASE Next /\ ~UNCHANGED vars
    <3>1. (\E c \in cpus : Cpu(c) \/ Manejador(c) \/ Despachar(c)) \/ \E p \in Procesos : TerminarIO(p)
      BY <2>9 DEF Next, Reposo
    <3>2. UNCHANGED configuracion /\ ~adelantado'
      BY <2>1, <2>3, <2>4, <2>5, <2>6, <2>7, <2>8, <3>1
    <3> QED BY <2>1, <3>2 DEF configuracion, UnaCpu
  <2> QED BY <2>2, <2>9
<1>3. ConUnaCpu => ~adelantado
  BY DEF ConUnaCpu
<1> QED BY <1>1, <1>2, <1>3, CopiasInvariante, PTL DEF Spec
=============================================================================
