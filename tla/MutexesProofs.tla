---------------------------- MODULE MutexesProofs ----------------------------
(* Proofs about Mutexes, for any number of processes, CPUs, mutexes and     *)
(* priorities, and for any programs.                                        *)
EXTENDS Mutexes, Secuencias

(* What the variables of a thread hold where it uses them.                  *)
LocalHilo ==
  \A c \in CPUs :
    /\ hilo[c].pc # "libre" => hilo[c].proceso \in Procesos
    /\ hilo[c].pc \in {"sacar", "poner"} =>
         hilo[c].mutex \in Nombres /\ duenio[hilo[c].mutex] \in Procesos
    /\ hilo[c].pc = "despertar" => hilo[c].siguiente \in Procesos
    /\ hilo[c].pc \in {"despertar", "calcular", "asignar"} =>
         hilo[c].duenio_anterior \in Procesos
LocalDespachador == despachador.pc = "ejecutar" => despachador.proceso \in Procesos
(* mutex_interno excludes.                                                  *)
MutexInterno ==
  \A c, d \in CPUs : hilo[c].pc \in {"sacar", "poner"} /\ hilo[d].pc \in {"sacar", "poner"}
                       /\ hilo[c].mutex = hilo[d].mutex => c = d

Locales == LocalHilo /\ LocalDespachador /\ MutexInterno

(***************************************************************************)
(* The operators                                                            *)
(***************************************************************************)
LEMMA PrioridadesFacts == Prioridades \subseteq Nat /\ 0 \in Prioridades
BY CantPrioridadesAssumption DEF Prioridades

LEMMA NivelTipo ==
  ASSUME TypeOK, NEW p \in Procesos PROVE Nivel(p) \in Prioridades
BY PrioridadesFacts DEF TypeOK, Nivel

LEMMA AgregarAReadyTipo ==
  ASSUME TypeOK, NEW p \in Procesos, AgregarAReady(p)
  PROVE  ready' \in [Prioridades -> Seq(Procesos)] /\ tokens' \in Nat
<1>1. Nivel(p) \in Prioridades
  BY NivelTipo
<1>2. Append(ready[Nivel(p)], p) \in Seq(Procesos)
  BY <1>1, AppendProperties DEF TypeOK
<1> QED BY <1>1, <1>2 DEF AgregarAReady, TypeOK

LEMMA MinPrioridad ==
  ASSUME NEW S, S \subseteq Prioridades, S # {} PROVE Min(S) \in Prioridades
BY MinProperties, PrioridadesFacts

(* The instruction that is executed.                                        *)
LEMMA EjecutaTipo ==
  ASSUME TypeOK, LocalHilo, NEW c \in CPUs, NEW op, Ejecuta(c, op)
  PROVE  /\ hilo[c].proceso \in Procesos
         /\ pos' = [pos EXCEPT ![hilo[c].proceso] = @ + 1]
         /\ pos' \in [Procesos -> Nat \ {0}]
         /\ op \in {"CREATE", "LOCK", "UNLOCK"} => Operando(c) \in Nombres
<1> DEFINE p == hilo[c].proceso
           f == programa[p]
<1>1. p \in Procesos /\ programa \in Programas
  BY DEF Ejecuta, LocalHilo, TypeOK
<1>2. f \in Seq((Operaciones \X Nombres) \cup ({"NOOP", "SLEEP", "EXIT"} \X {NADIE}))
  BY <1>1, ProgramasAssumption
<1>3. f[pos[p]] \in (Operaciones \X Nombres) \cup ({"NOOP", "SLEEP", "EXIT"} \X {NADIE})
  BY <1>2, ElementOfSeq, LenProperties DEF Ejecuta
<1>4. f[pos[p]][1] = op
  BY DEF Ejecuta
<1>5. op \in {"CREATE", "LOCK", "UNLOCK"} => f[pos[p]][2] \in Nombres
  <2> HIDE DEF f
  <2> QED BY <1>3, <1>4
<1>6. pos' = [pos EXCEPT ![p] = @ + 1] /\ pos' \in [Procesos -> Nat \ {0}]
  BY <1>1 DEF Ejecuta, TypeOK
<1> QED BY <1>1, <1>5, <1>6 DEF Operando

LEMMA InitFacts ==
  ASSUME Init
  PROVE  /\ ready \in [Prioridades -> Seq(Procesos)]
         /\ \A n \in Prioridades : IsInjective(ready[n])
         /\ \A n \in Prioridades, i \in Procesos : Contains(ready[n], i) => NivelInicial(i) = n
         /\ \A i \in Procesos : \E n \in Prioridades : Contains(ready[n], i)
<1> DEFINE delNivel(n) == {p \in Procesos : NivelInicial(p) = n}
<1>1. ready \in [Prioridades -> UNION {SetToSeqs(delNivel(n)) : n \in Prioridades}]
      /\ \A n \in Prioridades : ready[n] \in SetToSeqs(delNivel(n))
  BY DEF Init
<1>2. \A n \in Prioridades : IsFiniteSet(delNivel(n))
  BY FinitosAssumption, FS_Subset
<1>3. \A n \in Prioridades : ready[n] \in Seq(delNivel(n)) /\ IsInjective(ready[n])
  <2> HIDE DEF delNivel
  <2> QED BY <1>1, <1>2, SetToSeqsFacts
<1>4. \A n \in Prioridades : \A i \in 1 .. Len(ready[n]) : ready[n][i] \in delNivel(n)
  <2> HIDE DEF delNivel
  <2> QED BY <1>3, ElementOfSeq
<1>5. \A n \in Prioridades : ready[n] \in Seq(Procesos)
  <2> TAKE n \in Prioridades
  <2>1. Len(ready[n]) \in Nat /\ ready[n] \in [1 .. Len(ready[n]) -> delNivel(n)]
    <3> HIDE DEF delNivel
    <3> QED BY <1>3, LenProperties
  <2> QED BY <2>1, <1>4
<1>6. \A n \in Prioridades : \A p \in delNivel(n) : Contains(ready[n], p)
  <2> HIDE DEF delNivel
  <2> QED BY <1>1, <1>2, SetToSeqsFacts
<1>7. \A p \in Procesos : NivelInicial(p) \in Prioridades
  BY PrioridadesFacts, PrioridadOriginalAssumption DEF NivelInicial
<1> QED BY <1>1, <1>3, <1>4, <1>5, <1>6, <1>7 DEF Contains

LEMMA TipoInit == Init => TypeOK /\ Locales
<1> SUFFICES ASSUME Init PROVE TypeOK /\ Locales
  OBVIOUS
<1>1. tokens \in Nat
  BY FinitosAssumption, FS_CardinalityType DEF Init
<1>2. Libre \in TipoHilo
  BY PrioridadesFacts DEF Libre, TipoHilo
<1>3. hilo \in [CPUs -> TipoHilo]
  BY <1>2 DEF Init
<1>4. bloqueados \in [Nombres -> Seq(Procesos)]
  BY DEF Init
<1>5. TypeOK
  BY <1>1, <1>3, <1>4, InitFacts, CreadosAssumption, PrioridadOriginalAssumption DEF Init, TypeOK
<1>6. Locales
  BY DEF Init, Libre, Locales, LocalHilo, LocalDespachador, MutexInterno
<1> QED BY <1>5, <1>6

(***************************************************************************)
(* Types and local variables                                                *)
(***************************************************************************)
(* Most steps change the thread of one CPU.                                 *)
LEMMA TipoDeUnHilo ==
  ASSUME hilo \in [CPUs -> TipoHilo], NEW c \in CPUs, NEW h \in TipoHilo,
         hilo' = [hilo EXCEPT ![c] = h]
  PROVE  /\ hilo' \in [CPUs -> TipoHilo]
         /\ hilo'[c] = h
         /\ \A d \in CPUs : d # c => hilo'[d] = hilo[d]
OBVIOUS

LEMMA LocalesDeUnHilo ==
  ASSUME TypeOK, Locales, NEW c \in CPUs, NEW h \in TipoHilo, hilo' = [hilo EXCEPT ![c] = h],
         h.pc # "libre" => h.proceso \in Procesos,
         h.pc \in {"sacar", "poner"} =>
           h.mutex \in Nombres /\ duenio[h.mutex] \in Procesos /\ UNCHANGED duenio
           /\ (\/ hilo[c].pc \in {"sacar", "poner"} /\ hilo[c].mutex = h.mutex
               \/ MutexInternoLibre(h.mutex)),
         h.pc = "despertar" => h.siguiente \in Procesos,
         h.pc \in {"despertar", "calcular", "asignar"} => h.duenio_anterior \in Procesos,
         UNCHANGED duenio \/ \E m \in Nombres : /\ MutexInternoLibre(m)
                                                /\ \A k \in Nombres : k # m => duenio'[k] = duenio[k],
         UNCHANGED despachador
  PROVE  Locales'
<1>1. hilo'[c] = h /\ \A d \in CPUs : d # c => hilo'[d] = hilo[d]
  BY TipoDeUnHilo DEF TypeOK
<1>2. LocalDespachador'
  BY DEF Locales, LocalDespachador
<1>3. MutexInterno'
  BY <1>1 DEF Locales, MutexInterno, MutexInternoLibre
<1>4. LocalHilo'
  BY <1>1 DEF Locales, LocalHilo, MutexInternoLibre
<1> QED BY <1>2, <1>3, <1>4 DEF Locales

(* A CPU is given back.                                                     *)
LEMMA TipoLiberar ==
  ASSUME TypeOK, Locales, NEW c \in CPUs, hilo' = [hilo EXCEPT ![c] = Libre],
         UNCHANGED <<duenio, despachador>>
  PROVE  hilo' \in [CPUs -> TipoHilo] /\ Locales'
<1>1. Libre \in TipoHilo
  BY PrioridadesFacts DEF Libre, TipoHilo
<1>2. hilo' \in [CPUs -> TipoHilo]
  BY <1>1, TipoDeUnHilo DEF TypeOK
<1>3. Locales'
  BY <1>1, LocalesDeUnHilo DEF Libre
<1> QED BY <1>2, <1>3

LEMMA LocalesSinHilo ==
  ASSUME Locales, UNCHANGED <<hilo, duenio>>, LocalDespachador'
  PROVE  Locales'
<1>1. LocalHilo' /\ MutexInterno'
  BY DEF Locales, LocalHilo, MutexInterno
<1> QED BY <1>1 DEF Locales

(* The dispatcher.                                                          *)
LEMMA TipoDespachador ==
  ASSUME TypeOK, Locales, Despachador
  PROVE  TypeOK' /\ Locales'
<1>1. CASE EsperarToken
  <2>1. despachador' = [despachador EXCEPT !.pc = "sacar"] /\ tokens' = tokens - 1 /\ tokens > 0
    BY <1>1 DEF EsperarToken
  <2>2. Locales'
    <3>1. despachador'.pc = "sacar"
      BY <2>1 DEF TypeOK
    <3> QED BY <1>1, <3>1, LocalesSinHilo DEF EsperarToken, mutexes, LocalDespachador
  <2>3. TypeOK'
    <3>1. tokens' \in Nat
      BY <2>1 DEF TypeOK
    <3>2. /\ programa' = programa /\ pos' = pos /\ prioridad' = prioridad /\ estado' = estado
          /\ creados' = creados /\ duenio' = duenio /\ bloqueados' = bloqueados /\ ready' = ready
          /\ hilo' = hilo /\ enIO' = enIO /\ terminados' = terminados
          /\ enBlock' = enBlock /\ enSuspBlock' = enSuspBlock /\ timers' = timers
      BY <1>1 DEF EsperarToken, proceso, pcb, mutexes, bloqueos
    <3> QED BY <2>1, <3>1, <3>2 DEF TypeOK
  <2> QED BY <2>2, <2>3
<1>2. CASE SacarSiguiente
  <2> DEFINE conGente == {n \in Prioridades : ready[n] # <<>>}
             n == Min(conGente)
  <2>1. CASE conGente = {}
    <3>1. despachador' = [despachador EXCEPT !.pc = "nulo"] /\ UNCHANGED ready
      BY <1>2, <2>1 DEF SacarSiguiente
    <3>2. Locales'
      BY <1>2, <3>1, LocalesSinHilo DEF SacarSiguiente, mutexes, TypeOK, LocalDespachador
    <3>3. TypeOK'
      BY <1>2, <3>1 DEF SacarSiguiente, proceso, pcb, mutexes, bloqueos, TypeOK
    <3> QED BY <3>2, <3>3
  <2>2. CASE conGente # {}
    <3>1. n \in conGente
      BY <2>2, MinProperties, PrioridadesFacts
    <3>2. despachador' = [pc |-> "ejecutar", proceso |-> Head(ready[n])]
          /\ ready' = [ready EXCEPT ![n] = Tail(@)]
      BY <1>2, <2>2 DEF SacarSiguiente
    <3>3. n \in Prioridades /\ Head(ready[n]) \in Procesos /\ Tail(ready[n]) \in Seq(Procesos)
      BY <3>1, HeadTailProperties DEF TypeOK
    <3> HIDE DEF n
    <3>4. Locales'
      BY <1>2, <3>2, <3>3, LocalesSinHilo DEF SacarSiguiente, mutexes, LocalDespachador
    <3>5. TypeOK'
      BY <1>2, <3>2, <3>3 DEF SacarSiguiente, proceso, pcb, mutexes, bloqueos, TypeOK
    <3> QED BY <3>4, <3>5
  <2> QED BY <2>1, <2>2
<1>3. ASSUME NEW c \in CPUs, EjecutarEn(c) PROVE TypeOK' /\ Locales'
  <2> DEFINE p == despachador.proceso
             h == [hilo[c] EXCEPT !.pc = "corre", !.proceso = p]
  <2>1. p \in Procesos
    BY <1>3 DEF EjecutarEn, Locales, LocalDespachador
  <2>2. h \in TipoHilo /\ h.pc = "corre" /\ h.proceso = p
    <3>1. hilo[c] \in TipoHilo
      BY DEF TypeOK
    <3> HIDE DEF p
    <3> QED BY <2>1, <3>1 DEF TipoHilo
  <2>3. hilo' = [hilo EXCEPT ![c] = h]
    BY <1>3 DEF EjecutarEn
  <2> HIDE DEF h
  <2>4. hilo' \in [CPUs -> TipoHilo] /\ hilo'[c] = h /\ \A d \in CPUs : d # c => hilo'[d] = hilo[d]
    BY <2>2, <2>3, TipoDeUnHilo DEF TypeOK
  <2>5. LocalHilo' /\ MutexInterno'
    BY <1>3, <2>1, <2>2, <2>4 DEF EjecutarEn, mutexes, Locales, LocalHilo, MutexInterno
  <2>6. despachador' = [pc |-> "esperar", proceso |-> NADIE]
    BY <1>3 DEF EjecutarEn
  <2>7. TypeOK'
    BY <1>3, <2>1, <2>4, <2>6 DEF EjecutarEn, proceso, mutexes, colas, bloqueos, TypeOK
  <2> QED BY <2>5, <2>6, <2>7 DEF Locales, LocalDespachador
<1> QED BY <1>1, <1>2, <1>3 DEF Despachador

(* The instructions.                                                        *)
LEMMA TipoCpu ==
  ASSUME TypeOK, Locales, NEW c \in CPUs, Cpu(c)
  PROVE  TypeOK' /\ Locales'
<1> DEFINE p == hilo[c].proceso
           m == Operando(c)
           h == hilo'[c]
<1>0. PICK op \in Operaciones : Ejecuta(c, op)
  BY DEF Cpu, NoopSigue, NoopDesaloja, Sleep, CrearMutex, LockInexistente, LockLibre,
     LockOcupado, Unlock, Exit, Operaciones
<1>1. /\ p \in Procesos /\ pos' \in [Procesos -> Nat \ {0}] /\ programa' = programa
      /\ hilo[c].pc = "corre" /\ hilo[c] \in TipoHilo
  BY <1>0, EjecutaTipo DEF Locales, Ejecuta, TypeOK
<1>2. CASE NoopSigue(c)
  BY <1>1, <1>2 DEF NoopSigue, pcb, mutexes, colas, bloqueos, TypeOK, Locales, LocalHilo,
     LocalDespachador, MutexInterno
<1>3. CASE NoopDesaloja(c)
  <2>1. hilo' \in [CPUs -> TipoHilo] /\ Locales'
    BY <1>3, TipoLiberar DEF NoopDesaloja, mutexes
  <2>2. ready' \in [Prioridades -> Seq(Procesos)] /\ tokens' \in Nat
    BY <1>1, <1>3, AgregarAReadyTipo DEF NoopDesaloja
  <2> QED BY <1>1, <1>3, <2>1, <2>2 DEF NoopDesaloja, mutexes, bloqueos, TypeOK
<1>4. CASE Sleep(c)
  <2>1. hilo' \in [CPUs -> TipoHilo] /\ Locales'
    BY <1>4, TipoLiberar DEF Sleep, mutexes
  <2> QED BY <1>1, <1>4, <2>1 DEF Sleep, mutexes, colas, bloqueos, TypeOK
<1>5. CASE CrearMutex(c)
  <2>1. m \in Nombres
    BY <1>5, EjecutaTipo DEF CrearMutex, Locales
  <2> QED BY <1>1, <1>5, <2>1 DEF CrearMutex, pcb, colas, bloqueos, TypeOK, Locales,
             LocalHilo, LocalDespachador, MutexInterno
<1>6. CASE LockInexistente(c)
  <2>1. hilo' \in [CPUs -> TipoHilo] /\ Locales'
    BY <1>6, TipoLiberar DEF LockInexistente, mutexes
  <2> QED BY <1>1, <1>6, <2>1 DEF LockInexistente, pcb, mutexes, colas, bloqueos, TypeOK
<1>7. CASE LockLibre(c)
  <2>1. m \in Nombres /\ duenio' = [duenio EXCEPT ![m] = p] /\ MutexInternoLibre(m)
    BY <1>7, EjecutaTipo DEF LockLibre, Locales
  <2>2. LocalHilo'
    <3> HIDE DEF m, p
    <3> QED BY <1>1, <1>7, <2>1 DEF LockLibre, Locales, LocalHilo, MutexInternoLibre, TypeOK
  <2> HIDE DEF m, p
  <2>3. Locales'
    BY <1>7, <2>2 DEF LockLibre, Locales, LocalDespachador, MutexInterno
  <2>4. /\ duenio' \in [Nombres -> Procesos \cup {NADIE}] /\ pos' \in [Procesos -> Nat \ {0}]
        /\ UNCHANGED <<programa, pcb, creados, bloqueados, colas, despachador, hilo, enIO,
                       bloqueos, terminados>>
    <3>1. duenio \in [Nombres -> Procesos \cup {NADIE}]
      BY DEF TypeOK
    <3>2. duenio' \in [Nombres -> Procesos \cup {NADIE}]
      BY <1>1, <2>1, <3>1
    <3> QED BY <1>1, <1>7, <3>2 DEF LockLibre, Ejecuta
  <2>5. TypeOK'
    BY <2>4 DEF pcb, colas, bloqueos, TypeOK
  <2> QED BY <2>3, <2>5
<1>8. CASE LockOcupado(c)
  <2> DEFINE d == duenio[m]
             sube == prioridad[p] < prioridad[d]
             x == IF sube /\ estado[d] = "READY" THEN "sacar" ELSE "bloquear"
             g == [hilo[c] EXCEPT !.mutex = m, !.pc = x]
  <2>1. m \in Nombres /\ MutexInternoLibre(m) /\ d # NADIE
    BY <1>8, EjecutaTipo DEF LockOcupado, Locales
  <2>2. d \in Procesos
    BY <2>1 DEF TypeOK
  <2>3. bloqueados' = [bloqueados EXCEPT ![m] = Append(@, p)]
        /\ prioridad' = (IF sube THEN [prioridad EXCEPT ![d] = prioridad[p]] ELSE prioridad)
        /\ hilo' = [hilo EXCEPT ![c].mutex = m, ![c].pc = x]
        /\ UNCHANGED <<estado, creados, duenio, colas, despachador, enIO, bloqueos, terminados>>
    BY <1>8 DEF LockOcupado
  <2> HIDE DEF m, d
  <2>4. bloqueados' \in [Nombres -> Seq(Procesos)]
    BY <1>1, <2>1, <2>3, AppendProperties DEF TypeOK
  <2>5. prioridad' \in [Procesos -> Prioridades]
    BY <1>1, <2>2, <2>3 DEF TypeOK
  <2> HIDE DEF sube, p
  <2>6. x \in {"sacar", "bloquear"}
    OBVIOUS
  <2> HIDE DEF x
  <2>7. g \in TipoHilo /\ hilo' = [hilo EXCEPT ![c] = g]
        /\ g.pc = x /\ g.mutex = m /\ g.proceso = hilo[c].proceso
    BY <1>1, <2>1, <2>3, <2>6 DEF TypeOK, TipoHilo
  <2> HIDE DEF g
  <2>8. hilo' \in [CPUs -> TipoHilo]
    BY <2>7, TipoDeUnHilo DEF TypeOK
  <2>9. Locales'
    BY <1>1, <2>1, <2>2, <2>3, <2>6, <2>7, LocalesDeUnHilo DEF p, d
  <2> QED BY <1>1, <2>3, <2>4, <2>5, <2>8, <2>9 DEF colas, bloqueos, TypeOK
<1>9. CASE Unlock(c)
  <2> DEFINE g == [hilo[c] EXCEPT !.pc = "soltar", !.liberar = <<m>>]
  <2>1. m \in Nombres
    BY <1>9, EjecutaTipo DEF Unlock, Locales
  <2>2. hilo' = [hilo EXCEPT ![c] = g]
    BY <1>9 DEF Unlock
  <2> HIDE DEF m
  <2>3. <<m>> \in Seq(Nombres)
    BY <2>1
  <2>4. g \in TipoHilo /\ g.pc = "soltar" /\ g.proceso = p
    BY <1>1, <2>3 DEF TipoHilo
  <2> HIDE DEF g
  <2>5. hilo' \in [CPUs -> TipoHilo]
    BY <2>2, <2>4, TipoDeUnHilo DEF TypeOK
  <2>6. Locales'
    BY <1>1, <1>9, <2>2, <2>4, LocalesDeUnHilo DEF Unlock, mutexes
  <2> QED BY <1>1, <1>9, <2>5, <2>6 DEF Unlock, pcb, mutexes, colas, bloqueos, TypeOK
<1>10. CASE Exit(c)
  <2> DEFINE S == {k \in Nombres : duenio[k] = p}
  <2>1. PICK nombres \in SetToSeqs(S) :
          hilo' = [hilo EXCEPT ![c].pc = "soltar", ![c].liberar = nombres]
    BY <1>10 DEF Exit
  <2> DEFINE g == [hilo[c] EXCEPT !.pc = "soltar", !.liberar = nombres]
  <2>2. nombres \in Seq(Nombres)
    <3>1. IsFiniteSet(S) /\ S \subseteq Nombres
      BY FinitosAssumption, FS_Subset
    <3> HIDE DEF S
    <3>2. nombres \in Seq(S)
      BY <2>1, <3>1, SetToSeqsFacts
    <3> QED BY <3>1, <3>2
  <2>3. g \in TipoHilo /\ hilo' = [hilo EXCEPT ![c] = g] /\ g.pc = "soltar" /\ g.proceso = p
    BY <1>1, <2>1, <2>2 DEF TypeOK, TipoHilo
  <2> HIDE DEF g
  <2>4. hilo' \in [CPUs -> TipoHilo]
    BY <2>3, TipoDeUnHilo DEF TypeOK
  <2>5. Locales'
    BY <1>1, <1>10, <2>3, LocalesDeUnHilo DEF Exit, mutexes
  <2> QED BY <1>1, <1>10, <2>4, <2>5 DEF Exit, mutexes, colas, bloqueos, TypeOK
<1> QED BY <1>2, <1>3, <1>4, <1>5, <1>6, <1>7, <1>8, <1>9, <1>10 DEF Cpu

(* A lock: the owner is moved in ready, and the process enters BLOCK.       *)
LEMMA TipoLock ==
  ASSUME TypeOK, Locales, NEW c \in CPUs, SacarDuenio(c) \/ PonerDuenio(c) \/ Bloquear(c)
  PROVE  TypeOK' /\ Locales'
<1> DEFINE d == duenio[hilo[c].mutex]
           p == hilo[c].proceso
<1>0. hilo[c] \in TipoHilo
  BY DEF TypeOK
<1>1. CASE SacarDuenio(c)
  <2> DEFINE x == IF EnReady(d) THEN "poner" ELSE "bloquear"
             g == [hilo[c] EXCEPT !.pc = x]
  <2>1. hilo[c].pc = "sacar" /\ p \in Procesos /\ hilo[c].mutex \in Nombres /\ d \in Procesos
    BY <1>1 DEF SacarDuenio, Locales, LocalHilo
  <2>2. ready' \in [Prioridades -> Seq(Procesos)]
    <3>1. \A n \in Prioridades : RemoveFirst(ready[n], d) \in Seq(Procesos)
      BY RemoveFirstProperties DEF TypeOK
    <3> HIDE DEF d
    <3> QED BY <1>1, <3>1 DEF SacarDuenio, d
  <2>3. hilo' = [hilo EXCEPT ![c] = g]
    BY <1>1 DEF SacarDuenio
  <2>4. x \in {"poner", "bloquear"}
    OBVIOUS
  <2> HIDE DEF x
  <2>5. g \in TipoHilo /\ g.pc = x /\ g.proceso = p /\ g.mutex = hilo[c].mutex
    BY <1>0, <2>4 DEF TipoHilo
  <2> HIDE DEF g
  <2>6. hilo' \in [CPUs -> TipoHilo]
    BY <2>3, <2>5, TipoDeUnHilo DEF TypeOK
  <2>7. Locales'
    BY <1>1, <2>1, <2>3, <2>4, <2>5, LocalesDeUnHilo DEF SacarDuenio, mutexes
  <2>8. UNCHANGED <<proceso, pcb, mutexes, tokens, despachador, enIO, bloqueos, terminados>>
    BY <1>1 DEF SacarDuenio
  <2> QED BY <2>2, <2>6, <2>7, <2>8 DEF proceso, pcb, mutexes, bloqueos, TypeOK
<1>2. CASE PonerDuenio(c)
  <2> DEFINE g == [hilo[c] EXCEPT !.pc = "bloquear"]
  <2>1. hilo[c].pc = "poner" /\ p \in Procesos /\ d \in Procesos
    BY <1>2 DEF PonerDuenio, Locales, LocalHilo
  <2>2. ready' \in [Prioridades -> Seq(Procesos)]
    <3>1. Nivel(d) \in Prioridades /\ ready[Nivel(d)] \in Seq(Procesos)
      BY <2>1, NivelTipo DEF TypeOK
    <3>2. <<d>> \o ready[Nivel(d)] \in Seq(Procesos)
      BY <2>1, <3>1
    <3> QED BY <1>2, <3>1, <3>2 DEF PonerDuenio, TypeOK
  <2>3. hilo' = [hilo EXCEPT ![c] = g]
    BY <1>2 DEF PonerDuenio
  <2>4. g \in TipoHilo /\ g.pc = "bloquear" /\ g.proceso = p
    BY <1>0 DEF TipoHilo
  <2> HIDE DEF g
  <2>5. hilo' \in [CPUs -> TipoHilo]
    BY <2>3, <2>4, TipoDeUnHilo DEF TypeOK
  <2>6. Locales'
    BY <1>2, <2>1, <2>3, <2>4, LocalesDeUnHilo DEF PonerDuenio, mutexes
  <2>7. UNCHANGED <<proceso, pcb, mutexes, tokens, despachador, enIO, bloqueos, terminados>>
    BY <1>2 DEF PonerDuenio
  <2> QED BY <2>2, <2>5, <2>6, <2>7 DEF proceso, pcb, mutexes, bloqueos, TypeOK
<1>3. CASE Bloquear(c)
  <2>1. hilo' \in [CPUs -> TipoHilo] /\ Locales'
    BY <1>3, TipoLiberar DEF Bloquear, mutexes
  <2>2. p \in Procesos
    BY <1>3 DEF Bloquear, Locales, LocalHilo
  <2> HIDE DEF p
  <2>3. estado' \in [Procesos -> {"READY", "EXEC", "BLOCK", "SUSP_BLOCK", "EXIT"}]
        /\ enBlock' \in [Procesos -> Nat] /\ timers' \in [Procesos -> Nat]
    <3>1. enBlock[p] + 1 \in Nat /\ timers[p] + 1 \in Nat
      BY <2>2 DEF TypeOK
    <3>2. /\ estado' = [estado EXCEPT ![p] = "BLOCK"]
          /\ enBlock' = [enBlock EXCEPT ![p] = enBlock[p] + 1]
          /\ timers' = [timers EXCEPT ![p] = timers[p] + 1]
      BY <1>3 DEF Bloquear, p
    <3> QED BY <2>2, <3>1, <3>2 DEF TypeOK
  <2>4. UNCHANGED <<proceso, prioridad, mutexes, colas, despachador, enIO, enSuspBlock, terminados>>
    BY <1>3 DEF Bloquear
  <2> QED BY <2>1, <2>3, <2>4 DEF proceso, mutexes, colas, TypeOK
<1> QED BY <1>1, <1>2, <1>3

(* The handler of an unlock, or of the end of a process, goes on with       *)
(* another step.                                                            *)
LEMMA TipoSoltar ==
  ASSUME TypeOK, Locales, NEW c \in CPUs, SoltarNada(c) \/ SoltarMutex(c)
  PROVE  TypeOK' /\ Locales'
<1> DEFINE p == hilo[c].proceso
           m == Head(hilo[c].liberar)
           cola == Tail(hilo[c].liberar)
<1>1. hilo[c] \in TipoHilo /\ hilo[c].pc = "soltar" /\ hilo[c].liberar # <<>> /\ p \in Procesos
  BY DEF SoltarNada, SoltarMutex, Locales, LocalHilo, TypeOK
<1>2. hilo[c].liberar \in Seq(Nombres) /\ m \in Nombres /\ cola \in Seq(Nombres)
  <2>1. hilo[c].liberar \in Seq(Nombres)
    BY <1>1 DEF TipoHilo
  <2> QED BY <1>1, <2>1, HeadTailProperties
<1>3. CASE SoltarNada(c)
  <2> DEFINE g == [hilo[c] EXCEPT !.liberar = cola]
  <2>1. hilo' = [hilo EXCEPT ![c] = g]
    BY <1>3 DEF SoltarNada
  <2> HIDE DEF cola
  <2>2. g \in TipoHilo /\ g.pc = "soltar" /\ g.proceso = p
    BY <1>1, <1>2 DEF TipoHilo
  <2> HIDE DEF g
  <2>3. hilo' \in [CPUs -> TipoHilo]
    BY <2>1, <2>2, TipoDeUnHilo DEF TypeOK
  <2>4. Locales'
    BY <1>1, <1>3, <2>1, <2>2, LocalesDeUnHilo DEF SoltarNada, mutexes
  <2> QED BY <1>3, <2>3, <2>4 DEF SoltarNada, proceso, pcb, mutexes, colas, bloqueos, TypeOK
<1>4. ASSUME SoltarMutex(c), bloqueados[m] = <<>>
      PROVE  TypeOK' /\ Locales'
  <2> DEFINE g == [hilo[c] EXCEPT !.pc = "calcular", !.duenio_anterior = duenio[m], !.liberar = cola]
  <2>1. hilo' = [hilo EXCEPT ![c] = g]
    BY <1>4 DEF SoltarMutex
  <2>2. duenio' = [duenio EXCEPT ![m] = NADIE] /\ UNCHANGED <<prioridad, bloqueados>>
        /\ duenio[m] \in Procesos /\ MutexInternoLibre(m)
    BY <1>2, <1>4 DEF SoltarMutex, TypeOK
  <2> HIDE DEF cola, m
  <2>3. g \in TipoHilo /\ g.pc = "calcular" /\ g.proceso = p /\ g.duenio_anterior = duenio[m]
    BY <1>1, <1>2, <2>2 DEF TipoHilo
  <2> HIDE DEF g
  <2>4. hilo' \in [CPUs -> TipoHilo]
    BY <2>1, <2>3, TipoDeUnHilo DEF TypeOK
  <2>5. \A k \in Nombres : k # m => duenio'[k] = duenio[k]
    BY <1>2, <2>2 DEF TypeOK
  <2>6. Locales'
    BY <1>1, <1>2, <1>4, <2>1, <2>2, <2>3, <2>5, LocalesDeUnHilo DEF SoltarMutex
  <2> QED BY <1>2, <1>4, <2>2, <2>4, <2>6 DEF SoltarMutex, proceso, colas, bloqueos, TypeOK
<1>5. ASSUME SoltarMutex(c), bloqueados[m] # <<>>
      PROVE  TypeOK' /\ Locales'
  <2> DEFINE s == Head(bloqueados[m])
             resto == Tail(bloqueados[m])
             mejor == Min({prioridad[s]} \cup {prioridad[e] : e \in Range(resto)})
             g == [hilo[c] EXCEPT !.pc = "despertar", !.duenio_anterior = duenio[m],
                                  !.siguiente = s, !.liberar = cola]
  <2>1. hilo' = [hilo EXCEPT ![c] = g]
    BY <1>5 DEF SoltarMutex
  <2>2. /\ duenio' = [duenio EXCEPT ![m] = s] /\ bloqueados' = [bloqueados EXCEPT ![m] = resto]
        /\ prioridad' = [prioridad EXCEPT ![s] = mejor]
        /\ duenio[m] \in Procesos /\ MutexInternoLibre(m)
    BY <1>2, <1>5 DEF SoltarMutex, TypeOK
  <2>3. s \in Procesos /\ resto \in Seq(Procesos)
    BY <1>2, <1>5, HeadTailProperties DEF TypeOK
  <2>4. mejor \in Prioridades
    <3> DEFINE S == {prioridad[s]} \cup {prioridad[e] : e \in Range(resto)}
    <3>1. \A e \in Range(resto) : e \in Procesos
      <4> HIDE DEF resto
      <4> QED BY <2>3, ElementOfSeq, LenProperties DEF Range
    <3>2. S \subseteq Prioridades /\ S # {}
      <4>1. prioridad \in [Procesos -> Prioridades]
        BY DEF TypeOK
      <4> HIDE DEF s, resto
      <4>2. prioridad[s] \in Prioridades /\ \A e \in Range(resto) : prioridad[e] \in Prioridades
        BY <2>3, <3>1, <4>1
      <4> QED BY <4>1, <4>2
    <3> HIDE DEF S
    <3> QED BY <3>2, MinPrioridad DEF S
  <2> HIDE DEF cola, m, s, resto, mejor
  <2>5. g \in TipoHilo /\ g.pc = "despertar" /\ g.proceso = p /\ g.duenio_anterior = duenio[m]
        /\ g.siguiente = s
    BY <1>1, <1>2, <2>2, <2>3 DEF TipoHilo
  <2> HIDE DEF g
  <2>6. hilo' \in [CPUs -> TipoHilo]
    BY <2>1, <2>5, TipoDeUnHilo DEF TypeOK
  <2>7. \A k \in Nombres : k # m => duenio'[k] = duenio[k]
    BY <1>2, <2>2 DEF TypeOK
  <2>8. Locales'
    BY <1>1, <1>2, <1>5, <2>1, <2>2, <2>3, <2>5, <2>7, LocalesDeUnHilo DEF SoltarMutex, s
  <2> QED BY <1>2, <1>5, <2>2, <2>3, <2>4, <2>6, <2>8 DEF SoltarMutex, proceso, colas, bloqueos, TypeOK
<1> QED BY <1>3, <1>4, <1>5

(* The rest of the unlock, and its end.                                     *)
LEMMA TipoUnlock ==
  ASSUME TypeOK, Locales, NEW c \in CPUs,
         Despertar(c) \/ CalcularPrioridad(c) \/ AsignarPrioridad(c)
  PROVE  TypeOK' /\ Locales'
<1> DEFINE p == hilo[c].proceso
           d == hilo[c].duenio_anterior
<1>1. hilo[c] \in TipoHilo /\ p \in Procesos /\ d \in Procesos
  BY DEF Despertar, CalcularPrioridad, AsignarPrioridad, Locales, LocalHilo, TypeOK
<1>2. CASE Despertar(c)
  <2> DEFINE s == hilo[c].siguiente
             g == [hilo[c] EXCEPT !.pc = "calcular", !.siguiente = NADIE]
  <2>1. s \in Procesos
    BY <1>2 DEF Despertar, Locales, LocalHilo
  <2>2. hilo' = [hilo EXCEPT ![c] = g]
    BY <1>2 DEF Despertar
  <2>3. g \in TipoHilo /\ g.pc = "calcular" /\ g.proceso = p /\ g.duenio_anterior = d
    BY <1>1 DEF TipoHilo
  <2> HIDE DEF g, s
  <2>4. hilo' \in [CPUs -> TipoHilo]
    BY <2>2, <2>3, TipoDeUnHilo DEF TypeOK
  <2>5. Locales'
    BY <1>1, <1>2, <2>2, <2>3, LocalesDeUnHilo DEF Despertar, mutexes
  <2>6. ready' \in [Prioridades -> Seq(Procesos)] /\ tokens' \in Nat
    BY <1>2, <2>1, AgregarAReadyTipo DEF Despertar, s
  <2> QED BY <1>2, <2>1, <2>4, <2>5, <2>6 DEF Despertar, proceso, mutexes, bloqueos, TypeOK, s
<1>3. CASE CalcularPrioridad(c)
  <2> DEFINE x == PrioridadNecesaria(d)
             g == [hilo[c] EXCEPT !.pc = "asignar", !.correcta = x]
  <2>1. hilo' = [hilo EXCEPT ![c] = g]
    BY <1>3 DEF CalcularPrioridad
  <2>2. x \in Prioridades
    <3> DEFINE esperan == UNION {Range(bloqueados[m]) : m \in {n \in Nombres : duenio[n] = d}}
               S == {prioridad_original[d]} \cup {prioridad[e] : e \in esperan}
    <3>1. \A m \in Nombres : \A e \in Range(bloqueados[m]) : e \in Procesos
      BY ElementOfSeq, LenProperties DEF Range, TypeOK
    <3>2. \A e \in esperan : e \in Procesos
      BY <3>1
    <3>3. S \subseteq Prioridades /\ S # {}
      <4>1. prioridad \in [Procesos -> Prioridades] /\ prioridad_original[d] \in Prioridades
        BY <1>1, PrioridadOriginalAssumption DEF TypeOK
      <4> HIDE DEF esperan, d
      <4>2. \A e \in esperan : prioridad[e] \in Prioridades
        BY <3>2, <4>1
      <4> QED BY <4>1, <4>2
    <3> HIDE DEF S
    <3> QED BY <3>3, MinPrioridad DEF PrioridadNecesaria, S
  <2> HIDE DEF x
  <2>3. g \in TipoHilo /\ g.pc = "asignar" /\ g.proceso = p /\ g.duenio_anterior = d
    BY <1>1, <2>2 DEF TipoHilo
  <2> HIDE DEF g
  <2>4. hilo' \in [CPUs -> TipoHilo]
    BY <2>1, <2>3, TipoDeUnHilo DEF TypeOK
  <2>5. Locales'
    BY <1>1, <1>3, <2>1, <2>3, LocalesDeUnHilo DEF CalcularPrioridad, mutexes
  <2> QED BY <1>3, <2>4, <2>5 DEF CalcularPrioridad, proceso, pcb, mutexes, colas, bloqueos, TypeOK
<1>4. CASE AsignarPrioridad(c)
  <2> DEFINE g == [hilo[c] EXCEPT !.pc = "soltar", !.duenio_anterior = NADIE, !.correcta = 0]
  <2>1. hilo' = [hilo EXCEPT ![c] = g]
    BY <1>4 DEF AsignarPrioridad
  <2>2. g \in TipoHilo /\ g.pc = "soltar" /\ g.proceso = p
    BY <1>1, PrioridadesFacts DEF TipoHilo
  <2> HIDE DEF g
  <2>3. hilo' \in [CPUs -> TipoHilo]
    BY <2>1, <2>2, TipoDeUnHilo DEF TypeOK
  <2>4. Locales'
    BY <1>1, <1>4, <2>1, <2>2, LocalesDeUnHilo DEF AsignarPrioridad, mutexes
  <2>5. prioridad' \in [Procesos -> Prioridades]
    BY <1>1, <1>4 DEF AsignarPrioridad, TypeOK, TipoHilo
  <2> QED BY <1>4, <2>3, <2>4, <2>5 DEF AsignarPrioridad, proceso, mutexes, colas, bloqueos, TypeOK
<1> QED BY <1>2, <1>3, <1>4

LEMMA TipoFinDeUnlock ==
  ASSUME TypeOK, Locales, NEW c \in CPUs, Devolver(c) \/ DestruirPcb(c)
  PROVE  TypeOK' /\ Locales'
<1>1. hilo' \in [CPUs -> TipoHilo] /\ Locales'
  BY TipoLiberar DEF Devolver, DestruirPcb, mutexes
<1>2. hilo[c].proceso \in Procesos
  BY DEF Devolver, DestruirPcb, Locales, LocalHilo
<1>3. CASE Devolver(c)
  <2>1. ready' \in [Prioridades -> Seq(Procesos)] /\ tokens' \in Nat
    BY <1>2, <1>3, AgregarAReadyTipo DEF Devolver
  <2> QED BY <1>1, <1>2, <1>3, <2>1 DEF Devolver, proceso, mutexes, bloqueos, TypeOK
<1>4. CASE DestruirPcb(c)
  BY <1>1, <1>2, <1>4 DEF DestruirPcb, proceso, pcb, mutexes, colas, bloqueos, TypeOK
<1> QED BY <1>3, <1>4

(* The end of an IO and the suspension threads.                             *)
LEMMA TipoDeFuera ==
  ASSUME TypeOK, Locales, NEW p \in Procesos, TerminarIO(p) \/ Suspender(p) \/ Reanudar(p)
  PROVE  TypeOK' /\ Locales'
<1>1. Locales'
  BY LocalesSinHilo DEF TerminarIO, Suspender, Reanudar, mutexes, Locales, LocalDespachador
<1>2. CASE TerminarIO(p)
  <2>1. ready' \in [Prioridades -> Seq(Procesos)] /\ tokens' \in Nat
    BY <1>2, AgregarAReadyTipo DEF TerminarIO
  <2> QED BY <1>1, <1>2, <2>1 DEF TerminarIO, proceso, mutexes, bloqueos, TypeOK
<1>3. CASE Suspender(p)
  <2>1. timers[p] \in Nat /\ enBlock[p] \in Nat /\ enSuspBlock[p] \in Nat
    BY DEF TypeOK
  <2>2. timers[p] - 1 \in Nat /\ enBlock[p] - 1 \in Nat /\ enSuspBlock[p] + 1 \in Nat
    BY <1>3, <2>1 DEF Suspender
  <2>3. /\ enBlock' \in [Procesos -> Nat] /\ enSuspBlock' \in [Procesos -> Nat]
        /\ timers' \in [Procesos -> Nat]
    BY <1>3, <2>2 DEF Suspender, TypeOK
  <2> QED BY <1>1, <1>3, <2>3 DEF Suspender, proceso, mutexes, colas, TypeOK
<1>4. CASE Reanudar(p)
  <2>1. enBlock[p] \in Nat /\ enSuspBlock[p] \in Nat
    BY DEF TypeOK
  <2>2. enBlock[p] + 1 \in Nat /\ enSuspBlock[p] - 1 \in Nat
    BY <1>4, <2>1 DEF Reanudar
  <2>3. enBlock' \in [Procesos -> Nat] /\ enSuspBlock' \in [Procesos -> Nat]
    BY <1>4, <2>2 DEF Reanudar, TypeOK
  <2> QED BY <1>1, <1>4, <2>3 DEF Reanudar, proceso, mutexes, colas, TypeOK
<1> QED BY <1>2, <1>3, <1>4

LEMMA TiposPaso == TypeOK /\ Locales /\ [Next]_vars => TypeOK' /\ Locales'
<1> SUFFICES ASSUME TypeOK, Locales, [Next]_vars PROVE TypeOK' /\ Locales'
  OBVIOUS
<1>1. ASSUME NEW c \in CPUs, Manejador(c) PROVE TypeOK' /\ Locales'
  BY <1>1, TipoLock, TipoSoltar, TipoUnlock, TipoFinDeUnlock DEF Manejador
<1>2. CASE UNCHANGED vars
  BY <1>2 DEF vars, proceso, pcb, mutexes, colas, bloqueos, TypeOK, Locales, LocalHilo,
     LocalDespachador, MutexInterno
<1> QED BY <1>1, <1>2, TipoDespachador, TipoCpu, TipoDeFuera DEF Next

(* No thread of the scheduler uses a null process, or a mutex, an owner or   *)
(* a next owner it has not set, and no priority is outside its range.       *)
THEOREM TipoCorrecto == Spec => []TypeOK
<1> QED BY TipoInit, TiposPaso, PTL DEF Spec

(***************************************************************************)
(* A process is in one place                                                *)
(***************************************************************************)
(* The process an unlock wakes up is not the one that unlocks.              *)
Distintos == \A c \in CPUs : hilo[c].pc = "despertar" => hilo[c].siguiente # hilo[c].proceso
Lugares == EnUnSoloLugar /\ Distintos

(* Whoever is somewhere was somewhere before.                               *)
SoloSalen == \A p \in Procesos : (\E s \in Sitios : Esta(p, s)') => \E s \in Sitios : Esta(p, s)

LEMMA EstaDef ==
  ASSUME NEW p
  PROVE  /\ \A m : Esta(p, <<"espera", m>>) <=> Contains(bloqueados[m], p)
         /\ \A n : Esta(p, <<"ready", n>>) <=> Contains(ready[n], p)
         /\ \A c : Esta(p, <<"cpu", c>>) <=> EnManos(p, c)
         /\ Esta(p, <<"dispatcher", 0>>) <=> despachador.proceso = p
         /\ Esta(p, <<"io", 0>>) <=> p \in enIO
BY DEF Esta

LEMMA EstaDefPrima ==
  ASSUME NEW p
  PROVE  /\ \A m : Esta(p, <<"espera", m>>)' <=> Contains(bloqueados'[m], p)
         /\ \A n : Esta(p, <<"ready", n>>)' <=> Contains(ready'[n], p)
         /\ \A c : Esta(p, <<"cpu", c>>)' <=> EnManos(p, c)'
         /\ Esta(p, <<"dispatcher", 0>>)' <=> despachador'.proceso = p
         /\ Esta(p, <<"io", 0>>)' <=> p \in enIO'
BY DEF Esta

LEMMA SitiosDef ==
  ASSUME NEW s \in Sitios
  PROVE  \/ \E m \in Nombres : s = <<"espera", m>>
         \/ \E n \in Prioridades : s = <<"ready", n>>
         \/ \E c \in CPUs : s = <<"cpu", c>>
         \/ s = <<"dispatcher", 0>>
         \/ s = <<"io", 0>>
BY DEF Sitios

LEMMA SonSitios ==
  /\ \A m \in Nombres : <<"espera", m>> \in Sitios
  /\ \A n \in Prioridades : <<"ready", n>> \in Sitios
  /\ \A c \in CPUs : <<"cpu", c>> \in Sitios
  /\ <<"dispatcher", 0>> \in Sitios /\ <<"io", 0>> \in Sitios
BY DEF Sitios

(* The process p moves from one place to another, or to none: where it was   *)
(* nobody else comes, and where it goes it was not.                         *)
LEMMA Mudanza ==
  ASSUME EnUnSoloLugar, NEW p \in Procesos, NEW de \in Sitios, Esta(p, de), NEW a,
         \A m \in Nombres : IsInjective(bloqueados'[m]),
         \A n \in Prioridades : IsInjective(ready'[n]),
         \A q \in Procesos : \A m \in Nombres : Contains(bloqueados'[m], q) =>
           (q = p /\ a = <<"espera", m>>)
           \/ (Contains(bloqueados[m], q) /\ ~(q = p /\ de = <<"espera", m>>)),
         \A q \in Procesos : \A n \in Prioridades : Contains(ready'[n], q) =>
           (q = p /\ a = <<"ready", n>>)
           \/ (Contains(ready[n], q) /\ ~(q = p /\ de = <<"ready", n>>)),
         \A q \in Procesos : \A c \in CPUs : EnManos(q, c)' =>
           (q = p /\ a = <<"cpu", c>>)
           \/ (EnManos(q, c) /\ ~(q = p /\ de = <<"cpu", c>>)),
         \A q \in Procesos : despachador'.proceso = q =>
           (q = p /\ a = <<"dispatcher", 0>>)
           \/ (despachador.proceso = q /\ ~(q = p /\ de = <<"dispatcher", 0>>)),
         \A q \in Procesos : q \in enIO' =>
           (q = p /\ a = <<"io", 0>>) \/ (q \in enIO /\ ~(q = p /\ de = <<"io", 0>>))
  PROVE  EnUnSoloLugar' /\ SoloSalen
<1>1. ASSUME NEW q \in Procesos, NEW s \in Sitios, Esta(q, s)'
      PROVE  (q = p /\ s = a) \/ (Esta(q, s) /\ ~(q = p /\ s = de))
  <2>1. CASE \E m \in Nombres : s = <<"espera", m>>
    BY <1>1, <2>1, EstaDef, EstaDefPrima
  <2>2. CASE \E n \in Prioridades : s = <<"ready", n>>
    BY <1>1, <2>2, EstaDef, EstaDefPrima
  <2>3. CASE \E c \in CPUs : s = <<"cpu", c>>
    BY <1>1, <2>3, EstaDef, EstaDefPrima
  <2>4. CASE s = <<"dispatcher", 0>>
    BY <1>1, <2>4, EstaDef, EstaDefPrima
  <2>5. CASE s = <<"io", 0>>
    BY <1>1, <2>5, EstaDef, EstaDefPrima
  <2> QED BY <2>1, <2>2, <2>3, <2>4, <2>5, SitiosDef
<1>2. ASSUME NEW q \in Procesos, NEW s \in Sitios, NEW t \in Sitios, Esta(q, s)', Esta(q, t)'
      PROVE  s = t
  <2>1. /\ (q = p /\ s = a) \/ (Esta(q, s) /\ ~(q = p /\ s = de))
        /\ (q = p /\ t = a) \/ (Esta(q, t) /\ ~(q = p /\ t = de))
    BY <1>1, <1>2
  <2>2. Esta(q, s) /\ Esta(q, t) => s = t
    BY DEF EnUnSoloLugar
  <2>3. q = p => (Esta(q, s) => s = de) /\ (Esta(q, t) => t = de)
    BY DEF EnUnSoloLugar
  <2> QED BY <2>1, <2>2, <2>3
<1>3. Sitios' = Sitios
  BY DEF Sitios
<1>4. SoloSalen
  BY <1>1 DEF SoloSalen
<1> QED BY <1>2, <1>3, <1>4 DEF EnUnSoloLugar

(* Nobody moves, or somebody leaves its place for none.                     *)
LEMMA Quietos ==
  ASSUME EnUnSoloLugar, UNCHANGED <<bloqueados, ready, enIO>>,
         \A q \in Procesos : \A c \in CPUs : EnManos(q, c)' => EnManos(q, c),
         \A q \in Procesos : despachador'.proceso = q => despachador.proceso = q
  PROVE  EnUnSoloLugar' /\ SoloSalen
<1>1. ASSUME NEW q \in Procesos, NEW s \in Sitios, Esta(q, s)'
      PROVE  Esta(q, s)
  <2>1. ASSUME NEW c \in CPUs, s = <<"cpu", c>> PROVE Esta(q, s)
    BY <1>1, <2>1, EstaDef, EstaDefPrima
  <2>2. ASSUME NEW m \in Nombres, s = <<"espera", m>> PROVE Esta(q, s)
    BY <1>1, <2>2, EstaDef, EstaDefPrima
  <2>3. ASSUME NEW n \in Prioridades, s = <<"ready", n>> PROVE Esta(q, s)
    BY <1>1, <2>3, EstaDef, EstaDefPrima
  <2>4. CASE s = <<"dispatcher", 0>>
    BY <1>1, <2>4, EstaDef, EstaDefPrima
  <2>5. CASE s = <<"io", 0>>
    BY <1>1, <2>5, EstaDef, EstaDefPrima
  <2> QED BY <2>1, <2>2, <2>3, <2>4, <2>5, SitiosDef
<1>2. Sitios' = Sitios
  BY DEF Sitios
<1>3. SoloSalen
  BY <1>1 DEF SoloSalen
<1> QED BY <1>1, <1>2, <1>3 DEF EnUnSoloLugar, IsInjective

(* The CPUs whose thread does not move keep the process they have, because   *)
(* a mutex whose owner is being moved has its mutex_interno taken.          *)
LEMMA OtrasManos ==
  ASSUME TypeOK, Locales, NEW c \in CPUs, \A d \in CPUs : d # c => hilo'[d] = hilo[d],
         UNCHANGED duenio \/ \E m \in Nombres : /\ MutexInternoLibre(m)
                                                /\ \A k \in Nombres : k # m => duenio'[k] = duenio[k]
  PROVE  \A d \in CPUs : d # c => \A q : EnManos(q, d)' <=> EnManos(q, d)
<1> SUFFICES ASSUME NEW d \in CPUs, d # c, NEW q PROVE EnManos(q, d)' <=> EnManos(q, d)
  OBVIOUS
<1>1. hilo'[d] = hilo[d]
  OBVIOUS
<1>2. hilo[d].pc = "poner" => duenio'[hilo[d].mutex] = duenio[hilo[d].mutex]
  BY DEF Locales, LocalHilo, MutexInternoLibre
<1> QED BY <1>1, <1>2 DEF EnManos

(* A process that is in no queue goes to the end of one, or to its head.    *)
LEMMA AReady ==
  ASSUME TypeOK, EnUnSoloLugar, NEW p \in Procesos, \A n \in Prioridades : ~Contains(ready[n], p),
         NEW k \in Prioridades,
         ready' = [ready EXCEPT ![k] = Append(@, p)] \/ ready' = [ready EXCEPT ![k] = <<p>> \o @]
  PROVE  \A n \in Prioridades :
           /\ IsInjective(ready'[n])
           /\ \A q : Contains(ready'[n], q) => Contains(ready[n], q) \/ (q = p /\ n = k)
<1>1. ready[k] \in Seq(Procesos) /\ SinRepetidos(ready[k])
  BY Vueltas DEF TypeOK, EnUnSoloLugar
<1>2. ASSUME NEW r, r = Append(ready[k], p) \/ r = <<p>> \o ready[k]
      PROVE  IsInjective(r) /\ \A q : Contains(r, q) => Contains(ready[k], q) \/ q = p
  <2> DEFINE s == ready[k]
  <2>1. s \in Seq(Procesos) /\ SinRepetidos(s) /\ ~Contains(s, p)
    BY <1>1
  <2> HIDE DEF s
  <2>2. CASE r = Append(s, p)
    <3>1. r \in Seq(Procesos)
      BY <2>1, <2>2, AppendProperties
    <3>2. SinRepetidos(r) /\ \A q : Contains(r, q) => Contains(s, q) \/ q = p
      BY <2>1, <2>2, AppendLista
    <3> QED BY <3>1, <3>2, Vueltas DEF s
  <2>3. CASE r = <<p>> \o s
    <3>1. r \in Seq(Procesos)
      BY <2>1, <2>3
    <3>2. SinRepetidos(r) /\ \A q : Contains(r, q) => Contains(s, q) \/ q = p
      BY <2>1, <2>3, ConsLista
    <3> QED BY <3>1, <3>2, Vueltas DEF s
  <2> QED BY <1>2, <2>2, <2>3 DEF s
<1>3. IsInjective(ready'[k]) /\ \A q : Contains(ready'[k], q) => Contains(ready[k], q) \/ q = p
  BY <1>2 DEF TypeOK
<1>4. \A n \in Prioridades : n # k => ready'[n] = ready[n]
  BY DEF TypeOK
<1> QED BY <1>3, <1>4 DEF EnUnSoloLugar

LEMMA EnUnSitio ==
  ASSUME EnUnSoloLugar, NEW p \in Procesos, NEW s \in Sitios, Esta(p, s)
  PROVE  \A t \in Sitios : Esta(p, t) => t = s
BY DEF EnUnSoloLugar

(* A process that is somewhere else is pushed to its queue.                 *)
LEMMA LugaresAReady ==
  ASSUME TypeOK, EnUnSoloLugar, NEW p \in Procesos, NEW de \in Sitios, Esta(p, de),
         \A n \in Prioridades : de # <<"ready", n>>, AgregarAReady(p), UNCHANGED <<bloqueados, despachador>>,
         de = <<"io", 0>> \/ \E c \in CPUs : de = <<"cpu", c>>,
         \A q \in Procesos : \A c \in CPUs :
           EnManos(q, c)' => EnManos(q, c) /\ ~(q = p /\ de = <<"cpu", c>>),
         \A q \in Procesos : q \in enIO' => q \in enIO /\ ~(q = p /\ de = <<"io", 0>>)
  PROVE  EnUnSoloLugar' /\ SoloSalen
<1> DEFINE a == <<"ready", Nivel(p)>>
<1>1. \A n \in Prioridades : ~Contains(ready[n], p)
  BY EnUnSitio, EstaDef, SonSitios
<1>2. Nivel(p) \in Prioridades /\ ready' = [ready EXCEPT ![Nivel(p)] = Append(@, p)]
  BY NivelTipo DEF AgregarAReady
<1>3. \A n \in Prioridades :
        /\ IsInjective(ready'[n])
        /\ \A q : Contains(ready'[n], q) => Contains(ready[n], q) \/ (q = p /\ n = Nivel(p))
  BY <1>1, <1>2, AReady
<1>4. \A q \in Procesos : \A n \in Prioridades : Contains(ready'[n], q) =>
        (q = p /\ a = <<"ready", n>>) \/ (Contains(ready[n], q) /\ ~(q = p /\ de = <<"ready", n>>))
  BY <1>3
<1>5. \A m \in Nombres : IsInjective(bloqueados'[m])
  BY DEF EnUnSoloLugar
<1>6. \A q \in Procesos : \A m \in Nombres : Contains(bloqueados'[m], q) =>
        Contains(bloqueados[m], q) /\ ~(q = p /\ de = <<"espera", m>>)
  OBVIOUS
<1>7. \A q \in Procesos : despachador'.proceso = q =>
        despachador.proceso = q /\ ~(q = p /\ de = <<"dispatcher", 0>>)
  OBVIOUS
<1> HIDE DEF a
<1> QED BY <1>3, <1>4, <1>5, <1>6, <1>7, Mudanza

LEMMA DistintosPaso ==
  ASSUME Distintos, NEW c \in CPUs, \A d \in CPUs : d # c => hilo'[d] = hilo[d],
         hilo'[c].pc = "despertar" => hilo'[c].siguiente # hilo'[c].proceso
  PROVE  Distintos'
BY DEF Distintos

(* The CPU that runs p gives it up.                                         *)
LEMMA ManosLibres ==
  ASSUME TypeOK, Locales, NEW c \in CPUs, hilo' = [hilo EXCEPT ![c] = Libre], UNCHANGED duenio
  PROVE  /\ \A q : ~EnManos(q, c)'
         /\ \A d \in CPUs : d # c => \A q : EnManos(q, d)' <=> EnManos(q, d)
         /\ Distintos => Distintos'
<1>1. hilo'[c] = Libre /\ \A d \in CPUs : d # c => hilo'[d] = hilo[d]
  BY DEF TypeOK
<1>2. \A q : ~EnManos(q, c)'
  BY <1>1 DEF EnManos, Libre
<1>3. \A d \in CPUs : d # c => \A q : EnManos(q, d)' <=> EnManos(q, d)
  BY <1>1, OtrasManos
<1>4. Distintos => Distintos'
  BY <1>1, DistintosPaso DEF Libre
<1> QED BY <1>2, <1>3, <1>4

LEMMA LugaresEstables ==
  ASSUME Lugares, UNCHANGED <<bloqueados, ready, enIO, despachador, hilo, duenio>>
  PROVE  Lugares' /\ SoloSalen
<1>1. \A q \in Procesos : \A c \in CPUs : EnManos(q, c)' => EnManos(q, c)
  BY DEF EnManos
<1>2. EnUnSoloLugar' /\ SoloSalen
  BY <1>1, Quietos DEF Lugares
<1> QED BY <1>2 DEF Lugares, Distintos

(* The thread of c goes on, with the processes it had or fewer.             *)
LEMMA LugaresQuietos ==
  ASSUME TypeOK, Locales, Lugares, UNCHANGED <<bloqueados, ready, enIO, despachador>>,
         NEW c \in CPUs, NEW h, hilo' = [hilo EXCEPT ![c] = h],
         UNCHANGED duenio \/ \E m \in Nombres : /\ MutexInternoLibre(m)
                                                /\ \A k \in Nombres : k # m => duenio'[k] = duenio[k],
         h.pc \notin {"despertar", "poner"},
         h.pc \in {"corre", "soltar", "calcular", "asignar"} => EnManos(h.proceso, c)
  PROVE  Lugares' /\ SoloSalen
<1>1. hilo'[c] = h /\ \A d \in CPUs : d # c => hilo'[d] = hilo[d]
  BY DEF TypeOK
<1>2. \A q \in Procesos : EnManos(q, c)' => EnManos(q, c)
  BY <1>1 DEF EnManos
<1>3. \A q \in Procesos : \A d \in CPUs : EnManos(q, d)' => EnManos(q, d)
  BY <1>1, <1>2, OtrasManos
<1>4. EnUnSoloLugar' /\ SoloSalen
  BY <1>3, Quietos DEF Lugares
<1>5. Distintos'
  BY <1>1, DistintosPaso DEF Lugares
<1> QED BY <1>4, <1>5 DEF Lugares

LEMMA LugaresCpu ==
  ASSUME TypeOK, Locales, Lugares, NEW c \in CPUs, Cpu(c)
  PROVE  Lugares' /\ SoloSalen
<1> DEFINE p == hilo[c].proceso
           m == Operando(c)
           de == <<"cpu", c>>
<1>0. PICK op \in Operaciones : Ejecuta(c, op)
  BY DEF Cpu, NoopSigue, NoopDesaloja, Sleep, CrearMutex, LockInexistente, LockLibre,
     LockOcupado, Unlock, Exit, Operaciones
<1>1. /\ p \in Procesos /\ hilo[c].pc = "corre" /\ hilo[c] \in TipoHilo
      /\ \A q : EnManos(q, c) <=> q = p
  BY <1>0, EjecutaTipo DEF Locales, Ejecuta, TypeOK, EnManos
<1>2. de \in Sitios /\ Esta(p, de)
  BY <1>1, EstaDef, SonSitios
<1>3. CASE NoopSigue(c)
  BY <1>3, LugaresEstables DEF NoopSigue, mutexes, colas
<1>4. CASE NoopDesaloja(c)
  <2>1. hilo' = [hilo EXCEPT ![c] = Libre] /\ AgregarAReady(p)
        /\ UNCHANGED <<bloqueados, duenio, despachador, enIO>>
    BY <1>4 DEF NoopDesaloja, mutexes
  <2>2. /\ \A q \in Procesos : \A d \in CPUs : EnManos(q, d)' => EnManos(q, d) /\ ~(q = p /\ de = <<"cpu", d>>)
        /\ Distintos'
    BY <2>1, ManosLibres DEF Lugares
  <2>3. \A q \in Procesos : q \in enIO' => q \in enIO /\ ~(q = p /\ de = <<"io", 0>>)
    BY <2>1
  <2>4. /\ \A n \in Prioridades : de # <<"ready", n>>
        /\ \E d \in CPUs : de = <<"cpu", d>>
    OBVIOUS
  <2> HIDE DEF de, p
  <2> QED BY <1>1, <1>2, <2>1, <2>2, <2>3, <2>4, LugaresAReady DEF Lugares
<1>5. CASE Sleep(c)
  <2> DEFINE a == <<"io", 0>>
  <2>1. hilo' = [hilo EXCEPT ![c] = Libre] /\ enIO' = enIO \cup {p}
        /\ UNCHANGED <<bloqueados, duenio, despachador, ready>>
    BY <1>5 DEF Sleep, mutexes, colas
  <2>2. /\ \A q \in Procesos : \A d \in CPUs : EnManos(q, d)' => EnManos(q, d) /\ ~(q = p /\ de = <<"cpu", d>>)
        /\ Distintos'
    BY <2>1, ManosLibres DEF Lugares
  <2>3. \A q \in Procesos : q \in enIO' => (q = p /\ a = <<"io", 0>>) \/ (q \in enIO /\ ~(q = p /\ de = <<"io", 0>>))
    BY <2>1
  <2>4. /\ \A n \in Prioridades : de # <<"ready", n>>
        /\ \A k \in Nombres : de # <<"espera", k>>
        /\ de # <<"dispatcher", 0>>
    OBVIOUS
  <2>5. /\ \A k \in Nombres : IsInjective(bloqueados'[k])
        /\ \A n \in Prioridades : IsInjective(ready'[n])
    BY <2>1 DEF Lugares, EnUnSoloLugar
  <2> HIDE DEF de, p, a
  <2> QED BY <1>1, <1>2, <2>1, <2>2, <2>3, <2>4, <2>5, Mudanza DEF Lugares
<1>6. CASE CrearMutex(c)
  BY <1>6, LugaresEstables DEF CrearMutex, colas
<1>7. CASE LockInexistente(c)
  <2>1. Libre.pc = "libre"
    BY DEF Libre
  <2> QED BY <1>7, <2>1, LugaresQuietos DEF LockInexistente, mutexes, colas
<1>8. CASE LockLibre(c)
  <2>1. hilo' = [hilo EXCEPT ![c] = hilo[c]]
    BY <1>8 DEF LockLibre, TypeOK
  <2>2. m \in Nombres /\ MutexInternoLibre(m) /\ \A k \in Nombres : k # m => duenio'[k] = duenio[k]
    BY <1>8, EjecutaTipo DEF LockLibre, Locales, TypeOK
  <2>3. UNCHANGED <<bloqueados, ready, enIO, despachador>>
    BY <1>8 DEF LockLibre, colas
  <2> QED BY <1>1, <2>1, <2>2, <2>3, LugaresQuietos
<1>9. CASE LockOcupado(c)
  <2> DEFINE a == <<"espera", m>>
  <2>1. m \in Nombres /\ bloqueados' = [bloqueados EXCEPT ![m] = Append(@, p)]
        /\ UNCHANGED <<ready, duenio, despachador, enIO>>
    BY <1>9, EjecutaTipo DEF LockOcupado, colas, Locales
  <2>2. hilo'[c].pc \in {"sacar", "bloquear"} /\ \A d \in CPUs : d # c => hilo'[d] = hilo[d]
    BY <1>9 DEF LockOcupado, TypeOK, TipoHilo
  <2>3. \A q \in Procesos : \A d \in CPUs : EnManos(q, d)' => EnManos(q, d) /\ ~(q = p /\ de = <<"cpu", d>>)
    <3>1. \A q : ~EnManos(q, c)'
      BY <2>2 DEF EnManos
    <3> QED BY <2>1, <2>2, <3>1, OtrasManos
  <2>4. Distintos'
    BY <2>2, DistintosPaso DEF Lugares
  <2>5. bloqueados[m] \in Seq(Procesos) /\ IsInjective(bloqueados[m])
    BY <2>1 DEF TypeOK, Lugares, EnUnSoloLugar
  <2>6. bloqueados'[m] = Append(bloqueados[m], p)
        /\ \A k \in Nombres : k # m => bloqueados'[k] = bloqueados[k]
    BY <2>1 DEF TypeOK
  <2> DEFINE s == bloqueados[m]
  <2>7. IsInjective(bloqueados'[m]) /\ \A q : Contains(bloqueados'[m], q) <=> Contains(bloqueados[m], q) \/ q = p
    <3>1. a \in Sitios /\ a # de
      BY <2>1, SonSitios
    <3>2. Esta(p, a) <=> Contains(s, p)
      <4> HIDE DEF p, m
      <4> QED BY EstaDef
    <3> HIDE DEF p, m, a, de
    <3>3. ~Contains(s, p)
      BY <1>1, <1>2, <3>1, <3>2, EnUnSitio DEF Lugares
    <3>4. s \in Seq(Procesos) /\ IsInjective(s) /\ bloqueados'[m] = Append(s, p)
      BY <2>5, <2>6
    <3> HIDE DEF s
    <3>5. IsInjective(Append(s, p)) /\ \A q : Contains(Append(s, p), q) <=> Contains(s, q) \/ q = p
      BY <1>1, <3>3, <3>4, AlFinal
    <3> QED BY <3>4, <3>5 DEF s
  <2> HIDE DEF p, m, s
  <2>8. \A k \in Nombres : IsInjective(bloqueados'[k])
    BY <2>6, <2>7 DEF Lugares, EnUnSoloLugar
  <2>9. \A q \in Procesos : \A k \in Nombres : Contains(bloqueados'[k], q) =>
          (q = p /\ a = <<"espera", k>>) \/ (Contains(bloqueados[k], q) /\ ~(q = p /\ de = <<"espera", k>>))
    BY <2>6, <2>7
  <2>10. /\ \A n \in Prioridades : de # <<"ready", n>>
         /\ de # <<"dispatcher", 0>> /\ de # <<"io", 0>>
    OBVIOUS
  <2>11. \A n \in Prioridades : IsInjective(ready'[n])
    BY <2>1 DEF Lugares, EnUnSoloLugar
  <2> HIDE DEF de, a
  <2> QED BY <1>1, <1>2, <2>1, <2>3, <2>4, <2>8, <2>9, <2>10, <2>11, Mudanza DEF Lugares
<1>10. ASSUME Unlock(c) \/ Exit(c) PROVE Lugares' /\ SoloSalen
  <2>1. PICK l : hilo' = [hilo EXCEPT ![c] = [hilo[c] EXCEPT !.pc = "soltar", !.liberar = l]]
    BY <1>10 DEF Unlock, Exit
  <2> DEFINE h == [hilo[c] EXCEPT !.pc = "soltar", !.liberar = l]
  <2>2. h.pc = "soltar" /\ h.proceso = p
    BY <1>1 DEF TipoHilo
  <2>3. UNCHANGED <<bloqueados, ready, enIO, despachador, duenio>>
    BY <1>10 DEF Unlock, Exit, mutexes, colas
  <2> HIDE DEF h
  <2> QED BY <1>1, <2>1, <2>2, <2>3, LugaresQuietos DEF h
<1> QED BY <1>3, <1>4, <1>5, <1>6, <1>7, <1>8, <1>9, <1>10 DEF Cpu

LEMMA LugaresDespachador ==
  ASSUME TypeOK, Locales, Lugares, Despachador
  PROVE  Lugares' /\ SoloSalen
<1> DEFINE p == despachador.proceso
<1>1. CASE EsperarToken
  <2>1. UNCHANGED <<bloqueados, ready, enIO, hilo, duenio>> /\ despachador'.proceso = despachador.proceso
    BY <1>1 DEF EsperarToken, mutexes, TypeOK
  <2>2. EnUnSoloLugar' /\ SoloSalen
    BY <2>1, Quietos DEF Lugares, EnManos
  <2> QED BY <2>1, <2>2 DEF Lugares, Distintos
<1>2. CASE SacarSiguiente
  <2> DEFINE conGente == {n \in Prioridades : ready[n] # <<>>}
  <2>1. UNCHANGED <<bloqueados, enIO, hilo, duenio>>
    BY <1>2 DEF SacarSiguiente, mutexes
  <2>2. CASE conGente = {}
    <3>1. UNCHANGED ready /\ despachador'.proceso = despachador.proceso
      BY <1>2, <2>2 DEF SacarSiguiente, TypeOK
    <3>2. EnUnSoloLugar' /\ SoloSalen
      BY <2>1, <3>1, Quietos DEF Lugares, EnManos
    <3> QED BY <2>1, <3>2 DEF Lugares, Distintos
  <2>3. CASE conGente # {}
    <3> DEFINE n == Min(conGente)
               q == Head(ready[n])
               s == ready[n]
               de == <<"ready", n>>
               a == <<"dispatcher", 0>>
    <3>1. n \in Prioridades /\ ready[n] # <<>>
      <4>1. conGente \subseteq Nat
        BY PrioridadesFacts
      <4>2. n \in conGente
        <5> HIDE DEF conGente
        <5> QED BY <2>3, <4>1, MinProperties
      <4> HIDE DEF n
      <4> QED BY <4>2
    <3>2. despachador'.proceso = q /\ ready' = [ready EXCEPT ![n] = Tail(@)]
      BY <1>2, <2>3 DEF SacarSiguiente
    <3> HIDE DEF n
    <3>3. s \in Seq(Procesos) /\ s # <<>> /\ IsInjective(s)
      BY <3>1 DEF TypeOK, Lugares, EnUnSoloLugar
    <3>4. /\ q \in Procesos /\ IsInjective(Tail(s)) /\ ~Contains(Tail(s), q) /\ Contains(s, q)
          /\ \A x : Contains(Tail(s), x) => Contains(s, x)
      <4> HIDE DEF s
      <4> QED BY <3>3, SinPrimero, HeadTailProperties DEF s
    <3>5. ready'[n] = Tail(s) /\ \A k \in Prioridades : k # n => ready'[k] = ready[k]
      BY <3>1, <3>2 DEF TypeOK
    <3>6. de \in Sitios /\ Esta(q, de)
      <4> HIDE DEF q
      <4> QED BY <3>1, <3>4, EstaDef, SonSitios
    <3> HIDE DEF s, q
    <3>7. \A k \in Prioridades : IsInjective(ready'[k])
      BY <3>4, <3>5 DEF Lugares, EnUnSoloLugar
    <3>8. \A x \in Procesos : \A k \in Prioridades : Contains(ready'[k], x) =>
            Contains(ready[k], x) /\ ~(x = q /\ de = <<"ready", k>>)
      BY <3>4, <3>5 DEF s
    <3>9. \A x \in Procesos : \A d \in CPUs : EnManos(x, d)' =>
            EnManos(x, d) /\ ~(x = q /\ de = <<"cpu", d>>)
      BY <2>1 DEF EnManos
    <3>10. \A x \in Procesos : \A m \in Nombres : Contains(bloqueados'[m], x) =>
             Contains(bloqueados[m], x) /\ ~(x = q /\ de = <<"espera", m>>)
      BY <2>1
    <3>11. /\ \A x \in Procesos : x \in enIO' => x \in enIO /\ ~(x = q /\ de = <<"io", 0>>)
           /\ \A m \in Nombres : IsInjective(bloqueados'[m])
      BY <2>1 DEF Lugares, EnUnSoloLugar
    <3>12. \A x \in Procesos : despachador'.proceso = x => x = q /\ a = <<"dispatcher", 0>>
      BY <3>2
    <3> HIDE DEF de, a
    <3>13. EnUnSoloLugar' /\ SoloSalen
      BY <3>4, <3>6, <3>7, <3>8, <3>9, <3>10, <3>11, <3>12, Mudanza DEF Lugares
    <3> QED BY <2>1, <3>13 DEF Lugares, Distintos
  <2> QED BY <2>2, <2>3
<1>3. ASSUME NEW c \in CPUs, EjecutarEn(c) PROVE Lugares' /\ SoloSalen
  <2> DEFINE de == <<"dispatcher", 0>>
             a == <<"cpu", c>>
             h == [hilo[c] EXCEPT !.pc = "corre", !.proceso = p]
  <2>1. /\ p \in Procesos /\ hilo' = [hilo EXCEPT ![c] = h] /\ despachador'.proceso = NADIE
        /\ UNCHANGED <<bloqueados, ready, enIO, duenio>>
    BY <1>3 DEF EjecutarEn, Locales, LocalDespachador, mutexes, colas, TypeOK
  <2>2. h.pc = "corre" /\ h.proceso = p
    BY DEF TypeOK, TipoHilo
  <2> HIDE DEF h
  <2>3. hilo'[c] = h /\ \A d \in CPUs : d # c => hilo'[d] = hilo[d]
    BY <2>1 DEF TypeOK
  <2>4. \A q \in Procesos : \A d \in CPUs : EnManos(q, d)' =>
          (q = p /\ a = <<"cpu", d>>) \/ (EnManos(q, d) /\ ~(q = p /\ de = <<"cpu", d>>))
    <3>1. \A q : EnManos(q, c)' => q = p
      BY <2>2, <2>3 DEF EnManos
    <3> QED BY <2>1, <2>3, <3>1, OtrasManos
  <2>5. Distintos'
    BY <2>2, <2>3, DistintosPaso DEF Lugares
  <2>6. de \in Sitios /\ Esta(p, de)
    BY SonSitios, EstaDef
  <2>7. /\ \A n \in Prioridades : de # <<"ready", n>> /\ IsInjective(ready'[n])
        /\ \A m \in Nombres : de # <<"espera", m>> /\ IsInjective(bloqueados'[m])
        /\ de # <<"io", 0>>
    BY <2>1 DEF Lugares, EnUnSoloLugar
  <2>8. \A q \in Procesos : despachador'.proceso # q
    BY <2>1, NadieAssumption
  <2> HIDE DEF p, de, a
  <2> QED BY <2>1, <2>4, <2>5, <2>6, <2>7, <2>8, Mudanza DEF Lugares
<1> QED BY <1>1, <1>2, <1>3 DEF Despachador

(* The lock moves the owner in ready, and ends.                             *)
LEMMA LugaresLock ==
  ASSUME TypeOK, Locales, Lugares, NEW c \in CPUs,
         SacarDuenio(c) \/ PonerDuenio(c) \/ Bloquear(c)
  PROVE  Lugares' /\ SoloSalen
<1> DEFINE m == hilo[c].mutex
           d == duenio[m]
           cpu == <<"cpu", c>>
<1>1. hilo[c] \in TipoHilo
  BY DEF TypeOK
<1>2. CASE SacarDuenio(c)
  <2> DEFINE pc == IF EnReady(d) THEN "poner" ELSE "bloquear"
             h == [hilo[c] EXCEPT !.pc = pc]
  <2>1. /\ m \in Nombres /\ d \in Procesos
        /\ UNCHANGED <<bloqueados, duenio, enIO, despachador>>
        /\ ready' = [n \in Prioridades |-> RemoveFirst(ready[n], d)]
        /\ hilo' = [hilo EXCEPT ![c] = h]
    BY <1>2 DEF SacarDuenio, Locales, LocalHilo, mutexes
  <2> HIDE DEF d
  <2>2. h.pc = pc /\ h.mutex = m
    BY <1>1 DEF TipoHilo
  <2>3. \A n \in Prioridades : ready[n] \in Seq(Procesos) /\ IsInjective(ready[n])
    BY DEF TypeOK, Lugares, EnUnSoloLugar
  <2> HIDE DEF h
  <2>4. hilo'[c] = h /\ \A e \in CPUs : e # c => hilo'[e] = hilo[e]
    BY <2>1 DEF TypeOK
  <2>5. CASE EnReady(d)
    <3>1. PICK n \in Prioridades : Contains(ready[n], d)
      BY <2>5 DEF EnReady
    <3> DEFINE de == <<"ready", n>>
    <3>2. de \in Sitios /\ Esta(d, de)
      BY <3>1, SonSitios, EstaDef
    <3>3. \A k \in Prioridades :
            IsInjective(ready'[k]) /\ \A q : Contains(ready'[k], q) => Contains(ready[k], q) /\ q # d
      BY <2>1, <2>3, SinElegido
    <3>4. \A q \in Procesos : \A k \in Prioridades : Contains(ready'[k], q) =>
            Contains(ready[k], q) /\ ~(q = d /\ de = <<"ready", k>>)
      BY <3>3
    <3>5. \A q : EnManos(q, c)' => q = d
      <4>1. h.pc = "poner" /\ duenio'[h.mutex] = d
        BY <2>1, <2>2, <2>5 DEF d
      <4> QED BY <2>4, <4>1 DEF EnManos
    <3>6. \A q \in Procesos : \A e \in CPUs : EnManos(q, e)' =>
            (q = d /\ cpu = <<"cpu", e>>) \/ (EnManos(q, e) /\ ~(q = d /\ de = <<"cpu", e>>))
      BY <2>1, <2>4, <3>5, OtrasManos
    <3>7. /\ \A k \in Nombres : de # <<"espera", k>> /\ IsInjective(bloqueados'[k])
          /\ de # <<"dispatcher", 0>> /\ de # <<"io", 0>>
      BY <2>1 DEF Lugares, EnUnSoloLugar
    <3>8. Distintos'
      BY <2>2, <2>4, DistintosPaso DEF Lugares
    <3> HIDE DEF de, cpu
    <3> QED BY <2>1, <3>2, <3>3, <3>4, <3>6, <3>7, <3>8, Mudanza DEF Lugares
  <2>6. CASE ~EnReady(d)
    <3>1. \A n \in Prioridades : ready'[n] = ready[n]
      BY <2>1, <2>3, <2>6, RemoveFirstProperties DEF EnReady
    <3>2. ready' = ready
      BY <2>1, <3>1 DEF TypeOK
    <3>3. h.pc = "bloquear"
      BY <2>2, <2>6
    <3> QED BY <2>1, <3>2, <3>3, LugaresQuietos
  <2> QED BY <2>5, <2>6
<1>3. CASE PonerDuenio(c)
  <2> DEFINE h == [hilo[c] EXCEPT !.pc = "bloquear"]
             a == <<"ready", Nivel(d)>>
  <2>1. /\ d \in Procesos /\ hilo' = [hilo EXCEPT ![c] = h] /\ EnManos(d, c)
        /\ UNCHANGED <<bloqueados, duenio, enIO, despachador>>
        /\ ready' = [ready EXCEPT ![Nivel(d)] = <<d>> \o @]
    BY <1>3 DEF PonerDuenio, Locales, LocalHilo, mutexes, EnManos
  <2> HIDE DEF d
  <2>2. h.pc = "bloquear"
    BY <1>1 DEF TipoHilo
  <2> HIDE DEF h
  <2>3. hilo'[c] = h /\ \A e \in CPUs : e # c => hilo'[e] = hilo[e]
    BY <2>1 DEF TypeOK
  <2>4. cpu \in Sitios /\ Esta(d, cpu)
    BY <2>1, SonSitios, EstaDef
  <2>5. Nivel(d) \in Prioridades /\ \A n \in Prioridades : ~Contains(ready[n], d)
    <3>1. \A n \in Prioridades : cpu # <<"ready", n>>
      OBVIOUS
    <3> HIDE DEF cpu
    <3> QED BY <2>1, <2>4, <3>1, NivelTipo, EnUnSitio, EstaDef, SonSitios DEF Lugares
  <2>6. \A n \in Prioridades :
          /\ IsInjective(ready'[n])
          /\ \A q : Contains(ready'[n], q) => Contains(ready[n], q) \/ (q = d /\ n = Nivel(d))
    BY <2>1, <2>5, AReady DEF Lugares
  <2>7. \A q \in Procesos : \A n \in Prioridades : Contains(ready'[n], q) =>
          (q = d /\ a = <<"ready", n>>) \/ (Contains(ready[n], q) /\ ~(q = d /\ cpu = <<"ready", n>>))
    BY <2>6
  <2>8. \A q \in Procesos : \A e \in CPUs : EnManos(q, e)' =>
          EnManos(q, e) /\ ~(q = d /\ cpu = <<"cpu", e>>)
    <3>1. \A q : ~EnManos(q, c)'
      BY <2>2, <2>3 DEF EnManos
    <3> QED BY <2>1, <2>3, <3>1, OtrasManos
  <2>9. /\ \A k \in Nombres : cpu # <<"espera", k>> /\ IsInjective(bloqueados'[k])
        /\ cpu # <<"dispatcher", 0>> /\ cpu # <<"io", 0>>
    BY <2>1 DEF Lugares, EnUnSoloLugar
  <2>10. Distintos'
    BY <2>2, <2>3, DistintosPaso DEF Lugares
  <2> HIDE DEF cpu, a
  <2> QED BY <2>1, <2>4, <2>6, <2>7, <2>8, <2>9, <2>10, Mudanza DEF Lugares
<1>4. CASE Bloquear(c)
  <2>1. Libre.pc = "libre"
    BY DEF Libre
  <2> QED BY <1>4, <2>1, LugaresQuietos DEF Bloquear, mutexes, colas
<1> QED BY <1>2, <1>3, <1>4

(* The unlock of one mutex.                                                 *)
LEMMA LugaresSoltar ==
  ASSUME TypeOK, Locales, Lugares, NEW c \in CPUs, SoltarNada(c) \/ SoltarMutex(c)
  PROVE  Lugares' /\ SoloSalen
<1> DEFINE p == hilo[c].proceso
           m == Head(hilo[c].liberar)
           cola == Tail(hilo[c].liberar)
<1>1. hilo[c] \in TipoHilo /\ p \in Procesos /\ m \in Nombres /\ EnManos(p, c)
      /\ \A q : EnManos(q, c) => q = p
  <2>1. hilo[c].pc = "soltar" /\ hilo[c].liberar # <<>>
    BY DEF SoltarNada, SoltarMutex
  <2>2. hilo[c].liberar \in Seq(Nombres)
    BY DEF TypeOK, TipoHilo
  <2> QED BY <2>1, <2>2, HeadTailProperties DEF TypeOK, Locales, LocalHilo, EnManos
<1>2. CASE SoltarNada(c)
  <2> DEFINE h == [hilo[c] EXCEPT !.liberar = cola]
  <2>1. hilo' = [hilo EXCEPT ![c] = h] /\ UNCHANGED <<bloqueados, ready, enIO, despachador, duenio>>
    BY <1>2 DEF SoltarNada, mutexes, colas
  <2>2. h.pc = "soltar" /\ h.proceso = p
    BY <1>1, <1>2 DEF TipoHilo, SoltarNada
  <2> HIDE DEF h
  <2> QED BY <1>1, <2>1, <2>2, LugaresQuietos
<1>3. ASSUME SoltarMutex(c), bloqueados[m] = <<>> PROVE Lugares' /\ SoloSalen
  <2> DEFINE h == [hilo[c] EXCEPT !.pc = "calcular", !.duenio_anterior = duenio[m], !.liberar = cola]
  <2>1. /\ hilo' = [hilo EXCEPT ![c] = h] /\ duenio' = [duenio EXCEPT ![m] = NADIE]
        /\ UNCHANGED <<bloqueados, ready, enIO, despachador>> /\ MutexInternoLibre(m)
    BY <1>3 DEF SoltarMutex, colas
  <2>2. h.pc = "calcular" /\ h.proceso = p
    BY <1>1 DEF TipoHilo
  <2> HIDE DEF h, m
  <2>3. \A k \in Nombres : k # m => duenio'[k] = duenio[k]
    BY <2>1 DEF TypeOK
  <2> QED BY <1>1, <2>1, <2>2, <2>3, LugaresQuietos
<1>4. ASSUME SoltarMutex(c), bloqueados[m] # <<>> PROVE Lugares' /\ SoloSalen
  <2> DEFINE s == Head(bloqueados[m])
             l == bloqueados[m]
             h == [hilo[c] EXCEPT !.pc = "despertar", !.duenio_anterior = duenio[m],
                                  !.siguiente = s, !.liberar = cola]
             de == <<"espera", m>>
             a == <<"cpu", c>>
  <2>1. /\ hilo' = [hilo EXCEPT ![c] = h] /\ duenio' = [duenio EXCEPT ![m] = s]
        /\ bloqueados' = [bloqueados EXCEPT ![m] = Tail(bloqueados[m])]
        /\ UNCHANGED <<ready, enIO, despachador>> /\ MutexInternoLibre(m)
    BY <1>4 DEF SoltarMutex, colas
  <2>2. h.pc = "despertar" /\ h.proceso = p /\ h.siguiente = s
    BY <1>1 DEF TipoHilo
  <2> HIDE DEF h, m
  <2>3. hilo'[c] = h /\ \A e \in CPUs : e # c => hilo'[e] = hilo[e]
    BY <2>1 DEF TypeOK
  <2>4. \A k \in Nombres : k # m => duenio'[k] = duenio[k] /\ bloqueados'[k] = bloqueados[k]
    BY <2>1 DEF TypeOK
  <2>5. l \in Seq(Procesos) /\ l # <<>> /\ IsInjective(l) /\ bloqueados'[m] = Tail(l)
    BY <1>1, <1>4, <2>1 DEF TypeOK, Lugares, EnUnSoloLugar
  <2>6. /\ s \in Procesos /\ IsInjective(Tail(l)) /\ ~Contains(Tail(l), s) /\ Contains(l, s)
        /\ \A x : Contains(Tail(l), x) => Contains(l, x)
    <3> HIDE DEF l
    <3> QED BY <2>5, SinPrimero, HeadTailProperties DEF l
  <2> HIDE DEF s
  <2>7. de \in Sitios /\ Esta(s, de)
    BY <1>1, <2>6, SonSitios, EstaDef
  <2>8. s # p
    <3>1. a \in Sitios /\ Esta(p, a)
      <4> HIDE DEF p
      <4> QED BY <1>1, SonSitios, EstaDef
    <3>2. a # de
      OBVIOUS
    <3> HIDE DEF a, de
    <3> QED BY <2>6, <2>7, <3>1, <3>2, EnUnSitio DEF Lugares
  <2> HIDE DEF l, p
  <2>9. /\ \A k \in Nombres : IsInjective(bloqueados'[k])
        /\ \A n \in Prioridades : IsInjective(ready'[n])
    BY <2>1, <2>4, <2>5, <2>6 DEF Lugares, EnUnSoloLugar
  <2>10. \A q \in Procesos : \A k \in Nombres : Contains(bloqueados'[k], q) =>
           Contains(bloqueados[k], q) /\ ~(q = s /\ de = <<"espera", k>>)
    BY <2>4, <2>5, <2>6 DEF l
  <2>11. \A q \in Procesos : \A e \in CPUs : EnManos(q, e)' =>
           (q = s /\ a = <<"cpu", e>>) \/ (EnManos(q, e) /\ ~(q = s /\ de = <<"cpu", e>>))
    <3>1. \A q : EnManos(q, c)' => q = s \/ q = p
      BY <2>2, <2>3 DEF EnManos
    <3> QED BY <1>1, <2>1, <2>3, <2>4, <3>1, OtrasManos
  <2>12. /\ \A n \in Prioridades : de # <<"ready", n>>
         /\ de # <<"dispatcher", 0>> /\ de # <<"io", 0>>
    OBVIOUS
  <2>13. Distintos'
    BY <2>2, <2>3, <2>8, DistintosPaso DEF Lugares
  <2> HIDE DEF de, a
  <2> QED BY <2>1, <2>6, <2>7, <2>9, <2>10, <2>11, <2>12, <2>13, Mudanza DEF Lugares
<1> QED BY <1>2, <1>3, <1>4

(* The rest of the unlock, and its end.                                     *)
LEMMA LugaresUnlock ==
  ASSUME TypeOK, Locales, Lugares, NEW c \in CPUs,
         \/ Despertar(c) \/ CalcularPrioridad(c) \/ AsignarPrioridad(c)
         \/ Devolver(c) \/ DestruirPcb(c)
  PROVE  Lugares' /\ SoloSalen
<1> DEFINE p == hilo[c].proceso
           de == <<"cpu", c>>
<1>1. /\ hilo[c] \in TipoHilo /\ p \in Procesos /\ EnManos(p, c)
  BY DEF Despertar, CalcularPrioridad, AsignarPrioridad, Devolver, DestruirPcb, Locales,
     LocalHilo, TypeOK, EnManos
<1>2. /\ \A n \in Prioridades : de # <<"ready", n>>
      /\ \E d \in CPUs : de = <<"cpu", d>>
      /\ de # <<"io", 0>>
  OBVIOUS
<1>3. CASE Despertar(c)
  <2> DEFINE s == hilo[c].siguiente
             h == [hilo[c] EXCEPT !.pc = "calcular", !.siguiente = NADIE]
  <2>1. /\ s \in Procesos /\ AgregarAReady(s) /\ hilo' = [hilo EXCEPT ![c] = h]
        /\ UNCHANGED <<bloqueados, duenio, enIO, despachador>> /\ EnManos(s, c) /\ s # p
    BY <1>3 DEF Despertar, mutexes, Locales, LocalHilo, EnManos, Lugares, Distintos
  <2> HIDE DEF s
  <2>2. h.pc = "calcular" /\ h.proceso = p
    BY <1>1 DEF TipoHilo
  <2> HIDE DEF h
  <2>3. hilo'[c] = h /\ \A e \in CPUs : e # c => hilo'[e] = hilo[e]
    BY <2>1 DEF TypeOK
  <2>4. \A q \in Procesos : \A e \in CPUs : EnManos(q, e)' =>
          EnManos(q, e) /\ ~(q = s /\ de = <<"cpu", e>>)
    <3>1. \A q : EnManos(q, c)' => q = p
      BY <2>2, <2>3 DEF EnManos
    <3> QED BY <1>1, <2>1, <2>3, <3>1, OtrasManos
  <2>5. de \in Sitios /\ Esta(s, de)
    BY <2>1, SonSitios, EstaDef
  <2>6. Distintos'
    BY <2>2, <2>3, DistintosPaso DEF Lugares
  <2>7. \A q \in Procesos : q \in enIO' => q \in enIO /\ ~(q = s /\ de = <<"io", 0>>)
    BY <1>2, <2>1
  <2> HIDE DEF de
  <2> QED BY <1>2, <2>1, <2>4, <2>5, <2>6, <2>7, LugaresAReady DEF Lugares
<1>4. CASE CalcularPrioridad(c)
  <2> DEFINE h == [hilo[c] EXCEPT !.pc = "asignar",
                                  !.correcta = PrioridadNecesaria(hilo[c].duenio_anterior)]
  <2>1. hilo' = [hilo EXCEPT ![c] = h] /\ UNCHANGED <<bloqueados, ready, enIO, despachador, duenio>>
    BY <1>4 DEF CalcularPrioridad, mutexes, colas
  <2>2. h.pc = "asignar" /\ h.proceso = p
    BY <1>1 DEF TipoHilo
  <2> HIDE DEF h
  <2> QED BY <1>1, <2>1, <2>2, LugaresQuietos
<1>5. CASE AsignarPrioridad(c)
  <2> DEFINE h == [hilo[c] EXCEPT !.pc = "soltar", !.duenio_anterior = NADIE, !.correcta = 0]
  <2>1. hilo' = [hilo EXCEPT ![c] = h] /\ UNCHANGED <<bloqueados, ready, enIO, despachador, duenio>>
    BY <1>5 DEF AsignarPrioridad, mutexes, colas
  <2>2. h.pc = "soltar" /\ h.proceso = p
    BY <1>1 DEF TipoHilo
  <2> HIDE DEF h
  <2> QED BY <1>1, <2>1, <2>2, LugaresQuietos
<1>6. CASE Devolver(c)
  <2>1. /\ hilo' = [hilo EXCEPT ![c] = Libre] /\ AgregarAReady(p)
        /\ UNCHANGED <<bloqueados, duenio, enIO, despachador>>
    BY <1>6 DEF Devolver, mutexes
  <2>2. de \in Sitios /\ Esta(p, de)
    <3> HIDE DEF p
    <3> QED BY <1>1, SonSitios, EstaDef
  <2>3. /\ \A q \in Procesos : \A e \in CPUs : EnManos(q, e)' =>
             EnManos(q, e) /\ ~(q = p /\ de = <<"cpu", e>>)
        /\ Distintos'
    BY <2>1, ManosLibres DEF Lugares
  <2>4. \A q \in Procesos : q \in enIO' => q \in enIO /\ ~(q = p /\ de = <<"io", 0>>)
    BY <1>2, <2>1
  <2> HIDE DEF p, de
  <2> QED BY <1>1, <1>2, <2>1, <2>2, <2>3, <2>4, LugaresAReady DEF Lugares
<1>7. CASE DestruirPcb(c)
  <2>1. Libre.pc = "libre"
    BY DEF Libre
  <2> QED BY <1>7, <2>1, LugaresQuietos DEF DestruirPcb, mutexes, colas
<1> QED BY <1>3, <1>4, <1>5, <1>6, <1>7

LEMMA LugaresDeFuera ==
  ASSUME TypeOK, Locales, Lugares, NEW p \in Procesos,
         TerminarIO(p) \/ Suspender(p) \/ Reanudar(p)
  PROVE  Lugares' /\ SoloSalen
<1>1. CASE TerminarIO(p)
  <2> DEFINE de == <<"io", 0>>
  <2>1. /\ p \in enIO /\ enIO' = enIO \ {p} /\ AgregarAReady(p)
        /\ UNCHANGED <<bloqueados, duenio, hilo, despachador>>
    BY <1>1 DEF TerminarIO, mutexes
  <2>2. de \in Sitios /\ Esta(p, de)
    BY <2>1, SonSitios, EstaDef
  <2>3. \A q \in Procesos : \A e \in CPUs : EnManos(q, e)' =>
          EnManos(q, e) /\ ~(q = p /\ de = <<"cpu", e>>)
    BY <2>1 DEF EnManos
  <2>4. \A q \in Procesos : q \in enIO' => q \in enIO /\ ~(q = p /\ de = <<"io", 0>>)
    BY <2>1
  <2>5. \A n \in Prioridades : de # <<"ready", n>>
    OBVIOUS
  <2>6. Distintos'
    BY <2>1 DEF Lugares, Distintos
  <2>7. de = <<"io", 0>>
    OBVIOUS
  <2> HIDE DEF de
  <2> QED BY <2>1, <2>2, <2>3, <2>4, <2>5, <2>6, <2>7, LugaresAReady DEF Lugares
<1>2. CASE Suspender(p) \/ Reanudar(p)
  BY <1>2, LugaresEstables DEF Suspender, Reanudar, mutexes, colas
<1> QED BY <1>1, <1>2

LEMMA LugaresPaso ==
  TypeOK /\ Locales /\ Lugares /\ [Next]_vars => Lugares' /\ SoloSalen
<1> SUFFICES ASSUME TypeOK, Locales, Lugares, [Next]_vars PROVE Lugares' /\ SoloSalen
  OBVIOUS
<1>1. ASSUME NEW c \in CPUs, Manejador(c) PROVE Lugares' /\ SoloSalen
  BY <1>1, LugaresLock, LugaresSoltar, LugaresUnlock DEF Manejador
<1>2. CASE UNCHANGED vars
  BY <1>2, LugaresEstables DEF vars, mutexes, colas
<1> QED BY <1>1, <1>2, LugaresDespachador, LugaresCpu, LugaresDeFuera DEF Next

LEMMA LugaresInit == Init => Lugares
<1> SUFFICES ASSUME Init PROVE Lugares
  OBVIOUS
<1>1. /\ \A c \in CPUs : hilo[c] = Libre
      /\ despachador.proceso = NADIE /\ enIO = {}
      /\ \A m \in Nombres : bloqueados[m] = <<>>
  BY DEF Init
<1>2. ASSUME NEW p \in Procesos, NEW s \in Sitios, Esta(p, s)
      PROVE  \E n \in Prioridades : s = <<"ready", n>> /\ Contains(ready[n], p)
  <2>1. CASE \E m \in Nombres : s = <<"espera", m>>
    <3>1. ~Contains(<<>>, p)
      BY DEF Contains
    <3> QED BY <1>1, <1>2, <2>1, <3>1, EstaDef
  <2>2. CASE \E n \in Prioridades : s = <<"ready", n>>
    BY <1>2, <2>2, EstaDef
  <2>3. CASE \E c \in CPUs : s = <<"cpu", c>>
    <3>1. \A c \in CPUs : ~EnManos(p, c)
      BY <1>1 DEF EnManos, Libre
    <3> QED BY <1>2, <2>3, <3>1, EstaDef
  <2>4. CASE s = <<"dispatcher", 0>>
    BY <1>1, <1>2, <2>4, EstaDef, NadieAssumption
  <2>5. CASE s = <<"io", 0>>
    BY <1>1, <1>2, <2>5, EstaDef
  <2> QED BY <2>1, <2>2, <2>3, <2>4, <2>5, SitiosDef
<1>3. \A m \in Nombres : IsInjective(bloqueados[m])
  BY <1>1 DEF IsInjective
<1>4. Distintos
  BY <1>1 DEF Distintos, Libre
<1> QED BY <1>2, <1>3, <1>4, InitFacts DEF Lugares, EnUnSoloLugar

(* No process waits for two mutexes, is in two queues or twice in one, or    *)
(* runs on two CPUs: the dispatcher, the locks that move an owner in ready   *)
(* and the unlocks that wake a waiter up never have the same process.       *)
THEOREM EnUnSoloLugarSiempre == Spec => []EnUnSoloLugar
<1>1. Lugares => EnUnSoloLugar
  BY DEF Lugares
<1> QED BY <1>1, TipoInit, TiposPaso, LugaresInit, LugaresPaso, PTL DEF Spec
(***************************************************************************)
(* Owners                                                                   *)
(***************************************************************************)
ConDuenio ==
  \A m \in Nombres : /\ duenio[m] = NADIE => bloqueados[m] = <<>>
                     /\ duenio[m] # NADIE => m \in creados
NoSeEspera == \A m \in Nombres : ~Contains(bloqueados[m], duenio[m])
(* A process that has ended is nowhere, and a process that ends has what it  *)
(* owns still to release: nobody gives it another mutex meanwhile.          *)
Muertos ==
  \A p \in terminados : /\ \A s \in Sitios : ~Esta(p, s)
                        /\ \A m \in Nombres : duenio[m] # p
Soltadores == {"soltar", "despertar", "calcular", "asignar"}
Saliendo ==
  \A c \in CPUs : hilo[c].pc \in Soltadores /\ SaleElProceso(c) =>
    \A m \in Nombres : duenio[m] = hilo[c].proceso => Contains(hilo[c].liberar, m)
(* Who owns a mutex or waits for it asked for it, and has not unlocked it    *)
(* since, unless its unlock is about to begin.                              *)
Pidio(p, m) ==
  \E i \in DOMAIN programa[p] :
    /\ i < pos[p] /\ programa[p][i] = <<"LOCK", m>>
    /\ \A k \in i .. pos[p] - 1 : programa[p][k] # <<"UNLOCK", m>>
Soltara(p, m) ==
  \E c \in CPUs : hilo[c].pc = "soltar" /\ hilo[c].proceso = p /\ hilo[c].liberar = <<m>>
Quiere(p, m) == duenio[m] = p \/ Contains(bloqueados[m], p)
Pedidos == \A p \in Procesos, m \in Nombres : Quiere(p, m) => Pidio(p, m) \/ Soltara(p, m)

Propiedad == ConDuenio /\ NoSeEspera /\ Muertos /\ Saliendo /\ Pedidos

(* Nobody ends: the dead stay where they are, because who gets a mutex is    *)
(* somewhere.                                                               *)
LEMMA MuertosPaso ==
  ASSUME TypeOK, Muertos, SoloSalen, UNCHANGED terminados,
         \A m \in Nombres : \/ duenio'[m] = duenio[m] \/ duenio'[m] = NADIE
                            \/ \E s \in Sitios : Esta(duenio'[m], s)
  PROVE  Muertos'
<1>1. Sitios' = Sitios /\ terminados \subseteq Procesos
  BY DEF Sitios, TypeOK
<1>2. ASSUME NEW p \in terminados, NEW s \in Sitios PROVE ~Esta(p, s)'
  BY <1>1, <1>2 DEF Muertos, SoloSalen
<1>3. ASSUME NEW p \in terminados, NEW m \in Nombres PROVE duenio'[m] # p
  BY <1>1, <1>3, NadieAssumption DEF Muertos
<1> QED BY <1>1, <1>2, <1>3 DEF Muertos

(* Who runs on a CPU, or unlocks there, is on no other.                      *)
LEMMA UnaCpu ==
  ASSUME Lugares, NEW c \in CPUs, NEW d \in CPUs, NEW p \in Procesos, EnManos(p, c), EnManos(p, d)
  PROVE  c = d
<1> DEFINE s == <<"cpu", c>>
           t == <<"cpu", d>>
<1>1. s \in Sitios /\ t \in Sitios /\ Esta(p, s) /\ Esta(p, t)
  BY SonSitios, EstaDef
<1> HIDE DEF s, t
<1>2. s = t
  BY <1>1 DEF Lugares, EnUnSoloLugar
<1> QED BY <1>2 DEF s, t

LEMMA NiEspera ==
  ASSUME Lugares, NEW c \in CPUs, NEW p \in Procesos, EnManos(p, c), NEW m \in Nombres
  PROVE  ~Contains(bloqueados[m], p)
<1> DEFINE s == <<"cpu", c>>
           t == <<"espera", m>>
<1>1. s \in Sitios /\ t \in Sitios /\ Esta(p, s) /\ (Contains(bloqueados[m], p) => Esta(p, t))
  BY SonSitios, EstaDef
<1>2. s # t
  OBVIOUS
<1> HIDE DEF s, t
<1> QED BY <1>1, <1>2 DEF Lugares, EnUnSoloLugar

LEMMA PidioIgual ==
  ASSUME NEW p \in Procesos, NEW m, Pidio(p, m), UNCHANGED programa, pos'[p] = pos[p]
  PROVE  Pidio(p, m)'
BY DEF Pidio

LEMMA PidioSigue ==
  ASSUME TypeOK, NEW p \in Procesos, NEW m, Pidio(p, m), UNCHANGED programa, pos'[p] = pos[p] + 1,
         programa[p][pos[p]] # <<"UNLOCK", m>>
  PROVE  Pidio(p, m)'
<1>1. PICK i \in DOMAIN programa[p] :
        /\ i < pos[p] /\ programa[p][i] = <<"LOCK", m>>
        /\ \A k \in i .. pos[p] - 1 : programa[p][k] # <<"UNLOCK", m>>
  BY DEF Pidio
<1>a. programa \in Programas /\ pos[p] \in Nat \ {0}
  BY DEF TypeOK
<1>b. programa[p] \in Seq((Operaciones \X Nombres) \cup ({"NOOP", "SLEEP", "EXIT"} \X {NADIE}))
  BY <1>a, Zenon, ProgramasAssumption DEF ProgramasAssumption
<1>c. DOMAIN programa[p] = 1 .. Len(programa[p]) /\ Len(programa[p]) \in Nat
  BY <1>b, Zenon, LenProperties
<1>2. DOMAIN programa[p] \subseteq Nat /\ pos[p] \in Nat
  BY <1>a, <1>c
<1>3. i < pos[p] + 1 /\ \A k \in i .. pos[p] : programa[p][k] # <<"UNLOCK", m>>
  BY <1>1, <1>2
<1>4. programa' = programa /\ i < pos'[p] /\ pos'[p] - 1 = pos[p]
  BY <1>2, <1>3
<1>5. \A k \in i .. pos'[p] - 1 : programa'[p][k] # <<"UNLOCK", m>>
  BY <1>3, <1>4
<1>6. i \in DOMAIN programa'[p] /\ programa'[p][i] = <<"LOCK", m>>
  BY <1>1, <1>4
<1> QED BY <1>4, <1>5, <1>6 DEF Pidio

(* Nobody executes an instruction, and no mutex changes hands.              *)
LEMMA PropiedadQuieta ==
  ASSUME TypeOK, Lugares, Propiedad, SoloSalen,
         UNCHANGED <<duenio, bloqueados, programa, pos, terminados, creados>>,
         \A c \in CPUs : \/ hilo'[c] = hilo[c]
                         \/ hilo'[c].pc \notin Soltadores /\ \A m : hilo[c].liberar = <<m>> => hilo[c].pc # "soltar"
                         \/ /\ hilo[c].pc \in Soltadores /\ UNCHANGED <<hilo[c].proceso, hilo[c].liberar>>
                            /\ hilo[c].pc # "soltar"
  PROVE  Propiedad'
<1>1. ConDuenio' /\ NoSeEspera'
  BY DEF Propiedad, ConDuenio, NoSeEspera
<1>2. Muertos'
  BY MuertosPaso DEF Propiedad
<1>3. Saliendo'
  <2> SUFFICES ASSUME NEW c \in CPUs, (hilo[c].pc \in Soltadores)', SaleElProceso(c)',
                      NEW m \in Nombres, duenio'[m] = hilo'[c].proceso
               PROVE  Contains(hilo'[c].liberar, m)
    BY Zenon DEF Saliendo
  <2>1. /\ hilo[c].pc \in Soltadores
        /\ hilo'[c].proceso = hilo[c].proceso /\ hilo'[c].liberar = hilo[c].liberar
    OBVIOUS
  <2>2. SaleElProceso(c)
    BY <2>1 DEF SaleElProceso
  <2> QED BY <2>1, <2>2 DEF Propiedad, Saliendo
<1>4. Pedidos'
  <2> SUFFICES ASSUME NEW p \in Procesos, NEW m \in Nombres, Quiere(p, m)'
               PROVE  Pidio(p, m)' \/ Soltara(p, m)'
    BY DEF Pedidos
  <2>1. Pidio(p, m) \/ Soltara(p, m)
    BY DEF Propiedad, Pedidos, Quiere
  <2>2. ASSUME Soltara(p, m) PROVE Soltara(p, m)'
    BY <2>2 DEF Soltara, Soltadores
  <2> QED BY <2>1, <2>2, PidioIgual
<1> QED BY <1>1, <1>2, <1>3, <1>4 DEF Propiedad

(* An instruction.                                                          *)
LEMMA Instruccion ==
  ASSUME TypeOK, Locales, NEW c \in CPUs, NEW op, Ejecuta(c, op)
  PROVE  LET p == hilo[c].proceso IN
         /\ p \in Procesos /\ EnManos(p, c) /\ hilo[c].pc = "corre"
         /\ pos[p] \in DOMAIN programa[p] /\ programa[p][pos[p]] = <<op, Operando(c)>>
         /\ programa' = programa /\ pos'[p] = pos[p] + 1
         /\ \A q \in Procesos : q # p => pos'[q] = pos[q]
<1> DEFINE p == hilo[c].proceso
           f == programa[p]
<1>1. /\ p \in Procesos /\ hilo[c].pc = "corre" /\ pos[p] \in DOMAIN f /\ f[pos[p]][1] = op
      /\ programa' = programa
  BY DEF Ejecuta, Locales, LocalHilo
<1>2. pos' = [pos EXCEPT ![p] = @ + 1]
  BY DEF Ejecuta
<1>3. f \in Seq((Operaciones \X Nombres) \cup ({"NOOP", "SLEEP", "EXIT"} \X {NADIE}))
  BY <1>1, ProgramasAssumption DEF TypeOK
<1>4. f[pos[p]][2] = Operando(c)
  BY DEF Operando
<1>5. f[pos[p]] = <<op, Operando(c)>>
  <2> HIDE DEF f
  <2>1. f[pos[p]] \in (Operaciones \X Nombres) \cup ({"NOOP", "SLEEP", "EXIT"} \X {NADIE})
    BY <1>1, <1>3, ElementOfSeq, LenProperties
  <2> QED BY <1>1, <1>4, <2>1
<1>6. pos'[p] = pos[p] + 1 /\ \A q \in Procesos : q # p => pos'[q] = pos[q]
  BY <1>1, <1>2 DEF TypeOK
<1>7. EnManos(p, c)
  BY <1>1 DEF EnManos
<1> QED BY <1>1, <1>5, <1>6, <1>7

(* Who asks for a mutex neither has it nor waits for it.                    *)
LEMMA NuncaDosVeces ==
  ASSUME TypeOK, Locales, Lugares, Pedidos, NEW c \in CPUs, Ejecuta(c, "LOCK"), Operando(c) \in Nombres
  PROVE  ~Quiere(hilo[c].proceso, Operando(c))
<1> DEFINE p == hilo[c].proceso
           m == Operando(c)
           f == programa[p]
           n == pos[p]
<1>1. /\ p \in Procesos /\ EnManos(p, c) /\ hilo[c].pc = "corre"
      /\ n \in DOMAIN f /\ f[n] = <<"LOCK", m>>
  BY Instruccion
<1> HIDE DEF m
<1>2. ASSUME Pidio(p, m) PROVE FALSE
  <2>1. PICK i \in DOMAIN f :
          i < n /\ f[i] = <<"LOCK", m>> /\ \A k \in i .. n - 1 : f[k] # <<"UNLOCK", m>>
    BY <1>2 DEF Pidio
  <2>2. programa \in Programas /\ f \in Seq((Operaciones \X Nombres) \cup ({"NOOP", "SLEEP", "EXIT"} \X {NADIE}))
    BY <1>1, ProgramasAssumption DEF TypeOK
  <2>3. DOMAIN f \subseteq Nat
    <3> HIDE DEF f
    <3> QED BY <2>2, LenProperties
  <2>4. PICK k \in i .. n : f[k] = <<"UNLOCK", m>>
    <3>1. f[i] = f[n] /\ f[i][1] = "LOCK" /\ f[i][2] = m
      BY <1>1, <2>1
    <3>2. \E k \in i .. n : f[k] = <<"UNLOCK", f[i][2]>>
      BY <1>1, <2>1, <2>2, <3>1, ProgramasAssumption
    <3> QED BY <3>1, <3>2
  <2>5. k # n
    BY <1>1, <2>4
  <2>6. k \in i .. n - 1
    <3> HIDE DEF n, f
    <3> QED BY <1>1, <2>1, <2>3, <2>5
  <2> QED BY <2>1, <2>4, <2>6
<1>3. ASSUME Soltara(p, m) PROVE FALSE
  <2>1. PICK d \in CPUs : hilo[d].pc = "soltar" /\ hilo[d].proceso = p
    BY <1>3 DEF Soltara
  <2>2. EnManos(p, d)
    BY <2>1 DEF EnManos
  <2>3. d = c
    BY <1>1, <2>2, UnaCpu
  <2> QED BY <1>1, <2>1, <2>3
<1>4. m \in Nombres
  BY DEF m
<1>5. ~Quiere(p, m)
  BY <1>1, <1>2, <1>3, <1>4 DEF Pedidos
<1> QED BY <1>5 DEF m

LEMMA SaliendoAlEjecutar ==
  ASSUME TypeOK, Locales, Lugares, Saliendo, NEW c \in CPUs, NEW op, Ejecuta(c, op),
         \A d \in CPUs : d # c => hilo'[d] = hilo[d],
         \A m \in Nombres : duenio'[m] = duenio[m] \/ duenio'[m] = hilo[c].proceso,
         \/ hilo'[c].pc \notin Soltadores
         \/ ~SaleElProceso(c)'
         \/ \A m \in Nombres : duenio'[m] = hilo'[c].proceso => Contains(hilo'[c].liberar, m)
  PROVE  Saliendo'
<1> DEFINE p == hilo[c].proceso
<1>1. /\ p \in Procesos /\ EnManos(p, c) /\ programa' = programa
      /\ \A q \in Procesos : q # p => pos'[q] = pos[q]
  BY Instruccion
<1> SUFFICES ASSUME NEW d \in CPUs, (hilo[d].pc \in Soltadores)', SaleElProceso(d)',
                    NEW m \in Nombres, duenio'[m] = hilo'[d].proceso
             PROVE  Contains(hilo'[d].liberar, m)
  BY Zenon DEF Saliendo
<1>2. CASE d = c
  BY <1>2 DEF Soltadores
<1>3. CASE d # c
  <2> DEFINE q == hilo[d].proceso
  <2>1. hilo'[d] = hilo[d] /\ hilo[d].pc \in Soltadores
    BY <1>3 DEF Soltadores
  <2>2. q \in Procesos /\ EnManos(q, d)
    BY <2>1 DEF Soltadores, EnManos, Locales, LocalHilo
  <2>3. q # p
    BY <1>1, <1>3, <2>2, UnaCpu
  <2>4. SaleElProceso(d)
    BY <1>1, <2>1, <2>2, <2>3 DEF SaleElProceso
  <2>5. duenio[m] = q
    BY <2>1, <2>3
  <2> QED BY <2>1, <2>4, <2>5 DEF Saliendo
<1> QED BY <1>2, <1>3

LEMMA PedidosAlEjecutar ==
  ASSUME TypeOK, Locales, Lugares, Pedidos, NEW c \in CPUs, NEW op, Ejecuta(c, op),
         \A d \in CPUs : d # c => hilo'[d] = hilo[d],
         \A q \in Procesos, m \in Nombres : Quiere(q, m)' =>
           Quiere(q, m) \/ (q = hilo[c].proceso /\ op = "LOCK" /\ m = Operando(c)),
         \A q \in Procesos, m \in Nombres :
           op = "UNLOCK" /\ q = hilo[c].proceso /\ m = Operando(c) => Soltara(q, m)'
  PROVE  Pedidos'
<1> DEFINE p == hilo[c].proceso
<1>1. /\ p \in Procesos /\ EnManos(p, c) /\ hilo[c].pc = "corre"
      /\ pos[p] \in DOMAIN programa[p] /\ programa[p][pos[p]] = <<op, Operando(c)>>
      /\ programa' = programa /\ pos'[p] = pos[p] + 1
      /\ \A q \in Procesos : q # p => pos'[q] = pos[q]
  BY Instruccion
<1> HIDE DEF p
<1> SUFFICES ASSUME NEW q \in Procesos, NEW m \in Nombres, Quiere(q, m)'
             PROVE  Pidio(q, m)' \/ Soltara(q, m)'
  BY DEF Pedidos
<1>2. CASE q # p
  <2>1. Pidio(q, m) \/ Soltara(q, m)
    BY <1>2 DEF Pedidos, p
  <2>2. ASSUME Soltara(q, m) PROVE Soltara(q, m)'
    BY <1>1, <2>2 DEF Soltara
  <2> QED BY <1>1, <1>2, <2>1, <2>2, PidioIgual
<1>3. ASSUME q = p, Quiere(p, m) PROVE Pidio(q, m)' \/ Soltara(q, m)'
  <2>1. ~Soltara(p, m)
    <3> SUFFICES ASSUME NEW d \in CPUs, hilo[d].pc = "soltar", hilo[d].proceso = p PROVE FALSE
      BY DEF Soltara
    <3>1. EnManos(p, d)
      BY DEF EnManos
    <3>2. d = c
      BY <1>1, <3>1, UnaCpu
    <3> QED BY <1>1, <3>2
  <2>2. Pidio(p, m)
    BY <1>1, <1>3, <2>1 DEF Pedidos
  <2>3. CASE op = "UNLOCK" /\ m = Operando(c)
    BY <1>3, <2>3 DEF p
  <2>4. CASE ~(op = "UNLOCK" /\ m = Operando(c))
    <3>1. programa[p][pos[p]] # <<"UNLOCK", m>>
      BY <1>1, <2>4
    <3> QED BY <1>1, <1>3, <2>2, <3>1, PidioSigue
  <2> QED BY <2>3, <2>4
<1>4. ASSUME q = p, op = "LOCK", m = Operando(c) PROVE Pidio(q, m)'
  <2> DEFINE n == pos[p]
             f == programa[p]
  <2>1. n \in Nat
    BY <1>1 DEF TypeOK
  <2>2. programa'[p] = f /\ pos'[p] = n + 1 /\ n \in DOMAIN f /\ f[n] = <<"LOCK", m>>
    BY <1>1, <1>4
  <2> HIDE DEF n, f
  <2>3. n < n + 1 /\ \A k \in n .. (n + 1) - 1 : k = n
    BY <2>1
  <2>4. \A k \in n .. (n + 1) - 1 : f[k] # <<"UNLOCK", m>>
    BY <2>2, <2>3
  <2>5. \A k \in n .. pos'[p] - 1 : programa'[p][k] # <<"UNLOCK", m>>
    BY <2>2, <2>4
  <2>6. n \in DOMAIN programa'[p] /\ n < pos'[p] /\ programa'[p][n] = <<"LOCK", m>>
    BY <2>2, <2>3
  <2> QED BY <1>4, <2>5, <2>6 DEF Pidio
<1> QED BY <1>2, <1>3, <1>4 DEF p

LEMMA PropiedadCpu ==
  ASSUME TypeOK, Locales, Lugares, Propiedad, SoloSalen, NEW c \in CPUs, Cpu(c)
  PROVE  Propiedad'
<1> DEFINE p == hilo[c].proceso
           m == Operando(c)
<1>1. PICK op \in Operaciones : Ejecuta(c, op)
  BY DEF Cpu, NoopSigue, NoopDesaloja, Sleep, CrearMutex, LockInexistente, LockLibre,
     LockOcupado, Unlock, Exit, Operaciones
<1>2. /\ p \in Procesos /\ EnManos(p, c) /\ hilo[c].pc = "corre" /\ programa[p][pos[p]] = <<op, m>>
      /\ pos[p] \in DOMAIN programa[p] /\ programa' = programa /\ pos'[p] = pos[p] + 1
  BY <1>1, Instruccion
<1>3. op \in {"CREATE", "LOCK", "UNLOCK"} => m \in Nombres
  BY <1>1, EjecutaTipo DEF Locales
<1>4. <<"cpu", c>> \in Sitios /\ Esta(p, <<"cpu", c>>)
  BY <1>2, SonSitios, EstaDef
<1>5. \A d \in CPUs : d # c => hilo'[d] = hilo[d]
  BY DEF Cpu, NoopSigue, NoopDesaloja, Sleep, CrearMutex, LockInexistente, LockLibre,
     LockOcupado, Unlock, Exit, TypeOK
<1>6. UNCHANGED terminados
  BY DEF Cpu, NoopSigue, NoopDesaloja, Sleep, CrearMutex, LockInexistente, LockLibre,
     LockOcupado, Unlock, Exit
<1> HIDE DEF p, m
<1>7. CASE NoopSigue(c) \/ NoopDesaloja(c) \/ Sleep(c) \/ CrearMutex(c) \/ LockInexistente(c)
  <2>1. UNCHANGED <<duenio, bloqueados>> /\ creados \subseteq creados'
    BY <1>7 DEF NoopSigue, NoopDesaloja, Sleep, CrearMutex, LockInexistente, mutexes
  <2>2. hilo'[c].pc \in {"corre", "libre"}
    BY <1>2, <1>7 DEF NoopSigue, NoopDesaloja, Sleep, CrearMutex, LockInexistente, Libre, TypeOK
  <2>3. op # "UNLOCK"
    <3>1. op \in {"NOOP", "SLEEP", "CREATE", "LOCK"}
      BY <1>1, <1>7 DEF Ejecuta, NoopSigue, NoopDesaloja, Sleep, CrearMutex, LockInexistente
    <3> QED BY <3>1
  <2>4. ConDuenio' /\ NoSeEspera'
    BY <2>1 DEF Propiedad, ConDuenio, NoSeEspera
  <2>5. Muertos'
    BY <1>6, <2>1, MuertosPaso DEF Propiedad
  <2>6. Saliendo'
    <3>1. hilo'[c].pc \notin Soltadores
      BY <2>2 DEF Soltadores
    <3> QED BY <1>1, <1>5, <2>1, <3>1, SaliendoAlEjecutar DEF Propiedad
  <2>7. Pedidos'
    <3>1. \A q \in Procesos, k \in Nombres : Quiere(q, k)' => Quiere(q, k)
      BY <2>1 DEF Quiere
    <3> QED BY <1>1, <1>5, <2>3, <3>1, PedidosAlEjecutar DEF Propiedad
  <2> QED BY <2>4, <2>5, <2>6, <2>7 DEF Propiedad
<1>8. CASE LockLibre(c)
  <2>1. /\ Ejecuta(c, "LOCK") /\ m \in creados /\ duenio[m] = NADIE
        /\ duenio' = [duenio EXCEPT ![m] = p]
        /\ UNCHANGED <<creados, bloqueados, hilo>>
    BY <1>8 DEF LockLibre, m, p
  <2>2. m \in Nombres
    BY <2>1 DEF TypeOK
  <2>3. duenio'[m] = p /\ (\A k \in Nombres : k # m => duenio'[k] = duenio[k]) /\ bloqueados[m] = <<>>
    BY <2>1, <2>2 DEF Propiedad, ConDuenio, TypeOK
  <2>4. ConDuenio'
    BY <1>2, <2>1, <2>2, <2>3, NadieAssumption DEF Propiedad, ConDuenio
  <2>5. NoSeEspera'
    <3>1. ~Contains(<<>>, p)
      BY DEF Contains
    <3> QED BY <2>1, <2>3, <3>1 DEF Propiedad, NoSeEspera
  <2>6. Muertos'
    BY <1>4, <1>6, <2>3, MuertosPaso DEF Propiedad
  <2>7. Saliendo'
    <3>1. hilo'[c].pc \notin Soltadores
      BY <1>2, <2>1 DEF Soltadores
    <3>2. \A k \in Nombres : duenio'[k] = duenio[k] \/ duenio'[k] = hilo[c].proceso
      BY <2>3 DEF p
    <3> QED BY <1>5, <2>1, <3>1, <3>2, SaliendoAlEjecutar DEF Propiedad
  <2>8. Pedidos'
    <3>1. \A q \in Procesos, k \in Nombres : Quiere(q, k)' => Quiere(q, k) \/ (q = hilo[c].proceso /\ k = Operando(c))
      BY <2>1, <2>3 DEF Quiere, p, m
    <3> QED BY <1>5, <2>1, <3>1, PedidosAlEjecutar DEF Propiedad
  <2> QED BY <2>4, <2>5, <2>6, <2>7, <2>8 DEF Propiedad
<1>9. CASE LockOcupado(c)
  <2>1. /\ Ejecuta(c, "LOCK") /\ m \in creados /\ duenio[m] # NADIE
        /\ bloqueados' = [bloqueados EXCEPT ![m] = Append(@, p)]
        /\ UNCHANGED <<creados, duenio>>
    BY <1>9 DEF LockOcupado, m, p
  <2>2. m \in Nombres
    BY <2>1 DEF TypeOK
  <2>3. /\ \A k \in Nombres : k # m => bloqueados'[k] = bloqueados[k]
        /\ \A q : Contains(bloqueados'[m], q) <=> Contains(bloqueados[m], q) \/ q = p
    <3> DEFINE s == bloqueados[m]
    <3>1. s \in Seq(Procesos) /\ IsInjective(s) /\ bloqueados'[m] = Append(s, p)
      BY <2>1, <2>2 DEF TypeOK, Lugares, EnUnSoloLugar
    <3>2. ~Contains(s, p)
      BY <1>2, <2>2, NiEspera
    <3> HIDE DEF s
    <3>3. \A q : Contains(Append(s, p), q) <=> Contains(s, q) \/ q = p
      BY <1>2, <3>1, <3>2, AlFinal
    <3> QED BY <2>1, <2>2, <3>1, <3>3 DEF TypeOK, s
  <2>4. ConDuenio'
    BY <2>1, <2>3 DEF Propiedad, ConDuenio
  <2>5. NoSeEspera'
    <3>1. duenio[m] # p
      BY <2>1, <2>2, NuncaDosVeces DEF Propiedad, Quiere, m, p
    <3> QED BY <2>1, <2>3, <3>1 DEF Propiedad, NoSeEspera
  <2>6. Muertos'
    BY <1>6, <2>1, MuertosPaso DEF Propiedad
  <2>7. Saliendo'
    <3>1. hilo'[c].pc \notin Soltadores
      BY <1>9 DEF LockOcupado, Soltadores, TypeOK
    <3> QED BY <1>5, <2>1, <3>1, SaliendoAlEjecutar DEF Propiedad
  <2>8. Pedidos'
    <3>1. \A q \in Procesos, k \in Nombres : Quiere(q, k)' => Quiere(q, k) \/ (q = hilo[c].proceso /\ k = Operando(c))
      BY <2>1, <2>3 DEF Quiere, p, m
    <3> QED BY <1>5, <2>1, <3>1, PedidosAlEjecutar DEF Propiedad
  <2> QED BY <2>4, <2>5, <2>6, <2>7, <2>8 DEF Propiedad
<1>10. CASE Unlock(c) \/ Exit(c)
  <2>1. UNCHANGED <<creados, duenio, bloqueados>>
    BY <1>10 DEF Unlock, Exit, mutexes
  <2>2. ConDuenio' /\ NoSeEspera'
    BY <2>1 DEF Propiedad, ConDuenio, NoSeEspera
  <2>3. Muertos'
    BY <1>6, <2>1, MuertosPaso DEF Propiedad
  <2>4. \A q \in Procesos, k \in Nombres : Quiere(q, k)' => Quiere(q, k)
    BY <2>1 DEF Quiere
  <2>5. CASE Unlock(c)
    <3>1. Ejecuta(c, "UNLOCK") /\ hilo'[c].pc = "soltar" /\ hilo'[c].liberar = <<m>> /\ hilo'[c].proceso = p
      BY <2>5 DEF Unlock, TypeOK, TipoHilo, m, p
    <3>2. ~SaleElProceso(c)'
      <4> DEFINE f == programa[p]
                 n == pos[p]
      <4>1. f \in Seq((Operaciones \X Nombres) \cup ({"NOOP", "SLEEP", "EXIT"} \X {NADIE}))
            /\ \A i \in DOMAIN f : f[i][1] = "EXIT" <=> i = Len(f)
        BY <1>2, ProgramasAssumption DEF TypeOK
      <4>2. n \in DOMAIN f /\ f[n] = <<"UNLOCK", m>>
        BY <3>1, Instruccion DEF m, p
      <4> HIDE DEF f, n
      <4>3. Len(f) \in Nat /\ n \in 1 .. Len(f)
        BY <4>1, <4>2, LenProperties
      <4>4. n # Len(f)
        BY <4>1, <4>2
      <4>5. ~(n + 1 > Len(f))
        BY <4>3, <4>4
      <4> QED BY <1>2, <3>1, <4>5 DEF SaleElProceso, f, n
    <3>3. Saliendo'
      BY <1>5, <2>1, <3>1, <3>2, SaliendoAlEjecutar DEF Propiedad
    <3>4. \A q \in Procesos, k \in Nombres :
            q = hilo[c].proceso /\ k = Operando(c) => Soltara(q, k)'
      BY <3>1 DEF Soltara, p, m
    <3>5. Pedidos'
      BY <1>5, <2>4, <3>1, <3>4, PedidosAlEjecutar DEF Propiedad
    <3> QED BY <2>2, <2>3, <3>3, <3>5 DEF Propiedad
  <2>6. CASE Exit(c)
    <3> DEFINE suyos == {k \in Nombres : duenio[k] = p}
    <3>1. PICK nombres \in SetToSeqs(suyos) :
            hilo' = [hilo EXCEPT ![c].pc = "soltar", ![c].liberar = nombres]
      BY <2>6 DEF Exit, p
    <3>2. Ejecuta(c, "EXIT") /\ hilo'[c].liberar = nombres /\ hilo'[c].proceso = p
      BY <2>6, <3>1 DEF Exit, TypeOK, TipoHilo, p
    <3>3. \A k \in Nombres : duenio[k] = p => Contains(nombres, k)
      <4>1. IsFiniteSet(suyos)
        BY FinitosAssumption, FS_Subset
      <4>2. \A k \in suyos : Contains(nombres, k)
        <5> HIDE DEF suyos
        <5> QED BY <3>1, <4>1, SetToSeqsFacts
      <4> QED BY <4>2
    <3>4. Saliendo'
      BY <1>5, <2>1, <3>2, <3>3, SaliendoAlEjecutar DEF Propiedad
    <3>5. Pedidos'
      BY <1>5, <2>4, <3>2, PedidosAlEjecutar DEF Propiedad
    <3> QED BY <2>2, <2>3, <3>4, <3>5 DEF Propiedad
  <2> QED BY <1>10, <2>5, <2>6
<1> QED BY <1>7, <1>8, <1>9, <1>10 DEF Cpu

(* A handler unlocks a mutex.                                               *)
LEMMA SaliendoAlSoltar ==
  ASSUME TypeOK, Locales, Lugares, Saliendo, NEW c \in CPUs, hilo[c].pc = "soltar",
         hilo[c].liberar # <<>>, UNCHANGED <<programa, pos>>, NEW m, m = Head(hilo[c].liberar),
         \A d \in CPUs : d # c => hilo'[d] = hilo[d],
         hilo'[c].proceso = hilo[c].proceso, hilo'[c].liberar = Tail(hilo[c].liberar),
         \A k \in Nombres : k # m => duenio'[k] = duenio[k],
         duenio'[m] = NADIE \/ Contains(bloqueados[m], duenio'[m])
  PROVE  Saliendo'
<1> SUFFICES ASSUME NEW d \in CPUs, (hilo[d].pc \in Soltadores)', SaleElProceso(d)',
                    NEW k \in Nombres, duenio'[k] = hilo'[d].proceso
             PROVE  Contains(hilo'[d].liberar, k)
  BY Zenon DEF Saliendo
<1> DEFINE q == hilo[d].proceso
<1>1. hilo[d].pc \in Soltadores /\ hilo'[d].proceso = q
  BY DEF Soltadores
<1>2. q \in Procesos /\ EnManos(q, d)
  BY <1>1 DEF Soltadores, EnManos, Locales, LocalHilo
<1>3. k # m
  <2> SUFFICES ASSUME k = m PROVE FALSE
    OBVIOUS
  <2>1. duenio'[m] = q /\ q # NADIE
    BY <1>1, <1>2, NadieAssumption
  <2>2. Contains(bloqueados[m], q)
    BY <2>1
  <2>3. ~Contains(bloqueados[m], q)
    <3> HIDE DEF q
    <3> QED BY <1>2, NiEspera
  <2> QED BY <2>2, <2>3
<1>4. duenio[k] = q
  BY <1>1, <1>3
<1>5. SaleElProceso(d)
  BY <1>1 DEF SaleElProceso
<1>6. Contains(hilo[d].liberar, k)
  BY <1>1, <1>4, <1>5 DEF Saliendo
<1>7. CASE d # c
  BY <1>6, <1>7
<1>8. CASE d = c
  <2> DEFINE s == hilo[c].liberar
  <2>1. s \in Seq(Nombres) /\ s # <<>>
    BY DEF TypeOK, TipoHilo
  <2>2. Contains(s, k) /\ hilo'[d].liberar = Tail(s) /\ Head(s) # k
    BY <1>3, <1>6, <1>8
  <2> HIDE DEF s
  <2>3. Contains(Tail(s), k)
    BY <2>1, <2>2, TailLista
  <2> QED BY <2>2, <2>3
<1> QED BY <1>7, <1>8

LEMMA PedidosAlSoltar ==
  ASSUME TypeOK, Locales, Lugares, Pedidos, NEW c \in CPUs, hilo[c].pc = "soltar",
         hilo[c].liberar # <<>>, UNCHANGED <<programa, pos>>, NEW m, m = Head(hilo[c].liberar),
         \A d \in CPUs : d # c => hilo'[d] = hilo[d],
         \A q \in Procesos, k \in Nombres : Quiere(q, k)' => Quiere(q, k),
         \A q \in Procesos : q = hilo[c].proceso /\ m \in Nombres => ~Quiere(q, m)'
  PROVE  Pedidos'
<1> SUFFICES ASSUME NEW q \in Procesos, NEW k \in Nombres, Quiere(q, k)'
             PROVE  Pidio(q, k)' \/ Soltara(q, k)'
  BY DEF Pedidos
<1>1. Pidio(q, k) \/ Soltara(q, k)
  BY DEF Pedidos
<1>2. ASSUME Soltara(q, k) PROVE Soltara(q, k)'
  <2>1. PICK d \in CPUs : hilo[d].pc = "soltar" /\ hilo[d].proceso = q /\ hilo[d].liberar = <<k>>
    BY <1>2 DEF Soltara
  <2>2. d # c
    <3>1. d = c => m = k /\ q = hilo[c].proceso
      BY <2>1
    <3> QED BY <3>1
  <2> QED BY <2>1, <2>2 DEF Soltara
<1> QED BY <1>1, <1>2, PidioIgual

LEMMA PropiedadSoltar ==
  ASSUME TypeOK, Locales, Lugares, Propiedad, SoloSalen, NEW c \in CPUs, SoltarNada(c) \/ SoltarMutex(c)
  PROVE  Propiedad'
<1>1. /\ hilo[c].pc = "soltar" /\ hilo[c].liberar # <<>> /\ hilo[c] \in TipoHilo
      /\ hilo[c].proceso \in Procesos /\ EnManos(hilo[c].proceso, c)
  BY DEF SoltarNada, SoltarMutex, TypeOK, Locales, LocalHilo, EnManos
<1>2. PICK m \in Nombres : m = Head(hilo[c].liberar)
  <2>1. hilo[c].liberar \in Seq(Nombres)
    BY <1>1 DEF TipoHilo
  <2> QED BY <1>1, <2>1, HeadTailProperties
<1>3. PICK p \in Procesos : p = hilo[c].proceso
  BY <1>1
<1>4. ~Contains(bloqueados[m], p)
  BY <1>1, <1>3, NiEspera
<1>5. UNCHANGED <<programa, pos, terminados, creados>>
  BY DEF SoltarNada, SoltarMutex, proceso, mutexes
<1>6. \A d \in CPUs : d # c => hilo'[d] = hilo[d]
  BY DEF SoltarNada, SoltarMutex, TypeOK
<1>7. CASE SoltarNada(c)
  <2>1. /\ UNCHANGED <<duenio, bloqueados>> /\ (m \notin creados \/ duenio[m] = NADIE)
        /\ hilo' = [hilo EXCEPT ![c].liberar = Tail(@)]
    BY <1>2, <1>7 DEF SoltarNada, mutexes
  <2>2. duenio[m] = NADIE /\ bloqueados[m] = <<>>
    BY <2>1 DEF Propiedad, ConDuenio
  <2>3. ConDuenio' /\ NoSeEspera'
    BY <1>5, <2>1 DEF Propiedad, ConDuenio, NoSeEspera
  <2>4. Muertos'
    BY <1>5, <2>1, MuertosPaso DEF Propiedad
  <2>5. Saliendo'
    <3>1. hilo'[c].proceso = hilo[c].proceso /\ hilo'[c].liberar = Tail(hilo[c].liberar)
      BY <1>1, <2>1 DEF TypeOK, TipoHilo
    <3> QED BY <1>1, <1>2, <1>5, <1>6, <2>1, <2>2, <3>1, SaliendoAlSoltar DEF Propiedad
  <2>6. \A q \in Procesos, k \in Nombres : Quiere(q, k)' => Quiere(q, k)
    BY <2>1 DEF Quiere
  <2>7. \A q \in Procesos : ~Quiere(q, m)'
    <3>1. \A q : ~Contains(<<>>, q)
      BY DEF Contains
    <3> QED BY <2>1, <2>2, <3>1, NadieAssumption DEF Quiere
  <2>8. Pedidos'
    BY <1>1, <1>2, <1>5, <1>6, <2>6, <2>7, PedidosAlSoltar DEF Propiedad
  <2> QED BY <2>3, <2>4, <2>5, <2>8 DEF Propiedad
<1>8. ASSUME SoltarMutex(c), bloqueados[m] = <<>> PROVE Propiedad'
  <2> DEFINE h == [hilo[c] EXCEPT !.pc = "calcular", !.duenio_anterior = duenio[m],
                                  !.liberar = Tail(hilo[c].liberar)]
  <2>1. /\ duenio' = [duenio EXCEPT ![m] = NADIE] /\ UNCHANGED bloqueados
        /\ hilo' = [hilo EXCEPT ![c] = h]
    BY <1>2, <1>8 DEF SoltarMutex
  <2>2. h.proceso = hilo[c].proceso /\ h.liberar = Tail(hilo[c].liberar)
    BY <1>1 DEF TipoHilo
  <2> HIDE DEF h
  <2>3. /\ duenio'[m] = NADIE /\ \A k \in Nombres : k # m => duenio'[k] = duenio[k]
        /\ hilo'[c] = h
    BY <2>1 DEF TypeOK
  <2>4. \A q : ~Contains(<<>>, q)
    BY DEF Contains
  <2>5. ConDuenio' /\ NoSeEspera'
    BY <1>5, <1>8, <2>1, <2>3, <2>4 DEF Propiedad, ConDuenio, NoSeEspera
  <2>6. Muertos'
    BY <1>5, <2>3, MuertosPaso DEF Propiedad
  <2>7. Saliendo'
    BY <1>1, <1>2, <1>5, <1>6, <2>2, <2>3, SaliendoAlSoltar DEF Propiedad
  <2>8. \A q \in Procesos, k \in Nombres : Quiere(q, k)' => Quiere(q, k)
    BY <2>1, <2>3, NadieAssumption DEF Quiere
  <2>9. \A q \in Procesos : ~Quiere(q, m)'
    BY <1>8, <2>1, <2>3, <2>4, NadieAssumption DEF Quiere
  <2>10. Pedidos'
    BY <1>1, <1>2, <1>5, <1>6, <2>8, <2>9, PedidosAlSoltar DEF Propiedad
  <2> QED BY <2>5, <2>6, <2>7, <2>10 DEF Propiedad
<1>9. ASSUME SoltarMutex(c), bloqueados[m] # <<>> PROVE Propiedad'
  <2> DEFINE l == bloqueados[m]
             h == [hilo[c] EXCEPT !.pc = "despertar", !.duenio_anterior = duenio[m],
                                  !.siguiente = Head(l), !.liberar = Tail(hilo[c].liberar)]
  <2>1. /\ duenio' = [duenio EXCEPT ![m] = Head(l)]
        /\ bloqueados' = [bloqueados EXCEPT ![m] = Tail(l)]
        /\ hilo' = [hilo EXCEPT ![c] = h] /\ m \in creados
    BY <1>2, <1>9 DEF SoltarMutex
  <2>2. h.proceso = hilo[c].proceso /\ h.liberar = Tail(hilo[c].liberar)
    BY <1>1 DEF TipoHilo
  <2> HIDE DEF h
  <2>3. l \in Seq(Procesos) /\ l # <<>> /\ IsInjective(l)
    BY <1>9 DEF TypeOK, Lugares, EnUnSoloLugar
  <2>4. /\ duenio'[m] = Head(l) /\ bloqueados'[m] = Tail(l) /\ hilo'[c] = h
        /\ \A k \in Nombres : k # m => duenio'[k] = duenio[k] /\ bloqueados'[k] = bloqueados[k]
    BY <2>1 DEF TypeOK
  <2> HIDE DEF l
  <2>5. /\ Head(l) \in Procesos /\ Contains(l, Head(l)) /\ ~Contains(Tail(l), Head(l))
        /\ \A x : Contains(Tail(l), x) => Contains(l, x)
    BY <2>3, SinPrimero, HeadTailProperties
  <2>6. Head(l) # p
    BY <1>4, <2>5 DEF l
  <2>7. ConDuenio' /\ NoSeEspera'
    <3>1. Head(l) # NADIE
      BY <2>5, NadieAssumption
    <3>2. ConDuenio'
      BY <1>5, <2>1, <2>4, <3>1 DEF Propiedad, ConDuenio
    <3>3. NoSeEspera'
      BY <2>4, <2>5 DEF Propiedad, NoSeEspera
    <3> QED BY <3>2, <3>3
  <2>8. Muertos'
    <3>1. <<"espera", m>> \in Sitios /\ Esta(Head(l), <<"espera", m>>)
      BY <2>5, SonSitios, EstaDef DEF l
    <3>2. \A k \in Nombres : duenio'[k] = duenio[k] \/ \E s \in Sitios : Esta(duenio'[k], s)
      BY <2>4, <3>1
    <3> QED BY <1>5, <3>2, MuertosPaso DEF Propiedad
  <2>9. Saliendo'
    <3>1. Contains(bloqueados[m], duenio'[m])
      BY <2>4, <2>5 DEF l
    <3> QED BY <1>1, <1>2, <1>5, <1>6, <2>2, <2>4, <3>1, SaliendoAlSoltar DEF Propiedad
  <2>10. \A q \in Procesos, k \in Nombres : Quiere(q, k)' => Quiere(q, k)
    BY <2>4, <2>5 DEF Quiere, l
  <2>11. \A q \in Procesos : q = hilo[c].proceso => ~Quiere(q, m)'
    BY <1>3, <1>4, <2>4, <2>5, <2>6 DEF Quiere, l
  <2>12. Pedidos'
    BY <1>1, <1>2, <1>5, <1>6, <2>10, <2>11, PedidosAlSoltar DEF Propiedad
  <2> QED BY <2>7, <2>8, <2>9, <2>12 DEF Propiedad
<1> QED BY <1>7, <1>8, <1>9

(* The PCB is destroyed: its process is only on the CPU that destroys it.    *)
LEMMA PropiedadDestruir ==
  ASSUME TypeOK, Locales, Lugares, Propiedad, NEW c \in CPUs, DestruirPcb(c)
  PROVE  Propiedad'
<1>1. PICK p \in Procesos : p = hilo[c].proceso
  BY DEF DestruirPcb, Locales, LocalHilo
<1>2. /\ hilo[c].pc = "soltar" /\ hilo[c].liberar = <<>> /\ SaleElProceso(c) /\ EnManos(p, c)
      /\ hilo' = [hilo EXCEPT ![c] = Libre] /\ terminados' = terminados \cup {p}
      /\ UNCHANGED <<programa, pos, creados, duenio, bloqueados, ready, despachador, enIO>>
  BY <1>1 DEF DestruirPcb, EnManos, proceso, mutexes, colas
<1>3. hilo'[c] = Libre /\ \A d \in CPUs : d # c => hilo'[d] = hilo[d]
  BY <1>2 DEF TypeOK
<1>4. ConDuenio' /\ NoSeEspera'
  BY <1>2 DEF Propiedad, ConDuenio, NoSeEspera
<1>5. \A q, d : d \in CPUs /\ EnManos(q, d)' => d # c /\ EnManos(q, d)
  BY <1>2, ManosLibres
<1>6. ASSUME NEW q \in Procesos, NEW s \in Sitios, Esta(q, s)'
      PROVE  Esta(q, s) /\ s # <<"cpu", c>>
  <2>1. ASSUME NEW d \in CPUs, s = <<"cpu", d>> PROVE Esta(q, s) /\ s # <<"cpu", c>>
    BY <1>5, <1>6, <2>1, EstaDef, EstaDefPrima
  <2>2. ASSUME NEW m \in Nombres, s = <<"espera", m>> PROVE Esta(q, s) /\ s # <<"cpu", c>>
    BY <1>2, <1>6, <2>2, EstaDef, EstaDefPrima
  <2>3. ASSUME NEW n \in Prioridades, s = <<"ready", n>> PROVE Esta(q, s) /\ s # <<"cpu", c>>
    BY <1>2, <1>6, <2>3, EstaDef, EstaDefPrima
  <2>4. CASE s = <<"dispatcher", 0>>
    BY <1>2, <1>6, <2>4, EstaDef, EstaDefPrima
  <2>5. CASE s = <<"io", 0>>
    BY <1>2, <1>6, <2>5, EstaDef, EstaDefPrima
  <2> QED BY <2>1, <2>2, <2>3, <2>4, <2>5, SitiosDef
<1>7. \A s \in Sitios : ~Esta(p, s)'
  <2>1. <<"cpu", c>> \in Sitios /\ Esta(p, <<"cpu", c>>)
    BY <1>2, SonSitios, EstaDef
  <2> QED BY <1>6, <2>1, EnUnSitio DEF Lugares
<1>8. \A m \in Nombres : duenio[m] # p
  <2>1. \A m : ~Contains(<<>>, m)
    BY DEF Contains
  <2>2. \A m \in Nombres : duenio[m] = hilo[c].proceso => Contains(hilo[c].liberar, m)
    BY <1>2 DEF Propiedad, Saliendo, Soltadores
  <2> QED BY <1>1, <1>2, <2>1, <2>2
<1>9. Muertos'
  <2>1. Sitios' = Sitios /\ terminados \subseteq Procesos
    BY DEF Sitios, TypeOK
  <2>2. ASSUME NEW q \in terminados \cup {p}, NEW s \in Sitios PROVE ~Esta(q, s)'
    BY <1>6, <1>7, <2>1, <2>2 DEF Propiedad, Muertos
  <2>3. ASSUME NEW q \in terminados \cup {p}, NEW m \in Nombres PROVE duenio'[m] # q
    BY <1>2, <1>8, <2>3 DEF Propiedad, Muertos
  <2> QED BY <1>2, <2>1, <2>2, <2>3 DEF Muertos
<1>10. Saliendo'
  <2>1. Libre.pc \notin Soltadores
    BY DEF Libre, Soltadores
  <2> SUFFICES ASSUME NEW d \in CPUs, (hilo[d].pc \in Soltadores)', SaleElProceso(d)',
                      NEW m \in Nombres, duenio'[m] = hilo'[d].proceso
               PROVE  Contains(hilo'[d].liberar, m)
    BY Zenon DEF Saliendo
  <2>2. hilo[d] = hilo'[d] /\ hilo[d].pc \in Soltadores /\ duenio[m] = hilo[d].proceso
    BY <1>2, <1>3, <2>1 DEF Soltadores
  <2>3. SaleElProceso(d)
    BY <1>2, <2>2 DEF SaleElProceso
  <2> QED BY <2>2, <2>3 DEF Propiedad, Saliendo
<1>11. Pedidos'
  <2> SUFFICES ASSUME NEW q \in Procesos, NEW m \in Nombres, Quiere(q, m)'
               PROVE  Pidio(q, m)' \/ Soltara(q, m)'
    BY DEF Pedidos
  <2>1. Pidio(q, m) \/ Soltara(q, m)
    BY <1>2 DEF Propiedad, Pedidos, Quiere
  <2>2. ASSUME Soltara(q, m) PROVE Soltara(q, m)'
    BY <1>2, <1>3, <2>2 DEF Soltara
  <2> QED BY <1>2, <2>1, <2>2, PidioIgual
<1> QED BY <1>4, <1>9, <1>10, <1>11 DEF Propiedad

(* Every other step leaves the mutexes, the programs and the handlers that   *)
(* unlock as they were.                                                     *)
LEMMA PropiedadOtros ==
  ASSUME TypeOK, Locales, Lugares, Propiedad, SoloSalen, UNCHANGED <<mutexes, proceso, terminados>>,
         \/ UNCHANGED hilo
         \/ \E c \in CPUs : EjecutarEn(c) \/ SacarDuenio(c) \/ PonerDuenio(c) \/ Bloquear(c)
                           \/ Despertar(c) \/ CalcularPrioridad(c) \/ AsignarPrioridad(c) \/ Devolver(c)
  PROVE  Propiedad'
<1>1. UNCHANGED <<duenio, bloqueados, programa, pos, terminados, creados>>
  BY DEF mutexes, proceso
<1>2. CASE UNCHANGED hilo
  BY <1>1, <1>2, PropiedadQuieta
<1>3. ASSUME NEW c \in CPUs,
             EjecutarEn(c) \/ SacarDuenio(c) \/ PonerDuenio(c) \/ Bloquear(c) \/ Devolver(c)
      PROVE  Propiedad'
  <2>0. PICK h : hilo' = [hilo EXCEPT ![c] = h] /\ h.pc \in {"libre", "corre", "poner", "bloquear"}
    <3>1. hilo[c] \in TipoHilo
      BY DEF TypeOK
    <3>2. CASE EjecutarEn(c)
      <4> DEFINE h == [hilo[c] EXCEPT !.pc = "corre", !.proceso = despachador.proceso]
      <4>1. h.pc = "corre"
        BY <3>1 DEF TipoHilo
      <4>2. hilo' = [hilo EXCEPT ![c] = h]
        BY <3>2 DEF EjecutarEn
      <4> QED BY <4>1, <4>2
    <3>3. CASE SacarDuenio(c)
      <4> DEFINE x == IF EnReady(duenio[hilo[c].mutex]) THEN "poner" ELSE "bloquear"
                 h == [hilo[c] EXCEPT !.pc = x]
      <4>1. hilo' = [hilo EXCEPT ![c] = h]
        BY <3>3 DEF SacarDuenio
      <4>2. x \in {"poner", "bloquear"}
        OBVIOUS
      <4> HIDE DEF x
      <4>3. h.pc = x
        BY <3>1 DEF TipoHilo
      <4> QED BY <4>1, <4>2, <4>3
    <3>4. CASE PonerDuenio(c)
      <4> DEFINE h == [hilo[c] EXCEPT !.pc = "bloquear"]
      <4>1. h.pc = "bloquear" /\ hilo' = [hilo EXCEPT ![c] = h]
        BY <3>1, <3>4 DEF PonerDuenio, TipoHilo
      <4> QED BY <4>1
    <3>5. CASE Bloquear(c) \/ Devolver(c)
      <4>1. hilo' = [hilo EXCEPT ![c] = Libre] /\ Libre.pc = "libre"
        BY <3>5 DEF Bloquear, Devolver, Libre
      <4> QED BY <4>1
    <3> QED BY <1>3, <3>2, <3>3, <3>4, <3>5
  <2>1. hilo'[c].pc \notin Soltadores /\ \A d \in CPUs : d # c => hilo'[d] = hilo[d]
    BY <2>0 DEF Soltadores, TypeOK
  <2>2. ASSUME NEW m, hilo[c].liberar = <<m>> PROVE hilo[c].pc # "soltar"
    <3>1. <<m>> # <<>>
      OBVIOUS
    <3> QED BY <1>3, <2>2, <3>1 DEF EjecutarEn, SacarDuenio, PonerDuenio, Bloquear, Devolver
  <2> QED BY <1>1, <2>1, <2>2, PropiedadQuieta
<1>4. ASSUME NEW c \in CPUs, Despertar(c) \/ CalcularPrioridad(c) \/ AsignarPrioridad(c)
      PROVE  Propiedad'
  <2>0. hilo[c] \in TipoHilo
    BY DEF TypeOK
  <2>1. hilo[c].pc \in Soltadores /\ hilo[c].pc # "soltar"
    BY <1>4 DEF Despertar, CalcularPrioridad, AsignarPrioridad, Soltadores
  <2>2. PICK h : /\ hilo' = [hilo EXCEPT ![c] = h]
                 /\ h.proceso = hilo[c].proceso /\ h.liberar = hilo[c].liberar
    <3>1. CASE Despertar(c)
      <4> DEFINE h == [hilo[c] EXCEPT !.pc = "calcular", !.siguiente = NADIE]
      <4>1. hilo' = [hilo EXCEPT ![c] = h] /\ h.proceso = hilo[c].proceso /\ h.liberar = hilo[c].liberar
        BY <2>0, <3>1 DEF Despertar, TipoHilo
      <4> QED BY <4>1
    <3>2. CASE CalcularPrioridad(c)
      <4> DEFINE h == [hilo[c] EXCEPT !.pc = "asignar",
                                      !.correcta = PrioridadNecesaria(hilo[c].duenio_anterior)]
      <4>1. hilo' = [hilo EXCEPT ![c] = h] /\ h.proceso = hilo[c].proceso /\ h.liberar = hilo[c].liberar
        BY <2>0, <3>2 DEF CalcularPrioridad, TipoHilo
      <4> QED BY <4>1
    <3>3. CASE AsignarPrioridad(c)
      <4> DEFINE h == [hilo[c] EXCEPT !.pc = "soltar", !.duenio_anterior = NADIE, !.correcta = 0]
      <4>1. hilo' = [hilo EXCEPT ![c] = h] /\ h.proceso = hilo[c].proceso /\ h.liberar = hilo[c].liberar
        BY <2>0, <3>3 DEF AsignarPrioridad, TipoHilo
      <4> QED BY <4>1
    <3> QED BY <1>4, <3>1, <3>2, <3>3
  <2>3. hilo'[c] = h /\ \A d \in CPUs : d # c => hilo'[d] = hilo[d]
    BY <2>2 DEF TypeOK
  <2>4. UNCHANGED <<hilo[c].proceso, hilo[c].liberar>>
    BY <2>2, <2>3
  <2> QED BY <1>1, <2>1, <2>3, <2>4, PropiedadQuieta
<1> QED BY <1>2, <1>3, <1>4

LEMMA PropiedadPaso == TypeOK /\ Locales /\ Lugares /\ Propiedad /\ [Next]_vars => Propiedad'
<1> SUFFICES ASSUME TypeOK, Locales, Lugares, Propiedad, [Next]_vars PROVE Propiedad'
  OBVIOUS
<1>1. SoloSalen
  BY LugaresPaso
<1>2. CASE Despachador
  <2>1. UNCHANGED <<mutexes, proceso, terminados>>
    BY <1>2 DEF Despachador, EsperarToken, SacarSiguiente, EjecutarEn
  <2>2. UNCHANGED hilo \/ \E c \in CPUs : EjecutarEn(c)
    BY <1>2 DEF Despachador, EsperarToken, SacarSiguiente
  <2> QED BY <1>1, <2>1, <2>2, PropiedadOtros
<1>3. ASSUME NEW c \in CPUs, Cpu(c) PROVE Propiedad'
  BY <1>1, <1>3, PropiedadCpu
<1>4. ASSUME NEW c \in CPUs, Manejador(c) PROVE Propiedad'
  <2>1. CASE SoltarNada(c) \/ SoltarMutex(c)
    BY <1>1, <2>1, PropiedadSoltar
  <2>2. CASE DestruirPcb(c)
    BY <2>2, PropiedadDestruir
  <2>3. CASE \/ SacarDuenio(c) \/ PonerDuenio(c) \/ Bloquear(c)
             \/ Despertar(c) \/ CalcularPrioridad(c) \/ AsignarPrioridad(c) \/ Devolver(c)
    <3>1. UNCHANGED <<mutexes, proceso, terminados>>
      BY <2>3 DEF SacarDuenio, PonerDuenio, Bloquear, Despertar, CalcularPrioridad,
         AsignarPrioridad, Devolver
    <3> QED BY <1>1, <2>3, <3>1, PropiedadOtros
  <2> QED BY <1>4, <2>1, <2>2, <2>3 DEF Manejador
<1>5. ASSUME NEW p \in Procesos, TerminarIO(p) \/ Suspender(p) \/ Reanudar(p) PROVE Propiedad'
  <2>1. UNCHANGED <<mutexes, proceso, terminados, hilo>>
    BY <1>5 DEF TerminarIO, Suspender, Reanudar
  <2> QED BY <1>1, <2>1, PropiedadOtros
<1>6. CASE UNCHANGED vars
  <2>1. UNCHANGED <<mutexes, proceso, terminados, hilo>>
    BY <1>6 DEF vars
  <2> QED BY <1>1, <2>1, PropiedadOtros
<1> QED BY <1>2, <1>3, <1>4, <1>5, <1>6 DEF Next

LEMMA PropiedadInit == Init => Propiedad
<1> SUFFICES ASSUME Init PROVE Propiedad
  OBVIOUS
<1>1. \A q : ~Contains(<<>>, q)
  BY DEF Contains
<1>2. /\ \A m \in Nombres : duenio[m] = NADIE /\ bloqueados[m] = <<>>
      /\ \A c \in CPUs : hilo[c].pc = "libre"
      /\ terminados = {}
  BY DEF Init, Libre
<1>3. ConDuenio /\ NoSeEspera /\ Muertos
  BY <1>1, <1>2 DEF ConDuenio, NoSeEspera, Muertos
<1>4. Saliendo /\ Pedidos
  BY <1>1, <1>2, NadieAssumption DEF Saliendo, Soltadores, Pedidos, Quiere
<1> QED BY <1>3, <1>4 DEF Propiedad

(* Whoever waits for a mutex waits for a live process, which is not itself:  *)
(* EXIT releases whatever the process has, no unlock gives it a mutex while  *)
(* it ends, and a program does not ask for a mutex it has.                  *)
THEOREM DuenioVivoSiempre == Spec => []DuenioVivo
<1>1. Propiedad => DuenioVivo
  BY DEF Propiedad, ConDuenio, NoSeEspera, Muertos, DuenioVivo
<1> QED BY <1>1, TipoInit, TiposPaso, LugaresInit, LugaresPaso, PropiedadInit, PropiedadPaso, PTL
       DEF Spec

(***************************************************************************)
(* Tokens                                                                   *)
(***************************************************************************)
(* The sum of the lengths of the queues is how many processes they have.    *)
EnColas(r, T) == {p \in Procesos : \E k \in T : Contains(r[k], p)}
PasoDeLargo(f, r) == [T \in SUBSET Prioridades |->
  IF T = {} THEN 0 ELSE LET x == CHOOSE y \in T : TRUE IN f[T \ {x}] + Len(r[x])]

LEMMA LargoDef ==
  ASSUME NEW r, NEW f, f = PasoDeLargo(f, r)
  PROVE  \E g : /\ g = PasoDeLargo(g, r)
                /\ FoldSet(LAMBDA k, n : n + Len(r[k]), 0, Prioridades) = g[Prioridades]
BY DEF FoldSet, MapThenFoldSet, PasoDeLargo

LEMMA EnColasFinito ==
  ASSUME NEW r, NEW T
  PROVE  IsFiniteSet(EnColas(r, T)) /\ Cardinality(EnColas(r, T)) \in Nat
<1>1. EnColas(r, T) \subseteq Procesos
  BY DEF EnColas
<1> QED BY <1>1, FinitosAssumption, FS_Subset, FS_CardinalityType

LEMMA LargoDeUna ==
  ASSUME NEW s \in Seq(Procesos), IsInjective(s)
  PROVE  Cardinality({p \in Procesos : Contains(s, p)}) = Len(s)
<1> DEFINE R == {p \in Procesos : Contains(s, p)}
           f == [i \in 1 .. Len(s) |-> s[i]]
<1>1. Len(s) \in Nat /\ SinRepetidos(s) /\ \A i \in 1 .. Len(s) : s[i] \in Procesos
  BY Vueltas, LenProperties, ElementOfSeq
<1>2. f \in Bijection(1 .. Len(s), R)
  BY <1>1 DEF Bijection, Injection, Surjection, IsInjective, SinRepetidos, Contains
<1>3. IsFiniteSet(1 .. Len(s)) /\ Cardinality(1 .. Len(s)) = Len(s)
  <2>1. \A n \in Nat : 1 \in Int /\ n \in Int /\ (IF 1 > n THEN 0 ELSE n - 1 + 1) = n
    OBVIOUS
  <2>2. \A a, b \in Int : IsFiniteSet(a .. b) /\ Cardinality(a .. b) = IF a > b THEN 0 ELSE b - a + 1
    BY FS_Interval
  <2> QED BY <1>1, <2>1, <2>2
<1> HIDE DEF f, R
<1>4. Cardinality(1 .. Len(s)) = Cardinality(R)
  BY <1>2, <1>3, FS_Bijection DEF ExistsBijection
<1> QED BY <1>3, <1>4 DEF R

LEMMA Largo ==
  ASSUME NEW r \in [Prioridades -> Seq(Procesos)], \A k \in Prioridades : IsInjective(r[k]),
         \A p \in Procesos : \A j, k \in Prioridades : Contains(r[j], p) /\ Contains(r[k], p) => j = k
  PROVE  FoldSet(LAMBDA k, n : n + Len(r[k]), 0, Prioridades)
           = Cardinality(EnColas(r, Prioridades))
<1> DEFINE f == [T \in SUBSET Prioridades |-> Cardinality(EnColas(r, T))]
           El(T) == CHOOSE y \in T : TRUE
<1>0. IsFiniteSet(Prioridades)
  BY CantPrioridadesAssumption, FS_Interval DEF Prioridades
<1>1. ASSUME NEW T \in SUBSET Prioridades, T # {}
      PROVE  /\ El(T) \in T /\ T \ {El(T)} \in SUBSET Prioridades
             /\ f[T] = f[T \ {El(T)}] + Len(r[El(T)])
  <2>1. El(T) \in T /\ T \ {El(T)} \in SUBSET Prioridades
    BY <1>1
  <2> HIDE DEF El
  <2> DEFINE x == El(T)
             A == EnColas(r, T \ {x})
             B == {p \in Procesos : Contains(r[x], p)}
  <2>2. x \in Prioridades /\ r[x] \in Seq(Procesos) /\ IsInjective(r[x]) /\ Len(r[x]) \in Nat
    BY <2>1, LenProperties
  <2>3. EnColas(r, T) = A \cup B /\ A \cap B = {}
    BY <2>1 DEF EnColas
  <2>4. IsFiniteSet(A) /\ Cardinality(A) \in Nat
    BY EnColasFinito
  <2>5. IsFiniteSet(B) /\ Cardinality(B) = Len(r[x])
    <3>1. B \subseteq Procesos
      OBVIOUS
    <3> HIDE DEF x
    <3>2. Cardinality(B) = Len(r[x])
      BY <2>2, LargoDeUna
    <3> QED BY <3>1, <3>2, FinitosAssumption, FS_Subset
  <2> HIDE DEF A, B
  <2>6. Cardinality(A \cup B) = Cardinality(A) + Cardinality(B) - Cardinality(A \cap B)
    BY <2>4, <2>5, FS_Union
  <2>7. Cardinality(A \cap B) = 0
    BY <2>3, FS_EmptySet
  <2>8. Cardinality(EnColas(r, T)) = Cardinality(A) + Len(r[x])
    BY <2>2, <2>3, <2>4, <2>5, <2>6, <2>7
  <2> QED BY <2>1, <2>8 DEF A
<1>2. f[{}] = 0
  <2>1. EnColas(r, {}) = {}
    BY DEF EnColas
  <2> QED BY <2>1, FS_EmptySet
<1>3. f = PasoDeLargo(f, r)
  <2> HIDE DEF f
  <2>1. f = [T \in SUBSET Prioridades |-> f[T]]
    BY DEF f
  <2>2. \A T \in SUBSET Prioridades : f[T] = IF T = {} THEN 0 ELSE f[T \ {El(T)}] + Len(r[El(T)])
    BY <1>1, <1>2
  <2>3. [T \in SUBSET Prioridades |-> f[T]]
          = [T \in SUBSET Prioridades |-> IF T = {} THEN 0 ELSE f[T \ {El(T)}] + Len(r[El(T)])]
    BY <2>2
  <2> QED BY <2>1, <2>3 DEF PasoDeLargo
<1>4. PICK g : /\ g = PasoDeLargo(g, r)
               /\ FoldSet(LAMBDA k, n : n + Len(r[k]), 0, Prioridades) = g[Prioridades]
  BY <1>3, LargoDef
<1>5. \A T \in SUBSET Prioridades : g[T] = IF T = {} THEN 0 ELSE g[T \ {El(T)}] + Len(r[El(T)])
  BY <1>4 DEF PasoDeLargo
<1> DEFINE W == {T \in SUBSET Prioridades : g[T] # f[T]}
<1>6. W = {}
  <2> SUFFICES ASSUME W # {} PROVE FALSE
    OBVIOUS
  <2>0. W \subseteq SUBSET Prioridades
    OBVIOUS
  <2>1. PICK T \in W : \A U \in W : U \subseteq T => U = T
    <3> HIDE DEF W
    <3> QED BY <1>0, <2>0, SubconjuntoMinimo
  <2>2. CASE T = {}
    BY <2>1, <2>2, <1>2, <1>5
  <2>3. CASE T # {}
    <3> HIDE DEF f, El
    <3>1. El(T) \in T /\ T \ {El(T)} \in SUBSET Prioridades /\ f[T] = f[T \ {El(T)}] + Len(r[El(T)])
      BY <2>1, <2>3, <1>1
    <3>2. g[T] = g[T \ {El(T)}] + Len(r[El(T)])
      BY <2>1, <2>3, <1>5
    <3>3. T \ {El(T)} \notin W
      BY <2>1, <3>1
    <3> QED BY <2>1, <3>1, <3>2, <3>3
  <2> QED BY <2>2, <2>3
<1>7. g[Prioridades] = f[Prioridades]
  BY <1>6
<1> QED BY <1>4, <1>7

Encolados == EnColas(ready, Prioridades)
Moviendo == {c \in CPUs : hilo[c].pc = "poner"}
EnCurso == IF despachador.pc \in {"sacar", "nulo"} THEN 1 ELSE 0

(* TokensAlDia, of sets: finitely many locks are moving an owner.            *)
Fichas ==
  /\ IsFiniteSet(Moviendo)
  /\ tokens + EnCurso = Cardinality(Encolados) + Cardinality(Moviendo)

LEMMA EncoladosFinito == IsFiniteSet(Encolados) /\ Cardinality(Encolados) \in Nat
BY EnColasFinito DEF Encolados

LEMMA FichasQuietas ==
  ASSUME Fichas, UNCHANGED <<ready, tokens>>, EnCurso' = EnCurso, Moviendo' = Moviendo
  PROVE  Fichas'
BY DEF Fichas, Encolados

(* Who moves, when the thread of c goes on.                                 *)
LEMMA MoviendoIgual ==
  ASSUME TypeOK, NEW c \in CPUs, NEW h, hilo' = [hilo EXCEPT ![c] = h],
         h.pc # "poner", hilo[c].pc # "poner"
  PROVE  Moviendo' = Moviendo
BY DEF TypeOK, Moviendo

LEMMA UnaCola ==
  ASSUME Lugares
  PROVE  \A p \in Procesos : \A j, k \in Prioridades :
           Contains(ready[j], p) /\ Contains(ready[k], p) => j = k
<1> SUFFICES ASSUME NEW p \in Procesos, NEW j \in Prioridades, NEW k \in Prioridades,
                    Contains(ready[j], p), Contains(ready[k], p)
             PROVE  j = k
  OBVIOUS
<1>1. EnUnSoloLugar
  BY DEF Lugares
<1>2. <<"ready", j>> \in Sitios /\ Esta(p, <<"ready", j>>)
  BY EstaDef, SonSitios
<1>3. <<"ready", k>> \in Sitios /\ Esta(p, <<"ready", k>>)
  BY EstaDef, SonSitios
<1>4. <<"ready", j>> = <<"ready", k>>
  BY <1>1, <1>2, <1>3, EnUnSitio
<1> QED BY <1>4

(* A process that was in no queue goes to one.                              *)
LEMMA UnoMas ==
  ASSUME TypeOK, Lugares, NEW p \in Procesos, NEW s \in Sitios, Esta(p, s),
         \A n \in Prioridades : s # <<"ready", n>>, NEW k \in Prioridades,
         ready' = [ready EXCEPT ![k] = Append(@, p)] \/ ready' = [ready EXCEPT ![k] = <<p>> \o @]
  PROVE  Cardinality(Encolados') = Cardinality(Encolados) + 1
<1>1. \A n \in Prioridades : ~Contains(ready[n], p)
  <2>1. EnUnSoloLugar
    BY DEF Lugares
  <2>2. \A t \in Sitios : Esta(p, t) => t = s
    BY <2>1, EnUnSitio
  <2>3. \A n \in Prioridades : Contains(ready[n], p) => Esta(p, <<"ready", n>>)
    BY EstaDef
  <2>4. \A n \in Prioridades : <<"ready", n>> \in Sitios
    BY SonSitios
  <2> QED BY <2>2, <2>3, <2>4
<1>2. \A q : Contains(ready'[k], q) <=> Contains(ready[k], q) \/ q = p
  <2>1. ready[k] \in Seq(Procesos)
    BY DEF TypeOK
  <2>2. ready'[k] = Append(ready[k], p) \/ ready'[k] = <<p>> \o ready[k]
    BY DEF TypeOK
  <2>3. \A q : Contains(Append(ready[k], p), q) <=> Contains(ready[k], q) \/ q = p
    BY <2>1, AppendLista
  <2>4. \A q : Contains(<<p>> \o ready[k], q) <=> Contains(ready[k], q) \/ q = p
    BY <2>1, ConsLista
  <2> QED BY <2>2, <2>3, <2>4
<1>3. \A n \in Prioridades : n # k => ready'[n] = ready[n]
  BY DEF TypeOK
<1>4. Encolados' = Encolados \cup {p} /\ p \notin Encolados
  BY <1>1, <1>2, <1>3 DEF Encolados, EnColas
<1> HIDE DEF Encolados
<1> QED BY <1>4, EncoladosFinito, FS_AddElement

(* One that was in a queue leaves it.                                       *)
LEMMA UnoMenos ==
  ASSUME TypeOK, Lugares, NEW p \in Procesos, NEW k \in Prioridades, Contains(ready[k], p),
         \A n \in Prioridades : n # k => ready'[n] = ready[n],
         \A q : Contains(ready'[k], q) <=> Contains(ready[k], q) /\ q # p
  PROVE  Cardinality(Encolados') = Cardinality(Encolados) - 1
<1>1. \A n \in Prioridades : n # k => ~Contains(ready[n], p)
  BY UnaCola
<1>2. Encolados' = Encolados \ {p} /\ p \in Encolados
  BY <1>1 DEF Encolados, EnColas
<1> QED BY <1>2, EncoladosFinito, FS_RemoveElement

LEMMA FichasAReady ==
  ASSUME TypeOK, Lugares, Fichas, NEW p \in Procesos, NEW s \in Sitios, Esta(p, s),
         \A n \in Prioridades : s # <<"ready", n>>,
         AgregarAReady(p), UNCHANGED despachador, Moviendo' = Moviendo
  PROVE  Fichas'
<1>1. Nivel(p) \in Prioridades
  BY NivelTipo
<1>2. tokens' = tokens + 1 /\ ready' = [ready EXCEPT ![Nivel(p)] = Append(@, p)]
  BY DEF AgregarAReady
<1>3. Cardinality(Encolados') = Cardinality(Encolados) + 1
  BY <1>1, <1>2, UnoMas
<1>4. tokens \in Nat /\ EnCurso \in Nat /\ EnCurso' = EnCurso
  BY DEF TypeOK, EnCurso
<1>5. Cardinality(Encolados) \in Nat /\ Cardinality(Moviendo) \in Nat
  BY EncoladosFinito, FS_CardinalityType DEF Fichas
<1> HIDE DEF Encolados, Moviendo, EnCurso
<1> QED BY <1>2, <1>3, <1>4, <1>5 DEF Fichas

LEMMA FichasDespachador ==
  ASSUME TypeOK, Locales, Lugares, Fichas, Despachador
  PROVE  Fichas'
<1>0. /\ tokens \in Nat /\ despachador \in [pc : {"esperar", "sacar", "ejecutar", "nulo"},
                                            proceso : Procesos \cup {NADIE}]
      /\ Cardinality(Encolados) \in Nat /\ Cardinality(Moviendo) \in Nat
  BY EncoladosFinito, FS_CardinalityType DEF Fichas, TypeOK
<1>1. CASE EsperarToken
  <2>1. /\ tokens' = tokens - 1 /\ EnCurso = 0 /\ EnCurso' = 1
        /\ Encolados' = Encolados /\ Moviendo' = Moviendo
    BY <1>0, <1>1 DEF EsperarToken, EnCurso, Encolados, Moviendo
  <2> HIDE DEF Encolados, Moviendo, EnCurso
  <2> QED BY <1>0, <2>1 DEF Fichas
<1>2. CASE SacarSiguiente
  <2> DEFINE conGente == {n \in Prioridades : ready[n] # <<>>}
  <2>1. UNCHANGED <<tokens, hilo>> /\ EnCurso = 1 /\ Moviendo' = Moviendo
    BY <1>2 DEF SacarSiguiente, EnCurso, Moviendo
  <2>2. CASE conGente = {}
    <3>1. UNCHANGED ready /\ EnCurso' = 1
      BY <1>0, <1>2, <2>2 DEF SacarSiguiente, EnCurso
    <3> QED BY <2>1, <3>1, FichasQuietas
  <2>3. CASE conGente # {}
    <3> DEFINE n == Min(conGente)
               q == Head(ready[n])
    <3>1. n \in Prioridades /\ ready[n] # <<>>
      <4>1. conGente \subseteq Nat
        BY PrioridadesFacts
      <4>2. n \in conGente
        <5> HIDE DEF conGente
        <5> QED BY <2>3, <4>1, MinProperties
      <4> HIDE DEF n
      <4> QED BY <4>2
    <3>2. /\ despachador' = [pc |-> "ejecutar", proceso |-> q]
          /\ ready' = [ready EXCEPT ![n] = Tail(@)]
      BY <1>2, <2>3 DEF SacarSiguiente
    <3> HIDE DEF n
    <3>3. ready[n] \in Seq(Procesos) /\ IsInjective(ready[n])
      BY <3>1 DEF TypeOK, Lugares, EnUnSoloLugar
    <3>4. /\ q \in Procesos /\ Contains(ready[n], q)
          /\ \A x : Contains(Tail(ready[n]), x) <=> Contains(ready[n], x) /\ x # q
      BY <3>1, <3>3, SinPrimero
    <3>5. ready'[n] = Tail(ready[n]) /\ \A k \in Prioridades : k # n => ready'[k] = ready[k]
      BY <3>1, <3>2 DEF TypeOK
    <3>6. EnCurso' = 0
      BY <3>2 DEF EnCurso
    <3> HIDE DEF q
    <3>7. Cardinality(Encolados') = Cardinality(Encolados) - 1
      BY <3>1, <3>4, <3>5, UnoMenos
    <3> HIDE DEF Encolados, Moviendo, EnCurso
    <3> QED BY <1>0, <2>1, <3>6, <3>7 DEF Fichas
  <2> QED BY <2>2, <2>3
<1>3. ASSUME NEW c \in CPUs, EjecutarEn(c) PROVE Fichas'
  <2> DEFINE h == [hilo[c] EXCEPT !.pc = "corre", !.proceso = despachador.proceso]
  <2>1. hilo[c] \in TipoHilo
    BY DEF TypeOK
  <2>2. h.pc = "corre"
    BY <2>1 DEF TipoHilo
  <2>3. hilo' = [hilo EXCEPT ![c] = h] /\ hilo[c].pc # "poner" /\ UNCHANGED <<ready, tokens>>
    BY <1>3 DEF EjecutarEn, colas
  <2>4. EnCurso' = EnCurso
    BY <1>3 DEF EjecutarEn, EnCurso
  <2> HIDE DEF h
  <2>5. Moviendo' = Moviendo
    BY <2>2, <2>3, MoviendoIgual
  <2> QED BY <2>3, <2>4, <2>5, FichasQuietas
<1> QED BY <1>1, <1>2, <1>3 DEF Despachador

(* The lock that takes the owner out of ready and puts it back.              *)
LEMMA FichasLock ==
  ASSUME TypeOK, Locales, Lugares, Fichas, NEW c \in CPUs, SacarDuenio(c) \/ PonerDuenio(c)
  PROVE  Fichas'
<1> DEFINE d == duenio[hilo[c].mutex]
<1>0. /\ tokens \in Nat /\ hilo[c] \in TipoHilo /\ d \in Procesos
      /\ Cardinality(Encolados) \in Nat /\ Cardinality(Moviendo) \in Nat
      /\ EnCurso \in Nat /\ EnCurso' = EnCurso /\ tokens' = tokens
  BY EncoladosFinito, FS_CardinalityType
     DEF Fichas, TypeOK, Locales, LocalHilo, SacarDuenio, PonerDuenio, EnCurso
<1>1. CASE SacarDuenio(c)
  <2> DEFINE pc == IF EnReady(d) THEN "poner" ELSE "bloquear"
             h == [hilo[c] EXCEPT !.pc = pc]
  <2>1. /\ ready' = [n \in Prioridades |-> RemoveFirst(ready[n], d)]
        /\ hilo' = [hilo EXCEPT ![c] = h] /\ hilo[c].pc = "sacar"
    BY <1>1 DEF SacarDuenio
  <2> HIDE DEF d
  <2>2. h.pc = pc
    BY <1>0 DEF TipoHilo
  <2>3. \A n \in Prioridades : ready[n] \in Seq(Procesos) /\ IsInjective(ready[n])
    BY DEF TypeOK, Lugares, EnUnSoloLugar
  <2> HIDE DEF h
  <2>4. CASE EnReady(d)
    <3>1. PICK k \in Prioridades : Contains(ready[k], d)
      BY <2>4 DEF EnReady
    <3>2. \A n \in Prioridades : n # k => ~Contains(ready[n], d)
      BY <1>0, <3>1, UnaCola
    <3>3. \A n \in Prioridades : n # k => ready'[n] = ready[n]
      BY <2>1, <2>3, <3>2, RemoveFirstProperties
    <3>4. \A q : Contains(ready'[k], q) <=> Contains(ready[k], q) /\ q # d
      BY <2>1, <2>3, SinElegido
    <3>5. Cardinality(Encolados') = Cardinality(Encolados) - 1
      BY <1>0, <3>1, <3>3, <3>4, UnoMenos
    <3>6. Moviendo' = Moviendo \cup {c} /\ c \notin Moviendo
      BY <2>1, <2>2, <2>4 DEF TypeOK, Moviendo
    <3>7. IsFiniteSet(Moviendo') /\ Cardinality(Moviendo') = Cardinality(Moviendo) + 1
      BY <3>6, FS_AddElement DEF Fichas
    <3> HIDE DEF Encolados, Moviendo, EnCurso
    <3> QED BY <1>0, <3>5, <3>7 DEF Fichas
  <2>5. CASE ~EnReady(d)
    <3>1. \A n \in Prioridades : ready'[n] = ready[n]
      BY <2>1, <2>3, <2>5, RemoveFirstProperties DEF EnReady
    <3>2. ready' = ready
      BY <2>1, <3>1 DEF TypeOK
    <3>3. Moviendo' = Moviendo
      BY <2>1, <2>2, <2>5, MoviendoIgual
    <3> QED BY <1>0, <3>2, <3>3, FichasQuietas
  <2> QED BY <2>4, <2>5
<1>2. CASE PonerDuenio(c)
  <2> DEFINE h == [hilo[c] EXCEPT !.pc = "bloquear"]
  <2>1. /\ ready' = [ready EXCEPT ![Nivel(d)] = <<d>> \o @]
        /\ hilo' = [hilo EXCEPT ![c] = h] /\ hilo[c].pc = "poner" /\ EnManos(d, c)
    BY <1>2 DEF PonerDuenio, EnManos
  <2> HIDE DEF d
  <2>2. h.pc = "bloquear"
    BY <1>0 DEF TipoHilo
  <2> HIDE DEF h
  <2>3. <<"cpu", c>> \in Sitios /\ Esta(d, <<"cpu", c>>) /\ \A n : <<"cpu", c>> # <<"ready", n>>
    BY <2>1, SonSitios, EstaDef
  <2>4. Nivel(d) \in Prioridades
    BY <1>0, NivelTipo
  <2>5. Cardinality(Encolados') = Cardinality(Encolados) + 1
    BY <1>0, <2>1, <2>3, <2>4, UnoMas
  <2>6. Moviendo' = Moviendo \ {c} /\ c \in Moviendo
    BY <2>1, <2>2 DEF TypeOK, Moviendo
  <2>7. IsFiniteSet(Moviendo') /\ Cardinality(Moviendo') = Cardinality(Moviendo) - 1
    BY <2>6, FS_RemoveElement DEF Fichas
  <2> HIDE DEF Encolados, Moviendo, EnCurso
  <2> QED BY <1>0, <2>5, <2>7 DEF Fichas
<1> QED BY <1>1, <1>2

(* A thread that gives its process back to ready.                           *)
LEMMA FichasDevuelve ==
  ASSUME TypeOK, Locales, Lugares, Fichas, NEW c \in CPUs,
         NoopDesaloja(c) \/ Despertar(c) \/ Devolver(c)
  PROVE  Fichas'
<1> DEFINE p == IF hilo[c].pc = "despertar" THEN hilo[c].siguiente ELSE hilo[c].proceso
<1>1. p \in Procesos /\ EnManos(p, c) /\ AgregarAReady(p) /\ UNCHANGED despachador
      /\ hilo[c].pc # "poner"
  BY DEF NoopDesaloja, Ejecuta, Despertar, Devolver, Locales, LocalHilo, EnManos
<1>2. Moviendo' = Moviendo
  <2>1. hilo[c] \in TipoHilo
    BY DEF TypeOK
  <2>2. PICK h : hilo' = [hilo EXCEPT ![c] = h] /\ h.pc # "poner"
    <3>1. CASE Despertar(c)
      <4> DEFINE h == [hilo[c] EXCEPT !.pc = "calcular", !.siguiente = NADIE]
      <4>1. h.pc = "calcular" /\ hilo' = [hilo EXCEPT ![c] = h]
        BY <2>1, <3>1 DEF Despertar, TipoHilo
      <4> QED BY <4>1
    <3>2. CASE NoopDesaloja(c) \/ Devolver(c)
      <4>1. hilo' = [hilo EXCEPT ![c] = Libre] /\ Libre.pc = "libre"
        BY <3>2 DEF NoopDesaloja, Devolver, Libre
      <4> QED BY <4>1
    <3> QED BY <3>1, <3>2
  <2> QED BY <1>1, <2>2, MoviendoIgual
<1> HIDE DEF p
<1>3. <<"cpu", c>> \in Sitios /\ Esta(p, <<"cpu", c>>) /\ \A n : <<"cpu", c>> # <<"ready", n>>
  BY <1>1, SonSitios, EstaDef
<1> QED BY <1>1, <1>2, <1>3, FichasAReady

(* Every other step of a thread.                                            *)
LEMMA FichasDeHilo ==
  ASSUME TypeOK, Fichas, NEW c \in CPUs,
         \/ NoopSigue(c) \/ Sleep(c) \/ CrearMutex(c) \/ LockInexistente(c) \/ LockLibre(c)
         \/ LockOcupado(c) \/ Unlock(c) \/ Exit(c) \/ Bloquear(c) \/ SoltarNada(c) \/ SoltarMutex(c)
         \/ CalcularPrioridad(c) \/ AsignarPrioridad(c) \/ DestruirPcb(c)
  PROVE  Fichas'
<1>1. UNCHANGED <<ready, tokens, despachador>>
  BY DEF NoopSigue, Sleep, CrearMutex, LockInexistente, LockLibre, LockOcupado, Unlock, Exit,
     Bloquear, SoltarNada, SoltarMutex, CalcularPrioridad, AsignarPrioridad, DestruirPcb, colas
<1>2. hilo[c].pc # "poner"
  BY DEF NoopSigue, Sleep, CrearMutex, LockInexistente, LockLibre, LockOcupado, Unlock, Exit,
     Bloquear, SoltarNada, SoltarMutex, CalcularPrioridad, AsignarPrioridad, DestruirPcb, Ejecuta
<1>3. UNCHANGED hilo \/ \E h : hilo' = [hilo EXCEPT ![c] = h] /\ h.pc # "poner"
  <2>0. hilo[c] \in TipoHilo
    BY DEF TypeOK
  <2>1. CASE NoopSigue(c) \/ CrearMutex(c) \/ LockLibre(c)
    BY <2>1 DEF NoopSigue, CrearMutex, LockLibre
  <2>2. CASE Sleep(c) \/ LockInexistente(c) \/ Bloquear(c) \/ DestruirPcb(c)
    <3>1. hilo' = [hilo EXCEPT ![c] = Libre] /\ Libre.pc = "libre"
      BY <2>2 DEF Sleep, LockInexistente, Bloquear, DestruirPcb, Libre
    <3> QED BY <3>1
  <2>3. CASE LockOcupado(c)
    <3> DEFINE m == Operando(c)
               d == duenio[m]
               x == IF prioridad[hilo[c].proceso] < prioridad[d] /\ estado[d] = "READY"
                    THEN "sacar" ELSE "bloquear"
               h == [hilo[c] EXCEPT !.mutex = m, !.pc = x]
    <3>1. hilo' = [hilo EXCEPT ![c] = h]
      BY <2>3 DEF LockOcupado
    <3>2. x \in {"sacar", "bloquear"}
      OBVIOUS
    <3> HIDE DEF x, m
    <3>3. h.pc = x
      BY <2>0 DEF TipoHilo
    <3> QED BY <3>1, <3>2, <3>3
  <2>4. CASE Unlock(c)
    <3> DEFINE h == [hilo[c] EXCEPT !.pc = "soltar", !.liberar = <<Operando(c)>>]
    <3>1. h.pc = "soltar" /\ hilo' = [hilo EXCEPT ![c] = h]
      BY <2>0, <2>4 DEF Unlock, TipoHilo
    <3> QED BY <3>1
  <2>5. CASE Exit(c)
    <3>1. PICK nombres : hilo' = [hilo EXCEPT ![c].pc = "soltar", ![c].liberar = nombres]
      BY <2>5 DEF Exit
    <3> DEFINE h == [hilo[c] EXCEPT !.pc = "soltar", !.liberar = nombres]
    <3>2. h.pc = "soltar" /\ hilo' = [hilo EXCEPT ![c] = h]
      BY <2>0, <3>1 DEF TipoHilo
    <3> QED BY <3>2
  <2>6. CASE SoltarNada(c)
    <3> DEFINE h == [hilo[c] EXCEPT !.liberar = Tail(@)]
    <3>1. h.pc = "soltar" /\ hilo' = [hilo EXCEPT ![c] = h]
      BY <2>0, <2>6 DEF SoltarNada, TipoHilo
    <3> QED BY <3>1
  <2>7. CASE SoltarMutex(c)
    <3> DEFINE m == Head(hilo[c].liberar)
               h1 == [hilo[c] EXCEPT !.pc = "calcular", !.duenio_anterior = duenio[m], !.liberar = Tail(@)]
               h2 == [hilo[c] EXCEPT !.pc = "despertar", !.duenio_anterior = duenio[m],
                                     !.siguiente = Head(bloqueados[m]), !.liberar = Tail(@)]
    <3>1. h1.pc = "calcular" /\ h2.pc = "despertar"
      BY <2>0 DEF TipoHilo
    <3>2. hilo' = [hilo EXCEPT ![c] = h1] \/ hilo' = [hilo EXCEPT ![c] = h2]
      BY <2>7 DEF SoltarMutex
    <3> HIDE DEF h1, h2
    <3> QED BY <3>1, <3>2
  <2>8. CASE CalcularPrioridad(c)
    <3> DEFINE h == [hilo[c] EXCEPT !.pc = "asignar",
                                    !.correcta = PrioridadNecesaria(hilo[c].duenio_anterior)]
    <3>1. h.pc = "asignar" /\ hilo' = [hilo EXCEPT ![c] = h]
      BY <2>0, <2>8 DEF CalcularPrioridad, TipoHilo
    <3> QED BY <3>1
  <2>9. CASE AsignarPrioridad(c)
    <3> DEFINE h == [hilo[c] EXCEPT !.pc = "soltar", !.duenio_anterior = NADIE, !.correcta = 0]
    <3>1. h.pc = "soltar" /\ hilo' = [hilo EXCEPT ![c] = h]
      BY <2>0, <2>9 DEF AsignarPrioridad, TipoHilo
    <3> QED BY <3>1
  <2> QED BY <2>1, <2>2, <2>3, <2>4, <2>5, <2>6, <2>7, <2>8, <2>9
<1>4. Moviendo' = Moviendo
  <2>1. CASE UNCHANGED hilo
    BY <2>1 DEF Moviendo
  <2> QED BY <1>2, <1>3, <2>1, MoviendoIgual
<1>5. EnCurso' = EnCurso
  BY <1>1 DEF EnCurso
<1> QED BY <1>1, <1>4, <1>5, FichasQuietas

LEMMA FichasDeFuera ==
  ASSUME TypeOK, Lugares, Fichas, NEW p \in Procesos, TerminarIO(p) \/ Suspender(p) \/ Reanudar(p)
  PROVE  Fichas'
<1>1. Moviendo' = Moviendo /\ UNCHANGED despachador
  BY DEF TerminarIO, Suspender, Reanudar, Moviendo
<1>2. CASE TerminarIO(p)
  <2>1. AgregarAReady(p) /\ Esta(p, <<"io", 0>>) /\ <<"io", 0>> \in Sitios
        /\ \A n : <<"io", 0>> # <<"ready", n>>
    BY <1>2, EstaDef, SonSitios DEF TerminarIO
  <2> QED BY <1>1, <2>1, FichasAReady
<1>3. CASE Suspender(p) \/ Reanudar(p)
  <2>1. UNCHANGED <<ready, tokens>> /\ EnCurso' = EnCurso
    BY <1>1, <1>3 DEF Suspender, Reanudar, colas, EnCurso
  <2> QED BY <1>1, <2>1, FichasQuietas
<1> QED BY <1>2, <1>3

LEMMA FichasPaso == TypeOK /\ Locales /\ Lugares /\ Fichas /\ [Next]_vars => Fichas'
<1> SUFFICES ASSUME TypeOK, Locales, Lugares, Fichas, [Next]_vars PROVE Fichas'
  OBVIOUS
<1>1. ASSUME NEW c \in CPUs, Cpu(c) \/ Manejador(c) PROVE Fichas'
  BY <1>1, FichasDevuelve, FichasLock, FichasDeHilo DEF Cpu, Manejador
<1>2. CASE UNCHANGED vars
  <2>1. UNCHANGED <<ready, tokens, despachador, hilo>>
    BY <1>2 DEF vars, colas
  <2>2. EnCurso' = EnCurso /\ Moviendo' = Moviendo
    BY <2>1 DEF EnCurso, Moviendo
  <2> QED BY <2>1, <2>2, FichasQuietas
<1> QED BY <1>1, <1>2, FichasDespachador, FichasDeFuera DEF Next

(* All the processes are in ready when the threads start.                   *)
LEMMA FichasInit == Init => Fichas
<1> SUFFICES ASSUME Init PROVE Fichas
  OBVIOUS
<1>1. Moviendo = {} /\ EnCurso = 0 /\ tokens = Cardinality(Procesos)
  BY DEF Init, Libre, Moviendo, EnCurso
<1>2. Encolados = Procesos
  BY InitFacts DEF Encolados, EnColas
<1>3. Cardinality(Procesos) \in Nat /\ IsFiniteSet({}) /\ Cardinality({}) = 0
  BY FinitosAssumption, FS_CardinalityType, FS_EmptySet
<1> HIDE DEF Encolados, Moviendo, EnCurso
<1> QED BY <1>1, <1>2, <1>3 DEF Fichas

(* The semaphore of the dispatcher counts the processes in the queues and on  *)
(* their way between two of them: a lock that moves an owner in ready keeps   *)
(* the token it had, and no other step adds one without the other.           *)
THEOREM TokensAlDiaSiempre == Spec => []TokensAlDia
<1>1. TypeOK /\ Lugares /\ Fichas => TokensAlDia
  <2> SUFFICES ASSUME TypeOK, Lugares, Fichas PROVE TokensAlDia
    OBVIOUS
  <2>1. FoldSet(LAMBDA k, n : n + Len(ready[k]), 0, Prioridades) = Cardinality(Encolados)
    BY UnaCola, Largo DEF TypeOK, Lugares, EnUnSoloLugar, Encolados
  <2> QED BY <2>1 DEF Fichas, TokensAlDia, EnCurso, Moviendo
<1> QED BY <1>1, TipoInit, TiposPaso, LugaresInit, LugaresPaso, FichasInit, FichasPaso, PTL DEF Spec
=============================================================================
