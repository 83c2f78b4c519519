---------------------------- MODULE HerenciaProofs ----------------------------
(* Priority inheritance of Mutexes, for any number of processes, CPUs,      *)
(* mutexes and priorities, and for any programs that unlock what they have   *)
(* locked (CadaUnoLoSuyo).                                                  *)
EXTENDS MutexesProofs

Cerradores == {"despertar", "calcular", "asignar"}
Salio(p) == pos[p] > Len(programa[p])
Perdido(p) == \A s \in Sitios : ~Esta(p, s)
PideEl(q, m) == \E i \in DOMAIN programa[q] : programa[q][i] = <<"LOCK", m>>

(* Who has a mutex or waits for it has a LOCK of it in its program.          *)
Pide == \A q \in Procesos, m \in Nombres : Quiere(q, m) => PideEl(q, m)
(* Between its LOCK and its UNLOCK a process that goes on has the mutex or   *)
(* waits for it.                                                            *)
Tiene ==
  \A p \in Procesos, m \in Nombres : Pidio(p, m) => Salio(p) \/ Quiere(p, m) \/ Perdido(p)
(* What a handler releases is of its process, or of nobody else.            *)
EsSuyo(c, m) ==
  \/ duenio[m] = hilo[c].proceso
  \/ \A q \in Procesos \ {hilo[c].proceso} : ~PideEl(q, m)
Suyos ==
  \A c \in CPUs : hilo[c].pc \in Soltadores =>
    \A m \in Nombres : Contains(hilo[c].liberar, m) =>
      EsSuyo(c, m) /\ (~SaleElProceso(c) => ~Pidio(hilo[c].proceso, m))
(* ... once each, and the former owner is the process itself.               *)
LocalSoltar ==
  \A c \in CPUs :
    /\ IsInjective(hilo[c].liberar)
    /\ hilo[c].duenio_anterior = IF hilo[c].pc \in Cerradores THEN hilo[c].proceso ELSE NADIE
Dos ==
  \A p \in Procesos, m, k \in Nombres : m # k /\ Quiere(p, m) /\ Quiere(p, k) => Anida(p)

Base == Pide /\ Tiene /\ Suyos /\ LocalSoltar /\ Dos
Antes == TypeOK /\ Locales /\ Lugares /\ Propiedad /\ Base

(***************************************************************************)
(* Programs                                                                 *)
(***************************************************************************)
LEMMA Programa ==
  ASSUME TypeOK, NEW p \in Procesos
  PROVE  /\ DOMAIN programa[p] = 1 .. Len(programa[p]) /\ Len(programa[p]) \in Nat
         /\ \A i \in DOMAIN programa[p] : programa[p][i][1] = "EXIT" <=> i = Len(programa[p])
         /\ pos[p] \in Nat
<1>1. programa \in Programas /\ pos[p] \in Nat
  BY DEF TypeOK
<1>2. /\ programa[p] \in Seq((Operaciones \X Nombres) \cup ({"NOOP", "SLEEP", "EXIT"} \X {NADIE}))
      /\ \A i \in DOMAIN programa[p] : programa[p][i][1] = "EXIT" <=> i = Len(programa[p])
  BY <1>1, ProgramasAssumption
<1> QED BY <1>1, <1>2, LenProperties

(* An instruction asks for a mutex, or leaves one behind.                   *)
LEMMA PidioDespues ==
  ASSUME TypeOK, Locales, NEW c \in CPUs, NEW op, Ejecuta(c, op), NEW p, p = hilo[c].proceso,
         NEW m, Pidio(p, m)'
  PROVE  /\ Pidio(p, m) \/ (op = "LOCK" /\ m = Operando(c))
         /\ ~(op = "UNLOCK" /\ m = Operando(c))
<1>1. /\ p \in Procesos /\ programa[p][pos[p]] = <<op, Operando(c)>>
      /\ programa' = programa /\ pos'[p] = pos[p] + 1
  BY Instruccion
<1> DEFINE f == programa[p]
           n == pos[p]
           o == Operando(c)
<1>2. n \in Nat /\ DOMAIN f \subseteq Nat
  BY <1>1, Programa
<1>3. PICK i \in DOMAIN f : /\ i < n + 1 /\ f[i] = <<"LOCK", m>>
                            /\ \A k \in i .. (n + 1) - 1 : f[k] # <<"UNLOCK", m>>
  <2>1. PICK i \in DOMAIN programa'[p] :
          /\ i < pos'[p] /\ programa'[p][i] = <<"LOCK", m>>
          /\ \A k \in i .. pos'[p] - 1 : programa'[p][k] # <<"UNLOCK", m>>
    BY Zenon DEF Pidio
  <2>2. programa'[p] = f /\ pos'[p] = n + 1
    BY <1>1
  <2> HIDE DEF f, n
  <2> QED BY <2>1, <2>2
<1>4. f[n] = <<op, o>>
  BY <1>1
<1> HIDE DEF f, n, o
<1>5. i <= n /\ i .. (n + 1) - 1 = i .. n /\ n \in i .. n /\ i .. n - 1 \subseteq i .. n
  BY <1>2, <1>3
<1>6. ~(op = "UNLOCK" /\ m = o)
  BY <1>3, <1>4, <1>5
<1>7. CASE i = n
  BY <1>3, <1>4, <1>6, <1>7 DEF o
<1>8. CASE i # n
  <2>1. i < n /\ \A k \in i .. n - 1 : f[k] # <<"UNLOCK", m>>
    BY <1>2, <1>3, <1>5, <1>8
  <2> QED BY <1>3, <1>6, <2>1 DEF Pidio, f, n, o
<1> QED BY <1>7, <1>8

(* Before its UNLOCK a process has the mutex, or nobody else asks for it.    *)
LEMMA AlPedirUnlock ==
  ASSUME CadaUnoLoSuyo, TypeOK, Locales, NEW c \in CPUs, Ejecuta(c, "UNLOCK"),
         NEW p, p = hilo[c].proceso, NEW m, m = Operando(c)
  PROVE  Pidio(p, m) \/ \A q \in Procesos \ {p} : ~PideEl(q, m)
<1>1. /\ p \in Procesos /\ pos[p] \in DOMAIN programa[p]
      /\ programa[p][pos[p]] = <<"UNLOCK", m>> /\ programa \in Programas
  BY Instruccion DEF TypeOK
<1>2. /\ programa[p][pos[p]][1] = "UNLOCK" /\ programa[p][pos[p]][2] = m
  BY <1>1
<1>3. \/ \E i \in 1 .. pos[p] - 1 : /\ programa[p][i] = <<"LOCK", m>>
                                    /\ \A k \in i .. pos[p] - 1 : programa[p][k] # <<"UNLOCK", m>>
      \/ \A q \in Procesos \ {p} : \A i \in DOMAIN programa[q] : programa[q][i] # <<"LOCK", m>>
  <2> DEFINE n == pos[p]
             x == programa[p][n][2]
  <2>1. \/ \E i \in 1 .. n - 1 : /\ programa[p][i] = <<"LOCK", x>>
                                 /\ \A k \in i .. n - 1 : programa[p][k] # <<"UNLOCK", x>>
        \/ \A q \in Procesos \ {p} : \A i \in DOMAIN programa[q] : programa[q][i] # <<"LOCK", x>>
    <3>1. n \in DOMAIN programa[p] /\ programa[p][n][1] = "UNLOCK"
      BY <1>1, <1>2
    <3> HIDE DEF n
    <3> QED BY <1>1, <3>1, Zenon DEF CadaUnoLoSuyo
  <2>2. x = m
    BY <1>2
  <2> HIDE DEF x
  <2> QED BY <2>1, <2>2
<1>4. 1 .. pos[p] - 1 \subseteq DOMAIN programa[p] /\ \A i \in 1 .. pos[p] - 1 : i < pos[p]
  BY <1>1, Programa
<1> QED BY <1>3, <1>4 DEF Pidio, PideEl

(* A second mutex is asked for before the first is unlocked.                *)
LEMMA AlPedirOtro ==
  ASSUME TypeOK, Locales, NEW c \in CPUs, Ejecuta(c, "LOCK"),
         NEW p, p = hilo[c].proceso, NEW m, m = Operando(c), NEW k, k # m, Pidio(p, k)
  PROVE  Anida(p)
<1>1. /\ p \in Procesos /\ pos[p] \in DOMAIN programa[p]
      /\ programa[p][pos[p]] = <<"LOCK", m>>
  BY Instruccion
<1> DEFINE f == programa[p]
           n == pos[p]
<1>2. n \in Nat /\ DOMAIN f \subseteq Nat
  BY <1>1, Programa
<1>3. PICK i \in DOMAIN f : /\ i < n /\ f[i] = <<"LOCK", k>>
                            /\ \A l \in i .. n - 1 : f[l] # <<"UNLOCK", k>>
  BY DEF Pidio
<1>4. n \in DOMAIN f /\ f[n] = <<"LOCK", m>>
  BY <1>1
<1> HIDE DEF f, n
<1>5. \A l \in i .. n : l \in i .. n - 1 \/ l = n
  BY <1>2, <1>3
<1>6. f[i][1] = "LOCK" /\ f[i][2] = k /\ f[n][1] = "LOCK"
  BY <1>3, <1>4
<1>7. \A l \in i .. n : f[l] # <<"UNLOCK", f[i][2]>>
  BY <1>3, <1>4, <1>5, <1>6
<1> QED BY <1>3, <1>4, <1>6, <1>7 DEF Anida, f, n

(***************************************************************************)
(* What a step does to the mutexes                                          *)
(***************************************************************************)
LEMMA PerdidoSigue ==
  ASSUME SoloSalen, NEW p \in Procesos, Perdido(p) PROVE Perdido(p)'
<1>1. Sitios' = Sitios
  BY DEF Sitios
<1> QED BY <1>1 DEF SoloSalen, Perdido

(* A CPU lets its process go, to no list.                                   *)
LEMMA SeVa ==
  ASSUME TypeOK, Locales, Lugares, NEW c \in CPUs, NEW p \in Procesos, EnManos(p, c),
         hilo' = [hilo EXCEPT ![c] = Libre],
         UNCHANGED <<duenio, bloqueados, ready, despachador, enIO>>
  PROVE  Perdido(p)'
<1> DEFINE aqui == <<"cpu", c>>
<1>1. aqui \in Sitios /\ Esta(p, aqui)
  BY SonSitios, EstaDef
<1>2. \A q, d : d \in CPUs /\ EnManos(q, d)' => d # c /\ EnManos(q, d)
  BY ManosLibres
<1>3. ASSUME NEW s \in Sitios, Esta(p, s)' PROVE Esta(p, s) /\ s # aqui
  <2>1. ASSUME NEW d \in CPUs, s = <<"cpu", d>> PROVE Esta(p, s) /\ s # aqui
    BY <1>2, <1>3, <2>1, EstaDef, EstaDefPrima
  <2>2. ASSUME NEW m \in Nombres, s = <<"espera", m>> PROVE Esta(p, s) /\ s # aqui
    BY <1>3, <2>2, EstaDef, EstaDefPrima
  <2>3. ASSUME NEW n \in Prioridades, s = <<"ready", n>> PROVE Esta(p, s) /\ s # aqui
    BY <1>3, <2>3, EstaDef, EstaDefPrima
  <2>4. CASE s = <<"dispatcher", 0>>
    BY <1>3, <2>4, EstaDef, EstaDefPrima
  <2>5. CASE s = <<"io", 0>>
    BY <1>3, <2>5, EstaDef, EstaDefPrima
  <2> QED BY <2>1, <2>2, <2>3, <2>4, <2>5, SitiosDef
<1>4. Sitios' = Sitios
  BY DEF Sitios
<1> HIDE DEF aqui
<1>5. \A s \in Sitios : ~Esta(p, s)'
  BY <1>1, <1>3, EnUnSitio DEF Lugares
<1> QED BY <1>4, <1>5 DEF Perdido

LEMMA LiberarTipo ==
  ASSUME TypeOK, NEW c \in CPUs
  PROVE  hilo[c] \in TipoHilo /\ hilo[c].liberar \in Seq(Nombres)
BY DEF TypeOK, TipoHilo

(* A handler never takes a mutex from another process.                      *)
LEMMA Suya ==
  ASSUME TypeOK, Pide, Suyos, NEW c \in CPUs, hilo[c].pc = "soltar", hilo[c].liberar # <<>>,
         NEW m, m = Head(hilo[c].liberar), duenio[m] # NADIE
  PROVE  m \in Nombres /\ Contains(hilo[c].liberar, m) /\ duenio[m] = hilo[c].proceso
<1> DEFINE l == hilo[c].liberar
<1>1. l \in Seq(Nombres) /\ l # <<>> /\ m = Head(l)
  BY LiberarTipo
<1> HIDE DEF l
<1>2. m \in Nombres /\ Contains(l, m)
  BY <1>1, HeadTailProperties, TailLista
<1>3. EsSuyo(c, m)
  BY <1>2 DEF Suyos, Soltadores, l
<1>4. duenio[m] \in Procesos /\ PideEl(duenio[m], m)
  BY <1>2 DEF TypeOK, Pide, Quiere
<1> QED BY <1>2, <1>3, <1>4 DEF EsSuyo, l

LEMMA MinDePrioridades ==
  ASSUME NEW x \in Prioridades, NEW S, S \subseteq Prioridades
  PROVE  Min({x} \cup S) \in Prioridades /\ Min({x} \cup S) <= x /\ \A y \in S : Min({x} \cup S) <= y
<1>1. {x} \cup S \subseteq Nat /\ {x} \cup S # {}
  BY PrioridadesFacts
<1> QED BY <1>1, MinProperties

(* The handler of c takes m from its process p, and gives it to the first    *)
(* that waits.                                                              *)
Entrega(c, p, m) ==
  /\ hilo[c].pc = "soltar" /\ hilo[c].proceso = p /\ EnManos(p, c)
  /\ Contains(hilo[c].liberar, m) /\ duenio[m] = p
  /\ \A k \in Nombres : k # m => duenio'[k] = duenio[k] /\ bloqueados'[k] = bloqueados[k]
  /\ duenio'[m] # p /\ ~Contains(bloqueados'[m], p)
  /\ \A q \in Procesos : /\ Contains(bloqueados[m], q) <=> Contains(bloqueados'[m], q) \/ duenio'[m] = q
                         /\ ~(Contains(bloqueados'[m], q) /\ duenio'[m] = q)
  /\ \A d \in CPUs : d # c => hilo'[d] = hilo[d]
  /\ hilo'[c].pc \in {"calcular", "despertar"} /\ hilo'[c].proceso = p
  /\ hilo'[c].duenio_anterior = p /\ IsInjective(hilo'[c].liberar)
  /\ \A k : Contains(hilo'[c].liberar, k) <=> Contains(hilo[c].liberar, k) /\ k # m
  /\ \A q \in Procesos : /\ duenio'[m] # q => prioridad'[q] = prioridad[q]
                         /\ prioridad'[q] <= prioridad[q]
                         /\ duenio'[m] = q => \A e \in Procesos :
                              Contains(bloqueados'[m], e) => prioridad'[q] <= prioridad[e]
  /\ UNCHANGED <<programa, pos, estado, ready>>

LEMMA HiloEntrega ==
  ASSUME Antes, NEW c \in CPUs, SoltarMutex(c), NEW m, m = Head(hilo[c].liberar)
  PROVE  /\ m \in Nombres /\ hilo[c].proceso \in Procesos /\ EnManos(hilo[c].proceso, c)
         /\ Contains(hilo[c].liberar, m) /\ duenio[m] = hilo[c].proceso
         /\ \A d \in CPUs : d # c => hilo'[d] = hilo[d]
         /\ hilo'[c].pc \in {"calcular", "despertar"} /\ hilo'[c].proceso = hilo[c].proceso
         /\ hilo'[c].duenio_anterior = hilo[c].proceso /\ IsInjective(hilo'[c].liberar)
         /\ \A k : Contains(hilo'[c].liberar, k) <=> Contains(hilo[c].liberar, k) /\ k # m
<1> DEFINE l == hilo[c].liberar
           p == hilo[c].proceso
<1>1. /\ hilo[c].pc = "soltar" /\ l # <<>> /\ duenio[m] # NADIE
      /\ l \in Seq(Nombres) /\ IsInjective(l) /\ hilo[c] \in TipoHilo
  BY LiberarTipo DEF SoltarMutex, Antes, Base, LocalSoltar
<1>2. p \in Procesos /\ EnManos(p, c)
  BY <1>1 DEF Antes, Locales, LocalHilo, EnManos
<1>3. m \in Nombres /\ Contains(l, m) /\ duenio[m] = p
  BY <1>1, Suya DEF Antes, Base
<1>4. PICK h : /\ hilo' = [hilo EXCEPT ![c] = h] /\ h.pc \in {"calcular", "despertar"}
               /\ h.proceso = p /\ h.duenio_anterior = duenio[m] /\ h.liberar = Tail(l)
  <2>1. CASE bloqueados[m] = <<>>
    <3> DEFINE h == [hilo[c] EXCEPT !.pc = "calcular", !.duenio_anterior = duenio[m],
                                    !.liberar = Tail(l)]
    <3>1. hilo' = [hilo EXCEPT ![c] = h]
      BY <2>1 DEF SoltarMutex
    <3>2. /\ h.pc = "calcular" /\ h.proceso = p /\ h.duenio_anterior = duenio[m]
          /\ h.liberar = Tail(l)
      BY <1>1 DEF TipoHilo
    <3> QED BY <3>1, <3>2
  <2>2. CASE bloqueados[m] # <<>>
    <3> DEFINE h == [hilo[c] EXCEPT !.pc = "despertar", !.duenio_anterior = duenio[m],
                                    !.siguiente = Head(bloqueados[m]), !.liberar = Tail(l)]
    <3>1. hilo' = [hilo EXCEPT ![c] = h]
      BY <2>2 DEF SoltarMutex
    <3>2. /\ h.pc = "despertar" /\ h.proceso = p /\ h.duenio_anterior = duenio[m]
          /\ h.liberar = Tail(l)
      BY <1>1 DEF TipoHilo
    <3> QED BY <3>1, <3>2
  <2> QED BY <2>1, <2>2
<1>5. hilo'[c] = h /\ \A d \in CPUs : d # c => hilo'[d] = hilo[d]
  BY <1>4 DEF Antes, TypeOK
<1>6. IsInjective(Tail(l)) /\ \A k : Contains(Tail(l), k) <=> Contains(l, k) /\ k # m
  <2> HIDE DEF l
  <2> QED BY <1>1, SinPrimero DEF l
<1> HIDE DEF l, p
<1>7. hilo'[c].liberar = Tail(l) /\ hilo'[c].duenio_anterior = p /\ hilo'[c].proceso = p
  BY <1>3, <1>4, <1>5
<1> QED BY <1>2, <1>3, <1>4, <1>5, <1>6, <1>7 DEF l, p

LEMMA Entregar ==
  ASSUME Antes, NEW c \in CPUs, SoltarMutex(c)
  PROVE  \E p \in Procesos, m \in Nombres : Entrega(c, p, m)
<1> DEFINE m == Head(hilo[c].liberar)
           p == hilo[c].proceso
           l == bloqueados[m]
<1>1. /\ m \in Nombres /\ p \in Procesos /\ EnManos(p, c) /\ hilo[c].pc = "soltar"
      /\ Contains(hilo[c].liberar, m) /\ duenio[m] = p
      /\ \A d \in CPUs : d # c => hilo'[d] = hilo[d]
      /\ hilo'[c].pc \in {"calcular", "despertar"} /\ hilo'[c].proceso = p
      /\ hilo'[c].duenio_anterior = p /\ IsInjective(hilo'[c].liberar)
      /\ \A k : Contains(hilo'[c].liberar, k) <=> Contains(hilo[c].liberar, k) /\ k # m
  BY HiloEntrega DEF SoltarMutex
<1>2. UNCHANGED <<programa, pos, estado, ready>>
  BY DEF SoltarMutex, proceso, colas
<1>3. l \in Seq(Procesos) /\ IsInjective(l) /\ ~Contains(l, p)
  BY <1>1, NiEspera DEF Antes, TypeOK, Lugares, EnUnSoloLugar
<1>4. /\ prioridad \in [Procesos -> Prioridades] /\ Prioridades \subseteq Nat
      /\ \A q \in Procesos : prioridad[q] \in Nat /\ prioridad[q] <= prioridad[q]
  <2>1. prioridad \in [Procesos -> Prioridades] /\ Prioridades \subseteq Nat
    BY PrioridadesFacts DEF Antes, TypeOK
  <2>2. \A q \in Procesos : prioridad[q] \in Nat
    BY <2>1
  <2> QED BY <2>1, <2>2
<1>5. CASE l = <<>>
  <2>1. duenio' = [duenio EXCEPT ![m] = NADIE] /\ UNCHANGED <<prioridad, bloqueados>>
    BY <1>5 DEF SoltarMutex
  <2> HIDE DEF m, p, l
  <2>2. duenio'[m] = NADIE /\ \A k \in Nombres : k # m => duenio'[k] = duenio[k]
    BY <1>1, <2>1 DEF Antes, TypeOK
  <2>3. \A q : ~Contains(bloqueados[m], q) /\ ~Contains(bloqueados'[m], q)
    <3>1. \A q : ~Contains(<<>>, q)
      BY DEF Contains
    <3> QED BY <1>5, <2>1, <3>1 DEF l
  <2>4. \A q \in Procesos : duenio'[m] # q /\ prioridad'[q] = prioridad[q] /\ prioridad'[q] <= prioridad[q]
    BY <1>4, <2>1, <2>2, NadieAssumption
  <2>5. Entrega(c, p, m)
    BY <1>1, <1>2, <2>1, <2>2, <2>3, <2>4 DEF Entrega, p
  <2> QED BY <1>1, <2>5
<1>6. CASE l # <<>>
  <2> DEFINE s == Head(l)
             S == {prioridad[e] : e \in Range(Tail(l))}
             mejor == Min({prioridad[s]} \cup S)
  <2>1. /\ duenio' = [duenio EXCEPT ![m] = s] /\ bloqueados' = [bloqueados EXCEPT ![m] = Tail(l)]
        /\ prioridad' = [prioridad EXCEPT ![s] = mejor]
    BY <1>6 DEF SoltarMutex
  <2> HIDE DEF m, p, l
  <2>2. /\ s \in Procesos /\ Tail(l) \in Seq(Procesos) /\ Contains(l, s)
        /\ \A q : Contains(Tail(l), q) <=> Contains(l, q) /\ q # s
    BY <1>3, <1>6, SinPrimero
  <2> HIDE DEF s
  <2>3. /\ duenio'[m] = s /\ bloqueados'[m] = Tail(l)
        /\ \A k \in Nombres : k # m => duenio'[k] = duenio[k] /\ bloqueados'[k] = bloqueados[k]
    BY <1>1, <2>1 DEF Antes, TypeOK
  <2>4. \A e : Contains(Tail(l), e) => e \in Procesos /\ prioridad[e] \in S
    <3>1. \A e : Contains(Tail(l), e) => e \in Range(Tail(l))
      BY <2>2, LenProperties DEF Contains, Range
    <3>2. \A i \in 1 .. Len(Tail(l)) : Tail(l)[i] \in Procesos
      BY <2>2, ElementOfSeq
    <3> QED BY <3>1, <3>2 DEF Contains
  <2>5. S \subseteq Prioridades
    <3>1. \A e \in Range(Tail(l)) : e \in Procesos
      BY <2>2, ElementOfSeq, LenProperties DEF Range
    <3> QED BY <1>4, <3>1
  <2> HIDE DEF S
  <2>6. mejor \in Prioridades /\ mejor <= prioridad[s] /\ \A y \in S : mejor <= y
    BY <1>4, <2>2, <2>5, MinDePrioridades
  <2> HIDE DEF mejor
  <2>7. prioridad'[s] = mejor /\ \A q \in Procesos : q # s => prioridad'[q] = prioridad[q]
    BY <1>4, <2>1, <2>2
  <2>8. \A q \in Procesos : prioridad'[q] <= prioridad[q]
    BY <1>4, <2>6, <2>7
  <2>9. \A e \in Procesos : Contains(bloqueados'[m], e) => prioridad'[s] <= prioridad[e]
    BY <2>3, <2>4, <2>6, <2>7
  <2>10. s # p /\ ~Contains(bloqueados'[m], p)
    BY <1>3, <2>2, <2>3
  <2>11. \A q \in Procesos : /\ Contains(bloqueados[m], q) <=> Contains(bloqueados'[m], q) \/ duenio'[m] = q
                             /\ ~(Contains(bloqueados'[m], q) /\ duenio'[m] = q)
    BY <2>2, <2>3 DEF l
  <2>12. Entrega(c, p, m)
    BY <1>1, <1>2, <2>3, <2>7, <2>8, <2>9, <2>10, <2>11 DEF Entrega, p
  <2> QED BY <1>1, <2>12
<1> QED BY <1>5, <1>6

(* The process p of CPU c executes an instruction op: nobody else gets or    *)
(* loses a mutex.                                                           *)
Avanza(c, p, op) ==
  /\ Ejecuta(c, op) /\ hilo[c].proceso = p /\ EnManos(p, c) /\ hilo[c].pc = "corre"
  /\ \A d \in CPUs : d # c => hilo'[d] = hilo[d]
  /\ \A q \in Procesos, k \in Nombres :
       /\ Quiere(q, k) => Quiere(q, k)'
       /\ Quiere(q, k)' => Quiere(q, k) \/ (q = p /\ op = "LOCK" /\ k = Operando(c))
       /\ op = "LOCK" /\ k = Operando(c) => Perdido(p)' \/ Quiere(p, k)'
       /\ duenio[k] = q => duenio'[k] = q
  /\ IsInjective(hilo'[c].liberar) /\ hilo'[c].duenio_anterior = NADIE
  /\ hilo'[c].pc \in Soltadores =>
       /\ hilo'[c].pc = "soltar" /\ hilo'[c].proceso = p
       /\ \/ op = "UNLOCK" /\ \A k : Contains(hilo'[c].liberar, k) => k = Operando(c)
          \/ op = "EXIT" /\ \A k : Contains(hilo'[c].liberar, k) => duenio'[k] = p

LEMMA HiloAvanza ==
  ASSUME Antes, NEW c \in CPUs, Cpu(c)
  PROVE  /\ \A d \in CPUs : d # c => hilo'[d] = hilo[d]
         /\ Unlock(c) \/ Exit(c) \/
              (/\ hilo'[c].pc \notin Soltadores /\ IsInjective(hilo'[c].liberar)
               /\ hilo'[c].duenio_anterior = NADIE)
<1>1. \A d \in CPUs : d # c => hilo'[d] = hilo[d]
  BY DEF Cpu, NoopSigue, NoopDesaloja, Sleep, CrearMutex, LockInexistente, LockLibre,
     LockOcupado, Unlock, Exit, Antes, TypeOK
<1>2. ASSUME ~Unlock(c), ~Exit(c) PROVE hilo[c].pc = "corre"
  BY <1>2 DEF Cpu, Ejecuta, NoopSigue, NoopDesaloja, Sleep, CrearMutex, LockInexistente,
     LockLibre, LockOcupado
<1>3. ASSUME hilo[c].pc = "corre" PROVE IsInjective(hilo[c].liberar) /\ hilo[c].duenio_anterior = NADIE
  BY <1>3 DEF Antes, Base, LocalSoltar, Cerradores
<1>4. CASE NoopSigue(c) \/ CrearMutex(c) \/ LockLibre(c)
  <2>1. hilo' = hilo /\ hilo[c].pc = "corre"
    BY <1>4 DEF NoopSigue, CrearMutex, LockLibre, Ejecuta
  <2> QED BY <1>1, <1>3, <2>1 DEF Soltadores
<1>5. CASE NoopDesaloja(c) \/ Sleep(c) \/ LockInexistente(c)
  <2>1. hilo'[c] = Libre
    BY <1>5 DEF NoopDesaloja, Sleep, LockInexistente, Antes, TypeOK
  <2>2. Libre.pc = "libre" /\ Libre.liberar = <<>> /\ Libre.duenio_anterior = NADIE
    BY DEF Libre
  <2>3. IsInjective(<<>>)
    BY DEF IsInjective
  <2> QED BY <1>1, <2>1, <2>2, <2>3 DEF Soltadores
<1>6. CASE LockOcupado(c)
  <2> DEFINE m == Operando(c)
             sube == prioridad[hilo[c].proceso] < prioridad[duenio[m]]
             x == IF sube /\ estado[duenio[m]] = "READY" THEN "sacar" ELSE "bloquear"
             h == [hilo[c] EXCEPT !.mutex = m, !.pc = x]
  <2>1. hilo' = [hilo EXCEPT ![c] = h] /\ hilo[c].pc = "corre"
    BY <1>6 DEF LockOcupado, Ejecuta
  <2>2. x \in {"sacar", "bloquear"}
    OBVIOUS
  <2> HIDE DEF x
  <2>3. h.pc = x /\ h.liberar = hilo[c].liberar /\ h.duenio_anterior = hilo[c].duenio_anterior
    BY LiberarTipo DEF Antes, TipoHilo
  <2>4. hilo'[c] = h
    BY <2>1 DEF Antes, TypeOK
  <2> HIDE DEF h
  <2> QED BY <1>1, <1>3, <2>1, <2>2, <2>3, <2>4 DEF Soltadores
<1> QED BY <1>1, <1>4, <1>5, <1>6 DEF Cpu

LEMMA Avanzar ==
  ASSUME Antes, NEW c \in CPUs, Cpu(c)
  PROVE  \E p \in Procesos, op \in Operaciones : Avanza(c, p, op)
<1> DEFINE m == Operando(c)
<1>1. PICK op \in Operaciones :
        /\ Ejecuta(c, op)
        /\ op = "LOCK" <=> LockInexistente(c) \/ LockLibre(c) \/ LockOcupado(c)
        /\ Unlock(c) => op = "UNLOCK"
        /\ Exit(c) => op = "EXIT"
  <2>1. \A o1, o2 : Ejecuta(c, o1) /\ Ejecuta(c, o2) => o1 = o2
    BY DEF Ejecuta
  <2>2. PICK op \in Operaciones : Ejecuta(c, op)
    BY DEF Cpu, NoopSigue, NoopDesaloja, Sleep, CrearMutex, LockInexistente, LockLibre,
       LockOcupado, Unlock, Exit, Operaciones
  <2>3. /\ Unlock(c) => Ejecuta(c, "UNLOCK")
        /\ Exit(c) => Ejecuta(c, "EXIT")
        /\ LockInexistente(c) \/ LockLibre(c) \/ LockOcupado(c) => Ejecuta(c, "LOCK")
    BY DEF Unlock, Exit, LockInexistente, LockLibre, LockOcupado
  <2>4. \/ LockInexistente(c) \/ LockLibre(c) \/ LockOcupado(c)
        \/ Ejecuta(c, "NOOP") \/ Ejecuta(c, "SLEEP") \/ Ejecuta(c, "CREATE")
        \/ Ejecuta(c, "UNLOCK") \/ Ejecuta(c, "EXIT")
    BY DEF Cpu, NoopSigue, NoopDesaloja, Sleep, CrearMutex, Unlock, Exit
  <2> HIDE DEF m
  <2> QED BY <2>1, <2>2, <2>3, <2>4
<1>2. PICK p \in Procesos : p = hilo[c].proceso
  BY <1>1, Instruccion DEF Antes
<1>3. EnManos(p, c) /\ hilo[c].pc = "corre" /\ hilo[c] \in TipoHilo
  BY <1>1, <1>2, Instruccion DEF Antes, TypeOK
<1>4. op = "LOCK" => m \in Nombres
  BY <1>1, EjecutaTipo DEF Antes, Locales
<1>5. UNCHANGED <<programa>>
  BY <1>1 DEF Ejecuta
<1>6. \A q \in Procesos, k \in Nombres :
        /\ Quiere(q, k) => Quiere(q, k)'
        /\ Quiere(q, k)' => Quiere(q, k) \/ (q = p /\ op = "LOCK" /\ k = m)
        /\ op = "LOCK" /\ k = m => Perdido(p)' \/ Quiere(p, k)'
        /\ duenio[k] = q => duenio'[k] = q
  <2>1. CASE LockLibre(c)
    <3>1. /\ duenio[m] = NADIE /\ duenio' = [duenio EXCEPT ![m] = p] /\ UNCHANGED bloqueados
          /\ op = "LOCK"
      BY <1>1, <1>2, <2>1 DEF LockLibre
    <3>2. duenio'[m] = p /\ \A k \in Nombres : k # m => duenio'[k] = duenio[k]
      BY <1>1, <1>4, <3>1 DEF Antes, TypeOK
    <3>3. m \in Nombres
      BY <1>4, <3>1
    <3> HIDE DEF m
    <3>4. bloqueados[m] = <<>> /\ \A q : ~Contains(<<>>, q)
      BY <3>1, <3>3 DEF Antes, Propiedad, ConDuenio, Contains
    <3> QED BY <3>1, <3>2, <3>4, NadieAssumption DEF Quiere
  <2>2. CASE LockOcupado(c)
    <3> DEFINE l == bloqueados[m]
    <3>1. UNCHANGED duenio /\ bloqueados' = [bloqueados EXCEPT ![m] = Append(@, p)] /\ op = "LOCK"
      BY <1>1, <1>2, <2>2 DEF LockOcupado
    <3>2. m \in Nombres
      BY <1>4, <3>1
    <3> HIDE DEF m
    <3>3. bloqueados'[m] = Append(l, p) /\ \A k \in Nombres : k # m => bloqueados'[k] = bloqueados[k]
      BY <3>1, <3>2 DEF Antes, TypeOK
    <3>4. l \in Seq(Procesos) /\ IsInjective(l) /\ ~Contains(l, p)
      BY <1>3, <3>2, NiEspera DEF Antes, TypeOK, Lugares, EnUnSoloLugar
    <3> HIDE DEF l
    <3>5. \A q : Contains(bloqueados'[m], q) <=> Contains(l, q) \/ q = p
      BY <3>3, <3>4, AlFinal
    <3> QED BY <3>1, <3>3, <3>5 DEF Quiere, l
  <2>3. CASE ~LockLibre(c) /\ ~LockOcupado(c)
    <3>1. UNCHANGED <<duenio, bloqueados>>
      BY <2>3 DEF Cpu, NoopSigue, NoopDesaloja, Sleep, CrearMutex, LockInexistente, Unlock, Exit, mutexes
    <3>2. op = "LOCK" => Perdido(p)'
      <4> SUFFICES ASSUME LockInexistente(c) PROVE Perdido(p)'
        BY <1>1, <2>3
      <4>1. hilo' = [hilo EXCEPT ![c] = Libre] /\ UNCHANGED <<ready, despachador, enIO>>
        BY DEF LockInexistente, colas
      <4> QED BY <1>3, <3>1, <4>1, SeVa DEF Antes
    <3> QED BY <3>1, <3>2 DEF Quiere
  <2> QED BY <2>1, <2>2, <2>3
<1>7. /\ IsInjective(hilo'[c].liberar) /\ hilo'[c].duenio_anterior = NADIE
      /\ hilo'[c].pc \in Soltadores =>
           /\ hilo'[c].pc = "soltar" /\ hilo'[c].proceso = p
           /\ \/ op = "UNLOCK" /\ \A k : Contains(hilo'[c].liberar, k) => k = m
              \/ op = "EXIT" /\ \A k : Contains(hilo'[c].liberar, k) => duenio'[k] = p
  <2>1. hilo[c].duenio_anterior = NADIE
    BY <1>3 DEF Antes, Base, LocalSoltar, Cerradores
  <2>2. ASSUME NEW l, hilo' = [hilo EXCEPT ![c].pc = "soltar", ![c].liberar = l]
        PROVE  /\ hilo'[c].pc = "soltar" /\ hilo'[c].proceso = p /\ hilo'[c].liberar = l
               /\ hilo'[c].duenio_anterior = NADIE
    BY <1>2, <1>3, <2>1, <2>2 DEF Antes, TypeOK, TipoHilo
  <2>3. CASE Unlock(c)
    <3>1. hilo' = [hilo EXCEPT ![c].pc = "soltar", ![c].liberar = <<m>>] /\ op = "UNLOCK"
      BY <1>1, <2>3 DEF Unlock
    <3>2. IsInjective(<<m>>) /\ \A k : Contains(<<m>>, k) => k = m
      BY DEF IsInjective, Contains
    <3> QED BY <2>2, <3>1, <3>2
  <2>4. CASE Exit(c)
    <3> DEFINE suyos == {k \in Nombres : duenio[k] = p}
    <3>1. PICK l \in SetToSeqs(suyos) : hilo' = [hilo EXCEPT ![c].pc = "soltar", ![c].liberar = l]
      BY <1>2, <2>4 DEF Exit
    <3>2. UNCHANGED duenio /\ op = "EXIT"
      BY <1>1, <2>4 DEF Exit, mutexes
    <3>3. IsFiniteSet(suyos)
      BY FinitosAssumption, FS_Subset
    <3>4. \A k \in suyos : duenio[k] = p
      OBVIOUS
    <3> HIDE DEF suyos
    <3>5. l \in Seq(suyos) /\ IsInjective(l)
      BY <3>1, <3>3, SetToSeqsFacts
    <3>6. \A k : Contains(l, k) => k \in suyos
      BY <3>5, ElementOfSeq, LenProperties DEF Contains
    <3> QED BY <2>2, <3>1, <3>2, <3>4, <3>5, <3>6
  <2>5. CASE ~Unlock(c) /\ ~Exit(c)
    BY <2>5, HiloAvanza
  <2> QED BY <2>3, <2>4, <2>5
<1> HIDE DEF m
<1>8. Avanza(c, p, op)
  BY <1>1, <1>2, <1>3, <1>6, <1>7, HiloAvanza DEF Avanza, m
<1> QED BY <1>8

(***************************************************************************)
(* The invariant                                                            *)
(***************************************************************************)
LEMMA AntesIgual ==
  ASSUME UNCHANGED programa, NEW p, pos'[p] = pos[p], NEW m
  PROVE  /\ Pidio(p, m)' <=> Pidio(p, m)
         /\ Salio(p)' <=> Salio(p)
         /\ PideEl(p, m)' <=> PideEl(p, m)
BY DEF Pidio, Salio, PideEl

LEMMA ProgramasIguales ==
  ASSUME UNCHANGED programa
  PROVE  \A p : /\ Anida(p)' <=> Anida(p)
                /\ \A m : PideEl(p, m)' <=> PideEl(p, m)
BY DEF Anida, PideEl

(* Only the process that executes an instruction gets on.                   *)
LEMMA TieneAlAvanzar ==
  ASSUME Antes, SoloSalen, NEW c \in CPUs, NEW p \in Procesos, NEW op, Avanza(c, p, op)
  PROVE  Tiene'
<1>1. /\ Ejecuta(c, op) /\ p = hilo[c].proceso /\ pos[p] \in DOMAIN programa[p]
      /\ programa' = programa /\ pos'[p] = pos[p] + 1
      /\ \A q \in Procesos : q # p => pos'[q] = pos[q]
  BY Instruccion DEF Antes, Avanza
<1> SUFFICES ASSUME NEW q \in Procesos, NEW m \in Nombres, Pidio(q, m)'
             PROVE  Salio(q)' \/ Quiere(q, m)' \/ Perdido(q)'
  BY Zenon DEF Tiene
<1>2. Salio(q) => Salio(q)'
  <2>1. pos[q] \in Nat /\ Len(programa[q]) \in Nat
    BY Programa DEF Antes
  <2>2. pos'[q] = pos[q] \/ pos'[q] = pos[q] + 1
    BY <1>1
  <2> QED BY <1>1, <2>1, <2>2 DEF Salio
<1>3. Perdido(q) => Perdido(q)'
  BY PerdidoSigue
<1>4. Quiere(q, m) => Quiere(q, m)'
  BY DEF Avanza
<1>5. CASE Pidio(q, m)
  BY <1>2, <1>3, <1>4, <1>5 DEF Antes, Base, Tiene
<1>6. CASE ~Pidio(q, m)
  <2>1. q = p
    BY <1>1, <1>6, AntesIgual
  <2>2. op = "LOCK" /\ m = Operando(c)
    BY <1>1, <1>6, <2>1, PidioDespues DEF Antes
  <2> QED BY <2>1, <2>2 DEF Avanza
<1> QED BY <1>5, <1>6

LEMMA SuyosAlAvanzar ==
  ASSUME CadaUnoLoSuyo, Antes, NEW c \in CPUs, NEW p \in Procesos, NEW op, Avanza(c, p, op)
  PROVE  Suyos'
<1>1. /\ Ejecuta(c, op) /\ p = hilo[c].proceso /\ pos[p] \in DOMAIN programa[p]
      /\ programa[p][pos[p]] = <<op, Operando(c)>> /\ EnManos(p, c)
      /\ programa' = programa /\ pos'[p] = pos[p] + 1
      /\ \A q \in Procesos : q # p => pos'[q] = pos[q]
  BY Instruccion DEF Antes, Avanza
<1> SUFFICES ASSUME NEW d \in CPUs, (hilo[d].pc \in Soltadores)',
                    NEW m \in Nombres, Contains(hilo'[d].liberar, m)
             PROVE  EsSuyo(d, m)' /\ (~SaleElProceso(d)' => ~Pidio(hilo[d].proceso, m)')
  BY Zenon DEF Suyos
<1>2. CASE d # c
  <2>1. hilo'[d] = hilo[d] /\ hilo[d].pc \in Soltadores
    BY <1>2 DEF Avanza, Soltadores
  <2>2. PICK q \in Procesos : q = hilo[d].proceso
    BY <2>1 DEF Antes, Locales, LocalHilo, Soltadores
  <2>3. q # p
    <3>1. EnManos(q, d)
      BY <2>1, <2>2 DEF Soltadores, EnManos
    <3> QED BY <1>1, <1>2, <3>1, UnaCpu DEF Antes
  <2>4. EsSuyo(d, m) /\ (~SaleElProceso(d) => ~Pidio(q, m))
    BY <2>1, <2>2 DEF Antes, Base, Suyos
  <2>5. EsSuyo(d, m)'
    <3>1. duenio[m] = q => duenio'[m] = q
      BY DEF Avanza
    <3> QED BY <1>1, <2>1, <2>2, <2>4, <3>1, ProgramasIguales DEF EsSuyo
  <2>6. (SaleElProceso(d)' <=> SaleElProceso(d)) /\ (Pidio(q, m)' <=> Pidio(q, m))
    BY <1>1, <2>1, <2>2, <2>3, AntesIgual DEF SaleElProceso
  <2> QED BY <2>1, <2>2, <2>4, <2>5, <2>6
<1>3. ASSUME d = c, op = "UNLOCK", m = Operando(c)
      PROVE  EsSuyo(c, m)' /\ ~Pidio(p, m)'
  <2>1. ~Pidio(p, m)'
    BY <1>1, <1>3, PidioDespues DEF Antes
  <2>2. CASE Pidio(p, m)
    <3>1. ~Salio(p)
      <4>1. pos[p] \in 1 .. Len(programa[p]) /\ Len(programa[p]) \in Nat
        BY <1>1, Programa DEF Antes
      <4> QED BY <4>1 DEF Salio
    <3>2. ~Perdido(p)
      BY <1>1, EstaDef, SonSitios DEF Perdido
    <3>3. Quiere(p, m)
      BY <2>2, <3>1, <3>2 DEF Antes, Base, Tiene
    <3>4. duenio[m] = p
      BY <1>1, <3>3, NiEspera DEF Quiere, Antes
    <3> QED BY <1>3, <2>1, <3>4 DEF Avanza, EsSuyo
  <2>3. CASE \A q \in Procesos \ {p} : ~PideEl(q, m)
    <3>1. hilo'[c].proceso = p
      BY <1>3 DEF Avanza
    <3> QED BY <1>1, <2>1, <2>3, <3>1, ProgramasIguales DEF EsSuyo
  <2> QED BY <1>1, <1>3, <2>2, <2>3, AlPedirUnlock DEF Antes
<1>4. ASSUME d = c, op = "EXIT", duenio'[m] = p
      PROVE  EsSuyo(c, m)' /\ SaleElProceso(c)'
  <2>1. hilo'[c].proceso = p
    BY <1>4 DEF Avanza
  <2>2. programa[p][pos[p]][1] = "EXIT"
    BY <1>1, <1>4
  <2>3. pos[p] = Len(programa[p]) /\ Len(programa[p]) \in Nat
    BY <1>1, <2>2, Programa DEF Antes
  <2>4. SaleElProceso(c)'
    BY <1>1, <2>1, <2>3 DEF SaleElProceso
  <2> QED BY <1>4, <2>1, <2>4 DEF EsSuyo
<1>5. CASE d = c
  <2>1. /\ hilo'[c].proceso = p
        /\ \/ op = "UNLOCK" /\ m = Operando(c)
           \/ op = "EXIT" /\ duenio'[m] = p
    BY <1>5 DEF Avanza, Soltadores
  <2> QED BY <1>3, <1>4, <1>5, <2>1
<1> QED BY <1>2, <1>5

LEMMA BaseAlAvanzar ==
  ASSUME CadaUnoLoSuyo, Antes, SoloSalen, NEW c \in CPUs, Cpu(c)
  PROVE  Base'
<1>1. PICK p \in Procesos, op \in Operaciones : Avanza(c, p, op)
  BY Avanzar
<1>2. /\ Ejecuta(c, op) /\ p = hilo[c].proceso /\ pos[p] \in DOMAIN programa[p]
      /\ programa[p][pos[p]] = <<op, Operando(c)>> /\ EnManos(p, c) /\ hilo[c].pc = "corre"
      /\ programa' = programa
  BY <1>1, Instruccion DEF Antes, Avanza
<1>3. \A q \in Procesos, k \in Nombres :
        Quiere(q, k)' => Quiere(q, k) \/ (q = p /\ op = "LOCK" /\ k = Operando(c))
  BY <1>1 DEF Avanza
<1>4. Pide'
  <2> SUFFICES ASSUME NEW q \in Procesos, NEW k \in Nombres, Quiere(q, k)' PROVE PideEl(q, k)'
    BY DEF Pide
  <2>1. PideEl(q, k)
    BY <1>2, <1>3 DEF Antes, Base, Pide, PideEl
  <2> QED BY <1>2, <2>1, ProgramasIguales
<1>5. LocalSoltar'
  <2> SUFFICES ASSUME NEW d \in CPUs
               PROVE  /\ IsInjective(hilo'[d].liberar)
                      /\ hilo'[d].duenio_anterior =
                           IF hilo'[d].pc \in Cerradores THEN hilo'[d].proceso ELSE NADIE
    BY Zenon DEF LocalSoltar, Cerradores
  <2>1. CASE d # c
    BY <1>1, <2>1 DEF Avanza, Antes, Base, LocalSoltar
  <2>2. CASE d = c
    BY <1>1, <2>2 DEF Avanza, Soltadores, Cerradores
  <2> QED BY <2>1, <2>2
<1>6. ASSUME NEW k \in Nombres, Quiere(p, k), op = "LOCK", Operando(c) # k PROVE Anida(p)
  <2>1. ~Soltara(p, k)
    <3> SUFFICES ASSUME NEW d \in CPUs, hilo[d].pc = "soltar", hilo[d].proceso = p PROVE FALSE
      BY DEF Soltara
    <3>1. EnManos(p, d)
      BY DEF EnManos
    <3> QED BY <1>2, <3>1, UnaCpu DEF Antes
  <2>2. Pidio(p, k)
    BY <1>6, <2>1 DEF Antes, Propiedad, Pedidos
  <2> QED BY <1>2, <1>6, <2>2, AlPedirOtro DEF Antes
<1>7. Dos'
  <2> SUFFICES ASSUME NEW q \in Procesos, NEW m \in Nombres, NEW k \in Nombres,
                      m # k, Quiere(q, m)', Quiere(q, k)'
               PROVE  Anida(q)'
    BY Zenon DEF Dos
  <2>1. Anida(q)
    BY <1>3, <1>6 DEF Antes, Base, Dos
  <2> QED BY <1>2, <2>1, ProgramasIguales
<1> QED BY <1>1, <1>4, <1>5, <1>7, TieneAlAvanzar, SuyosAlAvanzar DEF Base

LEMMA BaseAlEntregar ==
  ASSUME Antes, SoloSalen, NEW c \in CPUs, SoltarMutex(c)
  PROVE  Base'
<1>1. PICK p \in Procesos, m \in Nombres : Entrega(c, p, m)
  BY Entregar
<1>2. /\ programa' = programa /\ pos' = pos /\ hilo[c].pc = "soltar" /\ hilo[c].proceso = p
      /\ EnManos(p, c) /\ Contains(hilo[c].liberar, m)
      /\ \A d \in CPUs : d # c => hilo'[d] = hilo[d]
      /\ \A k \in Nombres : k # m => duenio'[k] = duenio[k]
  BY <1>1 DEF Entrega
<1>3. ASSUME NEW q \in Procesos, NEW k \in Nombres
      PROVE  /\ Quiere(q, k)' => Quiere(q, k)
             /\ Quiere(q, k) => Quiere(q, k)' \/ (q = p /\ k = m)
  BY <1>1 DEF Entrega, Quiere
<1>4. Pide'
  <2> SUFFICES ASSUME NEW q \in Procesos, NEW k \in Nombres, Quiere(q, k)' PROVE PideEl(q, k)'
    BY DEF Pide
  <2> QED BY <1>2, <1>3, ProgramasIguales DEF Antes, Base, Pide
<1>5. Tiene'
  <2> SUFFICES ASSUME NEW q \in Procesos, NEW k \in Nombres, Pidio(q, k)'
               PROVE  Salio(q)' \/ Quiere(q, k)' \/ Perdido(q)'
    BY Zenon DEF Tiene
  <2>1. pos'[q] = pos[q]
    BY <1>2
  <2>2. Pidio(q, k) /\ (Salio(q)' <=> Salio(q))
    BY <1>2, <2>1, AntesIgual
  <2>3. Salio(q) \/ Quiere(q, k) \/ Perdido(q)
    BY <2>2 DEF Antes, Base, Tiene
  <2>4. ASSUME q = p, k = m PROVE Salio(q)
    <3>1. SaleElProceso(c)
      BY <1>2, <2>2, <2>4 DEF Antes, Base, Suyos, Soltadores
    <3> QED BY <1>2, <2>4, <3>1 DEF SaleElProceso, Salio
  <2> QED BY <1>3, <2>2, <2>3, <2>4, PerdidoSigue
<1>6. Suyos'
  <2> SUFFICES ASSUME NEW d \in CPUs, (hilo[d].pc \in Soltadores)',
                      NEW k \in Nombres, Contains(hilo'[d].liberar, k)
               PROVE  EsSuyo(d, k)' /\ (~SaleElProceso(d)' => ~Pidio(hilo[d].proceso, k)')
    BY Zenon DEF Suyos
  <2>1. hilo[d].pc \in Soltadores /\ hilo'[d].proceso = hilo[d].proceso /\ Contains(hilo[d].liberar, k)
    <3>1. CASE d # c
      BY <1>2, <3>1 DEF Soltadores
    <3>2. CASE d = c
      BY <1>1, <3>2 DEF Entrega, Soltadores
    <3> QED BY <3>1, <3>2
  <2>2. PICK q \in Procesos : q = hilo[d].proceso
    BY <2>1 DEF Antes, Locales, LocalHilo, Soltadores
  <2>3. EsSuyo(d, k) /\ (~SaleElProceso(d) => ~Pidio(q, k))
    BY <2>1, <2>2 DEF Antes, Base, Suyos
  <2>4. (SaleElProceso(d)' <=> SaleElProceso(d)) /\ (Pidio(q, k)' <=> Pidio(q, k))
    BY <1>2, <2>1, <2>2, AntesIgual DEF SaleElProceso
  <2>5. ASSUME k = m, d # c PROVE duenio[k] # q
    <3>1. EnManos(q, d)
      BY <2>1, <2>2 DEF Soltadores, EnManos
    <3>2. q # p
      BY <1>2, <2>5, <3>1, UnaCpu DEF Antes
    <3> QED BY <1>1, <2>5, <3>2 DEF Entrega
  <2>6. k = m => d # c
    BY <1>1 DEF Entrega
  <2>7. EsSuyo(d, k)'
    <3>1. duenio[k] = q => duenio'[k] = q
      BY <1>2, <2>5, <2>6
    <3> QED BY <1>2, <2>1, <2>2, <2>3, <3>1, ProgramasIguales DEF EsSuyo
  <2> QED BY <2>1, <2>2, <2>3, <2>4, <2>7
<1>7. LocalSoltar'
  <2> SUFFICES ASSUME NEW d \in CPUs
               PROVE  /\ IsInjective(hilo'[d].liberar)
                      /\ hilo'[d].duenio_anterior =
                           IF hilo'[d].pc \in Cerradores THEN hilo'[d].proceso ELSE NADIE
    BY Zenon DEF LocalSoltar, Cerradores
  <2>1. CASE d # c
    BY <1>2, <2>1 DEF Antes, Base, LocalSoltar
  <2>2. CASE d = c
    BY <1>1, <2>2 DEF Entrega, Cerradores
  <2> QED BY <2>1, <2>2
<1>8. Dos'
  <2> SUFFICES ASSUME NEW q \in Procesos, NEW k \in Nombres, NEW l \in Nombres,
                      k # l, Quiere(q, k)', Quiere(q, l)'
               PROVE  Anida(q)'
    BY Zenon DEF Dos
  <2> QED BY <1>2, <1>3, ProgramasIguales DEF Antes, Base, Dos
<1> QED BY <1>4, <1>5, <1>6, <1>7, <1>8 DEF Base

(* Any other step: the thread of c goes on with what it had, or less.       *)
Continua(c) ==
  /\ IsInjective(hilo'[c].liberar)
  /\ hilo'[c].duenio_anterior = IF hilo'[c].pc \in Cerradores THEN hilo'[c].proceso ELSE NADIE
  /\ hilo'[c].pc \in Soltadores =>
       /\ hilo[c].pc \in Soltadores /\ hilo'[c].proceso = hilo[c].proceso
       /\ \A m : Contains(hilo'[c].liberar, m) => Contains(hilo[c].liberar, m)

LEMMA BaseQuieta ==
  ASSUME Antes, SoloSalen, UNCHANGED <<programa, pos, duenio, bloqueados>>, \A c \in CPUs : Continua(c)
  PROVE  Base'
<1>1. \A q, k : Quiere(q, k)' <=> Quiere(q, k)
  BY DEF Quiere
<1>2. Pide' /\ Dos'
  BY <1>1, ProgramasIguales DEF Antes, Base, Pide, Dos
<1>3. Tiene'
  <2> SUFFICES ASSUME NEW q \in Procesos, NEW k \in Nombres, Pidio(q, k)'
               PROVE  Salio(q)' \/ Quiere(q, k)' \/ Perdido(q)'
    BY Zenon DEF Tiene
  <2>1. pos'[q] = pos[q]
    OBVIOUS
  <2>2. Pidio(q, k) /\ (Salio(q)' <=> Salio(q))
    BY <2>1, AntesIgual
  <2> QED BY <1>1, <2>2, PerdidoSigue DEF Antes, Base, Tiene
<1>4. Suyos'
  <2> SUFFICES ASSUME NEW d \in CPUs, (hilo[d].pc \in Soltadores)',
                      NEW k \in Nombres, Contains(hilo'[d].liberar, k)
               PROVE  EsSuyo(d, k)' /\ (~SaleElProceso(d)' => ~Pidio(hilo[d].proceso, k)')
    BY Zenon DEF Suyos
  <2>1. hilo[d].pc \in Soltadores /\ hilo'[d].proceso = hilo[d].proceso /\ Contains(hilo[d].liberar, k)
    BY DEF Continua, Soltadores
  <2>2. PICK q \in Procesos : q = hilo[d].proceso
    BY <2>1 DEF Antes, Locales, LocalHilo, Soltadores
  <2>3. EsSuyo(d, k) /\ (~SaleElProceso(d) => ~Pidio(q, k))
    BY <2>1, <2>2 DEF Antes, Base, Suyos
  <2>4. (SaleElProceso(d)' <=> SaleElProceso(d)) /\ (Pidio(q, k)' <=> Pidio(q, k))
    BY <2>1, <2>2, AntesIgual DEF SaleElProceso
  <2>5. EsSuyo(d, k)'
    BY <2>1, <2>2, <2>3, ProgramasIguales DEF EsSuyo
  <2> QED BY <2>1, <2>2, <2>3, <2>4, <2>5
<1>5. LocalSoltar'
  BY Zenon DEF Continua, LocalSoltar, Cerradores
<1> QED BY <1>2, <1>3, <1>4, <1>5 DEF Base

LEMMA ContinuaUno ==
  ASSUME Antes, NEW c \in CPUs, NEW h, hilo' = [hilo EXCEPT ![c] = h], IsInjective(h.liberar),
         h.duenio_anterior = IF h.pc \in Cerradores THEN h.proceso ELSE NADIE,
         h.pc \in Soltadores =>
           /\ hilo[c].pc \in Soltadores /\ h.proceso = hilo[c].proceso
           /\ \A m : Contains(h.liberar, m) => Contains(hilo[c].liberar, m)
  PROVE  \A d \in CPUs : Continua(d)
<1>1. hilo'[c] = h /\ \A d \in CPUs : d # c => hilo'[d] = hilo[d]
  BY DEF Antes, TypeOK
<1>2. Continua(c)
  BY <1>1 DEF Continua
<1>3. \A d \in CPUs : d # c => Continua(d)
  BY <1>1 DEF Continua, Antes, Base, LocalSoltar
<1> QED BY <1>2, <1>3

LEMMA Continuan ==
  ASSUME Antes, NEW c \in CPUs,
         \/ EjecutarEn(c) \/ SacarDuenio(c) \/ PonerDuenio(c) \/ Bloquear(c) \/ SoltarNada(c)
         \/ Despertar(c) \/ CalcularPrioridad(c) \/ AsignarPrioridad(c) \/ Devolver(c) \/ DestruirPcb(c)
  PROVE  \A d \in CPUs : Continua(d)
<1> DEFINE g == hilo[c]
<1>1. /\ g \in TipoHilo /\ IsInjective(g.liberar) /\ g.liberar \in Seq(Nombres)
      /\ g.duenio_anterior = IF g.pc \in Cerradores THEN g.proceso ELSE NADIE
  BY LiberarTipo DEF Antes, Base, LocalSoltar
<1>2. CASE EjecutarEn(c)
  <2> DEFINE h == [g EXCEPT !.pc = "corre", !.proceso = despachador.proceso]
  <2>1. h.pc = "corre" /\ h.liberar = g.liberar /\ h.duenio_anterior = g.duenio_anterior
    BY <1>1 DEF TipoHilo
  <2>2. hilo' = [hilo EXCEPT ![c] = h] /\ g.pc = "libre"
    BY <1>2 DEF EjecutarEn
  <2> HIDE DEF h, g
  <2> QED BY <1>1, <2>1, <2>2, ContinuaUno DEF Soltadores, Cerradores
<1>3. CASE SacarDuenio(c)
  <2> DEFINE x == IF EnReady(duenio[g.mutex]) THEN "poner" ELSE "bloquear"
             h == [g EXCEPT !.pc = x]
  <2>1. hilo' = [hilo EXCEPT ![c] = h] /\ g.pc = "sacar"
    BY <1>3 DEF SacarDuenio
  <2>2. x \in {"poner", "bloquear"}
    OBVIOUS
  <2> HIDE DEF x, g
  <2>3. h.pc = x /\ h.liberar = g.liberar /\ h.duenio_anterior = g.duenio_anterior
    BY <1>1 DEF TipoHilo
  <2> HIDE DEF h
  <2> QED BY <1>1, <2>1, <2>2, <2>3, ContinuaUno DEF Soltadores, Cerradores
<1>4. CASE PonerDuenio(c)
  <2> DEFINE h == [g EXCEPT !.pc = "bloquear"]
  <2>1. h.pc = "bloquear" /\ h.liberar = g.liberar /\ h.duenio_anterior = g.duenio_anterior
    BY <1>1 DEF TipoHilo
  <2>2. hilo' = [hilo EXCEPT ![c] = h] /\ g.pc = "poner"
    BY <1>4 DEF PonerDuenio
  <2> HIDE DEF h, g
  <2> QED BY <1>1, <2>1, <2>2, ContinuaUno DEF Soltadores, Cerradores
<1>5. CASE Bloquear(c) \/ Devolver(c) \/ DestruirPcb(c)
  <2>1. hilo' = [hilo EXCEPT ![c] = Libre]
    BY <1>5 DEF Bloquear, Devolver, DestruirPcb
  <2>2. /\ Libre.pc = "libre" /\ Libre.liberar = <<>> /\ Libre.duenio_anterior = NADIE
        /\ IsInjective(<<>>)
    BY DEF Libre, IsInjective
  <2> QED BY <2>1, <2>2, ContinuaUno DEF Soltadores, Cerradores
<1>6. CASE SoltarNada(c)
  <2> DEFINE l == g.liberar
             h == [g EXCEPT !.liberar = Tail(l)]
  <2>1. hilo' = [hilo EXCEPT ![c] = h] /\ g.pc = "soltar" /\ l # <<>>
    BY <1>6 DEF SoltarNada
  <2>2. /\ h.pc = g.pc /\ h.liberar = Tail(l) /\ h.duenio_anterior = g.duenio_anterior
        /\ h.proceso = g.proceso
    BY <1>1 DEF TipoHilo
  <2> HIDE DEF h
  <2>3. IsInjective(Tail(l)) /\ \A m : Contains(Tail(l), m) => Contains(l, m)
    <3>1. l \in Seq(Nombres) /\ IsInjective(l) /\ l # <<>>
      BY <1>1, <2>1
    <3> HIDE DEF l
    <3> QED BY <3>1, SinPrimero
  <2> QED BY <1>1, <2>1, <2>2, <2>3, ContinuaUno DEF Soltadores, Cerradores
<1>7. CASE Despertar(c) \/ CalcularPrioridad(c)
  <2> DEFINE h1 == [g EXCEPT !.pc = "calcular", !.siguiente = NADIE]
             h2 == [g EXCEPT !.pc = "asignar", !.correcta = PrioridadNecesaria(g.duenio_anterior)]
  <2>1. PICK h : /\ hilo' = [hilo EXCEPT ![c] = h] /\ h.pc \in {"calcular", "asignar"}
                 /\ h.liberar = g.liberar /\ h.duenio_anterior = g.duenio_anterior /\ h.proceso = g.proceso
    <3>1. CASE Despertar(c)
      <4>1. hilo' = [hilo EXCEPT ![c] = h1]
        BY <3>1 DEF Despertar
      <4>2. /\ h1.pc = "calcular" /\ h1.liberar = g.liberar
            /\ h1.duenio_anterior = g.duenio_anterior /\ h1.proceso = g.proceso
        BY <1>1 DEF TipoHilo
      <4> QED BY <4>1, <4>2
    <3>2. CASE CalcularPrioridad(c)
      <4>1. hilo' = [hilo EXCEPT ![c] = h2]
        BY <3>2 DEF CalcularPrioridad
      <4>2. /\ h2.pc = "asignar" /\ h2.liberar = g.liberar
            /\ h2.duenio_anterior = g.duenio_anterior /\ h2.proceso = g.proceso
        BY <1>1 DEF TipoHilo
      <4> QED BY <4>1, <4>2
    <3> QED BY <1>7, <3>1, <3>2
  <2>2. g.pc \in Cerradores /\ g.pc \in Soltadores
    BY <1>7 DEF Despertar, CalcularPrioridad, Cerradores, Soltadores
  <2> HIDE DEF g
  <2>3. IsInjective(h.liberar) /\ h.duenio_anterior = IF h.pc \in Cerradores THEN h.proceso ELSE NADIE
    BY <1>1, <2>1, <2>2 DEF Cerradores
  <2> QED BY <2>1, <2>2, <2>3, ContinuaUno DEF g
<1>8. CASE AsignarPrioridad(c)
  <2> DEFINE h == [g EXCEPT !.pc = "soltar", !.duenio_anterior = NADIE, !.correcta = 0]
  <2>1. h.pc = "soltar" /\ h.liberar = g.liberar /\ h.duenio_anterior = NADIE /\ h.proceso = g.proceso
    BY <1>1 DEF TipoHilo
  <2>2. hilo' = [hilo EXCEPT ![c] = h] /\ g.pc = "asignar"
    BY <1>8 DEF AsignarPrioridad
  <2> HIDE DEF h
  <2> QED BY <1>1, <2>1, <2>2, ContinuaUno DEF Soltadores, Cerradores
<1> QED BY <1>2, <1>3, <1>4, <1>5, <1>6, <1>7, <1>8

LEMMA BasePaso == CadaUnoLoSuyo /\ Antes /\ [Next]_vars => Base'
<1> SUFFICES ASSUME CadaUnoLoSuyo, Antes, [Next]_vars PROVE Base'
  OBVIOUS
<1>1. SoloSalen
  BY LugaresPaso DEF Antes
<1>2. ASSUME UNCHANGED hilo PROVE \A c \in CPUs : Continua(c)
  BY <1>2 DEF Continua, Antes, Base, LocalSoltar
<1>3. CASE EsperarToken \/ SacarSiguiente \/ UNCHANGED vars
  <2>1. UNCHANGED <<programa, pos, duenio, bloqueados, hilo>>
    BY <1>3 DEF EsperarToken, SacarSiguiente, vars, proceso, mutexes
  <2> QED BY <1>1, <1>2, <2>1, BaseQuieta
<1>4. ASSUME NEW p \in Procesos, TerminarIO(p) \/ Suspender(p) \/ Reanudar(p) PROVE Base'
  <2>1. UNCHANGED <<programa, pos, duenio, bloqueados, hilo>>
    BY <1>4 DEF TerminarIO, Suspender, Reanudar, proceso, mutexes
  <2> QED BY <1>1, <1>2, <2>1, BaseQuieta
<1>5. ASSUME NEW c \in CPUs, EjecutarEn(c) \/ (Manejador(c) /\ ~SoltarMutex(c)) PROVE Base'
  <2>1. UNCHANGED <<programa, pos, duenio, bloqueados>>
    BY <1>5 DEF EjecutarEn, Manejador, SacarDuenio, PonerDuenio, Bloquear, SoltarNada, Despertar,
       CalcularPrioridad, AsignarPrioridad, Devolver, DestruirPcb, proceso, mutexes
  <2>2. \A d \in CPUs : Continua(d)
    BY <1>5, Continuan DEF Manejador
  <2> QED BY <1>1, <2>1, <2>2, BaseQuieta
<1>6. ASSUME NEW c \in CPUs, Cpu(c) \/ SoltarMutex(c) PROVE Base'
  BY <1>1, <1>6, BaseAlAvanzar, BaseAlEntregar
<1> QED BY <1>3, <1>4, <1>5, <1>6 DEF Next, Despachador

LEMMA BaseInit == Init => Base
<1> SUFFICES ASSUME Init PROVE Base
  OBVIOUS
<1>1. /\ \A p \in Procesos : pos[p] = 1
      /\ \A m \in Nombres : duenio[m] = NADIE /\ bloqueados[m] = <<>>
      /\ \A c \in CPUs : hilo[c] = Libre
  BY DEF Init
<1>2. \A p \in Procesos, m \in Nombres : ~Quiere(p, m)
  BY <1>1, NadieAssumption DEF Quiere, Contains
<1>3. \A p \in Procesos, m \in Nombres : ~Pidio(p, m)
  <2> SUFFICES ASSUME NEW p \in Procesos, NEW m, Pidio(p, m) PROVE FALSE
    OBVIOUS
  <2>1. DOMAIN programa[p] = 1 .. Len(programa[p])
    BY TipoInit, Programa
  <2> QED BY <1>1, <2>1 DEF Pidio
<1>4. Libre.pc = "libre" /\ Libre.liberar = <<>> /\ Libre.duenio_anterior = NADIE /\ IsInjective(<<>>)
  BY DEF Libre, IsInjective
<1>5. Pide /\ Tiene /\ Dos
  BY <1>2, <1>3 DEF Pide, Tiene, Dos
<1>6. Suyos /\ LocalSoltar
  BY <1>1, <1>4 DEF Suyos, LocalSoltar, Soltadores, Cerradores
<1> QED BY <1>5, <1>6 DEF Base

(***************************************************************************)
(* Priorities                                                               *)
(***************************************************************************)
SinMutex(p) == \A m \in Nombres : duenio[m] # p

(* A program that does not nest has given its mutex away, and the priority    *)
(* found for a process without a mutex is its own.                          *)
Correcta ==
  \A c \in CPUs :
    /\ hilo[c].pc \in Cerradores /\ ~Anida(hilo[c].proceso) => SinMutex(hilo[c].proceso)
    /\ hilo[c].pc = "asignar" /\ SinMutex(hilo[c].proceso) =>
         hilo[c].correcta = prioridad_original[hilo[c].proceso]

(* A step that moves no mutex and assigns no priority.                      *)
OtroPaso ==
  /\ UNCHANGED <<programa, prioridad, duenio, bloqueados>>
  /\ \A c \in CPUs :
       /\ hilo'[c].duenio_anterior = hilo[c].duenio_anterior
       /\ hilo'[c].pc \in Cerradores =>
            hilo[c].pc \in Cerradores /\ hilo'[c].proceso = hilo[c].proceso
       /\ hilo'[c].pc = "asignar" =>
            \/ hilo[c].pc = "asignar" /\ hilo'[c].correcta = hilo[c].correcta
            \/ hilo'[c].correcta = PrioridadNecesaria(hilo[c].proceso)

LEMMA OtroHilo ==
  ASSUME TypeOK, UNCHANGED <<programa, prioridad, duenio, bloqueados>>, NEW c \in CPUs, NEW h,
         hilo' = [hilo EXCEPT ![c] = h], h.duenio_anterior = hilo[c].duenio_anterior,
         h.pc \in Cerradores => hilo[c].pc \in Cerradores /\ h.proceso = hilo[c].proceso,
         h.pc = "asignar" => h.correcta = PrioridadNecesaria(hilo[c].proceso)
  PROVE  OtroPaso
<1>1. hilo'[c] = h /\ \A d \in CPUs : d # c => hilo'[d] = hilo[d]
  BY DEF TypeOK
<1> HIDE DEF PrioridadNecesaria
<1> QED BY <1>1 DEF OtroPaso

LEMMA OtroDeHilo ==
  ASSUME Antes, NEW c \in CPUs,
         \/ EjecutarEn(c) \/ SacarDuenio(c) \/ PonerDuenio(c) \/ Bloquear(c) \/ SoltarNada(c)
         \/ Despertar(c) \/ CalcularPrioridad(c) \/ Devolver(c) \/ DestruirPcb(c)
  PROVE  OtroPaso
<1> DEFINE g == hilo[c]
<1>1. /\ g \in TipoHilo /\ TypeOK
      /\ g.duenio_anterior = IF g.pc \in Cerradores THEN g.proceso ELSE NADIE
  BY LiberarTipo DEF Antes, Base, LocalSoltar
<1>2. UNCHANGED <<programa, prioridad, duenio, bloqueados>>
  BY DEF EjecutarEn, SacarDuenio, PonerDuenio, Bloquear, SoltarNada, Despertar,
     CalcularPrioridad, Devolver, DestruirPcb, proceso, mutexes, pcb
<1>3. CASE EjecutarEn(c)
  <2> DEFINE h == [g EXCEPT !.pc = "corre", !.proceso = despachador.proceso]
  <2>1. hilo' = [hilo EXCEPT ![c] = h]
    BY <1>3 DEF EjecutarEn
  <2>2. h.pc = "corre" /\ h.duenio_anterior = g.duenio_anterior
    BY <1>1 DEF TipoHilo
  <2> HIDE DEF h
  <2> QED BY <1>1, <1>2, <2>1, <2>2, OtroHilo DEF Cerradores
<1>4. CASE SacarDuenio(c) \/ PonerDuenio(c)
  <2> DEFINE x == IF SacarDuenio(c) /\ EnReady(duenio[g.mutex]) THEN "poner" ELSE "bloquear"
             h == [g EXCEPT !.pc = x]
  <2>1. x \in {"poner", "bloquear"}
    OBVIOUS
  <2>2. hilo' = [hilo EXCEPT ![c] = h]
    BY <1>4 DEF SacarDuenio, PonerDuenio
  <2> HIDE DEF x
  <2>3. h.pc = x /\ h.duenio_anterior = g.duenio_anterior
    BY <1>1 DEF TipoHilo
  <2> HIDE DEF h
  <2> QED BY <1>1, <1>2, <2>1, <2>2, <2>3, OtroHilo DEF Cerradores
<1>5. CASE Bloquear(c) \/ Devolver(c) \/ DestruirPcb(c)
  <2>1. hilo' = [hilo EXCEPT ![c] = Libre] /\ g.pc \notin Cerradores
    BY <1>5 DEF Bloquear, Devolver, DestruirPcb, Cerradores
  <2>2. Libre.pc = "libre" /\ Libre.duenio_anterior = NADIE
    BY DEF Libre
  <2> QED BY <1>1, <1>2, <2>1, <2>2, OtroHilo DEF Cerradores
<1>6. CASE SoltarNada(c)
  <2> DEFINE h == [g EXCEPT !.liberar = Tail(g.liberar)]
  <2>1. hilo' = [hilo EXCEPT ![c] = h] /\ g.pc = "soltar"
    BY <1>6 DEF SoltarNada
  <2>2. h.pc = g.pc /\ h.duenio_anterior = g.duenio_anterior
    BY <1>1 DEF TipoHilo
  <2> HIDE DEF h
  <2> QED BY <1>1, <1>2, <2>1, <2>2, OtroHilo DEF Cerradores
<1>7. CASE Despertar(c)
  <2> DEFINE h == [g EXCEPT !.pc = "calcular", !.siguiente = NADIE]
  <2>1. hilo' = [hilo EXCEPT ![c] = h] /\ g.pc = "despertar"
    BY <1>7 DEF Despertar
  <2>2. h.pc = "calcular" /\ h.duenio_anterior = g.duenio_anterior /\ h.proceso = g.proceso
    BY <1>1 DEF TipoHilo
  <2> HIDE DEF h
  <2> QED BY <1>1, <1>2, <2>1, <2>2, OtroHilo DEF Cerradores
<1>8. CASE CalcularPrioridad(c)
  <2> DEFINE x == PrioridadNecesaria(g.duenio_anterior)
             h == [g EXCEPT !.pc = "asignar", !.correcta = x]
  <2>1. hilo' = [hilo EXCEPT ![c] = h] /\ g.pc = "calcular"
    BY <1>8 DEF CalcularPrioridad
  <2>2. g.duenio_anterior = g.proceso
    BY <1>1, <2>1 DEF Cerradores
  <2>3. x = PrioridadNecesaria(g.proceso)
    BY <2>2
  <2> HIDE DEF x
  <2>4. h.pc = "asignar" /\ h.duenio_anterior = g.duenio_anterior /\ h.proceso = g.proceso /\ h.correcta = x
    BY <1>1 DEF TipoHilo
  <2> HIDE DEF h
  <2> QED BY <1>1, <1>2, <2>1, <2>3, <2>4, OtroHilo DEF Cerradores
<1> QED BY <1>3, <1>4, <1>5, <1>6, <1>7, <1>8

LEMMA Pasos ==
  ASSUME Antes, [Next]_vars
  PROVE  \/ OtroPaso
         \/ \E c \in CPUs : Cpu(c) \/ SoltarMutex(c) \/ AsignarPrioridad(c)
<1>1. ASSUME UNCHANGED <<programa, prioridad, duenio, bloqueados, hilo>> PROVE OtroPaso
  BY <1>1 DEF OtroPaso
<1>2. CASE EsperarToken \/ SacarSiguiente \/ UNCHANGED vars
  BY <1>1, <1>2 DEF EsperarToken, SacarSiguiente, vars, proceso, mutexes, pcb
<1>3. ASSUME NEW p \in Procesos, TerminarIO(p) \/ Suspender(p) \/ Reanudar(p) PROVE OtroPaso
  BY <1>1, <1>3 DEF TerminarIO, Suspender, Reanudar, proceso, mutexes
<1>4. ASSUME NEW c \in CPUs, EjecutarEn(c) \/ (Manejador(c) /\ ~SoltarMutex(c) /\ ~AsignarPrioridad(c))
      PROVE  OtroPaso
  BY <1>4, OtroDeHilo DEF Manejador
<1> QED BY <1>2, <1>3, <1>4 DEF Next, Despachador

(* Of the steps of a process, only a LOCK of a taken mutex changes a          *)
(* priority.                                                                *)
LEMMA PrioridadCpu ==
  ASSUME NEW c \in CPUs, Cpu(c)
  PROVE  LockOcupado(c) \/ UNCHANGED prioridad
BY DEF Cpu, NoopSigue, NoopDesaloja, Sleep, CrearMutex, LockInexistente, LockLibre, Unlock, Exit, pcb

(* While a handler unlocks, its process neither gets nor loses a mutex by    *)
(* what the other threads do.                                               *)
LEMMA Conserva ==
  ASSUME Antes, [Next]_vars, NEW c \in CPUs, NEW p \in Procesos, hilo[c].pc \in Cerradores,
         hilo[c].proceso = p
  PROVE  \A m \in Nombres : duenio'[m] = p <=> duenio[m] = p
<1>1. EnManos(p, c) /\ hilo[c].pc # "corre" /\ hilo[c].pc # "soltar"
  BY DEF EnManos, Cerradores
<1>2. CASE OtroPaso
  BY <1>2 DEF OtroPaso
<1>3. ASSUME NEW d \in CPUs, Cpu(d) PROVE \A m \in Nombres : duenio'[m] = p <=> duenio[m] = p
  <2>1. PICK q \in Procesos, op \in Operaciones : Avanza(d, q, op)
    BY <1>3, Avanzar
  <2>2. q # p
    BY <1>1, <2>1, UnaCpu DEF Avanza, Antes
  <2>3. ASSUME NEW m \in Nombres, duenio'[m] = p PROVE duenio[m] = p
    <3>1. Quiere(p, m)'
      BY <2>3 DEF Quiere
    <3>2. Quiere(p, m)
      BY <2>1, <2>2, <3>1 DEF Avanza
    <3> QED BY <1>1, <3>2, NiEspera DEF Quiere, Antes
  <2> QED BY <2>1, <2>3 DEF Avanza
<1>4. ASSUME NEW d \in CPUs, SoltarMutex(d) PROVE \A m \in Nombres : duenio'[m] = p <=> duenio[m] = p
  <2>1. PICK q \in Procesos, k \in Nombres : Entrega(d, q, k)
    BY <1>4, Entregar
  <2>2. q # p
    BY <1>1, <2>1, UnaCpu DEF Entrega, Antes
  <2>3. duenio'[k] # p /\ duenio[k] # p
    <3>1. ~Contains(bloqueados[k], p)
      BY <1>1, NiEspera DEF Antes
    <3> QED BY <2>1, <2>2, <3>1 DEF Entrega
  <2> QED BY <2>1, <2>3 DEF Entrega
<1>5. ASSUME NEW d \in CPUs, AsignarPrioridad(d) PROVE UNCHANGED duenio
  BY <1>5 DEF AsignarPrioridad, mutexes
<1> QED BY <1>2, <1>3, <1>4, <1>5, Pasos

(* Nobody waits for a process without a mutex.                              *)
LEMMA NecesariaSinMutex ==
  ASSUME TypeOK, NEW p \in Procesos, SinMutex(p)
  PROVE  PrioridadNecesaria(p) = prioridad_original[p]
<1> DEFINE x == prioridad_original[p]
           M == {n \in Nombres : duenio[n] = p}
           esperan == UNION {Range(bloqueados[m]) : m \in M}
           S == {prioridad[e] : e \in esperan}
<1>1. M = {}
  BY DEF SinMutex
<1>2. S = {}
  BY <1>1
<1>3. x \in Nat
  BY PrioridadOriginalAssumption, PrioridadesFacts
<1>4. PrioridadNecesaria(p) = Min({x} \cup S)
  BY DEF PrioridadNecesaria
<1> HIDE DEF S, x
<1>5. {x} \cup S = {x}
  BY <1>2
<1>6. Min({x}) = x
  BY <1>3, MinProperties
<1> QED BY <1>4, <1>5, <1>6 DEF x

(* The threads whose process is in an unlock, after a step.                 *)
LEMMA AlCerrar ==
  ASSUME Antes, [Next]_vars, NEW c \in CPUs, hilo'[c].pc \in Cerradores
  PROVE  \/ SoltarMutex(c) /\ hilo'[c].pc # "asignar"
         \/ /\ hilo[c].pc \in Cerradores /\ hilo'[c].proceso = hilo[c].proceso
            /\ hilo'[c].pc = "asignar" =>
                 \/ hilo[c].pc = "asignar" /\ hilo'[c].correcta = hilo[c].correcta
                 \/ hilo'[c].correcta = PrioridadNecesaria(hilo[c].proceso)
<1> HIDE DEF PrioridadNecesaria
<1>1. CASE OtroPaso
  BY <1>1 DEF OtroPaso
<1>2. ASSUME NEW d \in CPUs, Cpu(d) PROVE hilo'[c] = hilo[c]
  <2>1. PICK q \in Procesos, op \in Operaciones : Avanza(d, q, op)
    BY <1>2, Avanzar
  <2>2. hilo'[d].pc \notin Cerradores
    BY <2>1 DEF Avanza, Soltadores, Cerradores
  <2> QED BY <2>1, <2>2 DEF Avanza
<1>3. ASSUME NEW d \in CPUs, SoltarMutex(d), d # c PROVE hilo'[c] = hilo[c]
  <2>1. PICK q \in Procesos, k \in Nombres : Entrega(d, q, k)
    BY <1>3, Entregar
  <2> QED BY <1>3, <2>1 DEF Entrega
<1>4. ASSUME SoltarMutex(c) PROVE hilo'[c].pc # "asignar"
  <2>1. PICK q \in Procesos, k \in Nombres : Entrega(c, q, k)
    BY <1>4, Entregar
  <2> QED BY <2>1 DEF Entrega
<1>5. ASSUME NEW d \in CPUs, AsignarPrioridad(d) PROVE hilo'[c] = hilo[c]
  <2> DEFINE h == [hilo[d] EXCEPT !.pc = "soltar", !.duenio_anterior = NADIE, !.correcta = 0]
  <2>1. hilo' = [hilo EXCEPT ![d] = h]
    BY <1>5 DEF AsignarPrioridad
  <2>2. h.pc = "soltar"
    BY LiberarTipo DEF TipoHilo, Antes
  <2> HIDE DEF h
  <2> QED BY <2>1, <2>2 DEF Antes, TypeOK, Cerradores
<1> QED BY <1>1, <1>2, <1>3, <1>4, <1>5, Pasos DEF Cerradores

LEMMA CorrectaPaso == Antes /\ Correcta /\ [Next]_vars => Correcta'
<1> SUFFICES ASSUME Antes, Correcta, [Next]_vars, NEW c \in CPUs, (hilo[c].pc \in Cerradores)'
             PROVE  /\ ~Anida(hilo[c].proceso)' => SinMutex(hilo[c].proceso)'
                    /\ hilo'[c].pc = "asignar" /\ SinMutex(hilo[c].proceso)' =>
                         hilo'[c].correcta = prioridad_original[hilo'[c].proceso]
  BY Zenon DEF Correcta, Cerradores
<1>1. programa' = programa
  <2>1. ASSUME NEW d \in CPUs, Cpu(d) PROVE programa' = programa
    <3>1. PICK p \in Procesos, op \in Operaciones : Avanza(d, p, op)
      BY <2>1, Avanzar
    <3> QED BY <3>1, Instruccion DEF Avanza, Antes
  <2>2. ASSUME NEW d \in CPUs, SoltarMutex(d) \/ AsignarPrioridad(d) PROVE programa' = programa
    BY <2>2 DEF SoltarMutex, AsignarPrioridad, proceso
  <2> QED BY <2>1, <2>2, Pasos DEF OtroPaso
<1>2. CASE SoltarMutex(c)
  <2>1. PICK p \in Procesos, m \in Nombres : Entrega(c, p, m)
    BY <1>2, Entregar
  <2>2. hilo'[c].proceso = p /\ hilo'[c].pc # "asignar"
    BY <2>1 DEF Entrega
  <2>3. ASSUME ~Anida(p) PROVE SinMutex(p)'
    <3>1. Quiere(p, m) /\ duenio'[m] # p
      BY <2>1 DEF Entrega, Quiere
    <3>2. \A k \in Nombres : k # m => duenio[k] # p /\ duenio'[k] = duenio[k]
      BY <2>1, <2>3, <3>1 DEF Entrega, Antes, Base, Dos, Quiere
    <3> QED BY <3>1, <3>2 DEF SinMutex
  <2> QED BY <1>1, <2>2, <2>3, ProgramasIguales
<1>3. ASSUME hilo[c].pc \in Cerradores, hilo'[c].proceso = hilo[c].proceso,
             hilo'[c].pc = "asignar" =>
               \/ hilo[c].pc = "asignar" /\ hilo'[c].correcta = hilo[c].correcta
               \/ hilo'[c].correcta = PrioridadNecesaria(hilo[c].proceso)
      PROVE  /\ ~Anida(hilo[c].proceso)' => SinMutex(hilo[c].proceso)'
             /\ hilo'[c].pc = "asignar" /\ SinMutex(hilo[c].proceso)' =>
                  hilo'[c].correcta = prioridad_original[hilo'[c].proceso]
  <2> HIDE DEF PrioridadNecesaria
  <2>1. PICK p \in Procesos : p = hilo[c].proceso
    BY <1>3 DEF Cerradores, Antes, Locales, LocalHilo
  <2>2. SinMutex(p)' <=> SinMutex(p)
    BY <1>3, <2>1, Conserva DEF SinMutex
  <2>3. ~Anida(p) => SinMutex(p)
    BY <1>3, <2>1 DEF Correcta
  <2>4. ASSUME SinMutex(p), hilo'[c].pc = "asignar" PROVE hilo'[c].correcta = prioridad_original[p]
    BY <1>3, <2>1, <2>4, NecesariaSinMutex DEF Correcta, Antes
  <2> QED BY <1>1, <1>3, <2>1, <2>2, <2>3, <2>4, ProgramasIguales
<1>4. SoltarMutex(c) \/ /\ hilo[c].pc \in Cerradores /\ hilo'[c].proceso = hilo[c].proceso
                        /\ hilo'[c].pc = "asignar" =>
                             \/ hilo[c].pc = "asignar" /\ hilo'[c].correcta = hilo[c].correcta
                             \/ hilo'[c].correcta = PrioridadNecesaria(hilo[c].proceso)
  <2>1. hilo'[c].pc \in Cerradores
    BY DEF Cerradores
  <2> HIDE DEF PrioridadNecesaria
  <2> QED BY <2>1, AlCerrar
<1> QED BY <1>2, <1>3, <1>4

LEMMA CorrectaInit == Init => Correcta
BY DEF Init, Libre, Correcta, Cerradores

Hereda ==
  \A m \in Nombres : \A e \in Procesos :
    Contains(bloqueados[m], e) /\ ~Anida(duenio[m]) /\ ~Anida(e) =>
      prioridad[duenio[m]] <= prioridad[e]
Devuelve ==
  \A p \in Procesos : SinMutex(p) /\ ~Soltando(p) => prioridad[p] = prioridad_original[p]

(* Everything the priorities depend on.                                     *)
Entorno == Antes /\ Correcta /\ Hereda /\ Devuelve

LEMMA Enteras ==
  ASSUME TypeOK PROVE \A p \in Procesos : prioridad[p] \in Nat /\ prioridad_original[p] \in Nat
<1>1. prioridad \in [Procesos -> Prioridades] /\ prioridad_original \in [Procesos -> Prioridades]
  BY PrioridadOriginalAssumption DEF TypeOK
<1> QED BY <1>1, PrioridadesFacts

(* Whoever waits, waits for an owner.                                       *)
LEMMA EsperaAlDuenio ==
  ASSUME TypeOK, Propiedad, NEW m \in Nombres, NEW e, Contains(bloqueados[m], e)
  PROVE  duenio[m] \in Procesos /\ duenio[m] # e
<1>1. ~Contains(<<>>, e)
  BY DEF Contains
<1> QED BY <1>1 DEF TypeOK, Propiedad, ConDuenio, NoSeEspera

(* The lock of a taken mutex.                                               *)
LEMMA AlHeredar ==
  ASSUME Antes, NEW c \in CPUs, LockOcupado(c)
  PROVE  \E p \in Procesos, m \in Nombres, d \in Procesos :
           /\ p = hilo[c].proceso /\ m = Operando(c) /\ d = duenio[m] /\ p # d
           /\ UNCHANGED <<programa, duenio>>
           /\ \A k \in Nombres : \A e \in Procesos :
                Contains(bloqueados'[k], e) <=> Contains(bloqueados[k], e) \/ (k = m /\ e = p)
           /\ prioridad'[d] <= prioridad[d] /\ prioridad'[d] <= prioridad[p]
           /\ \A q \in Procesos : q # d => prioridad'[q] = prioridad[q]
<1> DEFINE m == Operando(c)
           d == duenio[m]
           l == bloqueados[m]
<1>1. PICK p \in Procesos : p = hilo[c].proceso /\ EnManos(p, c) /\ UNCHANGED programa
  BY Instruccion DEF LockOcupado, Antes
<1>2. m \in Nombres
  BY EjecutaTipo DEF LockOcupado, Antes, Locales
<1>3. ~Quiere(p, m)
  BY <1>1, <1>2, NuncaDosVeces DEF LockOcupado, Antes, Propiedad
<1>4. d # NADIE /\ UNCHANGED duenio
  BY DEF LockOcupado
<1>5. d \in Procesos /\ p # d
  BY <1>2, <1>3, <1>4 DEF Antes, TypeOK, Quiere
<1>6. /\ bloqueados' = [bloqueados EXCEPT ![m] = Append(@, p)]
      /\ prioridad' = IF prioridad[p] < prioridad[d] THEN [prioridad EXCEPT ![d] = prioridad[p]]
                                                     ELSE prioridad
  BY <1>1 DEF LockOcupado
<1> HIDE DEF m, d, l
<1>7. \A k \in Nombres : \A e \in Procesos :
        Contains(bloqueados'[k], e) <=> Contains(bloqueados[k], e) \/ (k = m /\ e = p)
  <2>1. l \in Seq(Procesos) /\ IsInjective(l) /\ ~Contains(l, p)
    BY <1>2, <1>3 DEF Antes, TypeOK, Lugares, EnUnSoloLugar, Quiere, l
  <2>2. \A e : Contains(Append(l, p), e) <=> Contains(l, e) \/ e = p
    BY <2>1, AlFinal
  <2>3. bloqueados'[m] = Append(l, p) /\ \A k \in Nombres : k # m => bloqueados'[k] = bloqueados[k]
    BY <1>2, <1>6 DEF Antes, TypeOK, l
  <2> QED BY <2>2, <2>3 DEF l
<1>8. /\ prioridad'[d] <= prioridad[d] /\ prioridad'[d] <= prioridad[p]
      /\ \A q \in Procesos : q # d => prioridad'[q] = prioridad[q]
  <2>1. prioridad[d] \in Nat /\ prioridad[p] \in Nat /\ prioridad \in [Procesos -> Prioridades]
    BY <1>5, Enteras DEF Antes, TypeOK
  <2> QED BY <1>5, <1>6, <2>1
<1> QED BY <1>1, <1>2, <1>4, <1>5, <1>7, <1>8 DEF m, d

(* The handler of c assigns its process the priority it found.               *)
LEMMA AlAsignar ==
  ASSUME Antes, NEW c \in CPUs, AsignarPrioridad(c)
  PROVE  \E p \in Procesos :
           /\ hilo[c].pc = "asignar" /\ hilo[c].proceso = p /\ EnManos(p, c)
           /\ UNCHANGED <<programa, duenio, bloqueados>>
           /\ prioridad'[p] = hilo[c].correcta
           /\ \A q \in Procesos : q # p => prioridad'[q] = prioridad[q]
           /\ \A d \in CPUs : d # c => hilo'[d] = hilo[d]
           /\ hilo[c].duenio_anterior = p
<1>1. PICK p \in Procesos : p = hilo[c].proceso
  BY DEF AsignarPrioridad, Antes, Locales, LocalHilo
<1>2. hilo[c].pc = "asignar" /\ hilo[c].duenio_anterior = p /\ EnManos(p, c)
  BY <1>1 DEF AsignarPrioridad, EnManos, Antes, Base, LocalSoltar, Cerradores
<1>3. prioridad' = [prioridad EXCEPT ![p] = hilo[c].correcta]
  BY <1>2 DEF AsignarPrioridad
<1>4. UNCHANGED <<programa, duenio, bloqueados>>
  BY DEF AsignarPrioridad, proceso, mutexes
<1>5. \A d \in CPUs : d # c => hilo'[d] = hilo[d]
  BY DEF AsignarPrioridad, Antes, TypeOK
<1>6. prioridad'[p] = hilo[c].correcta /\ \A q \in Procesos : q # p => prioridad'[q] = prioridad[q]
  BY <1>3 DEF Antes, TypeOK
<1> QED BY <1>1, <1>2, <1>4, <1>5, <1>6

(* The owner keeps at least the priority of whoever waits: who waits for a    *)
(* mutex and has another nests, and so does who keeps one after an unlock.   *)
LEMMA HeredaPaso == Entorno /\ [Next]_vars => Hereda'
<1> SUFFICES ASSUME Entorno, [Next]_vars, NEW m \in Nombres, NEW e \in Procesos,
                    Contains(bloqueados'[m], e), ~Anida(duenio[m])', ~Anida(e)'
             PROVE  prioridad'[duenio'[m]] <= prioridad'[e]
  BY Zenon DEF Hereda
<1>1. Antes /\ TypeOK' /\ Propiedad' /\ \A q \in Procesos : prioridad[q] \in Nat
  BY TiposPaso, PropiedadPaso, Enteras DEF Entorno, Antes
<1>2. PICK d \in Procesos : d = duenio'[m] /\ d # e
  <2>1. ~Contains(<<>>, e)
    BY DEF Contains
  <2> QED BY <1>1, <2>1 DEF TypeOK, Propiedad, ConDuenio, NoSeEspera
<1>3. prioridad'[d] \in Nat /\ prioridad'[e] \in Nat
  BY <1>1, PrioridadesFacts DEF TypeOK
<1>4. ASSUME Contains(bloqueados[m], e), duenio[m] = d, UNCHANGED programa
      PROVE  prioridad[d] <= prioridad[e]
  <2>1. ~Anida(d) /\ ~Anida(e)
    BY <1>2, <1>4, ProgramasIguales
  <2> QED BY <1>4, <2>1 DEF Entorno, Hereda
<1>5. CASE OtroPaso
  BY <1>2, <1>4, <1>5 DEF OtroPaso
<1>6. ASSUME NEW c \in CPUs, Cpu(c) PROVE prioridad'[d] <= prioridad'[e]
  <2>1. CASE LockOcupado(c)
    <3>1. PICK p \in Procesos, k \in Nombres, f \in Procesos :
            /\ f = duenio[k] /\ p # f /\ UNCHANGED <<programa, duenio>>
            /\ \A l \in Nombres : \A q \in Procesos :
                 Contains(bloqueados'[l], q) <=> Contains(bloqueados[l], q) \/ (l = k /\ q = p)
            /\ prioridad'[f] <= prioridad[f] /\ prioridad'[f] <= prioridad[p]
            /\ \A q \in Procesos : q # f => prioridad'[q] = prioridad[q]
      BY <1>1, <2>1, AlHeredar
    <3>2. e # f
      <4> SUFFICES ASSUME e = f PROVE FALSE
        OBVIOUS
      <4>1. Quiere(e, k) /\ Quiere(e, m) /\ m # k
        BY <1>2, <3>1 DEF Quiere
      <4>2. Anida(e)
        BY <1>1, <4>1 DEF Antes, Base, Dos
      <4> QED BY <3>1, <4>2, ProgramasIguales
    <3>3. prioridad'[e] = prioridad[e]
      BY <3>1, <3>2
    <3>4. CASE m = k /\ e = p
      BY <1>2, <3>1, <3>3, <3>4
    <3>5. CASE Contains(bloqueados[m], e)
      <4>1. prioridad[d] <= prioridad[e]
        BY <1>2, <1>4, <3>1, <3>5
      <4>2. prioridad'[d] <= prioridad[d]
        BY <1>1, <3>1
      <4> QED BY <1>1, <1>3, <3>3, <4>1, <4>2
    <3> QED BY <3>1, <3>4, <3>5
  <2>2. CASE ~LockOcupado(c)
    <3>1. PICK p \in Procesos, op \in Operaciones : Avanza(c, p, op)
      BY <1>1, <1>6, Avanzar
    <3>2. UNCHANGED <<prioridad, programa>>
      BY <1>1, <1>6, <2>2, <3>1, PrioridadCpu, Instruccion DEF Avanza, Antes
    <3>3. bloqueados' = bloqueados
      BY <1>6, <2>2 DEF Cpu, NoopSigue, NoopDesaloja, Sleep, CrearMutex, LockInexistente,
         LockLibre, Unlock, Exit, mutexes
    <3>4. duenio[m] = d
      <4>1. duenio[m] \in Procesos
        BY <1>1, <3>3, EsperaAlDuenio DEF Antes
      <4> QED BY <1>2, <3>1, <4>1 DEF Avanza
    <3> QED BY <1>4, <3>2, <3>3, <3>4
  <2> QED BY <2>1, <2>2
<1>7. ASSUME NEW c \in CPUs, SoltarMutex(c) PROVE prioridad'[d] <= prioridad'[e]
  <2>1. PICK p \in Procesos, k \in Nombres : Entrega(c, p, k)
    BY <1>1, <1>7, Entregar
  <2>2. programa' = programa /\ \A q \in Procesos : /\ prioridad'[q] <= prioridad[q]
                                                    /\ duenio'[k] # q => prioridad'[q] = prioridad[q]
    BY <2>1 DEF Entrega
  <2>3. CASE m = k
    <3>1. prioridad'[d] <= prioridad[e]
      BY <1>2, <2>1, <2>3 DEF Entrega
    <3>2. prioridad'[e] = prioridad[e]
      BY <1>2, <2>2, <2>3
    <3> QED BY <3>1, <3>2
  <2>4. CASE m # k
    <3>1. duenio[m] = d /\ Contains(bloqueados[m], e)
      BY <1>2, <2>1, <2>4 DEF Entrega
    <3>2. duenio'[k] # e
      <4> SUFFICES ASSUME duenio'[k] = e PROVE FALSE
        OBVIOUS
      <4>1. Quiere(e, k) /\ Quiere(e, m)
        BY <2>1, <3>1 DEF Entrega, Quiere
      <4>2. Anida(e)
        BY <1>1, <2>4, <4>1 DEF Antes, Base, Dos
      <4> QED BY <2>2, <4>2, ProgramasIguales
    <3>3. prioridad[d] <= prioridad[e]
      BY <1>4, <2>2, <3>1
    <3> QED BY <1>1, <1>3, <2>2, <3>2, <3>3
  <2> QED BY <2>3, <2>4
<1>8. ASSUME NEW c \in CPUs, AsignarPrioridad(c) PROVE prioridad'[d] <= prioridad'[e]
  <2>1. PICK p \in Procesos :
          /\ hilo[c].pc = "asignar" /\ hilo[c].proceso = p /\ EnManos(p, c)
          /\ UNCHANGED <<programa, duenio, bloqueados>>
          /\ \A q \in Procesos : q # p => prioridad'[q] = prioridad[q]
    BY <1>1, <1>8, AlAsignar
  <2>2. e # p
    BY <1>1, <2>1, NiEspera DEF Antes
  <2>3. d # p
    <3> SUFFICES ASSUME d = p PROVE FALSE
      OBVIOUS
    <3>1. ~Anida(p)
      BY <1>2, <2>1, ProgramasIguales
    <3>2. SinMutex(p)
      BY <2>1, <3>1 DEF Entorno, Correcta, Cerradores
    <3> QED BY <1>2, <2>1, <3>2 DEF SinMutex
  <2>4. prioridad[d] <= prioridad[e]
    BY <1>2, <1>4, <2>1
  <2> QED BY <2>1, <2>2, <2>3, <2>4
<1>9. \/ OtroPaso
      \/ \E c \in CPUs : Cpu(c) \/ SoltarMutex(c) \/ AsignarPrioridad(c)
  BY <1>1, Pasos
<1> QED BY <1>2, <1>5, <1>6, <1>7, <1>8, <1>9

(* Who has lost its last mutex is in the unlock that took it, and gets its    *)
(* own priority when that is over.                                          *)
LEMMA DevuelvePaso == Entorno /\ [Next]_vars => Devuelve'
<1> SUFFICES ASSUME Entorno, [Next]_vars, NEW q \in Procesos, SinMutex(q)', ~Soltando(q)'
             PROVE  prioridad'[q] = prioridad_original[q]
  BY Zenon DEF Devuelve
<1>1. Antes /\ Correcta
  BY DEF Entorno
<1>2. ASSUME SinMutex(q), ~Soltando(q), prioridad'[q] = prioridad[q]
      PROVE  prioridad'[q] = prioridad_original[q]
  BY <1>2 DEF Entorno, Devuelve
<1>3. CASE OtroPaso
  <2>1. SinMutex(q)
    BY <1>3 DEF OtroPaso, SinMutex
  <2>2. ~Soltando(q)
    BY <1>3 DEF OtroPaso, Soltando
  <2> QED BY <1>2, <1>3, <2>1, <2>2 DEF OtroPaso
<1>4. ASSUME NEW c \in CPUs, Cpu(c) PROVE prioridad'[q] = prioridad_original[q]
  <2>1. PICK p \in Procesos, op \in Operaciones : Avanza(c, p, op)
    BY <1>1, <1>4, Avanzar
  <2>2. SinMutex(q)
    BY <2>1 DEF SinMutex, Avanza
  <2>3. ~Soltando(q)
    <3>1. hilo[c].duenio_anterior = NADIE
      BY <1>1, <2>1 DEF Avanza, Antes, Base, LocalSoltar, Cerradores
    <3>2. \A d \in CPUs : d # c => hilo'[d] = hilo[d]
      BY <2>1 DEF Avanza
    <3> QED BY <3>1, <3>2, NadieAssumption DEF Soltando
  <2>4. prioridad'[q] = prioridad[q]
    <3>1. CASE LockOcupado(c)
      <4>1. PICK m \in Nombres, d \in Procesos :
              /\ d = duenio[m] /\ UNCHANGED duenio
              /\ \A p1 \in Procesos : p1 # d => prioridad'[p1] = prioridad[p1]
        BY <1>1, <3>1, AlHeredar
      <4> QED BY <2>2, <4>1 DEF SinMutex
    <3> QED BY <1>4, <3>1, PrioridadCpu
  <2> QED BY <1>2, <2>2, <2>3, <2>4
<1>5. ASSUME NEW c \in CPUs, SoltarMutex(c) PROVE prioridad'[q] = prioridad_original[q]
  <2>1. PICK p \in Procesos, m \in Nombres : Entrega(c, p, m)
    BY <1>1, <1>5, Entregar
  <2>2. /\ duenio[m] = p /\ \A k \in Nombres : k # m => duenio'[k] = duenio[k]
        /\ hilo'[c].duenio_anterior = p /\ hilo[c].pc = "soltar"
        /\ \A d \in CPUs : d # c => hilo'[d] = hilo[d]
        /\ duenio'[m] # q => prioridad'[q] = prioridad[q]
    BY <2>1 DEF Entrega
  <2>3. q # p
    BY <2>2 DEF Soltando
  <2>4. SinMutex(q) /\ duenio'[m] # q
    BY <2>2, <2>3 DEF SinMutex
  <2>5. hilo[c].duenio_anterior = NADIE
    BY <1>1, <2>2 DEF Antes, Base, LocalSoltar, Cerradores
  <2>6. ~Soltando(q)
    BY <2>2, <2>5, NadieAssumption DEF Soltando
  <2> QED BY <1>2, <2>2, <2>4, <2>6
<1>6. ASSUME NEW c \in CPUs, AsignarPrioridad(c) PROVE prioridad'[q] = prioridad_original[q]
  <2>1. PICK p \in Procesos :
          /\ hilo[c].pc = "asignar" /\ hilo[c].proceso = p /\ UNCHANGED duenio
          /\ prioridad'[p] = hilo[c].correcta
          /\ \A p1 \in Procesos : p1 # p => prioridad'[p1] = prioridad[p1]
          /\ \A d \in CPUs : d # c => hilo'[d] = hilo[d]
          /\ hilo[c].duenio_anterior = p
    BY <1>1, <1>6, AlAsignar
  <2>2. SinMutex(q)
    BY <2>1 DEF SinMutex
  <2>3. CASE q = p
    BY <1>1, <2>1, <2>2, <2>3 DEF Correcta
  <2>4. CASE q # p
    <3>1. ~Soltando(q)
      BY <2>1, <2>4 DEF Soltando
    <3> QED BY <1>2, <2>1, <2>2, <2>4, <3>1
  <2> QED BY <2>3, <2>4
<1> QED BY <1>1, <1>3, <1>4, <1>5, <1>6, Pasos

LEMMA EntornoInit == Init => Entorno
<1> SUFFICES ASSUME Init PROVE Entorno
  OBVIOUS
<1>1. prioridad = prioridad_original /\ \A m \in Nombres : bloqueados[m] = <<>>
  BY DEF Init
<1>2. Hereda /\ Devuelve
  BY <1>1 DEF Hereda, Devuelve, Contains
<1> QED BY <1>2, TipoInit, LugaresInit, PropiedadInit, BaseInit, CorrectaInit DEF Entorno, Antes

LEMMA EntornoPaso == CadaUnoLoSuyo /\ Entorno /\ [Next]_vars => Entorno'
<1> SUFFICES ASSUME CadaUnoLoSuyo, Entorno, [Next]_vars PROVE Entorno'
  OBVIOUS
<1>1. Antes'
  BY TiposPaso, LugaresPaso, PropiedadPaso, BasePaso DEF Entorno, Antes
<1> QED BY <1>1, CorrectaPaso, HeredaPaso, DevuelvePaso DEF Entorno

LEMMA EntornoSiempre == ASSUME CadaUnoLoSuyo PROVE Spec => []Entorno
<1>1. Entorno /\ [Next]_vars => Entorno'
  BY EntornoPaso
<1> QED BY <1>1, EntornoInit, PTL DEF Spec

(* Among the programs that use one mutex at a time, the owner has at least    *)
(* the priority of each process that waits for it: it inherits when the lock  *)
(* finds it, the next owner when the unlock chooses it, and only an owner     *)
(* with nothing left gets a worse one.                                      *)
THEOREM HeredaPrioridadSiempre == ASSUME CadaUnoLoSuyo PROVE Spec => []HeredaPrioridad
<1>1. Entorno => HeredaPrioridad
  <2> SUFFICES ASSUME Entorno, NEW m \in Nombres, NEW i \in DOMAIN bloqueados[m],
                      ~Anida(duenio[m]), ~Anida(bloqueados[m][i])
               PROVE  prioridad[duenio[m]] <= prioridad[bloqueados[m][i]]
    BY Zenon DEF HeredaPrioridad
  <2> DEFINE e == bloqueados[m][i]
  <2>1. bloqueados[m] \in Seq(Procesos) /\ i \in 1 .. Len(bloqueados[m])
    BY LenProperties DEF Entorno, Antes, TypeOK
  <2>2. e \in Procesos /\ Contains(bloqueados[m], e)
    BY <2>1, ElementOfSeq DEF Contains
  <2> HIDE DEF e
  <2>3. ~Anida(e)
    BY DEF e
  <2>4. prioridad[duenio[m]] <= prioridad[e]
    BY <2>2, <2>3 DEF Entorno, Hereda
  <2> QED BY <2>4 DEF e
<1> QED BY <1>1, EntornoSiempre, PTL

(* A process without a mutex has the priority it was created with, once the   *)
(* unlock of its last one is over: whatever raised it was a process that      *)
(* waited for a mutex it had.                                               *)
THEOREM DevuelvePrioridadSiempre == ASSUME CadaUnoLoSuyo PROVE Spec => []DevuelvePrioridad
<1>1. Entorno => DevuelvePrioridad
  BY DEF Entorno, Devuelve, DevuelvePrioridad, SinMutex
<1> QED BY <1>1, EntornoSiempre, PTL

(***************************************************************************)
(* The queues                                                               *)
(***************************************************************************)
EnSuNivel ==
  \A n \in Prioridades : \A q \in Procesos :
    Contains(ready[n], q) /\ estado[q] = "READY" /\ ~PorMover(q) => n = Nivel(q)

(* A lock that is about to move an owner goes on with that.                  *)
LEMMA Pendiente ==
  ASSUME TypeOK, [Next]_vars, NEW d \in CPUs, hilo[d].pc = "sacar", ~SacarDuenio(d)
  PROVE  hilo'[d] = hilo[d]
<1>1. CASE EsperarToken \/ SacarSiguiente \/ UNCHANGED vars
  BY <1>1 DEF EsperarToken, SacarSiguiente, vars
<1>2. ASSUME NEW p \in Procesos, TerminarIO(p) \/ Suspender(p) \/ Reanudar(p) PROVE hilo' = hilo
  BY <1>2 DEF TerminarIO, Suspender, Reanudar
<1>3. ASSUME NEW c \in CPUs, EjecutarEn(c) \/ Cpu(c) PROVE hilo'[d] = hilo[d]
  <2>1. hilo[c].pc # "sacar"
    BY <1>3 DEF EjecutarEn, Cpu, Ejecuta, NoopSigue, NoopDesaloja, Sleep, CrearMutex,
       LockInexistente, LockLibre, LockOcupado, Unlock, Exit
  <2> QED BY <1>3, <2>1 DEF EjecutarEn, Cpu, NoopSigue, NoopDesaloja, Sleep, CrearMutex,
             LockInexistente, LockLibre, LockOcupado, Unlock, Exit, TypeOK
<1>4. ASSUME NEW c \in CPUs, Manejador(c) PROVE hilo'[d] = hilo[d]
  <2>1. c # d
    BY <1>4 DEF Manejador, PonerDuenio, Bloquear, SoltarNada, SoltarMutex, Despertar,
       CalcularPrioridad, AsignarPrioridad, Devolver, DestruirPcb
  <2>2. CASE SoltarMutex(c)
    BY <2>1, <2>2 DEF SoltarMutex, TypeOK
  <2>3. CASE SacarDuenio(c) \/ CalcularPrioridad(c)
    <3>1. PICK h : hilo' = [hilo EXCEPT ![c] = h]
      BY <2>3, Zenon DEF SacarDuenio, CalcularPrioridad
    <3> QED BY <2>1, <3>1 DEF TypeOK
  <2> QED BY <1>4, <2>1, <2>2, <2>3 DEF Manejador, PonerDuenio, Bloquear, SoltarNada,
             Despertar, AsignarPrioridad, Devolver, DestruirPcb, TypeOK
<1> QED BY <1>1, <1>2, <1>3, <1>4 DEF Next, Despachador

LEMMA MoverSigue ==
  ASSUME TypeOK, Locales, [Next]_vars, \A c \in CPUs : ~SacarDuenio(c),
         UNCHANGED duenio \/ \E m \in Nombres : /\ MutexInternoLibre(m)
                                                /\ \A k \in Nombres : k # m => duenio'[k] = duenio[k]
  PROVE  \A q : PorMover(q) => PorMover(q)'
<1> SUFFICES ASSUME NEW q, NEW d \in CPUs, hilo[d].pc = "sacar", duenio[hilo[d].mutex] = q
             PROVE  PorMover(q)'
  BY DEF PorMover
<1>1. hilo'[d] = hilo[d]
  BY Pendiente
<1>2. duenio'[hilo[d].mutex] = duenio[hilo[d].mutex]
  BY DEF Locales, LocalHilo, MutexInternoLibre
<1> QED BY <1>1, <1>2 DEF PorMover

(* Who is anywhere else is in no queue.                                     *)
LEMMA NoEnReady ==
  ASSUME Lugares, NEW p \in Procesos, NEW s \in Sitios, Esta(p, s),
         \A n \in Prioridades : s # <<"ready", n>>
  PROVE  \A n \in Prioridades : ~Contains(ready[n], p)
<1> TAKE n \in Prioridades
<1> DEFINE r == <<"ready", n>>
<1>1. r \in Sitios /\ r # s /\ (Contains(ready[n], p) => Esta(p, r))
  BY SonSitios, EstaDef
<1> HIDE DEF r
<1>2. ~Esta(p, r)
  BY <1>1, EnUnSitio DEF Lugares
<1> QED BY <1>1, <1>2

(* Who has just come to ready is in its queue.                              *)
LEMMA NivelAlLlegar ==
  ASSUME TypeOK, Lugares, EnSuNivel, NEW p \in Procesos, NEW s \in Sitios, Esta(p, s),
         \A n \in Prioridades : s # <<"ready", n>>, AgregarAReady(p), UNCHANGED prioridad,
         estado' = [estado EXCEPT ![p] = "READY"], \A q : PorMover(q) => PorMover(q)'
  PROVE  EnSuNivel'
<1>1. Nivel(p) \in Prioridades /\ \A q : Nivel(q)' = Nivel(q)
  BY NivelTipo DEF Nivel
<1>2. \A n \in Prioridades : ~Contains(ready[n], p)
  BY NoEnReady
<1>3. \A n \in Prioridades : \A q : Contains(ready'[n], q) =>
        (q # p /\ Contains(ready[n], q)) \/ (q = p /\ n = Nivel(p))
  BY <1>1, <1>2, AReady DEF AgregarAReady, Lugares
<1>4. \A q \in Procesos : q # p => estado'[q] = estado[q]
  BY DEF TypeOK
<1> SUFFICES ASSUME NEW n \in Prioridades, NEW q \in Procesos, Contains(ready'[n], q),
                    estado'[q] = "READY", ~PorMover(q)'
             PROVE  n = Nivel(q)'
  BY Zenon DEF EnSuNivel
<1> QED BY <1>1, <1>3, <1>4 DEF EnSuNivel

LEMMA NivelQuieto ==
  ASSUME EnSuNivel, UNCHANGED prioridad,
         \A n \in Prioridades, q \in Procesos : Contains(ready'[n], q) => Contains(ready[n], q),
         \A q \in Procesos : estado'[q] = "READY" => estado[q] = "READY",
         \A q : PorMover(q) => PorMover(q)'
  PROVE  EnSuNivel'
<1> SUFFICES ASSUME NEW n \in Prioridades, NEW q \in Procesos, Contains(ready'[n], q),
                    estado'[q] = "READY", ~PorMover(q)'
             PROVE  n = Nivel(q)'
  BY Zenon DEF EnSuNivel
<1>1. Nivel(q)' = Nivel(q)
  BY DEF Nivel
<1> QED BY <1>1 DEF EnSuNivel

(* A priority changes for a process that is in no queue.                     *)
LEMMA NivelDeOtro ==
  ASSUME EnSuNivel, NEW p \in Procesos, \A n \in Prioridades : ~Contains(ready[n], p),
         UNCHANGED <<ready, estado>>, \A q \in Procesos : q # p => prioridad'[q] = prioridad[q],
         \A q : PorMover(q) => PorMover(q)'
  PROVE  EnSuNivel'
<1> SUFFICES ASSUME NEW n \in Prioridades, NEW q \in Procesos, Contains(ready'[n], q),
                    estado'[q] = "READY", ~PorMover(q)'
             PROVE  n = Nivel(q)'
  BY Zenon DEF EnSuNivel
<1>1. q # p
  OBVIOUS
<1>2. Nivel(q)' = Nivel(q)
  BY <1>1 DEF Nivel
<1> QED BY <1>2 DEF EnSuNivel

LEMMA NivelDespachador ==
  ASSUME Antes, EnSuNivel, Despachador, \A q : PorMover(q) => PorMover(q)' PROVE EnSuNivel'
<1>1. UNCHANGED prioridad /\ \A q \in Procesos : estado'[q] = "READY" => estado[q] = "READY"
  BY DEF Despachador, EsperarToken, SacarSiguiente, EjecutarEn, pcb, Antes, TypeOK
<1>2. \A n \in Prioridades, q \in Procesos : Contains(ready'[n], q) => Contains(ready[n], q)
  <2>1. CASE SacarSiguiente
    <3> DEFINE conGente == {n \in Prioridades : ready[n] # <<>>}
               k == Min(conGente)
    <3>1. CASE conGente = {}
      BY <2>1, <3>1 DEF SacarSiguiente
    <3>2. CASE conGente # {}
      <4>1. ready' = [ready EXCEPT ![k] = Tail(@)]
        BY <2>1, <3>2 DEF SacarSiguiente
      <4>2. k \in conGente
        BY <3>2, MinProperties, PrioridadesFacts
      <4> HIDE DEF k
      <4>3. ready[k] \in Seq(Procesos) /\ IsInjective(ready[k]) /\ ready[k] # <<>>
        BY <4>2 DEF Antes, TypeOK, Lugares, EnUnSoloLugar
      <4>4. \A q : Contains(Tail(ready[k]), q) => Contains(ready[k], q)
        BY <4>3, SinPrimero
      <4> QED BY <4>1, <4>2, <4>4 DEF Antes, TypeOK
    <3> QED BY <3>1, <3>2
  <2>2. CASE ~SacarSiguiente
    BY <2>2 DEF Despachador, EsperarToken, EjecutarEn, colas
  <2> QED BY <2>1, <2>2
<1> QED BY <1>1, <1>2, NivelQuieto

(* The owner that a lock raises in ready is about to be moved.               *)
LEMMA NivelAlHeredar ==
  ASSUME Antes, EnSuNivel, NEW c \in CPUs, LockOcupado(c), \A q : PorMover(q) => PorMover(q)'
  PROVE  EnSuNivel'
<1>1. PICK p \in Procesos, m \in Nombres, d \in Procesos :
        /\ p = hilo[c].proceso /\ m = Operando(c) /\ d = duenio[m]
        /\ UNCHANGED <<programa, duenio>>
        /\ \A q \in Procesos : q # d => prioridad'[q] = prioridad[q]
  BY AlHeredar
<1>2. UNCHANGED <<ready, estado>>
  BY DEF LockOcupado, colas
<1>3. CASE prioridad[p] < prioridad[d]
  <2>1. CASE estado[d] = "READY"
    <3> DEFINE h == [hilo[c] EXCEPT !.mutex = m, !.pc = "sacar"]
    <3>1. hilo' = [hilo EXCEPT ![c] = h]
      BY <1>1, <1>3, <2>1 DEF LockOcupado
    <3>2. h.pc = "sacar" /\ h.mutex = m
      BY LiberarTipo DEF Antes, TipoHilo
    <3> HIDE DEF h
    <3>3. hilo'[c] = h
      BY <3>1 DEF Antes, TypeOK
    <3>4. PorMover(d)'
      BY <1>1, <3>2, <3>3 DEF PorMover
    <3> SUFFICES ASSUME NEW n \in Prioridades, NEW q \in Procesos, Contains(ready'[n], q),
                        estado'[q] = "READY", ~PorMover(q)'
                 PROVE  n = Nivel(q)'
      BY Zenon DEF EnSuNivel
    <3>5. q # d
      BY <3>4
    <3>6. Nivel(q)' = Nivel(q)
      BY <1>1, <3>5 DEF Nivel
    <3> QED BY <1>2, <3>6 DEF EnSuNivel
  <2>2. CASE estado[d] # "READY"
    <3> SUFFICES ASSUME NEW n \in Prioridades, NEW q \in Procesos, Contains(ready'[n], q),
                        estado'[q] = "READY", ~PorMover(q)'
                 PROVE  n = Nivel(q)'
      BY Zenon DEF EnSuNivel
    <3>1. q # d
      BY <1>2, <2>2
    <3>2. Nivel(q)' = Nivel(q)
      BY <1>1, <3>1 DEF Nivel
    <3> QED BY <1>2, <3>2 DEF EnSuNivel
  <2> QED BY <2>1, <2>2
<1>4. CASE ~(prioridad[p] < prioridad[d])
  <2>1. UNCHANGED prioridad
    BY <1>1, <1>4 DEF LockOcupado
  <2> QED BY <1>2, <2>1, NivelQuieto
<1> QED BY <1>3, <1>4

LEMMA NivelCpu ==
  ASSUME Antes, EnSuNivel, NEW c \in CPUs, Cpu(c), \A q : PorMover(q) => PorMover(q)' PROVE EnSuNivel'
<1>1. CASE NoopDesaloja(c)
  <2>1. PICK p \in Procesos : p = hilo[c].proceso /\ EnManos(p, c)
    BY <1>1, Instruccion DEF NoopDesaloja, Antes
  <2>2. AgregarAReady(p) /\ UNCHANGED prioridad /\ estado' = [estado EXCEPT ![p] = "READY"]
    BY <1>1, <2>1 DEF NoopDesaloja
  <2>3. <<"cpu", c>> \in Sitios /\ Esta(p, <<"cpu", c>>) /\ \A n : <<"cpu", c>> # <<"ready", n>>
    BY <2>1, SonSitios, EstaDef
  <2> QED BY <2>2, <2>3, NivelAlLlegar DEF Antes
<1>2. CASE LockOcupado(c)
  BY <1>2, NivelAlHeredar
<1>3. CASE ~NoopDesaloja(c) /\ ~LockOcupado(c)
  <2>1. UNCHANGED <<prioridad, ready>>
    BY <1>3 DEF Cpu, NoopSigue, Sleep, CrearMutex, LockInexistente, LockLibre, Unlock, Exit, pcb, colas
  <2>2. \A q \in Procesos : estado'[q] = "READY" => estado[q] = "READY"
    BY <1>3 DEF Cpu, NoopSigue, Sleep, CrearMutex, LockInexistente, LockLibre, Unlock, Exit, pcb,
       Antes, TypeOK
  <2> QED BY <2>1, <2>2, NivelQuieto
<1> QED BY <1>1, <1>2, <1>3

(* The lock moves the owner from whatever queue it is in.                    *)
LEMMA NivelAlSacar ==
  ASSUME Antes, EnSuNivel, NEW c \in CPUs, SacarDuenio(c) PROVE EnSuNivel'
<1> DEFINE d == duenio[hilo[c].mutex]
<1>1. /\ UNCHANGED <<prioridad, estado, duenio>>
      /\ \A n \in Prioridades : ready'[n] = RemoveFirst(ready[n], d)
  BY DEF SacarDuenio, pcb, mutexes
<1>2. \A e \in CPUs : e # c => hilo'[e] = hilo[e]
  <2>1. PICK h : hilo' = [hilo EXCEPT ![c] = h]
    BY Zenon DEF SacarDuenio
  <2> QED BY <2>1 DEF Antes, TypeOK
<1>3. \A q : PorMover(q) /\ q # d => PorMover(q)'
  BY <1>1, <1>2 DEF PorMover
<1>4. \A n \in Prioridades : \A q : Contains(ready'[n], q) => Contains(ready[n], q) /\ q # d
  <2> HIDE DEF d
  <2>1. \A n \in Prioridades : ready[n] \in Seq(Procesos) /\ IsInjective(ready[n])
    BY DEF Antes, TypeOK, Lugares, EnUnSoloLugar
  <2> QED BY <1>1, <2>1, SinElegido
<1> HIDE DEF d
<1> SUFFICES ASSUME NEW n \in Prioridades, NEW q \in Procesos, Contains(ready'[n], q),
                    estado'[q] = "READY", ~PorMover(q)'
             PROVE  n = Nivel(q)'
  BY Zenon DEF EnSuNivel
<1>5. Nivel(q)' = Nivel(q)
  BY <1>1 DEF Nivel
<1> QED BY <1>1, <1>3, <1>4, <1>5 DEF EnSuNivel

LEMMA NivelAlPoner ==
  ASSUME Antes, EnSuNivel, NEW c \in CPUs, PonerDuenio(c), \A q : PorMover(q) => PorMover(q)'
  PROVE  EnSuNivel'
<1>1. PICK d \in Procesos : d = duenio[hilo[c].mutex]
  BY DEF PonerDuenio, Antes, Locales, LocalHilo
<1>2. /\ EnManos(d, c) /\ UNCHANGED <<prioridad, estado>>
      /\ ready' = [ready EXCEPT ![Nivel(d)] = <<d>> \o @]
  BY <1>1 DEF PonerDuenio, EnManos, pcb
<1>3. Nivel(d) \in Prioridades /\ \A q : Nivel(q)' = Nivel(q)
  BY <1>2, NivelTipo DEF Nivel, Antes
<1>4. \A n \in Prioridades : ~Contains(ready[n], d)
  <2>1. <<"cpu", c>> \in Sitios /\ Esta(d, <<"cpu", c>>) /\ \A n : <<"cpu", c>> # <<"ready", n>>
    BY <1>2, SonSitios, EstaDef
  <2> QED BY <2>1, NoEnReady DEF Antes
<1>5. \A n \in Prioridades : \A q : Contains(ready'[n], q) => Contains(ready[n], q) \/ (q = d /\ n = Nivel(d))
  BY <1>2, <1>3, <1>4, AReady DEF Lugares, Antes
<1> SUFFICES ASSUME NEW n \in Prioridades, NEW q \in Procesos, Contains(ready'[n], q),
                    estado'[q] = "READY", ~PorMover(q)'
             PROVE  n = Nivel(q)'
  BY Zenon DEF EnSuNivel
<1> QED BY <1>2, <1>3, <1>5 DEF EnSuNivel

(* The new owner waited for the mutex, and was in no queue.                  *)
LEMMA NivelAlSoltar ==
  ASSUME Antes, EnSuNivel, NEW c \in CPUs, SoltarMutex(c), \A q : PorMover(q) => PorMover(q)'
  PROVE  EnSuNivel'
<1>1. PICK p \in Procesos, m \in Nombres : Entrega(c, p, m)
  BY Entregar
<1>2. /\ UNCHANGED <<ready, estado>>
      /\ \A q \in Procesos : duenio'[m] # q => prioridad'[q] = prioridad[q]
      /\ \A q \in Procesos : duenio'[m] = q => Contains(bloqueados[m], q)
  BY <1>1 DEF Entrega
<1>3. CASE duenio'[m] \in Procesos
  <2>1. PICK s \in Procesos : s = duenio'[m]
    BY <1>3
  <2>2. <<"espera", m>> \in Sitios /\ Esta(s, <<"espera", m>>) /\ \A n : <<"espera", m>> # <<"ready", n>>
    BY <1>2, <2>1, SonSitios, EstaDef
  <2>3. \A n \in Prioridades : ~Contains(ready[n], s)
    BY <2>2, NoEnReady DEF Antes
  <2> QED BY <1>2, <2>1, <2>3, NivelDeOtro
<1>4. CASE duenio'[m] \notin Procesos
  <2>1. \A q \in Procesos : prioridad'[q] = prioridad[q]
    BY <1>2, <1>4
  <2>2. \A n \in Prioridades : ~Contains(ready[n], p)
    <3>1. <<"cpu", c>> \in Sitios /\ Esta(p, <<"cpu", c>>) /\ \A n : <<"cpu", c>> # <<"ready", n>>
      BY <1>1, SonSitios, EstaDef DEF Entrega
    <3> QED BY <3>1, NoEnReady DEF Antes
  <2> QED BY <1>2, <2>1, <2>2, NivelDeOtro
<1> QED BY <1>3, <1>4

LEMMA NivelManejador ==
  ASSUME Antes, EnSuNivel, NEW c \in CPUs, Manejador(c), ~SacarDuenio(c),
         \A q : PorMover(q) => PorMover(q)'
  PROVE  EnSuNivel'
<1>1. CASE Despertar(c) \/ Devolver(c)
  <2>1. PICK p \in Procesos : /\ EnManos(p, c) /\ AgregarAReady(p) /\ UNCHANGED prioridad
                              /\ estado' = [estado EXCEPT ![p] = "READY"]
    <3> DEFINE p == IF hilo[c].pc = "despertar" THEN hilo[c].siguiente ELSE hilo[c].proceso
    <3>1. p \in Procesos /\ EnManos(p, c)
      BY <1>1 DEF Despertar, Devolver, Antes, Locales, LocalHilo, EnManos
    <3>2. AgregarAReady(p) /\ UNCHANGED prioridad /\ estado' = [estado EXCEPT ![p] = "READY"]
      BY <1>1 DEF Despertar, Devolver
    <3> QED BY <3>1, <3>2
  <2>2. <<"cpu", c>> \in Sitios /\ Esta(p, <<"cpu", c>>) /\ \A n : <<"cpu", c>> # <<"ready", n>>
    BY <2>1, SonSitios, EstaDef
  <2> QED BY <2>1, <2>2, NivelAlLlegar DEF Antes
<1>2. CASE AsignarPrioridad(c)
  <2>1. PICK p \in Procesos : /\ EnManos(p, c)
                              /\ \A q \in Procesos : q # p => prioridad'[q] = prioridad[q]
    BY <1>2, AlAsignar
  <2>2. <<"cpu", c>> \in Sitios /\ Esta(p, <<"cpu", c>>) /\ \A n : <<"cpu", c>> # <<"ready", n>>
    BY <2>1, SonSitios, EstaDef
  <2>3. \A n \in Prioridades : ~Contains(ready[n], p)
    BY <2>2, NoEnReady DEF Antes
  <2>4. UNCHANGED <<ready, estado>>
    BY <1>2 DEF AsignarPrioridad, colas
  <2> QED BY <2>1, <2>3, <2>4, NivelDeOtro
<1>3. CASE Bloquear(c) \/ SoltarNada(c) \/ CalcularPrioridad(c) \/ DestruirPcb(c)
  <2>1. UNCHANGED <<prioridad, ready>>
    BY <1>3 DEF Bloquear, SoltarNada, CalcularPrioridad, DestruirPcb, pcb, colas
  <2>2. \A q \in Procesos : estado'[q] = "READY" => estado[q] = "READY"
    BY <1>3 DEF Bloquear, SoltarNada, CalcularPrioridad, DestruirPcb, pcb, Antes, TypeOK
  <2> QED BY <2>1, <2>2, NivelQuieto
<1> QED BY <1>1, <1>2, <1>3, NivelAlPoner, NivelAlSoltar DEF Manejador

LEMMA NivelPaso == Antes /\ EnSuNivel /\ [Next]_vars => EnSuNivel'
<1> SUFFICES ASSUME Antes, EnSuNivel, [Next]_vars PROVE EnSuNivel'
  OBVIOUS
<1>1. ASSUME NEW c \in CPUs, SacarDuenio(c) PROVE EnSuNivel'
  BY <1>1, NivelAlSacar
<1>2. CASE \A c \in CPUs : ~SacarDuenio(c)
  <2>1. UNCHANGED duenio \/ \E m \in Nombres : /\ MutexInternoLibre(m)
                                               /\ \A k \in Nombres : k # m => duenio'[k] = duenio[k]
    <3>1. CASE OtroPaso
      BY <3>1 DEF OtroPaso
    <3>2. ASSUME NEW c \in CPUs, SoltarMutex(c)
          PROVE  \E m \in Nombres : MutexInternoLibre(m) /\ \A k \in Nombres : k # m => duenio'[k] = duenio[k]
      <4> DEFINE m == Head(hilo[c].liberar)
      <4>1. MutexInternoLibre(m) /\ m \in Nombres
        BY <3>2, HiloEntrega DEF SoltarMutex
      <4>2. PICK d : duenio' = [duenio EXCEPT ![m] = d]
        BY <3>2, Zenon DEF SoltarMutex
      <4> HIDE DEF m
      <4>3. \A k \in Nombres : k # m => duenio'[k] = duenio[k]
        BY <4>2 DEF Antes, TypeOK
      <4> QED BY <4>1, <4>3
    <3>3. ASSUME NEW c \in CPUs, LockLibre(c)
          PROVE  \E m \in Nombres : MutexInternoLibre(m) /\ \A k \in Nombres : k # m => duenio'[k] = duenio[k]
      <4> DEFINE m == Operando(c)
      <4>1. MutexInternoLibre(m) /\ m \in Nombres /\ duenio' = [duenio EXCEPT ![m] = hilo[c].proceso]
        BY <3>3, EjecutaTipo DEF LockLibre, Antes, Locales
      <4> HIDE DEF m
      <4>2. \A k \in Nombres : k # m => duenio'[k] = duenio[k]
        BY <4>1 DEF Antes, TypeOK
      <4> QED BY <4>1, <4>2
    <3>4. ASSUME NEW c \in CPUs, Cpu(c), ~LockLibre(c) PROVE UNCHANGED duenio
      BY <3>4 DEF Cpu, NoopSigue, NoopDesaloja, Sleep, CrearMutex, LockInexistente, LockOcupado,
         Unlock, Exit, mutexes
    <3>5. ASSUME NEW c \in CPUs, AsignarPrioridad(c) PROVE UNCHANGED duenio
      BY <3>5 DEF AsignarPrioridad, mutexes
    <3> QED BY <3>1, <3>2, <3>3, <3>4, <3>5, Pasos
  <2>2. \A q : PorMover(q) => PorMover(q)'
    BY <1>2, <2>1, MoverSigue DEF Antes
  <2>3. CASE Despachador
    BY <2>2, <2>3, NivelDespachador
  <2>4. ASSUME NEW c \in CPUs, Cpu(c) \/ Manejador(c) PROVE EnSuNivel'
    BY <1>2, <2>2, <2>4, NivelCpu, NivelManejador
  <2>5. ASSUME NEW p \in Procesos, TerminarIO(p) PROVE EnSuNivel'
    <3>1. <<"io", 0>> \in Sitios /\ Esta(p, <<"io", 0>>) /\ \A n : <<"io", 0>> # <<"ready", n>>
      BY <2>5, SonSitios, EstaDef DEF TerminarIO
    <3>2. AgregarAReady(p) /\ UNCHANGED prioridad /\ estado' = [estado EXCEPT ![p] = "READY"]
      BY <2>5 DEF TerminarIO
    <3> QED BY <2>2, <3>1, <3>2, NivelAlLlegar DEF Antes
  <2>6. ASSUME NEW p \in Procesos, Suspender(p) \/ Reanudar(p) PROVE EnSuNivel'
    <3>1. UNCHANGED <<prioridad, ready>>
      BY <2>6 DEF Suspender, Reanudar, colas
    <3>2. \A q \in Procesos : estado'[q] = "READY" => estado[q] = "READY"
      BY <2>6 DEF Suspender, Reanudar, Antes, TypeOK
    <3> QED BY <2>2, <3>1, <3>2, NivelQuieto
  <2>7. CASE UNCHANGED vars
    <3>1. UNCHANGED <<prioridad, ready, estado>>
      BY <2>7 DEF vars, pcb, colas
    <3> QED BY <2>2, <3>1, NivelQuieto
  <2> QED BY <2>3, <2>4, <2>5, <2>6, <2>7 DEF Next
<1> QED BY <1>1, <1>2

LEMMA NivelInit == Init => EnSuNivel
<1> SUFFICES ASSUME Init PROVE EnSuNivel
  OBVIOUS
<1>1. \A n \in Prioridades, q \in Procesos : Contains(ready[n], q) => NivelInicial(q) = n
  BY InitFacts
<1>2. prioridad = prioridad_original
  BY DEF Init
<1> QED BY <1>1, <1>2 DEF EnSuNivel, NivelInicial, Nivel

(* A process whose estado is READY is in the queue of its priority, or a lock  *)
(* is about to move it there: the priority of a process in ready only changes *)
(* when it inherits, and between the inheritance and the move nobody takes    *)
(* the mutex from it.                                                       *)
THEOREM NivelAlDiaSiempre == ASSUME CadaUnoLoSuyo PROVE Spec => []NivelAlDia
<1>1. Entorno /\ EnSuNivel => NivelAlDia
  <2> SUFFICES ASSUME Entorno, EnSuNivel, NEW n \in Prioridades, NEW i \in DOMAIN ready[n],
                      estado[ready[n][i]] = "READY", ~PorMover(ready[n][i])
               PROVE  n = Nivel(ready[n][i])
    BY Zenon DEF NivelAlDia
  <2> DEFINE q == ready[n][i]
  <2>1. ready[n] \in Seq(Procesos) /\ i \in 1 .. Len(ready[n])
    BY LenProperties DEF Entorno, Antes, TypeOK
  <2>2. q \in Procesos /\ Contains(ready[n], q)
    BY <2>1, ElementOfSeq DEF Contains
  <2>3. estado[q] = "READY" /\ ~PorMover(q)
    OBVIOUS
  <2> HIDE DEF q
  <2>4. n = Nivel(q)
    BY <2>2, <2>3 DEF EnSuNivel
  <2> QED BY <2>4 DEF q
<1>2. Entorno /\ EnSuNivel /\ [Next]_vars => EnSuNivel'
  BY NivelPaso DEF Entorno
<1> QED BY <1>1, <1>2, EntornoSiempre, NivelInit, PTL DEF Spec

=============================================================================
