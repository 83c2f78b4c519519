--------------------------- MODULE MemoriaProofs ---------------------------
(* Proofs about Kernel Memory, for any number of processes, sticks and      *)
(* blocks: every byte and every block has one owner, through every          *)
(* interleaving of an operation with the CPUs and the connections.          *)
EXTENDS Memoria, Secuencias

(***************************************************************************)
(* Holes, segments and lists of blocks                                      *)
(***************************************************************************)
(* What fusionar_huecos, an allocation, a compaction and the sums over a     *)
(* list do to the set of free bytes.  The list of holes is shown to be the   *)
(* maximal runs (Corridas) of that set; the sums and the loops, which        *)
(* Memoria writes with folds, are unfolded by a minimal counterexample.     *)

Tramo(s) == s.base \in Nat /\ s.tam \in Nat \ {0}
Tramos(S) == \A s \in S : Tramo(s)
Antes(s, t) == s.base + s.tam <= t.base
Disjuntos(S) == \A s, t \in S : s # t => Antes(s, t) \/ Antes(t, s)
Cubiertos(S) == UNION {Rango(s) : s \in S}

LEMMA RangoFacts ==
  ASSUME NEW s, Tramo(s)
  PROVE  /\ IsFiniteSet(Rango(s)) /\ Cardinality(Rango(s)) = s.tam
         /\ \A b : b \in Rango(s) <=> b \in Nat /\ s.base <= b /\ b < s.base + s.tam
<1> DEFINE a == s.base
           b == s.base + s.tam - 1
<1>0. \A x \in Nat, y \in Nat \ {0} :
        x \in Int /\ x + y - 1 \in Int /\ ~(x > x + y - 1) /\ x + y - 1 - x + 1 = y
  OBVIOUS
<1>1. a \in Int /\ b \in Int /\ ~(a > b) /\ b - a + 1 = s.tam
  BY <1>0 DEF Tramo
<1>2. \A x : x \in a .. b <=> x \in Nat /\ s.base <= x /\ x < s.base + s.tam
  BY DEF Tramo
<1>3. Rango(s) = a .. b
  BY DEF Rango
<1> HIDE DEF a, b
<1>4. IsFiniteSet(a .. b) /\ Cardinality(a .. b) = b - a + 1
  BY <1>1, FS_Interval
<1> QED BY <1>1, <1>2, <1>3, <1>4

LEMMA CubiertosFinito ==
  ASSUME NEW S, IsFiniteSet(S), Tramos(S)
  PROVE  IsFiniteSet(Cubiertos(S)) /\ Cardinality(Cubiertos(S)) \in Nat
<1>1. \A s \in S : IsFiniteSet(Rango(s))
  BY RangoFacts DEF Tramos
<1>2. IsFiniteSet({Rango(s) : s \in S})
  <2> DEFINE f == [s \in S |-> Rango(s)]
             T == {Rango(s) : s \in S}
  <2>1. f \in Surjection(S, T)
    BY DEF Surjection
  <2> HIDE DEF f, T
  <2> QED BY <2>1, FS_Surjection DEF T
<1>3. IsFiniteSet(Cubiertos(S))
  BY <1>1, <1>2, FS_UNION DEF Cubiertos
<1> QED BY <1>3, FS_CardinalityType

(* One interval more.                                                       *)
LEMMA CubiertosMas ==
  ASSUME NEW S, IsFiniteSet(S), Tramos(S), Disjuntos(S), NEW x \in S
  PROVE  Cardinality(Cubiertos(S)) = x.tam + Cardinality(Cubiertos(S \ {x}))
<1> DEFINE R == S \ {x}
<1>1. IsFiniteSet(R) /\ Tramos(R) /\ Tramo(x)
  BY FS_RemoveElement DEF Tramos
<1>2. IsFiniteSet(Cubiertos(R)) /\ Cardinality(Cubiertos(R)) \in Nat
  BY <1>1, CubiertosFinito
<1>3. Cubiertos(S) = Rango(x) \cup Cubiertos(R)
  BY DEF Cubiertos
<1>4. Rango(x) \cap Cubiertos(R) = {}
  <2> SUFFICES ASSUME NEW b, b \in Rango(x), NEW t \in R, b \in Rango(t) PROVE FALSE
    BY DEF Cubiertos
  <2>1. Tramo(t) /\ (Antes(x, t) \/ Antes(t, x))
    BY <1>1 DEF Disjuntos, Tramos
  <2> QED BY <1>1, <2>1, RangoFacts DEF Tramo, Antes
<1> HIDE DEF R
<1>5. IsFiniteSet(Rango(x)) /\ Cardinality(Rango(x)) = x.tam /\ x.tam \in Nat
  BY <1>1, RangoFacts DEF Tramo
<1>6. Cardinality(Rango(x) \cup Cubiertos(R))
        = Cardinality(Rango(x)) + Cardinality(Cubiertos(R)) - Cardinality(Rango(x) \cap Cubiertos(R))
  BY <1>2, <1>5, FS_Union
<1>7. Cardinality(Rango(x) \cap Cubiertos(R)) = 0
  BY <1>4, FS_EmptySet
<1> QED BY <1>2, <1>3, <1>5, <1>6, <1>7 DEF R

PasoDeSuma(f, S) == [T \in SUBSET S |->
  IF T = {} THEN 0 ELSE LET x == CHOOSE y \in T : TRUE IN x.tam + f[T \ {x}]]

LEMMA SumaDef ==
  ASSUME NEW S, NEW f, f = PasoDeSuma(f, S)
  PROVE  \E g : g = PasoDeSuma(g, S) /\ Suma(S) = g[S]
BY DEF Suma, MapThenSumSet, MapThenFoldSet, PasoDeSuma

(* The sum of the sizes of disjoint intervals is how many bytes they cover.  *)
LEMMA SumaDisjuntos ==
  ASSUME NEW S, IsFiniteSet(S), Tramos(S), Disjuntos(S)
  PROVE  Suma(S) = Cardinality(Cubiertos(S))
<1> DEFINE f == [T \in SUBSET S |-> Cardinality(Cubiertos(T))]
           El(T) == CHOOSE y \in T : TRUE
<1>1. ASSUME NEW T \in SUBSET S, T # {}
      PROVE  /\ El(T) \in T /\ T \ {El(T)} \in SUBSET S
             /\ f[T] = El(T).tam + f[T \ {El(T)}]
  <2>1. El(T) \in T /\ T \ {El(T)} \in SUBSET S
    BY <1>1
  <2>2. IsFiniteSet(T) /\ Tramos(T) /\ Disjuntos(T)
    BY FS_Subset DEF Tramos, Disjuntos
  <2> HIDE DEF El
  <2>3. Cardinality(Cubiertos(T)) = El(T).tam + Cardinality(Cubiertos(T \ {El(T)}))
    BY <2>1, <2>2, CubiertosMas
  <2> QED BY <2>1, <2>3
<1>2. f[{}] = 0
  BY FS_EmptySet DEF Cubiertos
<1>3. f = PasoDeSuma(f, S)
  <2> HIDE DEF f
  <2>1. f = [T \in SUBSET S |-> f[T]]
    BY DEF f
  <2>2. \A T \in SUBSET S : f[T] = IF T = {} THEN 0 ELSE El(T).tam + f[T \ {El(T)}]
    BY <1>1, <1>2
  <2>3. [T \in SUBSET S |-> f[T]]
          = [T \in SUBSET S |-> IF T = {} THEN 0 ELSE El(T).tam + f[T \ {El(T)}]]
    BY <2>2
  <2> QED BY <2>1, <2>3 DEF PasoDeSuma
<1>4. PICK g : g = PasoDeSuma(g, S) /\ Suma(S) = g[S]
  BY <1>3, SumaDef
<1>5. \A T \in SUBSET S : g[T] = IF T = {} THEN 0 ELSE El(T).tam + g[T \ {El(T)}]
  BY <1>4 DEF PasoDeSuma
<1> DEFINE W == {T \in SUBSET S : g[T] # f[T]}
<1>6. W = {}
  <2> SUFFICES ASSUME W # {} PROVE FALSE
    OBVIOUS
  <2>0. W \subseteq SUBSET S
    OBVIOUS
  <2>1. PICK T \in W : \A U \in W : U \subseteq T => U = T
    <3> HIDE DEF W
    <3> QED BY <2>0, SubconjuntoMinimo
  <2>2. CASE T = {}
    BY <2>1, <2>2, <1>2, <1>5
  <2>3. CASE T # {}
    <3> HIDE DEF f, El
    <3>1. El(T) \in T /\ T \ {El(T)} \in SUBSET S /\ f[T] = El(T).tam + f[T \ {El(T)}]
      BY <2>1, <2>3, <1>1
    <3>2. g[T] = El(T).tam + g[T \ {El(T)}]
      BY <2>1, <2>3, <1>5
    <3>3. T \ {El(T)} \notin W
      BY <2>1, <3>1
    <3> QED BY <2>1, <3>1, <3>2, <3>3
  <2> QED BY <2>2, <2>3
<1>7. g[S] = f[S]
  BY <1>6
<1> QED BY <1>4, <1>7

-----------------------------------------------------------------------------
(* The maximal runs of free bytes, which is what the list of holes is.      *)
Limite == MaxSticks * TamStick
Corridas(F) ==
  {h \in Huecos : Rango(h) \subseteq F /\ h.base - 1 \notin F /\ h.base + h.tam \notin F}

LEMMA LimiteNat == Limite \in Nat
BY SticksAssumption DEF Limite

LEMMA HuecosFacts ==
  /\ \A h \in Huecos : Tramo(h) /\ h.tam <= Limite
  /\ \A h, g \in Huecos : h.base = g.base /\ h.tam = g.tam => h = g
  /\ \A a, n \in Nat : n # 0 /\ a + n <= Limite => [base |-> a, tam |-> n] \in Huecos
BY LimiteNat DEF Huecos, Tramo, Limite

LEMMA CorridaFacts ==
  ASSUME NEW F, NEW h \in Corridas(F)
  PROVE  /\ h \in Huecos /\ Tramo(h) /\ h.tam <= Limite
         /\ \A b \in Int : h.base <= b /\ b < h.base + h.tam => b \in F
         /\ h.base - 1 \notin F /\ h.base + h.tam \notin F
BY HuecosFacts, RangoFacts DEF Corridas, Tramo

LEMMA EsCorrida ==
  ASSUME NEW F, NEW h \in Huecos, h.base - 1 \notin F, h.base + h.tam \notin F,
         \A b \in Nat : h.base <= b /\ b < h.base + h.tam => b \in F
  PROVE  h \in Corridas(F)
BY HuecosFacts, RangoFacts DEF Corridas, Tramo

(* Two runs do not even touch.                                              *)
LEMMA CorridasSeparadas ==
  ASSUME NEW F, NEW h \in Corridas(F), NEW g \in Corridas(F), h # g
  PROVE  h.base + h.tam < g.base \/ g.base + g.tam < h.base
<1>1. /\ Tramo(h) /\ Tramo(g) /\ h \in Huecos /\ g \in Huecos
      /\ h.base - 1 \notin F /\ h.base + h.tam \notin F
      /\ g.base - 1 \notin F /\ g.base + g.tam \notin F
  BY CorridaFacts
<1>2. \A b \in Int : h.base <= b /\ b < h.base + h.tam => b \in F
  BY CorridaFacts
<1>3. \A b \in Int : g.base <= b /\ b < g.base + g.tam => b \in F
  BY CorridaFacts
<1>4. h.base # g.base \/ h.tam # g.tam
  BY <1>1, HuecosFacts
<1> QED BY <1>1, <1>2, <1>3, <1>4 DEF Tramo

(* Bytes that are free together are in one run.                             *)
LEMMA CorridaDe ==
  ASSUME NEW F, F \subseteq 0 .. Limite - 1, NEW a \in Nat, NEW n \in Nat \ {0},
         \A b \in Int : a <= b /\ b < a + n => b \in F
  PROVE  \E h \in Corridas(F) : h.base <= a /\ a + n <= h.base + h.tam
<1> DEFINE I == {x \in Nat : x <= a /\ \A b \in Int : x <= b /\ b < a + n => b \in F}
           J == {y \in Nat : y >= a + n /\ y \notin F}
           x == Min(I)
           y == Min(J)
<1>1. x \in I /\ \A z \in I : x <= z
  <2>1. I \subseteq Nat /\ a \in I
    OBVIOUS
  <2> HIDE DEF I
  <2> QED BY <2>1, MinProperties
<1>2. y \in J /\ \A z \in J : y <= z
  <2>0. a + n - 1 \in F /\ Limite \in Nat
    BY LimiteNat
  <2>1. J \subseteq Nat /\ Limite \in J
    BY <2>0
  <2> HIDE DEF J
  <2> QED BY <2>1, MinProperties
<1>3. x \in Nat /\ y \in Nat /\ x <= a /\ a + n <= y /\ y \notin F
      /\ \A b \in Int : x <= b /\ b < a + n => b \in F
  BY <1>1, <1>2
<1>4. \A b \in Int : a + n <= b /\ b < y => b \in F
  BY <1>2, <1>3
<1>5. x - 1 \notin F
  <2> SUFFICES ASSUME x - 1 \in F PROVE FALSE
    OBVIOUS
  <2>1. x - 1 \in Nat
    BY <1>3
  <2>2. x - 1 \in I
    BY <1>3, <2>1
  <2> HIDE DEF x, I
  <2> QED BY <1>1, <1>3, <2>2
<1> HIDE DEF x, y, I, J
<1> DEFINE h == [base |-> x, tam |-> y - x]
<1>6. h \in Huecos /\ h.base = x /\ h.base + h.tam = y
  <2>1. y - 1 \in F
    BY <1>3, <1>4
  <2>2. y <= Limite /\ y - x \in Nat \ {0} /\ x + (y - x) = y
    BY <2>1, <1>3, LimiteNat
  <2> QED BY <2>2, <1>3, HuecosFacts
<1> HIDE DEF h
<1>7. h \in Corridas(F)
  BY <1>3, <1>4, <1>5, <1>6, EsCorrida
<1> QED BY <1>3, <1>6, <1>7

LEMMA CorridasCubren ==
  ASSUME NEW F, F \subseteq 0 .. Limite - 1
  PROVE  Cubiertos(Corridas(F)) = F
<1>1. ASSUME NEW b \in F PROVE \E h \in Corridas(F) : b \in Rango(h)
  <2>1. b \in Nat /\ \A c \in Int : b <= c /\ c < b + 1 => c \in F
    BY LimiteNat
  <2>2. PICK h \in Corridas(F) : h.base <= b /\ b + 1 <= h.base + h.tam
    BY <2>1, CorridaDe, 1 \in Nat \ {0}
  <2> QED BY <2>1, <2>2, CorridaFacts, RangoFacts DEF Tramo
<1>2. \A h \in Corridas(F) : Rango(h) \subseteq F
  BY DEF Corridas
<1> QED BY <1>1, <1>2 DEF Cubiertos

LEMMA HuecosFinitos == IsFiniteSet(Huecos)
<1> DEFINE A == 0 .. Limite - 1
           B == 1 .. Limite
           f == [x \in A \X B |-> [base |-> x[1], tam |-> x[2]]]
<1>1. IsFiniteSet(A) /\ IsFiniteSet(B)
  BY LimiteNat, FS_Interval
<1>2. f \in Surjection(A \X B, Huecos)
  <2>1. f \in [A \X B -> Huecos]
    BY DEF Huecos, Limite
  <2>2. ASSUME NEW h \in Huecos PROVE \E x \in A \X B : f[x] = h
    <3>1. h.base \in A /\ h.tam \in B /\ h = [base |-> h.base, tam |-> h.tam]
      BY DEF Huecos, Limite
    <3>2. <<h.base, h.tam>> \in A \X B /\ f[<<h.base, h.tam>>] = h
      BY <3>1
    <3> QED BY <3>2
  <2> QED BY <2>1, <2>2 DEF Surjection
<1>3. IsFiniteSet(A \X B)
  BY <1>1, FS_Product
<1> HIDE DEF f, A, B
<1> QED BY <1>2, <1>3, FS_Surjection

LEMMA CorridasTramos ==
  ASSUME NEW F
  PROVE  IsFiniteSet(Corridas(F)) /\ Tramos(Corridas(F)) /\ Disjuntos(Corridas(F))
<1>1. IsFiniteSet(Corridas(F))
  BY HuecosFinitos, FS_Subset DEF Corridas
<1>2. Tramos(Corridas(F))
  BY CorridaFacts DEF Tramos
<1>3. ASSUME NEW h \in Corridas(F), NEW g \in Corridas(F), h # g
      PROVE  Antes(h, g) \/ Antes(g, h)
  BY <1>3, CorridasSeparadas, CorridaFacts DEF Antes, Tramo
<1> QED BY <1>1, <1>2, <1>3 DEF Disjuntos

(* A byte range that is released joins its neighbours: the list of holes is  *)
(* still that of the maximal runs.                                          *)
LEMMA ConHuecoCorridas ==
  ASSUME NEW F, F \subseteq 0 .. Limite - 1, NEW a \in Nat, NEW n \in Nat \ {0}, a + n <= Limite,
         \A b \in Int : a <= b /\ b < a + n => b \notin F
  PROVE  ConHueco(Corridas(F), a, n) = Corridas(F \cup (a .. a + n - 1))
<1> DEFINE izq == {h \in Corridas(F) : h.base + h.tam = a}
           der == {h \in Corridas(F) : h.base = a + n}
           todos == izq \cup der
           G == F \cup (a .. a + n - 1)
           I == {a} \cup {h.base : h \in izq}
<1>1. \A h \in Corridas(F) : h \in Huecos /\ h.base \in Nat /\ h.tam \in Nat \ {0}
  BY CorridaFacts DEF Tramo
<1>2. \A h, g \in izq : h = g
  BY <1>1, CorridasSeparadas
<1>3. \A h, g \in der : h = g
  BY <1>1, CorridasSeparadas
<1>4. \E x \in Nat :
        /\ Min(I) = x /\ x <= a /\ x - 1 \notin F /\ Cubiertos(izq) = x .. a - 1
        /\ \A b \in Int : x <= b /\ b < a => b \in F
        /\ \A h \in izq : h.base = x
  <2>1. Min(I) \in I /\ \A z \in I : Min(I) <= z
    <3>1. I \subseteq Nat /\ I # {}
      BY <1>1
    <3> HIDE DEF I
    <3> QED BY <3>1, MinProperties
  <2>2. CASE izq = {}
    <3>1. I = {a} /\ Cubiertos(izq) = {} /\ a .. a - 1 = {}
      BY <2>2 DEF Cubiertos
    <3>2. a - 1 \notin F
      <4> SUFFICES ASSUME a - 1 \in F PROVE FALSE
        OBVIOUS
      <4>1. a - 1 \in Nat /\ \A b \in Int : a - 1 <= b /\ b < a - 1 + 1 => b \in F
        BY LimiteNat
      <4>2. PICK h \in Corridas(F) : h.base <= a - 1 /\ a - 1 + 1 <= h.base + h.tam
        BY <4>1, CorridaDe, 1 \in Nat \ {0}
      <4>3. h.base + h.tam = a
        BY <1>1, <4>2, CorridaFacts
      <4> QED BY <4>3, <2>2
    <3>3. Min(I) = a
      BY <2>1, <3>1
    <3>4. \A h \in izq : h.base = a
      BY <2>2
    <3>5. \A b \in Int : a <= b /\ b < a => b \in F
      OBVIOUS
    <3> HIDE DEF I, izq
    <3> QED BY <3>1, <3>2, <3>3, <3>4, <3>5
  <2>3. CASE izq # {}
    <3>1. PICK h \in izq : TRUE
      BY <2>3
    <3>2. izq = {h} /\ h \in Corridas(F) /\ h.base + h.tam = a
      BY <1>2, <3>1
    <3>3. I = {a, h.base} /\ Cubiertos(izq) = Rango(h)
      BY <3>2 DEF Cubiertos
    <3> HIDE DEF I, izq
    <3>4. h.base \in Nat /\ h.tam \in Nat \ {0} /\ h.base <= a /\ Rango(h) = h.base .. a - 1
      BY <1>1, <3>2 DEF Rango
    <3>5. Min(I) = h.base
      BY <2>1, <3>3, <3>4
    <3> QED BY <3>2, <3>3, <3>4, <3>5, CorridaFacts
  <2> QED BY <2>2, <2>3
<1>5. \E y \in Nat :
        /\ a + n <= y /\ y <= Limite /\ y \notin F /\ Cubiertos(der) = a + n .. y - 1
        /\ \A b \in Int : a + n <= b /\ b < y => b \in F
        /\ \A h \in der : h.base + h.tam = y
  <2>2. CASE der = {}
    <3>1. Cubiertos(der) = {} /\ a + n .. a + n - 1 = {}
      BY <2>2 DEF Cubiertos
    <3>2. a + n \notin F
      <4> SUFFICES ASSUME a + n \in F PROVE FALSE
        OBVIOUS
      <4>1. a + n \in Nat /\ \A b \in Int : a + n <= b /\ b < a + n + 1 => b \in F
        OBVIOUS
      <4>2. PICK h \in Corridas(F) : h.base <= a + n /\ a + n + 1 <= h.base + h.tam
        BY <4>1, CorridaDe, 1 \in Nat \ {0}
      <4>3. h.base = a + n
        BY <1>1, <4>2, CorridaFacts
      <4> QED BY <4>3, <2>2
    <3> HIDE DEF der
    <3> QED BY <2>2, <3>1, <3>2
  <2>3. CASE der # {}
    <3>1. PICK h \in der : TRUE
      BY <2>3
    <3>2. der = {h} /\ h \in Corridas(F) /\ h.base = a + n
      BY <1>3, <3>1
    <3>3. Cubiertos(der) = Rango(h)
      BY <3>2 DEF Cubiertos
    <3> HIDE DEF der
    <3> DEFINE y == h.base + h.tam
    <3>4. y \in Nat /\ a + n <= y /\ Rango(h) = a + n .. y - 1 /\ y - 1 \in F
      BY <1>1, <3>2, CorridaFacts DEF Rango
    <3>5. y <= Limite /\ y \notin F /\ \A b \in Int : a + n <= b /\ b < y => b \in F
      BY <3>2, <3>4, LimiteNat, CorridaFacts
    <3> HIDE DEF y
    <3>6. \A g \in der : g.base + g.tam = y
      BY <3>2 DEF y
    <3> QED BY <3>3, <3>4, <3>5, <3>6
  <2> QED BY <2>2, <2>3
<1>6. PICK x \in Nat :
        /\ Min(I) = x /\ x <= a /\ x - 1 \notin F /\ Cubiertos(izq) = x .. a - 1
        /\ \A b \in Int : x <= b /\ b < a => b \in F
        /\ \A h \in izq : h.base = x
  BY <1>4
<1>7. PICK y \in Nat :
        /\ a + n <= y /\ y <= Limite /\ y \notin F /\ Cubiertos(der) = a + n .. y - 1
        /\ \A b \in Int : a + n <= b /\ b < y => b \in F
        /\ \A h \in der : h.base + h.tam = y
  BY <1>5
<1>8. n + Suma(todos) = y - x
  <2>1. IsFiniteSet(todos) /\ Tramos(todos) /\ Disjuntos(todos)
    BY CorridasTramos, FS_Subset DEF Tramos, Disjuntos
  <2>2. Cubiertos(todos) = (x .. a - 1) \cup (a + n .. y - 1)
    <3>1. Cubiertos(todos) = Cubiertos(izq) \cup Cubiertos(der)
      BY DEF Cubiertos
    <3> QED BY <3>1, <1>6, <1>7
  <2>3. Suma(todos) = Cardinality(Cubiertos(todos))
    <3> HIDE DEF todos
    <3> QED BY <2>1, SumaDisjuntos
  <2> HIDE DEF todos, izq, der, I
  <2>4. Cardinality((x .. a - 1) \cup (a + n .. y - 1)) = (a - x) + (y - (a + n))
    <3> DEFINE A == x .. a - 1
               B == a + n .. y - 1
    <3>1. IsFiniteSet(A) /\ Cardinality(A) = a - x
      BY <1>6, FS_Interval, a - 1 \in Int
    <3>2. IsFiniteSet(B) /\ Cardinality(B) = y - (a + n)
      BY <1>7, FS_Interval, a + n \in Int, y - 1 \in Int
    <3>3. Cardinality(A \cap B) = 0
      <4>1. A \cap B = {}
        BY <1>6, <1>7
      <4> HIDE DEF A, B
      <4> QED BY <4>1, FS_EmptySet
    <3>6. a - x \in Int /\ y - (a + n) \in Int
      BY <1>6, <1>7
    <3> HIDE DEF A, B
    <3>4. Cardinality(A \cup B) = Cardinality(A) + Cardinality(B) - Cardinality(A \cap B)
      BY <3>1, <3>2, Zenon, FS_Union
    <3>5. Cardinality(A \cup B) = (a - x) + (y - (a + n))
      BY <3>1, <3>2, <3>3, <3>4, <3>6
    <3> QED BY <3>5 DEF A, B
  <2> QED BY <2>2, <2>3, <2>4
<1> DEFINE N == [base |-> x, tam |-> y - x]
<1>9. ConHueco(Corridas(F), a, n) = (Corridas(F) \ todos) \cup {N}
  BY <1>6, <1>8 DEF ConHueco
<1>10. N \in Corridas(G) /\ N.base = x /\ N.base + N.tam = y
  <2>1. N \in Huecos /\ N.base = x /\ N.base + N.tam = y
    BY <1>6, <1>7, HuecosFacts, y - x \in Nat \ {0}
  <2>2. x - 1 \notin G /\ y \notin G /\ \A b \in Nat : x <= b /\ b < y => b \in G
    BY <1>6, <1>7
  <2> HIDE DEF N, G
  <2> QED BY <2>1, <2>2, EsCorrida
<1>11. ASSUME NEW h \in Corridas(F), h \notin todos PROVE h \in Corridas(G)
  <2>1. h.base + h.tam # a /\ h.base # a + n
    BY <1>11
  <2>2. h \in Huecos /\ h.base \in Nat /\ h.tam \in Nat \ {0}
        /\ (\A b \in Int : h.base <= b /\ b < h.base + h.tam => b \in F)
        /\ h.base - 1 \notin F /\ h.base + h.tam \notin F
    BY <1>1, CorridaFacts
  <2>3. h.base - 1 \notin G
    BY <2>1, <2>2
  <2>4. h.base + h.tam \notin G
    BY <2>1, <2>2
  <2> QED BY <2>2, <2>3, <2>4, EsCorrida
<1>12. ASSUME NEW h \in Corridas(G), h # N PROVE h \in Corridas(F) \ todos
  <2>1. h \in Huecos /\ h.base \in Nat /\ h.tam \in Nat \ {0}
        /\ (\A b \in Int : h.base <= b /\ b < h.base + h.tam => b \in G)
        /\ h.base - 1 \notin G /\ h.base + h.tam \notin G
    BY CorridaFacts DEF Tramo
  <2>2. h.base + h.tam < x \/ y < h.base
    <3> HIDE DEF N, G
    <3> QED BY <1>10, <1>12, CorridasSeparadas
  <2>3. h \in Corridas(F)
    <3>1. F \subseteq G /\ \A b \in G : b \in F \/ (a <= b /\ b < a + n)
      OBVIOUS
    <3> HIDE DEF G, todos, N, izq, der, I
    <3>2. x <= a /\ a + n <= y
      BY <1>6, <1>7
    <3>3. \A b \in Int : h.base <= b /\ b < h.base + h.tam => b \in F
      BY <2>1, <2>2, <3>1, <3>2
    <3>4. h.base - 1 \notin F /\ h.base + h.tam \notin F
      BY <2>1, <3>1
    <3> QED BY <2>1, <3>3, <3>4, EsCorrida
  <2>4. x <= a /\ a + n <= y
    BY <1>6, <1>7
  <2>5. h \notin todos
    BY <2>1, <2>2, <2>4
  <2> QED BY <2>3, <2>5
<1> HIDE DEF N, todos, G
<1>13. (Corridas(F) \ todos) \cup {N} = Corridas(G)
  BY <1>10, <1>11, <1>12
<1> QED BY <1>9, <1>13 DEF G

(* A segment takes the start of a hole.                                     *)
LEMMA SinOcupadoCorridas ==
  ASSUME NEW F, F \subseteq 0 .. Limite - 1, huecos = Corridas(F),
         NEW h \in huecos, NEW n \in Nat \ {0}, n <= h.tam
  PROVE  SinOcupado(h, n) = Corridas(F \ (h.base .. h.base + n - 1))
<1> DEFINE G == F \ (h.base .. h.base + n - 1)
           N == [base |-> h.base + n, tam |-> h.tam - n]
           nuevos == IF h.tam = n THEN {} ELSE {N}
<1>1. h \in Huecos /\ h.base \in Nat /\ h.tam \in Nat \ {0} 
      /\ (\A b \in Int : h.base <= b /\ b < h.base + h.tam => b \in F)
      /\ h.base - 1 \notin F /\ h.base + h.tam \notin F
  BY CorridaFacts, LimiteNat DEF Tramo
<1>2. ASSUME h.tam # n
      PROVE  N \in Corridas(G) /\ N.base = h.base + n /\ N.base + N.tam = h.base + h.tam
  <2>0. h.base + h.tam - 1 \in F /\ h.base + n \in Nat /\ h.tam - n \in Nat \ {0}
    BY <1>1, <1>2
  <2>1. N \in Huecos
    BY <2>0, <1>1, HuecosFacts, LimiteNat
  <2>2. N.base = h.base + n /\ N.base + N.tam = h.base + h.tam
    BY <1>1
  <2>3. N.base - 1 \notin G /\ N.base + N.tam \notin G
        /\ \A b \in Nat : N.base <= b /\ b < N.base + N.tam => b \in G
    BY <1>1, <2>2
  <2> HIDE DEF N, G
  <2> QED BY <2>1, <2>2, <2>3, EsCorrida
<1>3. ASSUME NEW g \in huecos, g # h PROVE g \in Corridas(G)
  <2>1. g \in Huecos /\ g.base \in Nat /\ g.tam \in Nat \ {0}
        /\ (\A b \in Int : g.base <= b /\ b < g.base + g.tam => b \in F)
        /\ g.base - 1 \notin F /\ g.base + g.tam \notin F
    BY CorridaFacts DEF Tramo
  <2>2. g.base + g.tam < h.base \/ h.base + h.tam < g.base
    BY <1>3, CorridasSeparadas
  <2>3. g.base - 1 \notin G /\ g.base + g.tam \notin G
        /\ \A b \in Nat : g.base <= b /\ b < g.base + g.tam => b \in G
    BY <1>1, <2>1, <2>2
  <2> HIDE DEF G
  <2> QED BY <2>1, <2>3, EsCorrida
<1>4. ASSUME NEW g \in Corridas(G), g \notin nuevos PROVE g \in huecos /\ g # h
  <2>1. g \in Huecos /\ g.base \in Nat /\ g.tam \in Nat \ {0}
        /\ (\A b \in Int : g.base <= b /\ b < g.base + g.tam => b \in G)
        /\ g.base - 1 \notin G /\ g.base + g.tam \notin G
    BY CorridaFacts DEF Tramo
  <2>2. g.base + g.tam <= h.base \/ h.base + n <= g.base
    BY <1>1, <2>1
  <2>3. g.base + g.tam < h.base \/ h.base + h.tam < g.base
    <3>1. CASE h.tam = n
      BY <1>1, <2>1, <2>2, <3>1
    <3>2. CASE h.tam # n
      <4>1. g # N
        BY <1>4, <3>2
      <4>2. g.base + g.tam < h.base + n \/ h.base + h.tam < g.base
        <5> HIDE DEF N, G
        <5> QED BY <1>2, <3>2, <4>1, CorridasSeparadas
      <4>3. g.base + g.tam # h.base
        BY <1>1, <2>1
      <4> QED BY <1>1, <2>1, <2>2, <4>2, <4>3
    <3> QED BY <3>1, <3>2
  <2>4. g \in Corridas(F)
    BY <1>1, <2>1, <2>3, EsCorrida
  <2> QED BY <2>1, <2>3, <2>4, <1>1
<1>5. SinOcupado(h, n) = (huecos \ {h}) \cup nuevos
  BY DEF SinOcupado
<1> HIDE DEF N, G
<1>6. nuevos \subseteq Corridas(G)
  BY <1>2
<1> HIDE DEF nuevos
<1>7. (huecos \ {h}) \cup nuevos = Corridas(G)
  BY <1>3, <1>4, <1>6
<1> QED BY <1>5, <1>7 DEF G

(* The preferred hole exists.                                               *)
LEMMA ElegidoFacts ==
  ASSUME huecos \subseteq Huecos, NEW n \in Nat, Alcanzan(n) # {}
  PROVE  Elegido(n) \in huecos /\ Elegido(n).tam >= n
<1> DEFINE A == Alcanzan(n)
           Clave(t) == IF ALLOCATION_STRATEGY = "BEST" THEN t ELSE Limite - t
           I == {Clave(h.tam) : h \in A}
           B == {h \in A : Clave(h.tam) = Min(I)}
           J == {h.base : h \in B}
<1>1. \A h \in A : h \in Huecos /\ h.base \in Nat /\ h.tam \in Nat /\ h.tam <= Limite /\ h.tam >= n
  BY HuecosFacts DEF Alcanzan, Tramo
<1>2. \A h \in A : Clave(h.tam) \in Nat
  BY <1>1, LimiteNat
<1> HIDE DEF A, Clave
<1>3. Min(I) \in I /\ \A k \in I : Min(I) <= k
  <2>1. I \subseteq Nat /\ I # {}
    BY <1>2 DEF A
  <2> HIDE DEF I
  <2> QED BY <2>1, MinProperties
<1>4. Min(J) \in J /\ \A k \in J : Min(J) <= k
  <2>1. J \subseteq Nat /\ J # {}
    BY <1>1, <1>3
  <2> HIDE DEF J
  <2> QED BY <2>1, MinProperties
<1>5. PICK h \in B : h.base = Min(J)
  BY <1>4
<1>6. ASSUME NEW g \in A \ {h} PROVE Prefiere(h, g) \/ (h.tam = g.tam /\ h.base < g.base)
  <2>1. Clave(h.tam) <= Clave(g.tam)
    BY <1>3, <1>5
  <2>2. CASE h.tam = g.tam
    <3>1. h.base <= g.base
      BY <1>4, <1>5, <2>2
    <3>2. h.base # g.base
      BY <1>1, <2>2, HuecosFacts
    <3> QED BY <1>1, <2>2, <3>1, <3>2
  <2>3. CASE h.tam # g.tam
    BY <1>1, <2>1, <2>3, LimiteNat DEF Prefiere, Clave
  <2> QED BY <2>2, <2>3
<1> HIDE DEF B, I, J
<1>7. h \in A
  BY <1>5 DEF B
<1>8. Elegido(n) \in Alcanzan(n)
  BY <1>6, <1>7 DEF Elegido, A
<1> QED BY <1>8 DEF Alcanzan

-----------------------------------------------------------------------------
(* The free bytes when S are the segments.                                  *)
Libre(S, tope) == (0 .. tope - 1) \ Cubiertos(S)
BienPuestos(S, tope) ==
  /\ IsFiniteSet(S) /\ Tramos(S) /\ Disjuntos(S)
  /\ \A s \in S : s.base + s.tam <= tope
  /\ tope \in Nat /\ tope <= Limite

LEMMA CubiertosFacts ==
  ASSUME NEW S, Tramos(S)
  PROVE  \A b : b \in Cubiertos(S) <=>
           \E s \in S : b \in Nat /\ s.base <= b /\ b < s.base + s.tam
BY RangoFacts DEF Cubiertos, Tramos

LEMMA LibreDentro ==
  ASSUME NEW S, NEW tope, tope \in Nat, tope <= Limite
  PROVE  Libre(S, tope) \subseteq 0 .. Limite - 1
BY LimiteNat DEF Libre

(* A segment is released.                                                   *)
LEMMA LiberadoLibre ==
  ASSUME NEW S, NEW tope, BienPuestos(S, tope), NEW x \in S
  PROVE  /\ ConHueco(Corridas(Libre(S, tope)), x.base, x.tam) = Corridas(Libre(S \ {x}, tope))
         /\ BienPuestos(S \ {x}, tope)
<1> DEFINE F == Libre(S, tope)
<1>1. x.base \in Nat /\ x.tam \in Nat \ {0} /\ x.base + x.tam <= tope /\ tope \in Nat /\ tope <= Limite
  BY DEF BienPuestos, Tramos, Tramo
<1>2. BienPuestos(S \ {x}, tope)
  BY FS_RemoveElement DEF BienPuestos, Tramos, Disjuntos
<1>3. \A b : b \in Cubiertos(S) <=> \E s \in S : b \in Nat /\ s.base <= b /\ b < s.base + s.tam
  BY CubiertosFacts DEF BienPuestos
<1>4. \A b : b \in Cubiertos(S \ {x}) <=>
                \E s \in S \ {x} : b \in Nat /\ s.base <= b /\ b < s.base + s.tam
  BY <1>2, CubiertosFacts DEF BienPuestos
<1>5. \A b \in Nat : x.base <= b /\ b < x.base + x.tam => b \notin Cubiertos(S \ {x})
  <2>1. ASSUME NEW s \in S \ {x}
        PROVE  s.base \in Nat /\ s.tam \in Nat /\ (s.base + s.tam <= x.base \/ x.base + x.tam <= s.base)
    BY DEF BienPuestos, Disjuntos, Antes, Tramos, Tramo
  <2> SUFFICES ASSUME NEW b \in Nat, x.base <= b, b < x.base + x.tam, b \in Cubiertos(S \ {x})
               PROVE  FALSE
    OBVIOUS
  <2>2. PICK s \in S \ {x} : s.base <= b /\ b < s.base + s.tam
    BY <1>4
  <2> QED BY <1>1, <2>1, <2>2
<1>6. Libre(S \ {x}, tope) = F \cup (x.base .. x.base + x.tam - 1)
  <2>1. ASSUME NEW b \in Nat
        PROVE  b \in Cubiertos(S) <=>
                 b \in Cubiertos(S \ {x}) \/ (x.base <= b /\ b < x.base + x.tam)
    BY <1>3, <1>4
  <2>2. x.base .. x.base + x.tam - 1 \subseteq 0 .. tope - 1
    BY <1>1
  <2>3. ASSUME NEW b
        PROVE  b \in Libre(S \ {x}, tope) <=> b \in F \/ b \in x.base .. x.base + x.tam - 1
    <3>1. CASE b \in Nat
      <4>1. b \in Cubiertos(S) <=> b \in Cubiertos(S \ {x}) \/ (x.base <= b /\ b < x.base + x.tam)
        BY <2>1, <3>1
      <4>2. x.base <= b /\ b < x.base + x.tam => b \notin Cubiertos(S \ {x})
        BY <1>5, <3>1
      <4> QED BY <1>1, <4>1, <4>2, <3>1 DEF Libre
    <3>2. CASE b \notin Nat
      BY <1>1, <2>2, <3>2 DEF Libre
    <3> QED BY <3>1, <3>2
  <2> HIDE DEF F
  <2> QED BY <2>3
<1>7. \A b \in Int : x.base <= b /\ b < x.base + x.tam => b \notin F
  BY <1>1, <1>3 DEF Libre
<1>8. F \subseteq 0 .. Limite - 1
  BY <1>1, LibreDentro
<1>9. x.base + x.tam <= Limite
  BY <1>1, LimiteNat
<1> HIDE DEF F
<1>10. ConHueco(Corridas(F), x.base, x.tam) = Corridas(F \cup (x.base .. x.base + x.tam - 1))
  BY <1>1, <1>7, <1>8, <1>9, ConHuecoCorridas
<1> QED BY <1>2, <1>6, <1>10 DEF F

(* A segment takes a hole.                                                  *)
LEMMA OcupadoLibre ==
  ASSUME NEW S, NEW tope, BienPuestos(S, tope), huecos = Corridas(Libre(S, tope)),
         NEW h \in huecos, NEW s, s.base = h.base, s.tam \in Nat \ {0}, s.tam <= h.tam
  PROVE  /\ SinOcupado(h, s.tam) = Corridas(Libre(S \cup {s}, tope))
         /\ BienPuestos(S \cup {s}, tope) /\ s \notin S
<1> DEFINE F == Libre(S, tope)
<1>0. \A b : b \in Cubiertos(S) <=> \E z \in S : b \in Nat /\ z.base <= b /\ b < z.base + z.tam
  BY CubiertosFacts DEF BienPuestos
<1>1. h.base \in Nat /\ h.tam \in Nat \ {0} /\ \A b \in Int : h.base <= b /\ b < h.base + h.tam => b \in F
  BY CorridaFacts DEF Tramo
<1>2. tope \in Nat /\ h.base + h.tam <= tope
  <2>1. tope \in Nat /\ h.base + h.tam - 1 \in F
    BY <1>1 DEF BienPuestos
  <2> QED BY <2>1, <1>1 DEF Libre
<1>3. s.base \in Nat /\ s.base + s.tam <= tope /\ Tramo(s)
  BY <1>1, <1>2 DEF Tramo
<1>4. ASSUME NEW z \in S PROVE Antes(s, z) \/ Antes(z, s)
  <2>1. z.base \in Nat /\ z.tam \in Nat \ {0} /\ z.base + z.tam <= tope
    BY DEF BienPuestos, Tramos, Tramo
  <2>2. \A b \in Nat : z.base <= b /\ b < z.base + z.tam => b \notin F
    BY <1>0 DEF Libre
  <2>3. \A b \in Nat : s.base <= b /\ b < s.base + s.tam => b \in F
    BY <1>1, <1>3
  <2> HIDE DEF F
  <2> QED BY <1>3, <2>1, <2>2, <2>3 DEF Antes
<1>5. s \notin S
  <2> SUFFICES ASSUME s \in S PROVE FALSE
    OBVIOUS
  <2> QED BY <1>3, <1>4 DEF Antes
<1>6. BienPuestos(S \cup {s}, tope)
  <2>1. IsFiniteSet(S \cup {s}) /\ Tramos(S \cup {s})
    BY <1>3, FS_AddElement DEF BienPuestos, Tramos
  <2>2. Disjuntos(S \cup {s})
    BY <1>4 DEF BienPuestos, Disjuntos
  <2> QED BY <2>1, <2>2, <1>3 DEF BienPuestos
<1>7. \A b : b \in Cubiertos(S \cup {s}) <=>
                \E z \in S \cup {s} : b \in Nat /\ z.base <= b /\ b < z.base + z.tam
  BY <1>6, CubiertosFacts DEF BienPuestos
<1>8. F \ (h.base .. h.base + s.tam - 1) = Libre(S \cup {s}, tope)
  <2>1. ASSUME NEW b \in Nat
        PROVE  b \in Cubiertos(S \cup {s}) <=>
                 b \in Cubiertos(S) \/ (h.base <= b /\ b < h.base + s.tam)
    BY <1>0, <1>7
  <2>2. h.base .. h.base + s.tam - 1 \subseteq Nat
    BY <1>1
  <2>3. ASSUME NEW b
        PROVE  b \in Libre(S \cup {s}, tope) <=> b \in F /\ b \notin h.base .. h.base + s.tam - 1
    <3>1. CASE b \in Nat
      <4>1. b \in Cubiertos(S \cup {s}) <=> b \in Cubiertos(S) \/ (h.base <= b /\ b < h.base + s.tam)
        BY <2>1, <3>1
      <4>2. b \in h.base .. h.base + s.tam - 1 <=> h.base <= b /\ b < h.base + s.tam
        BY <1>1, <3>1
      <4> QED BY <1>2, <4>1, <4>2, <3>1 DEF Libre
    <3>2. CASE b \notin Nat
      BY <1>2, <2>2, <3>2 DEF Libre
    <3> QED BY <3>1, <3>2
  <2> HIDE DEF F
  <2> QED BY <2>3
<1>10. F \subseteq 0 .. Limite - 1
  BY LibreDentro DEF BienPuestos
<1> HIDE DEF F
<1>9. SinOcupado(h, s.tam) = Corridas(F \ (h.base .. h.base + s.tam - 1))
  BY <1>10, SinOcupadoCorridas DEF F
<1> QED BY <1>5, <1>6, <1>8, <1>9

(* A stick connects.                                                        *)
LEMMA ConectadoLibre ==
  ASSUME NEW S, NEW tope, BienPuestos(S, tope), huecos = Corridas(Libre(S, tope)),
         NEW n \in Nat \ {0}, tope + n <= Limite
  PROVE  /\ ConHueco(huecos, tope, n) = Corridas(Libre(S, tope + n))
         /\ BienPuestos(S, tope + n)
<1> DEFINE F == Libre(S, tope)
<1>1. tope \in Nat /\ \A b : b \in Cubiertos(S) => b \in Nat /\ b < tope
  <2>1. \A b : b \in Cubiertos(S) => \E s \in S : b \in Nat /\ s.base <= b /\ b < s.base + s.tam
    BY CubiertosFacts DEF BienPuestos
  <2> QED BY <2>1 DEF BienPuestos, Tramos, Tramo
<1>2. Libre(S, tope + n) = F \cup (tope .. tope + n - 1)
  BY <1>1 DEF Libre
<1>3. F \subseteq 0 .. Limite - 1 /\ \A b \in Int : tope <= b /\ b < tope + n => b \notin F
  BY <1>1, LimiteNat DEF Libre
<1>4. BienPuestos(S, tope + n)
  BY <1>1 DEF BienPuestos, Tramos, Tramo
<1> HIDE DEF F
<1>5. ConHueco(Corridas(F), tope, n) = Corridas(F \cup (tope .. tope + n - 1))
  BY <1>1, <1>3, ConHuecoCorridas
<1> QED BY <1>2, <1>4, <1>5 DEF F

(* Bytes that are free are the holes' sizes, added up.                      *)
LEMMA SumaDeHuecos ==
  ASSUME NEW S, NEW tope, BienPuestos(S, tope), huecos = Corridas(Libre(S, tope))
  PROVE  /\ Suma(huecos) = Cardinality(Libre(S, tope))
         /\ IsFiniteSet(Libre(S, tope)) /\ Cardinality(Libre(S, tope)) \in Nat
<1>1. Libre(S, tope) \subseteq 0 .. Limite - 1
  BY LibreDentro DEF BienPuestos
<1>2. Cubiertos(huecos) = Libre(S, tope)
  BY <1>1, CorridasCubren
<1>3. Suma(huecos) = Cardinality(Cubiertos(huecos))
  BY CorridasTramos, SumaDisjuntos
<1>4. IsFiniteSet(0 .. Limite - 1)
  BY LimiteNat, FS_Interval
<1>5. IsFiniteSet(Libre(S, tope))
  BY <1>1, <1>4, FS_Subset
<1> QED BY <1>2, <1>3, <1>5, FS_CardinalityType

(* Where a compaction takes the segments.                                   *)
LEMMA NuevasBases ==
  ASSUME NEW tope, BienPuestos(EnTablas, tope), NEW s \in EnTablas
  PROVE  /\ NuevaBase(s) \in Nat /\ s.tam \in Nat \ {0}
         /\ NuevaBase(s) + s.tam <= Cardinality(Cubiertos(EnTablas))
         /\ \A t \in EnTablas : s.base < t.base => NuevaBase(s) + s.tam <= NuevaBase(t)
<1> DEFINE Bajo(t) == {x \in EnTablas : x.base < t.base}
           B == Bajo(s) \cup {s}
<1>1. \A X \in SUBSET EnTablas : BienPuestos(X, tope)
  BY FS_Subset DEF BienPuestos, Tramos, Disjuntos
<1>2. \A X \in SUBSET EnTablas :
        /\ Suma(X) = Cardinality(Cubiertos(X))
        /\ IsFiniteSet(Cubiertos(X)) /\ Cardinality(Cubiertos(X)) \in Nat
  BY <1>1, SumaDisjuntos, CubiertosFinito DEF BienPuestos
<1>3. \A t \in EnTablas : NuevaBase(t) = Cardinality(Cubiertos(Bajo(t)))
  BY <1>2 DEF NuevaBase
<1>4. s.base \in Nat /\ s.tam \in Nat \ {0}
  BY DEF BienPuestos, Tramos, Tramo
<1>5. B \in SUBSET EnTablas /\ s \in B /\ B \ {s} = Bajo(s)
  BY <1>4
<1>6. Cardinality(Cubiertos(B)) = NuevaBase(s) + s.tam /\ NuevaBase(s) \in Nat
  <2> HIDE DEF B, Bajo
  <2>1. Cardinality(Cubiertos(B)) = s.tam + Cardinality(Cubiertos(B \ {s}))
    BY <1>1, <1>5, CubiertosMas DEF BienPuestos
  <2>2. Bajo(s) \in SUBSET EnTablas
    BY DEF Bajo
  <2>3. Cardinality(Cubiertos(Bajo(s))) \in Nat
    BY <1>2, <2>2
  <2> QED BY <1>3, <1>4, <1>5, <2>1, <2>3
<1>7. ASSUME NEW X \in SUBSET EnTablas, B \subseteq X
      PROVE  NuevaBase(s) + s.tam <= Cardinality(Cubiertos(X))
  <2>1. Cubiertos(B) \in SUBSET Cubiertos(X) /\ IsFiniteSet(Cubiertos(X))
    BY <1>2, <1>7 DEF Cubiertos
  <2> HIDE DEF B
  <2> QED BY <1>6, <2>1, FS_Subset
<1>8. ASSUME NEW t \in EnTablas, s.base < t.base PROVE B \subseteq Bajo(t)
  <2>1. t.base \in Nat /\ \A x \in EnTablas : x.base \in Nat
    BY DEF BienPuestos, Tramos, Tramo
  <2> QED BY <1>4, <1>8, <2>1
<1>9. \A t \in EnTablas : Bajo(t) \in SUBSET EnTablas
  OBVIOUS
<1> HIDE DEF Bajo, B
<1> QED BY <1>3, <1>4, <1>5, <1>6, <1>7, <1>8, <1>9

(* After a compaction the segments take the first bytes and one hole the     *)
(* rest, which are as many as before.                                       *)
LEMMA Compactado ==
  ASSUME NEW tope, tope = Tope, BienPuestos(EnTablas, tope), EnTablas \subseteq Segmentos
  PROVE  LET E == {Mudado(s) : s \in EnTablas}
         IN  /\ BienPuestos(E, tope) /\ HuecoFinal = Corridas(Libre(E, tope))
             /\ \A s, t \in EnTablas : Mudado(s) = Mudado(t) => s = t
             /\ \A n \in Nat \ {0} : n <= Cardinality(Libre(EnTablas, tope)) =>
                  \E h \in HuecoFinal : h.tam >= n
<1> DEFINE E == {Mudado(s) : s \in EnTablas}
           C == Cubiertos(EnTablas)
           ocupado == Cardinality(C)
<1>1. IsFiniteSet(EnTablas) /\ Tramos(EnTablas) /\ Disjuntos(EnTablas) /\ tope \in Nat /\ tope <= Limite
  BY DEF BienPuestos
<1>2. Suma(EnTablas) = ocupado /\ IsFiniteSet(C) /\ ocupado \in Nat
  BY <1>1, SumaDisjuntos, CubiertosFinito
<1>3. C \subseteq 0 .. tope - 1
  BY CubiertosFacts DEF BienPuestos, Tramos, Tramo
<1>4. IsFiniteSet(0 .. tope - 1) /\ Cardinality(0 .. tope - 1) = tope
  BY <1>1, FS_Interval
<1>5. ocupado <= tope
  BY <1>3, <1>4, FS_Subset
<1>6. \A s \in EnTablas : /\ Mudado(s).base = NuevaBase(s) /\ Mudado(s).tam = s.tam
                          /\ s.base \in Nat /\ s.tam \in Nat \ {0}
  BY <1>1 DEF Segmentos, Mudado, Tramos, Tramo
<1>7. \A s \in EnTablas :
        /\ NuevaBase(s) \in Nat /\ NuevaBase(s) + s.tam <= ocupado
        /\ \A t \in EnTablas : s.base < t.base => NuevaBase(s) + s.tam <= NuevaBase(t)
  BY NuevasBases
<1>8. \A s, t \in EnTablas : s # t => s.base < t.base \/ t.base < s.base
  BY <1>1, <1>6 DEF Disjuntos, Antes
<1> HIDE DEF ocupado, C
<1>9. \A s, t \in EnTablas : s # t =>
        Antes(Mudado(s), Mudado(t)) \/ Antes(Mudado(t), Mudado(s))
  BY <1>6, <1>7, <1>8 DEF Antes
<1>10. \A s, t \in EnTablas : Mudado(s) = Mudado(t) => s = t
  BY <1>6, <1>7, <1>8
<1>11. IsFiniteSet(E)
  <2> DEFINE f == [s \in EnTablas |-> Mudado(s)]
  <2>1. f \in Surjection(EnTablas, E)
    BY DEF Surjection
  <2> HIDE DEF f, E
  <2> QED BY <1>1, <2>1, FS_Surjection
<1>12. BienPuestos(E, ocupado)
  <2>1. Tramos(E) /\ \A s \in E : s.base + s.tam <= ocupado
    BY <1>6, <1>7 DEF Tramos, Tramo
  <2>2. Disjuntos(E)
    BY <1>9 DEF Disjuntos
  <2> HIDE DEF E
  <2> QED BY <1>1, <1>2, <1>5, <1>11, <2>1, <2>2, LimiteNat DEF BienPuestos
<1>13. BienPuestos(E, tope)
  <2> HIDE DEF E
  <2> QED BY <1>1, <1>2, <1>5, <1>12 DEF BienPuestos, Tramos, Tramo
<1>14. Cubiertos(E) = 0 .. ocupado - 1
  <2> DEFINE O == 0 .. ocupado - 1
             De(b) == CHOOSE s \in EnTablas : b \in Rango(s)
             f == [b \in C |-> b - De(b).base + NuevaBase(De(b))]
  <2>1. Cubiertos(E) \subseteq O
    <3> HIDE DEF E
    <3> QED BY <1>2, <1>12, CubiertosFacts DEF BienPuestos, Tramos, Tramo
  <2>2. \A b \in C : De(b) \in EnTablas /\ b \in Rango(De(b))
    BY DEF C, Cubiertos
  <2> HIDE DEF De
  <2>3. \A b \in C : /\ De(b) \in EnTablas /\ b \in Nat
                     /\ De(b).base <= b /\ b < De(b).base + De(b).tam
    BY <2>2, <1>1, RangoFacts DEF Tramos
  <2>4. \A b \in C : /\ NuevaBase(De(b)) <= f[b] /\ f[b] < NuevaBase(De(b)) + De(b).tam
                     /\ f[b] \in Nat
    BY <2>3, <1>6, <1>7
  <2>5. \A b \in C : f[b] \in Cubiertos(E)
    <3> SUFFICES ASSUME NEW b \in C PROVE f[b] \in Cubiertos(E)
      OBVIOUS
    <3>1. Mudado(De(b)) \in E
      BY <2>3
    <3>2. \A x : x \in Cubiertos(E) <=> \E s \in E : x \in Nat /\ s.base <= x /\ x < s.base + s.tam
      BY <1>12, CubiertosFacts DEF BienPuestos
    <3> HIDE DEF f, E
    <3> QED BY <3>1, <3>2, <2>3, <2>4, <1>6
  <2>6. \A b, c \in C : f[b] = f[c] => b = c
    <3> SUFFICES ASSUME NEW b \in C, NEW c \in C, f[b] = f[c] PROVE b = c
      OBVIOUS
    <3>1. De(b) = De(c)
      BY <2>3, <2>4, <1>6, <1>7, <1>8
    <3> QED BY <3>1, <2>3, <1>6, <1>7
  <2>7. f \in Injection(C, Cubiertos(E))
    BY <2>5, <2>6 DEF Injection, IsInjective
  <2>8. IsFiniteSet(O) /\ Cardinality(O) = ocupado
    BY <1>2, FS_Interval
  <2> HIDE DEF f, O, E
  <2>9. IsFiniteSet(Cubiertos(E)) /\ Cardinality(Cubiertos(E)) \in Nat
    BY <1>12, CubiertosFinito DEF BienPuestos
  <2>10. ocupado <= Cardinality(Cubiertos(E))
    BY <2>7, <2>9, FS_Injection DEF ocupado
  <2>11. Cardinality(Cubiertos(E)) <= Cardinality(O) /\ (Cardinality(O) = Cardinality(Cubiertos(E)) => O = Cubiertos(E))
    BY <2>1, <2>8, FS_Subset
  <2> QED BY <1>2, <2>8, <2>9, <2>10, <2>11 DEF O
<1>15. Libre(E, tope) = ocupado .. tope - 1
  <2> HIDE DEF E
  <2>1. \A b : b \in Libre(E, tope) <=> b \in ocupado .. tope - 1
    BY <1>1, <1>2, <1>5, <1>14 DEF Libre
  <2> QED BY <2>1
<1>16. HuecoFinal = Corridas(Libre(E, tope))
  <2> DEFINE F == ocupado .. tope - 1
             N == [base |-> ocupado, tam |-> tope - ocupado]
  <2>1. HuecoFinal = IF ocupado < tope THEN {N} ELSE {}
    BY <1>2 DEF HuecoFinal
  <2>2. ASSUME ocupado < tope PROVE N \in Corridas(F) /\ N.base = ocupado /\ N.base + N.tam = tope
    <3>1. N \in Huecos /\ N.base = ocupado /\ N.base + N.tam = tope
      BY <1>1, <1>2, <2>2, HuecosFacts, LimiteNat, tope - ocupado \in Nat \ {0}
    <3>2. ocupado - 1 \notin F /\ tope \notin F /\ \A b \in Nat : ocupado <= b /\ b < tope => b \in F
      BY <1>1, <1>2
    <3> HIDE DEF N, F
    <3> QED BY <3>1, <3>2, EsCorrida
  <2>3. ASSUME NEW h \in Corridas(F) PROVE ocupado < tope /\ h = N
    <3>1. h.base \in Nat /\ h.tam \in Nat \ {0} /\ h.base \in F
      <4> HIDE DEF F, N
      <4>1. Tramo(h) /\ \A b \in Int : h.base <= b /\ b < h.base + h.tam => b \in F
        BY CorridaFacts
      <4> QED BY <4>1 DEF Tramo
    <3>2. ocupado < tope
      BY <1>1, <1>2, <3>1
    <3>3. ocupado <= h.base /\ h.base < tope
      BY <1>1, <1>2, <3>1
    <3> HIDE DEF N, F
    <3> QED BY <1>1, <1>2, <2>2, <3>1, <3>2, <3>3, CorridasSeparadas, CorridaFacts
  <2> HIDE DEF N, F
  <2>4. HuecoFinal = Corridas(F)
    BY <2>1, <2>2, <2>3
  <2> QED BY <1>15, <2>4 DEF F
<1>17. ASSUME NEW n \in Nat \ {0}, n <= Cardinality(Libre(EnTablas, tope))
       PROVE  \E h \in HuecoFinal : h.tam >= n
  <2>1. Cardinality(Libre(EnTablas, tope)) = tope - ocupado
    <3>1. Cardinality((0 .. tope - 1) \ C)
            = Cardinality(0 .. tope - 1) - Cardinality((0 .. tope - 1) \cap C)
      BY <1>4, FS_Difference
    <3>2. (0 .. tope - 1) \cap C = C
      BY <1>3
    <3> QED BY <1>4, <3>1, <3>2 DEF Libre, C, ocupado
  <2>2. ocupado < tope /\ tope - ocupado >= n
    BY <1>1, <1>2, <1>17, <2>1
  <2> QED BY <1>1, <1>2, <2>2 DEF HuecoFinal
<1> HIDE DEF E
<1>18. BienPuestos(E, tope) /\ HuecoFinal = Corridas(Libre(E, tope))
       /\ (\A s, t \in EnTablas : Mudado(s) = Mudado(t) => s = t)
       /\ \A n \in Nat \ {0} : n <= Cardinality(Libre(EnTablas, tope)) =>
                  \E h \in HuecoFinal : h.tam >= n
  BY <1>10, <1>13, <1>16, <1>17
<1> QED BY <1>18 DEF E

-----------------------------------------------------------------------------
(* Folds over the segments of an operation.                                 *)
PasoDeLiberar(f, hs, S) == [T \in SUBSET S |->
  IF T = {} THEN hs ELSE LET x == CHOOSE y \in T : TRUE IN ConHueco(f[T \ {x}], x.base, x.tam)]

LEMMA LiberarDef ==
  ASSUME NEW S, NEW hs, NEW f, f = PasoDeLiberar(f, hs, S)
  PROVE  \E g : /\ g = PasoDeLiberar(g, hs, S)
                /\ FoldSet(LAMBDA s, q : ConHueco(q, s.base, s.tam), hs, S) = g[S]
BY DEF FoldSet, MapThenFoldSet, PasoDeLiberar

LEMMA LiberadosLibre ==
  ASSUME NEW S, NEW tope, BienPuestos(S, tope), NEW X, X \subseteq S, IsFiniteSet(X),
         NEW hs, hs = Corridas(Libre(S, tope))
  PROVE  FoldSet(LAMBDA s, q : ConHueco(q, s.base, s.tam), hs, X)
           = Corridas(Libre(S \ X, tope))
<1> DEFINE f == [T \in SUBSET X |-> Corridas(Libre(S \ T, tope))]
           El(T) == CHOOSE y \in T : TRUE
<1>1. ASSUME NEW T \in SUBSET X
      PROVE  BienPuestos(S \ T, tope)
  BY FS_Difference DEF BienPuestos, Tramos, Disjuntos
<1>2. ASSUME NEW T \in SUBSET X, T # {}
      PROVE  /\ El(T) \in T /\ T \ {El(T)} \in SUBSET X
             /\ f[T] = ConHueco(f[T \ {El(T)}], El(T).base, El(T).tam)
  <2>1. El(T) \in T /\ T \ {El(T)} \in SUBSET X
    BY <1>2
  <2> HIDE DEF El
  <2> DEFINE R == S \ (T \ {El(T)})
  <2>2. BienPuestos(R, tope)
    BY <1>1, <2>1
  <2>3. El(T) \in R /\ R \ {El(T)} = S \ T
    BY <2>1
  <2>4. f[T] = Corridas(Libre(S \ T, tope)) /\ f[T \ {El(T)}] = Corridas(Libre(R, tope))
    BY <2>1
  <2> HIDE DEF R, f
  <2>5. ConHueco(Corridas(Libre(R, tope)), El(T).base, El(T).tam) = Corridas(Libre(R \ {El(T)}, tope))
    BY <2>2, <2>3, LiberadoLibre
  <2> QED BY <2>1, <2>3, <2>4, <2>5
<1>3. f[{}] = hs
  <2>1. S \ {} = S
    OBVIOUS
  <2> QED BY <2>1
<1>4. f = PasoDeLiberar(f, hs, X)
  <2> HIDE DEF f
  <2>1. f = [T \in SUBSET X |-> f[T]]
    BY DEF f
  <2>2. \A T \in SUBSET X :
          f[T] = IF T = {} THEN hs ELSE ConHueco(f[T \ {El(T)}], El(T).base, El(T).tam)
    BY <1>2, <1>3
  <2>3. [T \in SUBSET X |-> f[T]]
          = [T \in SUBSET X |-> IF T = {} THEN hs ELSE ConHueco(f[T \ {El(T)}], El(T).base, El(T).tam)]
    BY <2>2
  <2> QED BY <2>1, <2>3 DEF PasoDeLiberar
<1>5. PICK g : /\ g = PasoDeLiberar(g, hs, X)
               /\ FoldSet(LAMBDA s, q : ConHueco(q, s.base, s.tam), hs, X) = g[X]
  BY <1>4, LiberarDef
<1>6. \A T \in SUBSET X :
        g[T] = IF T = {} THEN hs ELSE ConHueco(g[T \ {El(T)}], El(T).base, El(T).tam)
  BY <1>5 DEF PasoDeLiberar
<1> DEFINE W == {T \in SUBSET X : g[T] # f[T]}
<1>7. W = {}
  <2> SUFFICES ASSUME W # {} PROVE FALSE
    OBVIOUS
  <2>0. W \subseteq SUBSET X
    OBVIOUS
  <2>1. PICK T \in W : \A U \in W : U \subseteq T => U = T
    <3> HIDE DEF W
    <3> QED BY <2>0, SubconjuntoMinimo
  <2>2. CASE T = {}
    BY <2>1, <2>2, <1>3, <1>6
  <2>3. CASE T # {}
    <3> HIDE DEF f, El
    <3>1. El(T) \in T /\ T \ {El(T)} \in SUBSET X
          /\ f[T] = ConHueco(f[T \ {El(T)}], El(T).base, El(T).tam)
      BY <2>1, <2>3, <1>2
    <3>2. g[T] = ConHueco(g[T \ {El(T)}], El(T).base, El(T).tam)
      BY <2>1, <2>3, <1>6
    <3>3. T \ {El(T)} \notin W
      BY <2>1, <3>1
    <3> QED BY <2>1, <3>1, <3>2, <3>3
  <2> QED BY <2>2, <2>3
<1>8. g[X] = f[X]
  BY <1>7
<1> QED BY <1>5, <1>8

PasoDeBloques(f, S) == [T \in SUBSET S |->
  IF T = {} THEN <<>> ELSE LET x == CHOOSE y \in T : TRUE IN f[T \ {x}] \o x.bloques]

LEMMA BloquesDef ==
  ASSUME NEW S, NEW f, f = PasoDeBloques(f, S)
  PROVE  \E g : g = PasoDeBloques(g, S) /\ BloquesDe(S) = g[S]
BY DEF BloquesDe, FoldSet, MapThenFoldSet, PasoDeBloques

(* The blocks of some segments are blocks.                                  *)
LEMMA BloquesTipo ==
  ASSUME NEW S, IsFiniteSet(S), NEW B, \A s \in S : s.bloques \in Seq(B)
  PROVE  BloquesDe(S) \in Seq(B)
<1> DEFINE El == [T \in SUBSET S |-> CHOOSE y \in T : TRUE]
           Op == [s \in S |-> [v \in Seq(B) |-> v \o s.bloques]]
<1>1. \A s \in S : \A v \in Seq(B) : Op[s][v] = v \o s.bloques
  OBVIOUS
<1>2. \A T \in SUBSET S : El[T] = CHOOSE y \in T : TRUE
  OBVIOUS
<1>3. <<>> \in Seq(B) /\ Cierra(Op, S, Seq(B)) /\ Elige(El, S)
  <2>1. <<>> \in Seq(B) /\ \A s \in S : \A v \in Seq(B) : v \o s.bloques \in Seq(B)
    BY EmptySeq, ConcatProperties
  <2> HIDE DEF Op
  <2>2. Cierra(Op, S, Seq(B))
    BY <1>1, <2>1 DEF Cierra
  <2> QED BY <1>2, <2>1, <2>2 DEF Elige
<1> HIDE DEF El, Op
<1>4. PICK f \in [SUBSET S -> Seq(B)] : Pliega(f, S, <<>>, El, Op)
  BY <1>3, PlegadoExiste
<1>5. \A T \in SUBSET S : T # {} => El[T] \in S /\ T \ {El[T]} \in SUBSET S
  BY <1>3 DEF Elige
<1>6. f = PasoDeBloques(f, S)
  <2>1. \A T \in SUBSET S : f[T] = IF T = {} THEN <<>> ELSE f[T \ {El[T]}] \o El[T].bloques
    <3> SUFFICES ASSUME NEW T \in SUBSET S, T # {} PROVE f[T] = f[T \ {El[T]}] \o El[T].bloques
      BY <1>4 DEF Pliega
    <3> DEFINE s == El[T]
               v == f[T \ {El[T]}]
    <3>1. s \in S /\ v \in Seq(B) /\ f[T] = Op[s][v]
      BY <1>4, <1>5 DEF Pliega
    <3> HIDE DEF s, v
    <3>2. f[T] = v \o s.bloques
      BY <1>1, <3>1
    <3> QED BY <3>2 DEF s, v
  <2>2. f = [T \in SUBSET S |-> IF T = {} THEN <<>> ELSE f[T \ {El[T]}] \o El[T].bloques]
    BY <2>1
  <2> QED BY <1>2, <2>2 DEF PasoDeBloques
<1>7. PICK g : g = PasoDeBloques(g, S) /\ BloquesDe(S) = g[S]
  BY <1>6, BloquesDef
<1>8. \A T \in SUBSET S : g[T] = IF T = {} THEN <<>> ELSE g[T \ {El[T]}] \o El[T].bloques
  BY <1>2, <1>7 DEF PasoDeBloques
<1>9. PliegaEn(Seq(B), g, S, <<>>, El, Op)
  BY <1>1, <1>5, <1>8 DEF PliegaEn
<1>10. \A T \in SUBSET S : g[T] \in Seq(B)
  BY <1>3, <1>9, PlegadoTipo
<1> QED BY <1>7, <1>10

LEMMA SinBloques == BloquesDe({}) = <<>>
<1>1. BloquesDe({}) \in Seq({})
  BY BloquesTipo, FS_EmptySet
<1> QED BY <1>1

(***************************************************************************)
(* Who has what                                                             *)
(***************************************************************************)
Tenedores == Procesos \cup {NADIE}
Tiene(p) == IF p = NADIE THEN IF paso = "reanudar" THEN {} ELSE sueltos ELSE EnMemoria(p)
Todos == UNION {Tiene(p) : p \in Tenedores}
DeUno == \A p, q \in Tenedores : p # q => Tiene(p) \cap Tiene(q) = {}
Reparto ==
  /\ DeUno /\ BienPuestos(Todos, Tope)
  /\ huecos = Corridas(Libre(Todos, Tope))
RepartoVivo == Entero => Reparto
HuecosMaximos == \E F \in SUBSET (0 .. Limite - 1) : huecos = Corridas(F)

(* What the tables say of the identifiers, and which process has what.      *)
IdsDistintos(S) == \A s, t \in S : s.id = t.id => s = t
Identificadores ==
  /\ \A p \in Procesos : IdsDistintos(tabla[p]) /\ IdsDistintos(suspendidos[p])
  /\ IdsDistintos(movidos) /\ IdsDistintos(sueltos) /\ IsFiniteSet(movidos)
Suspendidos == \A p \in Procesos : suspendidos[p] # {} => fase[p] = "suspendido" /\ tabla[p] = {}
Registros == [id : Ids, tam : Tamanios, bloques : Seq(1 .. CantBloques)]
TiposSwap ==
  /\ suspendidos \in [Procesos -> SUBSET Registros] /\ movidos \subseteq Registros
  /\ DOMAIN disco = 1 .. CantBloques

(* What the thread of operations knows at each step.                        *)
Pidiendo == {"registrar", "espera_ok", "reintentar"}
Operacion ==
  /\ paso \in {"espera", "a_medias"} <=> pid = NADIE
  /\ paso \in Pidiendo \cup {"liberar"} => fase[pid] = "pide"
  /\ paso \in Pidiendo => pedido \in [id : Ids, tam : Tamanios] /\ pedido.id \notin IdsDe(tabla[pid])
  /\ paso = "registrar" => \A s \in sueltos : s.id = pedido.id
  /\ paso = "liberar" => \A s, t \in sueltos : s = t
  /\ paso = "finalizar" => fase[pid] = "sale" /\ tabla[pid] = {} /\ suspendidos[pid] = {}
  /\ paso \in {"suspender", "reanudar"} => fase[pid] = "suspendido"
  /\ paso = "suspender" => suspendidos[pid] = {}
  /\ paso = "reanudar" => IdsDe(sueltos) \subseteq IdsDe(suspendidos[pid])
  /\ paso \notin {"registrar", "liberar", "finalizar", "reanudar"} => sueltos = {}
  /\ paso # "suspender" => movidos = {}

HayLugar ==
  /\ Entero /\ paso = "espera_ok" => pedido.tam <= Cardinality(Libre(Todos, Tope))
  /\ TrasCompactarHayLugar

Orden == TiposSwap /\ Identificadores /\ Suspendidos /\ Operacion
OrdenVivo == ~pisado => Orden

(***************************************************************************)
(* How a step changes it                                                    *)
(***************************************************************************)
LEMMA TodosDe == \A s : s \in Todos <=> \E p \in Tenedores : s \in Tiene(p)
BY DEF Todos

LEMMA TodosDePrima == \A s : s \in Todos' <=> \E p \in Tenedores : s \in Tiene(p)'
BY DEF Todos

LEMMA MismosTenedores ==
  ASSUME DeUno, \A q \in Tenedores : Tiene(q)' = Tiene(q)
  PROVE  Todos' = Todos /\ DeUno'
<1>1. DeUno'
  BY DEF DeUno
<1> QED BY <1>1, TodosDe, TodosDePrima

LEMMA UnoMenos ==
  ASSUME DeUno, NEW x, \A q \in Tenedores : Tiene(q)' = Tiene(q) \ {x}
  PROVE  Todos' = Todos \ {x} /\ DeUno'
<1>1. DeUno'
  BY DEF DeUno
<1> QED BY <1>1, TodosDe, TodosDePrima

LEMMA UnoMas ==
  ASSUME DeUno, NEW p \in Tenedores, NEW x, x \notin Todos, Tiene(p)' = Tiene(p) \cup {x},
         \A q \in Tenedores \ {p} : Tiene(q)' = Tiene(q)
  PROVE  Todos' = Todos \cup {x} /\ DeUno'
<1>1. \A q \in Tenedores : x \notin Tiene(q)
  BY TodosDe
<1>2. DeUno'
  BY <1>1 DEF DeUno
<1> QED BY <1>2, TodosDe, TodosDePrima

LEMMA PasanDeManos ==
  ASSUME DeUno, NEW p \in Tenedores, NEW r \in Tenedores, p # r, NEW X, X \subseteq Tiene(p),
         Tiene(p)' = Tiene(p) \ X, Tiene(r)' = Tiene(r) \cup X,
         \A q \in Tenedores \ {p, r} : Tiene(q)' = Tiene(q)
  PROVE  Todos' = Todos /\ DeUno'
<1>1. \A q \in Tenedores \ {p} : X \cap Tiene(q) = {}
  BY DEF DeUno
<1>2. DeUno'
  BY <1>1 DEF DeUno
<1>3. ASSUME NEW s PROVE s \in Todos' <=> s \in Todos
  <2>1. s \in Todos <=> \E q \in Tenedores : s \in Tiene(q)
    BY TodosDe
  <2>2. s \in Todos' <=> \E q \in Tenedores : s \in Tiene(q)'
    BY TodosDePrima
  <2>3. ASSUME NEW q \in Tenedores, s \in Tiene(q) PROVE \E z \in Tenedores : s \in Tiene(z)'
    BY <2>3
  <2>4. ASSUME NEW q \in Tenedores, s \in Tiene(q)' PROVE \E z \in Tenedores : s \in Tiene(z)
    BY <2>4
  <2> QED BY <2>1, <2>2, <2>3, <2>4
<1> QED BY <1>2, <1>3

LEMMA RepartoMismo ==
  ASSUME Reparto, UNCHANGED <<huecos, sticks>>, Todos' = Todos, DeUno'
  PROVE  Reparto'
BY DEF Reparto, Tope

LEMMA RepartoMenos ==
  ASSUME Reparto, sticks' = sticks, NEW x \in Todos, Todos' = Todos \ {x}, DeUno',
         huecos' = Liberado(x)
  PROVE  Reparto'
<1>1. /\ ConHueco(Corridas(Libre(Todos, Tope)), x.base, x.tam) = Corridas(Libre(Todos \ {x}, Tope))
      /\ BienPuestos(Todos \ {x}, Tope)
  BY LiberadoLibre DEF Reparto
<1> QED BY <1>1 DEF Reparto, Tope, Liberado

LEMMA RepartoMas ==
  ASSUME Reparto, sticks' = sticks, NEW x, x.tam \in Nat \ {0}, Alcanzan(x.tam) # {},
         x.base = Elegido(x.tam).base, huecos' = SinOcupado(Elegido(x.tam), x.tam)
  PROVE  /\ x \notin Todos /\ x.base \in 0 .. Limite - 1
         /\ Todos' = Todos \cup {x} /\ DeUno' => Reparto'
<1> DEFINE h == Elegido(x.tam)
<1>1. huecos \subseteq Huecos
  BY DEF Reparto, Corridas
<1>2. h \in huecos /\ x.tam <= h.tam
  BY <1>1, ElegidoFacts
<1>3. x.base \in 0 .. Limite - 1
  BY <1>1, <1>2 DEF Huecos, Limite
<1> HIDE DEF h
<1>4. /\ SinOcupado(h, x.tam) = Corridas(Libre(Todos \cup {x}, Tope))
      /\ BienPuestos(Todos \cup {x}, Tope) /\ x \notin Todos
  <2>1. x.base = h.base
    BY DEF h
  <2> QED BY <1>2, <2>1, OcupadoLibre DEF Reparto
<1>5. Tope' = Tope /\ huecos' = SinOcupado(h, x.tam)
  BY DEF Tope, h
<1> QED BY <1>3, <1>4, <1>5 DEF Reparto

LEMMA TieneFacts ==
  /\ NADIE \in Tenedores /\ \A p \in Procesos : p \in Tenedores /\ p # NADIE
  /\ Tiene(NADIE) = IF paso = "reanudar" THEN {} ELSE sueltos
  /\ \A p \in Procesos :
       /\ ~(paso \in {"suspender", "reanudar"} /\ pid = p) => Tiene(p) = tabla[p]
       /\ paso = "suspender" /\ pid = p => Tiene(p) = PorMover
       /\ paso = "reanudar" /\ pid = p => Tiene(p) = tabla[p] \cup sueltos
BY NadieMemoriaAssumption DEF Tenedores, Tiene, EnMemoria

LEMMA TieneFactsPrima ==
  /\ Tiene(NADIE)' = IF paso' = "reanudar" THEN {} ELSE sueltos'
  /\ \A p \in Procesos :
       /\ ~(paso' \in {"suspender", "reanudar"} /\ pid' = p) => Tiene(p)' = tabla'[p]
       /\ paso' = "suspender" /\ pid' = p => Tiene(p)' = PorMover'
       /\ paso' = "reanudar" /\ pid' = p => Tiene(p)' = tabla'[p] \cup sueltos'
BY NadieMemoriaAssumption DEF Tiene, EnMemoria

LEMMA SinMover == movidos = {} => PorMover = tabla[pid]
BY DEF PorMover, IdsDe

(* Nothing that Kernel Memory has changes.                                  *)
LEMMA TieneEstable ==
  ASSUME UNCHANGED <<tabla, paso, pid, sueltos, movidos>>
  PROVE  \A q \in Tenedores : Tiene(q)' = Tiene(q)
BY DEF Tiene, EnMemoria, PorMover

(* The steps that move no segment: the requests that are refused or begin,   *)
(* the suspension and the resumption that end, and what the CPUs do.        *)
LEMMA RepartoAtendido ==
  ASSUME TypeOK, Orden, Reparto, paso # "a_medias",
         \/ DestruirProceso
         \/ \E p \in Procesos :
              CrearProceso(p) \/ MemAllocRechazado(p) \/ MemFreeRechazado(p)
                \/ SuspenderSinSwap(p) \/ SuspenderProceso(p) \/ ReanudarProceso(p)
  PROVE  Reparto'
<1>1. UNCHANGED <<tabla, huecos, sticks, sueltos, movidos>>
  BY DEF CrearProceso, MemAllocRechazado, MemFreeRechazado, SuspenderSinSwap, SuspenderProceso,
     ReanudarProceso, DestruirProceso, memoria, operacion
<1>2. sueltos = {} /\ movidos = {} /\ paso \notin {"suspender", "reanudar"}
  BY DEF CrearProceso, MemAllocRechazado, MemFreeRechazado, SuspenderSinSwap, SuspenderProceso,
     ReanudarProceso, DestruirProceso, Orden, Operacion
<1>3. PorMover' = tabla'[pid']
  BY <1>1, <1>2 DEF PorMover, IdsDe
<1>4. ASSUME NEW q \in Tenedores PROVE Tiene(q)' = Tiene(q)
  <2>1. CASE q = NADIE
    BY <1>1, <1>2, <2>1, TieneFacts, TieneFactsPrima
  <2>2. CASE q \in Procesos
    BY <1>1, <1>2, <1>3, <2>2, TieneFacts, TieneFactsPrima
  <2> QED BY <2>1, <2>2 DEF Tenedores
<1> QED BY <1>1, <1>4, MismosTenedores, RepartoMismo DEF Reparto

(* A table that comes back up to date changes nothing.                      *)
LEMMA TablaQuieta ==
  ASSUME tabla \in [Procesos -> SUBSET Segmentos], ~pisado', NEW p \in Procesos, Cpu(p)
  PROVE  tabla' = tabla
<1>1. ASSUME NEW t, Recibir(p, t) PROVE tabla' = tabla
  BY <1>1 DEF Recibir
<1>2. ActualizarContexto(p) \/ GuardarContexto(p) => tabla' = tabla
  BY <1>1 DEF ActualizarContexto, GuardarContexto
<1> QED BY <1>2 DEF Cpu, PedirContexto, Desalojar, MemWrite, Despertar, memoria

LEMMA SinPisar == Next /\ ~pisado' => ~pisado
BY DEF Next, Reposo, Entero, vars, procesos, cpus

LEMMA RepartoCpu ==
  ASSUME TypeOK, Orden, Reparto, ~pisado',
         ConectarSwap \/ CaerSwap \/ \E p \in Procesos : Cpu(p)
  PROVE  Reparto' /\ Todos' = Todos /\ UNCHANGED <<huecos, sticks, paso, pedido>>
<1>1. UNCHANGED <<huecos, sticks, sueltos, movidos, paso, pid, pedido>>
  BY DEF ConectarSwap, CaerSwap, Cpu, PedirContexto, ActualizarContexto, Desalojar,
     GuardarContexto, Recibir, MemWrite, Despertar,
     memoria, operacion
<1>2. tabla' = tabla
  <2>1. tabla \in [Procesos -> SUBSET Segmentos]
    BY DEF TypeOK
  <2> QED BY <2>1, TablaQuieta DEF ConectarSwap, CaerSwap, memoria
<1> QED BY <1>1, <1>2, TieneEstable, MismosTenedores, RepartoMismo DEF Reparto

LEMMA RepartoTerminarSuspension ==
  ASSUME TypeOK, Orden, Reparto, TerminarSuspension
  PROVE  Reparto'
<1>1. /\ UNCHANGED <<huecos, sticks, sueltos>> /\ paso = "suspender" /\ paso' = "espera"
      /\ pid \in Procesos /\ PorMover = {} /\ tabla' = [tabla EXCEPT ![pid] = {}]
  BY DEF TerminarSuspension, Responder, TypeOK, Orden, Operacion
<1>2. tabla'[pid] = {} /\ \A p \in Procesos \ {pid} : tabla'[p] = tabla[p]
  BY <1>1 DEF TypeOK
<1>3. ASSUME NEW q \in Tenedores PROVE Tiene(q)' = Tiene(q)
  <2>1. CASE q = NADIE
    BY <1>1, <2>1, TieneFacts, TieneFactsPrima
  <2>2. CASE q \in Procesos
    BY <1>1, <1>2, <2>2, TieneFacts, TieneFactsPrima
  <2> QED BY <2>1, <2>2 DEF Tenedores
<1> QED BY <1>1, <1>3, MismosTenedores, RepartoMismo DEF Reparto

LEMMA RepartoTerminarReanudacion ==
  ASSUME TypeOK, Orden, Reparto, TerminarReanudacion
  PROVE  Reparto'
<1>1. /\ UNCHANGED <<huecos, sticks>> /\ paso = "reanudar" /\ paso' = "espera" /\ sueltos' = {}
      /\ pid \in Procesos /\ tabla' = [tabla EXCEPT ![pid] = @ \cup sueltos]
  BY DEF TerminarReanudacion, Responder, TypeOK, Orden, Operacion
<1>2. tabla'[pid] = tabla[pid] \cup sueltos /\ \A p \in Procesos \ {pid} : tabla'[p] = tabla[p]
  BY <1>1 DEF TypeOK
<1>3. ASSUME NEW q \in Tenedores PROVE Tiene(q)' = Tiene(q)
  <2>1. CASE q = NADIE
    BY <1>1, <2>1, TieneFacts, TieneFactsPrima
  <2>2. CASE q \in Procesos
    BY <1>1, <1>2, <2>2, TieneFacts, TieneFactsPrima
  <2> QED BY <2>1, <2>2 DEF Tenedores
<1> QED BY <1>1, <1>3, MismosTenedores, RepartoMismo DEF Reparto

(* A suspension that fails before it has moved anything.                    *)
LEMMA RepartoSuspenderFalla ==
  ASSUME TypeOK, Orden, Reparto, SuspenderFalla, paso' # "a_medias"
  PROVE  Reparto'
<1>1. /\ UNCHANGED <<tabla, huecos, sticks, sueltos>> /\ paso = "suspender" /\ paso' = "espera"
      /\ movidos = {} /\ sueltos = {} /\ pid' = NADIE
  BY DEF SuspenderFalla, memoria, Orden, Operacion
<1>2. ASSUME NEW q \in Tenedores PROVE Tiene(q)' = Tiene(q)
  <2>1. CASE q = NADIE
    BY <1>1, <2>1, TieneFacts, TieneFactsPrima
  <2>2. CASE q \in Procesos
    BY <1>1, <2>2, TieneFacts, TieneFactsPrima, SinMover
  <2> QED BY <2>1, <2>2 DEF Tenedores
<1> QED BY <1>1, <1>2, MismosTenedores, RepartoMismo DEF Reparto

(* Segments that go from a table to the thread, and from the thread to a     *)
(* table.                                                                   *)
LEMMA RepartoRegistrar ==
  ASSUME TypeOK, Orden, Reparto, RegistrarSegmento
  PROVE  Reparto'
<1>1. /\ UNCHANGED <<huecos, sticks>> /\ paso = "registrar" /\ paso' = "espera" /\ sueltos' = {}
      /\ pid \in Procesos /\ tabla' = [tabla EXCEPT ![pid] = @ \cup sueltos]
  BY DEF RegistrarSegmento, Responder, TypeOK, Orden, Operacion
<1>2. tabla'[pid] = tabla[pid] \cup sueltos /\ \A p \in Procesos \ {pid} : tabla'[p] = tabla[p]
  BY <1>1 DEF TypeOK
<1>0. PICK p \in Procesos : p = pid
  BY <1>1
<1>3. /\ Tiene(NADIE) = sueltos /\ Tiene(NADIE)' = {}
      /\ Tiene(p) = tabla[p] /\ Tiene(p)' = tabla[p] \cup sueltos
      /\ \A q \in Tenedores \ {NADIE, p} : Tiene(q)' = Tiene(q)
      /\ NADIE \in Tenedores /\ p \in Tenedores /\ p # NADIE
  BY <1>0, <1>1, <1>2, TieneFacts, TieneFactsPrima DEF Tenedores
<1> DEFINE X == sueltos
<1>5. X \subseteq Tiene(NADIE) /\ Tiene(NADIE)' = Tiene(NADIE) \ X /\ Tiene(p)' = Tiene(p) \cup X
  BY <1>3
<1> HIDE DEF X
<1>4. Todos' = Todos /\ DeUno'
  BY <1>3, <1>5, PasanDeManos DEF Reparto
<1> QED BY <1>1, <1>4, RepartoMismo

LEMMA RepartoTomar ==
  ASSUME TypeOK, Orden, Reparto, NEW p \in Procesos, MemFree(p) \/ FinalizarProceso(p)
  PROVE  Reparto'
<1>1. /\ UNCHANGED <<huecos, sticks>> /\ paso = "espera" /\ paso' \in {"liberar", "finalizar"}
      /\ sueltos = {} /\ sueltos' \subseteq tabla[p]
      /\ tabla' = [tabla EXCEPT ![p] = tabla[p] \ sueltos']
  <2>1. CASE MemFree(p)
    BY <2>1 DEF MemFree, Orden, Operacion
  <2>2. CASE FinalizarProceso(p)
    BY <2>2, tabla[p] \ tabla[p] = {} DEF FinalizarProceso, Orden, Operacion
  <2> QED BY <2>1, <2>2
<1>2. tabla'[p] = tabla[p] \ sueltos' /\ \A q \in Procesos \ {p} : tabla'[q] = tabla[q]
  BY <1>1 DEF TypeOK
<1>3. /\ Tiene(NADIE) = {} /\ Tiene(NADIE)' = {} \cup sueltos'
      /\ Tiene(p) = tabla[p] /\ Tiene(p)' = tabla[p] \ sueltos'
      /\ \A q \in Tenedores \ {NADIE, p} : Tiene(q)' = Tiene(q)
      /\ NADIE \in Tenedores /\ p \in Tenedores /\ p # NADIE
  BY <1>1, <1>2, TieneFacts, TieneFactsPrima DEF Tenedores
<1> DEFINE X == sueltos'
<1>4. X \subseteq Tiene(p) /\ Tiene(p)' = Tiene(p) \ X /\ Tiene(NADIE)' = Tiene(NADIE) \cup X
  BY <1>1, <1>3
<1> HIDE DEF X
<1>5. Todos' = Todos /\ DeUno'
  BY <1>3, <1>4, PasanDeManos DEF Reparto
<1> QED BY <1>1, <1>5, RepartoMismo

(* A segment is released: its bytes join the holes.                         *)
LEMMA RepartoSoltar ==
  ASSUME TypeOK, Orden, Reparto, LiberarSegmento \/ LiberarUno
  PROVE  Reparto'
<1>1. /\ UNCHANGED <<tabla, sticks>> /\ paso \in {"liberar", "finalizar"}
      /\ paso' \in {"espera", "finalizar"}
  BY DEF LiberarSegmento, LiberarUno, Responder, operacion
<1>2. PICK x \in sueltos : huecos' = Liberado(x) /\ sueltos' = sueltos \ {x}
  BY DEF LiberarSegmento, LiberarUno
<1>3. Tiene(NADIE) = sueltos /\ Tiene(NADIE)' = sueltos \ {x}
  BY <1>1, <1>2, TieneFacts, TieneFactsPrima
<1>4. ASSUME NEW q \in Procesos PROVE Tiene(q)' = Tiene(q)
  BY <1>1, TieneFacts, TieneFactsPrima
<1>5. \A q \in Procesos : x \notin Tiene(q)
  BY <1>2, <1>3, TieneFacts DEF Reparto, DeUno
<1>6. \A q \in Tenedores : Tiene(q)' = Tiene(q) \ {x}
  BY <1>3, <1>4, <1>5 DEF Tenedores
<1>7. x \in Todos
  BY <1>2, <1>3, TieneFacts, TodosDe
<1> QED BY <1>1, <1>2, <1>6, <1>7, UnoMenos, RepartoMenos DEF Reparto

(* A segment goes to swap.                                                  *)
LEMMA RepartoSuspender ==
  ASSUME TypeOK, Orden, Reparto, SuspenderSegmento
  PROVE  Reparto'
<1>1. /\ UNCHANGED <<tabla, sticks, sueltos, paso, pid>> /\ paso = "suspender" /\ sueltos = {}
      /\ pid \in Procesos
  BY DEF SuspenderSegmento, TypeOK, Orden, Operacion
<1>2. PICK x \in PorMover :
        /\ huecos' = Liberado(x)
        /\ movidos' = movidos \cup
                        {[id |-> x.id, tam |-> x.tam, bloques |-> Asignados(x.tam)]}
  BY DEF SuspenderSegmento
<1>3. PorMover' = PorMover \ {x}
  <2>1. IdsDe(movidos') = IdsDe(movidos) \cup {x.id}
    <3> DEFINE r == [id |-> x.id, tam |-> x.tam, bloques |-> Asignados(x.tam)]
    <3>1. movidos' = movidos \cup {r} /\ r.id = x.id
      BY <1>2
    <3> HIDE DEF r
    <3>2. \A i : i \in IdsDe(movidos') <=> i \in IdsDe(movidos) \/ i = x.id
      BY <3>1 DEF IdsDe
    <3> QED BY <3>2
  <2>2. \A s \in tabla[pid] : s.id = x.id => s = x
    BY <1>1, <1>2 DEF PorMover, Orden, Identificadores, IdsDistintos
  <2>3. \A s : s \in PorMover <=> s \in tabla[pid] /\ s.id \notin IdsDe(movidos)
    BY DEF PorMover
  <2>4. \A s : s \in PorMover' <=> s \in tabla[pid] /\ s.id \notin IdsDe(movidos')
    BY <1>1 DEF PorMover
  <2> QED BY <1>2, <2>1, <2>2, <2>3, <2>4
<1>4. PICK p \in Procesos : p = pid
  BY <1>1
<1>5. Tiene(p) = PorMover /\ Tiene(p)' = PorMover \ {x}
  BY <1>1, <1>3, <1>4, TieneFacts, TieneFactsPrima
<1>6. \A q \in Tenedores \ {p} : Tiene(q)' = Tiene(q)
  BY <1>1, <1>4, TieneFacts, TieneFactsPrima DEF Tenedores
<1>7. p \in Tenedores /\ \A q \in Tenedores \ {p} : x \notin Tiene(q)
  BY <1>2, <1>5, TieneFacts DEF Reparto, DeUno
<1>8. \A q \in Tenedores : Tiene(q)' = Tiene(q) \ {x}
  BY <1>5, <1>6, <1>7
<1>9. x \in Todos
  BY <1>2, <1>5, <1>7, TodosDe
<1> QED BY <1>1, <1>2, <1>8, <1>9, UnoMenos, RepartoMenos DEF Reparto

(* A segment takes a hole, for a MEM_ALLOC or its retry.                    *)
LEMMA RepartoOcupar ==
  ASSUME TypeOK, Orden, Reparto, paso \in {"espera", "reintentar"}, paso' = "registrar",
         UNCHANGED <<tabla, sticks>>, NEW x, sueltos' = {x}, x.tam \in Nat \ {0},
         Alcanzan(x.tam) # {}, x.base = Elegido(x.tam).base,
         huecos' = SinOcupado(Elegido(x.tam), x.tam)
  PROVE  Reparto' /\ x.base \in 0 .. Limite - 1
<1>1. x \notin Todos /\ x.base \in 0 .. Limite - 1 /\ (Todos' = Todos \cup {x} /\ DeUno' => Reparto')
  BY RepartoMas
<1>2. Tiene(NADIE) = {} /\ Tiene(NADIE)' = {} \cup {x}
  BY TieneFacts, TieneFactsPrima DEF Orden, Operacion
<1>3. \A q \in Tenedores \ {NADIE} : Tiene(q)' = Tiene(q)
  BY TieneFacts, TieneFactsPrima DEF Tenedores
<1>4. Todos' = Todos \cup {x} /\ DeUno'
  BY <1>1, <1>2, <1>3, TieneFacts, UnoMas DEF Reparto
<1> QED BY <1>1, <1>4

(* A segment takes a hole, back from swap.                                  *)
LEMMA RepartoReanudar ==
  ASSUME TypeOK, Orden, Reparto, ReanudarSegmento
  PROVE  Reparto' /\ sueltos' \subseteq Segmentos
<1>1. /\ UNCHANGED <<tabla, sticks, paso, pid>> /\ paso = "reanudar" /\ pid \in Procesos
  BY DEF ReanudarSegmento, TypeOK, Orden, Operacion
<1>2. PICK ss \in PorTraer :
        /\ Alcanzan(ss.tam) # {}
        /\ huecos' = SinOcupado(Elegido(ss.tam), ss.tam)
        /\ sueltos' = sueltos \cup {[id |-> ss.id, base |-> Elegido(ss.tam).base, tam |-> ss.tam]}
  BY Zenon DEF ReanudarSegmento
<1>3. PICK p \in Procesos : p = pid
  BY <1>1
<1>4. ss.id \in Ids /\ ss.tam \in Tamanios /\ ss.tam \in Nat \ {0}
  BY <1>2, <1>3, TamaniosAssumption DEF PorTraer, TypeOK
<1> DEFINE x == [id |-> ss.id, base |-> Elegido(ss.tam).base, tam |-> ss.tam]
<1>5. x.tam = ss.tam /\ x.base = Elegido(x.tam).base /\ x.id = ss.id
  OBVIOUS
<1>6. sueltos' = sueltos \cup {x}
  BY <1>2
<1>7. x \in Segmentos <=> x.base \in 0 .. Limite - 1
  BY <1>4 DEF Segmentos, Limite
<1> HIDE DEF x
<1>8. x \notin Todos /\ x.base \in 0 .. Limite - 1 /\ (Todos' = Todos \cup {x} /\ DeUno' => Reparto')
  BY <1>1, <1>2, <1>4, <1>5, RepartoMas
<1>9. Tiene(p) = tabla[p] \cup sueltos /\ Tiene(p)' = tabla[p] \cup sueltos \cup {x}
  BY <1>1, <1>3, <1>6, TieneFacts, TieneFactsPrima
<1>10. \A q \in Tenedores \ {p} : Tiene(q)' = Tiene(q)
  BY <1>1, <1>3, TieneFacts, TieneFactsPrima DEF Tenedores
<1>11. Todos' = Todos \cup {x} /\ DeUno'
  BY <1>8, <1>9, <1>10, TieneFacts, UnoMas DEF Reparto
<1> QED BY <1>6, <1>7, <1>8, <1>11 DEF TypeOK

LEMMA TopeFacts ==
  ASSUME TypeOK
  PROVE  /\ Tope \in Nat /\ Tope <= Limite
         /\ sticks < MaxSticks => Tope + TamStick <= Limite /\ (sticks + 1) * TamStick = Tope + TamStick
<1>1. sticks \in 0 .. MaxSticks
  BY DEF TypeOK
<1> QED BY <1>1, SticksAssumption DEF Tope, Limite

LEMMA RepartoConectar ==
  ASSUME TypeOK, Reparto, ConectarStick
  PROVE  Reparto' /\ Todos' = Todos /\ Tope' = Tope + TamStick
<1>1. UNCHANGED <<tabla, paso, pid, sueltos, movidos>> /\ sticks < MaxSticks /\ sticks' = sticks + 1
      /\ huecos' = ConHueco(huecos, Tope, TamStick)
  BY DEF ConectarStick, operacion
<1>2. Todos' = Todos /\ DeUno'
  BY <1>1, TieneEstable, MismosTenedores DEF Reparto
<1>3. Tope' = Tope + TamStick /\ Tope + TamStick <= Limite
  BY <1>1, TopeFacts DEF Tope
<1>4. /\ ConHueco(huecos, Tope, TamStick) = Corridas(Libre(Todos, Tope + TamStick))
      /\ BienPuestos(Todos, Tope + TamStick)
  BY <1>3, ConectadoLibre, SticksAssumption DEF Reparto
<1> QED BY <1>1, <1>2, <1>3, <1>4 DEF Reparto

LEMMA RepartoReanudarFalla ==
  ASSUME TypeOK, Orden, Reparto, ReanudarFalla
  PROVE  (paso' # "a_medias" => Reparto') /\ HuecosMaximos'
<1>1. /\ UNCHANGED <<tabla, sticks, movidos>> /\ paso = "reanudar" /\ pid \in Procesos
      /\ huecos' = FoldSet(LAMBDA s, hs : ConHueco(hs, s.base, s.tam), huecos, sueltos)
      /\ paso' = (IF sueltos = {} THEN "espera" ELSE "a_medias") /\ sueltos' = {} /\ pid' = NADIE
  BY DEF ReanudarFalla, TypeOK, Orden, Operacion
<1>2. sueltos \subseteq Todos
  <2>1. PICK p \in Procesos : p = pid
    BY <1>1
  <2>2. sueltos \subseteq Tiene(p) /\ p \in Tenedores
    BY <1>1, <2>1, TieneFacts
  <2> QED BY <2>2, TodosDe
<1>3. BienPuestos(Todos, Tope) /\ huecos = Corridas(Libre(Todos, Tope)) /\ IsFiniteSet(sueltos)
  BY <1>2, FS_Subset DEF Reparto, BienPuestos
<1>4. FoldSet(LAMBDA s, hs : ConHueco(hs, s.base, s.tam), huecos, sueltos)
        = Corridas(Libre(Todos \ sueltos, Tope))
  BY <1>2, <1>3, LiberadosLibre
<1>5. Libre(Todos \ sueltos, Tope) \in SUBSET (0 .. Limite - 1)
  BY TopeFacts, LibreDentro
<1>6. HuecosMaximos'
  <2> DEFINE F == Libre(Todos \ sueltos, Tope)
  <2>1. F \in SUBSET (0 .. Limite - 1) /\ huecos' = Corridas(F)
    BY <1>1, <1>4, <1>5
  <2> HIDE DEF F
  <2>2. \E G \in SUBSET (0 .. Limite - 1) : huecos' = Corridas(G)
    BY <2>1
  <2> QED BY <2>2 DEF HuecosMaximos, Corridas, Limite, Huecos
<1>7. ASSUME sueltos = {} PROVE Reparto'
  <2>1. huecos' = huecos
    <3>1. huecos' = Corridas(Libre(Todos \ sueltos, Tope))
      BY <1>1, <1>4
    <3>2. Todos \ sueltos = Todos
      BY <1>7
    <3> QED BY <1>3, <3>1, <3>2
  <2>0. UNCHANGED <<tabla, sueltos>> /\ sueltos = {} /\ paso = "reanudar" /\ paso' = "espera"
    BY <1>1, <1>7
  <2>2. ASSUME NEW q \in Tenedores PROVE Tiene(q)' = Tiene(q)
    <3>1. CASE q = NADIE
      BY <2>0, <3>1, TieneFacts, TieneFactsPrima
    <3>2. CASE q \in Procesos
      BY <2>0, <3>2, TieneFacts, TieneFactsPrima
    <3> QED BY <3>1, <3>2 DEF Tenedores
  <2> QED BY <1>1, <2>1, <2>2, MismosTenedores, RepartoMismo DEF Reparto
<1> QED BY <1>1, <1>6, <1>7

(* The thread of operations has nothing of its own at a compaction, nor     *)
(* before a retry: every segment is in a table.                             *)
LEMMA TodosEnTablas ==
  ASSUME Orden, paso \in {"espera", "espera_ok", "reintentar"}
  PROVE  Todos = EnTablas /\ \A p \in Procesos : Tiene(p) = tabla[p]
<1>1. \A p \in Procesos : Tiene(p) = tabla[p]
  BY TieneFacts
<1>2. Tiene(NADIE) = {}
  BY TieneFacts DEF Orden, Operacion
<1>3. \A s : s \in Todos <=> \E p \in Procesos : s \in tabla[p]
  BY <1>1, <1>2, TodosDe, TieneFacts DEF Tenedores
<1>4. \A s : s \in EnTablas <=> \E p \in Procesos : s \in tabla[p]
  BY DEF EnTablas
<1>5. \A s : s \in Todos <=> s \in EnTablas
  BY <1>3, <1>4
<1> QED BY <1>1, <1>5

LEMMA TodosEnTablasPrima ==
  ASSUME paso' = "reintentar", sueltos' = {}
  PROVE  /\ \A s : s \in Todos' <=> \E p \in Procesos : s \in tabla'[p]
         /\ Tiene(NADIE)' = {} /\ \A p \in Procesos : Tiene(p)' = tabla'[p]
<1>1. Tiene(NADIE)' = {} /\ \A p \in Procesos : Tiene(p)' = tabla'[p]
  BY TieneFactsPrima
<1> QED BY <1>1, TodosDePrima, TieneFacts DEF Tenedores

(* A compaction moves every segment, and makes the list of holes again.     *)
LEMMA RepartoCompactar ==
  ASSUME TypeOK, Orden, Reparto, CompactarMemoria
  PROVE  /\ Reparto'
         /\ \A n \in Nat \ {0} : n <= Cardinality(Libre(Todos, Tope)) =>
              \E h \in huecos' : h.tam >= n
<1>1. /\ paso = "espera_ok" /\ paso' = "reintentar" /\ sueltos = {} /\ sueltos' = {}
      /\ tabla' = [p \in Procesos |-> {Mudado(s) : s \in tabla[p]}]
      /\ huecos' = HuecoFinal /\ sticks' = sticks
  BY DEF CompactarMemoria, Orden, Operacion
<1>2. Todos = EnTablas /\ \A p \in Procesos : Tiene(p) = tabla[p]
  BY <1>1, TodosEnTablas
<1>3. EnTablas \subseteq Segmentos
  BY DEF EnTablas, TypeOK
<1> DEFINE E == {Mudado(s) : s \in EnTablas}
<1>4. /\ BienPuestos(E, Tope) /\ HuecoFinal = Corridas(Libre(E, Tope))
      /\ \A s, t \in EnTablas : Mudado(s) = Mudado(t) => s = t
      /\ \A n \in Nat \ {0} : n <= Cardinality(Libre(EnTablas, Tope)) => \E h \in HuecoFinal : h.tam >= n
  BY <1>2, <1>3, Compactado DEF Reparto
<1>5. \A p \in Procesos : \A t : t \in tabla'[p] <=> \E s \in tabla[p] : t = Mudado(s)
  BY <1>1
<1>6. \A t : t \in E <=> \E s \in EnTablas : t = Mudado(s)
  OBVIOUS
<1>7. \A s : s \in EnTablas <=> \E p \in Procesos : s \in tabla[p]
  BY DEF EnTablas
<1>8. /\ \A s : s \in Todos' <=> \E p \in Procesos : s \in tabla'[p]
      /\ Tiene(NADIE)' = {} /\ \A p \in Procesos : Tiene(p)' = tabla'[p]
  BY <1>1, TodosEnTablasPrima
<1> HIDE DEF E
<1>9. Todos' = E
  <2>1. \A t : t \in Todos' <=> t \in E
    BY <1>5, <1>6, <1>7, <1>8
  <2> QED BY <2>1
<1>10. DeUno'
  <2>1. ASSUME NEW p \in Tenedores, NEW q \in Tenedores, p # q, NEW t, t \in Tiene(p)', t \in Tiene(q)'
        PROVE  FALSE
    <3>1. p \in Procesos /\ q \in Procesos /\ t \in tabla'[p] /\ t \in tabla'[q]
      BY <1>8, <2>1 DEF Tenedores
    <3>2. PICK s \in tabla[p] : t = Mudado(s)
      BY <1>5, <3>1
    <3>3. PICK r \in tabla[q] : t = Mudado(r)
      BY <1>5, <3>1
    <3>4. s = r
      BY <1>4, <1>7, <3>1, <3>2, <3>3
    <3> QED BY <1>2, <2>1, <3>1, <3>4 DEF Reparto, DeUno
  <2> QED BY <2>1 DEF DeUno
<1>11. Tope' = Tope
  BY <1>1 DEF Tope
<1>12. Reparto'
  BY <1>1, <1>4, <1>9, <1>10, <1>11 DEF Reparto
<1> QED BY <1>1, <1>2, <1>4, <1>12

(* A MEM_ALLOC that finds a hole, and one that finds it after a compaction. *)
LEMMA TamaniosNat == \A t \in Tamanios : t \in Nat \ {0}
BY TamaniosAssumption

LEMMA RepartoMemAlloc ==
  ASSUME TypeOK, Orden, Reparto, NEW p \in Procesos, MemAlloc(p)
  PROVE  Reparto' /\ sueltos' \subseteq Segmentos
<1>1. /\ paso = "espera" /\ UNCHANGED <<tabla, sticks, movidos>> /\ sueltos = {}
      /\ fase[p] = "pide"
  BY DEF MemAlloc, Orden, Operacion
<1>2. PICK i \in Ids, t \in Tamanios :
        \/ /\ Alcanzan(t) # {} /\ Ocupar(t)
           /\ sueltos' = {[id |-> i, base |-> Elegido(t).base, tam |-> t]}
        \/ /\ Alcanzan(t) = {} /\ paso' = "espera_ok" /\ UNCHANGED <<huecos, sueltos>>
  BY Zenon DEF MemAlloc
<1>3. CASE Alcanzan(t) # {}
  <2> DEFINE x == [id |-> i, base |-> Elegido(t).base, tam |-> t]
  <2>1. x.tam = t /\ x.base = Elegido(x.tam).base
    OBVIOUS
  <2>2. x \in Segmentos <=> x.base \in 0 .. Limite - 1
    BY DEF Segmentos, Limite
  <2>3. sueltos' = {x} /\ huecos' = SinOcupado(Elegido(t), t) /\ paso' = "registrar"
    BY <1>2, <1>3 DEF Ocupar
  <2> HIDE DEF x
  <2>4. Reparto' /\ x.base \in 0 .. Limite - 1
    BY <1>1, <1>3, <2>1, <2>3, RepartoOcupar, TamaniosNat
  <2> QED BY <2>2, <2>3, <2>4
<1>4. CASE Alcanzan(t) = {}
  <2>1. paso' = "espera_ok" /\ UNCHANGED <<huecos, sueltos>>
    BY <1>2, <1>4
  <2>2. ASSUME NEW q \in Tenedores PROVE Tiene(q)' = Tiene(q)
    <3>1. CASE q = NADIE
      BY <1>1, <2>1, <3>1, TieneFacts, TieneFactsPrima
    <3>2. CASE q \in Procesos
      BY <1>1, <2>1, <3>2, TieneFacts, TieneFactsPrima
    <3> QED BY <3>1, <3>2 DEF Tenedores
  <2> QED BY <1>1, <2>1, <2>2, MismosTenedores, RepartoMismo DEF Reparto, TypeOK
<1> QED BY <1>3, <1>4

LEMMA RepartoReintentar ==
  ASSUME TypeOK, Orden, Reparto, Reintentar
  PROVE  Reparto' /\ sueltos' \subseteq Segmentos
<1>1. /\ paso = "reintentar" /\ UNCHANGED <<tabla, sticks, movidos>> /\ sueltos = {}
      /\ pedido.tam \in Tamanios /\ pedido.id \in Ids
  BY DEF Reintentar, Orden, Operacion, Pidiendo
<1>2. CASE Alcanzan(pedido.tam) # {}
  <2> DEFINE x == [id |-> pedido.id, base |-> Elegido(pedido.tam).base, tam |-> pedido.tam]
  <2>1. x.tam = pedido.tam /\ x.base = Elegido(x.tam).base
    OBVIOUS
  <2>2. x \in Segmentos <=> x.base \in 0 .. Limite - 1
    BY <1>1 DEF Segmentos, Limite
  <2>3. sueltos' = {x} /\ huecos' = SinOcupado(Elegido(pedido.tam), pedido.tam) /\ paso' = "registrar"
    BY <1>2 DEF Reintentar, Ocupar
  <2> HIDE DEF x
  <2>4. Reparto' /\ x.base \in 0 .. Limite - 1
    BY <1>1, <1>2, <2>1, <2>3, RepartoOcupar, TamaniosNat
  <2> QED BY <2>2, <2>3, <2>4
<1>3. CASE Alcanzan(pedido.tam) = {}
  <2>1. paso' = "espera" /\ UNCHANGED <<huecos, sueltos>>
    BY <1>3 DEF Reintentar, Responder
  <2>2. ASSUME NEW q \in Tenedores PROVE Tiene(q)' = Tiene(q)
    <3>1. CASE q = NADIE
      BY <1>1, <2>1, <3>1, TieneFacts, TieneFactsPrima
    <3>2. CASE q \in Procesos
      BY <1>1, <2>1, <3>2, TieneFacts, TieneFactsPrima
    <3> QED BY <3>1, <3>2 DEF Tenedores
  <2> QED BY <1>1, <2>1, <2>2, MismosTenedores, RepartoMismo DEF Reparto, TypeOK
<1> QED BY <1>2, <1>3

(* Every step.                                                              *)
LEMMA RepartoPaso ==
  ASSUME TypeOK, Orden, RepartoVivo, Next, ~pisado'
  PROVE  RepartoVivo'
<1>0. ~pisado
  BY SinPisar
<1> SUFFICES ASSUME paso' # "a_medias" PROVE Reparto'
  BY DEF RepartoVivo, Entero
<1>1. CASE UNCHANGED vars
  <2>1. UNCHANGED <<tabla, paso, pid, sueltos, movidos, huecos, sticks>>
    BY <1>1 DEF vars, memoria, operacion
  <2> QED BY <1>0, <2>1, TieneEstable, MismosTenedores, RepartoMismo DEF Reparto, RepartoVivo, Entero
<1> SUFFICES ASSUME paso # "a_medias", Reparto,
                    ConectarStick \/ ConectarSwap \/ CaerSwap \/ Seguir
                      \/ \E p \in Procesos : Cpu(p) \/ Atender(p)
             PROVE  Reparto'
  BY <1>0, <1>1 DEF Next, Reposo, RepartoVivo, Entero
<1>2. CASE ConectarSwap \/ CaerSwap \/ \E p \in Procesos : Cpu(p)
  BY <1>2, RepartoCpu
<1>3. CASE ConectarStick
  BY <1>3, RepartoConectar
<1>4. ASSUME NEW p \in Procesos, Atender(p) PROVE Reparto'
  <2>1. CASE MemAlloc(p)
    BY <2>1, RepartoMemAlloc
  <2>2. CASE MemFree(p) \/ FinalizarProceso(p)
    BY <2>2, RepartoTomar
  <2> QED BY <1>4, <2>1, <2>2, RepartoAtendido DEF Atender
<1>5. CASE Seguir
  BY <1>5, RepartoCompactar, RepartoReintentar, RepartoRegistrar, RepartoSoltar, RepartoAtendido,
     RepartoSuspender, RepartoSuspenderFalla, RepartoTerminarSuspension, RepartoReanudar,
     RepartoReanudarFalla, RepartoTerminarReanudacion DEF Seguir
<1> QED BY <1>2, <1>3, <1>4, <1>5

(***************************************************************************)
(* The order of an operation, and the identifiers                           *)
(***************************************************************************)
LEMMA TiposDe ==
  ASSUME TypeOK, Orden
  PROVE  /\ fase \in [Procesos -> Fases] /\ ctx \in [Procesos -> SUBSET Segmentos]
         /\ tabla \in [Procesos -> SUBSET Segmentos] /\ suspendidos \in [Procesos -> SUBSET Registros]
         /\ pid \in Procesos \cup {NADIE} /\ NADIE \notin Procesos
         /\ pid = NADIE <=> paso \in {"espera", "a_medias"}
BY NadieMemoriaAssumption DEF TypeOK, Orden, TiposSwap, Operacion

(* A process that has segments in swap is suspended and has none in memory. *)
LEMMA SuspendidosPaso ==
  ASSUME TypeOK, Orden, Next, ~pisado'
  PROVE  Suspendidos'
<1>1. /\ fase \in [Procesos -> Fases] /\ suspendidos \in [Procesos -> SUBSET Registros]
      /\ tabla \in [Procesos -> SUBSET Segmentos]
      /\ pid \in Procesos \cup {NADIE} /\ NADIE \notin Procesos
      /\ pid = NADIE <=> paso \in {"espera", "a_medias"}
  BY TiposDe
<1>2. Suspendidos /\ Operacion
  BY DEF Orden
<1>3. CASE UNCHANGED vars
  BY <1>2, <1>3 DEF vars, procesos, memoria, respaldo, Suspendidos
<1>4. CASE ConectarStick \/ ConectarSwap \/ CaerSwap
  BY <1>2, <1>4 DEF ConectarStick, ConectarSwap, CaerSwap, procesos, memoria, respaldo, Suspendidos
<1>5. ASSUME NEW p \in Procesos, Cpu(p) PROVE Suspendidos'
  BY <1>1, <1>2, <1>5 DEF Cpu, PedirContexto, ActualizarContexto, Desalojar,
     GuardarContexto, Recibir, MemWrite, Despertar, Pasar,
     procesos, memoria, respaldo, Suspendidos
<1>6. ASSUME NEW p \in Procesos, Atender(p) PROVE Suspendidos'
  <2>1. CASE CrearProceso(p) \/ MemAllocRechazado(p) \/ MemFreeRechazado(p) \/ SuspenderSinSwap(p)
               \/ SuspenderProceso(p)
    BY <1>1, <1>2, <2>1 DEF CrearProceso, MemAllocRechazado, MemFreeRechazado, SuspenderSinSwap,
       SuspenderProceso, Responder, Pasar, memoria, respaldo, Suspendidos
  <2>2. CASE MemAlloc(p) \/ ReanudarProceso(p)
    BY <1>2, <2>2 DEF MemAlloc, ReanudarProceso, procesos, memoria, respaldo, Suspendidos
  <2>3. CASE MemFree(p) \/ FinalizarProceso(p)
    BY <1>1, <1>2, <2>3 DEF MemFree, FinalizarProceso, procesos, respaldo, Suspendidos
  <2> QED BY <1>6, <2>1, <2>2, <2>3 DEF Atender
<1>7. CASE Seguir
  <2>1. CASE CompactarMemoria
    <3>1. \A p \in Procesos : tabla[p] = {} => tabla'[p] = {}
      BY <2>1 DEF CompactarMemoria
    <3> QED BY <1>2, <2>1, <3>1 DEF CompactarMemoria, procesos, respaldo, Suspendidos
  <2>2. CASE Reintentar
    <3>1. /\ pid \in Procesos /\ suspendidos[pid] = {} /\ UNCHANGED <<tabla, suspendidos>>
          /\ fase' = fase \/ fase' = [fase EXCEPT ![pid] = "lista"]
      BY <1>1, <1>2, <2>2 DEF Reintentar, Responder, Pasar, respaldo, Suspendidos, Operacion, Pidiendo
    <3> QED BY <1>1, <1>2, <3>1 DEF Suspendidos
  <2>3. CASE LiberarSegmento \/ DestruirProceso
    <3>1. /\ pid \in Procesos /\ suspendidos[pid] = {} /\ tabla' = tabla
          /\ suspendidos' = suspendidos \/ suspendidos' = [suspendidos EXCEPT ![pid] = {}]
          /\ \E f \in {"lista", "fin"} : fase' = [fase EXCEPT ![pid] = f]
      BY <1>1, <1>2, <2>3 DEF LiberarSegmento, DestruirProceso, Responder, Pasar, memoria, respaldo,
         Suspendidos, Operacion
    <3> QED BY <1>1, <1>2, <3>1 DEF Suspendidos
  <2>5. CASE RegistrarSegmento
    <3>1. /\ pid \in Procesos /\ suspendidos[pid] = {} /\ suspendidos' = suspendidos
          /\ tabla' = [tabla EXCEPT ![pid] = @ \cup sueltos] /\ fase' = [fase EXCEPT ![pid] = "lista"]
      BY <1>1, <1>2, <2>5 DEF RegistrarSegmento, Responder, Pasar, respaldo, Suspendidos, Operacion, Pidiendo
    <3> QED BY <1>1, <1>2, <3>1 DEF Suspendidos
  <2>6. CASE TerminarSuspension
    <3>1. /\ pid \in Procesos /\ suspendidos' = [suspendidos EXCEPT ![pid] = @ \cup movidos]
          /\ tabla' = [tabla EXCEPT ![pid] = {}] /\ fase' = [fase EXCEPT ![pid] = "suspendido"]
      BY <1>1, <2>6 DEF TerminarSuspension, Responder, Pasar
    <3> QED BY <1>1, <1>2, <3>1 DEF Suspendidos
  <2>7. CASE TerminarReanudacion
    <3>1. /\ pid \in Procesos /\ suspendidos' = [suspendidos EXCEPT ![pid] = {}]
          /\ tabla' = [tabla EXCEPT ![pid] = @ \cup sueltos]
          /\ \E f \in {"lista", "bloqueado"} : fase' = [fase EXCEPT ![pid] = f]
      BY <1>1, <2>7 DEF TerminarReanudacion, Responder, Pasar
    <3> QED BY <1>1, <1>2, <3>1 DEF Suspendidos
  <2>4. CASE LiberarUno \/ SuspenderSegmento \/ SuspenderFalla \/ ReanudarSegmento \/ ReanudarFalla
    BY <1>2, <2>4 DEF LiberarUno, SuspenderSegmento, SuspenderFalla, ReanudarSegmento,
       ReanudarFalla, procesos, memoria, respaldo, Suspendidos
  <2> QED BY <1>7, <2>1, <2>2, <2>3, <2>4, <2>5, <2>6, <2>7 DEF Seguir
<1> QED BY <1>3, <1>4, <1>5, <1>6, <1>7 DEF Next, Reposo

(* No two segments of a table, or of a list in swap, have an identifier.    *)
LEMMA IdsParte ==
  \A S, T : IdsDistintos(S) /\ T \subseteq S => IdsDistintos(T)
BY DEF IdsDistintos

LEMMA IdsUnion ==
  ASSUME NEW S, NEW T, IdsDistintos(S), IdsDistintos(T), IdsDe(S) \cap IdsDe(T) = {}
  PROVE  IdsDistintos(S \cup T)
<1>1. \A s \in S, t \in T : s.id # t.id
  BY DEF IdsDe
<1> QED BY <1>1 DEF IdsDistintos

LEMMA IdsVacio == IdsDistintos({}) /\ IdsDe({}) = {} /\ \A x : IdsDistintos({x})
BY DEF IdsDistintos, IdsDe

LEMMA IdsTabla ==
  ASSUME TypeOK, Orden, Next, ~pisado'
  PROVE  \A p \in Procesos : IdsDistintos(tabla'[p])
<1>1. /\ ctx \in [Procesos -> SUBSET Segmentos] /\ tabla \in [Procesos -> SUBSET Segmentos]
      /\ pid \in Procesos \cup {NADIE} /\ NADIE \notin Procesos
      /\ pid = NADIE <=> paso \in {"espera", "a_medias"}
  BY TiposDe
<1>2. /\ \A p \in Procesos : IdsDistintos(tabla[p]) /\ IdsDistintos(suspendidos[p])
      /\ IdsDistintos(movidos) /\ IdsDistintos(sueltos) /\ Operacion
  BY DEF Orden, Identificadores
<1> SUFFICES ASSUME NEW q \in Procesos, tabla' # tabla PROVE IdsDistintos(tabla'[q])
  BY <1>2
<1>3. ASSUME NEW p \in Procesos, Cpu(p) PROVE IdsDistintos(tabla'[q])
  BY <1>1, <1>3, TablaQuieta
<1>4. ASSUME NEW p \in Procesos, Atender(p) PROVE IdsDistintos(tabla'[q])
  <2>1. MemFree(p) \/ FinalizarProceso(p)
    BY <1>4 DEF Atender, CrearProceso, MemAllocRechazado, MemAlloc, MemFreeRechazado,
       SuspenderSinSwap, SuspenderProceso, ReanudarProceso, memoria
  <2>2. tabla'[q] \subseteq tabla[q]
    BY <1>1, <2>1 DEF MemFree, FinalizarProceso
  <2> QED BY <1>2, <2>2, IdsParte
<1>5. CASE CompactarMemoria
  <2>1. \A t \in tabla'[q] : \E s \in tabla[q] : t = [s EXCEPT !.base = NuevaBase(s)]
    BY <1>5 DEF CompactarMemoria, Mudado
  <2>2. \A t \in tabla'[q] : \E s \in tabla[q] : t = [s EXCEPT !.base = NuevaBase(s)] /\ t.id = s.id
    BY <1>1, <2>1 DEF Segmentos
  <2> QED BY <1>2, <2>2 DEF IdsDistintos
<1>6. CASE RegistrarSegmento
  <2>1. /\ pid \in Procesos /\ tabla' = [tabla EXCEPT ![pid] = @ \cup sueltos]
        /\ pedido.id \notin IdsDe(tabla[pid]) /\ \A s \in sueltos : s.id = pedido.id
    BY <1>1, <1>2, <1>6 DEF RegistrarSegmento, Operacion, Pidiendo
  <2>2. IdsDe(tabla[pid]) \cap IdsDe(sueltos) = {}
    BY <2>1 DEF IdsDe
  <2>3. IdsDistintos(tabla[pid] \cup sueltos)
    BY <1>2, <2>1, <2>2, IdsUnion
  <2> QED BY <1>1, <1>2, <2>1, <2>3
<1>7. CASE TerminarSuspension
  BY <1>1, <1>2, <1>7, IdsVacio DEF TerminarSuspension
<1>8. CASE TerminarReanudacion
  <2>1. /\ pid \in Procesos /\ tabla' = [tabla EXCEPT ![pid] = @ \cup sueltos]
        /\ IdsDe(sueltos) \subseteq IdsDe(suspendidos[pid])
        /\ suspendidos[pid] # {} => tabla[pid] = {}
    BY <1>1, <1>2, <1>8 DEF TerminarReanudacion, Operacion, Orden, Suspendidos
  <2>2. IdsDe(tabla[pid]) \cap IdsDe(sueltos) = {}
    BY <2>1, IdsVacio
  <2>3. IdsDistintos(tabla[pid] \cup sueltos)
    BY <1>2, <2>1, <2>2, IdsUnion
  <2> QED BY <1>1, <1>2, <2>1, <2>3
<1>9. CASE Seguir
  BY <1>5, <1>6, <1>7, <1>8, <1>9 DEF Seguir, Reintentar, LiberarSegmento, LiberarUno,
     DestruirProceso, SuspenderSegmento, SuspenderFalla, ReanudarSegmento, ReanudarFalla, memoria
<1> QED BY <1>3, <1>4, <1>9 DEF Next, Reposo, ConectarStick, ConectarSwap, CaerSwap, vars, memoria

LEMMA IdsSueltos ==
  ASSUME TypeOK, Orden, Next, ~pisado'
  PROVE  IdsDistintos(sueltos')
<1>1. \A p \in Procesos : IdsDistintos(tabla[p])
  BY DEF Orden, Identificadores
<1>2. IdsDistintos(sueltos)
  BY DEF Orden, Identificadores
<1> SUFFICES ASSUME sueltos' # sueltos PROVE IdsDistintos(sueltos')
  BY <1>2
<1>3. ASSUME NEW p \in Procesos, Atender(p) PROVE IdsDistintos(sueltos')
  <2>1. CASE MemAlloc(p)
    <3>1. \E x : sueltos' = {x}
      BY <2>1, Zenon DEF MemAlloc
    <3> QED BY <3>1, IdsVacio
  <2>2. CASE MemFree(p)
    BY <2>2, IdsVacio DEF MemFree
  <2>3. CASE FinalizarProceso(p)
    BY <1>1, <2>3 DEF FinalizarProceso
  <2> QED BY <1>3, <2>1, <2>2, <2>3 DEF Atender, CrearProceso, MemAllocRechazado, MemFreeRechazado,
       SuspenderSinSwap, SuspenderProceso, ReanudarProceso, operacion
<1>4. CASE Seguir
  <2>1. CASE Reintentar
    <3>1. \E x : sueltos' = {x}
      BY <2>1, Zenon DEF Reintentar
    <3> QED BY <3>1, IdsVacio
  <2>2. CASE LiberarSegmento \/ LiberarUno
    <3>1. sueltos' \subseteq sueltos
      BY <2>2 DEF LiberarSegmento, LiberarUno
    <3> QED BY <1>2, <3>1, IdsParte
  <2>3. CASE RegistrarSegmento \/ ReanudarFalla \/ TerminarReanudacion
    BY <2>3, IdsVacio DEF RegistrarSegmento, ReanudarFalla, TerminarReanudacion
  <2>4. CASE ReanudarSegmento
    <3>1. PICK ss \in PorTraer :
            sueltos' = sueltos \cup {[id |-> ss.id, base |-> Elegido(ss.tam).base, tam |-> ss.tam]}
      BY <2>4, Zenon DEF ReanudarSegmento
    <3> DEFINE x == [id |-> ss.id, base |-> Elegido(ss.tam).base, tam |-> ss.tam]
    <3>2. x.id = ss.id /\ sueltos' = sueltos \cup {x} /\ x.id \notin IdsDe(sueltos)
      BY <3>1 DEF PorTraer
    <3> HIDE DEF x
    <3>3. IdsDe(sueltos) \cap IdsDe({x}) = {}
      BY <3>2 DEF IdsDe
    <3> QED BY <1>2, <3>2, <3>3, IdsVacio, IdsUnion
  <2> QED BY <1>4, <2>1, <2>2, <2>3, <2>4 DEF Seguir, CompactarMemoria, DestruirProceso,
       SuspenderSegmento, SuspenderFalla, TerminarSuspension, operacion
<1> QED BY <1>3, <1>4 DEF Next, Reposo, ConectarStick, ConectarSwap, CaerSwap, Cpu, PedirContexto,
     ActualizarContexto, Desalojar,
     GuardarContexto, Recibir, MemWrite, Despertar, vars, operacion

LEMMA IdsMovidos ==
  ASSUME TypeOK, Orden, Next, ~pisado'
  PROVE  IdsDistintos(movidos') /\ IsFiniteSet(movidos')
<1>1. IdsDistintos(movidos) /\ IsFiniteSet(movidos)
  BY DEF Orden, Identificadores
<1> SUFFICES ASSUME movidos' # movidos PROVE IdsDistintos(movidos') /\ IsFiniteSet(movidos')
  BY <1>1
<1>2. CASE SuspenderFalla \/ TerminarSuspension
  BY <1>2, IdsVacio, FS_EmptySet DEF SuspenderFalla, TerminarSuspension
<1>3. CASE SuspenderSegmento
  <2>1. PICK s \in PorMover :
          movidos' = movidos \cup {[id |-> s.id, tam |-> s.tam, bloques |-> Asignados(s.tam)]}
    BY <1>3 DEF SuspenderSegmento
  <2> DEFINE x == [id |-> s.id, tam |-> s.tam, bloques |-> Asignados(s.tam)]
  <2>2. x.id = s.id /\ movidos' = movidos \cup {x} /\ x.id \notin IdsDe(movidos)
    BY <2>1 DEF PorMover
  <2> HIDE DEF x
  <2>3. IdsDe(movidos) \cap IdsDe({x}) = {}
    BY <2>2 DEF IdsDe
  <2>4. IsFiniteSet(movidos \cup {x})
    BY <1>1, FS_AddElement
  <2> QED BY <1>1, <2>2, <2>3, <2>4, IdsVacio, IdsUnion
<1>4. CASE Seguir
  BY <1>2, <1>3, <1>4 DEF Seguir, CompactarMemoria, Reintentar, RegistrarSegmento, LiberarSegmento,
     LiberarUno, DestruirProceso, ReanudarSegmento, ReanudarFalla, TerminarReanudacion
<1>5. ASSUME NEW p \in Procesos, Atender(p) PROVE FALSE
  BY <1>5 DEF Atender, CrearProceso, MemAllocRechazado, MemAlloc, MemFreeRechazado, MemFree,
     FinalizarProceso, SuspenderSinSwap, SuspenderProceso, ReanudarProceso, operacion
<1> QED BY <1>4, <1>5 DEF Next, Reposo, ConectarStick, ConectarSwap, CaerSwap, Cpu, PedirContexto,
     ActualizarContexto, Desalojar,
     GuardarContexto, Recibir, MemWrite, Despertar, vars, operacion

LEMMA IdsSuspendidos ==
  ASSUME TypeOK, Orden, Next, ~pisado'
  PROVE  \A p \in Procesos : IdsDistintos(suspendidos'[p])
<1>1. /\ \A p \in Procesos : IdsDistintos(suspendidos[p])
      /\ IdsDistintos(movidos) /\ suspendidos \in [Procesos -> SUBSET Registros] /\ Operacion
  BY DEF Orden, Identificadores, TiposSwap
<1> SUFFICES ASSUME NEW q \in Procesos, suspendidos' # suspendidos PROVE IdsDistintos(suspendidos'[q])
  BY <1>1
<1>2. CASE DestruirProceso \/ TerminarReanudacion
  BY <1>1, <1>2, IdsVacio DEF DestruirProceso, TerminarReanudacion
<1>3. CASE TerminarSuspension
  <2>1. suspendidos' = [suspendidos EXCEPT ![pid] = @ \cup movidos] /\ suspendidos[pid] = {}
    BY <1>1, <1>3 DEF TerminarSuspension, Operacion
  <2>2. suspendidos'[q] = suspendidos[q] \/ suspendidos'[q] = movidos
    BY <1>1, <2>1
  <2> QED BY <1>1, <2>2
<1>4. CASE Seguir
  BY <1>2, <1>3, <1>4 DEF Seguir, CompactarMemoria, Reintentar, RegistrarSegmento, LiberarSegmento,
     LiberarUno, SuspenderSegmento, SuspenderFalla, ReanudarSegmento, ReanudarFalla, respaldo
<1>5. ASSUME NEW p \in Procesos, Atender(p) PROVE FALSE
  BY <1>5 DEF Atender, CrearProceso, MemAllocRechazado, MemAlloc, MemFreeRechazado, MemFree,
     FinalizarProceso, SuspenderSinSwap, SuspenderProceso, ReanudarProceso, respaldo
<1> QED BY <1>4, <1>5 DEF Next, Reposo, ConectarStick, ConectarSwap, CaerSwap, Cpu, PedirContexto,
     ActualizarContexto, Desalojar,
     GuardarContexto, Recibir, MemWrite, Despertar, vars, respaldo

LEMMA IdentificadoresPaso ==
  ASSUME TypeOK, Orden, Next, ~pisado'
  PROVE  Identificadores'
BY IdsTabla, IdsSueltos, IdsMovidos, IdsSuspendidos DEF Identificadores

(* Where the thread of operations is says which process it serves, in which *)
(* phase that process is, and what the thread holds.                        *)
LEMMA OperacionCpu ==
  ASSUME TypeOK, Orden, ~pisado', NEW p \in Procesos, Cpu(p)
  PROVE  Operacion'
<1>1. /\ fase \in [Procesos -> Fases] /\ tabla \in [Procesos -> SUBSET Segmentos]
      /\ pid \in Procesos \cup {NADIE} /\ NADIE \notin Procesos
      /\ pid = NADIE <=> paso \in {"espera", "a_medias"}
  BY TiposDe
<1>2. Operacion
  BY DEF Orden
<1>3. /\ UNCHANGED <<suspendidos, paso, pid, pedido, sueltos, movidos>> /\ tabla' = tabla
      /\ fase' = fase \/ fase[p] \in {"lista", "corre", "bloqueado"}
      /\ \A q \in Procesos \ {p} : fase'[q] = fase[q]
  BY <1>1, TablaQuieta DEF Cpu, PedirContexto, ActualizarContexto, Desalojar, GuardarContexto,
     MemWrite, Despertar, Pasar, respaldo, operacion, procesos
<1>5. paso \notin {"espera", "a_medias"} =>
        pid \in Procesos /\ fase'[pid] = fase[pid]
  <2>1. paso \notin {"espera", "a_medias"} => pid \in Procesos /\ fase[pid] \in {"pide", "sale", "suspendido"}
    BY <1>1, <1>2 DEF Operacion, TypeOK, Pasos, Pidiendo
  <2> QED BY <2>1, <1>3
<1> QED BY <1>2, <1>3, <1>5 DEF Operacion, Pidiendo

LEMMA OperacionAtender ==
  ASSUME TypeOK, Orden, NEW p \in Procesos, Atender(p)
  PROVE  Operacion'
<1>1. /\ fase \in [Procesos -> Fases] /\ tabla \in [Procesos -> SUBSET Segmentos]
      /\ p # NADIE /\ paso = "espera" /\ pid = NADIE /\ sueltos = {} /\ movidos = {}
  <2>1. paso = "espera" /\ p # NADIE
    BY NadieMemoriaAssumption DEF Atender, CrearProceso, MemAllocRechazado, MemAlloc,
       MemFreeRechazado, MemFree, FinalizarProceso, SuspenderSinSwap, SuspenderProceso, ReanudarProceso
  <2> QED BY <2>1, TiposDe DEF Orden, Operacion
<1>2. Suspendidos
  BY DEF Orden
<1>3. CASE CrearProceso(p) \/ MemAllocRechazado(p) \/ MemFreeRechazado(p) \/ SuspenderSinSwap(p)
  <2>1. paso' = "espera" /\ pid' = NADIE /\ sueltos' = {} /\ movidos' = {}
    BY <1>1, <1>3 DEF CrearProceso, MemAllocRechazado, MemFreeRechazado, SuspenderSinSwap,
       Responder, operacion
  <2> QED BY <2>1 DEF Operacion, Pidiendo
<1>4. CASE MemAlloc(p)
  <2>1. PICK i \in Ids \ IdsDe(tabla[p]), t \in Tamanios :
          /\ pedido' = [id |-> i, tam |-> t]
          /\ \/ paso' = "registrar" /\ sueltos' = {[id |-> i, base |-> Elegido(t).base, tam |-> t]}
             \/ paso' = "espera_ok" /\ sueltos' = {}
    <3>1. PICK i \in Ids \ IdsDe(tabla[p]), t \in Tamanios :
            /\ pedido' = [id |-> i, tam |-> t]
            /\ \/ /\ Alcanzan(t) # {} /\ Ocupar(t)
                  /\ sueltos' = {[id |-> i, base |-> Elegido(t).base, tam |-> t]}
               \/ /\ paso' = "espera_ok" /\ UNCHANGED <<huecos, sueltos>>
      BY <1>4, Zenon DEF MemAlloc
    <3> QED BY <1>1, <3>1 DEF Ocupar
  <2>2. fase[p] = "pide" /\ pid' = p /\ UNCHANGED <<fase, tabla, suspendidos, movidos>>
    BY <1>4 DEF MemAlloc, procesos, respaldo
  <2>3. pedido'.id = i /\ pedido' \in [id : Ids, tam : Tamanios] /\ \A s \in sueltos' : s.id = i
    BY <2>1
  <2> QED BY <1>1, <2>1, <2>2, <2>3 DEF Operacion, Pidiendo
<1>5. CASE MemFree(p)
  BY <1>1, <1>5 DEF MemFree, Operacion, Pidiendo, procesos
<1>6. CASE FinalizarProceso(p)
  BY <1>1, <1>2, <1>6 DEF FinalizarProceso, Operacion, Pidiendo, procesos, respaldo, Suspendidos
<1>7. CASE SuspenderProceso(p)
  BY <1>1, <1>2, <1>7 DEF SuspenderProceso, Operacion, Pidiendo, Pasar, respaldo, Suspendidos
<1>8. CASE ReanudarProceso(p)
  BY <1>1, <1>8, IdsVacio DEF ReanudarProceso, Operacion, Pidiendo, procesos, respaldo
<1> QED BY <1>3, <1>4, <1>5, <1>6, <1>7, <1>8 DEF Atender

LEMMA OperacionSeguir ==
  ASSUME TypeOK, Orden, Seguir
  PROVE  Operacion'
<1>1. /\ tabla \in [Procesos -> SUBSET Segmentos]
      /\ pid \in Procesos \cup {NADIE} /\ NADIE \notin Procesos
      /\ pid = NADIE <=> paso \in {"espera", "a_medias"}
  BY TiposDe
<1>2. Operacion
  BY DEF Orden
<1>3. ASSUME paso' = "espera", pid' = NADIE, sueltos' = {}, movidos' = {} PROVE Operacion'
  BY <1>3 DEF Operacion, Pidiendo
<1>4. CASE CompactarMemoria
  <2>1. /\ paso = "espera_ok" /\ paso' = "reintentar" /\ pid \in Procesos
        /\ UNCHANGED <<fase, pid, pedido, sueltos, movidos>>
        /\ tabla'[pid] = {Mudado(s) : s \in tabla[pid]}
    BY <1>1, <1>4 DEF CompactarMemoria, procesos
  <2>2. \A s \in tabla[pid] : Mudado(s).id = s.id
    BY <1>1, <2>1 DEF Mudado, Segmentos
  <2>3. \A t \in tabla'[pid] : \E s \in tabla[pid] : t.id = s.id
    BY <2>1, <2>2
  <2>4. \A i : i \in IdsDe(tabla'[pid]) => i \in IdsDe(tabla[pid])
    BY <2>3 DEF IdsDe
  <2> QED BY <1>1, <1>2, <2>1, <2>4 DEF Operacion, Pidiendo
<1>5. CASE Reintentar
  <2>1. CASE Alcanzan(pedido.tam) # {}
    <3>1. /\ paso = "reintentar" /\ paso' = "registrar"
          /\ sueltos' = {[id |-> pedido.id, base |-> Elegido(pedido.tam).base, tam |-> pedido.tam]}
          /\ UNCHANGED <<fase, pid, pedido, tabla, movidos>>
      BY <1>5, <2>1 DEF Reintentar, Ocupar
    <3>2. \A s \in sueltos' : s.id = pedido.id
      BY <3>1
    <3> QED BY <1>1, <1>2, <3>1, <3>2 DEF Operacion, Pidiendo
  <2>2. CASE Alcanzan(pedido.tam) = {}
    BY <1>2, <1>3, <1>5, <2>2 DEF Reintentar, Responder, Operacion
  <2> QED BY <2>1, <2>2
<1>6. CASE RegistrarSegmento
  BY <1>2, <1>3, <1>6 DEF RegistrarSegmento, Responder, Operacion
<1>7. CASE LiberarSegmento
  <2>1. paso = "liberar" /\ paso' = "espera" /\ pid' = NADIE /\ movidos' = {}
    BY <1>2, <1>7 DEF LiberarSegmento, Responder, Operacion
  <2>2. sueltos' = {}
    BY <1>2, <1>7 DEF LiberarSegmento, Operacion
  <2> QED BY <1>3, <2>1, <2>2
<1>8. CASE LiberarUno
  BY <1>1, <1>2, <1>8 DEF LiberarUno, Operacion, Pidiendo, procesos, respaldo
<1>9. CASE DestruirProceso
  BY <1>2, <1>3, <1>9 DEF DestruirProceso, Responder, Operacion
<1>10. CASE SuspenderSegmento
  BY <1>1, <1>2, <1>10 DEF SuspenderSegmento, Operacion, Pidiendo, procesos
<1>11. CASE SuspenderFalla
  BY <1>1, <1>2, <1>11 DEF SuspenderFalla, Operacion, Pidiendo
<1>12. CASE TerminarSuspension
  BY <1>2, <1>3, <1>12 DEF TerminarSuspension, Responder, Operacion
<1>13. CASE ReanudarSegmento
  <2>1. /\ paso = "reanudar" /\ UNCHANGED <<fase, tabla, suspendidos, paso, pid, movidos>>
    BY <1>13 DEF ReanudarSegmento, procesos
  <2>2. PICK ss \in PorTraer :
          sueltos' = sueltos \cup {[id |-> ss.id, base |-> Elegido(ss.tam).base, tam |-> ss.tam]}
    BY <1>13, Zenon DEF ReanudarSegmento
  <2> DEFINE x == [id |-> ss.id, base |-> Elegido(ss.tam).base, tam |-> ss.tam]
  <2>3. x.id = ss.id /\ sueltos' = sueltos \cup {x} /\ ss \in suspendidos[pid]
    BY <2>2 DEF PorTraer
  <2> HIDE DEF x
  <2>4. \A i : i \in IdsDe(sueltos') => i \in IdsDe(sueltos) \/ i = ss.id
    BY <2>3 DEF IdsDe
  <2>5. ss.id \in IdsDe(suspendidos[pid])
    BY <2>3 DEF IdsDe
  <2> QED BY <1>1, <1>2, <2>1, <2>4, <2>5 DEF Operacion, Pidiendo
<1>14. CASE ReanudarFalla
  BY <1>1, <1>2, <1>14 DEF ReanudarFalla, Operacion, Pidiendo
<1>15. CASE TerminarReanudacion
  BY <1>2, <1>3, <1>15 DEF TerminarReanudacion, Responder, Operacion
<1> QED BY <1>4, <1>5, <1>6, <1>7, <1>8, <1>9, <1>10, <1>11, <1>12, <1>13, <1>14, <1>15 DEF Seguir

LEMMA OperacionPaso ==
  ASSUME TypeOK, Orden, Next, ~pisado'
  PROVE  Operacion'
<1>1. CASE ConectarStick \/ ConectarSwap \/ CaerSwap \/ UNCHANGED vars
  <2>1. UNCHANGED <<fase, tabla, suspendidos, paso, pid, pedido, sueltos, movidos>>
    BY <1>1 DEF ConectarStick, ConectarSwap, CaerSwap, vars, procesos, memoria, respaldo, operacion
  <2> QED BY <2>1 DEF Orden, Operacion
<1> QED BY <1>1, OperacionCpu, OperacionAtender, OperacionSeguir DEF Next, Reposo

(***************************************************************************)
(* Types                                                                    *)
(***************************************************************************)
(* The blocks a segment takes, and the ones that stay free.                 *)
LEMMA CantidadNat == \A t \in Nat : Cantidad(t) \in Nat
<1>1. \A t \in Nat : t + BLOCK_SIZE - 1 \in Nat
  BY BloquesAssumption
<1>2. \A m, k \in Nat : k # 0 => m \div k \in Nat
  OBVIOUS
<1> QED BY <1>1, <1>2, BloquesAssumption DEF Cantidad

LEMMA Parten ==
  ASSUME NEW S, NEW q \in Seq(S), NEW n \in Nat, n <= Len(q)
  PROVE  /\ SubSeq(q, 1, n) \in Seq(S) /\ Len(SubSeq(q, 1, n)) = n
         /\ \A i \in 1 .. n : SubSeq(q, 1, n)[i] = q[i]
         /\ SubSeq(q, n + 1, Len(q)) \in Seq(S) /\ Len(SubSeq(q, n + 1, Len(q))) = Len(q) - n
         /\ \A i \in 1 .. Len(q) - n : SubSeq(q, n + 1, Len(q))[i] = q[n + i]
OBVIOUS

LEMMA AsignadosTipo ==
  ASSUME TypeOK, NEW t \in Tamanios, Len(libres) >= Cantidad(t)
  PROVE  Asignados(t) \in Seq(1 .. CantBloques) /\ Restantes(t) \in Seq(1 .. CantBloques)
BY Parten, CantidadNat, TamaniosNat DEF TypeOK, Asignados, Restantes

LEMMA RegistrosFacts ==
  \A r \in Registros : r.id \in Ids /\ r.tam \in Tamanios /\ r.bloques \in Seq(1 .. CantBloques)
BY DEF Registros

(* The lists of blocks of swap.                                             *)
LEMMA TiposSwapPaso ==
  ASSUME TypeOK, Orden, Next, ~pisado'
  PROVE  TiposSwap' /\ libres' \in Seq(1 .. CantBloques)
<1>1. /\ suspendidos \in [Procesos -> SUBSET Registros] /\ movidos \subseteq Registros
      /\ DOMAIN disco = 1 .. CantBloques /\ libres \in Seq(1 .. CantBloques)
      /\ tabla \in [Procesos -> SUBSET Segmentos]
      /\ IsFiniteSet(movidos) /\ pid \in Procesos \cup {NADIE}
      /\ pid = NADIE <=> paso \in {"espera", "a_medias"}
  BY DEF TypeOK, Orden, TiposSwap, Identificadores, Operacion
<1> SUFFICES ASSUME ~(UNCHANGED <<suspendidos, movidos, disco, libres>>)
             PROVE  TiposSwap' /\ libres' \in Seq(1 .. CantBloques)
  BY <1>1 DEF TiposSwap
<1>2. CASE ConectarSwap
  <2>1. libres' = [b \in 1 .. CantBloques |-> b] /\ UNCHANGED <<suspendidos, movidos, disco>>
    BY <1>2 DEF ConectarSwap, operacion
  <2>2. libres' \in Seq(1 .. CantBloques)
    BY <2>1, BloquesAssumption
  <2> QED BY <1>1, <2>1, <2>2 DEF TiposSwap
<1>3. CASE DestruirProceso
  <2>1. /\ libres' = libres \o BloquesDe(suspendidos[pid]) /\ suspendidos[pid] = {}
        /\ suspendidos' = [suspendidos EXCEPT ![pid] = {}] /\ UNCHANGED <<movidos, disco>>
    BY <1>3 DEF DestruirProceso, Orden, Operacion
  <2>2. libres' = libres \o <<>>
    BY <2>1, SinBloques
  <2>3. libres' \in Seq(1 .. CantBloques)
    BY <1>1, <2>2
  <2> QED BY <1>1, <2>1, <2>3 DEF TiposSwap
<1>4. CASE SuspenderSegmento
  <2>1. PICK s \in PorMover :
       /\ Len(libres) >= Cantidad(s.tam)
       /\ disco' = Escritos(Asignados(s.tam), s)
       /\ libres' = Restantes(s.tam)
       /\ movidos' = movidos \cup {[id |-> s.id, tam |-> s.tam, bloques |-> Asignados(s.tam)]}
    BY <1>4 DEF SuspenderSegmento
  <2>2. s.tam \in Tamanios /\ s.id \in Ids
    <3>1. pid \in Procesos
      BY <1>1, <1>4 DEF SuspenderSegmento
    <3> QED BY <1>1, <2>1, <3>1 DEF PorMover, Segmentos
  <2>3. Asignados(s.tam) \in Seq(1 .. CantBloques) /\ Restantes(s.tam) \in Seq(1 .. CantBloques)
    BY <2>1, <2>2, AsignadosTipo
  <2>4. DOMAIN disco' = DOMAIN disco
    BY <2>1 DEF Escritos
  <2>5. movidos' \subseteq Registros /\ suspendidos' = suspendidos
    BY <1>1, <1>4, <2>1, <2>2, <2>3 DEF Registros, SuspenderSegmento
  <2> QED BY <1>1, <2>1, <2>3, <2>4, <2>5 DEF TiposSwap
<1>5. CASE SuspenderFalla
  <2>1. BloquesDe(movidos) \in Seq(1 .. CantBloques)
    BY <1>1, RegistrosFacts, BloquesTipo
  <2>2. PICK s \in PorMover :
          \/ libres' = libres \o BloquesDe(movidos)
          \/ /\ Len(libres) >= Cantidad(s.tam)
             /\ libres' = Restantes(s.tam) \o Asignados(s.tam) \o BloquesDe(movidos)
    BY <1>5 DEF SuspenderFalla
  <2>3. s.tam \in Tamanios
    <3>1. pid \in Procesos
      BY <1>1, <1>5 DEF SuspenderFalla
    <3> QED BY <1>1, <2>2, <3>1 DEF PorMover, Segmentos
  <2>4. libres' \in Seq(1 .. CantBloques)
    <3>1. \A q, r \in Seq(1 .. CantBloques) : q \o r \in Seq(1 .. CantBloques)
      BY ConcatLista
    <3>2. CASE libres' = libres \o BloquesDe(movidos)
      BY <1>1, <2>1, <3>1, <3>2
    <3>3. CASE ~(libres' = libres \o BloquesDe(movidos))
      <4>1. Restantes(s.tam) \in Seq(1 .. CantBloques) /\ Asignados(s.tam) \in Seq(1 .. CantBloques)
        BY <2>2, <2>3, <3>3, AsignadosTipo
      <4>2. Restantes(s.tam) \o Asignados(s.tam) \in Seq(1 .. CantBloques)
        BY <3>1, <4>1
      <4> QED BY <2>1, <2>2, <3>1, <3>3, <4>2
    <3> QED BY <3>2, <3>3
  <2>5. movidos' = {} /\ UNCHANGED <<suspendidos, disco>>
    BY <1>5 DEF SuspenderFalla
  <2> QED BY <1>1, <2>4, <2>5 DEF TiposSwap
<1>6. CASE TerminarSuspension
  BY <1>1, <1>6 DEF TerminarSuspension, TiposSwap
<1>7. CASE ReanudarSegmento
  <2>1. PICK ss \in PorTraer : libres' = libres \o ss.bloques
    BY <1>7, Zenon DEF ReanudarSegmento
  <2>2. ss.bloques \in Seq(1 .. CantBloques)
    <3>1. pid \in Procesos
      BY <1>1, <1>7 DEF ReanudarSegmento
    <3> QED BY <1>1, <2>1, <3>1, RegistrosFacts DEF PorTraer
  <2>3. libres' \in Seq(1 .. CantBloques)
    BY <1>1, <2>1, <2>2
  <2>4. UNCHANGED <<suspendidos, movidos, disco>>
    BY <1>7 DEF ReanudarSegmento
  <2> QED BY <1>1, <2>3, <2>4 DEF TiposSwap
<1>8. CASE TerminarReanudacion
  BY <1>1, <1>8 DEF TerminarReanudacion, TiposSwap
<1>9. CASE Seguir
  BY <1>3, <1>4, <1>5, <1>6, <1>7, <1>8, <1>9 DEF Seguir, CompactarMemoria, Reintentar,
     RegistrarSegmento, LiberarSegmento, LiberarUno, ReanudarFalla, respaldo
<1>10. ASSUME NEW p \in Procesos, Cpu(p) \/ Atender(p) PROVE FALSE
  BY <1>10 DEF Cpu, PedirContexto, ActualizarContexto, Desalojar,
     GuardarContexto, Recibir, MemWrite, Despertar, Atender, CrearProceso,
     MemAllocRechazado, MemAlloc, MemFreeRechazado, MemFree, FinalizarProceso, SuspenderSinSwap,
     SuspenderProceso, ReanudarProceso, respaldo, operacion
<1> QED BY <1>2, <1>9, <1>10 DEF Next, Reposo, ConectarStick, CaerSwap, vars, respaldo, operacion

(* What a step does to the phase of a process, and to the counters.         *)
LEMMA TiposFase ==
  ASSUME TypeOK, Orden, Next, ~pisado'
  PROVE  /\ fase' \in [Procesos -> Fases] /\ paso' \in Pasos /\ pid' \in Procesos \cup {NADIE}
         /\ sticks' \in 0 .. MaxSticks /\ escrituras' \in 0 .. MaxEscrituras
         /\ swap' \in {"no", "si", "caida", "perdida"}
<1>1. /\ fase \in [Procesos -> Fases] /\ paso \in Pasos /\ pid \in Procesos \cup {NADIE}
      /\ sticks \in 0 .. MaxSticks /\ escrituras \in 0 .. MaxEscrituras
      /\ swap \in {"no", "si", "caida", "perdida"}
  BY DEF TypeOK
<1>2. CASE UNCHANGED vars
  BY <1>1, <1>2 DEF vars, procesos, memoria, respaldo, operacion
<1>3. CASE ConectarStick \/ ConectarSwap \/ CaerSwap
  BY <1>1, <1>3, SticksAssumption DEF ConectarStick, ConectarSwap, CaerSwap, procesos, memoria,
     respaldo, operacion
<1>4. ASSUME NEW p \in Procesos, Cpu(p)
      PROVE  /\ fase' \in [Procesos -> Fases] /\ escrituras' \in 0 .. MaxEscrituras
             /\ UNCHANGED <<paso, pid, sticks, swap>>
  BY <1>1, <1>4, EscriturasAssumption DEF Cpu, PedirContexto, ActualizarContexto, Desalojar,
     GuardarContexto, Recibir, MemWrite, Despertar,
     Pasar, Fases, procesos, memoria, respaldo, operacion
<1>5. ASSUME NEW p \in Procesos, Atender(p)
      PROVE  /\ fase' \in [Procesos -> Fases] /\ paso' \in Pasos /\ pid' \in {p, pid, NADIE}
             /\ UNCHANGED <<sticks, swap, escrituras>>
  <2>1. CASE MemAlloc(p)
    <3>1. paso' \in {"registrar", "espera_ok"}
      BY <2>1, Zenon DEF MemAlloc, Ocupar
    <3> QED BY <1>1, <2>1, <3>1 DEF MemAlloc, Pasos, procesos, respaldo
  <2>2. CASE CrearProceso(p) \/ MemAllocRechazado(p) \/ MemFreeRechazado(p) \/ SuspenderSinSwap(p)
               \/ SuspenderProceso(p)
    BY <1>1, <2>2 DEF CrearProceso, MemAllocRechazado, MemFreeRechazado, SuspenderSinSwap,
       SuspenderProceso, Responder, Pasar, Fases, Pasos, memoria, respaldo, operacion
  <2>3. CASE MemFree(p) \/ FinalizarProceso(p) \/ ReanudarProceso(p)
    BY <1>1, <2>3 DEF MemFree, FinalizarProceso, ReanudarProceso, Pasos, procesos, memoria, respaldo
  <2> QED BY <1>5, <2>1, <2>2, <2>3 DEF Atender
<1>6. CASE Seguir
  <2>1. CASE CompactarMemoria \/ LiberarUno \/ SuspenderSegmento \/ SuspenderFalla \/ ReanudarFalla
    BY <1>1, <2>1 DEF CompactarMemoria, LiberarUno, SuspenderSegmento, SuspenderFalla, ReanudarFalla,
       Pasos, procesos, memoria, respaldo
  <2>2. CASE Reintentar
    BY <1>1, <2>2 DEF Reintentar, Responder, Ocupar, Pasar, Fases, Pasos, respaldo
  <2>3. CASE RegistrarSegmento \/ LiberarSegmento \/ DestruirProceso \/ TerminarSuspension
    BY <1>1, <2>3 DEF RegistrarSegmento, LiberarSegmento, DestruirProceso, TerminarSuspension,
       Responder, Pasar, Fases, Pasos, memoria, respaldo
  <2>4. CASE ReanudarSegmento
    BY <1>1, <2>4 DEF ReanudarSegmento, procesos
  <2>5. CASE TerminarReanudacion
    BY <1>1, <2>5 DEF TerminarReanudacion, Responder, Pasar, Fases, Pasos
  <2> QED BY <1>6, <2>1, <2>2, <2>3, <2>4, <2>5 DEF Seguir
<1> QED BY <1>1, <1>2, <1>3, <1>4, <1>5, <1>6 DEF Next, Reposo

LEMMA TiposCpu ==
  ASSUME TypeOK, Next
  PROVE  /\ ctx' \in [Procesos -> SUBSET Segmentos] /\ pisado' \in BOOLEAN
         /\ \A g \in porGuardar' : g.pid \in Procesos /\ g.tabla \subseteq Segmentos
<1>1. /\ ctx \in [Procesos -> SUBSET Segmentos] /\ tabla \in [Procesos -> SUBSET Segmentos]
      /\ \A g \in porGuardar : g.pid \in Procesos /\ g.tabla \subseteq Segmentos
      /\ pisado \in BOOLEAN
  BY DEF TypeOK
<1>2. ASSUME NEW p \in Procesos, Cpu(p)
      PROVE  /\ ctx' \in [Procesos -> SUBSET Segmentos] /\ pisado' \in BOOLEAN
             /\ \A g \in porGuardar' : g.pid \in Procesos /\ g.tabla \subseteq Segmentos
  <2>1. \/ pisado' = pisado \/ \E t : Recibir(p, t)
        \/ \E so \in MmuTraducir(p) : pisado' = (so[1] \notin tabla[p])
    BY <1>2 DEF Cpu, PedirContexto, ActualizarContexto, Desalojar, GuardarContexto, MemWrite,
       Despertar, cpus
  <2>2. pisado' \in BOOLEAN
    BY <1>1, <2>1 DEF Recibir
  <2>3. ctx' \in [Procesos -> SUBSET Segmentos]
    BY <1>1, <1>2 DEF Cpu, PedirContexto, ActualizarContexto, Desalojar, GuardarContexto, MemWrite,
       Despertar, cpus
  <2>4. \/ porGuardar' \subseteq porGuardar
        \/ porGuardar' = porGuardar \cup {[pid |-> p, tabla |-> ctx[p]]}
    BY <1>2 DEF Cpu, PedirContexto, ActualizarContexto, Desalojar, GuardarContexto, MemWrite,
       Despertar, cpus
  <2> QED BY <1>1, <2>2, <2>3, <2>4
<1>3. CASE UNCHANGED cpus
  BY <1>1, <1>3 DEF cpus
<1>4. ASSUME NEW p \in Procesos, Atender(p) PROVE UNCHANGED cpus
  BY <1>4 DEF Atender, CrearProceso, MemAllocRechazado, MemAlloc, MemFreeRechazado, MemFree,
     FinalizarProceso, SuspenderSinSwap, SuspenderProceso, ReanudarProceso, procesos
<1>5. ASSUME Seguir PROVE UNCHANGED cpus
  BY <1>5 DEF Seguir, CompactarMemoria, Reintentar, RegistrarSegmento, LiberarSegmento, LiberarUno,
     DestruirProceso, SuspenderSegmento, SuspenderFalla, TerminarSuspension, ReanudarSegmento,
     ReanudarFalla, TerminarReanudacion, procesos
<1> QED BY <1>2, <1>3, <1>4, <1>5 DEF Next, Reposo, ConectarStick, ConectarSwap, CaerSwap, procesos, vars

LEMMA TiposTabla ==
  ASSUME TypeOK, Orden, RepartoVivo, Next, ~pisado'
  PROVE  tabla' \in [Procesos -> SUBSET Segmentos]
<1>0. ~pisado
  BY SinPisar
<1>1. ctx \in [Procesos -> SUBSET Segmentos] /\ tabla \in [Procesos -> SUBSET Segmentos]
      /\ sueltos \subseteq Segmentos
  BY DEF TypeOK
<1> SUFFICES ASSUME UNCHANGED tabla => FALSE PROVE tabla' \in [Procesos -> SUBSET Segmentos]
  BY <1>1
<1>2. ASSUME NEW p \in Procesos, Cpu(p) PROVE tabla' \in [Procesos -> SUBSET Segmentos]
  BY <1>1, <1>2 DEF Cpu, PedirContexto, ActualizarContexto, Desalojar,
     GuardarContexto, Recibir, MemWrite, Despertar, memoria
<1>3. ASSUME NEW p \in Procesos, Atender(p) PROVE tabla' \in [Procesos -> SUBSET Segmentos]
  <2>1. MemFree(p) \/ FinalizarProceso(p)
    BY <1>3 DEF Atender, CrearProceso, MemAllocRechazado, MemAlloc, MemFreeRechazado,
       SuspenderSinSwap, SuspenderProceso, ReanudarProceso, memoria
  <2>2. tabla' = [tabla EXCEPT ![p] = {}] \/ \E s \in tabla[p] : tabla' = [tabla EXCEPT ![p] = @ \ {s}]
    BY <2>1 DEF MemFree, FinalizarProceso
  <2>3. \A s : tabla[p] \ {s} \subseteq Segmentos
    BY <1>1
  <2> QED BY <1>1, <2>2, <2>3
<1>4. CASE CompactarMemoria
  <2>1. /\ tabla' = [p \in Procesos |-> {Mudado(s) : s \in tabla[p]}] /\ paso' = "reintentar"
        /\ UNCHANGED <<sticks, sueltos>> /\ paso = "espera_ok"
    BY <1>4 DEF CompactarMemoria
  <2>2. BienPuestos(Todos, Tope)' /\ sueltos' = {}
    BY <1>0, <1>4, <2>1, RepartoCompactar DEF Orden, Operacion, Reparto, RepartoVivo, Entero
  <2>3. Tope' <= Limite /\ Limite \in Nat /\ Tope' \in Nat
    BY <2>1, TopeFacts, LimiteNat DEF Tope
  <2>4. ASSUME NEW p \in Procesos, NEW s \in tabla[p] PROVE Mudado(s) \in Segmentos
    <3>1. Mudado(s) \in tabla'[p]
      BY <2>1
    <3>2. Mudado(s) \in Todos'
      BY <2>1, <2>2, <3>1, TodosEnTablasPrima
    <3>3. Mudado(s).base \in 0 .. Limite - 1
      BY <2>2, <2>3, <3>2 DEF BienPuestos, Tramos, Tramo
    <3>4. s \in Segmentos /\ Mudado(s) = [s EXCEPT !.base = NuevaBase(s)]
      BY <1>1 DEF Mudado
    <3>5. Mudado(s).id = s.id /\ Mudado(s).tam = s.tam /\ s.id \in Ids /\ s.tam \in Tamanios
          /\ Mudado(s) = [id |-> s.id, base |-> Mudado(s).base, tam |-> s.tam]
      BY <3>4 DEF Segmentos
    <3> QED BY <3>3, <3>5 DEF Segmentos, Limite
  <2> QED BY <2>1, <2>4
<1>5. CASE RegistrarSegmento
  BY <1>1, <1>5 DEF RegistrarSegmento
<1>6. CASE TerminarSuspension
  BY <1>1, <1>6 DEF TerminarSuspension
<1>7. CASE TerminarReanudacion
  BY <1>1, <1>7 DEF TerminarReanudacion
<1>8. CASE Seguir
  BY <1>4, <1>5, <1>6, <1>7, <1>8 DEF Seguir, Reintentar, LiberarSegmento, LiberarUno,
     DestruirProceso, SuspenderSegmento, SuspenderFalla, ReanudarSegmento, ReanudarFalla, memoria
<1> QED BY <1>2, <1>3, <1>8 DEF Next, Reposo, ConectarStick, ConectarSwap, CaerSwap, vars, memoria

LEMMA TiposSueltos ==
  ASSUME TypeOK, Orden, RepartoVivo, Next, ~pisado'
  PROVE  sueltos' \subseteq Segmentos
<1>0. ~pisado
  BY SinPisar
<1>1. tabla \in [Procesos -> SUBSET Segmentos] /\ sueltos \subseteq Segmentos
  BY DEF TypeOK
<1> SUFFICES ASSUME UNCHANGED sueltos => FALSE PROVE sueltos' \subseteq Segmentos
  BY <1>1
<1>2. ASSUME NEW p \in Procesos, Atender(p) PROVE sueltos' \subseteq Segmentos
  <2>1. CASE MemAlloc(p)
    <3>1. Reparto
      BY <1>0, <2>1 DEF RepartoVivo, Entero, MemAlloc
    <3> QED BY <2>1, <3>1, RepartoMemAlloc
  <2>2. CASE MemFree(p) \/ FinalizarProceso(p)
    BY <1>1, <2>2 DEF MemFree, FinalizarProceso
  <2> QED BY <1>2, <2>1, <2>2 DEF Atender, CrearProceso, MemAllocRechazado, MemFreeRechazado,
       SuspenderSinSwap, SuspenderProceso, ReanudarProceso, operacion
<1>3. CASE Seguir
  <2>1. CASE Reintentar
    <3>1. Reparto
      BY <1>0, <2>1 DEF RepartoVivo, Entero, Reintentar
    <3> QED BY <2>1, <3>1, RepartoReintentar
  <2>2. CASE ReanudarSegmento
    <3>1. Reparto
      BY <1>0, <2>2 DEF RepartoVivo, Entero, ReanudarSegmento
    <3> QED BY <2>2, <3>1, RepartoReanudar
  <2> QED BY <1>1, <1>3, <2>1, <2>2 DEF Seguir, CompactarMemoria, RegistrarSegmento, LiberarSegmento,
       LiberarUno, DestruirProceso, SuspenderSegmento, SuspenderFalla, TerminarSuspension,
       ReanudarFalla, TerminarReanudacion, operacion
<1> QED BY <1>2, <1>3 DEF Next, Reposo, ConectarStick, ConectarSwap, CaerSwap, Cpu, PedirContexto,
     ActualizarContexto, Desalojar,
     GuardarContexto, Recibir, MemWrite, Despertar, vars, operacion

(* The holes are what is left of some set of bytes, even after an operation *)
(* that failed half way.                                                    *)
LEMMA TopePaso ==
  ASSUME TypeOK, Orden, Next, ~pisado'
  PROVE  Tope' \in Nat /\ Tope' <= Limite
<1>1. sticks' \in 0 .. MaxSticks
  BY TiposFase
<1>2. \A n \in 0 .. MaxSticks : n * TamStick \in Nat /\ n * TamStick <= MaxSticks * TamStick
  <2> SUFFICES ASSUME NEW n \in 0 .. MaxSticks
               PROVE  n * TamStick \in Nat /\ n * TamStick <= MaxSticks * TamStick
    OBVIOUS
  <2>1. \A a, b, c \in Nat : a <= b => a * c <= b * c
    OBVIOUS
  <2> QED BY <2>1, SticksAssumption
<1> QED BY <1>1, <1>2 DEF Tope, Limite

LEMMA MaximosDe ==
  ASSUME TypeOK, Orden, Next, ~pisado', Reparto'
  PROVE  HuecosMaximos'
<1> DEFINE F == Libre(Todos', Tope')
<1>1. F \in SUBSET (0 .. Limite - 1)
  <2> DEFINE S == Todos'
             t == Tope'
  <2>1. t \in Nat /\ t <= Limite
    BY TopePaso
  <2> HIDE DEF S, t
  <2>2. Libre(S, t) \subseteq 0 .. Limite - 1
    BY <2>1, LibreDentro
  <2> QED BY <2>2 DEF S, t
<1>2. huecos' = Corridas(F)
  BY DEF Reparto
<1> HIDE DEF F
<1>3. \E G \in SUBSET (0 .. Limite - 1) : huecos' = Corridas(G)
  BY <1>1, <1>2
<1> QED BY <1>3 DEF HuecosMaximos, Corridas, Limite, Huecos

LEMMA MaximosPaso ==
  ASSUME TypeOK, Orden, RepartoVivo, HuecosMaximos, Next, ~pisado'
  PROVE  HuecosMaximos'
<1>0. ~pisado
  BY SinPisar
<1>1. RepartoVivo'
  BY RepartoPaso
<1>2. CASE huecos' = huecos
  BY <1>2 DEF HuecosMaximos, Corridas, Limite, Huecos
<1>3. CASE paso' # "a_medias"
  BY <1>1, <1>3, MaximosDe DEF RepartoVivo, Entero
<1>4. CASE paso' = "a_medias" /\ huecos' # huecos
  <2>1. ReanudarFalla
    <3>1. \A p \in Procesos : ~(Cpu(p) /\ huecos' # huecos)
      BY DEF Cpu, PedirContexto, ActualizarContexto, Desalojar,
     GuardarContexto, Recibir, MemWrite, Despertar, memoria
    <3>2. \A p \in Procesos : Atender(p) => paso' # "a_medias"
      <4> SUFFICES ASSUME NEW p \in Procesos, Atender(p) PROVE paso' # "a_medias"
        OBVIOUS
      <4>1. CASE MemAlloc(p)
        BY <4>1, Zenon DEF MemAlloc, Ocupar
      <4> QED BY <4>1 DEF Atender, CrearProceso, MemAllocRechazado, MemFreeRechazado, MemFree,
           FinalizarProceso, SuspenderSinSwap, SuspenderProceso, ReanudarProceso, Responder, operacion
    <3>3. Seguir => ReanudarFalla
      BY <1>4 DEF Seguir, CompactarMemoria, Reintentar, RegistrarSegmento, LiberarSegmento, LiberarUno,
         DestruirProceso, SuspenderSegmento, SuspenderFalla, TerminarSuspension, ReanudarSegmento,
         TerminarReanudacion, Responder, Ocupar, memoria
    <3>4. ~Reposo
      BY <1>4 DEF Reposo, vars, memoria
    <3>5. ~ConectarStick
      BY <1>4, <3>4 DEF ConectarStick, operacion, Next, Entero
    <3> QED BY <1>4, <3>1, <3>2, <3>3, <3>4, <3>5 DEF Next, ConectarSwap, CaerSwap, memoria
  <2> QED BY <1>0, <2>1, RepartoReanudarFalla DEF RepartoVivo, ReanudarFalla, Entero
<1> QED BY <1>2, <1>3, <1>4

LEMMA TypeOKPaso ==
  ASSUME TypeOK, Orden, RepartoVivo, HuecosMaximos, Next, ~pisado'
  PROVE  TypeOK' /\ Orden'
<1>1. TiposSwap' /\ libres' \in Seq(1 .. CantBloques)
  BY TiposSwapPaso
<1>2. Orden'
  BY <1>1, IdentificadoresPaso, SuspendidosPaso, OperacionPaso DEF Orden
<1>3. huecos' \subseteq Huecos
  BY MaximosPaso DEF HuecosMaximos, Corridas, Huecos
<1>4. \A p \in Procesos : \A ss \in suspendidos'[p] \cup movidos' :
        ss.id \in Ids /\ ss.tam \in Tamanios /\ ss.bloques \in Seq(DOMAIN disco')
  <2>1. /\ suspendidos' \in [Procesos -> SUBSET Registros] /\ movidos' \subseteq Registros
        /\ DOMAIN disco' = 1 .. CantBloques
    BY <1>1 DEF TiposSwap
  <2> QED BY <2>1, RegistrosFacts
<1>5. /\ fase' \in [Procesos -> Fases] /\ paso' \in Pasos /\ pid' \in Procesos \cup {NADIE}
      /\ sticks' \in 0 .. MaxSticks /\ escrituras' \in 0 .. MaxEscrituras
      /\ swap' \in {"no", "si", "caida", "perdida"}
  BY TiposFase
<1>6. ctx' \in [Procesos -> SUBSET Segmentos] /\ tabla' \in [Procesos -> SUBSET Segmentos]
      /\ sueltos' \subseteq Segmentos /\ pisado' \in BOOLEAN
      /\ \A g \in porGuardar' : g.pid \in Procesos /\ g.tabla \subseteq Segmentos
  BY TiposCpu, TiposTabla, TiposSueltos
<1>7. TypeOK'
  BY <1>1, <1>3, <1>4, <1>5, <1>6 DEF TypeOK, Segmentos, Huecos
<1> QED BY <1>2, <1>7

(***************************************************************************)
(* The room a compaction makes                                              *)
(***************************************************************************)
(* A stick that connects before the retry does not break the hole that was  *)
(* made for it.                                                             *)
LEMMA LugarConectar ==
  ASSUME TypeOK, Reparto, ConectarStick
  PROVE  /\ Cardinality(Libre(Todos, Tope)) <= Cardinality(Libre(Todos, Tope))'
         /\ Cardinality(Libre(Todos, Tope))' \in Nat
         /\ \A h \in huecos : \E g \in huecos' : h.tam <= g.tam
<1>1. Reparto' /\ Todos' = Todos /\ Tope' = Tope + TamStick
  BY RepartoConectar
<1>2. Tope \in Nat /\ Tope + TamStick <= Limite /\ TamStick \in Nat
  BY TopeFacts, SticksAssumption DEF ConectarStick
<1> DEFINE F == Libre(Todos, Tope)
           G == Libre(Todos, Tope + TamStick)
<1>3. F \subseteq G /\ G \subseteq 0 .. Limite - 1 /\ IsFiniteSet(0 .. Limite - 1)
  BY <1>2, LimiteNat, FS_Interval DEF Libre
<1>4. huecos = Corridas(F) /\ huecos' = Corridas(G)
  BY <1>1 DEF Reparto
<1>5. Libre(Todos, Tope)' = G
  BY <1>1 DEF Libre, Cubiertos, Rango
<1> HIDE DEF F, G
<1>6. Cardinality(F) <= Cardinality(G) /\ Cardinality(G) \in Nat
  <2>1. IsFiniteSet(G)
    BY <1>3, FS_Subset
  <2> QED BY <1>3, <2>1, FS_Subset, FS_CardinalityType
<1>7. ASSUME NEW h \in huecos PROVE \E g \in huecos' : h.tam <= g.tam
  <2>1. /\ h \in Huecos /\ Tramo(h)
        /\ \A b \in Int : h.base <= b /\ b < h.base + h.tam => b \in G
    BY <1>3, <1>4, CorridaFacts
  <2>2. h.base \in Nat /\ h.tam \in Nat \ {0}
    BY <2>1 DEF Tramo
  <2>3. \E g \in Corridas(G) : g.base <= h.base /\ h.base + h.tam <= g.base + g.tam
    BY <1>3, <2>1, <2>2, CorridaDe
  <2>4. PICK g \in Corridas(G) : g.base <= h.base /\ h.base + h.tam <= g.base + g.tam
    BY <2>3
  <2>5. g.base \in Nat /\ g.tam \in Nat
    BY <2>4, CorridaFacts DEF Tramo
  <2>6. h.tam <= g.tam
    BY <2>2, <2>4, <2>5
  <2> QED BY <1>4, <2>4, <2>6
<1> QED BY <1>5, <1>6, <1>7 DEF F

LEMMA HayLugarPaso ==
  ASSUME TypeOK, Orden, RepartoVivo, HayLugar, Next, ~pisado'
  PROVE  HayLugar'
<1>1. TypeOK /\ RepartoVivo' /\ ~pisado
  BY RepartoPaso, SinPisar
<1>2. Operacion' /\ Operacion
  BY OperacionPaso DEF Orden
<1>3. CASE UNCHANGED <<huecos, sticks, paso, pedido>> /\ Todos' = Todos
  <2>1. Libre(Todos, Tope)' = Libre(Todos, Tope)
    BY <1>3 DEF Libre, Cubiertos, Rango, Tope
  <2> QED BY <1>1, <1>3, <2>1 DEF HayLugar, TrasCompactarHayLugar, Alcanzan, Entero
<1>4. CASE UNCHANGED vars
  <2>1. \A q \in Tenedores : Tiene(q)' = Tiene(q)
    BY <1>4, TieneEstable DEF vars, memoria, operacion
  <2>2. Todos' = Todos
    BY <2>1, TodosDe, TodosDePrima
  <2> QED BY <1>3, <1>4, <2>2 DEF vars, memoria, operacion
<1> SUFFICES ASSUME paso # "a_medias", Reparto, paso' \in {"espera_ok", "reintentar"},
                    ConectarStick \/ ConectarSwap \/ CaerSwap \/ Seguir
                      \/ \E p \in Procesos : Cpu(p) \/ Atender(p)
             PROVE  HayLugar'
  BY <1>1, <1>4 DEF Next, Reposo, RepartoVivo, HayLugar, TrasCompactarHayLugar, Entero
<1>5. CASE ConectarSwap \/ CaerSwap \/ \E p \in Procesos : Cpu(p)
  BY <1>3, <1>5, RepartoCpu
<1>6. CASE ConectarStick
  <2>1. UNCHANGED <<paso, pedido>>
    BY <1>6 DEF ConectarStick, operacion
  <2>2. pedido.tam \in Nat
    BY <1>2, <2>1, TamaniosNat DEF Operacion, Pidiendo
  <2>3. /\ Cardinality(Libre(Todos, Tope)) <= Cardinality(Libre(Todos, Tope))'
        /\ Cardinality(Libre(Todos, Tope))' \in Nat
        /\ \A h \in huecos : \E g \in huecos' : h.tam <= g.tam
    BY <1>6, LugarConectar
  <2>4. Reparto' /\ Todos' = Todos /\ Tope' = Tope + TamStick
    BY <1>6, RepartoConectar
  <2>5. CASE paso = "espera_ok"
    <3>1. Cardinality(Libre(Todos, Tope)) \in Nat
      BY SumaDeHuecos DEF Reparto
    <3>2. Cardinality(Libre(Todos, Tope))' \in Nat
      BY <2>3
    <3>3. pedido.tam <= Cardinality(Libre(Todos, Tope))
      BY <1>1, <2>5 DEF HayLugar, Entero
    <3>4. pedido'.tam <= Cardinality(Libre(Todos, Tope))'
      BY <2>1, <2>2, <2>3, <3>1, <3>2, <3>3
    <3> QED BY <2>1, <2>5, <3>4 DEF HayLugar, TrasCompactarHayLugar
  <2>6. CASE paso = "reintentar"
    <3>1. PICK h \in huecos : h.tam >= pedido.tam
      BY <2>6 DEF HayLugar, TrasCompactarHayLugar, Alcanzan
    <3>2. PICK g \in huecos' : h.tam <= g.tam
      BY <2>3
    <3>3. h.tam \in Nat /\ g.tam \in Nat
      BY <2>4 DEF Reparto, Corridas, Huecos
    <3>4. g.tam >= pedido.tam
      BY <2>2, <3>1, <3>2, <3>3
    <3>5. Alcanzan(pedido.tam)' # {}
      BY <2>1, <3>4 DEF Alcanzan
    <3> QED BY <2>1, <2>6, <3>5 DEF HayLugar, TrasCompactarHayLugar
  <2> QED BY <2>1, <2>5, <2>6
<1>7. ASSUME NEW p \in Procesos, Atender(p) PROVE HayLugar'
  <2>1. MemAlloc(p)
    BY <1>7 DEF Atender, CrearProceso, MemAllocRechazado, MemFreeRechazado, MemFree,
       FinalizarProceso, SuspenderSinSwap, SuspenderProceso, ReanudarProceso, Responder, operacion
  <2>2. PICK i \in Ids, t \in Tamanios :
          /\ pedido' = [id |-> i, tam |-> t] /\ Suma(huecos) >= t
          /\ paso' = "espera_ok" /\ UNCHANGED <<huecos, sueltos>>
    BY <2>1, Zenon DEF MemAlloc, Ocupar
  <2>3. UNCHANGED <<tabla, sticks, movidos>> /\ paso = "espera"
    BY <2>1 DEF MemAlloc
  <2>4. ASSUME NEW q \in Tenedores PROVE Tiene(q)' = Tiene(q)
    <3>1. CASE q = NADIE
      BY <2>2, <2>3, <3>1, TieneFacts, TieneFactsPrima
    <3>2. CASE q \in Procesos
      BY <2>2, <2>3, <3>2, TieneFacts, TieneFactsPrima
    <3> QED BY <3>1, <3>2 DEF Tenedores
  <2>5. Todos' = Todos
    BY <2>4, TodosDe, TodosDePrima
  <2>6. Libre(Todos, Tope)' = Libre(Todos, Tope)
    BY <2>3, <2>5 DEF Libre, Cubiertos, Rango, Tope
  <2>7. Suma(huecos) = Cardinality(Libre(Todos, Tope)) /\ Cardinality(Libre(Todos, Tope)) \in Nat
    BY SumaDeHuecos DEF Reparto
  <2>8. pedido'.tam <= Cardinality(Libre(Todos, Tope))'
    BY <2>2, <2>6, <2>7, TamaniosNat
  <2> QED BY <2>2, <2>8 DEF HayLugar, TrasCompactarHayLugar
<1>8. CASE Seguir
  <2>1. CompactarMemoria
    BY <1>8 DEF Seguir, Reintentar, RegistrarSegmento, LiberarSegmento, LiberarUno, DestruirProceso,
       SuspenderSegmento, SuspenderFalla, TerminarSuspension, ReanudarSegmento, ReanudarFalla,
       TerminarReanudacion, Responder, Ocupar
  <2>2. paso = "espera_ok" /\ paso' = "reintentar" /\ pedido' = pedido
    BY <2>1 DEF CompactarMemoria
  <2>3. pedido.tam \in Nat \ {0} /\ pedido.tam <= Cardinality(Libre(Todos, Tope))
    BY <1>1, <1>2, <2>2, TamaniosNat DEF Operacion, Pidiendo, HayLugar, Entero
  <2>4. \E h \in huecos' : h.tam >= pedido.tam
    BY <2>1, <2>3, RepartoCompactar
  <2>5. Alcanzan(pedido.tam)' # {}
    BY <2>2, <2>4 DEF Alcanzan
  <2> QED BY <2>2, <2>5 DEF HayLugar, TrasCompactarHayLugar
<1> QED BY <1>5, <1>6, <1>7, <1>8

(***************************************************************************)
(* The blocks of swap                                                       *)
(***************************************************************************)
Bloques ==
  /\ IsInjective(libres)
  /\ \A p \in Procesos : \A s \in EnSwap(p) :
       IsInjective(s.bloques) /\ \A b : ~(Contains(s.bloques, b) /\ Contains(libres, b))
  /\ \A p, q \in Procesos : \A s \in EnSwap(p), t \in EnSwap(q) : \A b :
       Contains(s.bloques, b) /\ Contains(t.bloques, b) => p = q /\ s = t
  /\ swap # "no" => \A b \in 1 .. CantBloques :
       Contains(libres, b) \/ \E p \in Procesos : \E s \in EnSwap(p) : Contains(s.bloques, b)
  /\ swap = "no" => libres = <<>> /\ \A p \in Procesos : EnSwap(p) = {}
BloquesVivos == Entero => Bloques

LEMMA EnSwapFacts ==
  \A p \in Procesos :
    /\ ~(paso \in {"suspender", "reanudar"} /\ pid = p) => EnSwap(p) = suspendidos[p]
    /\ paso = "suspender" /\ pid = p => EnSwap(p) = suspendidos[p] \cup movidos
    /\ paso = "reanudar" /\ pid = p => EnSwap(p) = PorTraer
BY DEF EnSwap

LEMMA EnSwapFactsPrima ==
  \A p \in Procesos :
    /\ ~(paso' \in {"suspender", "reanudar"} /\ pid' = p) => EnSwap(p)' = suspendidos'[p]
    /\ paso' = "suspender" /\ pid' = p => EnSwap(p)' = suspendidos'[p] \cup movidos'
    /\ paso' = "reanudar" /\ pid' = p => EnSwap(p)' = PorTraer'
BY DEF EnSwap

LEMMA EnSwapEstable ==
  ASSUME UNCHANGED <<suspendidos, paso, pid, sueltos, movidos>>
  PROVE  \A p \in Procesos : EnSwap(p)' = EnSwap(p)
BY DEF EnSwap, PorTraer

LEMMA SinTraer == sueltos = {} => PorTraer = suspendidos[pid]
BY DEF PorTraer, IdsDe

LEMMA EnSwapTipo ==
  ASSUME Orden
  PROVE  \A p \in Procesos : EnSwap(p) \subseteq Registros
BY EnSwapFacts DEF Orden, TiposSwap, PorTraer

(* A list that is cut in two.                                               *)
LEMMA PartenLista ==
  ASSUME NEW S, NEW q \in Seq(S), IsInjective(q), NEW n \in Nat, n <= Len(q)
  PROVE  LET a == SubSeq(q, 1, n)
             r == SubSeq(q, n + 1, Len(q))
         IN  /\ IsInjective(a) /\ IsInjective(r)
             /\ \A b : Contains(q, b) <=> Contains(a, b) \/ Contains(r, b)
             /\ \A b : ~(Contains(a, b) /\ Contains(r, b))
<1> DEFINE a == SubSeq(q, 1, n)
           r == SubSeq(q, n + 1, Len(q))
<1>1. /\ a \in Seq(S) /\ Len(a) = n /\ \A i \in 1 .. n : a[i] = q[i]
      /\ r \in Seq(S) /\ Len(r) = Len(q) - n /\ \A i \in 1 .. Len(q) - n : r[i] = q[n + i]
  BY Parten
<1> HIDE DEF a, r
<1>2. SinRepetidos(q) /\ Len(q) \in Nat
  BY Vueltas
<1>3. SinRepetidos(a) /\ SinRepetidos(r)
  <2>1. ASSUME NEW i \in 1 .. n, NEW j \in 1 .. n, q[i] = q[j] PROVE i = j
    BY <1>2, <2>1 DEF SinRepetidos
  <2>2. ASSUME NEW i \in 1 .. Len(q) - n, NEW j \in 1 .. Len(q) - n, q[n + i] = q[n + j] PROVE i = j
    <3>1. n + i \in 1 .. Len(q) /\ n + j \in 1 .. Len(q)
      BY <1>2
    <3>2. n + i = n + j
      BY <1>2, <2>2, <3>1 DEF SinRepetidos
    <3> QED BY <3>2
  <2>3. SinRepetidos(a)
    BY <1>1, <2>1 DEF SinRepetidos
  <2>4. SinRepetidos(r)
    BY <1>1, <2>2 DEF SinRepetidos
  <2> QED BY <2>3, <2>4
<1>4. IsInjective(a) /\ IsInjective(r)
  BY <1>1, <1>3, Vueltas
<1>5. ASSUME NEW b, Contains(q, b) PROVE Contains(a, b) \/ Contains(r, b)
  <2>1. PICK i \in 1 .. Len(q) : q[i] = b
    BY <1>5 DEF Contains
  <2>2. CASE i <= n
    <3>1. i \in 1 .. Len(a) /\ a[i] = b
      BY <1>1, <1>2, <2>1, <2>2
    <3> QED BY <3>1 DEF Contains
  <2>3. CASE i > n
    <3>1. i - n \in 1 .. Len(r) /\ r[i - n] = q[n + (i - n)] /\ n + (i - n) = i
      BY <1>1, <1>2, <2>1, <2>3
    <3> QED BY <2>1, <3>1 DEF Contains
  <2> QED BY <2>2, <2>3
<1>6. \A b : Contains(a, b) => \E i \in 1 .. n : q[i] = b
  BY <1>1 DEF Contains
<1>7. \A b : Contains(r, b) => \E i \in n + 1 .. Len(q) : q[i] = b
  <2> SUFFICES ASSUME NEW b, Contains(r, b) PROVE \E i \in n + 1 .. Len(q) : q[i] = b
    OBVIOUS
  <2>1. PICK i \in 1 .. Len(q) - n : r[i] = b
    BY <1>1 DEF Contains
  <2>2. n + i \in n + 1 .. Len(q) /\ q[n + i] = b
    BY <1>1, <1>2, <2>1
  <2> QED BY <2>2
<1>8. \A b : Contains(a, b) \/ Contains(r, b) => Contains(q, b)
  <2>1. \A b : (\E i \in 1 .. Len(q) : q[i] = b) => Contains(q, b)
    BY DEF Contains
  <2>2. 1 .. n \subseteq 1 .. Len(q) /\ n + 1 .. Len(q) \subseteq 1 .. Len(q)
    BY <1>2
  <2> QED BY <1>6, <1>7, <2>1, <2>2
<1>9. \A b : ~(Contains(a, b) /\ Contains(r, b))
  BY <1>2, <1>6, <1>7 DEF SinRepetidos
<1> QED BY <1>4, <1>5, <1>8, <1>9 DEF a, r

(* The blocks that were taken for a segment and are put back in the list.   *)
LEMMA GiranLista ==
  ASSUME NEW S, NEW q \in Seq(S), IsInjective(q), NEW n \in Nat, n <= Len(q)
  PROVE  LET g == SubSeq(q, n + 1, Len(q)) \o SubSeq(q, 1, n)
         IN  g \in Seq(S) /\ IsInjective(g) /\ \A b : Contains(g, b) <=> Contains(q, b)
<1> DEFINE a == SubSeq(q, 1, n)
           r == SubSeq(q, n + 1, Len(q))
<1>1. a \in Seq(S) /\ r \in Seq(S)
  BY Parten
<1>2. /\ IsInjective(a) /\ IsInjective(r)
      /\ \A b : Contains(q, b) <=> Contains(a, b) \/ Contains(r, b)
      /\ \A b : ~(Contains(a, b) /\ Contains(r, b))
  BY PartenLista
<1> HIDE DEF a, r
<1>3. r \o a \in Seq(S) /\ IsInjective(r \o a) /\ \A b : Contains(r \o a, b) <=> Contains(r, b) \/ Contains(a, b)
  BY <1>1, <1>2, ConcatLista
<1> QED BY <1>2, <1>3 DEF a, r

(* The blocks stay where they are.                                          *)
LEMMA BloquesMismo ==
  ASSUME Bloques, \A p \in Procesos : EnSwap(p)' = EnSwap(p), swap = "no" <=> swap' = "no",
         swap = "no" => libres' = libres,
         IsInjective(libres'), \A b : Contains(libres', b) <=> Contains(libres, b)
  PROVE  Bloques'
<1>1. \A p \in Procesos : \A t \in EnSwap(p)' :
        IsInjective(t.bloques) /\ \A b : ~(Contains(t.bloques, b) /\ Contains(libres', b))
  BY DEF Bloques
<1>2. \A p, q \in Procesos : \A t \in EnSwap(p)', u \in EnSwap(q)' : \A b :
        Contains(t.bloques, b) /\ Contains(u.bloques, b) => p = q /\ t = u
  BY DEF Bloques
<1>3. swap' # "no" => \A b \in 1 .. CantBloques :
        Contains(libres', b) \/ \E p \in Procesos : \E t \in EnSwap(p)' : Contains(t.bloques, b)
  BY DEF Bloques
<1>4. swap' = "no" => libres' = <<>> /\ \A p \in Procesos : EnSwap(p)' = {}
  BY DEF Bloques
<1> QED BY <1>1, <1>2, <1>3, <1>4 DEF Bloques

LEMMA BloquesIguales ==
  ASSUME Bloques, \A p \in Procesos : EnSwap(p)' = EnSwap(p), swap = "no" <=> swap' = "no",
         libres' = libres
  PROVE  Bloques'
BY BloquesMismo DEF Bloques

(* The steps that do not move a segment to swap or back.                    *)
LEMMA BloquesQuietos ==
  ASSUME TypeOK, Orden, Bloques, paso # "a_medias",
         \/ ConectarStick \/ CaerSwap
         \/ CompactarMemoria \/ Reintentar \/ RegistrarSegmento \/ LiberarSegmento \/ LiberarUno
         \/ \E p \in Procesos : Cpu(p) \/ Atender(p)
  PROVE  Bloques'
<1>1. Operacion /\ paso # "a_medias" /\ NADIE \notin Procesos
  BY NadieMemoriaAssumption DEF Orden
<1>2. CASE ConectarStick \/ CaerSwap \/ LiberarUno \/ \E p \in Procesos : Cpu(p)
  <2>1. UNCHANGED <<suspendidos, paso, pid, movidos, libres>> /\ (swap = "no" <=> swap' = "no")
    BY <1>2 DEF ConectarStick, CaerSwap, LiberarUno, Cpu, PedirContexto, ActualizarContexto, Desalojar,
     GuardarContexto, Recibir, MemWrite,
       Despertar, respaldo, operacion
  <2>2. LiberarUno \/ sueltos' = sueltos
    BY <1>2 DEF ConectarStick, CaerSwap, Cpu, PedirContexto, ActualizarContexto, Desalojar,
     GuardarContexto, Recibir, MemWrite,
       Despertar, operacion
  <2>3. CASE sueltos' = sueltos
    BY <2>1, <2>3, EnSwapEstable, BloquesIguales
  <2>4. CASE LiberarUno
    <3>1. paso = "finalizar"
      BY <2>4 DEF LiberarUno
    <3>2. \A p \in Procesos : EnSwap(p)' = EnSwap(p)
      BY <2>1, <3>1, EnSwapFacts, EnSwapFactsPrima
    <3> QED BY <2>1, <3>2, BloquesIguales
  <2> QED BY <2>2, <2>3, <2>4
<1>3. CASE CompactarMemoria \/ Reintentar \/ RegistrarSegmento \/ LiberarSegmento
  <2>1. /\ UNCHANGED <<suspendidos, swap, libres>> /\ paso \notin {"suspender", "reanudar"}
        /\ paso' \in {"reintentar", "registrar", "espera"}
    BY <1>3 DEF CompactarMemoria, Reintentar, RegistrarSegmento, LiberarSegmento, Responder, Ocupar,
       respaldo
  <2>2. \A p \in Procesos : EnSwap(p)' = EnSwap(p)
    BY <2>1, EnSwapFacts, EnSwapFactsPrima
  <2> QED BY <2>1, <2>2, BloquesIguales
<1>4. ASSUME NEW p \in Procesos, Atender(p) PROVE Bloques'
  <2>1. /\ UNCHANGED <<suspendidos, swap, libres>> /\ paso = "espera"
        /\ paso' \in {"suspender", "reanudar"} => UNCHANGED <<sueltos, movidos>> /\ pid' \in Procesos
    BY <1>4, Zenon DEF Atender, CrearProceso, MemAllocRechazado, MemAlloc, MemFreeRechazado, MemFree,
       FinalizarProceso, SuspenderSinSwap, SuspenderProceso, ReanudarProceso, Responder, Ocupar,
       respaldo, operacion
  <2>2. sueltos = {} /\ movidos = {}
    BY <1>1, <2>1 DEF Operacion
  <2>3. sueltos' = {} => PorTraer' = suspendidos'[pid']
    BY DEF PorTraer, IdsDe
  <2>4. ASSUME NEW q \in Procesos PROVE EnSwap(q)' = EnSwap(q)
    <3>1. EnSwap(q) = suspendidos[q]
      BY <2>1, EnSwapFacts
    <3>2. EnSwap(q)' = suspendidos[q]
      BY <2>1, <2>2, <2>3, EnSwapFactsPrima
    <3> QED BY <3>1, <3>2
  <2> QED BY <2>1, <2>4, BloquesIguales
<1> QED BY <1>2, <1>3, <1>4

LEMMA BloquesConectar ==
  ASSUME Bloques, ConectarSwap
  PROVE  Bloques'
<1>1. /\ UNCHANGED <<suspendidos, paso, pid, sueltos, movidos>> /\ swap = "no" /\ swap' = "si"
      /\ libres' = [b \in 1 .. CantBloques |-> b]
  BY DEF ConectarSwap, operacion
<1>2. \A p \in Procesos : EnSwap(p)' = {}
  BY <1>1, EnSwapEstable DEF Bloques
<1>3. IsInjective(libres')
  BY <1>1 DEF IsInjective
<1>4. Len(libres') = CantBloques /\ \A b \in 1 .. CantBloques : libres'[b] = b
  BY <1>1, BloquesAssumption
<1>5. \A b \in 1 .. CantBloques : Contains(libres', b)
  BY <1>4 DEF Contains
<1> QED BY <1>1, <1>2, <1>3, <1>5 DEF Bloques

(* A segment takes blocks of the front of the list.                         *)
LEMMA BloquesSuspender ==
  ASSUME TypeOK, Orden, Bloques, SuspenderSegmento
  PROVE  Bloques'
<1>1. /\ UNCHANGED <<suspendidos, swap, paso, pid, sueltos>> /\ paso = "suspender" /\ swap = "si"
      /\ pid \in Procesos /\ tabla \in [Procesos -> SUBSET Segmentos]
      /\ libres \in Seq(1 .. CantBloques)
  BY DEF SuspenderSegmento, TypeOK, Orden, Operacion
<1>2. PICK s \in PorMover :
       /\ Len(libres) >= Cantidad(s.tam)
       /\ libres' = Restantes(s.tam)
       /\ movidos' = movidos \cup {[id |-> s.id, tam |-> s.tam, bloques |-> Asignados(s.tam)]}
  BY DEF SuspenderSegmento
<1>0. PICK p \in Procesos : p = pid
  BY <1>1
<1> DEFINE r == [id |-> s.id, tam |-> s.tam, bloques |-> Asignados(s.tam)]
           n == Cantidad(s.tam)
<1>3. r.bloques = SubSeq(libres, 1, n) /\ libres' = SubSeq(libres, n + 1, Len(libres))
  BY <1>2 DEF Asignados, Restantes
<1>4. n \in Nat /\ n <= Len(libres)
  BY <1>1, <1>2, CantidadNat, TamaniosNat DEF PorMover, Segmentos
<1>5. movidos' = movidos \cup {r}
  BY <1>2
<1> HIDE DEF r, n
<1>6. IsInjective(libres)
  BY DEF Bloques
<1>7. /\ IsInjective(r.bloques) /\ IsInjective(libres')
      /\ \A b : Contains(libres, b) <=> Contains(r.bloques, b) \/ Contains(libres', b)
      /\ \A b : ~(Contains(r.bloques, b) /\ Contains(libres', b))
  BY <1>1, <1>3, <1>4, <1>6, PartenLista
<1>8. /\ EnSwap(p)' = EnSwap(p) \cup {r}
      /\ \A q \in Procesos \ {p} : EnSwap(q)' = EnSwap(q)
  BY <1>0, <1>1, <1>5, EnSwapFacts, EnSwapFactsPrima
<1>9. \A q \in Procesos : \A t : t \in EnSwap(q)' <=> t \in EnSwap(q) \/ (q = p /\ t = r)
  BY <1>8
<1>10. \A q \in Procesos : \A t \in EnSwap(q)' :
         IsInjective(t.bloques) /\ \A b : ~(Contains(t.bloques, b) /\ Contains(libres', b))
  BY <1>7, <1>9 DEF Bloques
<1>11. ASSUME NEW q \in Procesos, NEW q2 \in Procesos, NEW t \in EnSwap(q)', NEW u \in EnSwap(q2)',
              NEW b, Contains(t.bloques, b), Contains(u.bloques, b)
       PROVE  q = q2 /\ t = u
  <2>1. CASE t \in EnSwap(q) /\ u \in EnSwap(q2)
    BY <1>11, <2>1 DEF Bloques
  <2>2. CASE t \in EnSwap(q) /\ q2 = p /\ u = r
    BY <1>7, <1>11, <2>2 DEF Bloques
  <2>3. CASE u \in EnSwap(q2) /\ q = p /\ t = r
    BY <1>7, <1>11, <2>3 DEF Bloques
  <2> QED BY <1>9, <2>1, <2>2, <2>3
<1>12. ASSUME NEW b \in 1 .. CantBloques
       PROVE  Contains(libres', b) \/ \E q \in Procesos : \E t \in EnSwap(q)' : Contains(t.bloques, b)
  BY <1>1, <1>7, <1>9 DEF Bloques
<1>13. \A q, q2 \in Procesos : \A t \in EnSwap(q)', u \in EnSwap(q2)' : \A b :
         Contains(t.bloques, b) /\ Contains(u.bloques, b) => q = q2 /\ t = u
  BY <1>11
<1> QED BY <1>1, <1>7, <1>10, <1>12, <1>13 DEF Bloques

(* The blocks of a segment that comes back join the list.                   *)
LEMMA BloquesReanudar ==
  ASSUME TypeOK, Orden, Bloques, ReanudarSegmento
  PROVE  Bloques'
<1>1. /\ UNCHANGED <<suspendidos, paso, pid, movidos>> /\ paso = "reanudar"
      /\ (swap = "no" <=> swap' = "no") /\ pid \in Procesos
      /\ libres \in Seq(1 .. CantBloques)
  BY DEF ReanudarSegmento, TypeOK, Orden, Operacion
<1>2. PICK ss \in PorTraer :
        /\ libres' = libres \o ss.bloques
        /\ sueltos' = sueltos \cup {[id |-> ss.id, base |-> Elegido(ss.tam).base, tam |-> ss.tam]}
  BY Zenon DEF ReanudarSegmento
<1>0. PICK p \in Procesos : p = pid
  BY <1>1
<1>3. PorTraer' = PorTraer \ {ss}
  <2> DEFINE x == [id |-> ss.id, base |-> Elegido(ss.tam).base, tam |-> ss.tam]
  <2>1. x.id = ss.id /\ sueltos' = sueltos \cup {x}
    BY <1>2
  <2> HIDE DEF x
  <2>2. \A i : i \in IdsDe(sueltos') <=> i \in IdsDe(sueltos) \/ i = ss.id
    BY <2>1 DEF IdsDe
  <2>3. \A t \in suspendidos[pid] : t.id = ss.id => t = ss
    BY <1>0, <1>2 DEF PorTraer, Orden, Identificadores, IdsDistintos
  <2>4. \A t : t \in PorTraer <=> t \in suspendidos[pid] /\ t.id \notin IdsDe(sueltos)
    BY DEF PorTraer
  <2>5. \A t : t \in PorTraer' <=> t \in suspendidos[pid] /\ t.id \notin IdsDe(sueltos')
    BY <1>1 DEF PorTraer
  <2> QED BY <1>2, <2>2, <2>3, <2>4, <2>5
<1>4. /\ EnSwap(p) = PorTraer /\ EnSwap(p)' = EnSwap(p) \ {ss}
      /\ \A q \in Procesos \ {p} : EnSwap(q)' = EnSwap(q)
  BY <1>0, <1>1, <1>3, EnSwapFacts, EnSwapFactsPrima
<1>5. ss \in EnSwap(p) /\ ss.bloques \in Seq(1 .. CantBloques)
  BY <1>2, <1>4, EnSwapTipo, RegistrosFacts
<1>6. IsInjective(libres) /\ IsInjective(ss.bloques) /\ \A b : ~(Contains(ss.bloques, b) /\ Contains(libres, b))
  BY <1>5 DEF Bloques
<1>7. IsInjective(libres') /\ \A b : Contains(libres', b) <=> Contains(libres, b) \/ Contains(ss.bloques, b)
  BY <1>1, <1>2, <1>5, <1>6, ConcatLista
<1>8. \A q \in Procesos : \A t : t \in EnSwap(q)' <=> t \in EnSwap(q) /\ ~(q = p /\ t = ss)
  <2> SUFFICES ASSUME NEW q \in Procesos, NEW t
               PROVE  t \in EnSwap(q)' <=> t \in EnSwap(q) /\ ~(q = p /\ t = ss)
    OBVIOUS
  <2>1. CASE q = p
    BY <1>4, <2>1
  <2>2. CASE q # p
    BY <1>4, <2>2
  <2> QED BY <2>1, <2>2
<1>9. \A q \in Procesos : \A t \in EnSwap(q)' : \A b : ~(Contains(t.bloques, b) /\ Contains(ss.bloques, b))
  BY <1>5, <1>8 DEF Bloques
<1>10. \A q \in Procesos : \A t \in EnSwap(q)' :
         IsInjective(t.bloques) /\ \A b : ~(Contains(t.bloques, b) /\ Contains(libres', b))
  BY <1>7, <1>8, <1>9 DEF Bloques
<1>11. \A q, q2 \in Procesos : \A t \in EnSwap(q)', u \in EnSwap(q2)' : \A b :
         Contains(t.bloques, b) /\ Contains(u.bloques, b) => q = q2 /\ t = u
  BY <1>8 DEF Bloques
<1>12. ASSUME swap # "no", NEW b \in 1 .. CantBloques
       PROVE  Contains(libres', b) \/ \E q \in Procesos : \E t \in EnSwap(q)' : Contains(t.bloques, b)
  BY <1>7, <1>8, <1>12 DEF Bloques
<1>13. swap # "no"
  BY <1>5 DEF Bloques
<1> QED BY <1>1, <1>7, <1>10, <1>11, <1>12, <1>13 DEF Bloques

LEMMA BloquesTerminar ==
  ASSUME TypeOK, Orden, Bloques,
         DestruirProceso \/ TerminarSuspension \/ TerminarReanudacion
           \/ (ReanudarFalla /\ paso' # "a_medias")
  PROVE  Bloques'
<1>1. /\ suspendidos \in [Procesos -> SUBSET Registros] /\ Operacion
      /\ libres \in Seq(1 .. CantBloques) /\ pid \in Procesos \cup {NADIE}
      /\ paso \notin {"espera", "a_medias"} => pid \in Procesos
  BY DEF Orden, TiposSwap, TypeOK, Operacion
<1>2. CASE DestruirProceso
  <2>1. /\ libres' = libres \o BloquesDe(suspendidos[pid]) /\ suspendidos[pid] = {}
        /\ suspendidos' = [suspendidos EXCEPT ![pid] = {}] /\ swap' = swap /\ paso = "finalizar"
        /\ paso' = "espera"
    BY <1>1, <1>2 DEF DestruirProceso, Operacion, Responder
  <2>2. libres' = libres
    BY <1>1, <2>1, SinBloques
  <2>3. \A p \in Procesos : suspendidos'[p] = suspendidos[p]
    BY <1>1, <2>1
  <2>4. \A p \in Procesos : EnSwap(p)' = EnSwap(p)
    BY <2>1, <2>3, EnSwapFacts, EnSwapFactsPrima
  <2> QED BY <2>1, <2>2, <2>4, BloquesIguales
<1>3. CASE TerminarSuspension
  <2>1. /\ suspendidos' = [suspendidos EXCEPT ![pid] = @ \cup movidos] /\ paso = "suspender"
        /\ paso' = "espera" /\ UNCHANGED <<swap, libres>> /\ pid \in Procesos
    BY <1>1, <1>3 DEF TerminarSuspension, Responder
  <2>2. \A p \in Procesos : suspendidos'[p] = IF p = pid THEN suspendidos[p] \cup movidos ELSE suspendidos[p]
    BY <1>1, <2>1
  <2>3. \A p \in Procesos : EnSwap(p)' = EnSwap(p)
    BY <2>1, <2>2, EnSwapFacts, EnSwapFactsPrima
  <2> QED BY <2>1, <2>3, BloquesIguales
<1>4. CASE TerminarReanudacion
  <2>1. /\ suspendidos' = [suspendidos EXCEPT ![pid] = {}] /\ paso = "reanudar" /\ PorTraer = {}
        /\ paso' = "espera" /\ UNCHANGED <<swap, libres>> /\ pid \in Procesos
    BY <1>1, <1>4 DEF TerminarReanudacion, Responder
  <2>2. \A p \in Procesos : suspendidos'[p] = IF p = pid THEN {} ELSE suspendidos[p]
    BY <1>1, <2>1
  <2>3. \A p \in Procesos : EnSwap(p)' = EnSwap(p)
    BY <2>1, <2>2, EnSwapFacts, EnSwapFactsPrima
  <2> QED BY <2>1, <2>3, BloquesIguales
<1>5. CASE ReanudarFalla /\ paso' # "a_medias"
  <2>1. /\ UNCHANGED <<suspendidos, swap, libres>> /\ paso = "reanudar" /\ paso' = "espera"
        /\ sueltos = {}
    BY <1>5 DEF ReanudarFalla, respaldo
  <2>2. \A p \in Procesos : EnSwap(p)' = EnSwap(p)
    BY <2>1, SinTraer, EnSwapFacts, EnSwapFactsPrima
  <2> QED BY <2>1, <2>2, BloquesIguales
<1> QED BY <1>2, <1>3, <1>4, <1>5

LEMMA BloquesSuspenderFalla ==
  ASSUME TypeOK, Orden, Bloques, SuspenderFalla, paso' # "a_medias"
  PROVE  Bloques'
<1>1. /\ suspendidos' = suspendidos /\ paso = "suspender" /\ paso' = "espera" /\ movidos = {}
      /\ pid \in Procesos /\ libres \in Seq(1 .. CantBloques)
      /\ tabla \in [Procesos -> SUBSET Segmentos]
  BY DEF SuspenderFalla, TypeOK, Orden, Operacion
<1>2. PICK s \in PorMover :
       \/ /\ libres' = libres \o BloquesDe(movidos) /\ UNCHANGED swap
       \/ /\ Len(libres) >= Cantidad(s.tam) /\ swap = "caida" /\ swap' = "perdida"
          /\ libres' = Restantes(s.tam) \o Asignados(s.tam) \o BloquesDe(movidos)
  BY DEF SuspenderFalla
<1>3. \A p \in Procesos : EnSwap(p)' = EnSwap(p)
  BY <1>1, EnSwapFacts, EnSwapFactsPrima
<1>4. BloquesDe(movidos) = <<>>
  BY <1>1, SinBloques
<1>5. CASE libres' = libres \o BloquesDe(movidos) /\ UNCHANGED swap
  <2>1. libres' = libres
    BY <1>1, <1>4, <1>5
  <2> QED BY <1>3, <1>5, <2>1, BloquesIguales
<1>6. CASE /\ Len(libres) >= Cantidad(s.tam) /\ swap = "caida" /\ swap' = "perdida"
           /\ libres' = Restantes(s.tam) \o Asignados(s.tam) \o BloquesDe(movidos)
  <2>0. s.tam \in Tamanios
    BY <1>1, <1>2 DEF PorMover, Segmentos
  <2>1. Cantidad(s.tam) \in Nat
    BY <2>0, CantidadNat, TamaniosNat
  <2> DEFINE g == Restantes(s.tam) \o Asignados(s.tam)
             n == Cantidad(s.tam)
  <2>2. n \in Nat /\ n <= Len(libres) /\ g = SubSeq(libres, n + 1, Len(libres)) \o SubSeq(libres, 1, n)
    BY <1>1, <1>6, <2>1 DEF Asignados, Restantes
  <2>3. libres' = g \o <<>>
    BY <1>4, <1>6
  <2> HIDE DEF g, n
  <2>4. IsInjective(libres)
    BY DEF Bloques
  <2>5. g \in Seq(1 .. CantBloques) /\ IsInjective(g) /\ \A b : Contains(g, b) <=> Contains(libres, b)
    BY <1>1, <2>2, <2>4, GiranLista
  <2>6. libres' = g
    BY <2>3, <2>5
  <2> QED BY <1>3, <1>6, <2>5, <2>6, BloquesMismo
<1> QED BY <1>2, <1>5, <1>6

LEMMA BloquesPaso ==
  ASSUME TypeOK, Orden, BloquesVivos, Next, ~pisado'
  PROVE  BloquesVivos'
<1>0. ~pisado
  BY SinPisar
<1> SUFFICES ASSUME paso' # "a_medias" PROVE Bloques'
  BY DEF BloquesVivos, Entero
<1>1. CASE UNCHANGED vars
  <2>1. UNCHANGED <<suspendidos, swap, libres, paso, pid, sueltos, movidos>>
    BY <1>1 DEF vars, respaldo, operacion
  <2> QED BY <1>0, <2>1, EnSwapEstable, BloquesIguales DEF BloquesVivos, Entero
<1> SUFFICES ASSUME paso # "a_medias", Bloques,
                    ConectarStick \/ ConectarSwap \/ CaerSwap \/ Seguir
                      \/ \E p \in Procesos : Cpu(p) \/ Atender(p)
             PROVE  Bloques'
  BY <1>0, <1>1 DEF Next, Reposo, BloquesVivos, Entero
<1>2. CASE Seguir
  BY <1>2, BloquesQuietos, BloquesSuspender, BloquesReanudar, BloquesTerminar,
     BloquesSuspenderFalla DEF Seguir
<1> QED BY <1>2, BloquesQuietos, BloquesConectar

(***************************************************************************)
(* The invariant                                                            *)
(***************************************************************************)
IInv ==
  /\ TypeOK /\ OrdenVivo
  /\ RepartoVivo /\ HuecosMaximos
  /\ HayLugar /\ BloquesVivos

LEMMA Inicial == Init => IInv
<1> SUFFICES ASSUME Init PROVE IInv
  OBVIOUS
<1> USE NadieMemoriaAssumption, SticksAssumption, BloquesAssumption, EscriturasAssumption DEF Init
<1>1. TypeOK
  <2>1. /\ fase \in [Procesos -> Fases] /\ paso \in Pasos
        /\ ctx \in [Procesos -> SUBSET Segmentos] /\ tabla \in [Procesos -> SUBSET Segmentos]
    BY DEF Fases, Pasos
  <2>2. /\ porGuardar = {} /\ pisado \in BOOLEAN /\ swap \in {"no", "si", "caida", "perdida"}
    OBVIOUS
  <2>5. sticks \in 0 .. MaxSticks /\ escrituras \in 0 .. MaxEscrituras
    OBVIOUS
  <2>3. /\ huecos = {} /\ sueltos = {} /\ pid \in Procesos \cup {NADIE}
        /\ libres \in Seq(1 .. CantBloques)
    OBVIOUS
  <2>4. \A p \in Procesos : suspendidos[p] \cup movidos = {}
    OBVIOUS
  <2> QED BY <2>1, <2>2, <2>3, <2>4, <2>5 DEF TypeOK
<1>2. Orden
  <2>1. TiposSwap
    BY DEF TiposSwap
  <2>2. Identificadores
    BY IdsVacio, FS_EmptySet DEF Identificadores
  <2>3. Suspendidos
    BY DEF Suspendidos
  <2>4. Operacion
    BY DEF Operacion, Pidiendo
  <2> QED BY <2>1, <2>2, <2>3, <2>4 DEF Orden
<1>3. Corridas({}) = {}
  <2> SUFFICES ASSUME NEW h \in Corridas({}) PROVE FALSE
    OBVIOUS
  <2>1. h.base \in Nat /\ h.tam \in Nat \ {0}
        /\ \A b \in Int : h.base <= b /\ b < h.base + h.tam => b \in {}
    BY CorridaFacts DEF Tramo
  <2>2. h.base \in Int /\ h.base <= h.base /\ h.base < h.base + h.tam
    BY <2>1
  <2> QED BY <2>1, <2>2
<1>4. Reparto
  <2>1. \A p \in Tenedores : Tiene(p) = {}
    BY TieneFacts DEF Tenedores
  <2>2. Todos = {} /\ DeUno
    BY <2>1, TodosDe DEF DeUno
  <2>3. Tope = 0
    BY DEF Tope
  <2>4. BienPuestos({}, 0)
    BY FS_EmptySet, LimiteNat DEF BienPuestos, Tramos, Disjuntos
  <2>5. Libre({}, 0) = {}
    BY DEF Libre
  <2> QED BY <1>3, <2>2, <2>3, <2>4, <2>5 DEF Reparto
<1>5. HuecosMaximos
  BY <1>3, LimiteNat DEF HuecosMaximos
<1>6. HayLugar
  BY DEF HayLugar, TrasCompactarHayLugar
<1>7. BloquesVivos
  <2>1. \A p \in Procesos : EnSwap(p) = {}
    BY EnSwapFacts
  <2>2. IsInjective(libres)
    BY DEF IsInjective
  <2> QED BY <2>1, <2>2 DEF BloquesVivos, Bloques
<1> QED BY <1>1, <1>2, <1>4, <1>5, <1>6, <1>7 DEF IInv, OrdenVivo, RepartoVivo

(* A CPU that uses a table that is out of date changes a table or the bytes  *)
(* of the sticks, and no hole, block or type.                               *)
LEMMA PasoPisado ==
  ASSUME IInv, Next, pisado'
  PROVE  IInv'
<1>1. /\ UNCHANGED <<huecos, sticks, suspendidos, swap, libres, disco, paso, pid, pedido, sueltos, movidos>>
      /\ UNCHANGED vars \/ \E p \in Procesos : ActualizarContexto(p) \/ GuardarContexto(p) \/ MemWrite(p)
  <2>1. CASE UNCHANGED vars
    BY <2>1 DEF vars, memoria, respaldo, operacion
  <2>2. CASE ~UNCHANGED vars
    <3>1. ~pisado
      BY <2>2 DEF Next, Reposo, Entero
    <3>2. Seguir => UNCHANGED pisado
      BY DEF Seguir, CompactarMemoria, Reintentar, RegistrarSegmento, LiberarSegmento, LiberarUno,
         DestruirProceso, SuspenderSegmento, SuspenderFalla, TerminarSuspension, ReanudarSegmento,
         ReanudarFalla, TerminarReanudacion, procesos, cpus
    <3>3. \A p \in Procesos : Atender(p) => UNCHANGED pisado
      BY DEF Atender, CrearProceso, MemAllocRechazado, MemAlloc, MemFreeRechazado, MemFree,
         FinalizarProceso, SuspenderSinSwap, SuspenderProceso, ReanudarProceso, procesos, cpus
    <3>4. \E p \in Procesos : ActualizarContexto(p) \/ GuardarContexto(p) \/ MemWrite(p)
      BY <2>2, <3>1, <3>2, <3>3 DEF Next, Reposo, ConectarStick, ConectarSwap, CaerSwap, Cpu,
         PedirContexto, Desalojar, Despertar, procesos, cpus
    <3> QED BY <3>4 DEF ActualizarContexto, GuardarContexto, MemWrite, respaldo, operacion
  <2> QED BY <2>1, <2>2
<1>2. /\ fase \in [Procesos -> Fases] /\ tabla \in [Procesos -> SUBSET Segmentos]
      /\ ctx \in [Procesos -> SUBSET Segmentos] /\ escrituras \in 0 .. MaxEscrituras
      /\ \A g \in porGuardar : g.tabla \subseteq Segmentos
  BY DEF IInv, TypeOK
<1>3. fase' \in [Procesos -> Fases] /\ escrituras' \in 0 .. MaxEscrituras
  <2>1. CASE UNCHANGED vars
    BY <1>2, <2>1 DEF vars, procesos, memoria
  <2>2. ASSUME NEW p \in Procesos, ActualizarContexto(p)
        PROVE  fase' \in [Procesos -> Fases] /\ escrituras' = escrituras
    BY <1>2, <2>2 DEF ActualizarContexto, Pasar, Fases
  <2>3. ASSUME NEW p \in Procesos, GuardarContexto(p)
        PROVE  fase' = fase /\ escrituras' = escrituras
    BY <2>3 DEF GuardarContexto
  <2>4. ASSUME NEW p \in Procesos, MemWrite(p)
        PROVE  fase' = fase /\ escrituras' = escrituras + 1 /\ escrituras < MaxEscrituras
    BY <2>4 DEF MemWrite
  <2>5. escrituras < MaxEscrituras => escrituras + 1 \in 0 .. MaxEscrituras
    BY <1>2, EscriturasAssumption
  <2> QED BY <1>1, <1>2, <2>1, <2>2, <2>3, <2>4, <2>5
<1>4. tabla' \in [Procesos -> SUBSET Segmentos]
  <2>1. \/ tabla' = tabla
        \/ \E p \in Procesos, u \in SUBSET Segmentos : tabla' = [tabla EXCEPT ![p] = u]
    <3>1. ASSUME NEW p \in Procesos, NEW u \in SUBSET Segmentos, Recibir(p, u)
          PROVE  tabla' = tabla \/ tabla' = [tabla EXCEPT ![p] = u]
      BY <3>1 DEF Recibir
    <3>2. \A p \in Procesos : ActualizarContexto(p) => Recibir(p, ctx[p]) /\ ctx[p] \in SUBSET Segmentos
      BY <1>2 DEF ActualizarContexto
    <3>3. \A p \in Procesos : GuardarContexto(p) => \E u \in SUBSET Segmentos : Recibir(p, u)
      BY <1>2 DEF GuardarContexto
    <3>4. \A p \in Procesos : MemWrite(p) => tabla' = tabla
      BY DEF MemWrite
    <3> QED BY <1>1, <3>1, <3>2, <3>3, <3>4 DEF vars, memoria
  <2> QED BY <1>2, <2>1
<1>5. TypeOK'
  <2>1. TypeOK
    BY DEF IInv
  <2> QED BY <1>1, <1>3, <1>4, <2>1, TiposCpu DEF TypeOK, Segmentos, Huecos
<1>6. HuecosMaximos' /\ TrasCompactarHayLugar'
  BY <1>1 DEF IInv, HuecosMaximos, HayLugar, TrasCompactarHayLugar, Alcanzan, Corridas, Limite, Huecos
<1> QED BY <1>5, <1>6 DEF IInv, OrdenVivo, RepartoVivo, HayLugar, BloquesVivos, Entero

LEMMA Paso == IInv /\ [Next]_vars => IInv'
<1> SUFFICES ASSUME IInv, [Next]_vars PROVE IInv'
  OBVIOUS
<1>1. CASE Next /\ ~pisado'
  <2>1. Orden
    BY <1>1, SinPisar DEF IInv, OrdenVivo
  <2> QED BY <1>1, <2>1, TypeOKPaso, RepartoPaso, MaximosPaso, HayLugarPaso, BloquesPaso
          DEF IInv, OrdenVivo
<1>2. CASE UNCHANGED vars
  <2>1. UNCHANGED <<fase, ctx, porGuardar, pisado, tabla, huecos, bytes, sticks, escrituras,
                    suspendidos, swap, libres, disco, paso, pid, pedido, sueltos, movidos>>
    BY <1>2 DEF vars, procesos, cpus, memoria, respaldo, operacion
  <2>2. TypeOK'
    BY <2>1 DEF IInv, TypeOK, Segmentos, Huecos
  <2>3. OrdenVivo'
    BY <2>1 DEF IInv, OrdenVivo, Orden, TiposSwap, Identificadores, Suspendidos, Operacion, IdsDe,
       IdsDistintos
  <2>4. Todos' = Todos /\ (DeUno => DeUno')
    <3>1. \A q \in Tenedores : Tiene(q)' = Tiene(q)
      BY <2>1, TieneEstable
    <3> QED BY <3>1, TodosDe, TodosDePrima DEF DeUno
  <2>5. Tope' = Tope /\ Libre(Todos, Tope)' = Libre(Todos, Tope) /\ Entero' = Entero
    BY <2>1, <2>4 DEF Tope, Libre, Cubiertos, Rango, Entero
  <2>6. RepartoVivo' /\ HuecosMaximos'
    BY <2>1, <2>4, <2>5, RepartoMismo DEF IInv, RepartoVivo, Reparto, HuecosMaximos, Corridas, Limite, Huecos
  <2>7. HayLugar'
    BY <2>1, <2>5 DEF IInv, HayLugar, TrasCompactarHayLugar, Alcanzan
  <2>8. BloquesVivos'
    BY <2>1, <2>5, EnSwapEstable, BloquesIguales DEF IInv, BloquesVivos
  <2> QED BY <2>2, <2>3, <2>6, <2>7, <2>8 DEF IInv
<1>3. CASE Next /\ pisado'
  BY <1>3, PasoPisado
<1> QED BY <1>1, <1>2, <1>3

LEMMA Inductivo == Spec => []IInv
BY Inicial, Paso, PTL DEF Spec

(* Every variable of Kernel Memory has its type, whatever the processes ask *)
(* for, whenever sticks and swap connect and whichever operation fails.     *)
THEOREM TipoCorrecto == Spec => []TypeOK
BY Inductivo, PTL DEF IInv

LEMMA ParticionDeReparto ==
  ASSUME TypeOK, Reparto
  PROVE  CadaByteDeUno
<1> SUFFICES ASSUME NEW b \in 0 .. Tope - 1 PROVE Cardinality(Duenos(b)) = 1
  BY DEF CadaByteDeUno
<1> DEFINE F == Libre(Todos, Tope)
<1>1. /\ F \subseteq 0 .. Limite - 1 /\ huecos = Corridas(F) /\ DeUno
      /\ Tramos(Todos) /\ Disjuntos(Todos) /\ b \in Nat
  BY TopeFacts, LibreDentro DEF Reparto, BienPuestos
<1>2. b \in F <=> \A s \in Todos : b \notin Rango(s)
  <2>1. b \in Cubiertos(Todos) <=> \E s \in Todos : b \in Rango(s)
    BY DEF Cubiertos
  <2> QED BY <2>1 DEF Libre
<1> HIDE DEF F
<1>3. \A x : x \in Duenos(b) <=>
        \/ \E h \in huecos : b \in Rango(h) /\ x = <<NADIE, h>>
        \/ \E p \in Tenedores : \E s \in Tiene(p) : b \in Rango(s) /\ x = <<p, s>>
  <2> SUFFICES ASSUME NEW x
               PROVE  x \in Duenos(b) <=>
                        \/ \E h \in huecos : b \in Rango(h) /\ x = <<NADIE, h>>
                        \/ \E p \in Tenedores : \E s \in Tiene(p) : b \in Rango(s) /\ x = <<p, s>>
    OBVIOUS
  <2>1. x \in Duenos(b) <=>
          \/ \E h \in huecos : b \in Rango(h) /\ x = <<NADIE, h>>
          \/ \E s \in Tiene(NADIE) : b \in Rango(s) /\ x = <<NADIE, s>>
          \/ \E p \in Procesos : \E s \in EnMemoria(p) : b \in Rango(s) /\ x = <<p, s>>
    BY DEF Duenos, Tiene
  <2>2. \A p \in Procesos : EnMemoria(p) = Tiene(p)
    BY NadieMemoriaAssumption DEF Tiene
  <2> QED BY <2>1, <2>2, TieneFacts DEF Tenedores
<1>4. \A h \in huecos : b \in Rango(h) => b \in F
  BY <1>1 DEF Corridas
<1>5. \A h, g \in huecos : b \in Rango(h) /\ b \in Rango(g) => h = g
  <2> SUFFICES ASSUME NEW h \in huecos, NEW g \in huecos, b \in Rango(h), b \in Rango(g), h # g
               PROVE  FALSE
    OBVIOUS
  <2>1. h.base + h.tam < g.base \/ g.base + g.tam < h.base
    BY <1>1, CorridasSeparadas
  <2>2. h.base \in Nat /\ h.tam \in Nat /\ g.base \in Nat /\ g.tam \in Nat
    BY <1>1, CorridaFacts DEF Tramo
  <2> QED BY <2>1, <2>2 DEF Rango
<1>6. \A s, t \in Todos : b \in Rango(s) /\ b \in Rango(t) => s = t
  <2> SUFFICES ASSUME NEW s \in Todos, NEW t \in Todos, b \in Rango(s), b \in Rango(t), s # t
               PROVE  FALSE
    OBVIOUS
  <2>1. Antes(s, t) \/ Antes(t, s)
    BY <1>1 DEF Disjuntos
  <2>2. s.base \in Nat /\ s.tam \in Nat /\ t.base \in Nat /\ t.tam \in Nat
    BY <1>1 DEF Tramos, Tramo
  <2> QED BY <2>1, <2>2 DEF Rango, Antes
<1>7. \E x : Duenos(b) = {x}
  <2>1. CASE b \in F
    <3>0. b \in Cubiertos(huecos)
      BY <1>1, <2>1, CorridasCubren
    <3>1. PICK h \in huecos : b \in Rango(h)
      BY <3>0 DEF Cubiertos
    <3>2. \A x : x \in Duenos(b) <=> x = <<NADIE, h>>
      BY <1>2, <1>3, <1>5, <2>1, <3>1, TodosDe
    <3>5. Duenos(b) = {<<NADIE, h>>}
      BY <3>2
    <3> QED BY <3>5
  <2>2. CASE b \notin F
    <3>1. PICK s \in Todos : b \in Rango(s)
      BY <1>2, <2>2
    <3>2. PICK p \in Tenedores : s \in Tiene(p)
      BY TodosDe
    <3>3. \A q \in Tenedores : \A t \in Tiene(q) : b \in Rango(t) => t = s /\ q = p
      BY <1>1, <1>6, <3>1, <3>2, TodosDe DEF DeUno
    <3>4. \A x : x \in Duenos(b) <=> x = <<p, s>>
      BY <1>3, <1>4, <2>2, <3>1, <3>2, <3>3
    <3>5. Duenos(b) = {<<p, s>>}
      BY <3>4
    <3> QED BY <3>5
  <2> QED BY <2>1, <2>2
<1> QED BY <1>7, FS_Singleton

(* Every byte of the sticks is in exactly one hole or one segment, while    *)
(* MEM_ALLOC, MEM_FREE, EXIT, suspensions, resumptions and compactions move *)
(* segments between the holes, the thread of operations and the tables.     *)
THEOREM ParticionSiempre == Spec => []Particion
<1>1. IInv => Particion
  BY ParticionDeReparto DEF IInv, RepartoVivo, Particion
<1> QED BY <1>1, Inductivo, PTL

(* No two holes touch, even after an operation that failed half way: what   *)
(* is free and together is one hole, and a request that fits in it finds it. *)
THEOREM HuecosFusionadosSiempre == Spec => []HuecosFusionados
<1>1. IInv => HuecosFusionados
  <2> SUFFICES ASSUME IInv, NEW h \in huecos, NEW g \in huecos PROVE h.base + h.tam # g.base
    BY DEF HuecosFusionados
  <2>1. PICK F \in SUBSET (0 .. Limite - 1) : huecos = Corridas(F)
    BY DEF IInv, HuecosMaximos
  <2>2. h.base \in Nat /\ h.tam \in Nat \ {0} /\ g.base \in Nat /\ g.tam \in Nat \ {0}
    BY <2>1, CorridaFacts DEF Tramo
  <2>3. h = g \/ h.base + h.tam < g.base \/ g.base + g.tam < h.base
    BY <2>1, CorridasSeparadas
  <2> QED BY <2>2, <2>3
<1> QED BY <1>1, Inductivo, PTL

(* The retry of a MEM_ALLOC after the compaction it asked for always finds  *)
(* a hole, whatever connects or writes between the two.                     *)
THEOREM TrasCompactarHayLugarSiempre == Spec => []TrasCompactarHayLugar
BY Inductivo, PTL DEF IInv, HayLugar

LEMMA BloquesUnicos ==
  ASSUME TypeOK, Orden, Bloques
  PROVE  CadaBloqueDeUno
<1> SUFFICES ASSUME swap # "no", NEW b \in 1 .. CantBloques PROVE Cardinality(UsosDe(b)) = 1
  BY DEF CadaBloqueDeUno, Orden, TiposSwap
<1>1. libres \in Seq(1 .. CantBloques) /\ DOMAIN libres = 1 .. Len(libres) /\ NADIE \notin Procesos
  BY NadieMemoriaAssumption DEF TypeOK
<1>2. \A x : x \in UsosDe(b) <=>
        \/ \E i \in 1 .. Len(libres) : libres[i] = b /\ x = <<NADIE, i>>
        \/ \E p \in Procesos : \E s \in EnSwap(p) : Contains(s.bloques, b) /\ x = <<p, s.id>>
  BY <1>1 DEF UsosDe
<1>3. \E x : UsosDe(b) = {x}
  <2>1. CASE Contains(libres, b)
    <3>1. PICK i \in 1 .. Len(libres) : libres[i] = b
      BY <2>1 DEF Contains
    <3>2. \A j \in 1 .. Len(libres) : libres[j] = b => j = i
      BY <1>1, <3>1 DEF Bloques, IsInjective
    <3>3. \A p \in Procesos : \A s \in EnSwap(p) : ~Contains(s.bloques, b)
      BY <2>1 DEF Bloques
    <3>4. \A x : x \in UsosDe(b) <=> x = <<NADIE, i>>
      BY <1>2, <3>1, <3>2, <3>3
    <3>5. UsosDe(b) = {<<NADIE, i>>}
      BY <3>4
    <3> QED BY <3>5
  <2>2. CASE ~Contains(libres, b)
    <3>0. PICK p \in Procesos : \E s \in EnSwap(p) : Contains(s.bloques, b)
      BY <2>2 DEF Bloques
    <3>1. PICK s \in EnSwap(p) : Contains(s.bloques, b)
      BY <3>0
    <3>2. \A q \in Procesos : \A t \in EnSwap(q) : Contains(t.bloques, b) => q = p /\ t = s
      BY <3>1 DEF Bloques
    <3>3. \A i \in 1 .. Len(libres) : libres[i] # b
      BY <2>2 DEF Contains
    <3>4. \A x : x \in UsosDe(b) <=> x = <<p, s.id>>
      BY <1>2, <3>1, <3>2, <3>3
    <3>5. UsosDe(b) = {<<p, s.id>>}
      BY <3>4
    <3> QED BY <3>5
  <2> QED BY <2>1, <2>2
<1> QED BY <1>3, FS_Singleton

(* Every block of swap is free, or of one segment of one process, and the   *)
(* list of free blocks does not repeat one: suspensions and resumptions,    *)
(* and the ones that fail before they move anything, neither leak a block   *)
(* nor give it twice.                                                       *)
THEOREM BloquesDeUnSoloSiempre == Spec => []BloquesDeUnSolo
<1>1. IInv => BloquesDeUnSolo
  BY BloquesUnicos DEF IInv, OrdenVivo, BloquesVivos, BloquesDeUnSolo, Entero
<1> QED BY <1>1, Inductivo, PTL
=============================================================================
