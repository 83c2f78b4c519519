------------------------------ MODULE Secuencias ------------------------------
(* Facts about the sequence operators that model the lists of the scheduler *)
(* (list_remove, queue_pop, the searches by pid), for its proof modules.    *)
EXTENDS Integers, Sequences, SequencesExt, SequenceTheorems, FiniteSetTheorems,
        WellFoundedInduction, TLAPS

(* list_remove(s, i) drops exactly that element and keeps the order.        *)
LEMMA RemoveAtProperties ==
  ASSUME NEW S, NEW s \in Seq(S), NEW i \in 1 .. Len(s)
  PROVE  /\ RemoveAt(s, i) \in Seq(S)
         /\ Len(RemoveAt(s, i)) = Len(s) - 1
         /\ \A k \in 1 .. Len(s) - 1 :
              RemoveAt(s, i)[k] = IF k < i THEN s[k] ELSE s[k + 1]
<1> DEFINE izq == SubSeq(s, 1, i - 1)
           der == SubSeq(s, i + 1, Len(s))
<1>0. /\ Len(s) \in Nat /\ i \in Int
      /\ \A j \in 1 .. Len(s) : s[j] \in S
  BY ElementOfSeq, LenProperties
<1>1. /\ izq \in Seq(S) /\ Len(izq) = i - 1
      /\ \A k \in 1 .. i - 1 : izq[k] = s[k]
  <2>1. \A j \in 1 .. i - 1 : s[j] \in S
    BY <1>0
  <2>2. /\ izq \in Seq(S)
        /\ Len(izq) = IF 1 <= i - 1 THEN i - 1 - 1 + 1 ELSE 0
        /\ \A k \in 1 .. i - 1 - 1 + 1 : izq[k] = s[1 + k - 1]
    BY <2>1, <1>0, SubSeqProperties, 1 \in Int, i - 1 \in Int
  <2> QED BY <2>2, <1>0
<1>2. /\ der \in Seq(S) /\ Len(der) = Len(s) - i
      /\ \A k \in 1 .. Len(s) - i : der[k] = s[i + k]
  <2>1. \A j \in i + 1 .. Len(s) : s[j] \in S
    BY <1>0
  <2>2. /\ der \in Seq(S)
        /\ Len(der) = IF i + 1 <= Len(s) THEN Len(s) - (i + 1) + 1 ELSE 0
        /\ \A k \in 1 .. Len(s) - (i + 1) + 1 : der[k] = s[i + 1 + k - 1]
    BY <2>1, <1>0, SubSeqProperties, i + 1 \in Int, Len(s) \in Int
  <2> QED BY <2>2, <1>0
<1>3. /\ izq \o der \in Seq(S)
      /\ Len(izq \o der) = Len(izq) + Len(der)
      /\ \A k \in 1 .. Len(izq) + Len(der) :
           (izq \o der)[k] = IF k <= Len(izq) THEN izq[k] ELSE der[k - Len(izq)]
  BY <1>1, <1>2, ConcatProperties
<1>4. RemoveAt(s, i) = izq \o der
  BY DEF RemoveAt
<1> HIDE DEF izq, der
<1>5. Len(izq \o der) = Len(s) - 1
  BY <1>0, <1>1, <1>2, <1>3
<1>6. ASSUME NEW k \in 1 .. Len(s) - 1
      PROVE  (izq \o der)[k] = IF k < i THEN s[k] ELSE s[k + 1]
  <2>1. CASE k < i
    BY <2>1, <1>0, <1>1, <1>2, <1>3
  <2>2. CASE ~(k < i)
    <3>1. k - Len(izq) \in 1 .. Len(s) - i /\ ~(k <= Len(izq))
      BY <2>2, <1>0, <1>1
    <3>2. i + (k - Len(izq)) = k + 1
      BY <1>0, <1>1
    <3>3. k \in 1 .. Len(izq) + Len(der)
      BY <1>0, <1>1, <1>2
    <3>4. (izq \o der)[k] = der[k - Len(izq)]
      BY <3>1, <3>3, <1>3
    <3>5. der[k - Len(izq)] = s[i + (k - Len(izq))]
      BY <3>1, <1>2
    <3> QED BY <3>2, <3>4, <3>5, <2>2
  <2> QED BY <2>1, <2>2
<1> QED BY <1>3, <1>4, <1>5, <1>6

(* Searches take the smallest index: it exists.                             *)
LEMMA MinProperties ==
  ASSUME NEW I, I \subseteq Nat, I # {}
  PROVE  Min(I) \in I /\ \A j \in I : Min(I) <= j
<1> DEFINE R == {ss \in Nat \X Nat : ss[1] < ss[2]}
<1>1. IsWellFoundedOn(R, Nat)
  BY NatLessThanWellFounded DEF OpToRel
<1>2. \E x \in I : \A y \in I : ~(<<y, x>> \in R)
  <2> HIDE DEF R
  <2> QED BY <1>1, WFMin
<1>3. \E x \in I : \A y \in I : x <= y
  <2>1. PICK x \in I : \A y \in I : ~(<<y, x>> \in R)
    BY <1>2
  <2>2. ASSUME NEW y \in I PROVE x <= y
    <3>1. <<y, x>> \in Nat \X Nat /\ <<y, x>>[1] = y /\ <<y, x>>[2] = x
      OBVIOUS
    <3>2. ~(y < x)
      BY <2>1, <3>1
    <3> QED BY <3>2
  <2> QED BY <2>2
<1> QED BY <1>3 DEF Min

(* Removing the first occurrence of an element, when there is one.          *)
LEMMA RemoveFirstProperties ==
  ASSUME NEW S, NEW s \in Seq(S), NEW e
  PROVE  /\ RemoveFirst(s, e) \in Seq(S)
         /\ ~Contains(s, e) => RemoveFirst(s, e) = s
         /\ Contains(s, e) =>
              \E i \in 1 .. Len(s) : s[i] = e /\ RemoveFirst(s, e) = RemoveAt(s, i)
<1> DEFINE I == {i \in 1 .. Len(s) : s[i] = e}
<1>1. CASE I = {}
  BY <1>1 DEF RemoveFirst, Contains
<1>2. CASE I # {}
  <2>1. Min(I) \in I
    <3>1. I \subseteq Nat
      BY LenProperties
    <3> HIDE DEF I
    <3> QED BY <1>2, <3>1, MinProperties
  <2>2. RemoveFirst(s, e) = RemoveAt(s, Min(I))
    BY <1>2 DEF RemoveFirst, SelectInSeq
  <2>3. Contains(s, e)
    BY <1>2 DEF Contains
  <2> HIDE DEF I
  <2>4. Min(I) \in 1 .. Len(s) /\ s[Min(I)] = e
    BY <2>1 DEF I
  <2> QED BY <2>2, <2>3, <2>4, RemoveAtProperties
<1> QED BY <1>1, <1>2

(* Lists without repetitions, and what is in them after each operation.     *)
SinRepetidos(s) == \A i, j \in 1 .. Len(s) : s[i] = s[j] => i = j

LEMMA AppendLista ==
  ASSUME NEW S, NEW s \in Seq(S), NEW e \in S
  PROVE  /\ \A x : Contains(Append(s, e), x) <=> Contains(s, x) \/ x = e
         /\ SinRepetidos(s) /\ ~Contains(s, e) => SinRepetidos(Append(s, e))
<1>1. /\ Len(s) \in Nat /\ Len(Append(s, e)) = Len(s) + 1
      /\ Append(s, e)[Len(s) + 1] = e
      /\ \A i \in 1 .. Len(s) : Append(s, e)[i] = s[i]
  BY AppendProperties, LenProperties
<1>2. 1 .. Len(s) + 1 = 1 .. Len(s) \cup {Len(s) + 1}
  BY <1>1
<1> QED BY <1>1, <1>2 DEF Contains, SinRepetidos

LEMMA ConsLista ==
  ASSUME NEW S, NEW s \in Seq(S), NEW e \in S
  PROVE  /\ \A x : Contains(<<e>> \o s, x) <=> Contains(s, x) \/ x = e
         /\ SinRepetidos(s) /\ ~Contains(s, e) => SinRepetidos(<<e>> \o s)
<1> DEFINE t == <<e>> \o s
<1>1. /\ Len(s) \in Nat /\ Len(t) = Len(s) + 1
      /\ \A i \in 1 .. Len(s) + 1 : t[i] = IF i <= 1 THEN e ELSE s[i - 1]
  <2>1. <<e>> \in Seq(S) /\ Len(<<e>>) = 1 /\ <<e>>[1] = e
    OBVIOUS
  <2>2. /\ Len(t) = 1 + Len(s)
        /\ \A i \in 1 .. 1 + Len(s) : t[i] = IF i <= 1 THEN <<e>>[i] ELSE s[i - 1]
    BY <2>1, ConcatProperties
  <2> QED BY <2>1, <2>2, LenProperties
<1> HIDE DEF t
<1>2. t[1] = e /\ 1 \in 1 .. Len(t)
  BY <1>1
<1>3. \A i \in 1 .. Len(s) : i + 1 \in 1 .. Len(t) /\ t[i + 1] = s[i]
  BY <1>1
<1>4. \A i \in 1 .. Len(t) : i = 1 \/ (i - 1 \in 1 .. Len(s) /\ t[i] = s[i - 1])
  BY <1>1
<1>5. \A x : Contains(t, x) <=> Contains(s, x) \/ x = e
  BY <1>2, <1>3, <1>4 DEF Contains
<1>6. ASSUME SinRepetidos(s), ~Contains(s, e), NEW i \in 1 .. Len(t), NEW j \in 1 .. Len(t),
             t[i] = t[j]
      PROVE  i = j
  <2>1. CASE i = 1 \/ j = 1
    BY <1>2, <1>4, <1>6, <2>1 DEF Contains
  <2>2. CASE i # 1 /\ j # 1
    <3>1. i - 1 = j - 1
      BY <1>4, <1>6, <2>2 DEF SinRepetidos
    <3> QED BY <3>1
  <2> QED BY <2>1, <2>2
<1> QED BY <1>5, <1>6 DEF t, SinRepetidos

LEMMA RemoveAtLista ==
  ASSUME NEW S, NEW s \in Seq(S), NEW i \in 1 .. Len(s), SinRepetidos(s)
  PROVE  /\ SinRepetidos(RemoveAt(s, i))
         /\ \A x : Contains(RemoveAt(s, i), x) <=> Contains(s, x) /\ x # s[i]
<1> DEFINE t == RemoveAt(s, i)
           de(k) == IF k < i THEN k ELSE k + 1
<1>1. /\ Len(s) \in Nat /\ Len(t) = Len(s) - 1
      /\ \A k \in 1 .. Len(t) : t[k] = s[de(k)]
  BY RemoveAtProperties, LenProperties
<1>2. \A k \in 1 .. Len(t) : de(k) \in 1 .. Len(s) /\ de(k) # i
  BY <1>1
<1>3. \A k, l \in 1 .. Len(t) : de(k) = de(l) => k = l
  BY <1>1
<1>4. \A k \in 1 .. Len(s) : k # i => \E l \in 1 .. Len(t) : de(l) = k
  <2> SUFFICES ASSUME NEW k \in 1 .. Len(s), k # i
               PROVE  \E l \in 1 .. Len(t) : de(l) = k
    OBVIOUS
  <2>1. CASE k < i
    BY <1>1, <2>1
  <2>2. CASE k > i
    <3>1. k - 1 \in 1 .. Len(t) /\ de(k - 1) = k
      BY <1>1, <2>2
    <3> QED BY <3>1
  <2> QED BY <2>1, <2>2
<1> HIDE DEF t, de
<1>5. SinRepetidos(t)
  BY <1>1, <1>2, <1>3 DEF SinRepetidos
<1>6. \A x : Contains(t, x) <=> Contains(s, x) /\ x # s[i]
  <2> SUFFICES ASSUME NEW x PROVE Contains(t, x) <=> Contains(s, x) /\ x # s[i]
    OBVIOUS
  <2>1. ASSUME NEW k \in 1 .. Len(t), t[k] = x PROVE Contains(s, x) /\ x # s[i]
    BY <1>1, <1>2, <2>1 DEF Contains, SinRepetidos
  <2>2. ASSUME NEW k \in 1 .. Len(s), s[k] = x, x # s[i] PROVE Contains(t, x)
    <3>1. PICK l \in 1 .. Len(t) : de(l) = k
      BY <1>4, <2>2
    <3> QED BY <1>1, <2>2, <3>1 DEF Contains
  <2> QED BY <2>1, <2>2 DEF Contains
<1> QED BY <1>5, <1>6 DEF t

LEMMA RemoveFirstLista ==
  ASSUME NEW S, NEW s \in Seq(S), NEW e, SinRepetidos(s)
  PROVE  /\ SinRepetidos(RemoveFirst(s, e))
         /\ \A x : Contains(RemoveFirst(s, e), x) <=> Contains(s, x) /\ x # e
<1>1. CASE Contains(s, e)
  <2>1. PICK i \in 1 .. Len(s) : s[i] = e /\ RemoveFirst(s, e) = RemoveAt(s, i)
    BY <1>1, RemoveFirstProperties
  <2> QED BY <2>1, RemoveAtLista
<1>2. CASE ~Contains(s, e)
  BY <1>2, RemoveFirstProperties
<1> QED BY <1>1, <1>2

LEMMA TailLista ==
  ASSUME NEW S, NEW s \in Seq(S), s # <<>>
  PROVE  \A x : Contains(s, x) <=> Contains(Tail(s), x) \/ x = Head(s)
<1>1. /\ Len(s) \in Nat /\ Len(s) > 0 /\ Len(Tail(s)) = Len(s) - 1 /\ Head(s) = s[1]
      /\ \A i \in 1 .. Len(Tail(s)) : Tail(s)[i] = s[i + 1]
  BY HeadTailProperties, LenProperties
<1>2. \A i \in 1 .. Len(s) : i = 1 \/ (i - 1 \in 1 .. Len(Tail(s)) /\ Tail(s)[i - 1] = s[i])
  BY <1>1
<1>3. \A i \in 1 .. Len(Tail(s)) : i + 1 \in 1 .. Len(s)
  BY <1>1
<1>4. 1 \in 1 .. Len(s)
  BY <1>1
<1>5. ASSUME NEW x, Contains(s, x), x # Head(s)
      PROVE  Contains(Tail(s), x)
  <2>1. PICK i \in 1 .. Len(s) : s[i] = x
    BY <1>5 DEF Contains
  <2>2. i # 1
    BY <1>1, <1>5, <2>1
  <2> QED BY <1>2, <2>1, <2>2 DEF Contains
<1>6. ASSUME NEW x, Contains(Tail(s), x)
      PROVE  Contains(s, x)
  <2>1. PICK i \in 1 .. Len(Tail(s)) : Tail(s)[i] = x
    BY <1>6 DEF Contains
  <2> QED BY <1>1, <1>3, <2>1 DEF Contains
<1>7. Contains(s, Head(s))
  BY <1>1, <1>4 DEF Contains
<1> QED BY <1>5, <1>6, <1>7

(* The same of a list, by its indices and by its domain.                    *)
LEMMA Vueltas ==
  ASSUME NEW S, NEW s \in Seq(S) PROVE IsInjective(s) <=> SinRepetidos(s)
BY LenProperties DEF IsInjective, SinRepetidos

(* A list without repetitions keeps that, at its ends.                      *)
LEMMA AlFinal ==
  ASSUME NEW S, NEW s \in Seq(S), IsInjective(s), NEW p \in S, ~Contains(s, p)
  PROVE  /\ Append(s, p) \in Seq(S) /\ IsInjective(Append(s, p))
         /\ \A q : Contains(Append(s, p), q) <=> Contains(s, q) \/ q = p
<1>1. Append(s, p) \in Seq(S)
  BY AppendProperties
<1>2. SinRepetidos(s)
  BY Vueltas
<1>3. SinRepetidos(Append(s, p)) /\ \A q : Contains(Append(s, p), q) <=> Contains(s, q) \/ q = p
  BY <1>2, AppendLista
<1> QED BY <1>1, <1>3, Vueltas

LEMMA SinPrimero ==
  ASSUME NEW S, NEW s \in Seq(S), IsInjective(s), s # <<>>
  PROVE  /\ Head(s) \in S /\ Tail(s) \in Seq(S) /\ IsInjective(Tail(s)) /\ Contains(s, Head(s))
         /\ \A q : Contains(Tail(s), q) <=> Contains(s, q) /\ q # Head(s)
<1>1. /\ Len(s) \in Nat /\ Len(s) > 0 /\ Head(s) = s[1]
      /\ Tail(s) \in Seq(S) /\ Len(Tail(s)) = Len(s) - 1
      /\ \A i \in 1 .. Len(Tail(s)) : Tail(s)[i] = s[i + 1]
  BY HeadTailProperties, LenProperties
<1>2. SinRepetidos(s)
  BY Vueltas
<1>3. \A i \in 1 .. Len(Tail(s)) : i + 1 \in 1 .. Len(s) /\ i + 1 # 1
  BY <1>1
<1>4. 1 \in 1 .. Len(s)
  BY <1>1
<1>5. ASSUME NEW i \in 1 .. Len(Tail(s)), NEW j \in 1 .. Len(Tail(s)), Tail(s)[i] = Tail(s)[j]
      PROVE  i = j
  <2>1. i + 1 = j + 1
    BY <1>1, <1>2, <1>3, <1>5 DEF SinRepetidos
  <2> QED BY <2>1
<1>6. IsInjective(Tail(s))
  BY <1>1, <1>5, Vueltas DEF SinRepetidos
<1>7. ~Contains(Tail(s), Head(s))
  BY <1>1, <1>2, <1>3, <1>4 DEF Contains, SinRepetidos
<1>8. Head(s) \in S /\ Contains(s, Head(s))
  BY <1>1, <1>4, ElementOfSeq DEF Contains
<1> QED BY <1>1, <1>6, <1>7, <1>8, TailLista

LEMMA SinElegido ==
  ASSUME NEW S, NEW s \in Seq(S), IsInjective(s), NEW p
  PROVE  /\ RemoveFirst(s, p) \in Seq(S) /\ IsInjective(RemoveFirst(s, p))
         /\ \A q : Contains(RemoveFirst(s, p), q) <=> Contains(s, q) /\ q # p
<1>1. RemoveFirst(s, p) \in Seq(S)
  BY RemoveFirstProperties
<1>2. SinRepetidos(s)
  BY Vueltas
<1>3. /\ SinRepetidos(RemoveFirst(s, p))
      /\ \A q : Contains(RemoveFirst(s, p), q) <=> Contains(s, q) /\ q # p
  BY <1>2, RemoveFirstLista
<1> QED BY <1>1, <1>3, Vueltas

(* One list after another that has nothing of it.                           *)
LEMMA ConcatLista ==
  ASSUME NEW S, NEW s \in Seq(S), NEW t \in Seq(S)
  PROVE  /\ s \o t \in Seq(S)
         /\ \A x : Contains(s \o t, x) <=> Contains(s, x) \/ Contains(t, x)
         /\ IsInjective(s) /\ IsInjective(t) /\ (\A x \in S : ~(Contains(s, x) /\ Contains(t, x)))
              => IsInjective(s \o t)
<1> DEFINE u == s \o t
<1>1. /\ Len(s) \in Nat /\ Len(t) \in Nat /\ u \in Seq(S) /\ Len(u) = Len(s) + Len(t)
      /\ \A k \in 1 .. Len(s) + Len(t) : u[k] = IF k <= Len(s) THEN s[k] ELSE t[k - Len(s)]
  BY ConcatProperties, LenProperties
<1> HIDE DEF u
<1>2. \A k \in 1 .. Len(s) : k \in 1 .. Len(u) /\ u[k] = s[k]
  BY <1>1
<1>3. \A k \in 1 .. Len(t) : k + Len(s) \in 1 .. Len(u) /\ u[k + Len(s)] = t[k]
  <2> TAKE k \in 1 .. Len(t)
  <2> DEFINE j == k + Len(s)
  <2>1. j \in 1 .. Len(s) + Len(t) /\ ~(j <= Len(s)) /\ j - Len(s) = k
    BY <1>1
  <2> HIDE DEF j
  <2>2. u[j] = t[j - Len(s)]
    BY <1>1, <2>1
  <2> QED BY <1>1, <2>1, <2>2 DEF j
<1>4. \A k \in 1 .. Len(u) :
        \/ k \in 1 .. Len(s) /\ u[k] = s[k]
        \/ k - Len(s) \in 1 .. Len(t) /\ u[k] = t[k - Len(s)]
  BY <1>1
<1>5. \A x : Contains(u, x) <=> Contains(s, x) \/ Contains(t, x)
  BY <1>2, <1>3, <1>4 DEF Contains
<1>6. ASSUME IsInjective(s), IsInjective(t), \A x \in S : ~(Contains(s, x) /\ Contains(t, x))
      PROVE  IsInjective(u)
  <2>1. SinRepetidos(s) /\ SinRepetidos(t)
    BY <1>6, Vueltas
  <2> SUFFICES ASSUME NEW i \in 1 .. Len(u), NEW j \in 1 .. Len(u), u[i] = u[j] PROVE i = j
    BY <1>1, Vueltas DEF SinRepetidos
  <2>2. u[i] \in S
    BY <1>1, ElementOfSeq
  <2>3. CASE i \in 1 .. Len(s) /\ j \in 1 .. Len(s)
    BY <2>1, <2>3, <1>2 DEF SinRepetidos
  <2>4. CASE i - Len(s) \in 1 .. Len(t) /\ j - Len(s) \in 1 .. Len(t)
    <3>1. u[i] = t[i - Len(s)] /\ u[j] = t[j - Len(s)]
      BY <1>1, <1>4, <2>4
    <3>2. i - Len(s) = j - Len(s)
      BY <2>1, <2>4, <3>1 DEF SinRepetidos
    <3> QED BY <1>1, <3>2
  <2>5. ~(i \in 1 .. Len(s) /\ u[i] = s[i] /\ j - Len(s) \in 1 .. Len(t) /\ u[j] = t[j - Len(s)])
    BY <1>6, <2>2 DEF Contains
  <2>6. ~(j \in 1 .. Len(s) /\ u[j] = s[j] /\ i - Len(s) \in 1 .. Len(t) /\ u[i] = t[i - Len(s)])
    BY <1>6, <2>2 DEF Contains
  <2> QED BY <1>4, <2>3, <2>4, <2>5, <2>6
<1> QED BY <1>1, <1>5, <1>6 DEF u

(* A set in some order: a sequence of its elements, each of them once.      *)
LEMMA SetToSeqsFacts ==
  ASSUME NEW S, IsFiniteSet(S), NEW s \in SetToSeqs(S)
  PROVE  s \in Seq(S) /\ IsInjective(s) /\ \A x \in S : Contains(s, x)
<1> DEFINE n == Cardinality(S)
<1>1. n \in Nat
  BY FS_CardinalityType
<1>2. s \in [1 .. n -> S] /\ \A i, j \in 1 .. n : i # j => s[i] # s[j]
  BY DEF SetToSeqs
<1> HIDE DEF n
<1>3. s \in Seq(S) /\ DOMAIN s = 1 .. n /\ Len(s) = n
  BY <1>1, <1>2
<1>4. IsInjective(s) /\ s \in Injection(1 .. n, S)
  BY <1>2 DEF IsInjective, Injection
<1>5. IsFiniteSet(1 .. n) /\ Cardinality(1 .. n) = n
  BY <1>1, FS_Interval
<1>6. s \in Surjection(1 .. n, S)
  BY <1>4, <1>5, FS_Injection DEF n
<1>7. \A x \in S : \E i \in 1 .. n : s[i] = x
  BY <1>6 DEF Surjection
<1> QED BY <1>3, <1>4, <1>7 DEF Contains

(* A finite set of finite sets has a smallest one: what takes the place of   *)
(* induction over finite sets.                                              *)
LEMMA SubconjuntoMinimo ==
  ASSUME NEW S, IsFiniteSet(S), NEW W, W \subseteq SUBSET S, W # {}
  PROVE  \E T \in W : \A U \in W : U \subseteq T => U = T
<1>1. IsWellFoundedOn(StrictSubsetOrdering(S), FiniteSubsetsOf(S))
  BY FS_StrictSubsetOrderingWellFounded
<1>2. W \subseteq FiniteSubsetsOf(S)
  BY FS_FiniteSubsetsOfFinite
<1>3. PICK T \in W : \A U \in W : ~(<<U, T>> \in StrictSubsetOrdering(S))
  BY <1>1, <1>2, WFMin
<1>4. ASSUME NEW U \in W, U \subseteq T, U # T PROVE FALSE
  <2>1. <<U, T>> \in (SUBSET S) \X (SUBSET S) /\ <<U, T>>[1] = U /\ <<U, T>>[2] = T
    BY <1>3
  <2>2. <<U, T>> \in StrictSubsetOrdering(S)
    BY <2>1, <1>4 DEF StrictSubsetOrdering
  <2> QED BY <1>3, <2>2
<1> QED BY <1>3, <1>4

(***************************************************************************)
(* Recursion.  A set of numbers, or of sets, on which something fails has a  *)
(* least element: so a recursive definition has a function that satisfies    *)
(* it, of the expected type.                                                *)
(***************************************************************************)
Itera(f, v0, Op) == f = [n \in Nat |-> IF n = 0 THEN v0 ELSE Op[f[n - 1]]]

LEMMA IteracionExiste ==
  ASSUME NEW V, NEW v0 \in V, NEW Op \in [V -> V]
  PROVE  \E f \in [Nat -> V] : Itera(f, v0, Op)
<1> DEFINE Hasta(n, f) == /\ f \in [0 .. n -> V] /\ f[0] = v0
                          /\ \A k \in 1 .. n : f[k] = Op[f[k - 1]]
           I == {n \in Nat : ~\E f : Hasta(n, f)}
<1>1. I = {}
  <2> SUFFICES ASSUME I # {} PROVE FALSE
    OBVIOUS
  <2>1. I \subseteq Nat
    OBVIOUS
  <2> DEFINE n == Min(I)
  <2>2. n \in I /\ \A k \in I : n <= k
    <3> HIDE DEF I
    <3> QED BY <2>1, MinProperties
  <2> HIDE DEF n
  <2>3. CASE n = 0
    <3> DEFINE f == [k \in 0 .. 0 |-> v0]
    <3>1. Hasta(0, f)
      OBVIOUS
    <3> HIDE DEF f, Hasta
    <3> QED BY <2>2, <2>3, <3>1
  <2>4. CASE n # 0
    <3>1. n \in Nat /\ n - 1 \in Nat /\ n - 1 \notin I
      <4>1. n \in Nat
        BY <2>2
      <4> HIDE DEF I
      <4> QED BY <4>1, <2>2, <2>4
    <3>2. PICK f : Hasta(n - 1, f)
      <4> HIDE DEF Hasta
      <4> QED BY <3>1
    <3> DEFINE g == [k \in 0 .. n |-> IF k = n THEN Op[f[n - 1]] ELSE f[k]]
    <3>3. Hasta(n, g)
      BY <2>4, <3>1, <3>2
    <3> HIDE DEF g, Hasta
    <3> QED BY <2>2, <3>3
  <2> QED BY <2>3, <2>4
<1>2. ASSUME NEW n \in Nat, NEW m \in Nat, n <= m, NEW f, NEW g, Hasta(n, f), Hasta(m, g)
      PROVE  f[n] = g[n]
  <2> DEFINE W == {k \in 0 .. n : f[k] # g[k]}
  <2>1. W = {}
    <3> SUFFICES ASSUME W # {} PROVE FALSE
      OBVIOUS
    <3>1. W \subseteq Nat
      OBVIOUS
    <3> DEFINE k == Min(W)
    <3>2. k \in W /\ \A j \in W : k <= j
      <4> HIDE DEF W
      <4> QED BY <3>1, MinProperties
    <3> HIDE DEF k
    <3>3. k \in 1 .. n /\ k \in 1 .. m
      BY <1>2, <3>2
    <3>4. k - 1 \in 0 .. n /\ k - 1 \notin W
      <4>1. k - 1 \in 0 .. n /\ ~(k <= k - 1)
        BY <3>3
      <4> HIDE DEF W
      <4> QED BY <3>2, <4>1
    <3> QED BY <1>2, <3>2, <3>3, <3>4
  <2> QED BY <2>1
<1> DEFINE El(n) == CHOOSE f : Hasta(n, f)
           F == [n \in Nat |-> El(n)[n]]
<1>3. \A n \in Nat : Hasta(n, El(n))
  <2> HIDE DEF Hasta
  <2> QED BY <1>1
<1> HIDE DEF El
<1>4. \A n \in Nat : F[n] \in V
  BY <1>3
<1>5. \A n \in Nat : F[n] = IF n = 0 THEN v0 ELSE Op[F[n - 1]]
  <2> SUFFICES ASSUME NEW n \in Nat, n # 0 PROVE F[n] = Op[F[n - 1]]
    BY <1>3
  <2>1. n - 1 \in Nat /\ n - 1 <= n /\ n \in 1 .. n
    OBVIOUS
  <2>2. El(n)[n] = Op[El(n)[n - 1]]
    BY <1>3, <2>1
  <2>3. El(n - 1)[n - 1] = El(n)[n - 1]
    <3> HIDE DEF Hasta
    <3> QED BY <1>2, <1>3, <2>1
  <2> QED BY <2>1, <2>2, <2>3
<1>6. F = [n \in Nat |-> IF n = 0 THEN v0 ELSE Op[F[n - 1]]]
  BY <1>5
<1>7. F \in [Nat -> V]
  BY <1>4
<1> HIDE DEF F
<1> QED BY <1>6, <1>7 DEF Itera

(* A fold over a finite set, which takes the element El[T] of each T, and    *)
(* what is known of it as long as its values are in V.                      *)
Elige(El, S) == \A T \in SUBSET S : T # {} => El[T] \in T
Cierra(Op, S, V) == \A s \in S : \A v \in V : Op[s][v] \in V
Pliega(f, S, v0, El, Op) ==
  \A T \in SUBSET S : f[T] = IF T = {} THEN v0 ELSE Op[El[T]][f[T \ {El[T]}]]
PliegaEn(V, f, S, v0, El, Op) ==
  \A T \in SUBSET S :
    IF T = {} THEN f[T] = v0
    ELSE f[T \ {El[T]}] \in V => f[T] = Op[El[T]][f[T \ {El[T]}]]

LEMMA PlegadoTipo ==
  ASSUME NEW S, IsFiniteSet(S), NEW V, NEW v0 \in V, NEW El, Elige(El, S),
         NEW Op, Cierra(Op, S, V), NEW g, PliegaEn(V, g, S, v0, El, Op)
  PROVE  \A T \in SUBSET S : g[T] \in V
<1> DEFINE W == {T \in SUBSET S : g[T] \notin V}
<1> SUFFICES ASSUME W # {} PROVE FALSE
  OBVIOUS
<1>1. W \subseteq SUBSET S
  OBVIOUS
<1>2. PICK T \in W : \A U \in W : U \subseteq T => U = T
  <2> HIDE DEF W
  <2> QED BY <1>1, SubconjuntoMinimo
<1>3. T # {}
  BY <1>2 DEF PliegaEn
<1>4. El[T] \in T /\ T \ {El[T]} \in SUBSET S
  BY <1>2, <1>3 DEF Elige
<1>5. T \ {El[T]} \notin W
  <2> HIDE DEF W
  <2> QED BY <1>2, <1>4
<1>6. g[T \ {El[T]}] \in V /\ El[T] \in S
  BY <1>2, <1>4, <1>5
<1>7. g[T] = Op[El[T]][g[T \ {El[T]}]]
  BY <1>2, <1>3, <1>6 DEF PliegaEn
<1>8. Op[El[T]][g[T \ {El[T]}]] \in V
  BY <1>6 DEF Cierra
<1> QED BY <1>2, <1>7, <1>8

LEMMA PlegadoExiste ==
  ASSUME NEW S, IsFiniteSet(S), NEW V, NEW v0 \in V, NEW El, Elige(El, S),
         NEW Op, Cierra(Op, S, V)
  PROVE  \E f \in [SUBSET S -> V] : Pliega(f, S, v0, El, Op)
<1> DEFINE Valor(f, T) == IF T = {} THEN v0 ELSE Op[El[T]][f[T \ {El[T]}]]
           Nivel(n) == {T \in SUBSET S : Cardinality(T) <= n}
           Hay(n) == \E f : \A T \in Nivel(n) : f[T] = Valor(f, T)
           I == {n \in Nat : ~Hay(n)}
<1>1. \A T \in SUBSET S : T # {} =>
        /\ El[T] \in T /\ T \ {El[T]} \in SUBSET S
        /\ Cardinality(T) \in Nat /\ Cardinality(T \ {El[T]}) = Cardinality(T) - 1
  <2> SUFFICES ASSUME NEW T \in SUBSET S, T # {}
               PROVE  /\ El[T] \in T /\ T \ {El[T]} \in SUBSET S
                      /\ Cardinality(T) \in Nat /\ Cardinality(T \ {El[T]}) = Cardinality(T) - 1
    OBVIOUS
  <2>1. El[T] \in T
    BY DEF Elige
  <2>2. IsFiniteSet(T) /\ Cardinality(T) \in Nat
    BY FS_Subset, FS_CardinalityType
  <2> QED BY <2>1, <2>2, FS_RemoveElement
<1>2. I = {}
  <2> SUFFICES ASSUME I # {} PROVE FALSE
    OBVIOUS
  <2>1. I \subseteq Nat
    OBVIOUS
  <2> DEFINE n == Min(I)
  <2>2. n \in I /\ \A k \in I : n <= k
    <3> HIDE DEF I
    <3> QED BY <2>1, MinProperties
  <2> HIDE DEF n
  <2>3. CASE n = 0
    <3> DEFINE f == [T \in {{}} |-> v0]
    <3>1. \A T \in Nivel(0) : T = {}
      <4> SUFFICES ASSUME NEW T \in SUBSET S, Cardinality(T) <= 0, T # {} PROVE FALSE
        OBVIOUS
      <4>1. IsFiniteSet(T) /\ Cardinality(T) \in Nat
        BY FS_Subset, FS_CardinalityType
      <4> QED BY <4>1, FS_EmptySet
    <3>2. \A T \in Nivel(0) : f[T] = Valor(f, T)
      BY <3>1
    <3>3. Hay(0)
      <4> HIDE DEF f, Nivel, Valor
      <4> QED BY <3>2
    <3> HIDE DEF Hay
    <3> QED BY <2>2, <2>3, <3>3
  <2>4. CASE n # 0
    <3>1. n \in Nat /\ n - 1 \in Nat /\ n - 1 \notin I
      <4>1. n \in Nat
        BY <2>2
      <4> HIDE DEF I, Hay
      <4> QED BY <4>1, <2>2, <2>4
    <3>2. PICK f : \A T \in Nivel(n - 1) : f[T] = Valor(f, T)
      <4>1. Hay(n - 1)
        <5> HIDE DEF Hay
        <5> QED BY <3>1
      <4> HIDE DEF Nivel, Valor
      <4> QED BY <4>1
    <3> DEFINE g == [T \in Nivel(n) |-> Valor(f, T)]
    <3>3. \A T \in Nivel(n) : T # {} => T \ {El[T]} \in Nivel(n - 1) /\ T \ {El[T]} \in Nivel(n)
      <4> SUFFICES ASSUME NEW T \in SUBSET S, Cardinality(T) <= n, T # {}
                   PROVE  T \ {El[T]} \in Nivel(n - 1) /\ T \ {El[T]} \in Nivel(n)
        OBVIOUS
      <4>1. T \ {El[T]} \in SUBSET S /\ Cardinality(T) \in Nat
            /\ Cardinality(T \ {El[T]}) = Cardinality(T) - 1
        BY <1>1
      <4>2. Cardinality(T \ {El[T]}) <= n - 1 /\ Cardinality(T \ {El[T]}) <= n
        BY <3>1, <4>1
      <4> QED BY <4>1, <4>2
    <3> HIDE DEF Nivel
    <3>4. \A T \in Nivel(n) : T # {} => g[T \ {El[T]}] = f[T \ {El[T]}]
      BY <3>2, <3>3
    <3>5. \A T \in Nivel(n) : g[T] = Valor(g, T)
      BY <3>4
    <3>6. Hay(n)
      <4> HIDE DEF g, Nivel, Valor
      <4> QED BY <3>5
    <3> HIDE DEF Hay
    <3> QED BY <2>2, <3>6
  <2> QED BY <2>3, <2>4
<1> DEFINE n == Cardinality(S)
<1>3. n \in Nat /\ \A T \in SUBSET S : T \in Nivel(n)
  BY FS_CardinalityType, FS_Subset
<1>4. PICK f : \A T \in Nivel(n) : f[T] = Valor(f, T)
  <2>1. Hay(n)
    <3> HIDE DEF n, Hay
    <3> QED BY <1>2, <1>3
  <2> HIDE DEF n, Nivel, Valor
  <2> QED BY <2>1
<1> DEFINE F == [T \in SUBSET S |-> f[T]]
<1>5. \A T \in SUBSET S : F[T] = Valor(F, T)
  <2>1. \A T \in SUBSET S : f[T] = Valor(F, T)
    <3> HIDE DEF Nivel, n
    <3> QED BY <1>1, <1>3, <1>4
  <2> QED BY <2>1
<1>6. \A T \in SUBSET S : F[T] \in V
  <2>1. PliegaEn(V, F, S, v0, El, Op)
    <3> HIDE DEF F
    <3> QED BY <1>5 DEF PliegaEn
  <2> HIDE DEF F
  <2> QED BY <2>1, PlegadoTipo
<1>7. F \in [SUBSET S -> V]
  BY <1>6
<1> HIDE DEF F
<1>8. Pliega(F, S, v0, El, Op)
  BY <1>5 DEF Pliega
<1> QED BY <1>7, <1>8
=============================================================================
