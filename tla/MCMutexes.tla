------------------------------ MODULE MCMutexes ------------------------------
(* Instances of Mutexes for TLC: the programs.                              *)
EXTENDS Mutexes

CONSTANTS p1, p2, p3, a, b

(* p1 has the worst priority.                                               *)
PrioridadOriginal == p1 :> 2 @@ p2 :> 1 @@ p3 :> 0

Nada(op) == <<op, NADIE>>
Usa(m) == <<<<"LOCK", m>>, Nada("NOOP"), <<"UNLOCK", m>>, Nada("EXIT")>>
(* One mutex; one of the programs ends without the unlock, and they unlock   *)
(* another that nobody has.                                                 *)
UnMutex ==
  p1 :> <<<<"CREATE", b>>>> \o Usa(a) @@
  p2 :> <<Nada("SLEEP"), <<"LOCK", a>>, Nada("EXIT")>> @@
  p3 :> <<<<"UNLOCK", b>>, Nada("SLEEP")>> \o Usa(a)
(* Two mutexes, and a program that has both at a time.                      *)
DosMutexes ==
  p1 :> <<<<"CREATE", b>>, <<"LOCK", a>>, <<"LOCK", b>>, <<"UNLOCK", a>>, <<"UNLOCK", b>>,
          Nada("EXIT")>> @@
  p2 :> <<<<"LOCK", b>>, <<"UNLOCK", b>>, Nada("EXIT")>> @@
  p3 :> <<<<"LOCK", a>>, <<"UNLOCK", a>>, Nada("EXIT")>>
ProgramasMC == {UnMutex, DosMutexes}

(* What the theorems about priorities suppose.                              *)
ASSUME CadaUnoLoSuyoAssumption == CadaUnoLoSuyo
=============================================================================
