\* CMN with three levels: one mutex that everyone wants, or two mutexes and a
\* program that takes the second while it has the first. p2 can ask for b
\* before p1 creates it, and is then lost. The dispatcher may end.
CONSTANTS
  p1 = p1
  p2 = p2
  p3 = p3
  a = a
  b = b
  Procesos = {p1, p2, p3}
  CPUs = {c1, c2}
  Nombres = {a, b}
  prioridad_original <- PrioridadOriginal
  CantPrioridades = 3
  EsCMN = TRUE
  Programas <- ProgramasMC
  Creados = {a}
  NADIE = NADIE
SPECIFICATION Spec
CHECK_DEADLOCK FALSE
INVARIANTS TypeOK EnUnSoloLugar TokensAlDia DuenioVivo HeredaPrioridad DevuelvePrioridad NivelAlDia
PROPERTY EsperaTermina
