\* The processes may all end, and the threads then wait for ever.
CONSTANTS
  Procesos = {p1}
  ESCUCHAR = escuchar
  MaxIO = 1
  TipoIO = "SLEEP"
  Capacidad = 1
  CapacidadSwap = 1
  MaxFallas = 0
  MaxCompactaciones = 0
  NADIE = NADIE
SYMMETRY Simetria
SPECIFICATION Spec
CHECK_DEADLOCK FALSE
INVARIANT ElListenerLoMueve
