\* Memory for everyone. The processes may all end, and the threads then wait for ever.
CONSTANTS
  Procesos = {p1, p2}
  ESCUCHAR = escuchar
  MaxIO = 1
  TipoIO = "SLEEP"
  Capacidad = 2
  CapacidadSwap = 2
  MaxFallas = 0
  MaxCompactaciones = 0
  NADIE = NADIE
SPECIFICATION Spec
CHECK_DEADLOCK FALSE
PROPERTY SuspReadyVuelve
