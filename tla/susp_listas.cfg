\* Two processes, a compaction and an interface that fails.
\* The processes may all end, and the threads then wait for ever.
CONSTANTS
  Procesos = {p1, p2}
  ESCUCHAR = escuchar
  MaxIO = 2
  TipoIO = "STDIN"
  Capacidad = 1
  CapacidadSwap = 2
  MaxFallas = 1
  MaxCompactaciones = 1
  NADIE = NADIE
SYMMETRY Simetria
SPECIFICATION Spec
CHECK_DEADLOCK FALSE
INVARIANT TypeOK
INVARIANT EnUnaSolaLista
INVARIANT SolicitudDeBloqueado
