\* RR with one CPU for three programs: everything that starts ends.
CONSTANTS
  CPUs = {cpu1}
  MaxProcesos = 3
  Prioridad <- UnaCola
  CantPrioridades = 1
  ColasRR = {0}
  HayDesalojo = FALSE
  Syscalls = {"INIT_PROC", "MEM_FREE"}
  Instrucciones <- DosYUna
  MaxCaidas = 0
  MaxCompactaciones = 0
  NADIE = NADIE
SPECIFICATION Spec
PROPERTIES TodosTerminan
