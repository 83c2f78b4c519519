\* FIFO: the compaction waits for a confirmation that never comes.
CONSTANTS
  CPUs = {cpu1, cpu2}
  MaxProcesos = 2
  Prioridad <- UnaCola
  CantPrioridades = 1
  ColasRR = {}
  HayDesalojo = FALSE
  Syscalls = {"INIT_PROC", "MEM_ALLOC"}
  Instrucciones <- DosYUna
  MaxCaidas = 0
  MaxCompactaciones = 1
  NADIE = NADIE
CHECK_DEADLOCK FALSE
SPECIFICATION Spec
PROPERTY CompactacionAvanza
