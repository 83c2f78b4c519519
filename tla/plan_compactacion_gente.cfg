\* FIFO: the dispatcher sends a process to a CPU while Kernel Memory compacts.
CONSTANTS
  CPUs = {cpu1, cpu2}
  MaxProcesos = 2
  Prioridad <- UnaCola
  CantPrioridades = 1
  ColasRR = {}
  HayDesalojo = FALSE
  Syscalls = {"INIT_PROC", "MEM_ALLOC"}
  Instrucciones <- DosYUna
  MaxCaidas = 0
  MaxCompactaciones = 1
  NADIE = NADIE
SYMMETRY Simetria
SPECIFICATION Spec
CHECK_DEADLOCK FALSE
INVARIANT NadieCorreCompactando
