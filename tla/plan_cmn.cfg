\* CMN with preemption: a level FIFO, a level RR and a process with no level,
\* with system calls that free the CPU or keep it, a compaction and a CPU that
\* disconnects. The handshake can stop the system (see plan_compactacion_avanza)
\* and every CPU may go, so a deadlock is not an error here.
CONSTANTS
  CPUs = {cpu1, cpu2}
  MaxProcesos = 3
  Prioridad <- PrioridadTresColas
  CantPrioridades = 2
  ColasRR = {1}
  HayDesalojo = TRUE
  Syscalls = {"INIT_PROC", "MEM_ALLOC", "MEM_FREE"}
  Instrucciones <- DosYUna
  MaxCaidas = 1
  MaxCompactaciones = 1
  NADIE = NADIE
SYMMETRY Simetria
SPECIFICATION Spec
CHECK_DEADLOCK FALSE
INVARIANTS TypeOK ProcesoEnUnSoloLugar CpuEnUnSoloLugar ExecAlDia ParAlDia QuantumArmado PuertaCerrada
PROPERTY ImplementaTurnos
