\* Two processes with two identifiers; a segment may take two sticks and two blocks.
\* One context at a time may be saved after its process has left the CPU.
CONSTANTS
  Procesos = {p1, p2}
  Ids = {a, b}
  Tamanios = {1, 3, 4}
  SEGMENT_MAX_SIZE = 3
  ALLOCATION_STRATEGY = "BEST"
  TamStick = 2
  MaxSticks = 2
  BLOCK_SIZE = 2
  CantBloques = 2
  MaxEscrituras = 1
  Desplazamientos = {0, 2}
  MaxPorGuardar = 1
  SwapSeCae = TRUE
  NADIE = NADIE
  BASURA = BASURA
SYMMETRY Simetria
VIEW Vista
SPECIFICATION Spec
INVARIANTS TypeOK Particion BloquesDeUnSolo HuecosFusionados TrasCompactarHayLugar
PROPERTY ImplementaEspacio
