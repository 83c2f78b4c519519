SPECIFICATION Spec
CONSTANTS
  p1 = p1  p2 = p2  p3 = p3  c1 = c1  c2 = c2
  Procesos = {p1, p2, p3}
  Inicial = p1
  NADA = NADA
  Byte = 4
  TAM_GRANDE = 2
  SEGMENT_MAX_SIZE = 4
  TamMemoria = 6
  Configuraciones <- MCConfiguraciones
INVARIANTS TypeOK CopiaAlDia
PROPERTIES ImplementaMaquina Terminan
