---------------------------- MODULE Instrucciones ----------------------------
(***************************************************************************)
(* The registers of the CPU and what an instruction does to them            *)
(* (registros.c and the cases of execute that touch nothing else).  A byte   *)
(* has Byte values and a large register TAM_GRANDE bytes: the code has 256   *)
(* and 4, and the arithmetic wraps in the same way.                         *)
(*                                                                          *)
(* An instruction is a tuple: its name and its parameters.                  *)
(***************************************************************************)
EXTENDS Integers, Sequences, SequencesExt

CONSTANTS
  Byte,             \* values of a byte
  TAM_GRANDE,       \* bytes of a large register
  SEGMENT_MAX_SIZE  \* tam_max_segmento: addresses of a segment

(* The values of n bytes.                                                   *)
Valores[n \in Nat] == IF n = 0 THEN 1 ELSE Byte * Valores[n - 1]
Palabra == Valores[TAM_GRANDE]

ASSUME ByteAssumption == Byte \in Nat \ {0, 1} /\ TAM_GRANDE \in Nat \ {0}
ASSUME SegmentoAssumption == SEGMENT_MAX_SIZE \in 1 .. Palabra

Bytes == 0 .. Byte - 1
Chicos == {"AX", "BX"}
Registros == Chicos \cup {"EAX", "EBX", "SI", "DI", "PC"}

TamanioRegistro(r) == IF r \in Chicos THEN 1 ELSE TAM_GRANDE
ValoresDe(r) == 0 .. Valores[TamanioRegistro(r)] - 1
EnCero == [r \in Registros |-> 0]

(* Mutant: every register is as wide as the large ones.                     *)
EscribirRegistroSinTruncar(reg, r, valor) == [reg EXCEPT ![r] = valor % Palabra]

(* escribir_registro: the value is truncated to the size of the register.   *)
EscribirRegistro(reg, r, valor) == [reg EXCEPT ![r] = valor % Valores[TamanioRegistro(r)]]
Avanzar(reg) == EscribirRegistro(reg, "PC", reg["PC"] + 1)

(* The bytes of a register in memory, the least significant first.          *)
BytesDe(reg, r) ==
  [i \in 1 .. TamanioRegistro(r) |-> (reg[r] \div Valores[i - 1]) % Byte]
ValorDe(bytes) == FoldRight(LAMBDA b, v : b + Byte * v, bytes, 0)

DeRegistros == {"NOOP", "SET", "SUM", "SUB", "JNZ"}
DeMemoria == {"MOV_IN", "MOV_OUT", "COPY_MEM"}
ConDireccion == {"STDOUT", "STDIN"}
DeSistema == {"MUTEX_CREATE", "INIT_PROC", "SLEEP", "MEM_ALLOC", "MEM_FREE", "EXIT"}

(* An instruction of DeRegistros: SET PC and a JNZ that jumps choose the     *)
(* next one, the rest go on to the one that follows.                        *)
Efecto(reg, inst) ==
  CASE inst[1] = "NOOP" -> Avanzar(reg)
    [] inst[1] = "SET" -> LET nuevo == EscribirRegistro(reg, inst[2], inst[3])
                          IN  IF inst[2] = "PC" THEN nuevo ELSE Avanzar(nuevo)
    [] inst[1] = "SUM" -> Avanzar(EscribirRegistro(reg, inst[2], reg[inst[2]] + reg[inst[3]]))
    [] inst[1] = "SUB" -> Avanzar(EscribirRegistro(reg, inst[2], reg[inst[2]] - reg[inst[3]]))
    [] inst[1] = "JNZ" -> IF reg[inst[2]] # 0 THEN EscribirRegistro(reg, "PC", inst[3])
                          ELSE Avanzar(reg)

(* The accesses of an instruction to memory, <<address, size>> each.        *)
Accesos(reg, inst) ==
  CASE inst[1] = "MOV_IN" -> {<<reg["SI"], TamanioRegistro(inst[2])>>}
    [] inst[1] = "MOV_OUT" -> {<<reg["DI"], TamanioRegistro(inst[2])>>}
    [] inst[1] = "COPY_MEM" -> {<<reg["SI"], reg[inst[2]]>>, <<reg["DI"], reg[inst[2]]>>}
    [] inst[1] \in ConDireccion -> {<<reg[inst[2]], reg[inst[3]]>>}
=============================================================================
