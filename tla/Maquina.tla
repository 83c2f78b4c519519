------------------------------- MODULE Maquina -------------------------------
(***************************************************************************)
(* What the CPUs, the scheduler and Kernel Memory promise a program: that it *)
(* runs alone.  Its instructions are executed one after the other, on its    *)
(* registers and on segments that hold what it wrote in them; a system call  *)
(* advances and is served later; an access outside a segment ends it.       *)
(* There are no CPUs, no contexts that come and go and no physical memory.  *)
(***************************************************************************)
EXTENDS Instrucciones, TLC

CONSTANTS
  Procesos,
  Inicial,  \* the process that main creates
  NADA      \* no system call

VARIABLES
  programa,  \* the instructions of each process
  reg,       \* its registers
  segmentos, \* its segments: a function from identifiers to contents
  pedido,    \* the system call it waits for, or NADA
  vivos      \* the processes that exist and have not ended

vars == <<programa, reg, segmentos, pedido, vivos>>

Vacia == [id \in {} |-> <<>>]

(* The access lies in one segment.                                          *)
Permitido(p, acceso) ==
  LET id == acceso[1] \div SEGMENT_MAX_SIZE IN
  /\ id \in DOMAIN segmentos[p]
  /\ (acceso[1] % SEGMENT_MAX_SIZE) + acceso[2] <= Len(segmentos[p][id])
Contenido(p, dir, tamanio) ==
  LET d == dir % SEGMENT_MAX_SIZE
  IN  SubSeq(segmentos[p][dir \div SEGMENT_MAX_SIZE], d + 1, d + tamanio)
Escribir(p, dir, bytes) ==
  LET d == dir % SEGMENT_MAX_SIZE IN
  segmentos' = [segmentos EXCEPT ![p][dir \div SEGMENT_MAX_SIZE] =
                  [i \in DOMAIN @ |-> IF i - d \in DOMAIN bytes THEN bytes[i - d] ELSE @[i]]]

Init ==
  /\ reg = [p \in Procesos |-> EnCero]
  /\ segmentos = [p \in Procesos |-> Vacia]
  /\ pedido = [p \in Procesos |-> NADA]
  /\ vivos = {Inicial}

(* The next instruction of p, when it may execute one.                      *)
Puede(p, nombres) ==
  /\ p \in vivos /\ pedido[p] = NADA
  /\ reg[p]["PC"] < Len(programa[p])
  /\ programa[p][reg[p]["PC"] + 1][1] \in nombres
Instruccion(p) == programa[p][reg[p]["PC"] + 1]
Permite(p) == \A acceso \in Accesos(reg[p], Instruccion(p)) : Permitido(p, acceso)

Calcular(p) ==
  /\ Puede(p, DeRegistros)
  /\ reg' = [reg EXCEPT ![p] = Efecto(@, Instruccion(p))]
  /\ UNCHANGED <<programa, segmentos, pedido, vivos>>

MovIn(p) ==
  LET r == Instruccion(p)[2] IN
  /\ Puede(p, {"MOV_IN"}) /\ Permite(p)
  /\ reg' = [reg EXCEPT ![p] = Avanzar(EscribirRegistro(@, r,
               ValorDe(Contenido(p, @["SI"], TamanioRegistro(r)))))]
  /\ UNCHANGED <<programa, segmentos, pedido, vivos>>

MovOut(p) ==
  /\ Puede(p, {"MOV_OUT"}) /\ Permite(p)
  /\ Escribir(p, reg[p]["DI"], BytesDe(reg[p], Instruccion(p)[2]))
  /\ reg' = [reg EXCEPT ![p] = Avanzar(@)]
  /\ UNCHANGED <<programa, pedido, vivos>>

CopyMem(p) ==
  /\ Puede(p, {"COPY_MEM"}) /\ Permite(p)
  /\ Escribir(p, reg[p]["DI"], Contenido(p, reg[p]["SI"], reg[p][Instruccion(p)[2]]))
  /\ reg' = [reg EXCEPT ![p] = Avanzar(@)]
  /\ UNCHANGED <<programa, pedido, vivos>>

Pedir(p) ==
  /\ Puede(p, DeSistema \cup ConDireccion)
  /\ Instruccion(p)[1] \in ConDireccion => Permite(p)
  /\ pedido' = [pedido EXCEPT ![p] = Instruccion(p)]
  /\ reg' = [reg EXCEPT ![p] = Avanzar(@)]
  /\ UNCHANGED <<programa, segmentos, vivos>>

SegFault(p) ==
  /\ \/ Puede(p, DeMemoria \cup ConDireccion) /\ ~Permite(p)
     \/ Puede(p, {"DESCONOCIDA"})
  /\ pedido' = [pedido EXCEPT ![p] = <<"EXIT">>]
  /\ reg' = [reg EXCEPT ![p] = Avanzar(@)]
  /\ UNCHANGED <<programa, segmentos, vivos>>

(* A system call changes only what its process asked for: a new segment,     *)
(* which may be refused, holds anything, STDIN writes in one, INIT_PROC makes *)
(* a process.                                                               *)
Atender(p) ==
  LET inst == pedido[p] IN
  /\ p \in vivos /\ inst # NADA /\ inst[1] # "EXIT"
  /\ pedido' = [pedido EXCEPT ![p] = NADA]
  /\ vivos' = IF inst[1] = "INIT_PROC" THEN vivos \cup {inst[2]} ELSE vivos
  /\ \/ inst[1] # "STDIN" /\ UNCHANGED segmentos
     \/ /\ inst[1] = "STDIN"
        /\ \E leido \in [1 .. reg[p][inst[3]] -> Bytes] : Escribir(p, reg[p][inst[2]], leido)
     \/ /\ inst[1] = "MEM_ALLOC"
        /\ \E contenido \in [1 .. inst[3] -> Bytes] :
             segmentos' = [segmentos EXCEPT ![p] = (inst[2] :> contenido) @@ @]
     \/ /\ inst[1] = "MEM_FREE"
        /\ segmentos' = [segmentos EXCEPT ![p] = Restrict(@, DOMAIN @ \ {inst[2]})]
  /\ UNCHANGED <<programa, reg>>

Terminar(p) ==
  /\ p \in vivos /\ pedido[p] # NADA /\ pedido[p][1] = "EXIT"
  /\ vivos' = vivos \ {p}
  /\ reg' = [reg EXCEPT ![p] = EnCero]
  /\ segmentos' = [segmentos EXCEPT ![p] = Vacia]
  /\ pedido' = [pedido EXCEPT ![p] = NADA]
  /\ UNCHANGED programa

Next ==
  \E p \in Procesos :
    \/ Calcular(p) \/ MovIn(p) \/ MovOut(p) \/ CopyMem(p)
    \/ Pedir(p) \/ SegFault(p) \/ Atender(p) \/ Terminar(p)

Spec == Init /\ [][Next]_vars
=============================================================================
