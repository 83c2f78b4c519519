--------------------------- MODULE MCCicloInstruccion ---------------------------
(***************************************************************************)
(* Systems of one CPU with a quantum, two programs and a memory that has to  *)
(* be compacted; of two CPUs without quantum and three programs; and of two  *)
(* CPUs that are evicted while a program has its memory compacted, for a     *)
(* quantum too or for the compaction only.                                  *)
(***************************************************************************)
EXTENDS CicloInstruccion

CONSTANTS p1, p2, p3, c1, c2

(* Allocates, frees, finds its bytes where a compaction took them, and goes  *)
(* out of a segment.                                                        *)
Compacta == <<
  <<"INIT_PROC", p2>>, <<"MEM_ALLOC", 0, 2>>, <<"MEM_ALLOC", 1, 2>>,
  <<"SET", "DI", 4>>, <<"SET", "EAX", 9>>, <<"MOV_OUT", "EAX">>,
  <<"MEM_FREE", 0>>, <<"MEM_ALLOC", 2, 3>>,
  <<"SET", "SI", 5>>, <<"MOV_IN", "AX">>, <<"SET", "SI", 4>>, <<"MOV_IN", "EBX">>,
  <<"SUB", "EBX", "EAX">>, <<"JNZ", "EBX", 15>>, <<"SET", "DI", 7>>, <<"MOV_OUT", "EAX">> >>

(* Counts down in a register of one byte, and jumps.                        *)
Cuenta == <<
  <<"SET", "AX", 6>>, <<"SET", "BX", 1>>, <<"SUB", "AX", "BX">>, <<"SUM", "EBX", "AX">>,
  <<"JNZ", "AX", 2>>, <<"MEM_ALLOC", 0, 1>>, <<"MOV_OUT", "BX">>, <<"SET", "PC", 9>>, <<"DESCONOCIDA">>,
  <<"EXIT">> >>

(* Reads, copies and writes out what it read; then asks for a copy whose     *)
(* last byte wraps.                                                         *)
Lee == <<
  <<"INIT_PROC", p2>>, <<"INIT_PROC", p3>>, <<"MEM_ALLOC", 0, 4>>, <<"MEM_ALLOC", 1, 5>>,
  <<"SET", "EAX", 2>>, <<"SET", "EBX", 1>>, <<"STDIN", "EBX", "EAX">>,
  <<"SET", "SI", 1>>, <<"SET", "DI", 2>>, <<"COPY_MEM", "EAX">>,
  <<"SET", "SI", 2>>, <<"MOV_IN", "EBX">>, <<"STDOUT", "DI", "EAX">>,
  <<"SET", "EAX", 14>>, <<"COPY_MEM", "EAX">> >>

(* Stops at an instruction nobody knows.                                    *)
Duerme == << <<"MUTEX_CREATE">>, <<"SLEEP">>, <<"MEM_ALLOC", 0, 2>>, <<"STDOUT", "AX", "BX">>, <<"DESCONOCIDA">> >>

(* Has no EXIT.                                                             *)
SeCorta == << <<"NOOP">>, <<"SET", "AX", 1>> >>

(* Leaves a hole below its bytes, and needs it for another segment.         *)
Agranda == <<
  <<"INIT_PROC", p2>>, <<"MEM_ALLOC", 0, 2>>, <<"MEM_ALLOC", 1, 2>>,
  <<"SET", "DI", 4>>, <<"SET", "AX", 2>>, <<"MOV_OUT", "AX">>,
  <<"MEM_FREE", 0>>, <<"MEM_ALLOC", 2, 3>>,
  <<"SET", "SI", 4>>, <<"MOV_IN", "BX">>, <<"JNZ", "BX", 12>>, <<"NOOP">>, <<"EXIT">> >>

(* Writes in a segment and reads it again.                                  *)
Anota == <<
  <<"MEM_ALLOC", 0, 1>>, <<"SET", "AX", 3>>, <<"MOV_OUT", "AX">>, <<"NOOP">>,
  <<"MOV_IN", "BX">>, <<"JNZ", "BX", 7>>, <<"NOOP">>, <<"EXIT">> >>

MCConfiguraciones ==
  {[programa |-> (p1 :> Compacta) @@ (p2 :> Cuenta) @@ (p3 :> <<>>), cpus |-> {c1}, rr |-> TRUE],
   [programa |-> (p1 :> Lee) @@ (p2 :> Duerme) @@ (p3 :> SeCorta), cpus |-> {c1, c2}, rr |-> FALSE]}
  \cup {[programa |-> (p1 :> Agranda) @@ (p2 :> Anota) @@ (p3 :> <<>>), cpus |-> {c1, c2}, rr |-> q]
         : q \in BOOLEAN}
=============================================================================
