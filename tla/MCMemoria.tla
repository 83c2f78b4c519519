----------------------------- MODULE MCMemoria -----------------------------
(* An instance of Memoria for TLC.                                          *)
EXTENDS Memoria

Simetria == Permutations(Procesos) \cup Permutations(Ids)

(* The model goes no further than a state that is not whole.  Of the others, *)
(* two are one that differ in bytes which are not what the program of their  *)
(* segment wrote there: no guard reads a byte, and a segment that is given    *)
(* free memory may hold anything.  So are two that differ in which of the     *)
(* free blocks is the next, or in what a context says that is out of date    *)
(* and still to be saved.                                                   *)
Vista ==
  IF Entero
  THEN <<fase, ctx, {<<g.pid, g.tabla = tabla[g.pid]>> : g \in porGuardar},
         tabla, huecos, sticks, escrituras, suspendidos, swap,
         SortSeq(libres, LAMBDA x, y : x < y), operacion,
         [p \in Procesos |-> ContenidoDe(p)]>>
  ELSE <<pisado, paso, pedido, huecos>>
=============================================================================
