------------------------- MODULE MCJsonRpcConnection -------------------------
(* TLC instances of JsonRpcConnection. *)
EXTENDS JsonRpcConnection, TLC

Interchangeable == Permutations(Callers) \cup Permutations(Closers)
=============================================================================
