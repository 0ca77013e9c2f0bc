------------------------------- MODULE MCLogs -------------------------------
(***************************************************************************)
(* A log of a few requests, interchangeable, over two days.                *)
(***************************************************************************)
EXTENDS LogStore

Interchangeable == Permutations(Requests)
=============================================================================
