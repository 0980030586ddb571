----------------------------- MODULE MCKvCache -----------------------------
(* Windows from 1 row up, with a sink that fits some of them only. *)
EXTENDS KvCache
=============================================================================
