-------------------------- MODULE MC_ChunkedFetch --------------------------
(* Up to four keys of three, repeats allowed, in chunks of two: up to two  *)
(* chunks, the last one full or short.                                     *)
EXTENDS ChunkedFetch, TLC

CONSTANTS k1, k2, k3

MC_KeySet == {k1, k2, k3}
====
