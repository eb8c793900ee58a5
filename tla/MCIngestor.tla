----------------------------- MODULE MCIngestor -----------------------------
(* Ingestor for TLC: signatures are interchangeable in the safety runs. *)
EXTENDS Ingestor, TLC

Interchangeable == Permutations(Sigs)
=============================================================================
