-------------------------- MODULE MCSequentialBatch --------------------------
(* SequentialBatch on a corpus of four documents. *)
EXTENDS SequentialBatch

CONSTANTS d1, d2, d3, d4

Docs4 == {d1, d2, d3, d4}
Corpus4 == <<d1, d2, d3, d4>>
=============================================================================
