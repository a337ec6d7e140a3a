---------------------------- MODULE MCBulkDriver -----------------------------
(* BulkDriver on a corpus of three documents: a full batch and a short one. *)
EXTENDS BulkDriver

CONSTANTS d1, d2, d3

Docs3 == {d1, d2, d3}
Corpus3 == <<d1, d2, d3>>
=============================================================================
