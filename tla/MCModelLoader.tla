--------------------------- MODULE MCModelLoader ----------------------------
(* ModelLoader on a small set of threads. *)
EXTENDS ModelLoader
=============================================================================
