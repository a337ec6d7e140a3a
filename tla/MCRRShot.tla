------------------------------ MODULE MCRRShot ------------------------------
(* RRShot on small instances: the values come from the cfg files. *)
EXTENDS RRShot, TLC
=============================================================================
