---------------------------- MODULE MCEngineProbe ----------------------------
(* EngineProbe has one constant, which its configuration gives.            *)
EXTENDS EngineProbe
=============================================================================
