-------------------------- MODULE MCNativeConnector --------------------------
(* NativeConnector.tla for TLC: the configuration gives the bounds. *)
EXTENDS NativeConnector
=============================================================================
