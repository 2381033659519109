----------------------------- MODULE MCShutdown -----------------------------
(* Shutdown.tla for TLC; the constants are given in the configuration.     *)
EXTENDS Shutdown
=============================================================================
