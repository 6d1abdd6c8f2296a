----------------------------- MODULE MCDispatcher -----------------------------
(* Small instances of the dispatcher: see the cfg files and README.          *)
EXTENDS Dispatcher, TLC
==============================================================================
