----------------------------- MODULE MCConsole -----------------------------
(* Constants of Console for TLC are given in Console.cfg.                  *)
EXTENDS Console
=============================================================================
