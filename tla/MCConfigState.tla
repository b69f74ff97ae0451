---------------------------- MODULE MCConfigState ----------------------------
(* Constants of ConfigState for TLC are given in Config.cfg.               *)
EXTENDS ConfigState, TLC

(* Nothing tells one request from another.                                 *)
Alike == Permutations(Requests)
=============================================================================
