---------------------------- MODULE MCRegistries ----------------------------
(* Two processes at one list; names are numbers because lists are sorted. *)
EXTENDS Registries

MCNames == 1..3
MCForeign == {4}
=============================================================================
