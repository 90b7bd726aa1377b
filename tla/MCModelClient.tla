----------------------------- MODULE MCModelClient -----------------------------
(* ModelClient for model checking: a chain of three targets, of which a call may
   try two, so that a benched one is displaced. *)
EXTENDS ModelClient

CONSTANTS a, b, c

MCTargets == <<a, b, c>>
=============================================================================
