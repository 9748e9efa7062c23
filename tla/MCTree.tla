--------------------------------- MODULE MCTree -------------------------------
(***************************************************************************)
(* One process that makes, enters and removes directories, and goes up     *)
(* from one it has removed.                                                *)
(***************************************************************************)
EXTENDS Tree

CONSTANTS a, b

APaths == {<<"/", a>>, <<"/", a, b>>, <<"..">>}
===============================================================================
