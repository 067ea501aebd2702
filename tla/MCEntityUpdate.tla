--------------------------- MODULE MCEntityUpdate ---------------------------
(* EntityUpdate on small pools: an enemy, and an entity that outlives its  *)
(* room.                                                                   *)
EXTENDS EntityUpdate

MCNewcomers == {<<"enemy", {}>>, <<"entity", {"PERSIST"}>>}
=============================================================================
