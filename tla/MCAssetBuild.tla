---------------------------- MODULE MCAssetBuild ----------------------------
(***************************************************************************)
(* AssetBuild on small instances.                                          *)
(***************************************************************************)
EXTENDS AssetBuild

CONSTANTS usa, eu, gfx, misc
=============================================================================
