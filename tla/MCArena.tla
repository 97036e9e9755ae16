------------------------------- MODULE MCArena -------------------------------
(***************************************************************************)
(* Arena with 3 pages of 8 bytes, an arena struct of 4 bytes and links of  *)
(* 2 bytes: up to 3 arenas, or one of 3 pages, or pages of others.         *)
(***************************************************************************)
EXTENDS Arena

MCPages == 1 .. 3
==============================================================================
