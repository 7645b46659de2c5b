---------------------------- MODULE MCLightClient ----------------------------
(***************************************************************************)
(* LightClient with three endpoints, two of which must agree, the first    *)
(* serving anything, over a chain whose second block changed no state.     *)
(***************************************************************************)
EXTENDS LightClient

CONSTANTS rootA, rootB, rootX

MCAppHash == <<rootA, rootA, rootB>>
MCResults == {<< >>, <<1>>, <<1, 1>>, <<2, 1>>}
=============================================================================
