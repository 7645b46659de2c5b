------------------------------- MODULE MCFiles -------------------------------
(***************************************************************************)
(* Files with chunks of two bytes and two uploads: of a file of three      *)
(* chunks and one of two, each ending in a short one, the first chunk the  *)
(* same; or of an empty file and one of one short chunk.                   *)
(***************************************************************************)
EXTENDS Files

MCCalls == {<<<<1, 1, 2, 1, 1>>, <<1, 1, 2>>>>, << << >>, <<1>> >>}
=============================================================================
