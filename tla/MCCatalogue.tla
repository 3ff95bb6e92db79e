---------------------------- MODULE MCCatalogue ----------------------------
(***************************************************************************)
(* Instances of Catalogue for TLC: two files of one product, of which one  *)
(* may turn out infected and one suspicious.                               *)
(***************************************************************************)
EXTENDS Catalogue, TLC

CONSTANTS a1, a2

MayFail == a1 :> {"clean", "infected"} @@ a2 :> {"clean"}
=============================================================================
