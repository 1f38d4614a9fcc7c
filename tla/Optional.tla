------------------------------ MODULE Optional ------------------------------
(***************************************************************************)
(* Python's None, and values that may be None.                             *)
(***************************************************************************)
EXTENDS Integers

CONSTANT None

ASSUME NoneAssumption == None \notin Int

Opt(S) == S \cup {None}
=============================================================================
