---------------------------- MODULE MC_Toolbox -----------------------------
EXTENDS Toolbox, TLC

CONSTANTS t1, t2, s1, s2

Listing == (s1 :> {t1}) @@ (s2 :> {t1, t2})
Users == [r1 |-> "registry", r2 |-> "manager"]
Results == {<<s2, s1>>}
=============================================================================
