------------------------- MODULE MCConnectedUpgrade -------------------------
(* Two files of the package, the profile and two sidecars.                   *)
EXTENDS ConnectedUpgrade

MCEntries  == <<"docs/tool", "lib">>
MCProfile  == "profile"
MCSidecars == <<"installation", "gates">>
MCNested   == {"docs/tool"}

PlanOf(x, y, z) == [p \in Path |-> CASE p = "docs/tool" -> x [] p = "lib" -> y [] OTHER -> z]
MCPlans == {PlanOf("CREATE", "REPLACE", "KEEP"), PlanOf("REMOVE", "KEEP", "REPLACE")}
=============================================================================
