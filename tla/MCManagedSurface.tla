--------------------------- MODULE MCManagedSurface ---------------------------
(* Two files of the package, the second in a directory of its own and shared. *)
EXTENDS ManagedSurface

MCOrder == <<"tool", "docs/guide">>
MCNested == {"docs/guide"}
MCShared == {"docs/guide"}
=============================================================================
