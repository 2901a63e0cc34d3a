--------------------------- MODULE MCTrustedGate ----------------------------
(***************************************************************************)
(* TrustedGate for TLC: a feature, one with its generated projection, a    *)
(* routine protected change, one that weakens a gate and one that revokes  *)
(* the standing policy; two in a row mix a feature with protected files.   *)
(***************************************************************************)
EXTENDS TrustedGate

RootTree    == [feature |-> 0, generated |-> 0, source |-> "kept", policy |-> "ACTIVE"]
PlainTree   == [RootTree EXCEPT !.feature = 1]
FeatureTree == [PlainTree EXCEPT !.generated = 1]
SourceTree  == [RootTree EXCEPT !.source = "changed"]
WeakerTree  == [RootTree EXCEPT !.source = "weaker"]
RevokedTree == [RootTree EXCEPT !.policy = "REVOKED"]

PushedTrees == {PlainTree, FeatureTree, SourceTree, WeakerTree, RevokedTree}

\* Posting reads nothing of a pull request: what authors do meanwhile they may
\* as well do before it starts.
AuthorsPause == At("publish") /\ pull' # pull => main' # main
=============================================================================
