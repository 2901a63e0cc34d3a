----------------------------- MODULE PolicyDecay -----------------------------
(***************************************************************************)
(* The permission engine asked again and again while the world gets worse: *)
(* a context starts with every fact in its favour and loses them one at a  *)
(* time, in any order (evidence expires, a gate turns red, a health        *)
(* dimension is no longer verified, a lease conflict appears).             *)
(***************************************************************************)
EXTENDS Policy, FiniteSets

CONSTANTS Actions,      \* the action names asked for
          Autonomies,   \* autonomy classes in force
          Risks,        \* risk classes of the work and of the ceiling
          WorkTypes,    \* work types of the run
          MaxLost       \* bound: how many facts may be lost

ASSUME InputsAssumption ==
    /\ Actions \subseteq STRING /\ WorkTypes \subseteq STRING
    /\ Autonomies \subseteq Int /\ Risks \subseteq Int

VARIABLES ctx, lost
decayVars == <<ctx, lost>>

Favourable == [f \in Fact |-> f \in GoodFacts]

DecayInit ==
    /\ ctx \in [action : Actions, autonomy : Autonomies, risk : Risks, maxRisk : Risks,
                workType : WorkTypes, fact : {Favourable}]
    /\ lost = {}

\* One fact turns against the caller.
LoseFact(f) ==
    /\ f \notin lost
    /\ Cardinality(lost) < MaxLost
    /\ ctx' = [ctx EXCEPT !.fact[f] = f \in BadFacts]
    /\ lost' = lost \cup {f}

DecayNext == \E f \in Fact : LoseFact(f)

DecaySpec == DecayInit /\ [][DecayNext]_decayVars

-----------------------------------------------------------------------------
DecayTypeOK == ctx \in Context /\ lost \subseteq Fact

(* evaluate_permission's docstring: what is not known closes the circuit.   *)
(* Losing a fact never turns a stricter answer into a more permissive one,  *)
(* whichever facts were lost before it and whichever stage they bite in.    *)
LossNeverLoosens ==
    [][Strictness(EvaluatePermission(ctx')) >= Strictness(EvaluatePermission(ctx))]_decayVars

(* AUTONOMY_POLICY.md: a human approval cannot turn stale evidence, an       *)
(* unknown provider or a cost into ALLOW; it lifts HUMAN_REQUIRED only.      *)
ApprovalLiftsOnlyHumanRequired ==
    LET approved == [ctx EXCEPT !.fact["humanApproved"] = TRUE]
    IN  EvaluatePermission(approved) =
            IF EvaluatePermission(ctx) = "BLOCK" THEN "BLOCK" ELSE "ALLOW"

(* An owner-only action (autonomy minimum A4) is never allowed to proceed    *)
(* on autonomy alone, whatever the active autonomy class.                    *)
OwnerActionsNeedOwner ==
    ctx.action \in OwnerOnly /\ ~ctx.fact["humanApproved"]
        => EvaluatePermission(ctx) # "ALLOW"
=============================================================================
