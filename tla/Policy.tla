------------------------------- MODULE Policy -------------------------------
(***************************************************************************)
(* The permission engine of .adwf/lib/policy.py, reached through           *)
(* policy_runtime.evaluate_with_effective_policy.                          *)
(*                                                                         *)
(* A decision context is a record of facts.  A health dimension is TRUE    *)
(* when its value is in safe_health; gatesPass is TRUE when every required *)
(* gate has PASS; zeroCost is projected_cost <= 0; hashMatches is TRUE     *)
(* when expected_policy_hash is absent or equals the hash of the effective *)
(* policy; irValid is TRUE when the effective policy could be loaded and   *)
(* carries the expected rules.  Autonomy and risk classes A0..A4, R0..R4   *)
(* are their ranks; any other number stands for an unknown class.          *)
(***************************************************************************)
EXTENDS Integers

Rank == 0..4

Unattended == {"inspect", "plan", "reconcile"}
Assisted   == {"edit", "test", "continue", "review", "verify", "observe",
               "record_incident"}
Delegated  == {"commit", "push", "open_pr", "claim", "repair", "cleanup"}
Autonomous == {"merge", "deploy_dev", "promote", "rollback", "close_issue"}
OwnerOnly  == {"deploy_prod", "delete", "trust_change", "owner_accept",
               "certify_recipe"}
Action     == Unattended \cup Assisted \cup Delegated \cup Autonomous \cup OwnerOnly

\* ACTION_MIN_AUTONOMY: the least autonomy at which an action needs no human.
MinAutonomy(a) ==
    CASE a \in Unattended -> 0
      [] a \in Assisted   -> 1
      [] a \in Delegated  -> 2
      [] a \in Autonomous -> 3
      [] a \in OwnerOnly  -> 4

NonMutatingActions   == {"inspect", "plan", "reconcile", "review", "verify", "observe"}
ControlPlaneOptional == {"edit", "test"}
ExemptWorkTypes      == {"recovery", "verification", "governance"}
EvidenceActions      == {"merge", "deploy_dev", "deploy_prod", "promote", "rollback",
                         "close_issue"}
AlwaysHumanActions   == {"delete", "deploy_prod", "trust_change", "owner_accept",
                         "certify_recipe"}

\* The facts whose loss can only make the engine stricter, and the ones
\* whose appearance can only make it stricter.
GoodFacts == {"irValid", "hashMatches", "factsFresh", "providerAllowed", "zeroCost",
              "package", "config", "controlPlane", "product", "gatesPass", "exactSha",
              "evidenceFresh", "humanApproved", "ownerExact"}
BadFacts  == {"providerPaid", "writerConflict", "destructive", "trustChange"}
Fact      == GoodFacts \cup BadFacts

\* DecisionContext: who asks for what, and the facts the engine consults.
Context == [action : STRING, autonomy : Int, risk : Int, maxRisk : Int,
            workType : STRING, fact : [Fact -> BOOLEAN]]

-----------------------------------------------------------------------------
If(cond, reason) == IF cond THEN {reason} ELSE {}

\* The early returns on a policy, an action or a class the engine does not know.
UnknownReasons(c) ==
    IF ~c.fact["irValid"]           THEN {"POLICY_IR_INVALID"}
    ELSE IF c.action \notin Action  THEN {"UNKNOWN_ACTION"}
    ELSE IF c.autonomy \notin Rank  THEN {"INVALID_AUTONOMY"}
    ELSE IF ~({c.risk, c.maxRisk} \subseteq Rank) THEN {"INVALID_RISK"}
    ELSE {}

\* Policy drift, stale provider facts, forbidden providers and any cost.
ProviderReasons(c) ==
    If(~c.fact["hashMatches"], "POLICY_HASH_MISMATCH")
    \cup If(~c.fact["factsFresh"], "PROVIDER_FACTS_NOT_FRESH")
    \cup If(~c.fact["providerAllowed"] \/ c.fact["providerPaid"], "UNKNOWN_OR_PAID_PROVIDER")
    \cup If(~c.fact["zeroCost"], "NON_ZERO_COST")

\* Health for mutations, the writer conflict, and evidence for gated actions.
SafetyReasons(c) ==
    LET mutation == c.action \notin NonMutatingActions
        gated    == c.action \in EvidenceActions
    IN  If(/\ mutation
           /\ \/ ~c.fact["package"]
              \/ ~c.fact["config"]
              \/ c.action \notin ControlPlaneOptional /\ ~c.fact["controlPlane"],
           "HEALTH_NOT_SAFE")
        \cup If(mutation /\ c.workType \notin ExemptWorkTypes /\ ~c.fact["product"],
                "PRODUCT_HEALTH_BLOCKS_FEATURE")
        \cup If(c.fact["writerConflict"], "WRITER_CONFLICT")
        \cup If(gated /\ ~c.fact["gatesPass"], "GATE_NOT_PASS")
        \cup If(gated /\ ~c.fact["exactSha"], "SHA_NOT_EXACT")
        \cup If(gated /\ ~c.fact["evidenceFresh"], "EVIDENCE_NOT_FRESH")

\* Mutant: an A4 class no longer asks for a human by itself.
HumanReasonsWithoutA4(c) ==
    If(c.fact["destructive"] \/ c.action = "delete", "DESTRUCTIVE_ACTION")
    \cup If(c.action = "deploy_prod", "PRODUCTION_DEPLOY")
    \cup If(c.fact["trustChange"] \/ c.risk = 4, "R4_OR_TRUST_CHANGE")
    \cup If(c.action = "owner_accept" /\ ~c.fact["ownerExact"],
            "OWNER_ACCEPTANCE_NOT_EXACT")
    \cup If(c.risk > c.maxRisk, "RISK_ABOVE_CEILING")
    \cup If(c.autonomy < MinAutonomy(c.action), "AUTONOMY_TOO_LOW")

\* What a human has to approve before the action may run.
HumanReasons(c) ==
    If(c.fact["destructive"] \/ c.action = "delete", "DESTRUCTIVE_ACTION")
    \cup If(c.action = "deploy_prod", "PRODUCTION_DEPLOY")
    \cup If(c.fact["trustChange"] \/ c.risk = 4 \/ c.action = "trust_change",
            "R4_OR_TRUST_CHANGE")
    \cup If(c.action = "owner_accept" /\ ~c.fact["ownerExact"],
            "OWNER_ACCEPTANCE_NOT_EXACT")
    \cup If(c.autonomy = 4 \/ MinAutonomy(c.action) = 4 \/ c.action \in AlwaysHumanActions,
            "A4_NEVER_AUTOMATIC")
    \cup If(c.risk > c.maxRisk, "RISK_ABOVE_CEILING")
    \cup If(c.autonomy < MinAutonomy(c.action), "AUTONOMY_TOO_LOW")

\* evaluate_permission: the reasons of the first failing stage decide.
BlockReasons(c) ==
    IF UnknownReasons(c) # {}       THEN UnknownReasons(c)
    ELSE IF ProviderReasons(c) # {} THEN ProviderReasons(c)
    ELSE SafetyReasons(c)

\* Mutant: the human stage answers before the safety stage.
EvaluateHumanFirst(c) ==
    IF UnknownReasons(c) \cup ProviderReasons(c) # {} THEN "BLOCK"
    ELSE IF HumanReasons(c) # {} /\ ~c.fact["humanApproved"] THEN "HUMAN_REQUIRED"
    ELSE IF SafetyReasons(c) # {} THEN "BLOCK"
    ELSE "ALLOW"

EvaluatePermission(c) ==
    IF BlockReasons(c) # {} THEN "BLOCK"
    ELSE IF HumanReasons(c) # {} /\ ~c.fact["humanApproved"] THEN "HUMAN_REQUIRED"
    ELSE "ALLOW"

Decisions == {"ALLOW", "HUMAN_REQUIRED", "BLOCK"}

\* The order in which the answers restrict the caller.
Strictness(d) == CASE d = "ALLOW" -> 0 [] d = "HUMAN_REQUIRED" -> 1 [] OTHER -> 2
=============================================================================
