------------------------------- MODULE Healing -------------------------------
(***************************************************************************)
(* Safe healing (.adwf/lib/healing.py): the life cycle of recipes, the     *)
(* circuit breaker, and the decisions H0 to H6.  A recipe is a model value *)
(* for one id and version; what is in its actions is the set Harmful.      *)
(***************************************************************************)
EXTENDS Naturals, FiniteSets, Sequences

CONSTANTS Recipe,
          Fingerprint,
          Match,            \* the fingerprint of a recipe
          Harmful,          \* recipes that write protected paths or run forbidden commands
          MaxAttempts, MaxFalseHeals,    \* budgets of healing-config.json
          NoRecipe

ASSUME HealingAssumption ==
    /\ Match \in [Recipe -> Fingerprint]
    /\ Harmful \subseteq Recipe
    /\ {MaxAttempts, MaxFalseHeals} \subseteq Nat
    /\ NoRecipe \notin Recipe

MinShadowPasses == 2

RecipeStates == {"DRAFT", "SHADOW", "CERTIFIED", "ACTIVE", "QUARANTINED", "RETIRED"}

\* Mutant: a recipe that was certified once need not be certified again.
RecipeTransitionsBack(state) ==
    CASE state = "DRAFT"       -> {"SHADOW", "RETIRED"}
      [] state = "SHADOW"      -> {"CERTIFIED", "QUARANTINED", "RETIRED"}
      [] state = "CERTIFIED"   -> {"ACTIVE", "QUARANTINED", "RETIRED"}
      [] state = "ACTIVE"      -> {"QUARANTINED", "RETIRED"}
      [] state = "QUARANTINED" -> {"ACTIVE", "RETIRED"}
      [] OTHER                 -> {}

RecipeTransitions(state) ==
    CASE state = "DRAFT"       -> {"SHADOW", "RETIRED"}
      [] state = "SHADOW"      -> {"CERTIFIED", "QUARANTINED", "RETIRED"}
      [] state = "CERTIFIED"   -> {"ACTIVE", "QUARANTINED", "RETIRED"}
      [] state = "ACTIVE"      -> {"QUARANTINED", "RETIRED"}
      [] state = "QUARANTINED" -> {"SHADOW", "RETIRED"}
      [] OTHER                 -> {}

\* lifecycle_history keeps <<state, approved>> of every transition; an approval
\* counts where one is needed.
Promotions == {"CERTIFIED", "ACTIVE"}
Entry == [lifecycle: RecipeStates, certified: BOOLEAN, passes: Nat,
          history: Seq(RecipeStates \X BOOLEAN)]
Draft == [lifecycle |-> "DRAFT", certified |-> FALSE, passes |-> 0, history |-> <<>>]

Gone(e, state, approved) ==
    [e EXCEPT !.lifecycle = state, !.history = Append(@, <<state, approved /\ state \in Promotions>>)]

\* validate_recipe_registry
ValidRegistry(registry) ==
    \A r \in Recipe : registry[r].lifecycle \in Promotions =>
        registry[r].certified /\ registry[r].passes >= MinShadowPasses

MayTransition(e, target, approved, passes) ==
    /\ target \in RecipeTransitions(e.lifecycle)
    /\ target \in Promotions => approved
    /\ target = "CERTIFIED" => passes >= MinShadowPasses
    /\ target = "ACTIVE" => e.certified

Transition(e, target, approved, passes) ==
    IF target = "CERTIFIED"
    THEN [Gone(e, target, approved) EXCEPT !.certified = TRUE, !.passes = passes]
    ELSE Gone(e, target, approved)

-----------------------------------------------------------------------------
\* The circuit breaker: how often a recipe and a fingerprint healed falsely.
Circuit == [recipes: [Recipe -> Nat], fingerprints: [Fingerprint -> Nat], global: BOOLEAN]
Closed == [recipes |-> [r \in Recipe |-> 0], fingerprints |-> [f \in Fingerprint |-> 0],
           global |-> FALSE]

\* Mutant: the breaker of the recipe is not asked.
CircuitOpenForFingerprint(c, f, r) ==
    c.global \/ (c.fingerprints[f] > 0 /\ c.fingerprints[f] >= MaxFalseHeals)

\* _circuit_open: a recipe is out at its first false heal.
CircuitOpen(c, f, r) ==
    \/ c.global
    \/ (c.fingerprints[f] > 0 /\ c.fingerprints[f] >= MaxFalseHeals)
    \/ r \in {k \in Recipe : c.recipes[k] > 0}

FalseHealOutcomes == {"FALSE_HEAL", "UNSAFE_ATTEMPT", "IMMEDIATE_RECURRENCE"}

\* record_heal_outcome on the registry and on the circuit; the fingerprint is
\* the caller's, not the recipe's.
Quarantine(e, outcome) ==
    IF outcome \in FalseHealOutcomes /\ e.lifecycle \notin {"QUARANTINED", "RETIRED"}
    THEN Gone(e, "QUARANTINED", FALSE) ELSE e

Burnt(c, r, f, outcome) ==
    IF outcome \in FalseHealOutcomes
    THEN [c EXCEPT !.recipes[r] = @ + 1, !.fingerprints[f] = @ + 1]
    ELSE c

-----------------------------------------------------------------------------
\* What the caller says about an attempt.
Context == [allow: BOOLEAN,                \* the policy result
            spent: 0..MaxAttempts,         \* attempts so far
            affordable: BOOLEAN,           \* time, files, cost and AI within budget
            compatible: SUBSET Recipe,     \* policy hash, versions and expiry fit
            transient: BOOLEAN]            \* the failure class

Decision(level, result, r) == [level |-> level, result |-> result, recipe |-> r]

WithinBudget(x) == x.affordable /\ x.spent < MaxAttempts

\* recipe_compatibility and the life cycle.
Candidates(registry, f, x) ==
    {r \in Recipe : Match[r] = f /\ r \in x.compatible /\ registry[r].lifecycle = "ACTIVE"}

EvaluateHealing(registry, c, f, x) ==
    LET able == Candidates(registry, f, x)
        r    == CHOOSE k \in able : TRUE
    IN  IF ~x.allow THEN Decision("H0", "BLOCK", NoRecipe)
        ELSE IF ~WithinBudget(x) \/ CircuitOpen(c, f, NoRecipe)
        THEN Decision("H5", "HUMAN_REQUIRED", NoRecipe)
        ELSE IF x.transient
        THEN Decision(IF x.spent = 0 THEN "H1" ELSE "H2", "ALLOW", NoRecipe)
        ELSE IF Cardinality(able) # 1 \/ CircuitOpen(c, f, r) \/ r \in Harmful
        THEN Decision("H5", "HUMAN_REQUIRED", NoRecipe)
        ELSE Decision("H3", "ALLOW", r)
=============================================================================
