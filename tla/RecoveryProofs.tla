---------------------------- MODULE RecoveryProofs ----------------------------
(***************************************************************************)
(* What the two parts that put things right promise: healing with the      *)
(* incident store, for any number of recipes, fingerprints, reporters,     *)
(* symptoms and steps; and the consumer upgrade with its recovery, for any *)
(* plan, any number of paths, sidecars, crashes and changes of the         *)
(* consumer, and any number of operators unless an operator is said to be  *)
(* alone.                                                                  *)
(***************************************************************************)
EXTENDS ConnectedUpgrade, SafeHealing, FiniteSetTheorems, TLAPS

-----------------------------------------------------------------------------
\* The registry and the circuit breaker.

\* A recipe with a recorded false heal has a positive count in the circuit.
BurntInCircuit == \A r \in burnt : circuit.recipes[r] > 0

\* An approved certification that no quarantine follows.
CertifiedSince(h) ==
    \E i \in DOMAIN h :
        /\ h[i] = <<"CERTIFIED", TRUE>>
        /\ \A k \in i..Len(h) : h[k][1] # "QUARANTINED"

\* QuarantineNeedsCertification, strengthened to the state before ACTIVE.
PromotionsCertified(recipes) ==
    \A r \in Recipe : recipes[r].lifecycle \in Promotions => CertifiedSince(recipes[r].history)

PromotedWasCertified == PromotionsCertified(registry)

\* What is about to be saved takes no count back and promotes nothing.
Results == [recipe: Recipe, failed: BOOLEAN, registry: [Recipe -> Entry], circuit: Circuit,
            files: SUBSET {"registry", "circuit"}]

ResultSound ==
    result # Saved =>
        /\ result \in Results
        /\ PromotionsCertified(result.registry)
        /\ \A k \in Recipe : result.circuit.recipes[k] >= circuit.recipes[k]
        /\ result.failed => result.circuit.recipes[result.recipe] > 0

HealingInv == HealingTypes /\ BurntInCircuit /\ PromotedWasCertified /\ ResultSound

\* An evaluation at H3 names an active recipe the circuit is closed for.
LEMMA SelectedFacts ==
    ASSUME NEW reg, NEW c, NEW f, NEW x
    PROVE  LET d == EvaluateHealing(reg, c, f, x)
           IN  /\ d.level = "H3" => d.recipe \in Recipe
               /\ d.recipe = NoRecipe \/ ~CircuitOpen(c, f, d.recipe)
<1> DEFINE able == Candidates(reg, f, x)
           r == CHOOSE k \in able : TRUE
<1>1. Cardinality(able) = 1 => r \in Recipe
  <2>1. able = {} => Cardinality(able) = 0
    BY FS_EmptySet
  <2>2. able \subseteq Recipe
    BY DEF Candidates
  <2>3. able # {} => r \in able
    OBVIOUS
  <2>4. QED
    BY <2>1, <2>2, <2>3
<1>2. QED
  BY <1>1 DEF EvaluateHealing, Decision

\* An entry that left the life cycle state it was in is an entry.
LEMMA GoneEntry ==
    ASSUME NEW e \in Entry, NEW state \in RecipeStates, NEW approved \in BOOLEAN
    PROVE  /\ Gone(e, state, approved) \in Entry
           /\ Gone(e, state, approved).lifecycle = state
           /\ Gone(e, state, approved).history
                = Append(e.history, <<state, approved /\ state \in Promotions>>)
<1>1. <<state, approved /\ state \in Promotions>> \in RecipeStates \X BOOLEAN
  OBVIOUS
<1>2. Append(e.history, <<state, approved /\ state \in Promotions>>)
        \in Seq(RecipeStates \X BOOLEAN)
  BY <1>1 DEF Entry
<1>3. QED
  BY <1>2 DEF Gone, Entry

LEMMA TransitionEntry ==
    ASSUME NEW e \in Entry, NEW goal \in RecipeStates, NEW approved \in BOOLEAN,
           NEW passes \in Nat
    PROVE  /\ Transition(e, goal, approved, passes) \in Entry
           /\ Transition(e, goal, approved, passes).lifecycle = goal
           /\ Transition(e, goal, approved, passes).history
                = Append(e.history, <<goal, approved /\ goal \in Promotions>>)
<1> DEFINE g == Gone(e, goal, approved)
<1>1. /\ g \in Entry /\ g.lifecycle = goal
      /\ g.history = Append(e.history, <<goal, approved /\ goal \in Promotions>>)
  BY GoneEntry
<1>2. Transition(e, goal, approved, passes)
        \in {g, [g EXCEPT !.certified = TRUE, !.passes = passes]}
  BY DEF Transition
<1> HIDE DEF g
<1>3. [g EXCEPT !.certified = TRUE, !.passes = passes] \in Entry
      /\ [g EXCEPT !.certified = TRUE, !.passes = passes].lifecycle = g.lifecycle
      /\ [g EXCEPT !.certified = TRUE, !.passes = passes].history = g.history
  BY <1>1 DEF Entry
<1>4. QED
  BY <1>1, <1>2, <1>3

LEMMA QuarantineEntry ==
    ASSUME NEW e \in Entry, NEW outcome
    PROVE  /\ Quarantine(e, outcome) \in Entry
           /\ Quarantine(e, outcome) = e \/ Quarantine(e, outcome).lifecycle = "QUARANTINED"
BY GoneEntry DEF Quarantine, RecipeStates

\* What a transition appends keeps an earlier certification, or is one.
LEMMA CertificationKept ==
    ASSUME NEW h \in Seq(RecipeStates \X BOOLEAN), NEW entry \in RecipeStates \X BOOLEAN,
           entry = <<"CERTIFIED", TRUE>> \/ (CertifiedSince(h) /\ entry[1] # "QUARANTINED")
    PROVE  CertifiedSince(Append(h, entry))
<1> DEFINE g == Append(h, entry)
<1>1. /\ Len(g) = Len(h) + 1 /\ DOMAIN g = 1..Len(h) + 1 /\ Len(h) \in Nat
      /\ g[Len(h) + 1] = entry
      /\ DOMAIN h = 1..Len(h)
      /\ \A k \in 1..Len(h) : g[k] = h[k]
  OBVIOUS
<1>2. CASE entry = <<"CERTIFIED", TRUE>>
  <2>1. entry[1] # "QUARANTINED"
    BY <1>2
  <2>2. Len(h) + 1 \in DOMAIN g /\ g[Len(h) + 1] = <<"CERTIFIED", TRUE>>
    BY <1>1, <1>2
  <2>3. \A k \in (Len(h) + 1)..Len(g) : g[k][1] # "QUARANTINED"
    BY <1>1, <2>1
  <2>4. QED
    BY <2>2, <2>3 DEF CertifiedSince
<1>3. CASE CertifiedSince(h) /\ entry[1] # "QUARANTINED"
  <2>1. PICK i \in DOMAIN h : /\ h[i] = <<"CERTIFIED", TRUE>>
                              /\ \A k \in i..Len(h) : h[k][1] # "QUARANTINED"
    BY <1>3 DEF CertifiedSince
  <2>2. i \in DOMAIN g /\ g[i] = <<"CERTIFIED", TRUE>>
    <3>1. i \in DOMAIN g /\ g[i] = h[i]
      BY <1>1
    <3>2. QED
      BY <2>1, <3>1, Zenon
  <2>3. ASSUME NEW k \in i..Len(g) PROVE g[k][1] # "QUARANTINED"
    BY <1>1, <1>3, <2>1, <2>3
  <2>4. QED
    BY <2>2, <2>3 DEF CertifiedSince
<1>4. QED
  BY <1>2, <1>3

\* A recipe moved through its life cycle keeps what promotion needs.
LEMMA MoveKeeps ==
    ASSUME HealingInv, NEW r \in Recipe, NEW goal \in RecipeStates,
           NEW approved \in BOOLEAN, NEW passes \in 0..MinShadowPasses,
           MoveRecipe(r, goal, approved, passes)
    PROVE  HealingInv'
<1> DEFINE e == registry[r]
           g == Transition(e, goal, approved, passes)
<1>1. /\ registry \in [Recipe -> Entry] /\ e \in Entry /\ passes \in Nat
      /\ registry' = [registry EXCEPT ![r] = g]
      /\ UNCHANGED <<circuit, result, planned, burnt>> /\ result = Saved
      /\ MayTransition(e, goal, approved, passes)
  BY DEF HealingInv, HealingTypes, MoveRecipe, MinShadowPasses
<1>2. g \in Entry /\ g.lifecycle = goal
      /\ g.history = Append(e.history, <<goal, approved /\ goal \in Promotions>>)
  BY <1>1, TransitionEntry
<1>3. HealingTypes' /\ BurntInCircuit'
  BY <1>1, <1>2 DEF HealingInv, HealingTypes, BurntInCircuit
<1>4. ASSUME goal \in Promotions PROVE CertifiedSince(g.history)
  <2>1. approved
    BY <1>1, <1>4 DEF MayTransition
  <2>2. goal = "ACTIVE" => e.lifecycle = "CERTIFIED"
    BY <1>1 DEF MayTransition, RecipeTransitions, Entry, RecipeStates
  <2>3. goal = "ACTIVE" => CertifiedSince(e.history)
    BY <2>2 DEF HealingInv, PromotedWasCertified, PromotionsCertified, Promotions
  <2>4. <<goal, approved /\ goal \in Promotions>> = <<goal, TRUE>>
    BY <2>1, <1>4
  <2>5. e.history \in Seq(RecipeStates \X BOOLEAN)
    BY <1>1 DEF Entry
  <2>6. QED
    BY <1>2, <1>4, <2>3, <2>4, <2>5, CertificationKept DEF Promotions
<1>5. PromotedWasCertified'
  BY <1>1, <1>2, <1>4 DEF HealingInv, PromotedWasCertified, PromotionsCertified
<1>6. QED
  BY <1>1, <1>3, <1>5 DEF HealingInv, ResultSound

\* What an outcome asks to save burns the recipe in the circuit.
LEMMA OutcomeKeeps ==
    ASSUME HealingInv, NEW r \in Recipe, NEW f \in Fingerprint, NEW outcome,
           Outcome(r, f, outcome)
    PROVE  HealingInv'
<1> DEFINE g == Quarantine(registry[r], outcome)
           c == Burnt(circuit, r, f, outcome)
           recipes == [registry EXCEPT ![r] = g]
<1>1. /\ registry \in [Recipe -> Entry] /\ registry[r] \in Entry /\ circuit \in Circuit
      /\ UNCHANGED <<registry, circuit, planned, burnt>>
      /\ result' = [recipe |-> r, failed |-> outcome \in FalseHealOutcomes,
                    registry |-> recipes, circuit |-> c, files |-> {"registry", "circuit"}]
  BY DEF HealingInv, HealingTypes, Outcome
<1>2. g \in Entry /\ (g = registry[r] \/ g.lifecycle = "QUARANTINED")
  BY <1>1, QuarantineEntry
<1>3. /\ c \in Circuit
      /\ \A k \in Recipe : c.recipes[k] >= circuit.recipes[k]
      /\ outcome \in FalseHealOutcomes => c.recipes[r] > 0
  <2>1. CASE outcome \in FalseHealOutcomes
    <3> DEFINE counts == [circuit.recipes EXCEPT ![r] = @ + 1]
               prints == [circuit.fingerprints EXCEPT ![f] = @ + 1]
    <3>1. c = [circuit EXCEPT !.recipes = counts, !.fingerprints = prints]
      BY <1>1, <2>1 DEF Burnt, Circuit
    <3>2. /\ counts \in [Recipe -> Nat] /\ prints \in [Fingerprint -> Nat]
          /\ \A k \in Recipe : counts[k] >= circuit.recipes[k]
          /\ counts[r] > 0
      BY <1>1 DEF Circuit
    <3> HIDE DEF counts, prints, c
    <3>3. c.recipes = counts /\ c.fingerprints = prints
          /\ c.global = circuit.global
          /\ c = [recipes |-> counts, fingerprints |-> prints, global |-> circuit.global]
      BY <1>1, <3>1 DEF Circuit
    <3>4. QED
      BY <1>1, <3>2, <3>3 DEF Circuit
  <2>2. CASE outcome \notin FalseHealOutcomes
    BY <1>1, <2>2 DEF Burnt, Circuit
  <2>3. QED
    BY <2>1, <2>2
<1>4. recipes \in [Recipe -> Entry] /\ PromotionsCertified(recipes)
  BY <1>1, <1>2 DEF HealingInv, PromotedWasCertified, PromotionsCertified, Promotions
<1> HIDE DEF recipes, c
<1>5. /\ result'.recipe = r /\ result'.failed = (outcome \in FalseHealOutcomes)
      /\ result'.registry = recipes /\ result'.circuit = c
      /\ result' \in Results
  BY <1>1, <1>3, <1>4 DEF Results
<1>6. ResultSound'
  BY <1>1, <1>3, <1>4, <1>5 DEF ResultSound, PromotionsCertified
<1>7. QED
  BY <1>1, <1>6
     DEF HealingInv, HealingTypes, BurntInCircuit, PromotedWasCertified, PromotionsCertified

\* A saved file keeps what the other one says.
LEMMA SaveOutcomeKeeps ==
    ASSUME HealingInv, NEW file, SaveOutcome(file)
    PROVE  HealingInv'
<1>1. /\ result # Saved /\ result \in Results /\ result.recipe \in Recipe
      /\ result.registry \in [Recipe -> Entry] /\ PromotionsCertified(result.registry)
      /\ result.circuit \in Circuit /\ circuit \in Circuit
      /\ \A k \in Recipe : result.circuit.recipes[k] >= circuit.recipes[k]
      /\ result.failed => result.circuit.recipes[result.recipe] > 0
      /\ burnt \subseteq Recipe
  BY DEF HealingInv, HealingTypes, ResultSound, Results, SaveOutcome
<1>2. \/ registry' = result.registry /\ UNCHANGED <<circuit, burnt>>
      \/ /\ circuit' = result.circuit /\ UNCHANGED registry
         /\ burnt' = IF result.failed THEN burnt \cup {result.recipe} ELSE burnt
  BY DEF SaveOutcome
<1>3. HealingTypes'
  BY <1>1, <1>2 DEF HealingInv, HealingTypes, SaveOutcome
<1>4. PromotedWasCertified'
  BY <1>1, <1>2 DEF HealingInv, PromotedWasCertified, PromotionsCertified
<1>5. BurntInCircuit'
  <2>1. SUFFICES ASSUME NEW k \in burnt' PROVE circuit'.recipes[k] > 0
    BY DEF BurntInCircuit
  <2>2. CASE k \in burnt
    <3>1. circuit.recipes[k] > 0 /\ k \in Recipe
      BY <1>1, <2>2 DEF HealingInv, BurntInCircuit
    <3>2. circuit.recipes[k] \in Nat /\ result.circuit.recipes[k] \in Nat
      BY <1>1, <3>1 DEF Circuit
    <3>3. QED
      BY <1>1, <1>2, <3>1, <3>2
  <2>3. CASE k \notin burnt
    BY <1>1, <1>2, <2>1, <2>3
  <2>4. QED
    BY <2>2, <2>3
<1>6. ResultSound'
  <2>1. result' = Saved \/ result' = [result EXCEPT !.files = @ \ {file}]
    BY DEF SaveOutcome
  <2>2. CASE result' = [result EXCEPT !.files = @ \ {file}]
    <3>1. /\ result'.recipe = result.recipe /\ result'.failed = result.failed
          /\ result'.registry = result.registry /\ result'.circuit = result.circuit
          /\ result' \in Results
      BY <1>1, <2>2 DEF Results
    <3>2. \A k \in Recipe : result.circuit.recipes[k] \in Nat
      BY <1>1 DEF Circuit
    <3>3. \A k \in Recipe : result'.circuit.recipes[k] >= circuit'.recipes[k]
      BY <1>1, <1>2, <3>1, <3>2
    <3>4. QED
      BY <1>1, <3>1, <3>3 DEF ResultSound, PromotionsCertified
  <2>3. QED
    BY <2>1, <2>2 DEF ResultSound
<1>7. QED
  BY <1>3, <1>4, <1>5, <1>6 DEF HealingInv

LEMMA HealingInvHolds == HealingSpec => []HealingInv
<1>1. HealingInit => HealingInv
  <2>1. Draft \in Entry /\ Closed \in Circuit
    BY DEF Draft, Entry, RecipeStates, Closed, Circuit
  <2>2. Draft.lifecycle \notin Promotions
    BY DEF Draft, Promotions
  <2>3. QED
    BY <2>1, <2>2 DEF HealingInit, HealingInv, HealingTypes, BurntInCircuit, ResultSound,
                      PromotedWasCertified, PromotionsCertified
<1>2. HealingInv /\ [HealingNext]_healing => HealingInv'
  <2>1. SUFFICES ASSUME HealingInv, [HealingNext]_healing PROVE HealingInv'
    OBVIOUS
  <2>2. CASE UNCHANGED <<registry, circuit, planned, burnt>> /\ result' \in {result, Saved}
    BY <2>1, <2>2 DEF HealingInv, HealingTypes, BurntInCircuit, ResultSound,
                      PromotedWasCertified, PromotionsCertified
  <2>3. ASSUME NEW i \in DOMAIN log, NEW x \in Context, Evaluate(i, x) PROVE HealingInv'
    <3>1. EvaluateHealing(registry, circuit, log[i].symptom, x).recipe \in Recipe
      BY <2>3, SelectedFacts DEF Evaluate
    <3>2. HealingTypes'
      BY <2>1, <2>3, <3>1 DEF HealingInv, HealingTypes, Evaluate
    <3>3. BurntInCircuit' /\ PromotedWasCertified' /\ ResultSound'
      BY <2>1, <2>3 DEF HealingInv, BurntInCircuit, ResultSound,
                        PromotedWasCertified, PromotionsCertified, Evaluate
    <3>4. QED
      BY <3>2, <3>3 DEF HealingInv
  <2>4. CASE TripBreaker
    BY <2>1, <2>4
       DEF TripBreaker, HealingInv, HealingTypes, Circuit, BurntInCircuit, ResultSound,
           PromotedWasCertified, PromotionsCertified
  <2>5. CASE CallerDies
    BY <2>2, <2>5 DEF CallerDies
  <2>6. QED
    BY <2>1, <2>2, <2>3, <2>4, <2>5, MoveKeeps, OutcomeKeeps, SaveOutcomeKeeps
       DEF HealingNext, Report, healing
<1>3. QED
  BY <1>1, <1>2, PTL DEF HealingSpec

\* A recipe with a recorded false heal is never selected again, whoever asks,
\* whatever the registry says since, and between the two saves of an outcome (healing.py, _circuit_open, record_heal_outcome).
THEOREM BurntStaysOut == HealingSpec => []FalseHealIsFinal
<1>1. ASSUME HealingInv PROVE FalseHealIsFinal
  <2>1. SUFFICES ASSUME NEW f \in Fingerprint, NEW x \in Context
                 PROVE  EvaluateHealing(registry, circuit, f, x).recipe \notin burnt
    BY DEF FalseHealIsFinal
  <2>2. NoRecipe \notin burnt
    BY <1>1, HealingAssumption DEF HealingInv, HealingTypes
  <2>3. ASSUME NEW r \in burnt PROVE CircuitOpen(circuit, f, r)
    BY <1>1, <2>3 DEF HealingInv, HealingTypes, BurntInCircuit, CircuitOpen
  <2>4. QED
    BY <2>2, <2>3, SelectedFacts
<1>2. QED
  BY <1>1, HealingInvHolds, PTL

\* A recipe in use carries an approved certification that no quarantine follows
\* (healing.py, transition_recipe, record_heal_outcome).
THEOREM ActiveWasCertified == HealingSpec => []QuarantineNeedsCertification
<1>1. HealingInv => QuarantineNeedsCertification
  BY DEF HealingInv, PromotedWasCertified, PromotionsCertified, CertifiedSince,
         QuarantineNeedsCertification, Promotions
<1>2. QED
  BY <1>1, HealingInvHolds, PTL
-----------------------------------------------------------------------------
\* The incident store.

EventTypes == {"INCIDENT_RECORDED", "DUPLICATE_OBSERVED"}
EventSet == [type : EventTypes, id : IncidentId, symptom : Symptom, sequence : Nat,
             previous : Nat]

\* A line that repeats a symptom has its original in the store.
HasOriginal(events) ==
    \A k \in DOMAIN events : Originals(events, events[k].symptom) # {}

OneRecord(events) ==
    \A i, k \in DOMAIN events :
        events[i].type = "INCIDENT_RECORDED" /\ i # k =>
            /\ events[k].symptom = events[i].symptom =>
                   /\ i < k
                   /\ events[k].type = "DUPLICATE_OBSERVED"
                   /\ events[k].id = events[i].id
            /\ events[k].symptom # events[i].symptom => events[k].id # events[i].id

\* OneRecordPerSymptom with what an append needs of the lines before it.
SoundLog(events) ==
    /\ events \in Seq(EventSet)
    /\ Readable(events)
    /\ OneRecord(events)
    /\ HasOriginal(events)

\* What a reporter is about to append was built from the store as it is, under the lock.
BuiltUnderLock ==
    \A p \in Reporter : report[p] # Quiet =>
        /\ lock = p
        /\ \E symptom \in Symptom, id \in IncidentId :
               ~Collision(log, symptom, id) /\ report[p] = Built(log, symptom, id)

StoreInv ==
    /\ SoundLog(log)
    /\ DOMAIN report = Reporter
    /\ BuiltUnderLock

\* A line built from a sound store has its type, continues the chain and names the
\* original of its symptom, or is the first of it with an id of its own.
LEMMA BuiltFacts ==
    ASSUME NEW events, SoundLog(events), NEW symptom \in Symptom, NEW id \in IncidentId,
           ~Collision(events, symptom, id)
    PROVE  LET e == Built(events, symptom, id)
           IN  /\ e \in EventSet /\ e.symptom = symptom
               /\ e.sequence = Len(events) + 1 /\ e.previous = Len(events)
               /\ \/ /\ e.type = "INCIDENT_RECORDED"
                     /\ \A k \in DOMAIN events :
                            events[k].symptom # symptom /\ events[k].id # e.id
                  \/ /\ e.type = "DUPLICATE_OBSERVED"
                     /\ \E i \in Originals(events, symptom) : e.id = events[i].id
<1> DEFINE e == Built(events, symptom, id)
           first == CHOOSE i \in Originals(events, symptom) : TRUE
<1>1. /\ events \in Seq(EventSet) /\ Len(events) \in Nat /\ DOMAIN events = 1..Len(events)
      /\ \A k \in DOMAIN events : events[k] \in EventSet
  BY DEF SoundLog
<1>2. (IF events = <<>> THEN 0 ELSE events[Len(events)].sequence) = Len(events)
  <2>1. CASE events = <<>>
    BY <2>1
  <2>2. CASE events # <<>>
    <3>1. Len(events) \in DOMAIN events
      BY <1>1, <2>2
    <3>2. QED
      BY <1>1, <2>2, <3>1 DEF SoundLog, Readable
  <2>3. QED
    BY <2>1, <2>2
<1>3. CASE Originals(events, symptom) # {}
  <2>1. first \in Originals(events, symptom) /\ first \in DOMAIN events
    BY <1>3 DEF Originals
  <2>2. e = Event("DUPLICATE_OBSERVED", events[first].id, symptom, events)
    BY <1>3 DEF Built
  <2> HIDE DEF first, e
  <2>3. events[first].id \in IncidentId
    BY <1>1, <2>1 DEF EventSet
  <2>4. e = [type |-> "DUPLICATE_OBSERVED", id |-> events[first].id, symptom |-> symptom,
            sequence |-> Len(events) + 1, previous |-> Len(events)]
    BY <1>2, <2>2 DEF Event
  <2>5. QED
    BY <1>1, <2>1, <2>3, <2>4 DEF EventSet, EventTypes, e
<1>4. CASE Originals(events, symptom) = {}
  <2>1. e = Event("INCIDENT_RECORDED", id, symptom, events)
    BY <1>4 DEF Built
  <2>2. \A k \in DOMAIN events : events[k].symptom # symptom
    BY <1>4 DEF SoundLog, HasOriginal
  <2>3. \A k \in DOMAIN events : events[k].id # id
    BY <1>4 DEF Collision
  <2>4. QED
    BY <1>1, <1>2, <2>1, <2>2, <2>3 DEF Event, EventSet, EventTypes
<1>5. QED
  BY <1>3, <1>4

\* Appending such a line keeps the store sound.
LEMMA AppendKeeps ==
    ASSUME NEW events, SoundLog(events), NEW symptom \in Symptom, NEW id \in IncidentId,
           ~Collision(events, symptom, id)
    PROVE  SoundLog(Append(events, Built(events, symptom, id)))
<1> DEFINE e == Built(events, symptom, id)
           g == Append(events, e)
           n == Len(events) + 1
<1>1. /\ e \in EventSet /\ e.symptom = symptom
      /\ e.sequence = n /\ e.previous = Len(events)
      /\ \/ /\ e.type = "INCIDENT_RECORDED"
            /\ \A k \in DOMAIN events : events[k].symptom # symptom /\ events[k].id # e.id
         \/ /\ e.type = "DUPLICATE_OBSERVED"
            /\ \E i \in Originals(events, symptom) : e.id = events[i].id
  BY BuiltFacts
<1> HIDE DEF e
<1>2. /\ events \in Seq(EventSet) /\ Len(events) \in Nat /\ DOMAIN events = 1..Len(events)
      /\ g \in Seq(EventSet) /\ DOMAIN g = 1..n /\ g[n] = e
      /\ \A k \in DOMAIN events : g[k] = events[k] /\ k # n /\ k < n
      /\ \A k \in DOMAIN g : k = n \/ k \in DOMAIN events
  BY <1>1 DEF SoundLog
<1> HIDE DEF g
<1>3. Readable(g)
  <2>1. n - 1 = Len(events)
    BY <1>2
  <2>2. \A k \in DOMAIN events : events[k].sequence = k /\ events[k].previous = k - 1
    BY DEF SoundLog, Readable
  <2>3. QED
    BY <1>1, <1>2, <2>1, <2>2 DEF Readable
<1>4. OneRecord(g)
  <2>1. SUFFICES ASSUME NEW i \in DOMAIN g, NEW k \in DOMAIN g,
                        g[i].type = "INCIDENT_RECORDED", i # k
                 PROVE  /\ g[k].symptom = g[i].symptom =>
                               /\ i < k
                               /\ g[k].type = "DUPLICATE_OBSERVED"
                               /\ g[k].id = g[i].id
                        /\ g[k].symptom # g[i].symptom => g[k].id # g[i].id
    BY DEF OneRecord
  <2>2. CASE i \in DOMAIN events /\ k \in DOMAIN events
    BY <1>2, <2>1, <2>2 DEF SoundLog, OneRecord
  <2>3. CASE i = n
    BY <1>1, <1>2, <2>1, <2>3
  <2>4. CASE i \in DOMAIN events /\ k = n
    <3>1. events[i].type = "INCIDENT_RECORDED" /\ g[i] = events[i] /\ g[k] = e /\ i < k
      BY <1>2, <2>1, <2>4
    <3>2. CASE e.type = "INCIDENT_RECORDED"
      BY <1>1, <2>4, <3>1, <3>2
    <3>3. CASE e.type = "DUPLICATE_OBSERVED"
      <4>1. PICK j \in Originals(events, symptom) : e.id = events[j].id
        BY <1>1, <3>3
      <4>2. /\ j \in DOMAIN events /\ events[j].symptom = symptom
            /\ events[j].type = "INCIDENT_RECORDED"
        BY <4>1 DEF Originals
      <4>3. events[i].symptom = symptom => i = j
        <5>1. SUFFICES ASSUME events[i].symptom = symptom, i # j PROVE FALSE
          OBVIOUS
        <5>2. events[j].type = "DUPLICATE_OBSERVED"
          BY <2>4, <3>1, <4>2, <5>1 DEF SoundLog, OneRecord
        <5>3. QED
          BY <4>2, <5>2
      <4>4. events[i].symptom # symptom => events[i].id # events[j].id
        BY <2>4, <3>1, <4>2 DEF SoundLog, OneRecord
      <4>5. QED
        BY <1>1, <3>1, <3>3, <4>1, <4>3, <4>4
    <3>4. QED
      BY <1>1, <3>2, <3>3
  <2>5. QED
    BY <1>2, <2>2, <2>3, <2>4
<1>5. HasOriginal(g)
  <2>1. \A s, i : i \in Originals(events, s) => i \in Originals(g, s)
    BY <1>2 DEF Originals
  <2>2. ASSUME NEW k \in DOMAIN events PROVE Originals(g, g[k].symptom) # {}
    BY <1>2, <2>1, <2>2 DEF SoundLog, HasOriginal
  <2>3. Originals(g, g[n].symptom) # {}
    <3>1. CASE e.type = "INCIDENT_RECORDED"
      <4>1. n \in Originals(g, g[n].symptom)
        BY <1>2, <3>1 DEF Originals
      <4>2. QED
        BY <4>1
    <3>2. CASE e.type = "DUPLICATE_OBSERVED"
      BY <1>1, <1>2, <2>1, <3>2
    <3>3. QED
      BY <1>1, <3>1, <3>2
  <2>4. QED
    BY <1>2, <2>2, <2>3 DEF HasOriginal
<1>6. QED
  BY <1>2, <1>3, <1>4, <1>5 DEF SoundLog, g, e

LEMMA StoreInvHolds == HealingSpec => []StoreInv
<1>1. HealingInit => StoreInv
  BY DEF HealingInit, IncidentsInit, StoreInv, SoundLog, Readable, OneRecord, HasOriginal,
         BuiltUnderLock
<1>2. StoreInv /\ [HealingNext]_healing => StoreInv'
  <2>1. SUFFICES ASSUME StoreInv, [HealingNext]_healing PROVE StoreInv'
    OBVIOUS
  <2>2. CASE UNCHANGED store
    BY <2>1, <2>2
       DEF store, StoreInv, BuiltUnderLock
  <2>3. ASSUME NEW p \in Reporter, NEW symptom \in Symptom, NEW id \in IncidentId,
               BeginReport(p, symptom, id)
        PROVE  StoreInv'
    <3>1. /\ lock = Free /\ lock' = p /\ log' = log /\ ~Collision(log, symptom, id)
          /\ report' = [report EXCEPT ![p] = Built(log, symptom, id)]
      BY <2>3 DEF BeginReport
    <3>2. \A q \in Reporter : report[q] = Quiet
      BY <2>1, <3>1, IncidentsAssumption DEF StoreInv, BuiltUnderLock
    <3>3. BuiltUnderLock'
      <4>1. SUFFICES ASSUME NEW q \in Reporter, report'[q] # Quiet
                     PROVE  /\ lock' = q
                            /\ \E s \in Symptom, i \in IncidentId :
                                   ~Collision(log, s, i) /\ report'[q] = Built(log, s, i)
        BY <3>1 DEF BuiltUnderLock
      <4>2. q = p /\ report'[q] = Built(log, symptom, id)
        BY <2>1, <3>1, <3>2, <4>1 DEF StoreInv
      <4>3. QED
        BY <3>1, <4>2
    <3>4. QED
      BY <2>1, <3>1, <3>3 DEF StoreInv
  <2>4. ASSUME NEW p \in Reporter, report[p] # Quiet, Release(p) PROVE
               DOMAIN report' = Reporter /\ \A q \in Reporter : report'[q] = Quiet
    BY <2>1, <2>4 DEF StoreInv, BuiltUnderLock, Release
  <2>5. ASSUME NEW p \in Reporter, AppendLine(p) PROVE StoreInv'
    <3>1. PICK symptom \in Symptom, id \in IncidentId :
              ~Collision(log, symptom, id) /\ report[p] = Built(log, symptom, id)
      BY <2>1, <2>5 DEF AppendLine, StoreInv, BuiltUnderLock
    <3>2. SoundLog(log')
      BY <2>1, <2>5, <3>1, AppendKeeps DEF AppendLine, StoreInv
    <3>3. QED
      BY <2>4, <2>5, <3>2
         DEF AppendLine, StoreInv, BuiltUnderLock
  <2>6. ASSUME NEW p \in Reporter, ReporterDies(p) PROVE StoreInv'
    BY <2>1, <2>4, <2>6
       DEF ReporterDies, StoreInv, BuiltUnderLock
  <2>7. ASSUME Report PROVE StoreInv'
    BY <2>3, <2>5, <2>6, <2>7 DEF Report, IncidentsNext
  <2>8. QED
    BY <2>1, <2>2, <2>7
       DEF HealingNext, healing, store, MoveRecipe, Evaluate, Outcome, SaveOutcome,
           CallerDies, TripBreaker
<1>3. QED
  BY <1>1, <1>2, PTL DEF HealingSpec

\* Whoever reports at the same time and wherever a reporter dies, the store can be
\* read back, records a symptom once, and what repeats it points to that record
\* (incidents.py, record_incident under _append_locked).
THEOREM StoreTellsOneStory == HealingSpec => []OneRecordPerSymptom
<1>1. StoreInv => OneRecordPerSymptom
  BY DEF StoreInv, SoundLog, OneRecord, OneRecordPerSymptom
<1>2. QED
  BY <1>1, StoreInvHolds, PTL

-----------------------------------------------------------------------------
(***************************************************************************)
(* The consumer upgrade.  CoreInv is inductive with any number of          *)
(* operators: what is on the disk (TargetOK, Fresh, DiskOK), and what the  *)
(* one call under the transaction's lock knows of it (LockKnows), step by  *)
(* step.  ProofInv adds the sidecars, and CalmInv what a look at a file    *)
(* still tells at the act on it; both are of one operator alone.           *)
(***************************************************************************)

Ours(p)   == p \notin touched
Clean     == touched = {} /\ ~failed
AllBefore == \A p \in Path : Ours(p) => target[p] = Before(p)
AllAfter  == \A p \in Path : Ours(p) => target[p] = After(p)

SideSteps  == {"preimage", "aim", "compare", "write", "written", "projected", "sidecars",
               "unproject", "unprojected", "check"}
EarlySteps == {"entry", "record", "staged", "backup", "backedup", "remove", "unlink"}
ItemSteps  == EarlySteps \cup {"removed", "install", "installed", "unstage", "verify"}
EndSteps   == {"post", "publish", "published", "commit", "readback"}
BackSteps  == {"undo", "drop", "restore", "clear"}
LastSteps  == {"rmdir", "purge", "close", "renew"}

OuterSteps == {"preflight", "open", "preimage", "prepared", "project", "unwind", "rollback",
               "check", "sidecars", "unproject", "unprojected", "seal", "sealback"}
Steps_ == CoreSteps \cup UndoSteps \cup ProjectionSteps \cup OuterSteps
Afters == {"return", "retry", "seal", "restore"}

CallRecord == [pc : Steps_, at : Nat, journal : Journal \cup {None},
               projection : Projection \cup {None}, blocked : SUBSET Path, undo : BOOLEAN,
               after : Afters]
InLock(h) == h.pc \in CoreSteps \cup UndoSteps
CallTyped(h) ==
    /\ h.at > 0
    /\ h.pc \in ItemSteps \cup BackSteps => h.at \in DOMAIN Items
    /\ h.pc \in SideSteps => h.at \in DOMAIN Sidecars
    /\ h.pc = "begin" => h.at = 1
    /\ InLock(h) => h.journal # None /\ journal # None
    /\ h.pc \notin {"preimage", "prepared"} => h.projection # None
    /\ h.projection # None => projection # None
SharedTyped ==
    /\ plan \in Plans /\ target \in [Path -> Bytes] /\ directory \in BOOLEAN
    /\ stage \in [Path -> {"absent", "partial", "B"}] /\ linked \subseteq Path
    /\ quarantine \in [Path -> {"absent", "partial", "A"}] /\ snapshot \in BOOLEAN
    /\ journal \in Journal \cup {None}
    /\ sidecar \in [Sidecar -> Bytes] /\ preimage \in [Sidecar -> Bytes]
    /\ projection \in Projection \cup {None}
    /\ failed \in BOOLEAN /\ edits \in Nat /\ mishaps \in Nat
CallsTyped ==
    /\ held = [w \in Process |-> held[w]]
    /\ \A w \in Process : Busy(w) => held[w] \in CallRecord /\ CallTyped(held[w])

(* What is on the disk.                                                      *)
TargetOK == \A p \in Path : Ours(p) => \/ target[p] \in {Before(p), After(p)}
                                       \/ Removes(p) /\ target[p] = "absent"
Fresh == (journal = None \/ journal.status \in {"PLANNED", "ROLLED_BACK"}) => AllBefore
PendingOK(j) ==
    plan[Profile] = "REPLACE" /\ Ours(Profile) /\ j.entry[Profile] \in {"PENDING", "ROLLED_BACK"}
        => target[Profile] = "A"
ProvenOK(j) ==
    Clean => \A p \in Path : Stages(p) /\ target[p] = "B" =>
                 \/ p = Profile
                 \/ j.entry[p] \in {"TARGET_INSTALLED", "VERIFIED"}
                 \/ p \in j.staged /\ p \in linked
JournalOK(j) == PendingOK(j) /\ ProvenOK(j)
DiskOK == journal # None =>
    /\ JournalOK(journal)
    /\ journal.status = "COMMITTED" => (journal.published /\ (snapshot => AllAfter))
    /\ journal.status = "RECOVERY_BLOCKED" => ~Clean

(* What the call that holds the lock knows.                                  *)
OthersKnow(h) ==
    \A k \in DOMAIN Items : Ours(Items[k]) =>
        /\ k < h.at => target[Items[k]] = After(Items[k])
        /\ k > h.at => target[Items[k]] = Before(Items[k])
ItemKnows(h, p) ==
    /\ h.pc \in EarlySteps /\ Ours(p) => target[p] = Before(p)
    /\ h.pc \in {"removed", "install"} /\ Ours(p) => target[p] = "absent"
    /\ h.pc \in {"installed", "unstage"} /\ Ours(p) => target[p] = "B"
    /\ h.pc = "verify" /\ Ours(p) => target[p] = After(p)
    /\ h.pc \in {"record", "staged", "install", "installed", "unstage"} => Stages(p)
    /\ h.pc \in {"backup", "backedup", "remove", "unlink", "removed"} => Removes(p)
    /\ h.pc \in {"backup", "backedup", "remove", "unlink", "removed", "install"} /\ Stages(p)
           => p \in h.journal.staged
    /\ h.pc \in {"backedup", "remove", "unlink"} => quarantine[p] = "A"
    /\ h.pc \in {"remove", "unlink"} => h.journal.entry[p] = "BACKED_UP"
    /\ h.pc \in {"unstage", "verify"} /\ Stages(p) => h.journal.entry[p] = "TARGET_INSTALLED"
CoreKnows(h, j) ==
    /\ \/ h.journal = j
       \/ h.pc = "verify" /\ h.journal = [j EXCEPT !.staged = @ \ {Items[h.at]}]
    /\ h.pc = "begin" => h.journal.status = "PLANNED" /\ AllBefore
    /\ h.pc \in ItemSteps \cup (EndSteps \ {"readback"}) => h.journal.status = "APPLYING"
    /\ h.pc = "readback" => h.journal.status = "COMMITTED"
    /\ h.pc \in ItemSteps => OthersKnow(h) /\ ItemKnows(h, Items[h.at])
    /\ h.pc \in EndSteps => AllAfter
    /\ h.pc \in {"commit", "readback"} => h.journal.published

Back(h, p) == Ours(p) => target[p] = Before(p) \/ p \in h.blocked
UndoRest(h, j) ==
    /\ h.pc = "recover" => h.journal = j
    /\ h.pc # "recover" => (j.status = "COMMITTED" => ~snapshot)
    /\ h.pc \in BackSteps =>
           \A k \in DOMAIN Items : k > h.at \/ (k = h.at /\ h.pc = "clear") => Back(h, Items[k])
    /\ h.pc = "drop" => Stages(Items[h.at]) /\ (Ours(Items[h.at]) => target[Items[h.at]] = "B")
    /\ h.pc = "restore" => /\ Removes(Items[h.at])
                           /\ Ours(Items[h.at]) => target[Items[h.at]] \in {"absent", "A"}
    /\ h.pc \in LastSteps => \A q \in Path : Back(h, q)
    /\ h.pc \in {"purge", "renew"} => h.blocked = {}
UndoKnows(h, j) == UndoRest(h, j) /\ (h.pc # "recover" => (Clean => h.blocked = {}))
LockKnows(h, j) ==
    /\ JournalOK(h.journal)
    /\ h.pc \in CoreSteps => CoreKnows(h, j)
    /\ h.pc \in UndoSteps => UndoKnows(h, j)
\* What the invariant reads of the disk.
Still == <<target, linked, quarantine, plan, touched>>
Kept  == <<target, linked, quarantine, snapshot, plan, touched>>
Holders == \A w \in Process : Busy(w) /\ InLock(held[w]) => LockKnows(held[w], journal)
Sole == \A v, w \in Process : Busy(v) /\ Busy(w) /\ InLock(held[v]) /\ InLock(held[w]) => v = w

CoreInv == /\ SharedTyped /\ CallsTyped /\ TargetOK /\ Fresh /\ DiskOK /\ Holders /\ Sole
           /\ SourceSurvives

-----------------------------------------------------------------------------
(* Facts about the plan and its paths.                                       *)
LEMMA ItemFacts ==
    /\ Len(Items) \in Nat /\ Len(Items) > 0 /\ DOMAIN Items = 1..Len(Items)
    /\ Items[Len(Items)] = Profile /\ Profile \in Path
    /\ \A k \in DOMAIN Items : Items[k] \in Path
    /\ \A p \in Path : \E k \in DOMAIN Items : p = Items[k]
    /\ \A i, k \in DOMAIN Items : Items[i] = Items[k] => i = k
<1>1. Entries \in Seq(STRING) /\ \A i, k \in DOMAIN Items : Items[i] = Items[k] => i = k
  BY UpgradeAssumption
<1>2. /\ Len(Items) = Len(Entries) + 1 /\ DOMAIN Items = 1..Len(Items)
      /\ Items[Len(Items)] = Profile /\ Len(Entries) \in Nat
  BY <1>1 DEF Items
<1>3. \A k \in DOMAIN Items : Items[k] \in Path
  BY DEF Path
<1>4. \A p \in Path : \E k \in DOMAIN Items : p = Items[k]
  BY DEF Path
<1>5. Len(Items) \in Nat /\ Len(Items) > 0 /\ Len(Items) \in DOMAIN Items
  BY <1>2
<1>6. Profile \in Path
  BY <1>2, <1>3, <1>5
<1>7. QED
  BY <1>1, <1>2, <1>3, <1>4, <1>5, <1>6

LEMMA SidecarFacts ==
    /\ Len(Sidecars) \in Nat /\ Len(Sidecars) > 0 /\ DOMAIN Sidecars = 1..Len(Sidecars)
    /\ \A k \in DOMAIN Sidecars : Sidecars[k] \in Sidecar
    /\ \A s \in Sidecar : \E k \in DOMAIN Sidecars : s = Sidecars[k]
<1>1. Sidecars \in Seq(STRING) /\ Sidecars # <<>>
  BY UpgradeAssumption
<1>2. Len(Sidecars) \in Nat /\ Len(Sidecars) > 0 /\ DOMAIN Sidecars = 1..Len(Sidecars)
  BY <1>1
<1>3. QED
  BY <1>2 DEF Sidecar

LEMMA PlanFacts ==
    ASSUME plan \in Plans, NEW p \in Path
    PROVE  /\ plan[p] \in Action
           /\ Before(p) \in {"absent", "A"} /\ After(p) \in {"absent", "A", "B"}
           /\ Removes(p) => Before(p) = "A"
           /\ Stages(p) => After(p) = "B"
           /\ plan[p] = "CREATE" => Before(p) = "absent" /\ Stages(p) /\ ~Removes(p)
           /\ plan[p] = "REPLACE" => Stages(p) /\ Removes(p)
           /\ plan[p] = "REMOVE" => Removes(p) /\ ~Stages(p) /\ After(p) = "absent"
           /\ plan[p] = "KEEP" => Before(p) = "A" /\ After(p) = "A" /\ ~Stages(p) /\ ~Removes(p)
           /\ plan[p] # "KEEP" => Stages(p) \/ Removes(p)
<1>1. plan[p] \in Action
  BY UpgradeAssumption
<1>2. QED
  BY <1>1 DEF Action, Before, After, Removes, Stages

-----------------------------------------------------------------------------
(* One call moves; what the others know stays.                               *)
LEMMA HolderFacts ==
    ASSUME CoreInv, NEW w \in Process, Busy(w), InLock(held[w])
    PROVE  /\ held[w] \in CallRecord /\ CallTyped(held[w]) /\ LockKnows(held[w], journal)
           /\ held[w].journal \in Journal /\ journal \in Journal
           /\ held[w].blocked \subseteq Path /\ held[w].at \in Nat
           /\ held[w].projection \in Projection \cup {None}
           /\ \A v \in Process : v # w /\ Busy(v) => ~InLock(held[v])
<1>1. held[w] \in CallRecord /\ CallTyped(held[w]) /\ LockKnows(held[w], journal)
  BY DEF CoreInv, CallsTyped, Holders
<1>2. /\ held[w].journal \in Journal \cup {None} /\ held[w].blocked \subseteq Path
      /\ held[w].at \in Nat /\ held[w].projection \in Projection \cup {None}
  BY <1>1 DEF CallRecord
<1>3. held[w].journal # None /\ journal # None
  BY <1>1 DEF CallTyped
<1>4. journal \in Journal \cup {None}
  BY DEF CoreInv, SharedTyped
<1>5. \A v \in Process : v # w /\ Busy(v) => ~InLock(held[v])
  BY DEF CoreInv, Sole
<1>6. QED
  BY <1>1, <1>2, <1>3, <1>4, <1>5

\* One call moves, the others stay where they are.
LEMMA OneMoves ==
    ASSUME CallsTyped, NEW w \in Process, NEW g, held' = [held EXCEPT ![w] = g],
           g # Idle => g \in CallRecord /\ CallTyped(g)',
           \A v \in Process : v # w /\ Busy(v) => CallTyped(held[v])'
    PROVE  /\ held'[w] = g /\ \A v \in Process : v # w => held'[v] = held[v]
           /\ \A v \in Process : v # w => (Busy(v)' <=> Busy(v))
           /\ Busy(w)' <=> g # Idle
           /\ CallsTyped'
<1>1. held = [v \in Process |-> held[v]]
  BY DEF CallsTyped
<1>2. held'[w] = g /\ \A v \in Process : v # w => held'[v] = held[v]
  BY <1>1
<1>3. \A v \in Process : v # w => (Busy(v)' <=> Busy(v))
  BY <1>2 DEF Busy
<1>4. Busy(w)' <=> g # Idle
  BY <1>2 DEF Busy
<1>5. CallsTyped'
  <2>1. held' = [v \in Process |-> held'[v]]
    BY <1>1
  <2>2. ASSUME NEW v \in Process, Busy(v)' PROVE held'[v] \in CallRecord /\ CallTyped(held[v])'
    <3>1. CASE v = w
      <4>1. g \in CallRecord /\ CallTyped(g)' /\ held'[v] = g
        BY <1>2, <1>4, <2>2, <3>1
      <4>2. QED
        BY <4>1 DEF CallTyped, InLock
    <3>2. CASE v # w
      <4>1. held'[v] = held[v] /\ Busy(v)
        BY <1>2, <1>3, <2>2, <3>2
      <4>2. held[v] \in CallRecord /\ CallTyped(held[v])'
        BY <3>2, <4>1 DEF CallsTyped
      <4>3. QED
        BY <4>1, <4>2 DEF CallTyped, InLock
    <3>3. QED
      BY <3>1, <3>2
  <2>3. QED
    BY <2>1, <2>2 DEF CallsTyped
<1>6. QED
  BY <1>2, <1>3, <1>4, <1>5

\* A call moves while no other holds the lock.
LEMMA AloneStep ==
    ASSUME CoreInv, NEW w \in Process, NEW g,
           \A v \in Process : v # w /\ Busy(v) => ~InLock(held[v]),
           held' = [held EXCEPT ![w] = g], SharedTyped', projection' = projection,
           g # Idle => g \in CallRecord /\ CallTyped(g)' /\ (InLock(g) => LockKnows(g, journal)'),
           TargetOK', Fresh', DiskOK', SourceSurvives'
    PROVE  CoreInv'
<1>1. \A v \in Process : v # w /\ Busy(v) => CallTyped(held[v])'
  BY DEF CoreInv, CallsTyped, CallTyped
<1>2. held'[w] = g /\ \A v \in Process : v # w => held'[v] = held[v]
  BY <1>1, OneMoves DEF CoreInv
<1>3. \A v \in Process : v # w => (Busy(v)' <=> Busy(v))
  BY <1>1, OneMoves DEF CoreInv
<1>4. (Busy(w)' <=> g # Idle) /\ CallsTyped'
  BY <1>1, OneMoves DEF CoreInv
<1>5. Sole'
  BY <1>2, <1>3 DEF Sole, InLock
<1>6. Holders'
  <2> SUFFICES ASSUME NEW v \in Process, Busy(v)', InLock(held'[v]) PROVE LockKnows(held[v], journal)'
    BY DEF Holders, InLock
  <2>1. v = w
    BY <1>2, <1>3 DEF InLock
  <2>2. LockKnows(g, journal)'
    BY <1>2, <1>4, <2>1 DEF InLock
  <2>3. held'[v] = g
    BY <1>2, <2>1
  <2>4. QED
    BY <2>2, <2>3
<1>7. QED
  BY <1>4, <1>5, <1>6 DEF CoreInv

\* What the disk says to us, for a step that leaves it alone.
LEMMA StillFacts ==
    ASSUME UNCHANGED Still, failed => failed'
    PROVE  /\ Clean' => Clean
           /\ \A p : /\ Before(p)' = Before(p) /\ After(p)' = After(p)
                     /\ (Removes(p)' <=> Removes(p)) /\ (Stages(p)' <=> Stages(p))
                     /\ (Ours(p)' <=> Ours(p))
           /\ (AllBefore' <=> AllBefore) /\ (AllAfter' <=> AllAfter)
           /\ (TargetOK => TargetOK') /\ (SourceSurvives => SourceSurvives')
           /\ \A j : JournalOK(j) => JournalOK(j)'
<1>1. /\ target' = target /\ linked' = linked /\ quarantine' = quarantine
      /\ plan' = plan /\ touched' = touched
  BY DEF Still
<1>2. Clean' => Clean
  BY <1>1 DEF Clean
<1>3. \A p : /\ Before(p)' = Before(p) /\ After(p)' = After(p) /\ (Removes(p)' <=> Removes(p))
             /\ (Stages(p)' <=> Stages(p)) /\ (Ours(p)' <=> Ours(p))
  BY <1>1 DEF Before, After, Removes, Stages, Ours
<1>4. TargetOK => TargetOK'
  BY <1>1, <1>3 DEF TargetOK
<1>5. (AllBefore' <=> AllBefore) /\ (AllAfter' <=> AllAfter)
  BY <1>1, <1>3 DEF AllBefore, AllAfter
<1>6. ASSUME NEW j, JournalOK(j) PROVE JournalOK(j)'
  <2>1. PendingOK(j)'
    BY <1>1, <1>3, <1>6 DEF JournalOK, PendingOK
  <2>2. ProvenOK(j)'
    BY <1>1, <1>2, <1>3, <1>6 DEF JournalOK, ProvenOK
  <2>3. QED
    BY <2>1, <2>2 DEF JournalOK
<1>7. SourceSurvives => SourceSurvives'
  BY <1>1, <1>3 DEF SourceSurvives
<1>8. QED
  BY <1>2, <1>3, <1>4, <1>5, <1>6, <1>7

LEMMA KeptFacts ==
    ASSUME UNCHANGED Kept, failed => failed'
    PROVE  /\ Clean' => Clean
           /\ \A p : /\ Before(p)' = Before(p) /\ After(p)' = After(p)
                     /\ (Removes(p)' <=> Removes(p)) /\ (Stages(p)' <=> Stages(p))
                     /\ (Ours(p)' <=> Ours(p))
           /\ (AllBefore' <=> AllBefore) /\ (AllAfter' <=> AllAfter)
           /\ (TargetOK => TargetOK') /\ (SourceSurvives => SourceSurvives')
           /\ \A j : JournalOK(j) => JournalOK(j)'
  BY StillFacts DEF Still, Kept

LEMMA LockStays ==
    ASSUME UNCHANGED Kept, failed => failed', NEW h, NEW j, LockKnows(h, j)
    PROVE  LockKnows(h, j)'
<1>1. target' = target /\ quarantine' = quarantine /\ snapshot' = snapshot
  BY DEF Kept
<1>2. \A p : /\ Before(p)' = Before(p) /\ After(p)' = After(p) /\ (Removes(p)' <=> Removes(p))
             /\ (Stages(p)' <=> Stages(p)) /\ (Ours(p)' <=> Ours(p))
  BY KeptFacts
<1>3. (AllBefore' <=> AllBefore) /\ (AllAfter' <=> AllAfter) /\ (Clean' => Clean)
  BY KeptFacts
<1>4. JournalOK(h.journal)'
  BY KeptFacts DEF LockKnows
<1>5. ASSUME CoreKnows(h, j) PROVE CoreKnows(h, j)'
  <2>1. OthersKnow(h) => OthersKnow(h)'
    BY <1>1, <1>2 DEF OthersKnow
  <2>2. ItemKnows(h, Items[h.at]) => ItemKnows(h, Items[h.at])'
    BY <1>1, <1>2 DEF ItemKnows
  <2>3. QED
    BY <1>1, <1>3, <1>5, <2>1, <2>2 DEF CoreKnows
<1>6. ASSUME UndoKnows(h, j) PROVE UndoKnows(h, j)'
  <2>1. \A q : Back(h, q) => Back(h, q)'
    BY <1>1, <1>2 DEF Back
  <2>2. QED
    BY <1>1, <1>2, <1>3, <1>6, <2>1 DEF UndoKnows, UndoRest
<1>7. QED
  BY <1>4, <1>5, <1>6 DEF LockKnows

LEMMA RestStays ==
    ASSUME UNCHANGED Kept, failed => failed', NEW h, NEW j, UndoRest(h, j)
    PROVE  UndoRest(h, j)'
<1>1. target' = target /\ snapshot' = snapshot
  BY DEF Kept
<1>2. \A p : /\ Before(p)' = Before(p) /\ (Removes(p)' <=> Removes(p)) /\ (Stages(p)' <=> Stages(p))
             /\ (Ours(p)' <=> Ours(p))
  BY KeptFacts
<1>3. \A q : Back(h, q) => Back(h, q)'
  BY <1>1, <1>2 DEF Back
<1>4. QED
  BY <1>1, <1>2, <1>3 DEF UndoRest

\* A journal that may be on the disk.
LEMMA SavedDisk ==
    ASSUME CoreInv, UNCHANGED Kept, failed => failed', NEW j, journal' = j, j # None,
           JournalOK(j), j.status \in {"PLANNED", "ROLLED_BACK"} => AllBefore,
           j.status = "COMMITTED" => j.published /\ (snapshot => AllAfter),
           j.status = "RECOVERY_BLOCKED" => ~Clean'
    PROVE  TargetOK' /\ Fresh' /\ DiskOK' /\ SourceSurvives'
<1>1. TargetOK' /\ SourceSurvives'
  BY KeptFacts DEF CoreInv
<1>2. (AllBefore' <=> AllBefore) /\ (AllAfter' <=> AllAfter) /\ snapshot' = snapshot
  BY KeptFacts DEF Kept
<1>3. JournalOK(journal)'
  <2>1. JournalOK(j)'
    BY KeptFacts
  <2>2. QED
    BY <2>1
<1>4. Fresh'
  BY <1>2 DEF Fresh
<1>5. DiskOK'
  BY <1>2, <1>3 DEF DiskOK
<1>6. QED
  BY <1>1, <1>4, <1>5

LEMMA DiskStays ==
    ASSUME CoreInv, UNCHANGED Kept, UNCHANGED journal, failed => failed'
    PROVE  TargetOK' /\ Fresh' /\ DiskOK' /\ SourceSurvives'
<1>1. CASE journal = None
  <2>1. TargetOK' /\ SourceSurvives' /\ (AllBefore' <=> AllBefore)
    BY KeptFacts DEF CoreInv
  <2>2. QED
    BY <1>1, <2>1 DEF CoreInv, Fresh, DiskOK
<1>2. CASE journal # None
  <2>1. PICK j : j = journal
    OBVIOUS
  <2>2. /\ JournalOK(j) /\ (j.status \in {"PLANNED", "ROLLED_BACK"} => AllBefore)
        /\ j.status = "COMMITTED" => j.published /\ (snapshot => AllAfter)
        /\ j.status = "RECOVERY_BLOCKED" => ~Clean
    BY <1>2, <2>1 DEF CoreInv, DiskOK, Fresh
  <2>3. Clean' => Clean
    BY KeptFacts
  <2>4. QED
    BY <1>2, <2>1, <2>2, <2>3, SavedDisk
<1>3. QED
  BY <1>1, <1>2

\* A call that does not hold the lock moves, and leaves the files alone.
LEMMA VisitorStep ==
    ASSUME CoreInv, NEW w \in Process, NEW g, Busy(w) => ~InLock(held[w]),
           held' = [held EXCEPT ![w] = g], SharedTyped',
           g # Idle => g \in CallRecord /\ CallTyped(g)' /\ ~InLock(g),
           UNCHANGED <<files, journal, plan, touched>>, failed => failed',
           projection # None => projection' # None
    PROVE  CoreInv'
<1>1. \A v \in Process : v # w /\ Busy(v) => CallTyped(held[v])'
  BY DEF CoreInv, CallsTyped, CallTyped
<1>2. held'[w] = g /\ \A v \in Process : v # w => held'[v] = held[v]
  BY <1>1, OneMoves DEF CoreInv
<1>3. \A v \in Process : v # w => (Busy(v)' <=> Busy(v))
  BY <1>1, OneMoves DEF CoreInv
<1>4. (Busy(w)' <=> g # Idle) /\ CallsTyped'
  BY <1>1, OneMoves DEF CoreInv
<1>5. \A v \in Process : Busy(v)' /\ InLock(held'[v]) => v # w /\ Busy(v) /\ InLock(held[v])
  BY <1>2, <1>3, <1>4 DEF InLock
<1>6. Sole'
  BY <1>5 DEF CoreInv, Sole, InLock
<1>7. UNCHANGED Kept
  BY DEF Kept, files
<1>8. Holders'
  <2> SUFFICES ASSUME NEW v \in Process, Busy(v)', InLock(held'[v]) PROVE LockKnows(held[v], journal)'
    BY DEF Holders, InLock
  <2>1. v # w /\ LockKnows(held[v], journal) /\ held'[v] = held[v]
    BY <1>2, <1>5 DEF CoreInv, Holders
  <2>2. PICK h, j : h = held[v] /\ j = journal
    OBVIOUS
  <2>3. LockKnows(h, j)'
    BY <1>7, <2>1, <2>2, LockStays
  <2>4. QED
    BY <2>1, <2>2, <2>3
<1>9. QED
  BY <1>4, <1>6, <1>7, <1>8, DiskStays DEF CoreInv

-----------------------------------------------------------------------------
(* The steps outside the lock.                                               *)
Visitor(g) ==
    /\ g \in CallRecord /\ ~InLock(g) /\ g.at > 0
    /\ g.pc \notin ItemSteps \cup BackSteps /\ g.pc # "begin"
    /\ g.pc \in SideSteps => g.at \in DOMAIN Sidecars
    /\ g.pc \notin {"preimage", "prepared"} => g.projection # None

LEMMA VisitorMoves ==
    ASSUME CoreInv, NEW w \in Process, Busy(w) => ~InLock(held[w]),
           NEW g, held' = [held EXCEPT ![w] = g],
           g = Idle \/ (Visitor(g) /\ (g.projection # None => projection' # None)),
           sidecar' \in [Sidecar -> Bytes], preimage' \in [Sidecar -> Bytes],
           projection' \in Projection \cup {None}, failed' \in BOOLEAN, mishaps' \in Nat,
           edits' = edits,
           UNCHANGED <<files, journal, plan, touched>>, failed => failed',
           projection # None => projection' # None
    PROVE  CoreInv'
<1>1. SharedTyped'
  BY DEF CoreInv, SharedTyped, files
<1>2. ASSUME g # Idle PROVE g \in CallRecord /\ CallTyped(g)' /\ ~InLock(g)
  <2>1. Visitor(g) /\ (g.projection # None => projection' # None)
    BY <1>2
  <2>2. QED
    BY <2>1 DEF Visitor, CallTyped, InLock
<1>3. QED
  BY <1>1, <1>2, VisitorStep

LEMMA CallFacts ==
    ASSUME CoreInv, NEW w \in Process, Busy(w)
    PROVE  /\ held[w] \in CallRecord /\ CallTyped(held[w])
           /\ held[w].journal \in Journal \cup {None} /\ held[w].blocked \subseteq Path
           /\ held[w].at \in Nat /\ held[w].projection \in Projection \cup {None}
           /\ held[w].undo \in BOOLEAN /\ held[w].pc \in Steps_ /\ held[w].after \in Afters
  BY DEF CoreInv, CallsTyped, CallRecord

\* The start of a call.
Starting(g, pc, v) == g \in CallRecord /\ g.pc = pc /\ g.at = 1 /\ g.projection = v
Opening(pc, v) ==
    /\ \/ pc = "preimage" /\ v = None
       \/ pc \in {"preflight", "unwind", "project", "rollback"} /\ v \in Projection
    /\ pc = "rollback" => journal # None /\ journal.status # "COMMITTED"

LEMMA CallStarts ==
    ASSUME NEW pc \in Steps_, NEW v \in Projection \cup {None}, NEW g, g = Call(pc, None, v)
    PROVE  Starting(g, pc, v)
  BY DEF Starting, Call, CallRecord, Afters

LEMMA RestoreStarts ==
    ASSUME NEW pc \in Steps_, NEW v \in Projection \cup {None},
           NEW h, h = Call(pc, None, v), NEW g, g = [h EXCEPT !.after = "restore"]
    PROVE  Starting(g, pc, v)
  BY DEF Starting, Call, CallRecord, Afters

LEMMA StartingVisitor ==
    ASSUME NEW g, NEW pc, NEW v, Opening(pc, v), Starting(g, pc, v)
    PROVE  Visitor(g)
<1>1. CASE pc = "preimage"
  BY <1>1, SidecarFacts
  DEF Starting, Visitor, InLock, CoreSteps, UndoSteps, ItemSteps, EarlySteps, BackSteps
<1>2. CASE pc \in {"preflight", "unwind", "project", "rollback"} /\ v \in Projection
  <2>1. v # None
    BY <1>2, NoneAssumption
  <2>2. pc \notin CoreSteps \cup UndoSteps \cup ItemSteps \cup BackSteps \cup SideSteps
    BY <1>2 DEF CoreSteps, UndoSteps, ItemSteps, EarlySteps, BackSteps, SideSteps
  <2>3. QED
    BY <2>1, <2>2 DEF Starting, Visitor, InLock, CoreSteps
<1>3. QED
  BY <1>1, <1>2 DEF Opening

LEMMA Starts ==
    ASSUME CoreInv, NEW w \in Process, Apply(w) \/ Rollback(w) \/ Recover(w)
    PROVE  \E g, pc : /\ held' = [held EXCEPT ![w] = g]
                      /\ Starting(g, pc, projection) /\ Opening(pc, projection)
<1>1. projection \in Projection \cup {None} /\ None \in Projection \cup {None}
  BY DEF CoreInv, SharedTyped
<1>2. /\ "preimage" \in Steps_ /\ "preflight" \in Steps_ /\ "unwind" \in Steps_
      /\ "project" \in Steps_ /\ "rollback" \in Steps_
  BY DEF Steps_, OuterSteps
<1>3. CASE Apply(w) /\ projection = None
  <2>1. PICK g : g = Call("preimage", None, None)
    OBVIOUS
  <2>2. held' = [held EXCEPT ![w] = g]
    BY <1>3, <2>1 DEF Apply
  <2>3. Starting(g, "preimage", projection)
    BY <1>1, <1>2, <1>3, <2>1, CallStarts
  <2>4. Opening("preimage", projection)
    BY <1>1, <1>2, <1>3, <2>1 DEF Opening
  <2>5. QED
    BY <2>2, <2>3, <2>4
<1>4. CASE Apply(w) /\ projection # None
  <2>1. PICK g : g = Call("preflight", None, projection)
    OBVIOUS
  <2>2. held' = [held EXCEPT ![w] = g]
    BY <1>4, <2>1 DEF Apply
  <2>3. Starting(g, "preflight", projection)
    BY <1>1, <1>2, <1>4, <2>1, CallStarts
  <2>4. Opening("preflight", projection)
    BY <1>1, <1>2, <1>4, <2>1 DEF Opening
  <2>5. QED
    BY <2>2, <2>3, <2>4
<1>5. CASE Rollback(w)
  <2>1. PICK g : g = Call("unwind", None, projection)
    OBVIOUS
  <2>2. held' = [held EXCEPT ![w] = g] /\ projection # None
    BY <1>5, <2>1 DEF Rollback
  <2>3. Starting(g, "unwind", projection)
    BY <1>1, <1>2, <2>1, <2>2, CallStarts
  <2>4. Opening("unwind", projection)
    BY <1>1, <1>2, <2>1, <2>2 DEF Opening
  <2>5. QED
    BY <2>2, <2>3, <2>4
<1>6. CASE Recover(w) /\ journal.status = "COMMITTED"
  <2>1. PICK g : g = Call("project", None, projection)
    OBVIOUS
  <2>2. held' = [held EXCEPT ![w] = g] /\ projection # None
    BY <1>6, <2>1 DEF Recover
  <2>3. Starting(g, "project", projection)
    BY <1>1, <1>2, <2>1, <2>2, CallStarts
  <2>4. Opening("project", projection)
    BY <1>1, <1>2, <2>1, <2>2 DEF Opening
  <2>5. QED
    BY <2>2, <2>3, <2>4
<1>7. CASE Recover(w) /\ journal.status # "COMMITTED"
  <2>1. PICK h : h = Call("rollback", None, projection)
    OBVIOUS
  <2>2. PICK g : g = [h EXCEPT !.after = "restore"]
    OBVIOUS
  <2>3. held' = [held EXCEPT ![w] = g] /\ projection # None /\ journal # None
    BY <1>7, <2>1, <2>2 DEF Recover
  <2>4. Starting(g, "rollback", projection) /\ Opening("rollback", projection)
    BY <1>1, <1>2, <1>7, <2>1, <2>2, <2>3, RestoreStarts DEF Opening
  <2>5. QED
    BY <2>3, <2>4
<1>8. QED
  BY <1>3, <1>4, <1>5, <1>6, <1>7

LEMMA StartKeeps ==
    ASSUME CoreInv, NEW w \in Process, Apply(w) \/ Rollback(w) \/ Recover(w) PROVE CoreInv'
<1>1. PICK g, pc : /\ held' = [held EXCEPT ![w] = g]
                   /\ Starting(g, pc, projection) /\ Opening(pc, projection)
  BY Starts
<1>2. Visitor(g) /\ (g.projection # None => projection # None)
  BY <1>1, StartingVisitor DEF Starting
<1>3. ~Busy(w) /\ UNCHANGED <<files, journal, proof, environment>>
  BY DEF Apply, Rollback, Recover
<1>4. QED
  BY <1>1, <1>2, <1>3, VisitorMoves DEF CoreInv, SharedTyped, proof, environment

\* A call that stays outside the lock.
LEMMA OuterVisitor ==
    ASSUME NEW g \in CallRecord, g.pc \in OuterSteps \cup ProjectionSteps, g.at > 0,
           g.pc \in SideSteps => g.at \in DOMAIN Sidecars,
           g.pc \notin {"preimage", "prepared"} => g.projection # None
    PROVE  Visitor(g)
  BY DEF Visitor, InLock, OuterSteps, ProjectionSteps, CoreSteps, UndoSteps, ItemSteps,
         EarlySteps, BackSteps

LEMMA OutsideFacts ==
    ASSUME CoreInv, NEW w \in Process, Busy(w), held[w].pc \in OuterSteps \cup ProjectionSteps,
           NEW h, h = held[w]
    PROVE  /\ ~InLock(h) /\ h \in CallRecord /\ h.at \in Nat /\ h.at > 0
           /\ h.pc \in SideSteps => h.at \in 1..Len(Sidecars)
           /\ h.pc \notin {"preimage", "prepared"} => h.projection \in Projection
                                                     /\ projection \in Projection
           /\ h.projection # None => projection # None
<1>1. h \in CallRecord /\ CallTyped(h) /\ h.at \in Nat /\ h.projection \in Projection \cup {None}
  BY CallFacts
<1>2. ~InLock(h)
  BY DEF InLock, OuterSteps, ProjectionSteps, CoreSteps, UndoSteps
<1>3. projection \in Projection \cup {None}
  BY DEF CoreInv, SharedTyped
<1>4. h.pc \in SideSteps => h.at \in 1..Len(Sidecars)
  BY <1>1, SidecarFacts DEF CallTyped
<1>5. QED
  BY <1>1, <1>2, <1>3, <1>4 DEF CallTyped

LEMMA SavePreimageKeeps ==
    ASSUME CoreInv, NEW w \in Process, SavePreimage(w) PROVE CoreInv'
<1>1. Busy(w) /\ held[w].pc = "preimage"
  BY DEF SavePreimage, At
<1>2. PICK h : h = held[w]
  OBVIOUS
<1>3. /\ ~InLock(h) /\ h \in CallRecord /\ h.at \in Nat /\ h.at \in 1..Len(Sidecars)
      /\ h.projection # None => projection # None
  BY <1>1, <1>2, OutsideFacts DEF OuterSteps, SideSteps
<1>4. There(w) \in Sidecar /\ sidecar[There(w)] \in Bytes /\ preimage \in [Sidecar -> Bytes]
  BY <1>2, <1>3, SidecarFacts DEF There, CoreInv, SharedTyped
<1>5. UNCHANGED <<files, journal, sidecar, projection, environment>>
      /\ preimage' \in [Sidecar -> Bytes]
  BY <1>4 DEF SavePreimage
<1>6. PICK g1 : g1 = [h EXCEPT !.pc = "prepared"]
  OBVIOUS
<1>7. PICK g2 : g2 = [h EXCEPT !.at = @ + 1]
  OBVIOUS
<1>8. Visitor(g1) /\ g1.projection = h.projection
  <2>1. g1 \in CallRecord /\ g1.pc = "prepared" /\ g1.at = h.at /\ g1.projection = h.projection
    BY <1>3, <1>6 DEF CallRecord, Steps_, OuterSteps
  <2>2. QED
    BY <1>3, <2>1, OuterVisitor DEF OuterSteps, SideSteps
<1>9. h.at # Len(Sidecars) => Visitor(g2) /\ g2.projection = h.projection
  <2>1. g2 \in CallRecord /\ g2.pc = "preimage" /\ g2.at = h.at + 1 /\ g2.projection = h.projection
    BY <1>1, <1>2, <1>3, <1>7 DEF CallRecord
  <2>2. QED
    BY <1>3, <2>1, OuterVisitor, SidecarFacts DEF OuterSteps
<1>10. \E g : /\ held' = [held EXCEPT ![w] = g]
              /\ g = Idle \/ (Visitor(g) /\ (g.projection # None => projection' # None))
  <2>1. CASE sidecar[There(w)] = "absent"
    BY <2>1 DEF SavePreimage, Return
  <2>2. CASE sidecar[There(w)] # "absent" /\ h.at = Len(Sidecars)
    <3>1. held' = [held EXCEPT ![w] = g1]
      BY <1>2, <1>6, <2>2 DEF SavePreimage
    <3>2. QED
      BY <1>3, <1>5, <1>8, <3>1
  <2>3. CASE sidecar[There(w)] # "absent" /\ h.at # Len(Sidecars)
    <3>1. held' = [held EXCEPT ![w] = g2]
      BY <1>2, <1>7, <2>3 DEF SavePreimage
    <3>2. QED
      BY <1>3, <1>5, <1>9, <2>3, <3>1
  <2>4. QED
    BY <2>1, <2>2, <2>3
<1>11. PICK g : /\ held' = [held EXCEPT ![w] = g]
                /\ g = Idle \/ (Visitor(g) /\ (g.projection # None => projection' # None))
  BY <1>10
<1>12. QED
  BY <1>2, <1>3, <1>5, <1>11, VisitorMoves DEF CoreInv, SharedTyped, environment

\* A projection keeps its form.
LEMMA ProjectionSaved ==
    ASSUME NEW v \in Projection, NEW u,
           \/ \E status \in {"COMMITTED", "RECOVERY_REQUIRED", "RECOVERY_BLOCKED", "ROLLED_BACK"} :
                 u = [v EXCEPT !.status = status]
           \/ \E s \in Sidecar : \/ u = [v EXCEPT !.aimed = @ \cup {s}]
                                 \/ u = [v EXCEPT !.there = @ \cup {s}]
                                 \/ u = [v EXCEPT !.there = @ \ {s}]
    PROVE  u \in Projection /\ u # None /\ u.source = v.source
<1>1. u \in Projection /\ u.source = v.source
  BY DEF Projection
<1>2. QED
  BY <1>1, NoneAssumption

LEMMA PrepareKeeps ==
    ASSUME CoreInv, NEW w \in Process, Prepare(w) PROVE CoreInv'
<1>1. Busy(w) /\ held[w].pc = "prepared"
  BY DEF Prepare, At
<1>2. PICK h : h = held[w]
  OBVIOUS
<1>3. ~InLock(h) /\ h \in CallRecord /\ h.at \in Nat /\ h.at > 0
  BY <1>1, <1>2, OutsideFacts DEF OuterSteps
<1>4. PICK v : v = [status |-> "PREPARED", source |-> preimage, aimed |-> {}, there |-> {}]
  OBVIOUS
<1>5. v \in Projection /\ v # None
  <2>1. v \in Projection
    BY <1>4 DEF Projection, CoreInv, SharedTyped
  <2>2. QED
    BY <2>1, NoneAssumption
<1>6. PICK g : g = [h EXCEPT !.projection = v, !.pc = "preflight"]
  OBVIOUS
<1>7. Visitor(g) /\ g.projection = v
  <2>1. g \in CallRecord /\ g.pc = "preflight" /\ g.at = h.at /\ g.projection = v
    BY <1>3, <1>5, <1>6 DEF CallRecord, Steps_, OuterSteps
  <2>2. QED
    BY <1>3, <1>5, <2>1, OuterVisitor DEF OuterSteps, SideSteps
<1>8. held' = [held EXCEPT ![w] = g] /\ projection' = v
  BY <1>2, <1>4, <1>6 DEF Prepare, SaveProjection, CoreInv, CallsTyped
<1>9. UNCHANGED <<files, journal, sidecar, preimage, environment>>
  BY DEF Prepare, SaveProjection
<1>10. QED
  BY <1>2, <1>3, <1>5, <1>7, <1>8, <1>9, VisitorMoves DEF CoreInv, SharedTyped, environment

\* A call goes from one step outside the lock to another.
LEMMA GoesKeeps ==
    ASSUME CoreInv, NEW w \in Process, Busy(w),
           held[w].pc \in (OuterSteps \cup ProjectionSteps) \ {"preimage", "prepared"},
           NEW pc \in OuterSteps \cup ProjectionSteps, pc \in SideSteps => held[w].pc \in SideSteps,
           held' = [held EXCEPT ![w].pc = pc], sidecar' \in [Sidecar -> Bytes],
           UNCHANGED <<files, journal, preimage, projection, environment>>
    PROVE  CoreInv'
<1>1. PICK h : h = held[w]
  OBVIOUS
<1>2. ~InLock(h) /\ h \in CallRecord /\ h.at \in Nat /\ h.at > 0
  BY <1>1, OutsideFacts
<1>3. /\ h.pc \in SideSteps => h.at \in DOMAIN Sidecars
      /\ h.projection \in Projection /\ projection \in Projection
  BY <1>1, OutsideFacts, SidecarFacts
<1>4. PICK g : g = [h EXCEPT !.pc = pc]
  OBVIOUS
<1>5. Visitor(g)
  <2>1. g \in CallRecord /\ g.pc = pc /\ g.at = h.at /\ g.projection = h.projection
    BY <1>2, <1>4 DEF CallRecord, Steps_
  <2>2. g.projection # None
    BY <1>3, <2>1, NoneAssumption
  <2>3. QED
    BY <1>1, <1>2, <1>3, <2>1, <2>2, OuterVisitor
<1>6. held' = [held EXCEPT ![w] = g]
  BY <1>1, <1>4 DEF CoreInv, CallsTyped
<1>7. projection # None
  BY <1>3, NoneAssumption
<1>8. QED
  BY <1>1, <1>2, <1>5, <1>6, <1>7, VisitorMoves DEF CoreInv, SharedTyped, environment

\* A call outside the lock returns.
LEMMA ReturnKeeps ==
    ASSUME CoreInv, NEW w \in Process, Busy(w), held[w].pc \in OuterSteps \cup ProjectionSteps,
           Return(w), projection' = projection \/ projection' \in Projection,
           UNCHANGED <<files, journal, sidecar, preimage, environment>>
    PROVE  CoreInv'
<1>1. ~InLock(held[w])
  BY OutsideFacts
<1>2. projection' \in Projection \cup {None} /\ (projection # None => projection' # None)
  BY NoneAssumption DEF CoreInv, SharedTyped
<1>3. PICK g : g = Idle
  OBVIOUS
<1>4. held' = [held EXCEPT ![w] = g]
  BY <1>3 DEF Return
<1>5. QED
  BY <1>1, <1>2, <1>3, <1>4, VisitorMoves DEF CoreInv, SharedTyped, environment

LEMMA PreflightKeeps ==
    ASSUME CoreInv, NEW w \in Process, Preflight(w) PROVE CoreInv'
<1>1. Busy(w) /\ held[w].pc = "preflight" /\ UNCHANGED <<files, journal, proof, environment>>
  BY DEF Preflight, At
<1>2. /\ held[w].pc \in (OuterSteps \cup ProjectionSteps) \ {"preimage", "prepared"}
      /\ sidecar' \in [Sidecar -> Bytes]
      /\ UNCHANGED <<files, journal, sidecar, preimage, projection, environment>>
  BY <1>1 DEF OuterSteps, CoreInv, SharedTyped, proof
<1>3. CASE Return(w)
  BY <1>1, <1>2, <1>3, ReturnKeeps
<1>4. ASSUME NEW pc \in {"project", "open"}, Goto(w, pc) PROVE CoreInv'
  BY <1>1, <1>2, <1>4, GoesKeeps DEF Goto, OuterSteps, SideSteps
<1>5. Return(w) \/ Goto(w, "project") \/ Goto(w, "open")
  BY DEF Preflight
<1>6. QED
  BY <1>3, <1>4, <1>5

LEMMA CompareKeeps ==
    ASSUME CoreInv, NEW w \in Process,
           \/ Compare(w) \/ Reread(w) \/ Prove(w)
    PROVE  CoreInv'
<1>1. /\ Busy(w) /\ UNCHANGED <<files, journal, proof, environment>>
      /\ \E pc : /\ Goto(w, pc)
                 /\ \/ pc \in {"projected", "write"} /\ held[w].pc \in {"compare", "written"}
                    \/ pc = "commitproof" /\ held[w].pc = "prove"
  BY DEF Compare, Reread, Prove, At, Look
<1>2. PICK pc : /\ Goto(w, pc)
                /\ \/ pc \in {"projected", "write"} /\ held[w].pc \in {"compare", "written"}
                   \/ pc = "commitproof" /\ held[w].pc = "prove"
  BY <1>1
<1>3. /\ held[w].pc \in (OuterSteps \cup ProjectionSteps) \ {"preimage", "prepared"}
      /\ pc \in OuterSteps \cup ProjectionSteps /\ (pc \in SideSteps => held[w].pc \in SideSteps)
  BY <1>2 DEF OuterSteps, ProjectionSteps, SideSteps
<1>4. QED
  BY <1>1, <1>2, <1>3, GoesKeeps DEF CoreInv, SharedTyped, Goto, proof

LEMMA SwapKeeps ==
    ASSUME CoreInv, NEW w \in Process, Swap(w) \/ RestoreSidecar(w) PROVE CoreInv'
<1>1. Busy(w) /\ UNCHANGED <<files, journal, preimage, projection, environment>>
  BY DEF Swap, RestoreSidecar, At
<1>2. /\ held[w].pc \in {"write", "unproject"}
      /\ \E pc \in {"written", "unprojected"} : Goto(w, pc)
  BY DEF Swap, RestoreSidecar, At
<1>3. PICK pc \in {"written", "unprojected"} : Goto(w, pc)
  BY <1>2
<1>4. held[w].at \in DOMAIN Sidecars
  BY <1>1, <1>2, OutsideFacts, SidecarFacts DEF OuterSteps, ProjectionSteps, SideSteps
<1>5. There(w) \in Sidecar
  BY <1>4, SidecarFacts DEF There
<1>6. sidecar' \in [Sidecar -> Bytes]
  BY <1>5 DEF Swap, RestoreSidecar, CoreInv, SharedTyped, Bytes
<1>7. /\ held[w].pc \in (OuterSteps \cup ProjectionSteps) \ {"preimage", "prepared"}
      /\ pc \in OuterSteps \cup ProjectionSteps /\ (pc \in SideSteps => held[w].pc \in SideSteps)
  BY <1>2, <1>3 DEF OuterSteps, ProjectionSteps, SideSteps
<1>8. QED
  BY <1>1, <1>3, <1>6, <1>7, GoesKeeps DEF Goto

\* A call outside the lock moves on.
LEMMA MovesOn ==
    ASSUME CoreInv, NEW w \in Process, Busy(w), held[w].pc \in OuterSteps \cup ProjectionSteps,
           NEW g \in CallRecord, g.pc \in OuterSteps \cup ProjectionSteps, g.at > 0,
           g.pc \in SideSteps => g.at \in DOMAIN Sidecars, g.projection \in Projection,
           held' = [held EXCEPT ![w] = g], projection' \in Projection,
           failed' \in BOOLEAN, failed => failed', mishaps' \in Nat,
           UNCHANGED <<files, journal, sidecar, preimage, plan, touched, edits>>
    PROVE  CoreInv'
<1>1. ~InLock(held[w])
  BY OutsideFacts
<1>2. g.projection # None /\ projection' # None
  BY NoneAssumption
<1>3. Visitor(g)
  BY <1>2, OuterVisitor
<1>4. QED
  BY <1>1, <1>2, <1>3, VisitorMoves DEF CoreInv, SharedTyped

LEMMA ProjectKeeps ==
    ASSUME CoreInv, NEW w \in Process, Project(w) PROVE CoreInv'
<1>1. Busy(w) /\ held[w].pc = "project" /\ UNCHANGED <<files, journal, proof, environment>>
  BY DEF Project, At
<1>2. PICK h : h = held[w]
  OBVIOUS
<1>3. /\ h \in CallRecord /\ h.at \in Nat /\ h.at > 0 /\ projection \in Projection
      /\ held[w].pc \in OuterSteps \cup ProjectionSteps
  BY <1>1, <1>2, OutsideFacts DEF OuterSteps
<1>4. PICK next : next =
         CASE projection.status = "COMMITTED" ->
                IF \A s \in Sidecar : sidecar[s] = "B" THEN "return" ELSE "unwind"
           [] journal = None \/ journal.status # "COMMITTED" \/ ~snapshot -> "unwind"
           [] OTHER -> "aim"
  OBVIOUS
<1>5. /\ next \in {"return", "unwind", "aim"}
      /\ held' = [held EXCEPT ![w] =
                     IF next = "return" /\ IsAfter THEN Idle
                     ELSE IF next = "return"
                          THEN [[h EXCEPT !.projection = projection, !.pc = next, !.at = 1]
                                    EXCEPT !.pc = "unwind"]
                          ELSE [h EXCEPT !.projection = projection, !.pc = next, !.at = 1]]
  <2>1. next \in {"return", "unwind", "aim"}
    BY <1>4
  <2>2. QED
    BY <1>2, <1>4, <2>1 DEF Project
<1>6. PICK g : held' = [held EXCEPT ![w] = g] /\ g = 
                     IF next = "return" /\ IsAfter THEN Idle
                     ELSE IF next = "return"
                          THEN [[h EXCEPT !.projection = projection, !.pc = next, !.at = 1]
                                    EXCEPT !.pc = "unwind"]
                          ELSE [h EXCEPT !.projection = projection, !.pc = next, !.at = 1]
  BY <1>5
<1>7. CASE g = Idle
  <2>1. Return(w)
    BY <1>6, <1>7 DEF Return
  <2>2. QED
    BY <1>1, <1>3, <2>1, ReturnKeeps DEF proof
<1>8. CASE g # Idle
  <2>1. g \in CallRecord /\ g.pc \in {"unwind", "aim"} /\ g.at = 1 /\ g.projection = projection
    <3>1. PICK k : k = [h EXCEPT !.projection = projection, !.pc = next, !.at = 1]
      OBVIOUS
    <3>2. CASE next = "return"
      <4>1. g = [k EXCEPT !.pc = "unwind"]
        BY <1>6, <1>8, <3>1, <3>2
      <4>2. QED
        BY <1>3, <3>1, <4>1 DEF CallRecord, Steps_, OuterSteps
    <3>3. CASE next # "return"
      <4>1. g = k /\ next \in {"unwind", "aim"}
        BY <1>5, <1>6, <1>8, <3>1, <3>3
      <4>2. QED
        BY <1>3, <3>1, <4>1 DEF CallRecord, Steps_, OuterSteps, ProjectionSteps
    <3>4. QED
      BY <3>2, <3>3
  <2>2. g.pc \in OuterSteps \cup ProjectionSteps /\ 1 \in DOMAIN Sidecars
    BY <2>1, SidecarFacts DEF OuterSteps, ProjectionSteps
  <2>3. /\ projection' \in Projection /\ failed' \in BOOLEAN /\ (failed => failed')
        /\ mishaps' \in Nat
        /\ UNCHANGED <<files, journal, sidecar, preimage, plan, touched, edits>>
    <3>1. failed' = failed /\ mishaps' = mishaps /\ projection' = projection
      BY <1>1 DEF proof, environment
    <3>2. failed \in BOOLEAN /\ mishaps \in Nat
      BY DEF CoreInv, SharedTyped
    <3>3. QED
      BY <1>1, <1>3, <3>1, <3>2 DEF proof, environment
  <2>4. /\ held' = [held EXCEPT ![w] = g] /\ g.at > 0 /\ g.at \in DOMAIN Sidecars
        /\ g.projection \in Projection /\ g \in CallRecord
    BY <1>3, <1>6, <2>1, <2>2
  <2>5. QED
    BY <1>1, <1>3, <2>2, <2>3, <2>4, MovesOn
<1>9. QED
  BY <1>7, <1>8

LEMMA SaveProjectionKeeps ==
    ASSUME CoreInv, NEW w \in Process, Busy(w), held[w].pc \in OuterSteps \cup ProjectionSteps,
           NEW pc \in OuterSteps \cup ProjectionSteps,
           pc \in SideSteps => held[w].at \in DOMAIN Sidecars, NEW v \in Projection,
           held' = [held EXCEPT ![w].projection = v, ![w].pc = pc], projection' = v,
           failed' \in BOOLEAN, failed => failed', mishaps' \in Nat,
           UNCHANGED <<files, journal, sidecar, preimage, plan, touched, edits>>
    PROVE  CoreInv'
<1>1. PICK h : h = held[w]
  OBVIOUS
<1>2. h \in CallRecord /\ h.at \in Nat /\ h.at > 0
  BY <1>1, OutsideFacts
<1>3. PICK g : g = [h EXCEPT !.projection = v, !.pc = pc]
  OBVIOUS
<1>4. g \in CallRecord /\ g.pc = pc /\ g.at = h.at /\ g.projection = v
  BY <1>2, <1>3 DEF CallRecord, Steps_
<1>5. held' = [held EXCEPT ![w] = g]
  BY <1>1, <1>3 DEF CoreInv, CallsTyped
<1>6. QED
  BY <1>1, <1>2, <1>4, <1>5, MovesOn

LEMMA AimKeeps ==
    ASSUME CoreInv, NEW w \in Process, Aim(w) PROVE CoreInv'
<1>1. Busy(w) /\ held[w].pc = "aim" 
  BY DEF Aim, At
<1>2. /\ held[w].projection \in Projection /\ held[w].at \in DOMAIN Sidecars
      /\ held[w].pc \in OuterSteps \cup ProjectionSteps
  BY <1>1, OutsideFacts, SidecarFacts DEF ProjectionSteps, SideSteps
<1>3. There(w) \in Sidecar
  BY <1>2, SidecarFacts DEF There
<1>4. PICK v : v = [held[w].projection EXCEPT !.aimed = @ \cup {There(w)}]
  OBVIOUS
<1>5. v \in Projection
  BY <1>2, <1>3, <1>4 DEF Projection
<1>6. SaveProjection(w, v, "compare")
  BY <1>4 DEF Aim
<1>7. /\ held' = [held EXCEPT ![w].projection = v, ![w].pc = "compare"] /\ projection' = v
      /\ UNCHANGED <<files, journal, sidecar, preimage, environment>>
  BY <1>6 DEF SaveProjection
<1>8. "compare" \in OuterSteps \cup ProjectionSteps
  BY DEF ProjectionSteps
<1>9. QED
  BY <1>1, <1>2, <1>5, <1>7, <1>8, SaveProjectionKeeps DEF CoreInv, SharedTyped, environment

LEMMA FailProjectionKeeps ==
    ASSUME CoreInv, NEW w \in Process, FailProjection(w) PROVE CoreInv'
<1>1. Busy(w) /\ held[w].pc \in ProjectionSteps
  BY DEF FailProjection
<1>2. projection \in Projection
  BY <1>1, OutsideFacts DEF ProjectionSteps
<1>3. PICK v : v = [projection EXCEPT !.status = "RECOVERY_REQUIRED"]
  OBVIOUS
<1>4. v \in Projection
  BY <1>2, <1>3 DEF Projection
<1>5. /\ held' = [held EXCEPT ![w].projection = v, ![w].pc = "unwind"] /\ projection' = v
      /\ UNCHANGED <<files, journal, sidecar, preimage, plan, touched, edits>>
  BY <1>3 DEF FailProjection
<1>6. failed' \in BOOLEAN /\ (failed => failed') /\ mishaps' \in Nat
  <2>1. failed \in BOOLEAN /\ mishaps \in Nat
    BY DEF CoreInv, SharedTyped
  <2>2. CASE UNCHANGED <<failed, mishaps>>
    BY <2>1, <2>2
  <2>3. CASE Mishap /\ failed' = TRUE
    BY <2>1, <2>3 DEF Mishap
  <2>4. QED
    BY <2>2, <2>3 DEF FailProjection
<1>7. "unwind" \in OuterSteps \cup ProjectionSteps /\ "unwind" \notin SideSteps
  BY DEF OuterSteps, SideSteps
<1>8. QED
  BY <1>1, <1>4, <1>5, <1>6, <1>7, SaveProjectionKeeps

LEMMA CommitProofKeeps ==
    ASSUME CoreInv, NEW w \in Process, CommitProof(w) \/ Seal(w) \/ SealBack(w) PROVE CoreInv'
<1>1. Busy(w) /\ held[w].pc \in {"commitproof", "seal", "sealback"}
  BY DEF CommitProof, Seal, SealBack, At
<1>2. held[w].projection \in Projection /\ held[w].pc \in OuterSteps \cup ProjectionSteps
  BY <1>1, OutsideFacts DEF ProjectionSteps, OuterSteps
<1>3. \E status \in {"COMMITTED", "RECOVERY_BLOCKED", "ROLLED_BACK"} :
         ReturnWith(w, [held[w].projection EXCEPT !.status = status])
  BY DEF CommitProof, Seal, SealBack
<1>4. PICK status \in {"COMMITTED", "RECOVERY_BLOCKED", "ROLLED_BACK"} :
         ReturnWith(w, [held[w].projection EXCEPT !.status = status])
  BY <1>3
<1>5. [held[w].projection EXCEPT !.status = status] \in Projection
  BY <1>2 DEF Projection
<1>6. /\ Return(w) /\ projection' \in Projection
      /\ UNCHANGED <<files, journal, sidecar, preimage, environment>>
  BY <1>4, <1>5 DEF ReturnWith
<1>7. QED
  BY <1>1, <1>2, <1>6, ReturnKeeps

\* A step that is neither the consumer's nor a mishap.
LEMMA Undisturbed ==
    ASSUME CoreInv, UNCHANGED environment
    PROVE  /\ failed' \in BOOLEAN /\ (failed => failed') /\ mishaps' \in Nat
           /\ UNCHANGED <<plan, touched, edits>>
<1>1. /\ failed' = failed /\ mishaps' = mishaps /\ plan' = plan /\ touched' = touched
      /\ edits' = edits
  BY DEF environment
<1>2. failed \in BOOLEAN /\ mishaps \in Nat
  BY DEF CoreInv, SharedTyped
<1>3. QED
  BY <1>1, <1>2

LEMMA RecordProjectedKeeps ==
    ASSUME CoreInv, NEW w \in Process, RecordProjected(w) PROVE CoreInv'
<1>1. Busy(w) /\ held[w].pc = "projected"
  BY DEF RecordProjected, At
<1>2. PICK h : h = held[w]
  OBVIOUS
<1>3. /\ h \in CallRecord /\ h.at \in 1..Len(Sidecars) /\ h.projection \in Projection
      /\ held[w].pc \in OuterSteps \cup ProjectionSteps
  BY <1>1, <1>2, OutsideFacts DEF ProjectionSteps, SideSteps
<1>4. There(w) \in Sidecar
  BY <1>2, <1>3, SidecarFacts DEF There
<1>5. PICK v : v = [h.projection EXCEPT !.there = @ \cup {There(w)}]
  OBVIOUS
<1>6. v \in Projection
  BY <1>3, <1>4, <1>5 DEF Projection
<1>7. PICK g : g = [h EXCEPT !.projection = v,
                             !.pc = IF h.at = Len(Sidecars) THEN "prove" ELSE "aim",
                             !.at = IF h.at = Len(Sidecars) THEN @ ELSE @ + 1]
  OBVIOUS
<1>8. held' = [held EXCEPT ![w] = g] /\ projection' = v
  BY <1>2, <1>5, <1>7 DEF RecordProjected
<1>9. /\ g \in CallRecord /\ g.pc \in OuterSteps \cup ProjectionSteps /\ g.at > 0
      /\ g.at \in DOMAIN Sidecars /\ g.projection \in Projection
  <2>1. /\ g.at = (IF h.at = Len(Sidecars) THEN h.at ELSE h.at + 1) /\ g.projection = v
        /\ g.pc \in {"prove", "aim"}
    BY <1>3, <1>7 DEF CallRecord
  <2>2. g.at \in 1..Len(Sidecars) /\ g.at \in Nat
    BY <1>3, <2>1, SidecarFacts
  <2>3. g \in CallRecord
    BY <1>3, <1>6, <1>7, <2>1, <2>2 DEF CallRecord, Steps_, ProjectionSteps
  <2>4. QED
    BY <1>6, <2>1, <2>2, <2>3, SidecarFacts DEF ProjectionSteps
<1>10. UNCHANGED <<files, journal, sidecar, preimage, environment>>
  BY DEF RecordProjected
<1>11. UNCHANGED <<plan, touched, edits>> /\ failed' \in BOOLEAN /\ (failed => failed') /\ mishaps' \in Nat
  BY <1>10, Undisturbed
<1>12. QED
  BY <1>1, <1>3, <1>6, <1>8, <1>9, <1>10, <1>11, MovesOn

LEMMA UnwindKeeps ==
    ASSUME CoreInv, NEW w \in Process, Unwind(w) PROVE CoreInv'
<1>1. Busy(w) /\ held[w].pc = "unwind"
  BY DEF Unwind, At
<1>2. PICK h : h = held[w]
  OBVIOUS
<1>3. /\ h \in CallRecord /\ projection \in Projection
      /\ held[w].pc \in OuterSteps \cup ProjectionSteps
  BY <1>1, <1>2, OutsideFacts DEF OuterSteps
<1>4. CASE \A s \in Sidecar : Known(projection, s)
  <2>1. PICK g : g = [h EXCEPT !.projection = projection, !.pc = "sidecars",
                               !.at = Len(Sidecars), !.undo = TRUE, !.after = "seal"]
    OBVIOUS
  <2>2. held' = [held EXCEPT ![w] = g] /\ UNCHANGED <<files, journal, proof, environment>>
    BY <1>2, <1>4, <2>1 DEF Unwind
  <2>3. /\ g \in CallRecord /\ g.pc = "sidecars" /\ g.at = Len(Sidecars)
        /\ g.projection = projection
    BY <1>3, <2>1, SidecarFacts DEF CallRecord, Steps_, OuterSteps, Afters
  <2>4. g.pc \in OuterSteps \cup ProjectionSteps /\ g.at > 0 /\ g.at \in DOMAIN Sidecars
    BY <2>3, SidecarFacts DEF OuterSteps
  <2>5. /\ UNCHANGED <<plan, touched, edits>> /\ failed' \in BOOLEAN /\ (failed => failed')
        /\ mishaps' \in Nat
    BY <2>2, Undisturbed
  <2>6. UNCHANGED <<files, journal, sidecar, preimage, projection>>
    BY <2>2 DEF proof
  <2>7. QED
    BY <1>1, <1>3, <2>2, <2>3, <2>4, <2>5, <2>6, MovesOn
<1>5. CASE ~ \A s \in Sidecar : Known(projection, s)
  <2>1. ReturnWith(w, [projection EXCEPT !.status = "RECOVERY_BLOCKED"])
    BY <1>5 DEF Unwind
  <2>2. [projection EXCEPT !.status = "RECOVERY_BLOCKED"] \in Projection
    BY <1>3 DEF Projection
  <2>3. /\ Return(w) /\ projection' \in Projection
        /\ UNCHANGED <<files, journal, sidecar, preimage, environment>>
    BY <2>1, <2>2 DEF ReturnWith
  <2>4. QED
    BY <1>1, <1>3, <2>3, ReturnKeeps
<1>6. QED
  BY <1>4, <1>5

LEMMA CheckSidecarsKeeps ==
    ASSUME CoreInv, NEW w \in Process, CheckSidecars(w) PROVE CoreInv'
<1>1. Busy(w) /\ held[w].pc = "check" /\ UNCHANGED <<files, journal, proof, environment>>
  BY DEF CheckSidecars, At
<1>2. /\ held[w].pc \in (OuterSteps \cup ProjectionSteps) \ {"preimage", "prepared"}
      /\ held[w].pc \in SideSteps /\ sidecar' \in [Sidecar -> Bytes]
      /\ UNCHANGED <<files, journal, sidecar, preimage, projection, environment>>
  BY <1>1 DEF OuterSteps, SideSteps, CoreInv, SharedTyped, proof
<1>3. Return(w) \/ held' = [held EXCEPT ![w] = [held[w] EXCEPT !.pc = "sidecars"]]
  BY DEF CheckSidecars, Return
<1>4. CASE Return(w)
  BY <1>1, <1>2, <1>4, ReturnKeeps
<1>5. CASE held' = [held EXCEPT ![w] = [held[w] EXCEPT !.pc = "sidecars"]]
  <2>1. held' = [held EXCEPT ![w].pc = "sidecars"] /\ "sidecars" \in OuterSteps \cup ProjectionSteps
    BY <1>5 DEF OuterSteps
  <2>2. QED
    BY <1>1, <1>2, <2>1, GoesKeeps
<1>6. QED
  BY <1>3, <1>4, <1>5

LEMMA OnwardFacts ==
    ASSUME NEW h \in CallRecord, h.at \in 1..Len(Sidecars), h.projection \in Projection,
           NEW s \in Sidecar, NEW k, k = Home(h, s), NEW g, g = Onward(k)
    PROVE  /\ g \in CallRecord /\ g.pc \in {"sidecars", "rollback", "sealback"} /\ g.at > 0
           /\ g.at \in DOMAIN Sidecars /\ g.projection = k.projection /\ k.projection \in Projection
<1>1. PICK v : v = [h.projection EXCEPT !.there = @ \ {s}]
  OBVIOUS
<1>2. k = [h EXCEPT !.projection = v]
  BY <1>1 DEF Home
<1>3. v \in Projection
  BY <1>1 DEF Projection
<1>4. k \in CallRecord /\ k.at = h.at /\ k.projection = v
  BY <1>2, <1>3 DEF CallRecord
<1>5. CASE k.at > 1
  <2>1. g = [k EXCEPT !.pc = "sidecars", !.at = @ - 1]
    BY <1>5 DEF Onward
  <2>2. k.at - 1 \in 1..Len(Sidecars) /\ k.at - 1 \in Nat
    BY <1>4, <1>5, SidecarFacts
  <2>3. g \in CallRecord /\ g.pc = "sidecars" /\ g.at = k.at - 1 /\ g.projection = k.projection
    BY <1>4, <2>1, <2>2 DEF CallRecord, Steps_, OuterSteps
  <2>4. QED
    BY <1>3, <1>4, <2>2, <2>3, SidecarFacts
<1>6. CASE ~(k.at > 1)
  <2>1. g = [k EXCEPT !.pc = IF k.undo THEN "rollback" ELSE "sealback"]
    BY <1>6 DEF Onward
  <2>2. /\ g \in CallRecord /\ g.pc \in {"rollback", "sealback"} /\ g.at = k.at
        /\ g.projection = k.projection
    BY <1>4, <2>1 DEF CallRecord, Steps_, OuterSteps
  <2>3. QED
    BY <1>3, <1>4, <2>2, SidecarFacts
<1>7. QED
  BY <1>5, <1>6

LEMMA LookAtSidecarKeeps ==
    ASSUME CoreInv, NEW w \in Process, LookAtSidecar(w) PROVE CoreInv'
<1>1. Busy(w) /\ held[w].pc = "sidecars" /\ UNCHANGED <<files, journal, proof, environment>>
  BY DEF LookAtSidecar, At
<1>2. PICK h : h = held[w]
  OBVIOUS
<1>3. /\ h \in CallRecord /\ h.at \in 1..Len(Sidecars) /\ h.projection \in Projection
      /\ projection \in Projection
      /\ held[w].pc \in (OuterSteps \cup ProjectionSteps) \ {"preimage", "prepared"}
      /\ held[w].pc \in SideSteps
  BY <1>1, <1>2, OutsideFacts DEF OuterSteps, SideSteps
<1>4. There(w) \in Sidecar
  BY <1>2, <1>3, SidecarFacts DEF There
<1>5. CASE sidecar[There(w)] = h.projection.source[There(w)]
  <2>1. PICK k : k = Home(h, There(w))
    OBVIOUS
  <2>2. PICK g : g = Onward(k)
    OBVIOUS
  <2>3. held' = [held EXCEPT ![w] = g]
    BY <1>2, <1>5, <2>1, <2>2 DEF LookAtSidecar
  <2>4. /\ g \in CallRecord /\ g.pc \in {"sidecars", "rollback", "sealback"} /\ g.at > 0
        /\ g.at \in DOMAIN Sidecars /\ g.projection \in Projection
    BY <1>3, <1>4, <2>1, <2>2, OnwardFacts
  <2>5. g.pc \in OuterSteps \cup ProjectionSteps
    BY <2>4 DEF OuterSteps
  <2>6. UNCHANGED <<files, journal, sidecar, preimage, projection>>
    BY <1>1 DEF proof
  <2>7. /\ UNCHANGED <<plan, touched, edits>> /\ failed' \in BOOLEAN /\ (failed => failed')
        /\ mishaps' \in Nat
    BY <1>1, Undisturbed
  <2>8. QED
    BY <1>1, <1>3, <2>3, <2>4, <2>5, <2>6, <2>7, MovesOn
<1>6. CASE sidecar[There(w)] # h.projection.source[There(w)]
  <2>1. held' = [held EXCEPT ![w].pc = "unproject"]
    BY <1>2, <1>6 DEF LookAtSidecar
  <2>2. "unproject" \in OuterSteps \cup ProjectionSteps /\ sidecar' \in [Sidecar -> Bytes]
        /\ UNCHANGED <<files, journal, preimage, projection, environment>>
    BY <1>1 DEF OuterSteps, CoreInv, SharedTyped, proof
  <2>3. QED
    BY <1>1, <1>3, <2>1, <2>2, GoesKeeps
<1>7. QED
  BY <1>5, <1>6

LEMMA RecordRestoredKeeps ==
    ASSUME CoreInv, NEW w \in Process, RecordRestored(w) PROVE CoreInv'
<1>1. Busy(w) /\ held[w].pc = "unprojected"
      /\ UNCHANGED <<files, journal, sidecar, preimage, environment>>
  BY DEF RecordRestored, At
<1>2. PICK h : h = held[w]
  OBVIOUS
<1>3. /\ h \in CallRecord /\ h.at \in 1..Len(Sidecars) /\ h.projection \in Projection
      /\ held[w].pc \in OuterSteps \cup ProjectionSteps
  BY <1>1, <1>2, OutsideFacts DEF OuterSteps, SideSteps
<1>4. There(w) \in Sidecar
  BY <1>2, <1>3, SidecarFacts DEF There
<1>5. PICK k : k = Home(h, There(w))
  OBVIOUS
<1>6. PICK g : g = Onward(k)
  OBVIOUS
<1>7. held' = [held EXCEPT ![w] = g] /\ projection' = k.projection
  BY <1>2, <1>5, <1>6 DEF RecordRestored
<1>8. /\ g \in CallRecord /\ g.pc \in {"sidecars", "rollback", "sealback"} /\ g.at > 0
      /\ g.at \in DOMAIN Sidecars /\ g.projection \in Projection /\ k.projection \in Projection
  BY <1>3, <1>4, <1>5, <1>6, OnwardFacts
<1>9. g.pc \in OuterSteps \cup ProjectionSteps
  BY <1>8 DEF OuterSteps
<1>10. /\ UNCHANGED <<plan, touched, edits>> /\ failed' \in BOOLEAN /\ (failed => failed')
       /\ mishaps' \in Nat
  BY <1>1, Undisturbed
<1>11. QED
  BY <1>1, <1>3, <1>7, <1>8, <1>9, <1>10, MovesOn

-----------------------------------------------------------------------------
(* The steps of the call that holds the lock.                                *)
Placed(g) ==
    /\ g.at > 0
    /\ g.pc \in ItemSteps \cup BackSteps => g.at \in DOMAIN Items
    /\ g.pc \in SideSteps => g.at \in DOMAIN Sidecars
    /\ g.pc = "begin" => g.at = 1
    /\ InLock(g) => g.journal # None
    /\ g.pc \notin {"preimage", "prepared"}
Storable(j) ==
    /\ j \in Journal /\ JournalOK(j)
    /\ j.status \in {"PLANNED", "ROLLED_BACK"} => AllBefore
    /\ j.status = "COMMITTED" => j.published /\ (snapshot => AllAfter)

\* A call enters the lock or moves in it, and writes no file but staging files.
LEMMA LockStep ==
    ASSUME CoreInv, NEW w \in Process, Busy(w),
           \A v \in Process : v # w /\ Busy(v) => ~InLock(held[v]),
           held[w].projection # None,
           NEW g \in CallRecord, NEW j, Storable(j), Placed(g), g.projection = held[w].projection,
           held' = [held EXCEPT ![w] = g], journal' = j,
           j.status = "RECOVERY_BLOCKED" => ~Clean',
           InLock(g) => LockKnows(g, j),
           UNCHANGED Kept, UNCHANGED proof, UNCHANGED edits,
           stage' \in [Path -> {"absent", "partial", "B"}], directory' \in BOOLEAN,
           failed' \in BOOLEAN, failed => failed', mishaps' \in Nat
    PROVE  CoreInv'
<1>1. j \in Journal /\ j # None
  BY NoneAssumption DEF Storable
<1>2. SharedTyped' /\ projection' = projection
  BY <1>1 DEF CoreInv, SharedTyped, Kept, proof
<1>3. TargetOK' /\ Fresh' /\ DiskOK' /\ SourceSurvives'
  BY <1>1, SavedDisk DEF Storable
<1>4. InLock(g) => LockKnows(g, journal)'
  <2>1. InLock(g) => LockKnows(g, j)'
    BY LockStays
  <2>2. QED
    BY <2>1
<1>5. projection # None
  BY DEF CoreInv, CallsTyped, CallTyped
<1>6. CallTyped(g)'
  BY <1>1, <1>2, <1>5 DEF Placed, CallTyped, InLock
<1>7. QED
  BY <1>2, <1>3, <1>4, <1>6, AloneStep

LEMMA HolderStep ==
    ASSUME CoreInv, NEW w \in Process, Busy(w), InLock(held[w]),
           NEW g \in CallRecord, NEW j, Storable(j), Placed(g), g.projection = held[w].projection,
           held' = [held EXCEPT ![w] = g], journal' = j,
           j.status = "RECOVERY_BLOCKED" => ~Clean',
           InLock(g) => LockKnows(g, j),
           UNCHANGED Kept, UNCHANGED proof, UNCHANGED edits,
           stage' \in [Path -> {"absent", "partial", "B"}], directory' \in BOOLEAN,
           failed' \in BOOLEAN, failed => failed', mishaps' \in Nat
    PROVE  CoreInv'
<1>1. \A v \in Process : v # w /\ Busy(v) => ~InLock(held[v])
  BY HolderFacts
<1>2. held[w].projection # None
  <2>1. CallTyped(held[w])
    BY HolderFacts
  <2>2. held[w].pc \notin {"preimage", "prepared"}
    BY DEF InLock, CoreSteps, UndoSteps
  <2>3. QED
    BY <2>1, <2>2 DEF CallTyped
<1>3. QED
  BY <1>1, <1>2, LockStep

\* What is saved is what is on the disk now.
LEMMA StorableNow ==
    ASSUME CoreInv, journal # None PROVE Storable(journal)
  BY DEF CoreInv, DiskOK, Fresh, Storable, SharedTyped

\* An entry of a journal changes.
LEMMA EntryOK ==
    ASSUME NEW i \in Journal, NEW j, NEW p \in Path, NEW x,
           JournalOK(i), j.entry = [i.entry EXCEPT ![p] = x], i.staged \subseteq j.staged,
           x \notin {"PENDING", "ROLLED_BACK"},
           x \in {"TARGET_INSTALLED", "VERIFIED"} \/ (Ours(p) => target[p] # "B")
    PROVE  JournalOK(j)
<1>1. \A q \in Path : j.entry[q] = IF q = p THEN x ELSE i.entry[q]
  BY DEF Journal
<1>2. PendingOK(j)
  BY <1>1, ItemFacts DEF JournalOK, PendingOK
<1>3. ProvenOK(j)
  BY <1>1 DEF JournalOK, ProvenOK, Clean, Ours
<1>4. QED
  BY <1>2, <1>3 DEF JournalOK

LEMMA SameEntries ==
    ASSUME NEW i, NEW j, JournalOK(i), j.entry = i.entry, j.staged = i.staged PROVE JournalOK(j)
  BY DEF JournalOK, PendingOK, ProvenOK

LEMMA BeginKeeps ==
    ASSUME CoreInv, NEW w \in Process, Begin(w) PROVE CoreInv'
<1>1. Busy(w) /\ held[w].pc = "begin" /\ InLock(held[w])
  BY DEF Begin, At, InLock, CoreSteps
<1>2. PICK h : h = held[w]
  OBVIOUS
<1>3. /\ h \in CallRecord /\ h.at = 1 /\ h.journal = journal /\ journal \in Journal
      /\ journal.status = "PLANNED" /\ AllBefore /\ JournalOK(journal)
  BY <1>1, <1>2, HolderFacts DEF CallTyped, LockKnows, CoreKnows, CoreSteps
<1>4. PICK j : j = [h.journal EXCEPT !.status = "APPLYING"]
  OBVIOUS
<1>5. Storable(j) /\ j.status = "APPLYING"
  <2>1. j \in Journal /\ j.status = "APPLYING" /\ j.entry = journal.entry /\ j.staged = journal.staged
    BY <1>3, <1>4 DEF Journal, Status
  <2>2. QED
    BY <1>3, <2>1, SameEntries DEF Storable
<1>6. PICK g : g = [h EXCEPT !.journal = j, !.pc = "entry"]
  OBVIOUS
<1>7. /\ g \in CallRecord /\ g.pc = "entry" /\ g.at = 1 /\ g.journal = j
      /\ g.projection = h.projection
  BY <1>3, <1>5, <1>6 DEF CallRecord, Steps_, CoreSteps, Storable
<1>8. held' = [held EXCEPT ![w] = g] /\ journal' = j /\ UNCHANGED <<files, proof, environment>>
  BY <1>2, <1>4, <1>6 DEF Begin, Save, CoreInv, CallsTyped
<1>9. Placed(g)
  BY <1>5, <1>7, ItemFacts, NoneAssumption
  DEF Placed, Storable, SideSteps, ItemSteps, EarlySteps
<1>10. LockKnows(g, j)
  <2>1. OthersKnow(g)
    BY <1>3, <1>7, ItemFacts DEF OthersKnow, AllBefore
  <2>2. ItemKnows(g, Items[1])
    BY <1>3, <1>7, ItemFacts DEF ItemKnows, AllBefore, EarlySteps
  <2>3. CoreKnows(g, j)
    BY <1>5, <1>7, <2>1, <2>2 DEF CoreKnows, EndSteps
  <2>4. QED
    BY <1>5, <1>7, <2>3 DEF LockKnows, Storable, UndoSteps
<1>11. QED
  BY <1>1, <1>2, <1>5, <1>7, <1>8, <1>9, <1>10, HolderStep, Undisturbed
  DEF files, environment, Kept, CoreInv, SharedTyped

\* What a call knows at an item of the plan.
LEMMA AtItem ==
    ASSUME CoreInv, NEW w \in Process, Busy(w), held[w].pc \in ItemSteps,
           NEW h, h = held[w], NEW p, p = Here(w)
    PROVE  /\ InLock(h) /\ h \in CallRecord /\ h.at \in DOMAIN Items /\ p = Items[h.at] /\ p \in Path
           /\ h.journal \in Journal /\ journal \in Journal /\ JournalOK(h.journal)
           /\ h.journal.status = "APPLYING" /\ OthersKnow(h) /\ ItemKnows(h, p)
           /\ h.pc # "verify" => h.journal = journal
           /\ plan \in Plans /\ JournalOK(journal) /\ journal.status = "APPLYING"
<1>1. InLock(h) /\ h.pc \in CoreSteps
  BY DEF InLock, CoreSteps, ItemSteps, EarlySteps
<1>2. /\ h \in CallRecord /\ CallTyped(h) /\ LockKnows(h, journal) /\ h.journal \in Journal
      /\ journal \in Journal
  BY <1>1, HolderFacts
<1>3. h.at \in DOMAIN Items /\ p = Items[h.at] /\ p \in Path
  BY <1>2, ItemFacts DEF CallTyped, Here
<1>4. JournalOK(h.journal) /\ CoreKnows(h, journal)
  BY <1>1, <1>2 DEF LockKnows
<1>5. /\ h.journal.status = "APPLYING" /\ OthersKnow(h) /\ ItemKnows(h, p)
      /\ h.pc # "verify" => h.journal = journal
  BY <1>3, <1>4 DEF CoreKnows
<1>6. journal # None
  BY <1>1, <1>2 DEF CallTyped
<1>7. plan \in Plans /\ JournalOK(journal)
  BY <1>6 DEF CoreInv, SharedTyped, DiskOK
<1>8. journal.status = "APPLYING"
  BY <1>2, <1>4, <1>5 DEF CoreKnows, Journal
<1>9. QED
  BY <1>1, <1>2, <1>3, <1>4, <1>5, <1>7, <1>8

\* A call goes on at the same item.
LEMMA SameItem ==
    ASSUME CoreInv, NEW w \in Process, Busy(w), held[w].pc \in ItemSteps,
           NEW g \in CallRecord, NEW j \in Journal, JournalOK(j), j.status = "APPLYING",
           g.pc \in ItemSteps, g.at = held[w].at, g.journal = j, g.projection = held[w].projection,
           held' = [held EXCEPT ![w] = g], journal' = j, ItemKnows(g, Items[g.at]),
           UNCHANGED Kept, UNCHANGED proof, UNCHANGED environment,
           stage' \in [Path -> {"absent", "partial", "B"}], directory' \in BOOLEAN
    PROVE  CoreInv'
<1>1. PICK h : h = held[w]
  OBVIOUS
<1>2. InLock(h) /\ h.at \in DOMAIN Items /\ OthersKnow(h)
  BY <1>1, AtItem
<1>3. OthersKnow(g)
  BY <1>1, <1>2 DEF OthersKnow
<1>4. Storable(j)
  BY DEF Storable
<1>5. Placed(g)
  <2>1. g.pc \notin SideSteps \cup {"begin", "preimage", "prepared"}
    BY DEF ItemSteps, EarlySteps, SideSteps
  <2>2. g.at > 0
    BY <1>1, <1>2, ItemFacts
  <2>3. QED
    BY <1>1, <1>2, <2>1, <2>2, NoneAssumption DEF Placed
<1>6. LockKnows(g, j)
  <2>1. CoreKnows(g, j)
    BY <1>3 DEF CoreKnows, EndSteps, ItemSteps, EarlySteps
  <2>2. g.pc \notin UndoSteps
    BY DEF ItemSteps, EarlySteps, UndoSteps
  <2>3. QED
    BY <2>1, <2>2 DEF LockKnows
<1>7. InLock(held[w]) /\ j.status # "RECOVERY_BLOCKED"
  BY <1>1, <1>2
<1>8. failed' \in BOOLEAN /\ (failed => failed') /\ mishaps' \in Nat /\ UNCHANGED edits
  BY Undisturbed
<1>9. QED
  BY <1>4, <1>5, <1>6, <1>7, <1>8, HolderStep

LEMMA RecordDirectoryKeeps ==
    ASSUME CoreInv, NEW w \in Process, RecordDirectory(w) PROVE CoreInv'
<1>1. Busy(w) /\ held[w].pc = "record" /\ held[w].pc \in ItemSteps
  BY DEF RecordDirectory, At, ItemSteps, EarlySteps
<1>2. PICK h, p : h = held[w] /\ p = Here(w)
  OBVIOUS
<1>3. /\ h \in CallRecord /\ h.journal \in Journal /\ JournalOK(h.journal)
      /\ h.journal.status = "APPLYING" /\ ItemKnows(h, p) /\ p = Items[h.at]
  BY <1>1, <1>2, AtItem
<1>4. PICK j : j = [h.journal EXCEPT !.created = TRUE]
  OBVIOUS
<1>5. /\ j \in Journal /\ j.status = "APPLYING" /\ j.entry = h.journal.entry
      /\ j.staged = h.journal.staged
  BY <1>3, <1>4 DEF Journal
<1>6. PICK g : g = [h EXCEPT !.journal = j, !.pc = "entry"]
  OBVIOUS
<1>7. /\ g \in CallRecord /\ g.pc = "entry" /\ g.at = h.at /\ g.journal = j
      /\ g.projection = h.projection
  BY <1>3, <1>5, <1>6 DEF CallRecord, Steps_, CoreSteps
<1>8. held' = [held EXCEPT ![w] = g] /\ journal' = j /\ UNCHANGED <<files, proof, environment>>
  BY <1>2, <1>4, <1>6 DEF RecordDirectory, Save, CoreInv, CallsTyped
<1>9. ItemKnows(g, Items[g.at])
  BY <1>1, <1>2, <1>3, <1>7 DEF ItemKnows, EarlySteps
<1>10. JournalOK(j) /\ g.pc \in ItemSteps
  BY <1>3, <1>5, <1>7, SameEntries DEF ItemSteps, EarlySteps
<1>11. /\ UNCHANGED Kept /\ stage' \in [Path -> {"absent", "partial", "B"}] /\ directory' \in BOOLEAN
  BY <1>8 DEF files, environment, Kept, CoreInv, SharedTyped
<1>12. QED
  BY <1>1, <1>2, <1>5, <1>7, <1>8, <1>9, <1>10, <1>11, SameItem

LEMMA SaveItem ==
    ASSUME CoreInv, NEW w \in Process, Busy(w), held[w].pc \in ItemSteps,
           NEW j \in Journal, JournalOK(j), j.status = "APPLYING", NEW pc \in ItemSteps,
           NEW g, g = [held[w] EXCEPT !.journal = j, !.pc = pc], Save(w, j, pc),
           /\ g.pc = pc /\ g.at = held[w].at /\ g.journal = j => ItemKnows(g, Here(w))
    PROVE  CoreInv'
<1>1. PICK h, p : h = held[w] /\ p = Here(w)
  OBVIOUS
<1>2. h \in CallRecord /\ p = Items[h.at]
  BY <1>1, AtItem
<1>3. /\ g \in CallRecord /\ g.pc = pc /\ g.at = h.at /\ g.journal = j
      /\ g.projection = h.projection
  BY <1>1, <1>2 DEF CallRecord, Steps_, CoreSteps, ItemSteps, EarlySteps
<1>4. held' = [held EXCEPT ![w] = g] /\ journal' = j /\ UNCHANGED <<files, proof, environment>>
  BY <1>1 DEF Save, CoreInv, CallsTyped
<1>5. ItemKnows(g, Items[g.at])
  BY <1>1, <1>2, <1>3
<1>6. /\ UNCHANGED Kept /\ stage' \in [Path -> {"absent", "partial", "B"}] /\ directory' \in BOOLEAN
  BY <1>4 DEF files, environment, Kept, CoreInv, SharedTyped
<1>7. QED
  BY <1>1, <1>3, <1>4, <1>5, <1>6, SameItem

LEMMA GoesToItem ==
    ASSUME CoreInv, NEW w \in Process, Busy(w), held[w].pc \in ItemSteps \ {"verify"},
           NEW pc \in ItemSteps, NEW g, g = [held[w] EXCEPT !.pc = pc], Goto(w, pc),
           /\ g.pc = pc /\ g.at = held[w].at /\ g.journal = held[w].journal
              => ItemKnows(g, Here(w)),
           UNCHANGED <<target, linked, quarantine, snapshot, journal, proof, environment>>,
           stage' \in [Path -> {"absent", "partial", "B"}], directory' \in BOOLEAN
    PROVE  CoreInv'
<1>1. PICK h, p : h = held[w] /\ p = Here(w)
  OBVIOUS
<1>2. /\ h \in CallRecord /\ p = Items[h.at] /\ h.journal = journal /\ journal \in Journal
      /\ JournalOK(journal) /\ journal.status = "APPLYING"
  BY <1>1, AtItem
<1>3. /\ g \in CallRecord /\ g.pc = pc /\ g.at = h.at /\ g.journal = journal
      /\ g.projection = h.projection
  BY <1>1, <1>2 DEF CallRecord, Steps_, CoreSteps, ItemSteps, EarlySteps
<1>4. held' = [held EXCEPT ![w] = g] /\ UNCHANGED Kept
  BY <1>1 DEF Goto, CoreInv, CallsTyped, Kept, environment
<1>5. ItemKnows(g, Items[g.at])
  BY <1>1, <1>2, <1>3
<1>6. QED
  BY <1>1, <1>2, <1>3, <1>4, <1>5, SameItem

LEMMA StageStepsKeep ==
    ASSUME CoreInv, NEW w \in Process, MakeDirectory(w) \/ WriteStage(w) \/ LookAtSource(w)
    PROVE  CoreInv'
<1>1. PICK h, p : h = held[w] /\ p = Here(w)
  OBVIOUS
<1>2. CASE MakeDirectory(w) \/ WriteStage(w)
  <2>1. Busy(w) /\ h.pc = "entry" /\ Stages(p) /\ h.pc \in ItemSteps \ {"verify"}
    BY <1>1, <1>2 DEF MakeDirectory, WriteStage, At, ItemSteps, EarlySteps
  <2>2. ItemKnows(h, p) /\ p \in Path
    BY <1>1, <2>1, AtItem
  <2>3. \E pc \in {"record", "staged"} : Goto(w, pc)
    BY <1>2 DEF MakeDirectory, WriteStage
  <2>4. PICK pc \in {"record", "staged"} : Goto(w, pc)
    BY <2>3
  <2>5. PICK g : g = [h EXCEPT !.pc = pc]
    OBVIOUS
  <2>6. g.pc = pc => ItemKnows(g, p)
    BY <2>1, <2>2, <2>4 DEF ItemKnows, EarlySteps
  <2>7. /\ UNCHANGED <<target, linked, quarantine, snapshot, journal, proof, environment>>
        /\ stage' \in [Path -> {"absent", "partial", "B"}] /\ directory' \in BOOLEAN
    BY <1>1, <1>2, <2>2 DEF MakeDirectory, WriteStage, CoreInv, SharedTyped
  <2>8. pc \in ItemSteps
    BY <2>4 DEF ItemSteps, EarlySteps
  <2>9. QED
    BY <1>1, <2>1, <2>4, <2>5, <2>6, <2>7, <2>8, GoesToItem
<1>3. CASE LookAtSource(w)
  <2>1. Busy(w) /\ h.pc = "remove" /\ h.pc \in ItemSteps \ {"verify"} /\ Goto(w, "unlink")
    BY <1>1, <1>3 DEF LookAtSource, At, Look, ItemSteps, EarlySteps
  <2>2. ItemKnows(h, p)
    BY <1>1, <2>1, AtItem
  <2>3. PICK g : g = [h EXCEPT !.pc = "unlink"]
    OBVIOUS
  <2>4. g.pc = "unlink" /\ g.journal = h.journal => ItemKnows(g, p)
    BY <2>1, <2>2 DEF ItemKnows, EarlySteps
  <2>5. /\ UNCHANGED <<target, linked, quarantine, snapshot, journal, proof, environment>>
        /\ stage' \in [Path -> {"absent", "partial", "B"}] /\ directory' \in BOOLEAN
    BY <1>3 DEF LookAtSource, Look, files, CoreInv, SharedTyped
  <2>6. "unlink" \in ItemSteps
    BY DEF ItemSteps, EarlySteps
  <2>7. QED
    BY <1>1, <2>1, <2>3, <2>4, <2>5, <2>6, GoesToItem
<1>4. QED
  BY <1>2, <1>3

LEMMA RecordStageKeeps ==
    ASSUME CoreInv, NEW w \in Process, RecordStage(w) PROVE CoreInv'
<1>1. Busy(w) /\ held[w].pc = "staged" /\ held[w].pc \in ItemSteps
  BY DEF RecordStage, At, ItemSteps, EarlySteps
<1>2. PICK h, p : h = held[w] /\ p = Here(w)
  OBVIOUS
<1>3. /\ h.journal \in Journal /\ JournalOK(h.journal) /\ p \in Path /\ plan \in Plans
      /\ h.journal.status = "APPLYING" /\ ItemKnows(h, p)
  BY <1>1, <1>2, AtItem
<1>4. Stages(p) /\ (Ours(p) => target[p] = Before(p))
  BY <1>1, <1>2, <1>3 DEF ItemKnows, EarlySteps
<1>5. Before(p) \in {"absent", "A"} /\ (~Removes(p) => Before(p) = "absent")
  BY <1>3, <1>4, PlanFacts DEF Stages, Removes
<1>6. PICK j : j = [h.journal EXCEPT !.entry[p] = "STAGED", !.staged = @ \cup {p}]
  OBVIOUS
<1>7. /\ j \in Journal /\ j.status = "APPLYING" /\ j.entry = [h.journal.entry EXCEPT ![p] = "STAGED"]
      /\ j.staged = h.journal.staged \cup {p}
  BY <1>3, <1>6 DEF Journal, EntryState
<1>8. JournalOK(j)
  BY <1>3, <1>4, <1>5, <1>7, EntryOK
<1>9. PICK pc : pc = IF Removes(p) THEN "backup" ELSE "install"
  OBVIOUS
<1>10. PICK g : g = [h EXCEPT !.journal = j, !.pc = pc]
  OBVIOUS
<1>11. g.pc = pc /\ g.journal = j => ItemKnows(g, p)
  BY <1>4, <1>5, <1>7, <1>9 DEF ItemKnows, EarlySteps
<1>12. Save(w, j, pc) /\ pc \in ItemSteps
  BY <1>2, <1>6, <1>9 DEF RecordStage, ItemSteps, EarlySteps
<1>13. QED
  BY <1>1, <1>2, <1>7, <1>8, <1>10, <1>11, <1>12, SaveItem

\* The entries that only say how far an item is.
LEMMA RecordEntryKeeps ==
    ASSUME CoreInv, NEW w \in Process, RecordBackUp(w) \/ RecordRemoved(w) \/ RecordInstalled(w)
    PROVE  CoreInv'
<1>1. /\ Busy(w) /\ held[w].pc \in {"backedup", "removed", "installed"}
      /\ held[w].pc \in ItemSteps
  BY DEF RecordBackUp, RecordRemoved, RecordInstalled, At, ItemSteps, EarlySteps
<1>2. PICK h, p : h = held[w] /\ p = Here(w)
  OBVIOUS
<1>3. /\ h.journal \in Journal /\ JournalOK(h.journal) /\ p \in Path /\ plan \in Plans
      /\ h.journal.status = "APPLYING" /\ ItemKnows(h, p)
  BY <1>1, <1>2, AtItem
<1>4. /\ Before(p) \in {"absent", "A"} /\ (Removes(p) /\ ~Stages(p) => After(p) = "absent")
  BY <1>3, PlanFacts DEF Stages, Removes
<1>5. PICK x, pc : /\ x = IF h.pc = "backedup" THEN "BACKED_UP"
                          ELSE IF h.pc = "removed" THEN "SOURCE_REMOVED" ELSE "TARGET_INSTALLED"
                   /\ pc = IF h.pc = "backedup" THEN "remove"
                           ELSE IF h.pc = "installed" THEN "unstage"
                           ELSE IF Stages(p) THEN "install" ELSE "verify"
  OBVIOUS
<1>6. PICK j : j = [h.journal EXCEPT !.entry[p] = x]
  OBVIOUS
<1>7. /\ j \in Journal /\ j.status = "APPLYING" /\ j.entry = [h.journal.entry EXCEPT ![p] = x]
      /\ j.staged = h.journal.staged /\ j.entry[p] = x
  BY <1>3, <1>5, <1>6 DEF Journal, EntryState
<1>8. JournalOK(j)
  <2>1. x = "TARGET_INSTALLED" \/ (Ours(p) => target[p] # "B")
    BY <1>1, <1>2, <1>3, <1>4, <1>5 DEF ItemKnows, EarlySteps
  <2>2. x \notin {"PENDING", "ROLLED_BACK"}
    BY <1>5
  <2>3. QED
    BY <1>3, <1>7, <2>1, <2>2, EntryOK
<1>9. PICK g : g = [h EXCEPT !.journal = j, !.pc = pc]
  OBVIOUS
<1>10. g.pc = pc /\ g.journal = j => ItemKnows(g, p)
  <2>1. CASE h.pc = "backedup"
    BY <1>3, <1>4, <1>5, <1>7, <2>1 DEF ItemKnows, EarlySteps
  <2>2. CASE h.pc = "removed"
    BY <1>3, <1>4, <1>5, <1>7, <2>2 DEF ItemKnows, EarlySteps
  <2>3. CASE h.pc = "installed"
    BY <1>3, <1>4, <1>5, <1>7, <2>3 DEF ItemKnows, EarlySteps
  <2>4. QED
    BY <1>1, <1>2, <2>1, <2>2, <2>3
<1>11. Save(w, j, pc) /\ pc \in ItemSteps
  <2>1. Save(w, j, pc)
    BY <1>1, <1>2, <1>5, <1>6 DEF RecordBackUp, RecordRemoved, RecordInstalled, SaveEntry, At
  <2>2. pc \in ItemSteps
    BY <1>5 DEF ItemSteps, EarlySteps
  <2>3. QED
    BY <2>1, <2>2
<1>12. /\ g = [held[w] EXCEPT !.journal = j, !.pc = pc] /\ Save(w, j, pc) /\ pc \in ItemSteps
       /\ g.pc = pc /\ g.at = held[w].at /\ g.journal = j => ItemKnows(g, Here(w))
       /\ j \in Journal /\ j.status = "APPLYING"
  BY <1>2, <1>7, <1>9, <1>10, <1>11
<1>13. QED
  BY <1>1, <1>8, <1>12, SaveItem

\* An item is done.
LEMMA AdvanceKeeps ==
    ASSUME CoreInv, NEW w \in Process, Busy(w), held[w].pc \in ItemSteps,
           NEW j \in Journal, JournalOK(j), j.status = "APPLYING",
           Ours(Here(w)) => target[Here(w)] = After(Here(w)),
           NEW k, k = [held[w] EXCEPT !.journal = j], held' = [held EXCEPT ![w] = Advance(k)],
           journal' = j, UNCHANGED <<files, proof, environment>>
    PROVE  CoreInv'
<1>1. PICK h, p : h = held[w] /\ p = Here(w)
  OBVIOUS
<1>2. /\ h \in CallRecord /\ h.at \in DOMAIN Items /\ p = Items[h.at] /\ OthersKnow(h)
      /\ InLock(h)
  BY <1>1, AtItem
<1>3. k \in CallRecord /\ k.at = h.at /\ k.journal = j /\ k.projection = h.projection
  BY <1>1, <1>2 DEF CallRecord
<1>4. PICK g : g = Advance(k)
  OBVIOUS
<1>5. held' = [held EXCEPT ![w] = g]
  BY <1>4
<1>6. CASE h.at # Len(Items)
  <2>1. g = [k EXCEPT !.pc = "entry", !.at = @ + 1]
    BY <1>3, <1>4, <1>6 DEF Advance
  <2>2. h.at + 1 \in DOMAIN Items /\ h.at + 1 \in Nat /\ h.at \in Nat
    BY <1>2, <1>6, ItemFacts
  <2>3. /\ g \in CallRecord /\ g.pc = "entry" /\ g.at = h.at + 1 /\ g.journal = j
        /\ g.projection = h.projection
    BY <1>3, <2>1, <2>2 DEF CallRecord, Steps_, CoreSteps
  <2>4. OthersKnow(g)
    <3> SUFFICES ASSUME NEW i \in DOMAIN Items, Ours(Items[i])
                 PROVE /\ i < g.at => target[Items[i]] = After(Items[i])
                       /\ i > g.at => target[Items[i]] = Before(Items[i])
      BY DEF OthersKnow
    <3>1. i < h.at \/ i = h.at \/ i > h.at
      BY <2>2, ItemFacts
    <3>2. i \in Nat
      BY ItemFacts
    <3>3. CASE i = h.at
      BY <1>1, <1>2, <2>2, <2>3, <3>3
    <3>4. CASE i # h.at
      BY <1>2, <2>2, <2>3, <3>1, <3>2, <3>4 DEF OthersKnow
    <3>5. QED
      BY <3>3, <3>4
  <2>5. ItemKnows(g, Items[g.at])
    <3>1. Ours(Items[g.at]) => target[Items[g.at]] = Before(Items[g.at])
      BY <1>2, <2>2, <2>3 DEF OthersKnow
    <3>2. QED
      BY <2>3, <3>1 DEF ItemKnows, EarlySteps
  <2>6. LockKnows(g, j)
    <3>1. CoreKnows(g, j)
      BY <2>3, <2>4, <2>5 DEF CoreKnows, EndSteps
    <3>2. QED
      BY <2>3, <3>1 DEF LockKnows, UndoSteps
  <2>7. Placed(g)
    BY <2>2, <2>3, NoneAssumption DEF Placed, SideSteps
  <2>8. QED
    BY <1>1, <1>2, <1>5, <2>3, <2>6, <2>7, HolderStep, Undisturbed
    DEF Storable, Kept, files, environment, CoreInv, SharedTyped
<1>7. CASE h.at = Len(Items)
  <2>1. g = [k EXCEPT !.pc = "post"]
    BY <1>3, <1>4, <1>7 DEF Advance
  <2>2. g \in CallRecord /\ g.pc = "post" /\ g.at = h.at /\ g.journal = j /\ g.projection = h.projection
    BY <1>3, <2>1 DEF CallRecord, Steps_, CoreSteps
  <2>3. AllAfter
    <3> SUFFICES ASSUME NEW q \in Path, Ours(q) PROVE target[q] = After(q)
      BY DEF AllAfter
    <3>1. PICK i \in DOMAIN Items : q = Items[i]
      BY ItemFacts
    <3>2. i < h.at \/ i = h.at
      BY <1>7, ItemFacts
    <3>3. QED
      BY <1>1, <1>2, <3>1, <3>2 DEF OthersKnow
  <2>4. LockKnows(g, j)
    <3>1. CoreKnows(g, j)
      BY <2>2, <2>3 DEF CoreKnows, EndSteps, ItemSteps, EarlySteps
    <3>2. QED
      BY <2>2, <3>1 DEF LockKnows, UndoSteps
  <2>5. Placed(g)
    BY <1>2, <2>2, NoneAssumption, ItemFacts
    DEF Placed, SideSteps, ItemSteps, EarlySteps, BackSteps
  <2>6. QED
    BY <1>1, <1>2, <1>5, <2>2, <2>4, <2>5, HolderStep, Undisturbed
    DEF Storable, Kept, files, environment, CoreInv, SharedTyped
<1>8. QED
  BY <1>6, <1>7

LEMMA PreserveKeeps ==
    ASSUME CoreInv, NEW w \in Process, Preserve(w) PROVE CoreInv'
<1>1. Busy(w) /\ held[w].pc = "entry" /\ held[w].pc \in ItemSteps
  BY DEF Preserve, At, ItemSteps, EarlySteps
<1>2. PICK h, p : h = held[w] /\ p = Here(w)
  OBVIOUS
<1>3. /\ h.journal \in Journal /\ JournalOK(h.journal) /\ p \in Path /\ plan \in Plans
      /\ h.journal.status = "APPLYING"
  BY <1>1, <1>2, AtItem
<1>4. plan[p] = "KEEP" /\ target[p] = "A" /\ After(p) = "A"
  BY <1>2 DEF Preserve, After
<1>5. PICK i : i = [h.journal EXCEPT !.entry[p] = "PRESERVED"]
  OBVIOUS
<1>6. /\ i \in Journal /\ i.status = "APPLYING" /\ i.staged = h.journal.staged
      /\ i.entry = [h.journal.entry EXCEPT ![p] = "PRESERVED"]
  BY <1>3, <1>5 DEF Journal, EntryState
<1>7. JournalOK(i)
  BY <1>3, <1>4, <1>6, EntryOK
<1>8. PICK j : j = IF p = Profile THEN h.journal ELSE i
  OBVIOUS
<1>9. j \in Journal /\ JournalOK(j) /\ j.status = "APPLYING"
  BY <1>3, <1>6, <1>7, <1>8
<1>10. PICK k : k = [h EXCEPT !.journal = j]
  OBVIOUS
<1>11. held' = [held EXCEPT ![w] = Advance(k)] /\ journal' = j /\ UNCHANGED <<files, proof, environment>>
  BY <1>2, <1>5, <1>8, <1>10 DEF Preserve
<1>12. QED
  BY <1>1, <1>2, <1>4, <1>9, <1>10, <1>11, AdvanceKeeps

LEMMA VerifyKeeps ==
    ASSUME CoreInv, NEW w \in Process, Verify(w) PROVE CoreInv'
<1>1. Busy(w) /\ held[w].pc = "verify" /\ held[w].pc \in ItemSteps
  BY DEF Verify, At, ItemSteps
<1>2. PICK h, p : h = held[w] /\ p = Here(w)
  OBVIOUS
<1>3. /\ h.journal \in Journal /\ JournalOK(h.journal) /\ p \in Path
      /\ h.journal.status = "APPLYING" /\ target[p] = After(p)
  BY <1>1, <1>2, AtItem DEF Verify
<1>4. PICK j : j = [h.journal EXCEPT !.entry[p] = "VERIFIED"]
  OBVIOUS
<1>5. /\ j \in Journal /\ j.status = "APPLYING" /\ j.staged = h.journal.staged
      /\ j.entry = [h.journal.entry EXCEPT ![p] = "VERIFIED"]
  BY <1>3, <1>4 DEF Journal, EntryState
<1>6. JournalOK(j)
  BY <1>3, <1>5, EntryOK
<1>7. PICK k : k = [h EXCEPT !.journal = j]
  OBVIOUS
<1>8. held' = [held EXCEPT ![w] = Advance(k)] /\ journal' = j /\ UNCHANGED <<files, proof, environment>>
  BY <1>2, <1>4, <1>7 DEF Verify
<1>9. QED
  BY <1>1, <1>2, <1>3, <1>5, <1>6, <1>7, <1>8, AdvanceKeeps

-----------------------------------------------------------------------------
(* The end of an application, and the beginning of a recovery.               *)
\* The call that holds the lock writes or retracts the snapshot.
LEMMA SnapshotStep ==
    ASSUME CoreInv, NEW w \in Process, Busy(w), InLock(held[w]), NEW g \in CallRecord,
           held' = [held EXCEPT ![w] = g], Placed(g), g.projection = held[w].projection,
           snapshot' \in BOOLEAN, journal.status = "COMMITTED" => ~snapshot',
           InLock(g), LockKnows(g, journal)',
           UNCHANGED Still, UNCHANGED <<directory, stage, journal, proof, environment>>
    PROVE  CoreInv'
<1>1. /\ \A v \in Process : v # w /\ Busy(v) => ~InLock(held[v])
      /\ journal \in Journal /\ journal # None /\ CallTyped(held[w])
  BY HolderFacts, NoneAssumption
<1>2. SharedTyped' /\ projection' = projection
  BY DEF CoreInv, SharedTyped, Still, proof, environment
<1>3. /\ TargetOK' /\ SourceSurvives' /\ (AllBefore' <=> AllBefore) /\ (AllAfter' <=> AllAfter)
      /\ (Clean' => Clean) /\ \A j : JournalOK(j) => JournalOK(j)'
  BY StillFacts DEF CoreInv, environment
<1>4. Fresh'
  BY <1>3 DEF CoreInv, Fresh
<1>5. DiskOK'
  <2>1. PICK j : j = journal
    OBVIOUS
  <2>2. JournalOK(j)'
    BY <1>1, <1>3, <2>1 DEF CoreInv, DiskOK
  <2>3. JournalOK(journal)'
    BY <2>1, <2>2
  <2>4. QED
    BY <1>1, <1>3, <2>3 DEF CoreInv, DiskOK
<1>6. CallTyped(g)'
  <2>1. held[w].pc \notin {"preimage", "prepared"}
    BY DEF InLock, CoreSteps, UndoSteps
  <2>2. QED
    BY <1>1, <1>2, <2>1 DEF Placed, CallTyped, InLock
<1>7. QED
  BY <1>1, <1>2, <1>3, <1>4, <1>5, <1>6, AloneStep

\* What a call knows when all items are done.
LEMMA AtEnd ==
    ASSUME CoreInv, NEW w \in Process, Busy(w), held[w].pc \in EndSteps, NEW h, h = held[w]
    PROVE  /\ InLock(h) /\ h \in CallRecord /\ h.at \in Nat /\ h.at > 0
           /\ h.journal = journal /\ journal \in Journal /\ JournalOK(journal) /\ AllAfter
           /\ h.pc # "readback" => journal.status = "APPLYING"
           /\ h.pc = "readback" => journal.status = "COMMITTED"
           /\ h.pc \in {"commit", "readback"} => journal.published
           /\ h.projection # None /\ Storable(journal)
<1>1. InLock(h) /\ h.pc \in CoreSteps /\ h.pc # "verify" /\ h.pc \notin {"preimage", "prepared"}
  BY DEF InLock, CoreSteps, EndSteps
<1>2. /\ h \in CallRecord /\ CallTyped(h) /\ LockKnows(h, journal) /\ h.at \in Nat
      /\ journal \in Journal
  BY <1>1, HolderFacts
<1>3. JournalOK(h.journal) /\ CoreKnows(h, journal)
  BY <1>1, <1>2 DEF LockKnows
<1>4. h.at > 0 /\ h.projection # None /\ journal # None
  BY <1>1, <1>2 DEF CallTyped
<1>5. Storable(journal)
  BY <1>4, StorableNow
<1>6. QED
  BY <1>1, <1>2, <1>3, <1>4, <1>5 DEF CoreKnows

\* A step among the last ones.
LEMMA EndStep ==
    ASSUME CoreInv, NEW w \in Process, Busy(w), held[w].pc \in EndSteps, NEW pc \in EndSteps,
           NEW j, Storable(j), NEW g \in CallRecord,
           g.pc = pc, g.journal = j, g.at = held[w].at, g.projection = held[w].projection,
           pc # "readback" => j.status = "APPLYING",
           pc = "readback" => j.status = "COMMITTED",
           pc \in {"commit", "readback"} => j.published,
           held' = [held EXCEPT ![w] = g], journal' = j, UNCHANGED <<files, proof, environment>>
    PROVE  CoreInv'
<1>1. InLock(held[w]) /\ AllAfter /\ g.at > 0
  BY AtEnd
<1>2. g.pc \notin SideSteps \cup ItemSteps \cup BackSteps \cup UndoSteps \cup {"begin", "preimage", "prepared"}
  BY DEF EndSteps, SideSteps, ItemSteps, EarlySteps, BackSteps, UndoSteps
<1>3. Placed(g)
  BY <1>1, <1>2, NoneAssumption DEF Placed, Storable
<1>4. LockKnows(g, j)
  <2>1. CoreKnows(g, j)
    BY <1>1, <1>2 DEF CoreKnows
  <2>2. QED
    BY <1>2, <2>1 DEF LockKnows, Storable
<1>5. j.status # "RECOVERY_BLOCKED"
  OBVIOUS
<1>6. UNCHANGED Kept /\ UNCHANGED edits /\ stage' \in [Path -> {"absent", "partial", "B"}] /\ directory' \in BOOLEAN
  BY DEF files, environment, Kept, CoreInv, SharedTyped
<1>7. failed' \in BOOLEAN /\ (failed => failed') /\ mishaps' \in Nat
  BY Undisturbed
<1>8. QED
  BY <1>1, <1>3, <1>4, <1>5, <1>6, <1>7, HolderStep

LEMMA CheckAfterKeeps ==
    ASSUME CoreInv, NEW w \in Process, CheckAfter(w) PROVE CoreInv'
<1>1. Busy(w) /\ held[w].pc = "post" /\ held[w].pc \in EndSteps
  BY DEF CheckAfter, At, EndSteps
<1>2. PICK h : h = held[w]
  OBVIOUS
<1>3. h \in CallRecord /\ h.journal = journal /\ journal.status = "APPLYING" /\ Storable(journal)
  BY <1>1, <1>2, AtEnd
<1>4. PICK g : g = [h EXCEPT !.pc = "publish"]
  OBVIOUS
<1>5. /\ g \in CallRecord /\ g.pc = "publish" /\ g.journal = journal /\ g.at = h.at
      /\ g.projection = h.projection
  BY <1>3, <1>4 DEF CallRecord, Steps_, CoreSteps
<1>6. held' = [held EXCEPT ![w] = g] /\ journal' = journal /\ UNCHANGED <<files, proof, environment>>
  BY <1>2, <1>4 DEF CheckAfter, Look, Goto, CoreInv, CallsTyped
<1>7. "publish" \in EndSteps
  BY DEF EndSteps
<1>8. QED
  BY <1>1, <1>2, <1>3, <1>5, <1>6, <1>7, EndStep

LEMMA PublishKeeps ==
    ASSUME CoreInv, NEW w \in Process, Publish(w) PROVE CoreInv'
<1>1. Busy(w) /\ held[w].pc = "publish" /\ held[w].pc \in EndSteps
  BY DEF Publish, At, EndSteps
<1>2. PICK h : h = held[w]
  OBVIOUS
<1>3. /\ h \in CallRecord /\ h.at \in Nat /\ h.at > 0 /\ h.journal = journal
      /\ journal.status = "APPLYING" /\ journal \in Journal /\ InLock(h) /\ AllAfter /\ JournalOK(journal)
  BY <1>1, <1>2, AtEnd
<1>4. PICK g : g = [h EXCEPT !.pc = "published"]
  OBVIOUS
<1>5. /\ g \in CallRecord /\ g.pc = "published" /\ g.journal = journal /\ g.at = h.at
      /\ g.projection = h.projection
  BY <1>3, <1>4 DEF CallRecord, Steps_, CoreSteps
<1>6. held' = [held EXCEPT ![w] = g] /\ snapshot' = TRUE
      /\ UNCHANGED <<directory, stage, journal, proof, environment>> /\ UNCHANGED Still
  BY <1>2, <1>4 DEF Publish, Goto, CoreInv, CallsTyped, Still, environment
<1>7. Placed(g) /\ InLock(g)
  BY <1>3, <1>5, NoneAssumption DEF Placed, InLock, CoreSteps, SideSteps, ItemSteps, EarlySteps, BackSteps
<1>8. LockKnows(g, journal)'
  <2>1. AllAfter' /\ (\A j : JournalOK(j) => JournalOK(j)')
    BY <1>3, <1>6, StillFacts DEF environment
  <2>2. PICK j : j = journal
    OBVIOUS
  <2>3. JournalOK(j)' /\ g.journal = j /\ journal' = j
    BY <1>3, <1>5, <1>6, <2>1, <2>2
  <2>4. JournalOK(g.journal)'
    BY <2>3
  <2>5. CoreKnows(g, journal)'
    BY <1>3, <1>5, <1>6, <2>1 DEF CoreKnows, EndSteps, ItemSteps, EarlySteps
  <2>6. QED
    BY <1>5, <2>4, <2>5 DEF LockKnows, UndoSteps
<1>9. QED
  BY <1>1, <1>2, <1>3, <1>5, <1>6, <1>7, <1>8, SnapshotStep

LEMMA CommitKeeps ==
    ASSUME CoreInv, NEW w \in Process, RecordSnapshot(w) \/ Commit(w) PROVE CoreInv'
<1>1. Busy(w) /\ held[w].pc \in {"published", "commit"} /\ held[w].pc \in EndSteps
  BY DEF RecordSnapshot, Commit, At, EndSteps
<1>2. PICK h : h = held[w]
  OBVIOUS
<1>3. /\ h \in CallRecord /\ h.journal = journal /\ journal.status = "APPLYING"
      /\ journal \in Journal /\ AllAfter /\ JournalOK(journal)
      /\ h.pc = "commit" => journal.published
  BY <1>1, <1>2, AtEnd
<1>4. PICK j, pc : \/ /\ RecordSnapshot(w) /\ pc = "commit"
                      /\ j = [h.journal EXCEPT !.published = TRUE]
                   \/ Commit(w) /\ pc = "readback" /\ j = [h.journal EXCEPT !.status = "COMMITTED"]
  OBVIOUS
<1>5. /\ j \in Journal /\ j.entry = journal.entry /\ j.staged = journal.staged /\ j.published
      /\ pc = "commit" => j.status = "APPLYING"
      /\ pc = "readback" => j.status = "COMMITTED"
      /\ pc \in {"commit", "readback"}
  <2>1. CASE RecordSnapshot(w) /\ pc = "commit" /\ j = [h.journal EXCEPT !.published = TRUE]
    BY <1>3, <2>1 DEF Journal
  <2>2. CASE Commit(w) /\ pc = "readback" /\ j = [h.journal EXCEPT !.status = "COMMITTED"]
    BY <1>2, <1>3, <2>2 DEF Journal, Status, Commit, At
  <2>3. QED
    BY <1>4, <2>1, <2>2
<1>6. Storable(j)
  <2>1. JournalOK(j)
    BY <1>3, <1>5, SameEntries
  <2>2. QED
    BY <1>3, <1>5, <2>1 DEF Storable
<1>7. PICK g : g = [h EXCEPT !.journal = j, !.pc = pc]
  OBVIOUS
<1>8. g \in CallRecord /\ g.pc = pc /\ g.journal = j /\ g.at = h.at /\ g.projection = h.projection
  BY <1>3, <1>5, <1>7 DEF CallRecord, Steps_, CoreSteps
<1>9. Save(w, j, pc)
  BY <1>2, <1>4 DEF RecordSnapshot, Commit
<1>10. held' = [held EXCEPT ![w] = g] /\ journal' = j /\ UNCHANGED <<files, proof, environment>>
  BY <1>2, <1>7, <1>9 DEF Save, CoreInv, CallsTyped
<1>11. pc \in EndSteps
  BY <1>5 DEF EndSteps
<1>12. QED
  BY <1>1, <1>2, <1>5, <1>6, <1>8, <1>10, <1>11, EndStep

LEMMA ReadBackKeeps ==
    ASSUME CoreInv, NEW w \in Process, ReadBack(w) PROVE CoreInv'
<1>1. Busy(w) /\ held[w].pc = "readback" /\ held[w].pc \in EndSteps
  BY DEF ReadBack, At, EndSteps
<1>2. PICK h : h = held[w]
  OBVIOUS
<1>3. /\ h \in CallRecord /\ h.at \in Nat /\ h.at > 0 /\ InLock(h) /\ Storable(journal)
      /\ journal.status = "COMMITTED"
  BY <1>1, <1>2, AtEnd
<1>4. PICK g : g = [h EXCEPT !.pc = "project"]
  OBVIOUS
<1>5. /\ g \in CallRecord /\ g.pc = "project" /\ g.at = h.at /\ g.projection = h.projection
  BY <1>3, <1>4 DEF CallRecord, Steps_, OuterSteps
<1>6. held' = [held EXCEPT ![w] = g] /\ journal' = journal /\ UNCHANGED <<files, proof, environment>>
  BY <1>2, <1>4 DEF ReadBack, Look, Goto, CoreInv, CallsTyped
<1>7. Placed(g) /\ ~InLock(g)
  BY <1>3, <1>5 DEF Placed, InLock, CoreSteps, UndoSteps, SideSteps, ItemSteps, EarlySteps, BackSteps
<1>8. UNCHANGED Kept /\ UNCHANGED edits /\ stage' \in [Path -> {"absent", "partial", "B"}] /\ directory' \in BOOLEAN
  BY <1>6 DEF files, environment, Kept, CoreInv, SharedTyped
<1>9. failed' \in BOOLEAN /\ (failed => failed') /\ mishaps' \in Nat
  BY <1>6, Undisturbed
<1>10. QED
  BY <1>1, <1>2, <1>3, <1>5, <1>6, <1>7, <1>8, <1>9, HolderStep

\* The call that holds the lock returns.
LEMMA HolderReturns ==
    ASSUME CoreInv, NEW w \in Process, Busy(w), InLock(held[w]), Return(w),
           NEW j, Storable(j), journal' = j, j.status = "RECOVERY_BLOCKED" => ~Clean',
           UNCHANGED Kept, UNCHANGED proof, UNCHANGED edits,
           stage' \in [Path -> {"absent", "partial", "B"}], directory' \in BOOLEAN,
           failed' \in BOOLEAN, failed => failed', mishaps' \in Nat
    PROVE  CoreInv'
<1>1. \A v \in Process : v # w /\ Busy(v) => ~InLock(held[v])
  BY HolderFacts
<1>2. j \in Journal /\ j # None
  BY NoneAssumption DEF Storable
<1>3. SharedTyped' /\ projection' = projection
  BY <1>2 DEF CoreInv, SharedTyped, Kept, proof
<1>4. TargetOK' /\ Fresh' /\ DiskOK' /\ SourceSurvives'
  BY <1>2, SavedDisk DEF Storable
<1>5. PICK g : g = Idle
  OBVIOUS
<1>6. held' = [held EXCEPT ![w] = g]
  BY <1>5 DEF Return
<1>7. QED
  BY <1>1, <1>3, <1>4, <1>5, <1>6, AloneStep

LEMMA NewJournalFacts ==
    ASSUME CoreInv, AllBefore, NEW j, j = NewJournal
    PROVE  Storable(j) /\ j.status = "PLANNED"
<1>1. j \in Journal /\ j.status = "PLANNED"
  BY DEF NewJournal, Journal, Status, EntryState
<1>2. plan \in Plans
  BY DEF CoreInv, SharedTyped
<1>3. PendingOK(j)
  <2>1. Before(Profile) = "A" \/ plan[Profile] # "REPLACE"
    BY DEF Before
  <2>2. QED
    BY <2>1, ItemFacts DEF PendingOK, AllBefore
<1>4. ProvenOK(j)
  BY <1>2, PlanFacts DEF ProvenOK, AllBefore, Clean, Ours
<1>5. QED
  BY <1>1, <1>3, <1>4 DEF Storable, JournalOK

LEMMA FailKeeps ==
    ASSUME CoreInv, NEW w \in Process, Fail(w) PROVE CoreInv'
<1>1. Busy(w) /\ held[w].pc \in CoreSteps /\ InLock(held[w])
  BY DEF Fail, InLock
<1>2. PICK h : h = held[w]
  OBVIOUS
<1>3. h \in CallRecord /\ h.journal \in Journal /\ JournalOK(h.journal)
  BY <1>1, <1>2, HolderFacts DEF LockKnows
<1>4. PICK j : j = [h.journal EXCEPT !.status = "RECOVERY_REQUIRED"]
  OBVIOUS
<1>5. Storable(j) /\ j.status = "RECOVERY_REQUIRED"
  <2>1. /\ j \in Journal /\ j.status = "RECOVERY_REQUIRED" /\ j.entry = h.journal.entry
        /\ j.staged = h.journal.staged
    BY <1>3, <1>4 DEF Journal, Status
  <2>2. JournalOK(j)
    BY <1>3, <2>1, SameEntries
  <2>3. QED
    BY <2>1, <2>2 DEF Storable
<1>6. PICK g : g = [h EXCEPT !.journal = j, !.pc = "recover", !.at = Len(Items), !.after = "return"]
  OBVIOUS
<1>7. /\ g \in CallRecord /\ g.pc = "recover" /\ g.at = Len(Items) /\ g.journal = j
      /\ g.projection = h.projection
  BY <1>3, <1>5, <1>6, ItemFacts DEF CallRecord, Steps_, UndoSteps, Storable, Afters
<1>8. held' = [held EXCEPT ![w] = g] /\ journal' = j
      /\ UNCHANGED <<files, proof, plan, touched, edits>>
  BY <1>2, <1>4, <1>6 DEF Fail, CoreInv, CallsTyped
<1>9. failed' \in BOOLEAN /\ (failed => failed') /\ mishaps' \in Nat
  <2>1. failed \in BOOLEAN /\ mishaps \in Nat
    BY DEF CoreInv, SharedTyped
  <2>2. CASE UNCHANGED <<failed, mishaps>>
    BY <2>1, <2>2
  <2>3. CASE Mishap /\ failed' = TRUE
    BY <2>1, <2>3 DEF Mishap
  <2>4. QED
    BY <2>2, <2>3 DEF Fail
<1>10. Placed(g) /\ j.status # "RECOVERY_BLOCKED"
  BY <1>5, <1>7, NoneAssumption, ItemFacts
  DEF Placed, Storable, SideSteps, ItemSteps, EarlySteps, BackSteps
<1>11. LockKnows(g, j)
  BY <1>5, <1>7 DEF LockKnows, Storable, CoreSteps, UndoKnows, UndoRest, BackSteps, LastSteps
<1>12. UNCHANGED Kept /\ stage' \in [Path -> {"absent", "partial", "B"}] /\ directory' \in BOOLEAN
  BY <1>8 DEF files, Kept, CoreInv, SharedTyped
<1>13. QED
  BY <1>1, <1>2, <1>5, <1>7, <1>8, <1>9, <1>10, <1>11, <1>12, HolderStep

LEMMA EnterCoreKeeps ==
    ASSUME CoreInv, NEW w \in Process, EnterCore(w) PROVE CoreInv'
<1>1. /\ Busy(w) /\ held[w].pc = "rollback" /\ UNCHANGED <<files, journal, proof, environment>>
      /\ \A v \in Process : v # w /\ Busy(v) => ~InLock(held[v])
  BY DEF EnterCore, At, Locked, InLock
<1>2. PICK h : h = held[w]
  OBVIOUS
<1>3. /\ h \in CallRecord /\ h.at \in Nat /\ h.at > 0 /\ h.projection \in Projection
      /\ held[w].pc \in OuterSteps \cup ProjectionSteps
  BY <1>1, <1>2, OutsideFacts DEF OuterSteps
<1>4. CASE journal = None
  BY <1>1, <1>3, <1>4, ReturnKeeps DEF EnterCore, proof
<1>5. CASE journal # None
  <2>1. PICK j : j = journal
    OBVIOUS
  <2>2. Storable(j)
    BY <1>5, <2>1, StorableNow
  <2>3. PICK g : g = [h EXCEPT !.journal = journal, !.pc = "recover"]
    OBVIOUS
  <2>4. held' = [held EXCEPT ![w] = g] /\ journal' = j
    BY <1>1, <1>2, <1>5, <2>1, <2>3 DEF EnterCore, CoreInv, CallsTyped
  <2>5. /\ g \in CallRecord /\ g.pc = "recover" /\ g.at = h.at /\ g.journal = j
        /\ g.projection = h.projection
    BY <1>3, <2>1, <2>2, <2>3 DEF CallRecord, Steps_, UndoSteps, Storable
  <2>6. Placed(g)
    BY <1>3, <1>5, <2>1, <2>5 DEF Placed, SideSteps, ItemSteps, EarlySteps, BackSteps
  <2>7. LockKnows(g, j)
    BY <2>2, <2>5 DEF LockKnows, Storable, CoreSteps, UndoKnows, UndoRest, BackSteps, LastSteps
  <2>8. UNCHANGED Kept /\ UNCHANGED edits /\ stage' \in [Path -> {"absent", "partial", "B"}]
        /\ directory' \in BOOLEAN
    BY <1>1 DEF files, environment, Kept, CoreInv, SharedTyped
  <2>9. failed' \in BOOLEAN /\ (failed => failed') /\ mishaps' \in Nat
    BY <1>1, Undisturbed
  <2>10. j.status = "RECOVERY_BLOCKED" => ~Clean'
    BY <1>5, <2>1, <2>8, <2>9, KeptFacts DEF CoreInv, DiskOK
  <2>11. held[w].projection # None
    BY <1>2, <1>3, NoneAssumption
  <2>12. QED
    BY <1>1, <1>2, <2>2, <2>4, <2>5, <2>6, <2>7, <2>8, <2>9, <2>10, <2>11, LockStep
<1>6. QED
  BY <1>4, <1>5

\* A fresh journal is begun under the lock.
LEMMA FreshBegins ==
    ASSUME CoreInv, NEW w \in Process, Busy(w),
           \A v \in Process : v # w /\ Busy(v) => ~InLock(held[v]),
           held[w].projection # None,
           NEW g \in CallRecord, NEW j, Storable(j), j.status = "PLANNED",
           g.pc = "begin", g.at = 1, g.journal = j, g.projection = held[w].projection,
           held' = [held EXCEPT ![w] = g], journal' = j, UNCHANGED <<files, proof, environment>>
    PROVE  CoreInv'
<1>1. Placed(g)
  BY NoneAssumption DEF Placed, Storable, SideSteps, ItemSteps, EarlySteps, BackSteps
<1>2. LockKnows(g, j)
  <2>1. CoreKnows(g, j)
    BY DEF CoreKnows, Storable, ItemSteps, EarlySteps, EndSteps
  <2>2. QED
    BY <2>1 DEF LockKnows, Storable, UndoSteps
<1>3. UNCHANGED Kept /\ UNCHANGED edits /\ stage' \in [Path -> {"absent", "partial", "B"}]
      /\ directory' \in BOOLEAN
  BY DEF files, environment, Kept, CoreInv, SharedTyped
<1>4. failed' \in BOOLEAN /\ (failed => failed') /\ mishaps' \in Nat
  BY Undisturbed
<1>5. j.status # "RECOVERY_BLOCKED"
  OBVIOUS
<1>6. QED
  BY <1>1, <1>2, <1>3, <1>4, <1>5, LockStep

LEMMA OpenKeeps ==
    ASSUME CoreInv, NEW w \in Process, Open(w) PROVE CoreInv'
<1>1. /\ Busy(w) /\ held[w].pc = "open" /\ UNCHANGED <<files, proof, environment>>
      /\ \A v \in Process : v # w /\ Busy(v) => ~InLock(held[v])
  BY DEF Open, At, Locked, InLock
<1>2. PICK h : h = held[w]
  OBVIOUS
<1>3. /\ h \in CallRecord /\ h.at \in Nat /\ h.at > 0 /\ h.projection \in Projection
      /\ held[w].pc \in OuterSteps \cup ProjectionSteps
  BY <1>1, <1>2, OutsideFacts DEF OuterSteps
<1>4. PICK n : n = NewJournal
  OBVIOUS
<1>5. PICK j : j = IF journal = None \/ journal.status = "ROLLED_BACK" THEN n ELSE journal
  OBVIOUS
<1>6. /\ Storable(j) /\ (j.status = "RECOVERY_BLOCKED" => j = journal)
      /\ (j.status = "COMMITTED" => j = journal) /\ j.status # "ROLLED_BACK"
  <2>1. CASE journal = None \/ journal.status = "ROLLED_BACK"
    <3>1. AllBefore
      BY <2>1 DEF CoreInv, Fresh
    <3>2. Storable(j) /\ j.status = "PLANNED"
      BY <1>4, <1>5, <2>1, <3>1, NewJournalFacts
    <3>3. QED
      BY <3>2
  <2>2. CASE ~(journal = None \/ journal.status = "ROLLED_BACK")
    BY <1>5, <2>2, StorableNow
  <2>3. QED
    BY <2>1, <2>2
<1>7. PICK next : next = CASE j.status = "PLANNED"          -> "begin"
                           [] j.status = "COMMITTED"        -> IF IsAfter /\ snapshot THEN "project" ELSE "raise"
                           [] j.status = "RECOVERY_BLOCKED" -> "raise"
                           [] OTHER                         -> "recover"
  OBVIOUS
<1>8. PICK g : g = [h EXCEPT !.journal = j, !.pc = next, !.after = "retry",
                              !.at = IF next = "recover" THEN Len(Items) ELSE 1]
  OBVIOUS
<1>9. journal' = j /\ held' = [held EXCEPT ![w] = IF next = "raise" THEN Idle ELSE g]
  BY <1>2, <1>4, <1>5, <1>7, <1>8 DEF Open
<1>10. \/ next = "begin" /\ j.status = "PLANNED"
       \/ next = "raise" /\ j = journal
       \/ next = "project" /\ j = journal /\ j.status = "COMMITTED"
       \/ next = "recover" /\ j.status \notin {"RECOVERY_BLOCKED", "COMMITTED"}
  BY <1>6, <1>7
<1>11. CASE next = "raise"
  BY <1>1, <1>3, <1>9, <1>10, <1>11, ReturnKeeps DEF proof, Return
<1>12. CASE next # "raise"
  <2>1. /\ g \in CallRecord /\ g.pc = next /\ g.journal = j /\ g.projection = h.projection
        /\ g.at = IF next = "recover" THEN Len(Items) ELSE 1
    BY <1>3, <1>6, <1>8, <1>10, <1>12, ItemFacts
    DEF CallRecord, Steps_, OuterSteps, CoreSteps, UndoSteps, Storable, Afters
  <2>2. held' = [held EXCEPT ![w] = g] /\ held[w].projection # None
    BY <1>2, <1>3, <1>9, <1>12, NoneAssumption
  <2>3. UNCHANGED Kept /\ UNCHANGED edits /\ stage' \in [Path -> {"absent", "partial", "B"}]
        /\ directory' \in BOOLEAN
    BY <1>1 DEF files, environment, Kept, CoreInv, SharedTyped
  <2>4. failed' \in BOOLEAN /\ (failed => failed') /\ mishaps' \in Nat
    BY <1>1, Undisturbed
  <2>5. CASE next = "begin"
    BY <1>1, <1>2, <1>6, <1>9, <1>10, <2>1, <2>2, <2>5, FreshBegins
  <2>6. CASE next # "begin"
    <3>1. g.pc \in {"project", "recover"} /\ j.status # "RECOVERY_BLOCKED"
      BY <1>10, <1>12, <2>1, <2>6
    <3>2. Placed(g)
      BY <1>6, <2>1, <3>1, ItemFacts, NoneAssumption
      DEF Placed, SideSteps, ItemSteps, EarlySteps, BackSteps, Storable
    <3>3. InLock(g) => LockKnows(g, j)
      BY <1>6, <2>1, <3>1
      DEF InLock, LockKnows, Storable, CoreSteps, UndoSteps, UndoKnows, UndoRest, BackSteps, LastSteps
    <3>4. QED
      BY <1>1, <1>2, <1>6, <1>9, <2>1, <2>2, <2>3, <2>4, <3>1, <3>2, <3>3, LockStep
  <2>7. QED
    BY <2>5, <2>6
<1>13. QED
  BY <1>11, <1>12

-----------------------------------------------------------------------------
(* The recovery.                                                             *)
\* What a call knows while it undoes.
LEMMA AtUndo ==
    ASSUME CoreInv, NEW w \in Process, Busy(w), held[w].pc \in UndoSteps, NEW h, h = held[w]
    PROVE  /\ InLock(h) /\ h \in CallRecord /\ h.at \in Nat /\ h.at > 0
           /\ h.journal \in Journal /\ JournalOK(h.journal) /\ h.blocked \subseteq Path
           /\ journal \in Journal /\ Storable(journal) /\ UndoKnows(h, journal)
           /\ h.projection \in Projection /\ h.after \in Afters
           /\ h.pc \in BackSteps => h.at \in DOMAIN Items
           /\ journal.status = "RECOVERY_BLOCKED" => ~Clean
           /\ plan \in Plans
<1>1. InLock(h) /\ h.pc \in UndoSteps /\ h.pc \notin {"preimage", "prepared"}
  BY DEF InLock, UndoSteps
<1>2. /\ h \in CallRecord /\ CallTyped(h) /\ LockKnows(h, journal) /\ h.at \in Nat
      /\ journal \in Journal /\ h.journal \in Journal /\ h.blocked \subseteq Path
      /\ h.projection \in Projection \cup {None}
  BY <1>1, HolderFacts
<1>3. JournalOK(h.journal) /\ UndoKnows(h, journal)
  BY <1>1, <1>2 DEF LockKnows
<1>4. h.at > 0 /\ h.projection # None /\ journal # None /\ (h.pc \in BackSteps => h.at \in DOMAIN Items)
  BY <1>1, <1>2 DEF CallTyped
<1>5. Storable(journal) /\ (journal.status = "RECOVERY_BLOCKED" => ~Clean) /\ plan \in Plans
  BY <1>4, StorableNow DEF CoreInv, DiskOK, SharedTyped
<1>6. h.after \in Afters
  BY <1>2 DEF CallRecord
<1>7. QED
  BY <1>1, <1>2, <1>3, <1>4, <1>5, <1>6

LEMMA RetractionKeeps ==
    ASSUME CoreInv, NEW w \in Process, RetractSnapshot(w),
           held[w].journal.status # "COMMITTED" \/ held[w].undo
    PROVE  CoreInv'
<1>1. Busy(w) /\ held[w].pc = "recover" /\ held[w].pc \in UndoSteps
  BY DEF RetractSnapshot, At, UndoSteps
<1>2. PICK h : h = held[w]
  OBVIOUS
<1>3. /\ h \in CallRecord /\ h.journal = journal /\ journal \in Journal /\ InLock(h)
      /\ JournalOK(journal) /\ Storable(journal)
  BY <1>1, <1>2, AtUndo DEF UndoKnows, UndoRest
<1>4. PICK g : g = [h EXCEPT !.pc = "undo", !.at = Len(Items), !.blocked = {}]
  OBVIOUS
<1>5. /\ g \in CallRecord /\ g.pc = "undo" /\ g.at = Len(Items) /\ g.blocked = {}
      /\ g.journal = journal /\ g.projection = h.projection
  BY <1>3, <1>4, ItemFacts DEF CallRecord, Steps_, UndoSteps
<1>6. /\ held' = [held EXCEPT ![w] = g] /\ snapshot' = (snapshot /\ ~journal.published)
      /\ UNCHANGED <<directory, stage, journal, proof, environment>> /\ UNCHANGED Still
  BY <1>2, <1>3, <1>4 DEF RetractSnapshot, CoreInv, CallsTyped, Still, environment
<1>7. snapshot' \in BOOLEAN /\ (journal.status = "COMMITTED" => ~snapshot')
  BY <1>3, <1>6 DEF Storable
<1>8. Placed(g) /\ InLock(g)
  BY <1>3, <1>5, ItemFacts, NoneAssumption
  DEF Placed, InLock, UndoSteps, SideSteps, ItemSteps, EarlySteps, BackSteps
<1>9. LockKnows(g, journal)'
  <2>1. \A j : JournalOK(j) => JournalOK(j)'
    BY <1>6, StillFacts DEF environment
  <2>2. PICK j : j = journal
    OBVIOUS
  <2>3. JournalOK(j)' /\ g.journal = j
    BY <1>3, <1>5, <2>1, <2>2
  <2>4. JournalOK(g.journal)'
    BY <2>3
  <2>5. UndoKnows(g, journal)'
    BY <1>5, <1>6, <1>7, ItemFacts DEF UndoKnows, UndoRest, BackSteps, LastSteps
  <2>6. QED
    BY <1>5, <2>4, <2>5 DEF LockKnows, CoreSteps
<1>10. QED
  BY <1>1, <1>2, <1>3, <1>5, <1>6, <1>7, <1>8, <1>9, SnapshotStep

\* What only verifies a commit returns and changes nothing.
LEMMA VerifiedKeeps ==
    ASSUME CoreInv, NEW w \in Process, RetractSnapshot(w),
           held[w].journal.status = "COMMITTED", ~held[w].undo
    PROVE  CoreInv'
<1>1. Busy(w) /\ held[w].pc = "recover" /\ held[w].pc \in UndoSteps
  BY DEF RetractSnapshot, At, UndoSteps
<1>2. PICK h, j : h = held[w] /\ j = journal
  OBVIOUS
<1>3. h.journal = j /\ j \in Journal /\ InLock(h) /\ Storable(j) /\ j.status = "COMMITTED"
  BY <1>1, <1>2, AtUndo DEF UndoKnows, UndoRest
<1>4. Return(w) /\ snapshot' = snapshot
  BY DEF RetractSnapshot
<1>5. /\ journal' = j /\ UNCHANGED Kept /\ UNCHANGED proof /\ UNCHANGED edits
      /\ UNCHANGED <<stage, directory, failed, mishaps>>
  BY <1>2, <1>4 DEF RetractSnapshot, Kept, environment
<1>6. /\ stage' \in [Path -> {"absent", "partial", "B"}] /\ directory' \in BOOLEAN
      /\ failed' \in BOOLEAN /\ (failed => failed') /\ mishaps' \in Nat
      /\ j.status # "RECOVERY_BLOCKED"
  BY <1>3, <1>5 DEF CoreInv, SharedTyped
<1>7. Busy(w) /\ InLock(held[w])
  BY <1>1, <1>2, <1>3
<1>8. QED
  BY <1>3, <1>4, <1>5, <1>6, <1>7, HolderReturns

LEMMA RetractSnapshotKeeps ==
    ASSUME CoreInv, NEW w \in Process, RetractSnapshot(w) PROVE CoreInv'
  BY RetractionKeeps, VerifiedKeeps

\* A step of the recovery that leaves the files of the consumer alone.
LEMMA UndoStep ==
    ASSUME CoreInv, NEW w \in Process, Busy(w), held[w].pc \in UndoSteps,
           NEW g \in CallRecord, held' = [held EXCEPT ![w] = g], journal' = journal,
           g.pc \in UndoSteps \ {"recover"}, g.at > 0, g.pc \in BackSteps => g.at \in DOMAIN Items,
           g.projection = held[w].projection,
           g.journal \in Journal, JournalOK(g.journal), UndoRest(g, journal),
           Clean' => g.blocked = {},
           UNCHANGED Kept, UNCHANGED proof, UNCHANGED edits,
           stage' \in [Path -> {"absent", "partial", "B"}], directory' \in BOOLEAN,
           failed' \in BOOLEAN, failed => failed', mishaps' \in Nat
    PROVE  CoreInv'
<1>1. PICK h, j : h = held[w] /\ j = journal
  OBVIOUS
<1>2. InLock(h) /\ h.projection \in Projection /\ j \in Journal
  BY <1>1, AtUndo
<1>3. /\ g.pc \notin SideSteps \cup ItemSteps \cup CoreSteps \cup {"begin", "preimage", "prepared"}
      /\ InLock(g)
  BY DEF UndoSteps, SideSteps, ItemSteps, EarlySteps, CoreSteps, InLock
<1>4. LockKnows(g, j)'
  <2>1. JournalOK(g.journal)'
    <3>1. PICK i : i = g.journal
      OBVIOUS
    <3>2. JournalOK(i)'
      BY <3>1, KeptFacts
    <3>3. QED
      BY <3>1, <3>2
  <2>2. UndoRest(g, j)'
    BY <1>1, RestStays
  <2>3. UndoKnows(g, j)'
    BY <2>2 DEF UndoKnows, UndoRest
  <2>4. QED
    BY <1>3, <2>1, <2>3 DEF LockKnows
<1>5. \A v \in Process : v # w /\ Busy(v) => ~InLock(held[v])
  BY <1>1, <1>2, HolderFacts
<1>6. SharedTyped' /\ projection' = projection
  BY <1>1, <1>2 DEF CoreInv, SharedTyped, Kept, proof
<1>7. TargetOK' /\ Fresh' /\ DiskOK' /\ SourceSurvives'
  BY DiskStays
<1>8. CallTyped(g)'
  <2>1. CallTyped(held[w])
    BY <1>1, <1>2, HolderFacts
  <2>2. h.projection # None /\ journal # None /\ g.journal # None /\ g.projection = h.projection
    BY <1>1, <1>2, NoneAssumption
  <2>3. projection # None
    BY <1>1, <2>1, <2>2 DEF CallTyped
  <2>4. QED
    BY <1>3, <1>6, <2>2, <2>3 DEF CallTyped, InLock
<1>9. LockKnows(g, journal)'
  BY <1>1, <1>4
<1>10. QED
  BY <1>3, <1>5, <1>6, <1>7, <1>8, <1>9, AloneStep

\* One item of the plan is undone.
LEMMA LowerFacts ==
    ASSUME NEW h, NEW j, UndoRest(h, j), h.pc \in BackSteps, h.at \in DOMAIN Items,
           NEW k \in CallRecord, k.at = h.at, h.blocked \subseteq k.blocked, Back(k, Items[h.at]),
           j.status = "COMMITTED" => ~snapshot, NEW g, g = Lower(k)
    PROVE  /\ g \in CallRecord /\ g.pc \in {"undo", "rmdir"} /\ g.at > 0
           /\ g.at \in DOMAIN Items
           /\ g.journal = k.journal /\ g.projection = k.projection /\ g.blocked = k.blocked
           /\ UndoRest(g, j)
<1>1. \A i \in DOMAIN Items : i > h.at => Back(h, Items[i])
  BY DEF UndoRest
<1>2. \A i \in DOMAIN Items : i > h.at \/ i = h.at => Back(k, Items[i])
  BY <1>1 DEF Back
<1>3. h.at \in Nat /\ h.at > 0
  BY ItemFacts
<1>4. CASE k.at = 1
  <2>1. g = [k EXCEPT !.pc = "rmdir"]
    BY <1>4 DEF Lower
  <2>2. /\ g \in CallRecord /\ g.pc = "rmdir" /\ g.at = h.at /\ g.journal = k.journal
        /\ g.projection = k.projection /\ g.blocked = k.blocked
    BY <2>1 DEF CallRecord, Steps_, UndoSteps
  <2>3. \A q \in Path : Back(g, q)
    <3> SUFFICES ASSUME NEW q \in Path PROVE Back(g, q)
      OBVIOUS
    <3>1. PICK i \in DOMAIN Items : q = Items[i]
      BY ItemFacts
    <3>2. i > h.at \/ i = h.at
      BY <1>4, ItemFacts
    <3>3. QED
      BY <1>2, <2>2, <3>1, <3>2 DEF Back
  <2>4. UndoRest(g, j)
    BY <2>2, <2>3 DEF UndoRest, BackSteps, LastSteps
  <2>5. QED
    BY <1>3, <2>2, <2>4
<1>5. CASE k.at # 1
  <2>1. g = [k EXCEPT !.pc = "undo", !.at = @ - 1]
    BY <1>5 DEF Lower
  <2>2. k.at - 1 \in Nat /\ k.at - 1 > 0 /\ k.at - 1 \in DOMAIN Items
    BY <1>3, <1>5, ItemFacts
  <2>3. /\ g \in CallRecord /\ g.pc = "undo" /\ g.at = h.at - 1 /\ g.journal = k.journal
        /\ g.projection = k.projection /\ g.blocked = k.blocked
    BY <2>1, <2>2 DEF CallRecord, Steps_, UndoSteps
  <2>4. ASSUME NEW i \in DOMAIN Items, i > g.at PROVE Back(g, Items[i])
    <3>1. i > h.at \/ i = h.at
      BY <1>3, <2>3, <2>4, ItemFacts
    <3>2. QED
      BY <1>2, <2>3, <3>1 DEF Back
  <2>5. UndoRest(g, j)
    BY <2>3, <2>4 DEF UndoRest, LastSteps
  <2>6. QED
    BY <2>2, <2>3, <2>5
<1>6. QED
  BY <1>4, <1>5

\* What the journal says of an item that is undone.
LEMMA UndoneFacts ==
    ASSUME NEW h \in CallRecord, h.journal \in Journal, NEW p \in Path, plan \in Plans,
           JournalOK(h.journal), Back(h, p), Clean => h.blocked = {},
           NEW k, k = Recorded(h, p)
    PROVE  /\ k \in CallRecord /\ k.at = h.at /\ k.blocked = h.blocked /\ k.projection = h.projection
           /\ k.journal \in Journal /\ JournalOK(k.journal)
<1>1. CASE p \in h.blocked
  BY <1>1 DEF Recorded
<1>2. CASE p \notin h.blocked
  <2>1. PICK j : j = [h.journal EXCEPT !.entry[p] = "ROLLED_BACK", !.staged = @ \ {p}]
    OBVIOUS
  <2>2. k = [h EXCEPT !.journal = j]
    BY <1>2, <2>1 DEF Recorded
  <2>3. /\ j \in Journal /\ j.entry = [h.journal.entry EXCEPT ![p] = "ROLLED_BACK"]
        /\ j.staged = h.journal.staged \ {p}
    BY <2>1 DEF Journal, EntryState
  <2>4. /\ k \in CallRecord /\ k.at = h.at /\ k.blocked = h.blocked /\ k.projection = h.projection
        /\ k.journal = j
    BY <2>2, <2>3 DEF CallRecord
  <2>5. \A q \in Path : j.entry[q] = IF q = p THEN "ROLLED_BACK" ELSE h.journal.entry[q]
    BY <2>3 DEF Journal
  <2>6. Ours(p) => target[p] = Before(p)
    BY <1>2 DEF Back
  <2>7. Before(p) \in {"absent", "A"} /\ (plan[p] = "REPLACE" => Before(p) = "A")
    BY PlanFacts
  <2>8. PendingOK(j)
    BY <2>5, <2>6, <2>7, ItemFacts DEF JournalOK, PendingOK
  <2>9. ProvenOK(j)
    BY <2>3, <2>5, <2>6, <2>7 DEF JournalOK, ProvenOK, Clean, Ours
  <2>10. QED
    BY <2>3, <2>4, <2>8, <2>9 DEF JournalOK
<1>3. QED
  BY <1>1, <1>2

\* A call that goes on to the next item, and writes no file but staging files.
LEMMA LowerKeeps ==
    ASSUME CoreInv, NEW w \in Process, Busy(w), held[w].pc \in BackSteps,
           NEW k \in CallRecord, k.at = held[w].at, held[w].blocked \subseteq k.blocked,
           k.projection = held[w].projection, k.journal \in Journal, JournalOK(k.journal),
           Back(k, Here(w)), Clean' => k.blocked = {}, held' = [held EXCEPT ![w] = Lower(k)],
           UNCHANGED <<files, journal, proof, plan, touched, edits>>,
           failed' \in BOOLEAN, failed => failed', mishaps' \in Nat
    PROVE  CoreInv'
<1>1. PICK h : h = held[w]
  OBVIOUS
<1>2. PICK g : g = Lower(k)
  OBVIOUS
<1>3. PICK j : j = journal
  OBVIOUS
<1>4. held[w].pc \in UndoSteps
  BY DEF BackSteps, UndoSteps
<1>5. UndoRest(h, j) /\ h.at \in DOMAIN Items
  BY <1>1, <1>3, <1>4, AtUndo DEF UndoKnows
<1>6. j.status = "COMMITTED" => ~snapshot
  BY <1>1, <1>5 DEF UndoRest, BackSteps
<1>7. Back(k, Items[h.at])
  BY <1>1 DEF Here
<1>8. /\ g \in CallRecord /\ g.pc \in {"undo", "rmdir"} /\ g.at > 0 /\ g.at \in DOMAIN Items
      /\ g.journal = k.journal /\ g.projection = k.projection /\ UndoRest(g, j)
      /\ g.blocked = k.blocked
  BY <1>1, <1>2, <1>5, <1>6, <1>7, LowerFacts
<1>9. held' = [held EXCEPT ![w] = g]
  BY <1>2
<1>10. g.pc \in UndoSteps \ {"recover"}
  BY <1>8 DEF UndoSteps
<1>11. /\ UNCHANGED Kept /\ UNCHANGED edits /\ stage' \in [Path -> {"absent", "partial", "B"}]
       /\ directory' \in BOOLEAN /\ UNCHANGED journal /\ UNCHANGED proof
  BY DEF files, Kept, CoreInv, SharedTyped
<1>12. JournalOK(g.journal) /\ g.journal \in Journal /\ (Clean' => g.blocked = {})
  BY <1>8
<1>13. QED
  BY <1>3, <1>4, <1>8, <1>9, <1>10, <1>11, <1>12, UndoStep

\* What a recovery knows of the item it looks at.
LEMMA AtBack ==
    ASSUME CoreInv, NEW w \in Process, Busy(w), held[w].pc \in BackSteps,
           NEW h, h = held[w], NEW p, p = Here(w)
    PROVE  /\ InLock(h) /\ h \in CallRecord /\ h.at \in DOMAIN Items /\ p = Items[h.at] /\ p \in Path
           /\ h.journal \in Journal /\ JournalOK(h.journal) /\ h.blocked \subseteq Path
           /\ Clean => h.blocked = {}
           /\ journal.status = "COMMITTED" => ~snapshot
           /\ UndoKnows(h, journal) /\ journal \in Journal /\ Storable(journal)
           /\ plan \in Plans /\ h.projection \in Projection /\ h.pc \in UndoSteps
           /\ h.pc = "clear" => Back(h, p)
           /\ Ours(p) => target[p] \in {Before(p), After(p)} \/ (Removes(p) /\ target[p] = "absent")
           /\ journal.status = "RECOVERY_BLOCKED" => ~Clean
<1>1. h.pc \in UndoSteps /\ h.pc # "recover"
  BY DEF BackSteps, UndoSteps
<1>2. /\ InLock(h) /\ h \in CallRecord /\ h.journal \in Journal /\ JournalOK(h.journal)
      /\ h.blocked \subseteq Path /\ UndoKnows(h, journal) /\ journal \in Journal
      /\ Storable(journal) /\ plan \in Plans /\ h.projection \in Projection
      /\ h.at \in DOMAIN Items /\ (journal.status = "RECOVERY_BLOCKED" => ~Clean)
  BY <1>1, AtUndo
<1>3. p = Items[h.at] /\ p \in Path
  BY <1>2, ItemFacts DEF Here
<1>4. (Clean => h.blocked = {}) /\ (journal.status = "COMMITTED" => ~snapshot)
  BY <1>1, <1>2 DEF UndoKnows, UndoRest
<1>5. h.pc = "clear" => Back(h, p)
  BY <1>2, <1>3 DEF UndoKnows, UndoRest, BackSteps
<1>6. Ours(p) => target[p] \in {Before(p), After(p)} \/ (Removes(p) /\ target[p] = "absent")
  BY <1>3 DEF CoreInv, TargetOK
<1>7. QED
  BY <1>1, <1>2, <1>3, <1>4, <1>5, <1>6

LEMMA QuietClean ==
    ASSUME CoreInv, UNCHANGED environment
    PROVE  /\ failed' \in BOOLEAN /\ (failed => failed') /\ mishaps' \in Nat
           /\ UNCHANGED <<plan, touched, edits>> /\ (Clean' => Clean)
<1>1. failed' = failed /\ touched' = touched
  BY DEF environment
<1>2. Clean' => Clean
  BY <1>1 DEF Clean
<1>3. QED
  BY <1>2, Undisturbed

LEMMA BlockedFacts ==
    ASSUME NEW h \in CallRecord, NEW p \in Path, NEW k, k = Blocked(h, p)
    PROVE  /\ k \in CallRecord /\ k.at = h.at /\ k.journal = h.journal /\ k.pc = h.pc
           /\ k.projection = h.projection /\ k.blocked = h.blocked \cup {p} /\ Back(k, p)
  BY DEF Blocked, CallRecord, Back

LEMMA UndoKeptKeeps ==
    ASSUME CoreInv, NEW w \in Process, UndoKept(w) PROVE CoreInv'
<1>1. /\ Busy(w) /\ held[w].pc = "undo" /\ held[w].pc \in BackSteps
      /\ UNCHANGED <<files, journal, proof, environment>>
  BY DEF UndoKept, At, BackSteps
<1>2. PICK h, p : h = held[w] /\ p = Here(w)
  OBVIOUS
<1>3. /\ h \in CallRecord /\ p \in Path /\ h.journal \in Journal /\ JournalOK(h.journal)
      /\ plan \in Plans /\ (Clean => h.blocked = {})
      /\ Ours(p) => target[p] \in {Before(p), After(p)} \/ (Removes(p) /\ target[p] = "absent")
  BY <1>1, <1>2, AtBack
<1>4. plan[p] = "KEEP" /\ Before(p) = "A" /\ After(p) = "A" /\ ~Removes(p)
  BY <1>2, <1>3, PlanFacts DEF UndoKept
<1>5. Ours(p) => target[p] = "A"
  BY <1>3, <1>4
<1>6. PICK b : b = Blocked(h, p)
  OBVIOUS
<1>7. PICK seen : seen = IF target[p] = "A" THEN h ELSE b
  OBVIOUS
<1>8. /\ seen \in CallRecord /\ seen.at = h.at /\ seen.journal = h.journal
      /\ seen.projection = h.projection /\ h.blocked \subseteq seen.blocked
      /\ Back(seen, p) /\ (Clean => seen.blocked = {})
  <2>1. CASE target[p] = "A"
    BY <1>3, <1>4, <1>7, <2>1 DEF Back
  <2>2. CASE target[p] # "A"
    <3>1. ~Clean
      BY <1>5, <2>2 DEF Clean, Ours
    <3>2. QED
      BY <1>3, <1>6, <1>7, <2>2, <3>1, BlockedFacts
  <2>3. QED
    BY <2>1, <2>2
<1>9. (Clean' => Clean) /\ UNCHANGED <<plan, touched, edits>> /\ failed' \in BOOLEAN
      /\ (failed => failed') /\ mishaps' \in Nat
  BY <1>1, QuietClean
<1>10. CASE p = Profile /\ h.journal.entry[p] # "UNCHANGED"
  <2>1. held' = [held EXCEPT ![w] = Lower(h)]
    BY <1>2, <1>10 DEF UndoKept
  <2>2. Back(h, p)
    BY <1>4, <1>5 DEF Back
  <2>3. h.projection = held[w].projection /\ h.at = held[w].at
    BY <1>2
  <2>4. QED
    BY <1>1, <1>2, <1>3, <1>9, <2>1, <2>2, <2>3, LowerKeeps
<1>11. CASE ~(p = Profile /\ h.journal.entry[p] # "UNCHANGED")
  <2>1. PICK k : k = Recorded(seen, p)
    OBVIOUS
  <2>2. held' = [held EXCEPT ![w] = Lower(k)]
    BY <1>2, <1>6, <1>7, <1>11, <2>1 DEF UndoKept, Undone
  <2>3. /\ k \in CallRecord /\ k.at = seen.at /\ k.blocked = seen.blocked
        /\ k.projection = seen.projection /\ k.journal \in Journal /\ JournalOK(k.journal)
    <3>1. seen \in CallRecord /\ seen.journal \in Journal /\ JournalOK(seen.journal)
      BY <1>3, <1>8
    <3>2. Back(seen, p) /\ (Clean => seen.blocked = {}) /\ p \in Path /\ plan \in Plans
      BY <1>3, <1>8
    <3>3. QED
      BY <2>1, <3>1, <3>2, UndoneFacts
  <2>4. Back(k, p)
    BY <1>8, <2>3 DEF Back
  <2>5. QED
    BY <1>1, <1>2, <1>8, <1>9, <2>2, <2>3, <2>4, LowerKeeps
<1>12. QED
  BY <1>10, <1>11

LEMMA PassProfileKeeps ==
    ASSUME CoreInv, NEW w \in Process, PassProfile(w) PROVE CoreInv'
<1>1. /\ Busy(w) /\ held[w].pc = "undo" /\ held[w].pc \in BackSteps
      /\ UNCHANGED <<files, journal, proof, environment>>
  BY DEF PassProfile, At, BackSteps
<1>2. PICK h, p : h = held[w] /\ p = Here(w)
  OBVIOUS
<1>3. /\ h \in CallRecord /\ p \in Path /\ h.journal \in Journal /\ JournalOK(h.journal)
      /\ Clean => h.blocked = {}
  BY <1>1, <1>2, AtBack
<1>4. /\ p = Profile /\ plan[p] = "REPLACE" /\ Untouched(h)
      /\ held' = [held EXCEPT ![w] = Lower(h)]
  BY <1>2 DEF PassProfile
<1>5. Back(h, p)
  BY <1>3, <1>4 DEF Untouched, JournalOK, PendingOK, Back, Before
<1>6. (Clean' => Clean) /\ UNCHANGED <<plan, touched, edits>> /\ failed' \in BOOLEAN
      /\ (failed => failed') /\ mishaps' \in Nat
  BY <1>1, QuietClean
<1>7. QED
  BY <1>1, <1>2, <1>3, <1>4, <1>5, <1>6, LowerKeeps

\* The recovery goes on with the same item.
LEMMA SameUndo ==
    ASSUME CoreInv, NEW w \in Process, Busy(w), held[w].pc \in BackSteps,
           NEW g \in CallRecord, g.pc \in BackSteps, g.at = held[w].at, g.journal = held[w].journal,
           g.projection = held[w].projection, held[w].blocked \subseteq g.blocked,
           Clean' => g.blocked = {}, held' = [held EXCEPT ![w] = g],
           g.pc = "clear" => Back(g, Here(w)),
           g.pc = "drop" => Stages(Here(w)) /\ (Ours(Here(w)) => target[Here(w)] = "B"),
           g.pc = "restore" => /\ Removes(Here(w))
                               /\ Ours(Here(w)) => target[Here(w)] \in {"absent", "A"},
           UNCHANGED <<files, journal, proof, plan, touched, edits>>,
           failed' \in BOOLEAN, failed => failed', mishaps' \in Nat
    PROVE  CoreInv'
<1>1. PICK h, p : h = held[w] /\ p = Here(w)
  OBVIOUS
<1>2. PICK j : j = journal
  OBVIOUS
<1>3. /\ InLock(h) /\ h.at \in DOMAIN Items /\ p = Items[h.at] /\ h.journal \in Journal
      /\ JournalOK(h.journal) /\ (j.status = "COMMITTED" => ~snapshot) /\ UndoKnows(h, j)
      /\ j \in Journal /\ Storable(j) /\ (j.status = "RECOVERY_BLOCKED" => ~Clean)
  BY <1>1, <1>2, AtBack
<1>4. UNCHANGED Kept /\ UNCHANGED proof /\ stage' \in [Path -> {"absent", "partial", "B"}]
      /\ directory' \in BOOLEAN /\ UNCHANGED edits /\ UNCHANGED journal
  BY DEF files, Kept, CoreInv, SharedTyped
<1>5. \A i \in DOMAIN Items : i > g.at \/ (i = g.at /\ g.pc = "clear") => Back(g, Items[i])
  <2>1. \A i \in DOMAIN Items : i > g.at => Back(g, Items[i])
    BY <1>1, <1>3 DEF UndoKnows, UndoRest, Back
  <2>2. g.pc = "clear" => Back(g, Items[g.at])
    BY <1>1, <1>3
  <2>3. QED
    BY <2>1, <2>2
<1>6. UndoRest(g, j)
  <2>1. g.pc \in {"undo", "drop", "restore", "clear"} /\ g.pc \notin LastSteps
    BY DEF BackSteps, LastSteps
  <2>2. Items[g.at] = Here(w)
    BY <1>1, <1>3
  <2>3. QED
    BY <1>3, <1>5, <2>1, <2>2 DEF UndoRest
<1>7. g.pc \in UndoSteps \ {"recover"} /\ held[w].pc \in UndoSteps
  BY DEF BackSteps, UndoSteps
<1>8. g.at > 0 /\ g.at \in DOMAIN Items
  BY <1>1, <1>3, ItemFacts
<1>9. g.journal \in Journal /\ JournalOK(g.journal)
  BY <1>1, <1>3
<1>10. QED
  BY <1>2, <1>4, <1>6, <1>7, <1>8, <1>9, UndoStep

LEMMA LookBackKeeps ==
    ASSUME CoreInv, NEW w \in Process, LookBack(w) PROVE CoreInv'
<1>1. /\ Busy(w) /\ held[w].pc = "undo" /\ held[w].pc \in BackSteps
      /\ UNCHANGED <<files, journal, proof, environment>>
  BY DEF LookBack, At, BackSteps
<1>2. PICK h, p : h = held[w] /\ p = Here(w)
  OBVIOUS
<1>3. /\ h \in CallRecord /\ p \in Path /\ h.journal \in Journal /\ JournalOK(h.journal)
      /\ plan \in Plans /\ (Clean => h.blocked = {})
      /\ Ours(p) => target[p] \in {Before(p), After(p)} \/ (Removes(p) /\ target[p] = "absent")
  BY <1>1, <1>2, AtBack
<1>4. plan[p] # "KEEP"
  BY <1>2 DEF LookBack
<1>5. /\ Before(p) \in {"absent", "A"} /\ After(p) \in {"absent", "B"}
      /\ (Removes(p) => Before(p) = "A") /\ (Stages(p) => After(p) = "B")
      /\ (plan[p] = "CREATE" <=> ~Removes(p)) /\ (plan[p] = "CREATE" => Before(p) = "absent")
      /\ (~Stages(p) => After(p) = "absent")
  BY <1>3, <1>4, PlanFacts DEF Action, After, Stages, Removes
<1>6. PICK next : next = CASE target[p] = "B" /\ Stages(p) /\ Proven(h, p) -> "drop"
                           [] target[p] = "absent" /\ plan[p] = "CREATE"   -> "clear"
                           [] target[p] \in {"absent", "A"} /\ Removes(p)  -> "restore"
                           [] OTHER                                        -> "blocked"
  OBVIOUS
<1>7. PICK b : b = Blocked(h, p)
  OBVIOUS
<1>8. PICK g : g = IF next = "blocked" THEN [b EXCEPT !.pc = "clear"] ELSE [h EXCEPT !.pc = next]
  OBVIOUS
<1>9. held' = [held EXCEPT ![w] = g]
  BY <1>2, <1>6, <1>7, <1>8 DEF LookBack
<1>10. next \in {"drop", "clear", "restore", "blocked"}
  BY <1>6
<1>11. /\ b \in CallRecord /\ b.at = h.at /\ b.journal = h.journal /\ b.projection = h.projection
       /\ b.blocked = h.blocked \cup {p}
  BY <1>3, <1>7, BlockedFacts
<1>12. /\ g \in CallRecord /\ g.pc = (IF next = "blocked" THEN "clear" ELSE next) /\ g.at = h.at
       /\ g.journal = h.journal /\ g.projection = h.projection
       /\ g.blocked = IF next = "blocked" THEN h.blocked \cup {p} ELSE h.blocked
  BY <1>3, <1>8, <1>10, <1>11 DEF CallRecord, Steps_, UndoSteps
<1>13. next = "drop" => Stages(p) /\ target[p] = "B"
  BY <1>6
<1>14. next = "restore" => Removes(p) /\ target[p] \in {"absent", "A"}
  BY <1>6
<1>15. next = "clear" => target[p] = "absent" /\ Before(p) = "absent"
  BY <1>5, <1>6
<1>16. next = "blocked" => ~Clean
  <2> SUFFICES ASSUME next = "blocked", Clean PROVE FALSE
    OBVIOUS
  <2>1. Ours(p)
    BY DEF Clean, Ours
  <2>2. target[p] = "B" /\ Stages(p)
    BY <1>3, <1>5, <1>6, <2>1
  <2>3. Proven(h, p)
    BY <1>3, <2>2 DEF Proven, JournalOK, ProvenOK
  <2>4. QED
    BY <1>6, <2>2, <2>3
<1>17. g.pc = "clear" => Back(g, p)
  BY <1>10, <1>12, <1>15 DEF Back
<1>18. (Clean => g.blocked = {}) /\ g.pc \in BackSteps /\ h.blocked \subseteq g.blocked
  BY <1>3, <1>10, <1>12, <1>16 DEF BackSteps
<1>19. /\ UNCHANGED Kept /\ (Clean' => Clean) /\ UNCHANGED <<plan, touched, edits>>
       /\ failed' \in BOOLEAN /\ (failed => failed') /\ mishaps' \in Nat
  <2>1. UNCHANGED Kept
    BY <1>1 DEF files, environment, Kept
  <2>2. failed' \in BOOLEAN /\ (failed => failed') /\ mishaps' \in Nat /\ UNCHANGED <<plan, touched, edits>>
    BY <1>1, Undisturbed
  <2>3. QED
    BY <2>1, <2>2, KeptFacts
<1>20. /\ g.pc = "drop" => Stages(p) /\ (Ours(p) => target[p] = "B")
       /\ g.pc = "restore" => Removes(p) /\ (Ours(p) => target[p] \in {"absent", "A"})
  BY <1>10, <1>12, <1>13, <1>14
<1>21. QED
  BY <1>1, <1>2, <1>9, <1>12, <1>17, <1>18, <1>19, <1>20, SameUndo

LEMMA UndoFailsKeeps ==
    ASSUME CoreInv, NEW w \in Process, UndoFails(w) PROVE CoreInv'
<1>1. /\ Busy(w) /\ held[w].pc \in {"drop", "restore", "clear"} /\ held[w].pc \in BackSteps
      /\ UNCHANGED <<files, journal, proof, plan, touched, edits>> /\ failed' = TRUE
      /\ mishaps' = mishaps + 1
  BY DEF UndoFails, BackSteps, Mishap
<1>2. PICK h, p : h = held[w] /\ p = Here(w)
  OBVIOUS
<1>3. h \in CallRecord /\ p \in Path /\ h.journal \in Journal /\ JournalOK(h.journal)
  BY <1>1, <1>2, AtBack
<1>4. failed' \in BOOLEAN /\ (failed => failed') /\ mishaps' \in Nat /\ ~Clean'
  <2>1. ~Clean'
    BY <1>1 DEF Clean
  <2>2. mishaps \in Nat
    BY DEF CoreInv, SharedTyped
  <2>3. QED
    BY <1>1, <2>1, <2>2
<1>5. PICK b : b = Blocked(h, p)
  OBVIOUS
<1>6. /\ b \in CallRecord /\ b.at = h.at /\ b.journal = h.journal /\ b.projection = h.projection
      /\ b.blocked = h.blocked \cup {p} /\ Back(b, p)
  BY <1>3, <1>5, BlockedFacts
<1>7. CASE h.pc = "clear"
  <2>1. Recorded(b, p) = b
    BY <1>6 DEF Recorded
  <2>2. held' = [held EXCEPT ![w] = Lower(b)]
    BY <1>2, <1>5, <1>7, <2>1 DEF UndoFails, Undone
  <2>3. b.journal \in Journal /\ JournalOK(b.journal) /\ h.blocked \subseteq b.blocked
    BY <1>3, <1>6
  <2>4. QED
    BY <1>1, <1>2, <1>4, <1>6, <2>2, <2>3, LowerKeeps
<1>8. CASE h.pc # "clear"
  <2>1. PICK g : g = [b EXCEPT !.pc = "clear"]
    OBVIOUS
  <2>2. held' = [held EXCEPT ![w] = g]
    BY <1>2, <1>5, <1>8, <2>1 DEF UndoFails
  <2>3. /\ g \in CallRecord /\ g.pc = "clear" /\ g.at = h.at /\ g.journal = h.journal
        /\ g.projection = h.projection /\ g.blocked = b.blocked
    BY <1>6, <2>1 DEF CallRecord, Steps_, UndoSteps
  <2>4. Back(g, p) /\ g.pc \in BackSteps /\ h.blocked \subseteq g.blocked
    BY <1>6, <2>3 DEF Back, BackSteps
  <2>5. QED
    BY <1>1, <1>2, <1>4, <2>2, <2>3, <2>4, SameUndo
<1>9. QED
  BY <1>7, <1>8

LEMMA RemoveDirectoryKeeps ==
    ASSUME CoreInv, NEW w \in Process, RemoveDirectory(w) PROVE CoreInv'
<1>1. Busy(w) /\ held[w].pc = "rmdir" /\ held[w].pc \in UndoSteps
  BY DEF RemoveDirectory, At, UndoSteps
<1>2. PICK h, j : h = held[w] /\ j = journal
  OBVIOUS
<1>3. /\ h \in CallRecord /\ h.journal \in Journal /\ JournalOK(h.journal) /\ UndoKnows(h, j)
      /\ h.at \in Nat /\ h.at > 0 /\ h.projection \in Projection
  BY <1>1, <1>2, AtUndo
<1>4. PICK pc : pc = IF h.blocked = {} THEN "purge" ELSE "close"
  OBVIOUS
<1>5. PICK g : g = [h EXCEPT !.pc = pc]
  OBVIOUS
<1>6. /\ g \in CallRecord /\ g.pc \in {"purge", "close"} /\ g.at = h.at /\ g.journal = h.journal
      /\ g.projection = h.projection /\ g.blocked = h.blocked /\ (g.pc = "purge" => g.blocked = {})
  BY <1>3, <1>4, <1>5 DEF CallRecord, Steps_, UndoSteps
<1>7. held' = [held EXCEPT ![w] = g] /\ UNCHANGED <<journal, proof, environment>>
  BY <1>2, <1>4, <1>5 DEF RemoveDirectory, Goto, CoreInv, CallsTyped
<1>8. UNCHANGED Kept /\ stage' \in [Path -> {"absent", "partial", "B"}] /\ directory' \in BOOLEAN
  BY DEF RemoveDirectory, environment, Kept, CoreInv, SharedTyped
<1>9. /\ failed' \in BOOLEAN /\ (failed => failed') /\ mishaps' \in Nat
      /\ UNCHANGED <<plan, touched, edits>> /\ (Clean' => Clean)
  BY <1>7, QuietClean
<1>10. UndoRest(g, j) /\ (Clean => g.blocked = {})
  <2>1. \A q \in Path : Back(g, q)
    BY <1>1, <1>2, <1>3, <1>6 DEF UndoKnows, UndoRest, LastSteps, Back
  <2>2. QED
    BY <1>1, <1>2, <1>3, <1>6, <2>1 DEF UndoKnows, UndoRest, BackSteps
<1>11. g.pc \in UndoSteps \ {"recover"} /\ g.pc \notin BackSteps
  BY <1>6 DEF UndoSteps, BackSteps
<1>12. QED
  BY <1>1, <1>2, <1>3, <1>6, <1>7, <1>8, <1>9, <1>10, <1>11, UndoStep

LEMMA RenewKeeps ==
    ASSUME CoreInv, NEW w \in Process, Renew(w) PROVE CoreInv'
<1>1. /\ Busy(w) /\ held[w].pc = "renew" /\ held[w].pc \in UndoSteps
      /\ UNCHANGED <<files, proof, environment>>
  BY DEF Renew, At, UndoSteps
<1>2. PICK h, n : h = held[w] /\ n = NewJournal
  OBVIOUS
<1>3. /\ InLock(h) /\ h \in CallRecord /\ UndoKnows(h, journal) /\ h.projection \in Projection
  BY <1>1, <1>2, AtUndo
<1>4. AllBefore
  BY <1>1, <1>2, <1>3 DEF UndoKnows, UndoRest, LastSteps, Back, AllBefore
<1>5. Storable(n) /\ n.status = "PLANNED"
  BY <1>2, <1>4, NewJournalFacts
<1>6. PICK g : g = [h EXCEPT !.journal = n, !.pc = "begin", !.at = 1]
  OBVIOUS
<1>7. /\ g \in CallRecord /\ g.pc = "begin" /\ g.at = 1 /\ g.journal = n
      /\ g.projection = h.projection
  BY <1>3, <1>5, <1>6 DEF CallRecord, Steps_, CoreSteps, Storable
<1>8. held' = [held EXCEPT ![w] = g] /\ journal' = n
  BY <1>2, <1>6 DEF Renew
<1>9. /\ \A v \in Process : v # w /\ Busy(v) => ~InLock(held[v])
      /\ held[w].projection # None
  BY <1>1, <1>2, <1>3, HolderFacts, NoneAssumption
<1>10. QED
  BY <1>1, <1>2, <1>5, <1>7, <1>8, <1>9, FreshBegins

LEMMA CloseRecoveryKeeps ==
    ASSUME CoreInv, NEW w \in Process, CloseRecovery(w) PROVE CoreInv'
<1>1. /\ Busy(w) /\ held[w].pc = "close" /\ held[w].pc \in UndoSteps
      /\ UNCHANGED <<files, proof, environment>>
  BY DEF CloseRecovery, At, UndoSteps
<1>2. PICK h : h = held[w]
  OBVIOUS
<1>3. /\ InLock(h) /\ h \in CallRecord /\ UndoKnows(h, journal) /\ h.projection \in Projection
      /\ h.journal \in Journal /\ JournalOK(h.journal) /\ h.after \in Afters
  BY <1>1, <1>2, AtUndo
<1>4. (\A q \in Path : Back(h, q)) /\ (Clean => h.blocked = {})
  BY <1>1, <1>2, <1>3 DEF UndoKnows, UndoRest, LastSteps
<1>5. PICK j : j = IF h.blocked # {} THEN [h.journal EXCEPT !.status = "RECOVERY_BLOCKED"]
                   ELSE [h.journal EXCEPT !.status = "ROLLED_BACK", !.created = FALSE, !.published = FALSE]
  OBVIOUS
<1>6. /\ j \in Journal /\ j.entry = h.journal.entry /\ j.staged = h.journal.staged
      /\ j.status = IF h.blocked # {} THEN "RECOVERY_BLOCKED" ELSE "ROLLED_BACK"
  BY <1>3, <1>5 DEF Journal, Status
<1>7. Storable(j)
  <2>1. JournalOK(j)
    BY <1>3, <1>6, SameEntries
  <2>2. h.blocked = {} => AllBefore
    BY <1>4 DEF AllBefore, Back
  <2>3. QED
    BY <1>6, <2>1, <2>2 DEF Storable
<1>8. /\ failed' \in BOOLEAN /\ (failed => failed') /\ mishaps' \in Nat
      /\ UNCHANGED <<plan, touched, edits>> /\ (Clean' => Clean)
  BY <1>1, QuietClean
<1>9. /\ UNCHANGED Kept /\ stage' \in [Path -> {"absent", "partial", "B"}] /\ directory' \in BOOLEAN
      /\ UNCHANGED proof /\ UNCHANGED edits /\ journal' = j
      /\ j.status = "RECOVERY_BLOCKED" => ~Clean'
  <2>1. UNCHANGED Kept /\ stage' \in [Path -> {"absent", "partial", "B"}] /\ directory' \in BOOLEAN
    BY <1>1 DEF files, environment, Kept, CoreInv, SharedTyped
  <2>2. journal' = j
    BY <1>2, <1>5 DEF CloseRecovery
  <2>3. QED
    BY <1>1, <1>4, <1>6, <1>8, <2>1, <2>2
<1>10. PICK next : next = CASE h.after = "retry" /\ h.blocked = {}  -> "renew"
                            [] h.after = "seal"                     -> "seal"
                            [] h.after = "restore" /\ h.blocked = {} -> "check"
                            [] OTHER                                -> "return"
  OBVIOUS
<1>11. next \in {"renew", "seal", "check", "return"} /\ (next = "renew" => h.blocked = {})
  BY <1>10
<1>12. PICK g : g = [h EXCEPT !.journal = j, !.pc = next, !.at = Len(Sidecars)]
  OBVIOUS
<1>13. held' = [held EXCEPT ![w] = IF next = "return" THEN Idle ELSE g]
  BY <1>2, <1>5, <1>10, <1>12 DEF CloseRecovery
<1>14. CASE next = "return"
  <2>1. Return(w)
    BY <1>13, <1>14 DEF Return
  <2>2. QED
    BY <1>1, <1>2, <1>3, <1>7, <1>8, <1>9, <2>1, HolderReturns
<1>15. CASE next # "return"
  <2>1. /\ g \in CallRecord /\ g.pc = next /\ g.at = Len(Sidecars) /\ g.journal = j
        /\ g.projection = h.projection /\ g.blocked = h.blocked
    BY <1>3, <1>6, <1>11, <1>12, <1>15, SidecarFacts DEF CallRecord, Steps_, UndoSteps, OuterSteps
  <2>2. held' = [held EXCEPT ![w] = g]
    BY <1>13, <1>15
  <2>3. Placed(g)
    BY <1>6, <1>11, <1>15, <2>1, SidecarFacts, NoneAssumption
    DEF Placed, ItemSteps, EarlySteps, BackSteps
  <2>4. InLock(g) => LockKnows(g, j)
    <3>1. InLock(g) => g.pc = "renew"
      BY <1>11, <1>15, <2>1 DEF InLock, CoreSteps, UndoSteps
    <3>2. g.pc = "renew" => UndoKnows(g, j)
      BY <1>4, <1>6, <1>11, <2>1 DEF UndoKnows, UndoRest, LastSteps, BackSteps, Back
    <3>3. QED
      BY <1>7, <2>1, <3>1, <3>2 DEF LockKnows, Storable, CoreSteps
  <2>5. QED
    BY <1>1, <1>2, <1>3, <1>7, <1>8, <1>9, <2>1, <2>2, <2>3, <2>4, HolderStep
<1>16. QED
  BY <1>14, <1>15

-----------------------------------------------------------------------------
(* The steps that change files of the consumer, or what proves whose they    *)
(* are.                                                                      *)
LEMMA FileStep ==
    ASSUME CoreInv, NEW w \in Process, Busy(w), InLock(held[w]), NEW g \in CallRecord,
           held' = [held EXCEPT ![w] = g], Placed(g), g.projection = held[w].projection,
           InLock(g), LockKnows(g, journal)',
           UNCHANGED <<directory, snapshot, journal, proof, environment>>,
           target' \in [Path -> Bytes], linked' \subseteq Path,
           stage' \in [Path -> {"absent", "partial", "B"}],
           quarantine' \in [Path -> {"absent", "partial", "A"}],
           TargetOK', SourceSurvives', JournalOK(journal)',
           journal.status \in {"PLANNED", "ROLLED_BACK"} => AllBefore',
           journal.status = "COMMITTED" => ~snapshot
    PROVE  CoreInv'
<1>1. /\ \A v \in Process : v # w /\ Busy(v) => ~InLock(held[v])
      /\ journal \in Journal /\ journal # None /\ CallTyped(held[w])
  BY HolderFacts, NoneAssumption
<1>2. SharedTyped' /\ projection' = projection
  BY DEF CoreInv, SharedTyped, proof, environment
<1>3. Fresh'
  BY <1>1 DEF Fresh
<1>4. DiskOK'
  <2>1. Clean' => Clean
    BY DEF Clean, environment
  <2>2. QED
    BY <1>1, <2>1 DEF CoreInv, DiskOK
<1>5. CallTyped(g)'
  <2>1. held[w].pc \notin {"preimage", "prepared"}
    BY DEF InLock, CoreSteps, UndoSteps
  <2>2. QED
    BY <1>1, <1>2, <2>1 DEF Placed, CallTyped, InLock
<1>6. QED
  BY <1>1, <1>2, <1>3, <1>4, <1>5, AloneStep

\* One path has other bytes, or loses its staging file.
LEMMA JournalMoved ==
    ASSUME NEW j, JournalOK(j), NEW p \in Path, NEW b, target \in [Path -> Bytes],
           target' = [target EXCEPT ![p] = b], \A q \in Path : q # p /\ q \in linked => q \in linked',
           UNCHANGED environment,
           p = Profile /\ plan[p] = "REPLACE" /\ Ours(p) /\ j.entry[p] \in {"PENDING", "ROLLED_BACK"}
               => b = "A",
           Clean /\ Stages(p) /\ b = "B" => \/ p = Profile
                                            \/ j.entry[p] \in {"TARGET_INSTALLED", "VERIFIED"}
                                            \/ p \in j.staged /\ p \in linked'
    PROVE  JournalOK(j)'
<1>1. \A q \in Path : target'[q] = IF q = p THEN b ELSE target[q]
  OBVIOUS
<1>2. plan' = plan /\ touched' = touched /\ failed' = failed
  BY DEF environment
<1>3. PendingOK(j)'
  BY <1>1, <1>2, ItemFacts DEF JournalOK, PendingOK, Ours
<1>4. ProvenOK(j)'
  <2> SUFFICES ASSUME Clean', NEW q \in Path, Stages(q)', target'[q] = "B", q # Profile,
                      j.entry[q] \notin {"TARGET_INSTALLED", "VERIFIED"}
               PROVE  q \in j.staged /\ q \in linked'
    BY DEF ProvenOK
  <2>1. Clean /\ Stages(q)
    BY <1>2 DEF Clean, Stages
  <2>2. QED
    BY <1>1, <2>1 DEF JournalOK, ProvenOK
<1>5. QED
  BY <1>3, <1>4 DEF JournalOK

\* A call of the upgrade changes what is at its item.
LEMMA ItemMoves ==
    ASSUME CoreInv, NEW w \in Process, Busy(w), held[w].pc \in ItemSteps \ {"verify"},
           NEW h, h = held[w], NEW p, p = Here(w),
           NEW g \in CallRecord, g.pc \in ItemSteps, g.at = h.at, g.projection = h.projection,
           \/ g.journal = journal
           \/ g.pc = "verify" /\ g.journal = [journal EXCEPT !.staged = @ \ {p}],
           held' = [held EXCEPT ![w] = g], NEW b \in Bytes, target' = [target EXCEPT ![p] = b],
           linked' \subseteq Path, stage' \in [Path -> {"absent", "partial", "B"}],
           quarantine' \in [Path -> {"absent", "partial", "A"}],
           \A q \in Path : q # p => quarantine'[q] = quarantine[q],
           UNCHANGED <<directory, snapshot, journal, proof, environment>>,
           Ours(p) => b \in {Before(p), After(p)} \/ (Removes(p) /\ b = "absent"),
           Ours(p) /\ Removes(p) => b = "A" \/ quarantine'[p] = "A",
           JournalOK(journal)', JournalOK(g.journal)', ItemKnows(g, p)'
    PROVE  CoreInv'
<1>1. /\ InLock(h) /\ h.at \in DOMAIN Items /\ p = Items[h.at] /\ p \in Path /\ OthersKnow(h)
      /\ journal \in Journal /\ journal.status = "APPLYING"
  BY AtItem
<1>2. /\ plan' = plan /\ touched' = touched
      /\ \A q : /\ Before(q)' = Before(q) /\ After(q)' = After(q) /\ (Ours(q)' <=> Ours(q))
                /\ (Removes(q)' <=> Removes(q))
  BY DEF environment, Before, After, Ours, Removes
<1>3. target' \in [Path -> Bytes] /\ \A q \in Path : target'[q] = IF q = p THEN b ELSE target[q]
  BY DEF CoreInv, SharedTyped
<1>4. TargetOK'
  BY <1>2, <1>3 DEF CoreInv, TargetOK
<1>5. SourceSurvives'
  BY <1>2, <1>3 DEF CoreInv, SourceSurvives, Ours
<1>6. OthersKnow(g)'
  BY <1>1, <1>2, <1>3, ItemFacts DEF OthersKnow
<1>7. g.journal.status = "APPLYING" /\ g.journal # None
  BY <1>1, NoneAssumption DEF Journal
<1>8. LockKnows(g, journal)'
  <2>1. g.pc \notin UndoSteps \cup EndSteps \cup {"begin"}
    BY DEF ItemSteps, EarlySteps, UndoSteps, EndSteps
  <2>2. g.journal = journal' \/ (g.pc = "verify" /\ g.journal = [journal' EXCEPT !.staged = @ \ {Items[g.at]}])
    BY <1>1
  <2>3. ItemKnows(g, Items[g.at])'
    BY <1>1
  <2>4. CoreKnows(g, journal)'
    BY <1>6, <1>7, <2>1, <2>2, <2>3 DEF CoreKnows, EndSteps
  <2>5. QED
    BY <2>1, <2>4 DEF LockKnows
<1>9. Placed(g) /\ InLock(g)
  <2>1. g.pc \notin SideSteps \cup {"begin", "preimage", "prepared"} /\ g.pc \in CoreSteps
    BY DEF ItemSteps, EarlySteps, SideSteps, CoreSteps
  <2>2. g.at > 0
    BY <1>1, ItemFacts
  <2>3. QED
    BY <1>1, <1>7, <2>1, <2>2 DEF Placed, InLock
<1>10. QED
  BY <1>1, <1>3, <1>4, <1>5, <1>8, <1>9, FileStep

LEMMA UnlinkSourceKeeps ==
    ASSUME CoreInv, NEW w \in Process, UnlinkSource(w) PROVE CoreInv'
<1>1. Busy(w) /\ held[w].pc = "unlink" /\ held[w].pc \in ItemSteps \ {"verify"}
  BY DEF UnlinkSource, At, ItemSteps, EarlySteps
<1>2. PICK h, p, j : h = held[w] /\ p = Here(w) /\ j = journal
  OBVIOUS
<1>3. /\ h \in CallRecord /\ h.journal = j /\ j \in Journal /\ p \in Path /\ JournalOK(j)
      /\ ItemKnows(h, p)
  BY <1>1, <1>2, AtItem
<1>4. PICK g : g = [h EXCEPT !.pc = "removed"]
  OBVIOUS
<1>5. /\ g \in CallRecord /\ g.pc = "removed" /\ g.at = h.at /\ g.journal = j
      /\ g.projection = h.projection /\ g.pc \in ItemSteps
  BY <1>3, <1>4 DEF CallRecord, Steps_, CoreSteps, ItemSteps, EarlySteps
<1>6. /\ held' = [held EXCEPT ![w] = g] /\ target' = [target EXCEPT ![p] = "absent"]
      /\ linked' = linked \ {p}
      /\ UNCHANGED <<directory, stage, quarantine, snapshot, journal, proof, environment>>
  BY <1>2, <1>4 DEF UnlinkSource, Goto, CoreInv, CallsTyped
<1>7. /\ target \in [Path -> Bytes] /\ linked' \subseteq Path /\ "absent" \in Bytes
      /\ stage' \in [Path -> {"absent", "partial", "B"}]
      /\ quarantine' \in [Path -> {"absent", "partial", "A"}]
  BY <1>6 DEF CoreInv, SharedTyped, Bytes
<1>8. /\ Removes(p) /\ quarantine[p] = "A" /\ j.entry[p] = "BACKED_UP"
      /\ Stages(p) => p \in j.staged
  BY <1>1, <1>2, <1>3 DEF ItemKnows
<1>9. JournalOK(j)'
  BY <1>3, <1>6, <1>7, <1>8, JournalMoved
<1>10. JournalOK(journal)' /\ JournalOK(g.journal)'
  BY <1>2, <1>5, <1>6, <1>9
<1>11. ItemKnows(g, p)'
  BY <1>3, <1>5, <1>6, <1>7, <1>8 DEF ItemKnows, EarlySteps, environment, Removes, Stages
<1>12. quarantine' = quarantine
  BY <1>6
<1>13. QED
  BY <1>1, <1>2, <1>5, <1>6, <1>7, <1>8, <1>10, <1>11, <1>12, ItemMoves

LEMMA BackUpKeeps ==
    ASSUME CoreInv, NEW w \in Process, BackUp(w) PROVE CoreInv'
<1>1. /\ Busy(w) /\ held[w].pc \in {"backup", "entry"} /\ held[w].pc \in ItemSteps \ {"verify"}
      /\ held[w].pc = "backup" \/ plan[Here(w)] = "REMOVE"
  BY DEF BackUp, At, ItemSteps, EarlySteps
<1>2. PICK h, p, j : h = held[w] /\ p = Here(w) /\ j = journal
  OBVIOUS
<1>3. /\ h \in CallRecord /\ h.journal = j /\ j \in Journal /\ p \in Path /\ JournalOK(j)
      /\ ItemKnows(h, p) /\ plan \in Plans
  BY <1>1, <1>2, AtItem
<1>4. PICK g : g = [h EXCEPT !.pc = "backedup"]
  OBVIOUS
<1>5. /\ g \in CallRecord /\ g.pc = "backedup" /\ g.at = h.at /\ g.journal = j
      /\ g.projection = h.projection /\ g.pc \in ItemSteps
  BY <1>3, <1>4 DEF CallRecord, Steps_, CoreSteps, ItemSteps, EarlySteps
<1>6. /\ held' = [held EXCEPT ![w] = g] /\ quarantine' = [quarantine EXCEPT ![p] = "A"]
      /\ target[p] = "A"
      /\ UNCHANGED <<target, directory, stage, linked, snapshot, journal, proof, environment>>
  BY <1>2, <1>4 DEF BackUp, Goto, CoreInv, CallsTyped
<1>7. /\ target \in [Path -> Bytes] /\ linked' \subseteq Path /\ "A" \in Bytes
      /\ stage' \in [Path -> {"absent", "partial", "B"}]
      /\ quarantine' \in [Path -> {"absent", "partial", "A"}] /\ quarantine'[p] = "A"
      /\ \A q \in Path : q # p => quarantine'[q] = quarantine[q]
  BY <1>3, <1>6 DEF CoreInv, SharedTyped, Bytes
<1>8. target' = [target EXCEPT ![p] = "A"]
  BY <1>3, <1>6, <1>7
<1>9. /\ Removes(p) /\ (Stages(p) => p \in j.staged) /\ Before(p) = "A"
      /\ Ours(p) => target[p] = "A"
  <2>1. CASE h.pc = "backup"
    BY <1>2, <1>3, <1>6, <2>1, PlanFacts DEF ItemKnows, EarlySteps
  <2>2. CASE plan[p] = "REMOVE"
    BY <1>3, <1>6, <2>2, PlanFacts
  <2>3. QED
    BY <1>1, <1>2, <2>1, <2>2
<1>10. JournalOK(j)'
  <2>1. linked' = linked /\ UNCHANGED environment
    BY <1>6
  <2>2. PICK b : b = "A"
    OBVIOUS
  <2>3. target' = [target EXCEPT ![p] = b]
    BY <1>8, <2>2
  <2>4. QED
    BY <1>3, <1>7, <2>1, <2>2, <2>3, JournalMoved
<1>11. JournalOK(journal)' /\ JournalOK(g.journal)'
  BY <1>2, <1>5, <1>6, <1>10
<1>12. ItemKnows(g, p)'
  BY <1>3, <1>5, <1>6, <1>7, <1>9
  DEF ItemKnows, EarlySteps, environment, Removes, Stages, Before, Ours
<1>13. QED
  <2>1. PICK b : b = "A"
    OBVIOUS
  <2>2. b \in Bytes /\ target' = [target EXCEPT ![p] = b] /\ b = Before(p)
    BY <1>7, <1>8, <1>9, <2>1
  <2>3. UNCHANGED <<directory, snapshot, journal, proof, environment>>
    BY <1>6
  <2>4. g.journal = journal
    BY <1>2, <1>5
  <2>5. /\ \A q \in Path : q # p => quarantine'[q] = quarantine[q]
        /\ Ours(p) => b \in {Before(p), After(p)} \/ (Removes(p) /\ b = "absent")
        /\ Ours(p) /\ Removes(p) => b = "A" \/ quarantine'[p] = "A"
    BY <1>7, <2>1, <2>2
  <2>6. held' = [held EXCEPT ![w] = g]
    BY <1>6
  <2>7. QED
    BY <1>1, <1>2, <1>5, <1>7, <1>11, <1>12, <2>2, <2>3, <2>4, <2>5, <2>6, ItemMoves

LEMMA InstallKeeps ==
    ASSUME CoreInv, NEW w \in Process, Install(w) PROVE CoreInv'
<1>1. Busy(w) /\ held[w].pc = "install" /\ held[w].pc \in ItemSteps \ {"verify"}
  BY DEF Install, At, ItemSteps, EarlySteps
<1>2. PICK h, p, j : h = held[w] /\ p = Here(w) /\ j = journal
  OBVIOUS
<1>3. /\ h \in CallRecord /\ h.journal = j /\ j \in Journal /\ p \in Path /\ JournalOK(j)
      /\ ItemKnows(h, p) /\ plan \in Plans
  BY <1>1, <1>2, AtItem
<1>4. PICK g : g = [h EXCEPT !.pc = "installed"]
  OBVIOUS
<1>5. /\ g \in CallRecord /\ g.pc = "installed" /\ g.at = h.at /\ g.journal = j
      /\ g.projection = h.projection /\ g.pc \in ItemSteps
  BY <1>3, <1>4 DEF CallRecord, Steps_, CoreSteps, ItemSteps, EarlySteps
<1>6. /\ held' = [held EXCEPT ![w] = g] /\ target' = [target EXCEPT ![p] = "B"]
      /\ linked' = linked \cup {p} /\ target[p] = "absent"
      /\ UNCHANGED <<directory, stage, quarantine, snapshot, journal, proof, environment>>
  BY <1>2, <1>4 DEF Install, Goto, CoreInv, CallsTyped
<1>7. /\ target \in [Path -> Bytes] /\ linked' \subseteq Path /\ "B" \in Bytes
      /\ stage' \in [Path -> {"absent", "partial", "B"}]
      /\ quarantine' \in [Path -> {"absent", "partial", "A"}]
      /\ quarantine' = quarantine
  BY <1>3, <1>6 DEF CoreInv, SharedTyped, Bytes
<1>8. Stages(p) /\ p \in j.staged /\ After(p) = "B"
  BY <1>1, <1>2, <1>3, PlanFacts DEF ItemKnows
<1>9. ~(p = Profile /\ plan[p] = "REPLACE" /\ Ours(p) /\ j.entry[p] \in {"PENDING", "ROLLED_BACK"})
  BY <1>3, <1>6 DEF JournalOK, PendingOK
<1>10. Ours(p) /\ Removes(p) => quarantine[p] = "A"
  BY <1>3, <1>6 DEF CoreInv, SourceSurvives, Ours
<1>11. p \in linked' /\ \A q \in Path : q # p /\ q \in linked => q \in linked'
  BY <1>6
<1>12. JournalOK(j)'
  BY <1>3, <1>6, <1>7, <1>8, <1>9, <1>11, JournalMoved
<1>13. JournalOK(journal)' /\ JournalOK(g.journal)'
  BY <1>2, <1>5, <1>6, <1>12
<1>14. ItemKnows(g, p)'
  BY <1>3, <1>5, <1>6, <1>7, <1>8 DEF ItemKnows, EarlySteps, environment, Stages
<1>15. QED
  BY <1>1, <1>2, <1>5, <1>6, <1>7, <1>8, <1>10, <1>13, <1>14, ItemMoves

LEMMA UnstageKeeps ==
    ASSUME CoreInv, NEW w \in Process, Unstage(w) PROVE CoreInv'
<1>1. Busy(w) /\ held[w].pc = "unstage" /\ held[w].pc \in ItemSteps \ {"verify"}
  BY DEF Unstage, At, ItemSteps, EarlySteps
<1>2. PICK h, p, j : h = held[w] /\ p = Here(w) /\ j = journal
  OBVIOUS
<1>3. /\ h \in CallRecord /\ h.journal = j /\ j \in Journal /\ p \in Path /\ JournalOK(j)
      /\ ItemKnows(h, p) /\ plan \in Plans
  BY <1>1, <1>2, AtItem
<1>4. PICK i : i = [j EXCEPT !.staged = @ \ {p}]
  OBVIOUS
<1>5. i \in Journal /\ i.entry = j.entry /\ i.staged = j.staged \ {p}
  BY <1>3, <1>4 DEF Journal
<1>6. PICK g : g = [h EXCEPT !.pc = "verify", !.journal = i]
  OBVIOUS
<1>7. /\ g \in CallRecord /\ g.pc = "verify" /\ g.at = h.at /\ g.journal = i
      /\ g.projection = h.projection /\ g.pc \in ItemSteps
  BY <1>3, <1>5, <1>6 DEF CallRecord, Steps_, CoreSteps, ItemSteps, EarlySteps
<1>8. g = [h EXCEPT !.pc = "verify", !.journal.staged = @ \ {p}]
  BY <1>3, <1>4, <1>6 DEF CallRecord
<1>9. /\ held' = [held EXCEPT ![w] = g] /\ linked' = linked \ {p}
      /\ stage' = [stage EXCEPT ![p] = "absent"]
      /\ UNCHANGED <<target, directory, quarantine, snapshot, journal, proof, environment>>
  BY <1>2, <1>8 DEF Unstage, RemoveStage, CoreInv, CallsTyped
<1>10. PICK b : b = target[p]
  OBVIOUS
<1>11. /\ target \in [Path -> Bytes] /\ linked' \subseteq Path /\ b \in Bytes
       /\ stage' \in [Path -> {"absent", "partial", "B"}]
       /\ quarantine' \in [Path -> {"absent", "partial", "A"}]
       /\ quarantine' = quarantine /\ target' = [target EXCEPT ![p] = b]
  BY <1>3, <1>9, <1>10 DEF CoreInv, SharedTyped
<1>12. /\ Stages(p) /\ After(p) = "B" /\ (Ours(p) => b = "B")
       /\ j.entry[p] = "TARGET_INSTALLED"
  BY <1>1, <1>2, <1>3, <1>10, PlanFacts DEF ItemKnows
<1>13. Ours(p) /\ Removes(p) => quarantine[p] = "A"
  BY <1>3, <1>10, <1>12 DEF CoreInv, SourceSurvives, Ours
<1>14. \A q \in Path : q # p /\ q \in linked => q \in linked'
  BY <1>9
<1>15. JournalOK(j)'
  BY <1>3, <1>9, <1>11, <1>12, <1>14, JournalMoved
<1>16. JournalOK(i)'
  <2>1. PendingOK(i)'
    BY <1>5, <1>15 DEF JournalOK, PendingOK
  <2>2. ProvenOK(i)'
    BY <1>5, <1>12, <1>15 DEF JournalOK, ProvenOK
  <2>3. QED
    BY <2>1, <2>2 DEF JournalOK
<1>17. JournalOK(journal)' /\ JournalOK(g.journal)'
  BY <1>2, <1>7, <1>9, <1>15, <1>16
<1>18. ItemKnows(g, p)'
  BY <1>3, <1>5, <1>7, <1>9, <1>10, <1>12
  DEF ItemKnows, EarlySteps, environment, Stages, Ours, After
<1>19. g.journal = [journal EXCEPT !.staged = @ \ {p}]
  BY <1>2, <1>4, <1>7
<1>20. /\ UNCHANGED <<directory, snapshot, journal, proof, environment>>
       /\ \A q \in Path : q # p => quarantine'[q] = quarantine[q]
       /\ Ours(p) => b \in {Before(p), After(p)} \/ (Removes(p) /\ b = "absent")
       /\ Ours(p) /\ Removes(p) => b = "A" \/ quarantine'[p] = "A"
  BY <1>9, <1>11, <1>12, <1>13
<1>21. QED
  BY <1>1, <1>2, <1>7, <1>9, <1>11, <1>17, <1>18, <1>19, <1>20, ItemMoves

\* A recovery changes what is at its item.
LEMMA UndoMoves ==
    ASSUME CoreInv, NEW w \in Process, Busy(w), held[w].pc \in BackSteps,
           NEW p, p = Here(w),
           NEW g \in CallRecord, g.pc \in UndoSteps \ {"recover"}, g.at > 0, g.at \in DOMAIN Items,
           g.projection = held[w].projection, g.journal \in Journal,
           Clean => g.blocked = {}, held' = [held EXCEPT ![w] = g],
           NEW b \in Bytes, target' = [target EXCEPT ![p] = b], linked' \subseteq Path,
           stage' \in [Path -> {"absent", "partial", "B"}],
           UNCHANGED <<directory, quarantine, snapshot, journal, proof, environment>>,
           Ours(p) => b \in {Before(p), target[p]} \/ (Removes(p) /\ b = "absent"),
           Ours(p) /\ Removes(p) => b = "A" \/ quarantine[p] = "A",
           Ours(p) /\ target[p] = Before(p) => b = Before(p),
           JournalOK(journal)', JournalOK(g.journal)', UndoRest(g, journal)'
    PROVE  CoreInv'
<1>1. /\ InLock(held[w]) /\ p \in Path /\ journal \in Journal /\ Storable(journal)
      /\ journal.status = "COMMITTED" => ~snapshot
      /\ Ours(p) => target[p] \in {Before(p), After(p)} \/ (Removes(p) /\ target[p] = "absent")
  BY AtBack
<1>2. /\ plan' = plan /\ touched' = touched /\ (Clean' => Clean) /\ quarantine' = quarantine
      /\ \A q : /\ Before(q)' = Before(q) /\ After(q)' = After(q) /\ (Ours(q)' <=> Ours(q))
                /\ (Removes(q)' <=> Removes(q))
  BY DEF environment, Before, After, Ours, Removes, Clean
<1>3. target' \in [Path -> Bytes] /\ \A q \in Path : target'[q] = IF q = p THEN b ELSE target[q]
  BY DEF CoreInv, SharedTyped
<1>4. quarantine' \in [Path -> {"absent", "partial", "A"}]
  BY <1>2 DEF CoreInv, SharedTyped
<1>5. TargetOK'
  BY <1>1, <1>2, <1>3 DEF CoreInv, TargetOK
<1>6. SourceSurvives'
  BY <1>2, <1>3 DEF CoreInv, SourceSurvives, Ours
<1>7. AllBefore => AllBefore'
  BY <1>1, <1>2, <1>3 DEF AllBefore
<1>8. g.pc \notin SideSteps \cup ItemSteps \cup CoreSteps \cup {"begin", "preimage", "prepared"}
  BY DEF UndoSteps, SideSteps, ItemSteps, EarlySteps, CoreSteps
<1>9. InLock(g) /\ Placed(g)
  BY <1>8, NoneAssumption DEF InLock, Placed
<1>10. LockKnows(g, journal)'
  BY <1>2, <1>8 DEF LockKnows, UndoKnows
<1>11. journal.status \in {"PLANNED", "ROLLED_BACK"} => AllBefore'
  BY <1>1, <1>7 DEF Storable
<1>12. QED
  BY <1>1, <1>3, <1>4, <1>5, <1>6, <1>9, <1>10, <1>11, FileStep

LEMMA DropInstalledKeeps ==
    ASSUME CoreInv, NEW w \in Process, DropInstalled(w) PROVE CoreInv'
<1>1. Busy(w) /\ held[w].pc = "drop" /\ held[w].pc \in BackSteps
  BY DEF DropInstalled, At, BackSteps
<1>2. PICK h, p, j : h = held[w] /\ p = Here(w) /\ j = journal
  OBVIOUS
<1>3. /\ h \in CallRecord /\ h.at \in DOMAIN Items /\ p = Items[h.at] /\ p \in Path
      /\ h.journal \in Journal /\ JournalOK(h.journal) /\ (Clean => h.blocked = {})
      /\ (j.status = "COMMITTED" => ~snapshot) /\ UndoKnows(h, j) /\ JournalOK(j)
      /\ plan \in Plans
  BY <1>1, <1>2, AtBack DEF Storable
<1>4. Stages(p) /\ (Ours(p) => target[p] = "B")
  BY <1>1, <1>2, <1>3 DEF UndoKnows, UndoRest
<1>5. PICK k : k = IF target[p] = "absent" THEN Blocked(h, p) ELSE h
  OBVIOUS
<1>6. /\ k \in CallRecord /\ k.at = h.at /\ k.journal = h.journal /\ k.projection = h.projection
      /\ k.blocked = IF target[p] = "absent" THEN h.blocked \cup {p} ELSE h.blocked
  <2>1. CASE target[p] = "absent"
    BY <1>3, <1>5, <2>1, BlockedFacts
  <2>2. CASE target[p] # "absent"
    BY <1>3, <1>5, <2>2
  <2>3. QED
    BY <2>1, <2>2
<1>7. PICK pc : pc = IF Removes(p) /\ (target[p] # "absent" \/ p = Profile) THEN "restore" ELSE "clear"
  OBVIOUS
<1>8. PICK g : g = [k EXCEPT !.pc = pc]
  OBVIOUS
<1>9. /\ g \in CallRecord /\ g.pc = pc /\ g.at = h.at /\ g.journal = h.journal
      /\ g.projection = h.projection /\ g.blocked = k.blocked /\ g.pc \in {"restore", "clear"}
  BY <1>6, <1>7, <1>8 DEF CallRecord, Steps_, UndoSteps
<1>10. /\ held' = [held EXCEPT ![w] = g] /\ target' = [target EXCEPT ![p] = "absent"]
       /\ linked' = linked \ {p}
       /\ UNCHANGED <<directory, stage, quarantine, snapshot, journal, proof, environment>>
  BY <1>2, <1>5, <1>7, <1>8 DEF DropInstalled, CoreInv, CallsTyped
<1>11. PICK b : b = "absent"
  OBVIOUS
<1>12. /\ target \in [Path -> Bytes] /\ linked' \subseteq Path /\ b \in Bytes
       /\ stage' \in [Path -> {"absent", "partial", "B"}] /\ target' = [target EXCEPT ![p] = b]
       /\ \A q \in Path : target'[q] = IF q = p THEN "absent" ELSE target[q]
  BY <1>3, <1>10, <1>11 DEF CoreInv, SharedTyped, Bytes
<1>13. /\ Before(p) \in {"absent", "A"} /\ (~Removes(p) => Before(p) = "absent")
       /\ Ours(p) => target[p] # Before(p)
  BY <1>3, <1>4, PlanFacts DEF Stages, Removes
<1>14. Ours(p) /\ Removes(p) => quarantine[p] = "A"
  BY <1>3, <1>4 DEF CoreInv, SourceSurvives, Ours
<1>15. Clean => g.blocked = {}
  BY <1>3, <1>4, <1>6, <1>9 DEF Clean, Ours
<1>16. \A i \in {j, h.journal} : JournalOK(i)'
  <2> SUFFICES ASSUME NEW i \in {j, h.journal} PROVE JournalOK(i)'
    OBVIOUS
  <2>1. JournalOK(i)
    BY <1>3
  <2>2. ~(p = Profile /\ plan[p] = "REPLACE" /\ Ours(p) /\ i.entry[p] \in {"PENDING", "ROLLED_BACK"})
    BY <1>4, <2>1 DEF JournalOK, PendingOK
  <2>3. UNCHANGED environment /\ \A q \in Path : q # p /\ q \in linked => q \in linked'
    BY <1>10
  <2>4. QED
    BY <1>3, <1>11, <1>12, <2>1, <2>2, <2>3, JournalMoved
<1>17. JournalOK(journal)' /\ JournalOK(g.journal)'
  BY <1>2, <1>9, <1>10, <1>16
<1>18. \A q : /\ Before(q)' = Before(q) /\ (Ours(q)' <=> Ours(q)) /\ (Removes(q)' <=> Removes(q))
              /\ (Stages(q)' <=> Stages(q))
  BY <1>10 DEF environment, Before, Ours, Removes, Stages
<1>19. \A i \in DOMAIN Items : i > g.at \/ (i = g.at /\ g.pc = "clear") => Back(g, Items[i])'
  <2>1. \A i \in DOMAIN Items : i > h.at => Items[i] # p /\ Items[i] \in Path /\ Back(h, Items[i])
    BY <1>1, <1>2, <1>3, ItemFacts DEF UndoKnows, UndoRest
  <2>2. \A i \in DOMAIN Items : i > h.at => Back(g, Items[i])'
    BY <1>6, <1>9, <1>12, <1>18, <2>1 DEF Back
  <2>3. g.pc = "clear" => Back(g, p)'
    BY <1>4, <1>7, <1>9, <1>12, <1>13, <1>18, <1>3 DEF Back
  <2>4. QED
    BY <1>3, <1>9, <2>2, <2>3
<1>20. UndoRest(g, j)'
  <2>1. g.pc = "restore" => Removes(p)' /\ (Ours(p)' => target'[p] \in {"absent", "A"})
    BY <1>3, <1>7, <1>9, <1>12, <1>18
  <2>2. g.pc \notin LastSteps /\ g.pc # "recover" /\ g.pc # "drop" /\ Items[g.at] = p
    BY <1>3, <1>9 DEF LastSteps
  <2>3. j.status = "COMMITTED" => ~snapshot'
    BY <1>3, <1>10
  <2>4. QED
    BY <1>19, <2>1, <2>2, <2>3 DEF UndoRest, LastSteps
<1>21. UndoRest(g, journal)'
  <2>1. journal' = j
    BY <1>2, <1>10
  <2>2. QED
    BY <1>20, <2>1
<1>22. g.pc \in UndoSteps \ {"recover"} /\ g.at > 0 /\ g.at \in DOMAIN Items
  BY <1>3, <1>9, ItemFacts DEF UndoSteps
<1>23. /\ UNCHANGED <<directory, quarantine, snapshot, journal, proof, environment>>
       /\ g.journal \in Journal /\ g.projection = held[w].projection
       /\ Ours(p) => b \in {Before(p), target[p]} \/ (Removes(p) /\ b = "absent")
       /\ Ours(p) /\ Removes(p) => b = "A" \/ quarantine[p] = "A"
       /\ Ours(p) /\ target[p] = Before(p) => b = Before(p)
  BY <1>2, <1>3, <1>9, <1>10, <1>11, <1>13, <1>14
<1>24. /\ g \in CallRecord /\ held' = [held EXCEPT ![w] = g] /\ b \in Bytes
       /\ target' = [target EXCEPT ![p] = b] /\ linked' \subseteq Path
       /\ stage' \in [Path -> {"absent", "partial", "B"}] /\ p = Here(w)
  BY <1>2, <1>9, <1>10, <1>12
<1>25. QED
  BY <1>1, <1>15, <1>17, <1>21, <1>22, <1>23, <1>24, UndoMoves

LEMMA RestoreKeeps ==
    ASSUME CoreInv, NEW w \in Process, Restore(w) PROVE CoreInv'
<1>1. Busy(w) /\ held[w].pc = "restore" /\ held[w].pc \in BackSteps
  BY DEF Restore, At, BackSteps
<1>2. PICK h, p, j : h = held[w] /\ p = Here(w) /\ j = journal
  OBVIOUS
<1>3. /\ h \in CallRecord /\ h.at \in DOMAIN Items /\ p = Items[h.at] /\ p \in Path
      /\ h.journal \in Journal /\ JournalOK(h.journal) /\ (Clean => h.blocked = {})
      /\ (j.status = "COMMITTED" => ~snapshot) /\ UndoKnows(h, j) /\ JournalOK(j)
      /\ plan \in Plans
  BY <1>1, <1>2, AtBack DEF Storable
<1>4. Removes(p) /\ (Ours(p) => target[p] \in {"absent", "A"}) /\ Before(p) = "A"
  BY <1>1, <1>2, <1>3, PlanFacts DEF UndoKnows, UndoRest
<1>5. PICK back \in BOOLEAN : back = (target[p] = "absent" /\ quarantine[p] = "A")
  OBVIOUS
<1>6. Ours(p) => back \/ target[p] = "A"
  BY <1>3, <1>4, <1>5 DEF CoreInv, SourceSurvives, Ours
<1>7. PICK k : k = IF back \/ target[p] = "A" THEN h ELSE Blocked(h, p)
  OBVIOUS
<1>8. /\ k \in CallRecord /\ k.at = h.at /\ k.journal = h.journal /\ k.projection = h.projection
      /\ k.blocked = IF back \/ target[p] = "A" THEN h.blocked ELSE h.blocked \cup {p}
  <2>1. CASE back \/ target[p] = "A"
    BY <1>3, <1>7, <2>1
  <2>2. CASE ~(back \/ target[p] = "A")
    BY <1>3, <1>7, <2>2, BlockedFacts
  <2>3. QED
    BY <2>1, <2>2
<1>9. PICK g : g = [k EXCEPT !.pc = "clear"]
  OBVIOUS
<1>10. /\ g \in CallRecord /\ g.pc = "clear" /\ g.at = h.at /\ g.journal = h.journal
       /\ g.projection = h.projection /\ g.blocked = k.blocked
  BY <1>8, <1>9 DEF CallRecord, Steps_, UndoSteps
<1>11. PICK b : b = IF back THEN "A" ELSE target[p]
  OBVIOUS
<1>12. /\ held' = [held EXCEPT ![w] = g] /\ target' = [target EXCEPT ![p] = b]
       /\ UNCHANGED <<directory, stage, linked, quarantine, snapshot, journal, proof, environment>>
  BY <1>2, <1>5, <1>7, <1>9, <1>11 DEF Restore, CoreInv, CallsTyped
<1>13. /\ target \in [Path -> Bytes] /\ linked' \subseteq Path /\ b \in Bytes
       /\ stage' \in [Path -> {"absent", "partial", "B"}]
       /\ \A q \in Path : target'[q] = IF q = p THEN b ELSE target[q]
  BY <1>3, <1>11, <1>12 DEF CoreInv, SharedTyped, Bytes
<1>14. Ours(p) => b = "A"
  BY <1>6, <1>11
<1>15. Clean => g.blocked = {}
  BY <1>3, <1>6, <1>8, <1>10 DEF Clean, Ours
<1>16. \A i \in {j, h.journal} : JournalOK(i)'
  <2> SUFFICES ASSUME NEW i \in {j, h.journal} PROVE JournalOK(i)'
    OBVIOUS
  <2>1. JournalOK(i)
    BY <1>3
  <2>2. Clean => b # "B"
    BY <1>14 DEF Clean, Ours
  <2>3. UNCHANGED environment /\ \A q \in Path : q # p /\ q \in linked => q \in linked'
    BY <1>12
  <2>4. QED
    BY <1>3, <1>12, <1>13, <1>14, <2>1, <2>2, <2>3, JournalMoved
<1>17. JournalOK(journal)' /\ JournalOK(g.journal)'
  BY <1>2, <1>10, <1>12, <1>16
<1>18. \A q : Before(q)' = Before(q) /\ (Ours(q)' <=> Ours(q))
  BY <1>12 DEF environment, Before, Ours
<1>19. \A i \in DOMAIN Items : i > g.at \/ i = g.at => Back(g, Items[i])'
  <2>1. \A i \in DOMAIN Items : i > h.at => Items[i] # p /\ Items[i] \in Path /\ Back(h, Items[i])
    BY <1>1, <1>2, <1>3, ItemFacts DEF UndoKnows, UndoRest
  <2>2. \A i \in DOMAIN Items : i > h.at => Back(g, Items[i])'
    BY <1>8, <1>10, <1>13, <1>18, <2>1 DEF Back
  <2>3. Back(g, p)'
    BY <1>3, <1>4, <1>13, <1>14, <1>18 DEF Back
  <2>4. QED
    BY <1>3, <1>10, <2>2, <2>3
<1>20. UndoRest(g, journal)'
  <2>1. g.pc \notin LastSteps /\ g.pc \notin {"recover", "drop", "restore"}
    BY <1>10 DEF LastSteps
  <2>2. journal' = j /\ (j.status = "COMMITTED" => ~snapshot')
    BY <1>2, <1>3, <1>12
  <2>3. QED
    BY <1>19, <2>1, <2>2 DEF UndoRest, LastSteps
<1>21. g.pc \in UndoSteps \ {"recover"} /\ g.at > 0 /\ g.at \in DOMAIN Items
  BY <1>3, <1>10, ItemFacts DEF UndoSteps
<1>22. /\ UNCHANGED <<directory, quarantine, snapshot, journal, proof, environment>>
       /\ g.journal \in Journal /\ g.projection = held[w].projection
       /\ Ours(p) => b \in {Before(p), target[p]} \/ (Removes(p) /\ b = "absent")
       /\ Ours(p) /\ Removes(p) => b = "A" \/ quarantine[p] = "A"
       /\ Ours(p) /\ target[p] = Before(p) => b = Before(p)
  BY <1>2, <1>3, <1>4, <1>10, <1>12, <1>14
<1>23. /\ g \in CallRecord /\ held' = [held EXCEPT ![w] = g] /\ b \in Bytes
       /\ target' = [target EXCEPT ![p] = b] /\ linked' \subseteq Path
       /\ stage' \in [Path -> {"absent", "partial", "B"}] /\ p = Here(w)
  BY <1>2, <1>10, <1>12, <1>13
<1>24. QED
  BY <1>1, <1>15, <1>17, <1>20, <1>21, <1>22, <1>23, UndoMoves

LEMMA ClearStageKeeps ==
    ASSUME CoreInv, NEW w \in Process, ClearStage(w) PROVE CoreInv'
<1>1. Busy(w) /\ held[w].pc = "clear" /\ held[w].pc \in BackSteps
  BY DEF ClearStage, At, BackSteps
<1>2. PICK h, p, j : h = held[w] /\ p = Here(w) /\ j = journal
  OBVIOUS
<1>3. /\ h \in CallRecord /\ h.at \in DOMAIN Items /\ p = Items[h.at] /\ p \in Path
      /\ h.journal \in Journal /\ JournalOK(h.journal) /\ (Clean => h.blocked = {})
      /\ (j.status = "COMMITTED" => ~snapshot) /\ UndoKnows(h, j) /\ JournalOK(j)
      /\ plan \in Plans /\ h.pc = "clear" /\ Back(h, p)
  BY <1>1, <1>2, AtBack DEF Storable
<1>4. PICK k : k = Recorded(h, p)
  OBVIOUS
<1>5. /\ k \in CallRecord /\ k.at = h.at /\ k.blocked = h.blocked /\ k.projection = h.projection
      /\ k.journal \in Journal /\ JournalOK(k.journal)
  BY <1>3, <1>4, UndoneFacts
<1>6. PICK g : g = Lower(k)
  OBVIOUS
<1>7. UndoRest(h, j) /\ h.pc \in BackSteps /\ Back(k, Items[h.at])
  BY <1>1, <1>2, <1>3, <1>5 DEF UndoKnows, Back
<1>8. /\ g \in CallRecord /\ g.pc \in {"undo", "rmdir"} /\ g.at > 0 /\ g.at \in DOMAIN Items
      /\ g.journal = k.journal /\ g.projection = k.projection /\ g.blocked = k.blocked
      /\ UndoRest(g, j)
  BY <1>3, <1>5, <1>6, <1>7, LowerFacts
<1>9. /\ held' = [held EXCEPT ![w] = g] /\ (\A q \in Path : q # p /\ q \in linked => q \in linked')
      /\ UNCHANGED <<target, directory, quarantine, snapshot, journal, proof, environment>>
  BY <1>2, <1>4, <1>6 DEF ClearStage, RemoveStage, Undone
<1>10. PICK b : b = target[p]
  OBVIOUS
<1>11. /\ target \in [Path -> Bytes] /\ linked' \subseteq Path /\ b \in Bytes
       /\ stage' \in [Path -> {"absent", "partial", "B"}] /\ target' = [target EXCEPT ![p] = b]
  BY <1>3, <1>9, <1>10 DEF CoreInv, SharedTyped, ClearStage, RemoveStage
<1>12. Clean => b = Before(p) /\ b # "B"
  BY <1>3, <1>10, PlanFacts DEF Back, Clean, Ours
<1>13. \A i \in {j, k.journal} : JournalOK(i)'
  <2> SUFFICES ASSUME NEW i \in {j, k.journal} PROVE JournalOK(i)'
    OBVIOUS
  <2>1. JournalOK(i)
    BY <1>3, <1>5
  <2>2. p = Profile /\ plan[p] = "REPLACE" /\ Ours(p) /\ i.entry[p] \in {"PENDING", "ROLLED_BACK"}
            => b = "A"
    BY <1>10, <2>1 DEF JournalOK, PendingOK
  <2>3. UNCHANGED environment
    BY <1>9
  <2>4. QED
    BY <1>3, <1>9, <1>11, <1>12, <2>1, <2>2, <2>3, JournalMoved
<1>14. JournalOK(journal)' /\ JournalOK(g.journal)'
  BY <1>2, <1>8, <1>9, <1>13
<1>15. UndoRest(g, journal)'
  <2>1. /\ target' = target /\ snapshot' = snapshot /\ journal' = j
        /\ \A q : Before(q)' = Before(q) /\ (Ours(q)' <=> Ours(q))
    BY <1>2, <1>9 DEF environment, Before, Ours
  <2>2. \A q : Back(g, q) => Back(g, q)'
    BY <2>1 DEF Back
  <2>3. QED
    BY <1>8, <2>1, <2>2 DEF UndoRest
<1>16. /\ UNCHANGED <<directory, quarantine, snapshot, journal, proof, environment>>
       /\ g.journal \in Journal /\ g.projection = held[w].projection /\ (Clean => g.blocked = {})
       /\ Ours(p) => b \in {Before(p), target[p]} \/ (Removes(p) /\ b = "absent")
       /\ Ours(p) /\ Removes(p) => b = "A" \/ quarantine[p] = "A"
       /\ Ours(p) /\ target[p] = Before(p) => b = Before(p)
  BY <1>2, <1>3, <1>5, <1>8, <1>9, <1>10 DEF CoreInv, SourceSurvives, Ours
<1>17. g.pc \in UndoSteps \ {"recover"} /\ g.at > 0 /\ g.at \in DOMAIN Items
  BY <1>8 DEF UndoSteps
<1>18. /\ g \in CallRecord /\ held' = [held EXCEPT ![w] = g] /\ b \in Bytes
       /\ target' = [target EXCEPT ![p] = b] /\ linked' \subseteq Path
       /\ stage' \in [Path -> {"absent", "partial", "B"}] /\ p = Here(w)
  BY <1>2, <1>8, <1>9, <1>11
<1>19. QED
  BY <1>1, <1>14, <1>15, <1>16, <1>17, <1>18, UndoMoves

LEMMA PurgeQuarantineKeeps ==
    ASSUME CoreInv, NEW w \in Process, PurgeQuarantine(w) PROVE CoreInv'
<1>1. Busy(w) /\ held[w].pc = "purge" /\ held[w].pc \in UndoSteps
  BY DEF PurgeQuarantine, At, UndoSteps
<1>2. PICK h, j : h = held[w] /\ j = journal
  OBVIOUS
<1>3. /\ InLock(h) /\ h \in CallRecord /\ h.journal \in Journal /\ JournalOK(h.journal)
      /\ UndoKnows(h, j) /\ JournalOK(j) /\ plan \in Plans /\ h.at > 0 /\ h.projection \in Projection
  BY <1>1, <1>2, AtUndo DEF Storable
<1>4. (\A q \in Path : Back(h, q)) /\ h.blocked = {} /\ (j.status = "COMMITTED" => ~snapshot)
  BY <1>1, <1>2, <1>3 DEF UndoKnows, UndoRest, LastSteps
<1>5. AllBefore
  BY <1>4 DEF AllBefore, Back
<1>6. PICK g : g = [h EXCEPT !.pc = "close"]
  OBVIOUS
<1>7. /\ g \in CallRecord /\ g.pc = "close" /\ g.at = h.at /\ g.journal = h.journal
      /\ g.projection = h.projection /\ g.blocked = {}
  BY <1>3, <1>4, <1>6 DEF CallRecord, Steps_, UndoSteps
<1>8. /\ held' = [held EXCEPT ![w] = g] /\ quarantine' = [p \in Path |-> "absent"]
      /\ UNCHANGED <<target, directory, stage, linked, snapshot, journal, proof, environment>>
  BY <1>2, <1>6 DEF PurgeQuarantine, Goto, CoreInv, CallsTyped
<1>9. /\ target' \in [Path -> Bytes] /\ linked' \subseteq Path
      /\ stage' \in [Path -> {"absent", "partial", "B"}]
      /\ quarantine' \in [Path -> {"absent", "partial", "A"}]
  BY <1>8 DEF CoreInv, SharedTyped
<1>10. /\ target' = target /\ touched' = touched /\ failed' = failed /\ linked' = linked
       /\ \A q : /\ Before(q)' = Before(q) /\ After(q)' = After(q) /\ (Ours(q)' <=> Ours(q))
                 /\ (Removes(q)' <=> Removes(q)) /\ (Stages(q)' <=> Stages(q))
  BY <1>8 DEF environment, Before, After, Ours, Removes, Stages
<1>11. TargetOK' /\ AllBefore'
  BY <1>5, <1>10 DEF CoreInv, TargetOK, AllBefore
<1>12. SourceSurvives'
  BY <1>3, <1>5, <1>10, PlanFacts DEF SourceSurvives, AllBefore, Ours
<1>13. \A i : JournalOK(i) => JournalOK(i)'
  BY <1>8, <1>10 DEF JournalOK, PendingOK, ProvenOK, Clean, environment
<1>14. JournalOK(journal)' /\ JournalOK(g.journal)'
  BY <1>2, <1>3, <1>7, <1>8, <1>13
<1>15. Placed(g) /\ InLock(g) /\ g.pc \notin CoreSteps
  BY <1>3, <1>7, NoneAssumption
  DEF Placed, InLock, UndoSteps, CoreSteps, SideSteps, ItemSteps, EarlySteps, BackSteps
<1>16. LockKnows(g, journal)'
  <2>1. \A q \in Path : Back(g, q)'
    BY <1>5, <1>10 DEF AllBefore, Back
  <2>2. journal' = j /\ (j.status = "COMMITTED" => ~snapshot')
    BY <1>2, <1>4, <1>8
  <2>3. UndoKnows(g, journal)'
    BY <1>7, <2>1, <2>2 DEF UndoKnows, UndoRest, BackSteps
  <2>4. QED
    BY <1>14, <1>15, <2>3 DEF LockKnows
<1>17. journal.status = "COMMITTED" => ~snapshot
  BY <1>2, <1>4
<1>18. /\ InLock(held[w]) /\ g.projection = held[w].projection /\ held' = [held EXCEPT ![w] = g]
       /\ UNCHANGED <<directory, snapshot, journal, proof, environment>>
  BY <1>2, <1>3, <1>7, <1>8
<1>19. journal.status \in {"PLANNED", "ROLLED_BACK"} => AllBefore'
  BY <1>11
<1>20. QED
  BY <1>1, <1>7, <1>9, <1>11, <1>12, <1>14, <1>15, <1>16, <1>17, <1>18, <1>19, FileStep

-----------------------------------------------------------------------------
(* Calls that die, the consumer, and the whole.                              *)
LEMMA CrashKeeps ==
    ASSUME CoreInv, NEW w \in Process, Crash(w) PROVE CoreInv'
<1>1. /\ Busy(w) /\ Return(w) /\ mishaps' = mishaps + 1
      /\ UNCHANGED <<target, directory, linked, snapshot, journal, proof, plan, touched, late, failed, edits>>
  BY DEF Crash, Mishap
<1>2. /\ mishaps' \in Nat /\ failed' \in BOOLEAN /\ (failed => failed') /\ directory' \in BOOLEAN
      /\ (Clean' => Clean)
  BY <1>1 DEF CoreInv, SharedTyped, Clean
<1>3. ASSUME UNCHANGED quarantine, stage' \in [Path -> {"absent", "partial", "B"}], InLock(held[w])
      PROVE  CoreInv'
  <2>1. journal \in Journal /\ journal # None
    BY <1>1, <1>3, HolderFacts, NoneAssumption
  <2>2. Storable(journal) /\ (journal.status = "RECOVERY_BLOCKED" => ~Clean')
    BY <1>2, <2>1, StorableNow DEF CoreInv, DiskOK
  <2>3. PICK j : j = journal
    OBVIOUS
  <2>4. UNCHANGED Kept /\ UNCHANGED proof /\ UNCHANGED edits
    BY <1>1, <1>3 DEF Kept
  <2>5. Storable(j) /\ journal' = j /\ (j.status = "RECOVERY_BLOCKED" => ~Clean')
    BY <1>1, <2>2, <2>3
  <2>6. QED
    BY <1>1, <1>2, <1>3, <2>4, <2>5, HolderReturns
<1>4. CASE UNCHANGED <<stage, quarantine>>
  <2>1. CASE InLock(held[w])
    BY <1>3, <1>4, <2>1 DEF CoreInv, SharedTyped
  <2>2. CASE ~InLock(held[w])
    <3>1. UNCHANGED <<files, journal, plan, touched>>
      BY <1>1, <1>4 DEF files
    <3>2. PICK g : g = Idle
      OBVIOUS
    <3>3. held' = [held EXCEPT ![w] = g]
      BY <1>1, <3>2 DEF Return
    <3>4. /\ sidecar' \in [Sidecar -> Bytes] /\ preimage' \in [Sidecar -> Bytes]
          /\ projection' \in Projection \cup {None} /\ (projection # None => projection' # None)
          /\ edits' = edits
      BY <1>1 DEF CoreInv, SharedTyped, proof
    <3>5. QED
      BY <1>2, <2>2, <3>1, <3>2, <3>3, <3>4, VisitorMoves
  <2>3. QED
    BY <2>1, <2>2
<1>5. PICK p : p = Here(w)
  OBVIOUS
<1>6. ASSUME At(w, "entry"), Stages(p), stage[p] = "absent",
             stage' = [stage EXCEPT ![p] = "partial"], UNCHANGED quarantine
      PROVE  CoreInv'
  <2>1. InLock(held[w])
    BY <1>6 DEF At, InLock, CoreSteps
  <2>2. stage' \in [Path -> {"absent", "partial", "B"}]
    BY <1>6 DEF CoreInv, SharedTyped
  <2>3. QED
    BY <1>3, <1>6, <2>1, <2>2
<1>7. ASSUME At(w, "backup") \/ At(w, "entry"), quarantine[p] = "absent",
             quarantine' = [quarantine EXCEPT ![p] = "partial"], UNCHANGED stage
      PROVE  CoreInv'
  <2>1. InLock(held[w])
    BY <1>7 DEF At, InLock, CoreSteps
  <2>2. /\ \A v \in Process : v # w /\ Busy(v) => ~InLock(held[v])
        /\ journal \in Journal /\ journal # None
    BY <1>1, <2>1, HolderFacts, NoneAssumption
  <2>3. quarantine' \in [Path -> {"absent", "partial", "A"}]
        /\ \A q \in Path : quarantine[q] = "A" => quarantine'[q] = "A"
    BY <1>7 DEF CoreInv, SharedTyped
  <2>4. SharedTyped' /\ projection' = projection
    BY <1>1, <1>2, <1>7, <2>3 DEF CoreInv, SharedTyped, proof
  <2>5. \A q : /\ Before(q)' = Before(q) /\ After(q)' = After(q) /\ (Ours(q)' <=> Ours(q))
               /\ (Removes(q)' <=> Removes(q)) /\ (Stages(q)' <=> Stages(q))
    BY <1>1 DEF Before, After, Ours, Removes, Stages
  <2>6. TargetOK' /\ SourceSurvives'
    BY <1>1, <2>3, <2>5 DEF CoreInv, TargetOK, SourceSurvives
  <2>7. (AllBefore' <=> AllBefore) /\ (AllAfter' <=> AllAfter)
    BY <1>1, <2>5 DEF AllBefore, AllAfter
  <2>8. Fresh'
    BY <1>1, <2>7 DEF CoreInv, Fresh
  <2>9. \A i : JournalOK(i) => JournalOK(i)'
    BY <1>1, <2>5, <1>2 DEF JournalOK, PendingOK, ProvenOK
  <2>10. DiskOK'
    <3>1. PICK j : j = journal
      OBVIOUS
    <3>2. JournalOK(j)'
      BY <2>2, <2>9, <3>1 DEF CoreInv, DiskOK
    <3>3. JournalOK(journal)'
      BY <1>1, <3>1, <3>2
    <3>4. QED
      BY <1>1, <1>2, <2>2, <2>7, <3>3 DEF CoreInv, DiskOK
  <2>11. PICK g : g = Idle
    OBVIOUS
  <2>12. held' = [held EXCEPT ![w] = g]
    BY <1>1, <2>11 DEF Return
  <2>13. QED
    BY <2>2, <2>4, <2>6, <2>8, <2>10, <2>11, <2>12, AloneStep
<1>8. QED
  BY <1>4, <1>5, <1>6, <1>7 DEF Crash

\* What the consumer changes is no longer ours.
LEMMA EditFacts ==
    ASSUME CoreInv, NEW p \in Path \cup Sidecar, NEW b \in Bytes, Edit(p, b)
    PROVE  /\ target' \in [Path -> Bytes] /\ linked' \subseteq Path /\ touched' = touched \cup {p}
           /\ sidecar' \in [Sidecar -> Bytes] /\ edits' \in Nat
           /\ UNCHANGED <<plan, directory, stage, quarantine, snapshot, journal, preimage,
                          projection, held, failed, mishaps>>
           /\ ~Clean'
           /\ \A q \in Path : Ours(q)' => Ours(q) /\ target'[q] = target[q]
           /\ \A q : /\ Before(q)' = Before(q) /\ After(q)' = After(q)
                     /\ (Removes(q)' <=> Removes(q)) /\ (Stages(q)' <=> Stages(q))
<1>1. /\ touched' = touched \cup {p} /\ edits' = edits + 1
      /\ UNCHANGED <<plan, directory, stage, quarantine, snapshot, journal, preimage,
                     projection, held, failed, mishaps>>
  BY DEF Edit
<1>2. /\ target \in [Path -> Bytes] /\ linked \subseteq Path /\ sidecar \in [Sidecar -> Bytes]
      /\ edits \in Nat
  BY DEF CoreInv, SharedTyped
<1>3. \/ p \in Path /\ target' = [target EXCEPT ![p] = b] /\ linked' = linked \ {p} /\ sidecar' = sidecar
      \/ p \in Sidecar /\ sidecar' = [sidecar EXCEPT ![p] = b] /\ target' = target /\ linked' = linked
  BY DEF Edit
<1>4. /\ target' \in [Path -> Bytes] /\ linked' \subseteq Path /\ sidecar' \in [Sidecar -> Bytes]
      /\ edits' \in Nat
  BY <1>1, <1>2, <1>3
<1>5. \A q \in Path : q # p => target'[q] = target[q]
  BY <1>2, <1>3
<1>6. ~Clean'
  BY <1>1 DEF Clean
<1>7. \A q \in Path : Ours(q)' => Ours(q) /\ target'[q] = target[q]
  BY <1>1, <1>5 DEF Ours
<1>8. \A q : /\ Before(q)' = Before(q) /\ After(q)' = After(q)
             /\ (Removes(q)' <=> Removes(q)) /\ (Stages(q)' <=> Stages(q))
  BY <1>1 DEF Before, After, Removes, Stages
<1>9. QED
  BY <1>1, <1>4, <1>6, <1>7, <1>8

LEMMA EditKeeps ==
    ASSUME CoreInv, NEW p \in Path \cup Sidecar, NEW b \in Bytes, Edit(p, b) PROVE CoreInv'
<1>1. /\ \A q \in Path : Ours(q)' => Ours(q) /\ target'[q] = target[q]
      /\ \A q : /\ Before(q)' = Before(q) /\ After(q)' = After(q)
                /\ (Removes(q)' <=> Removes(q)) /\ (Stages(q)' <=> Stages(q))
      /\ ~Clean'
      /\ UNCHANGED <<plan, directory, stage, quarantine, snapshot, journal, preimage,
                     projection, held, failed, mishaps>>
  BY EditFacts
<1>2. SharedTyped'
  BY <1>1, EditFacts DEF CoreInv, SharedTyped
<1>3. CallsTyped'
  BY <1>1 DEF CoreInv, CallsTyped, CallTyped, InLock, Busy
<1>4. TargetOK' /\ (AllBefore => AllBefore') /\ (AllAfter => AllAfter')
  BY <1>1 DEF CoreInv, TargetOK, AllBefore, AllAfter
<1>5. SourceSurvives'
  BY <1>1 DEF CoreInv, SourceSurvives, Ours
<1>6. Fresh'
  BY <1>1, <1>4 DEF CoreInv, Fresh
<1>7. \A j : JournalOK(j) => JournalOK(j)'
  BY <1>1, ItemFacts DEF JournalOK, PendingOK, ProvenOK
<1>8. DiskOK'
  <2>1. PICK j : j = journal
    OBVIOUS
  <2>2. journal # None => JournalOK(j)'
    BY <1>7, <2>1 DEF CoreInv, DiskOK
  <2>3. journal' # None => JournalOK(journal)'
    BY <1>1, <2>1, <2>2
  <2>4. QED
    BY <1>1, <1>4, <2>3 DEF CoreInv, DiskOK
<1>9. Sole'
  BY <1>1 DEF CoreInv, Sole, InLock, Busy
<1>10. Holders'
  <2> SUFFICES ASSUME NEW v \in Process, Busy(v)', InLock(held'[v]) PROVE LockKnows(held[v], journal)'
    BY DEF Holders, InLock
  <2>1. held'[v] = held[v] /\ Busy(v) /\ InLock(held[v])
    BY <1>1 DEF Busy
  <2>2. PICK h, j : h = held[v] /\ j = journal
    OBVIOUS
  <2>3. /\ LockKnows(h, j) /\ CallTyped(h) /\ h \in CallRecord /\ InLock(h)
    BY <2>1, <2>2, HolderFacts
  <2>4. JournalOK(h.journal)'
    <3>1. PICK i : i = h.journal
      OBVIOUS
    <3>2. JournalOK(i)'
      BY <1>7, <2>3, <3>1 DEF LockKnows
    <3>3. QED
      BY <3>1, <3>2
  <2>5. ASSUME CoreKnows(h, j) PROVE CoreKnows(h, j)'
    <3>1. h.pc \in ItemSteps => Items[h.at] \in Path
      BY <2>3, ItemFacts DEF CallTyped
    <3>2. OthersKnow(h) => OthersKnow(h)'
      BY <1>1, ItemFacts DEF OthersKnow
    <3>3. h.pc \in ItemSteps /\ ItemKnows(h, Items[h.at]) => ItemKnows(h, Items[h.at])'
      BY <1>1, <3>1 DEF ItemKnows
    <3>4. QED
      BY <1>4, <2>5, <3>2, <3>3 DEF CoreKnows
  <2>6. ASSUME UndoKnows(h, j) PROVE UndoKnows(h, j)'
    <3>1. h.pc \in BackSteps => Items[h.at] \in Path
      BY <2>3, ItemFacts DEF CallTyped
    <3>2. \A q \in Path : Back(h, q) => Back(h, q)'
      BY <1>1 DEF Back
    <3>3. UndoRest(h, j)'
      <4>1. UndoRest(h, j) /\ snapshot' = snapshot
        BY <1>1, <2>6 DEF UndoKnows
      <4>2. \A k \in DOMAIN Items : Items[k] \in Path
        BY ItemFacts
      <4>3. /\ h.pc = "drop" => Stages(Items[h.at])' /\ (Ours(Items[h.at])' => target'[Items[h.at]] = "B")
            /\ h.pc = "restore" => /\ Removes(Items[h.at])'
                                   /\ Ours(Items[h.at])' => target'[Items[h.at]] \in {"absent", "A"}
        BY <1>1, <3>1, <4>1 DEF UndoRest, BackSteps
      <4>4. QED
        BY <3>2, <4>1, <4>2, <4>3 DEF UndoRest
    <3>4. QED
      BY <1>1, <3>3 DEF UndoKnows
  <2>7. LockKnows(h, j)'
    BY <2>3, <2>4, <2>5, <2>6 DEF LockKnows
  <2>8. QED
    BY <1>1, <2>1, <2>2, <2>7
<1>11. QED
  BY <1>2, <1>3, <1>4, <1>5, <1>6, <1>8, <1>9, <1>10 DEF CoreInv

LEMMA InitHolds == ASSUME Init PROVE CoreInv
<1>1. \A w \in Process : ~Busy(w)
  BY DEF Init, Busy
<1>2. plan \in Plans /\ \A p \in Path : target[p] = Before(p) /\ Before(p) \in {"absent", "A"}
  BY DEF Init, Before
<1>3. SharedTyped
  <2>1. target \in [Path -> Bytes]
    BY <1>2 DEF Init, Bytes
  <2>2. directory \in BOOLEAN
    BY DEF Init
  <2>3. /\ stage \in [Path -> {"absent", "partial", "B"}] /\ linked \subseteq Path
        /\ quarantine \in [Path -> {"absent", "partial", "A"}] /\ snapshot \in BOOLEAN
        /\ journal = None /\ projection = None /\ failed \in BOOLEAN /\ edits \in Nat
        /\ mishaps \in Nat
    BY DEF Init
  <2>4. sidecar \in [Sidecar -> Bytes] /\ preimage \in [Sidecar -> Bytes]
    BY DEF Init, Bytes
  <2>5. QED
    BY <1>2, <2>1, <2>2, <2>3, <2>4 DEF SharedTyped
<1>4. CallsTyped
  BY <1>1 DEF Init, CallsTyped
<1>5. TargetOK /\ AllBefore
  BY <1>2 DEF TargetOK, AllBefore
<1>6. SourceSurvives
  BY <1>2 DEF SourceSurvives, Before, Removes
<1>7. Fresh /\ DiskOK
  BY <1>5 DEF Init, Fresh, DiskOK
<1>8. Holders /\ Sole
  BY <1>1 DEF Holders, Sole
<1>9. QED
  BY <1>3, <1>4, <1>5, <1>6, <1>7, <1>8 DEF CoreInv

LEMMA ApplyStepKeeps ==
    ASSUME CoreInv, NEW w \in Process, ApplySteps(w) PROVE CoreInv'
<1>1. CASE Preflight(w) BY <1>1, PreflightKeeps
<1>2. CASE Open(w) BY <1>2, OpenKeeps
<1>3. CASE Begin(w) BY <1>3, BeginKeeps
<1>4. CASE Preserve(w) BY <1>4, PreserveKeeps
<1>5. CASE MakeDirectory(w) \/ WriteStage(w) \/ LookAtSource(w) BY <1>5, StageStepsKeep
<1>6. CASE RecordDirectory(w) BY <1>6, RecordDirectoryKeeps
<1>7. CASE RecordStage(w) BY <1>7, RecordStageKeeps
<1>8. CASE BackUp(w) BY <1>8, BackUpKeeps
<1>9. CASE RecordBackUp(w) \/ RecordRemoved(w) \/ RecordInstalled(w) BY <1>9, RecordEntryKeeps
<1>10. CASE UnlinkSource(w) BY <1>10, UnlinkSourceKeeps
<1>11. CASE Install(w) BY <1>11, InstallKeeps
<1>12. CASE Unstage(w) BY <1>12, UnstageKeeps
<1>13. CASE Verify(w) BY <1>13, VerifyKeeps
<1>14. CASE CheckAfter(w) BY <1>14, CheckAfterKeeps
<1>15. CASE Publish(w) BY <1>15, PublishKeeps
<1>16. CASE RecordSnapshot(w) \/ Commit(w) BY <1>16, CommitKeeps
<1>17. CASE ReadBack(w) BY <1>17, ReadBackKeeps
<1>18. CASE Fail(w) BY <1>18, FailKeeps
<1>19. QED
  BY <1>1, <1>2, <1>3, <1>4, <1>5, <1>6, <1>7, <1>8, <1>9, <1>10, <1>11, <1>12, <1>13, <1>14,
     <1>15, <1>16, <1>17, <1>18 DEF ApplySteps

LEMMA RecoveryStepKeeps ==
    ASSUME CoreInv, NEW w \in Process, RecoverySteps(w) PROVE CoreInv'
<1>1. CASE RetractSnapshot(w) BY <1>1, RetractSnapshotKeeps
<1>2. CASE UndoKept(w) BY <1>2, UndoKeptKeeps
<1>3. CASE PassProfile(w) BY <1>3, PassProfileKeeps
<1>4. CASE LookBack(w) BY <1>4, LookBackKeeps
<1>5. CASE DropInstalled(w) BY <1>5, DropInstalledKeeps
<1>6. CASE Restore(w) BY <1>6, RestoreKeeps
<1>7. CASE ClearStage(w) BY <1>7, ClearStageKeeps
<1>8. CASE UndoFails(w) BY <1>8, UndoFailsKeeps
<1>9. CASE RemoveDirectory(w) BY <1>9, RemoveDirectoryKeeps
<1>10. CASE PurgeQuarantine(w) BY <1>10, PurgeQuarantineKeeps
<1>11. CASE CloseRecovery(w) BY <1>11, CloseRecoveryKeeps
<1>12. CASE Renew(w) BY <1>12, RenewKeeps
<1>13. QED
  BY <1>1, <1>2, <1>3, <1>4, <1>5, <1>6, <1>7, <1>8, <1>9, <1>10, <1>11, <1>12 DEF RecoverySteps

LEMMA ConnectedStepKeeps ==
    ASSUME CoreInv, NEW w \in Process, ConnectedSteps(w) PROVE CoreInv'
<1>1. CASE SavePreimage(w) BY <1>1, SavePreimageKeeps
<1>2. CASE Prepare(w) BY <1>2, PrepareKeeps
<1>3. CASE Project(w) BY <1>3, ProjectKeeps
<1>4. CASE Aim(w) BY <1>4, AimKeeps
<1>5. CASE Compare(w) \/ Reread(w) \/ Prove(w) BY <1>5, CompareKeeps
<1>6. CASE Swap(w) \/ RestoreSidecar(w) BY <1>6, SwapKeeps
<1>7. CASE RecordProjected(w) BY <1>7, RecordProjectedKeeps
<1>8. CASE CommitProof(w) \/ Seal(w) \/ SealBack(w) BY <1>8, CommitProofKeeps
<1>9. CASE FailProjection(w) BY <1>9, FailProjectionKeeps
<1>10. CASE Unwind(w) BY <1>10, UnwindKeeps
<1>11. CASE EnterCore(w) BY <1>11, EnterCoreKeeps
<1>12. CASE CheckSidecars(w) BY <1>12, CheckSidecarsKeeps
<1>13. CASE LookAtSidecar(w) BY <1>13, LookAtSidecarKeeps
<1>14. CASE RecordRestored(w) BY <1>14, RecordRestoredKeeps
<1>15. QED
  BY <1>1, <1>2, <1>3, <1>4, <1>5, <1>6, <1>7, <1>8, <1>9, <1>10, <1>11, <1>12, <1>13, <1>14
  DEF ConnectedSteps

LEMMA StutterKeeps ==
    ASSUME CoreInv, UNCHANGED vars PROVE CoreInv'
<1>1. UNCHANGED Kept /\ UNCHANGED journal /\ UNCHANGED environment /\ held' = held
  BY DEF vars, files, environment, Kept
<1>2. failed' = failed /\ projection' = projection
  BY DEF vars, environment, proof
<1>3. TargetOK' /\ Fresh' /\ DiskOK' /\ SourceSurvives'
  BY <1>1, <1>2, DiskStays
<1>4. SharedTyped'
  BY DEF vars, files, environment, proof, CoreInv, SharedTyped
<1>5. CallsTyped' /\ Sole'
  BY <1>1, <1>2 DEF CoreInv, CallsTyped, CallTyped, Sole, InLock, Busy
<1>6. Holders'
  <2> SUFFICES ASSUME NEW v \in Process, Busy(v)', InLock(held'[v]) PROVE LockKnows(held[v], journal)'
    BY DEF Holders, InLock
  <2>1. LockKnows(held[v], journal) /\ held'[v] = held[v]
    BY <1>1 DEF CoreInv, Holders, Busy, InLock
  <2>2. PICK h, j : h = held[v] /\ j = journal
    OBVIOUS
  <2>3. LockKnows(h, j)'
    BY <1>1, <1>2, <2>1, <2>2, LockStays
  <2>4. QED
    BY <1>1, <2>1, <2>2, <2>3
<1>7. QED
  BY <1>3, <1>4, <1>5, <1>6 DEF CoreInv

LEMMA CoreInvariant == Spec => []CoreInv
<1>1. Init => CoreInv
  BY InitHolds
<1>2. CoreInv /\ [Next]_vars => CoreInv'
  <2> SUFFICES ASSUME CoreInv, [Next]_vars PROVE CoreInv'
    OBVIOUS
  <2>1. CASE UNCHANGED vars
    BY <2>1, StutterKeeps
  <2>2. ASSUME NEW w \in Process, Calls(w) PROVE CoreInv'
    BY <2>2, StartKeeps DEF Calls
  <2>3. ASSUME NEW w \in Process, Steps(w) PROVE CoreInv'
    BY <2>3, ApplyStepKeeps, RecoveryStepKeeps, ConnectedStepKeeps DEF Steps
  <2>4. ASSUME NEW w \in Process, Crash(w) PROVE CoreInv'
    BY <2>4, CrashKeeps
  <2>5. ASSUME NEW p \in Path \cup Sidecar, NEW b \in Bytes \ {"A"}, Edit(p, b) PROVE CoreInv'
    BY <2>5, EditKeeps
  <2>6. QED
    BY <2>1, <2>2, <2>3, <2>4, <2>5 DEF Next
<1>3. QED
  BY <1>1, <1>2, PTL DEF Spec

\* The journals and the calls keep the shapes their schemas allow, for any plan, any number
\* of operators, crashes and changes (consumer_upgrade_transaction.py, _validate_journal).
THEOREM UpgradeTypes == Spec => []TypeOK
<1>1. CoreInv => TypeOK
  BY DEF CoreInv, SharedTyped, CallsTyped, CallRecord, TypeOK
<1>2. QED
  BY <1>1, CoreInvariant, PTL

\* The bytes of A are in their place or in the quarantine at every moment, whatever dies
\* when and whoever runs at once (consumer_upgrade_transaction.py, _copy_quarantine).
THEOREM SourceKept == Spec => []SourceSurvives
<1>1. CoreInv => SourceSurvives
  BY DEF CoreInv
<1>2. QED
  BY <1>1, CoreInvariant, PTL

(* What the journal of the files and the snapshot claim is true: the part of *)
(* StatusIsTrue the transaction's own lock protects                          *)
(* (consumer_upgrade_transaction.py, apply_upgrade and _recover_locked).     *)
JournalIsTrue == PublishedIsInstalled /\ RolledBackIsA /\ BlockedByOthers

LEMMA CoreTells == ASSUME CoreInv PROVE JournalIsTrue
<1>1. PublishedIsInstalled
  BY DEF CoreInv, DiskOK, AllAfter, Ours, PublishedIsInstalled
<1>2. RolledBackIsA
  BY DEF CoreInv, Fresh, AllBefore, Ours, RolledBackIsA
<1>3. BlockedByOthers
  BY DEF CoreInv, DiskOK, Clean, BlockedByOthers
<1>4. QED
  BY <1>1, <1>2, <1>3 DEF JournalIsTrue

\* COMMITTED, ROLLED_BACK and RECOVERY_BLOCKED mean what they say, for any number of
\* operators at once (consumer_upgrade_transaction.py, apply_upgrade, _recover_locked).
THEOREM JournalTrue == Spec => []JournalIsTrue
<1>1. CoreInv => JournalIsTrue
  BY CoreTells
<1>2. QED
  BY <1>1, CoreInvariant, PTL

-----------------------------------------------------------------------------
(* The sidecars, with one operator: the projection takes no lock of its own. *)
Alone == \A v, w \in Process : v = w
NoB == \A s \in Sidecar \ touched : sidecar[s] # "B"
SourceOK(v) == v # None => \A s \in Sidecar \ touched : v.source[s] = "A"
BackFrom(h) ==
    \A k \in DOMAIN Sidecars : k > h.at \/ (k = h.at /\ h.pc = "unprojected") =>
        (Ours(Sidecars[k]) => sidecar[Sidecars[k]] # "B")
ProofKnows(h) ==
    /\ SourceOK(h.projection)
    /\ h.pc \in {"preimage", "prepared"} => projection = None
    /\ h.pc = "preimage" => \A k \in 1..(h.at - 1) : Ours(Sidecars[k]) => preimage[Sidecars[k]] = "A"
    /\ h.pc = "prepared" => \A s \in Sidecar \ touched : preimage[s] = "A"
    /\ h.pc \in ProjectionSteps => journal # None /\ journal.status = "COMMITTED"
    /\ InLock(h) \/ h.pc = "rollback" => NoB
    /\ h.pc = "check" => h.at = Len(Sidecars)
    /\ h.pc \in {"sidecars", "unproject", "unprojected"} => BackFrom(h)
SidecarsKnown ==
    /\ \A s \in Sidecar \ touched : sidecar[s] \in {"A", "B"}
    /\ projection = None => \A s \in Sidecar \ touched : sidecar[s] = "A"
    /\ projection # None => \A s \in Sidecar \ touched : preimage[s] = "A"
    /\ SourceOK(projection) /\ ProofFollowsFiles
ProofInv == SidecarsKnown /\ \A w \in Process : Busy(w) => ProofKnows(held[w])

\* The one operator moves.
LEMMA ProofStep ==
    ASSUME Alone, NEW w \in Process, SidecarsKnown', held'[w] = Idle \/ ProofKnows(held[w])'
    PROVE  ProofInv'
<1> SUFFICES ASSUME NEW v \in Process, Busy(v)' PROVE ProofKnows(held[v])'
  BY DEF ProofInv
<1>1. v = w /\ held'[v] # Idle
  BY DEF Alone, Busy
<1>2. QED
  BY <1>1

\* Under the lock no sidecar claims B, so the journal may say what it likes.
LeavesLock(h) == \/ h.pc \in CoreSteps \cup UndoSteps \cup {"project", "seal", "return"}
                 \/ h.pc = "check" /\ h.at = Len(Sidecars)
LEMMA LockedProof ==
    ASSUME Alone, CoreInv, ProofInv, NEW w \in Process, Busy(w), InLock(held[w]),
           UNCHANGED proof, touched' = touched,
           held'[w] = Idle \/ (held'[w].projection = held[w].projection /\ LeavesLock(held'[w]))
    PROVE  ProofInv'
<1>1. NoB /\ SourceOK(held[w].projection) /\ SidecarsKnown
  BY DEF ProofInv, ProofKnows
<1>2. /\ sidecar' = sidecar /\ preimage' = preimage /\ projection' = projection
  BY DEF proof
<1>3. NoB'
  BY <1>1, <1>2 DEF NoB
<1>4. SidecarsKnown'
  BY <1>1, <1>2, <1>3 DEF SidecarsKnown, SourceOK, ProofFollowsFiles, NoB
<1>5. ASSUME held'[w] # Idle PROVE ProofKnows(held[w])'
  <2>1. held'[w].projection = held[w].projection /\ LeavesLock(held'[w])
    BY <1>5
  <2>2. SourceOK(held[w].projection)'
    BY <1>1, <2>1 DEF SourceOK
  <2>3. /\ held'[w].pc \notin {"preimage", "prepared", "sidecars", "unproject", "unprojected"}
        /\ held'[w].pc \notin ProjectionSteps /\ (held'[w].pc = "check" => held'[w].at = Len(Sidecars))
    BY <2>1 DEF LeavesLock, CoreSteps, UndoSteps, ProjectionSteps
  <2>4. QED
    BY <1>3, <2>2, <2>3 DEF ProofKnows, NoB
<1>6. QED
  BY <1>4, <1>5, ProofStep

LEMMA ProofInit == ASSUME Init PROVE ProofInv
<1>1. \A w \in Process : ~Busy(w)
  BY DEF Init, Busy
<1>2. projection = None /\ sidecar = [s \in Sidecar |-> "A"]
  BY DEF Init
<1>3. SidecarsKnown
  BY <1>2 DEF SidecarsKnown, SourceOK, ProofFollowsFiles
<1>4. QED
  BY <1>1, <1>3 DEF ProofInv

\* The steps of the transaction itself.
\* What a step of the lock leaves of a call.
Follows(h, g, pc) == g.projection = h.projection /\ g.pc = pc /\ g.at = h.at

LEMMA GotoFacts ==
    ASSUME CoreInv, NEW w \in Process, Busy(w), NEW pc, Goto(w, pc)
    PROVE  Follows(held[w], held'[w], pc)
<1>1. PICK h : h = held[w]
  OBVIOUS
<1>2. PICK g : g = [h EXCEPT !.pc = pc]
  OBVIOUS
<1>3. held' = [held EXCEPT ![w] = g]
  BY <1>1, <1>2 DEF Goto, CoreInv, CallsTyped
<1>4. held'[w] = g
  BY <1>3 DEF CoreInv, CallsTyped
<1>5. h \in CallRecord
  BY <1>1, CallFacts
<1>6. Follows(h, g, pc)
  BY <1>2, <1>5 DEF Follows, CallRecord
<1>7. QED
  BY <1>1, <1>4, <1>6

LEMMA SaveFacts ==
    ASSUME CoreInv, NEW w \in Process, Busy(w), NEW j, NEW pc, Save(w, j, pc)
    PROVE  Follows(held[w], held'[w], pc) /\ UNCHANGED proof /\ touched' = touched
<1>1. PICK h : h = held[w]
  OBVIOUS
<1>2. PICK g : g = [h EXCEPT !.journal = j, !.pc = pc]
  OBVIOUS
<1>3. held' = [held EXCEPT ![w] = g]
  BY <1>1, <1>2 DEF Save, CoreInv, CallsTyped
<1>4. held'[w] = g
  BY <1>3 DEF CoreInv, CallsTyped
<1>5. h \in CallRecord
  BY <1>1, CallFacts
<1>6. Follows(h, g, pc)
  BY <1>2, <1>5 DEF Follows, CallRecord
<1>7. QED
  BY <1>1, <1>4, <1>6 DEF Save, environment

LEMMA CoreLeaves ==
    ASSUME CoreInv, NEW w \in Process, ApplySteps(w), InLock(held[w]), Busy(w)
    PROVE  /\ UNCHANGED proof /\ touched' = touched
           /\ held'[w].projection = held[w].projection /\ LeavesLock(held'[w])
           /\ held'[w].pc \in {"unlink", "drop"} => LookAtSource(w)
<1>1. PICK h : h = held[w]
  OBVIOUS
<1>2. h \in CallRecord /\ \A g : held' = [held EXCEPT ![w] = g] => held'[w] = g
  BY <1>1, CallFacts DEF CoreInv, CallsTyped
<1>3. /\ UNCHANGED proof /\ touched' = touched
      /\ held'[w].projection = held[w].projection /\ LeavesLock(held'[w])
      /\ held'[w].pc \in {"unlink", "drop"} => LookAtSource(w)
  <2>1. CASE Begin(w)
    BY <2>1, SaveFacts DEF Begin, Follows, LeavesLock, CoreSteps
  <2>2. CASE MakeDirectory(w)
    BY <2>2, GotoFacts DEF MakeDirectory, environment, Follows, LeavesLock, CoreSteps
  <2>3. CASE RecordDirectory(w)
    BY <2>3, SaveFacts DEF RecordDirectory, Follows, LeavesLock, CoreSteps
  <2>4. CASE WriteStage(w)
    BY <2>4, GotoFacts DEF WriteStage, environment, Follows, LeavesLock, CoreSteps
  <2>5. CASE RecordStage(w)
    BY <2>5, SaveFacts DEF RecordStage, Follows, LeavesLock, CoreSteps
  <2>6. CASE BackUp(w)
    BY <2>6, GotoFacts DEF BackUp, environment, Follows, LeavesLock, CoreSteps
  <2>7. CASE RecordBackUp(w)
    BY <2>7, SaveFacts DEF RecordBackUp, SaveEntry, Follows, LeavesLock, CoreSteps
  <2>8. CASE LookAtSource(w)
    BY <2>8, GotoFacts DEF LookAtSource, Look, environment, Follows, LeavesLock, CoreSteps
  <2>9. CASE UnlinkSource(w)
    BY <2>9, GotoFacts DEF UnlinkSource, environment, Follows, LeavesLock, CoreSteps
  <2>10. CASE RecordRemoved(w)
    BY <2>10, SaveFacts DEF RecordRemoved, SaveEntry, Follows, LeavesLock, CoreSteps
  <2>11. CASE Install(w)
    BY <2>11, GotoFacts DEF Install, environment, Follows, LeavesLock, CoreSteps
  <2>12. CASE RecordInstalled(w)
    BY <2>12, SaveFacts DEF RecordInstalled, SaveEntry, Follows, LeavesLock, CoreSteps
  <2>13. CASE CheckAfter(w)
    BY <2>13, GotoFacts DEF CheckAfter, Look, environment, Follows, LeavesLock, CoreSteps
  <2>14. CASE Publish(w)
    BY <2>14, GotoFacts DEF Publish, environment, Follows, LeavesLock, CoreSteps
  <2>15. CASE RecordSnapshot(w)
    BY <2>15, SaveFacts DEF RecordSnapshot, Follows, LeavesLock, CoreSteps
  <2>16. CASE Commit(w)
    BY <2>16, SaveFacts DEF Commit, Follows, LeavesLock, CoreSteps
  <2>17. CASE ReadBack(w)
    BY <2>17, GotoFacts DEF ReadBack, Look, environment, Follows, LeavesLock, CoreSteps
  <2>18. CASE Preserve(w)
    <3>1. PICK j : j = (IF Here(w) = Profile THEN h.journal ELSE [h.journal EXCEPT !.entry[Here(w)] = "PRESERVED"])
      OBVIOUS
    <3>2. PICK i : i = [h EXCEPT !.journal = j]
      OBVIOUS
    <3>3. i.projection = h.projection
      BY <1>2, <3>2 DEF CallRecord
    <3>4. PICK g : g = Advance(i)
      OBVIOUS
    <3>5. g.projection = h.projection /\ g.pc \in {"post", "entry"}
      BY <1>2, <3>2, <3>4 DEF Advance, CallRecord
    <3>6. held' = [held EXCEPT ![w] = g] /\ UNCHANGED proof /\ touched' = touched
      BY <1>1, <2>18, <3>1, <3>2, <3>4 DEF Preserve, environment
    <3>7. QED
      BY <1>1, <1>2, <3>5, <3>6 DEF LeavesLock, CoreSteps
  <2>19. CASE Verify(w)
    <3>1. PICK j : j = [h.journal EXCEPT !.entry[Here(w)] = "VERIFIED"]
      OBVIOUS
    <3>2. PICK i : i = [h EXCEPT !.journal = j]
      OBVIOUS
    <3>3. i.projection = h.projection
      BY <1>2, <3>2 DEF CallRecord
    <3>4. PICK g : g = Advance(i)
      OBVIOUS
    <3>5. g.projection = h.projection /\ g.pc \in {"post", "entry"}
      BY <1>2, <3>2, <3>4 DEF Advance, CallRecord
    <3>6. held' = [held EXCEPT ![w] = g] /\ UNCHANGED proof /\ touched' = touched
      BY <1>1, <2>19, <3>1, <3>2, <3>4 DEF Verify, environment
    <3>7. QED
      BY <1>1, <1>2, <3>5, <3>6 DEF LeavesLock, CoreSteps
  <2>20. CASE Fail(w)
    <3>1. PICK j : j = [h.journal EXCEPT !.status = "RECOVERY_REQUIRED"]
      OBVIOUS
    <3>2. PICK g : g = [h EXCEPT !.journal = j, !.pc = "recover", !.at = Len(Items), !.after = "return"]
      OBVIOUS
    <3>3. g.projection = h.projection /\ g.pc = "recover"
      BY <1>2, <3>2 DEF CallRecord
    <3>4. held' = [held EXCEPT ![w] = g] /\ UNCHANGED proof /\ touched' = touched
      BY <1>1, <2>20, <3>1, <3>2 DEF Fail, CoreInv, CallsTyped
    <3>5. QED
      BY <1>1, <1>2, <3>3, <3>4 DEF LeavesLock, UndoSteps
  <2>21. CASE Unstage(w)
    <3>1. PICK g : g = [h EXCEPT !.pc = "verify", !.journal.staged = @ \ {Here(w)}]
      OBVIOUS
    <3>2. g.projection = h.projection /\ g.pc = "verify"
      BY <1>2, <3>1 DEF CallRecord
    <3>3. held' = [held EXCEPT ![w] = g] /\ UNCHANGED proof /\ touched' = touched
      BY <1>1, <2>21, <3>1 DEF Unstage, environment, CoreInv, CallsTyped
    <3>4. QED
      BY <1>1, <1>2, <3>2, <3>3 DEF LeavesLock, CoreSteps
  <2>22. CASE Preflight(w) \/ Open(w)
    BY <2>22 DEF Preflight, Open, At, InLock, CoreSteps, UndoSteps
  <2>23. QED
    BY <2>1, <2>2, <2>3, <2>4, <2>5, <2>6, <2>7, <2>8, <2>9, <2>10, <2>11, <2>12, <2>13, <2>14, <2>15, <2>16, <2>17, <2>18, <2>19, <2>20, <2>21, <2>22 DEF ApplySteps
<1>4. QED
  BY <1>3

LEMMA CoreProof ==
    ASSUME Alone, CoreInv, ProofInv, NEW w \in Process, ApplySteps(w), InLock(held[w]), Busy(w)
    PROVE  ProofInv'
  BY CoreLeaves, LockedProof

\* The steps of the recovery.
LEMMA UndoFields ==
    ASSUME NEW h \in CallRecord, h.journal \in Journal, NEW p, NEW k, k = Recorded(h, p),
           NEW g, g = Lower(k)
    PROVE  g.projection = h.projection /\ LeavesLock(g) /\ g.pc \notin {"unlink", "drop"}
<1>1. k \in CallRecord /\ k.projection = h.projection
  <2>1. CASE p \in h.blocked
    BY <2>1 DEF Recorded
  <2>2. CASE p \notin h.blocked
    <3>1. PICK j : j = [h.journal EXCEPT !.entry[p] = "ROLLED_BACK", !.staged = @ \ {p}]
      OBVIOUS
    <3>2. k = [h EXCEPT !.journal = j]
      BY <2>2, <3>1 DEF Recorded
    <3>3. j \in Journal
      BY <3>1 DEF Journal, EntryState
    <3>4. QED
      BY <3>2, <3>3 DEF CallRecord
  <2>3. QED
    BY <2>1, <2>2
<1>2. g.projection = k.projection /\ g.pc \in {"rmdir", "undo"}
  BY <1>1 DEF Lower, CallRecord
<1>3. QED
  BY <1>1, <1>2 DEF LeavesLock, UndoSteps

LEMMA LowerFields ==
    ASSUME NEW h \in CallRecord, NEW g, g = Lower(h)
    PROVE  g.projection = h.projection /\ LeavesLock(g) /\ g.pc \notin {"unlink", "drop"}
<1>1. g.projection = h.projection /\ g.pc \in {"rmdir", "undo"}
  BY DEF Lower, CallRecord
<1>2. QED
  BY <1>1 DEF LeavesLock, UndoSteps

LEMMA BlockedFields ==
    ASSUME NEW h \in CallRecord, NEW p \in Path, NEW b \in BOOLEAN,
           NEW k, k = IF b THEN Blocked(h, p) ELSE h
    PROVE  k \in CallRecord /\ k.projection = h.projection /\ k.journal = h.journal
<1>1. CASE b
  BY <1>1, BlockedFacts
<1>2. CASE ~b
  BY <1>2
<1>3. QED
  BY <1>1, <1>2

LEMMA UndoLeaves ==
    ASSUME CoreInv, NEW w \in Process, RecoverySteps(w), Busy(w), held[w].pc \in UndoSteps
    PROVE  /\ UNCHANGED proof /\ touched' = touched /\ InLock(held[w])
           /\ held'[w] = Idle \/ (/\ held'[w].projection = held[w].projection /\ LeavesLock(held'[w])
                                  /\ held'[w].pc \in {"unlink", "drop"} => LookBack(w))
<1>1. PICK h, p : h = held[w] /\ p = Here(w)
  OBVIOUS
<1>2. /\ h \in CallRecord /\ InLock(h) /\ h.journal \in Journal /\ h.after \in Afters
      /\ \A g : held' = [held EXCEPT ![w] = g] => held'[w] = g
  BY <1>1, AtUndo DEF CoreInv, CallsTyped
<1>3. h.pc \in BackSteps => p \in Path
  BY <1>1, AtBack
<1>4. \E g : /\ held'[w] = g /\ UNCHANGED proof /\ touched' = touched
             /\ g = Idle \/ (/\ g.projection = h.projection /\ LeavesLock(g)
                             /\ g.pc \in {"unlink", "drop"} => LookBack(w))
  <2>1. CASE RetractSnapshot(w)
    <3>1. PICK i : i = [h EXCEPT !.pc = "undo", !.at = Len(Items), !.blocked = {}]
      OBVIOUS
    <3>2. PICK g : g = IF h.journal.status = "COMMITTED" /\ ~h.undo THEN Idle ELSE i
      OBVIOUS
    <3>3. held' = [held EXCEPT ![w] = g] /\ UNCHANGED proof /\ touched' = touched
      BY <1>1, <2>1, <3>1, <3>2 DEF RetractSnapshot, Return, environment, CoreInv, CallsTyped
    <3>4. i.projection = h.projection /\ LeavesLock(i) /\ i.pc \notin {"unlink", "drop"}
      BY <1>2, <3>1 DEF CallRecord, LeavesLock, UndoSteps
    <3>5. QED
      BY <1>2, <3>2, <3>3, <3>4
  <2>2. CASE UndoKept(w)
    <3>1. h.pc = "undo" /\ p \in Path /\ UNCHANGED proof /\ touched' = touched
      BY <1>1, <1>3, <2>2 DEF UndoKept, At, BackSteps, environment
    <3>2. PICK k : k = IF target[p] # "A" THEN Blocked(h, p) ELSE h
      OBVIOUS
    <3>3. k \in CallRecord /\ k.projection = h.projection /\ k.journal = h.journal
      BY <1>2, <3>1, <3>2, BlockedFields
    <3>4. PICK i : i = Recorded(k, p)
      OBVIOUS
    <3>5. PICK g1, g2 : g1 = Lower(h) /\ g2 = Lower(i)
      OBVIOUS
    <3>6. held' = [held EXCEPT ![w] = g1] \/ held' = [held EXCEPT ![w] = g2]
      BY <1>1, <2>2, <3>2, <3>4, <3>5 DEF UndoKept, Undone
    <3>7. /\ g1.projection = h.projection /\ LeavesLock(g1) /\ g1.pc \notin {"unlink", "drop"}
          /\ g2.projection = h.projection /\ LeavesLock(g2) /\ g2.pc \notin {"unlink", "drop"}
      BY <1>2, <3>3, <3>4, <3>5, LowerFields, UndoFields
    <3>8. QED
      BY <1>2, <3>1, <3>6, <3>7
  <2>3. CASE PassProfile(w)
    <3>1. PICK g : g = Lower(h)
      OBVIOUS
    <3>2. held' = [held EXCEPT ![w] = g] /\ UNCHANGED proof /\ touched' = touched
      BY <1>1, <2>3, <3>1 DEF PassProfile, environment
    <3>3. g.projection = h.projection /\ LeavesLock(g) /\ g.pc \notin {"unlink", "drop"}
      BY <1>2, <3>1, LowerFields
    <3>4. QED
      BY <1>2, <3>2, <3>3
  <2>4. CASE LookBack(w)
    <3>1. h.pc = "undo" /\ p \in Path /\ UNCHANGED proof /\ touched' = touched
      BY <1>1, <1>3, <2>4 DEF LookBack, At, BackSteps, environment
    <3>2. PICK next : next = CASE target[p] = "B" /\ Stages(p) /\ Proven(h, p) -> "drop"
                               [] target[p] = "absent" /\ plan[p] = "CREATE"   -> "clear"
                               [] target[p] \in {"absent", "A"} /\ Removes(p)  -> "restore"
                               [] OTHER                                        -> "blocked"
      OBVIOUS
    <3>3. next \in {"drop", "clear", "restore", "blocked"}
      BY <3>2
    <3>4. PICK b : b = Blocked(h, p)
      OBVIOUS
    <3>5. PICK g : g = IF next = "blocked" THEN [b EXCEPT !.pc = "clear"] ELSE [h EXCEPT !.pc = next]
      OBVIOUS
    <3>6. held' = [held EXCEPT ![w] = g]
      BY <1>1, <2>4, <3>2, <3>4, <3>5 DEF LookBack
    <3>7. b \in CallRecord /\ b.projection = h.projection
      BY <1>2, <3>1, <3>4, BlockedFacts
    <3>8. g.projection = h.projection /\ LeavesLock(g)
      BY <1>2, <3>3, <3>5, <3>7 DEF CallRecord, LeavesLock, UndoSteps
    <3>9. QED
      BY <1>2, <2>4, <3>1, <3>6, <3>8
  <2>5. CASE DropInstalled(w)
    <3>1. h.pc = "drop" /\ p \in Path /\ UNCHANGED proof /\ touched' = touched
      BY <1>1, <1>3, <2>5 DEF DropInstalled, At, BackSteps, environment
    <3>2. PICK k : k = IF target[p] = "absent" THEN Blocked(h, p) ELSE h
      OBVIOUS
    <3>3. k \in CallRecord /\ k.projection = h.projection
      BY <1>2, <3>1, <3>2, BlockedFields
    <3>4. PICK pc : pc = IF Removes(p) /\ (target[p] # "absent" \/ p = Profile) THEN "restore" ELSE "clear"
      OBVIOUS
    <3>5. PICK g : g = [k EXCEPT !.pc = pc]
      OBVIOUS
    <3>6. held' = [held EXCEPT ![w] = g]
      BY <1>1, <2>5, <3>2, <3>4, <3>5 DEF DropInstalled, CoreInv, CallsTyped
    <3>7. g.projection = h.projection /\ LeavesLock(g) /\ g.pc \notin {"unlink", "drop"}
      BY <3>3, <3>4, <3>5 DEF CallRecord, LeavesLock, UndoSteps
    <3>8. QED
      BY <1>2, <3>1, <3>6, <3>7
  <2>6. CASE Restore(w)
    <3>1. h.pc = "restore" /\ p \in Path /\ UNCHANGED proof /\ touched' = touched
      BY <1>1, <1>3, <2>6 DEF Restore, At, BackSteps, environment
    <3>2. PICK back \in BOOLEAN : back = (target[p] = "absent" /\ quarantine[p] = "A")
      OBVIOUS
    <3>3. PICK k : k = IF ~(back \/ target[p] = "A") THEN Blocked(h, p) ELSE h
      OBVIOUS
    <3>4. k \in CallRecord /\ k.projection = h.projection
      BY <1>2, <3>1, <3>3, BlockedFields
    <3>5. PICK g : g = [k EXCEPT !.pc = "clear"]
      OBVIOUS
    <3>6. held' = [held EXCEPT ![w] = g]
      BY <1>1, <2>6, <3>2, <3>3, <3>5 DEF Restore, CoreInv, CallsTyped
    <3>7. g.projection = h.projection /\ LeavesLock(g) /\ g.pc \notin {"unlink", "drop"}
      BY <3>4, <3>5 DEF CallRecord, LeavesLock, UndoSteps
    <3>8. QED
      BY <1>2, <3>1, <3>6, <3>7
  <2>7. CASE ClearStage(w)
    <3>1. PICK k : k = Recorded(h, p)
      OBVIOUS
    <3>2. PICK g : g = Lower(k)
      OBVIOUS
    <3>3. held' = [held EXCEPT ![w] = g] /\ UNCHANGED proof /\ touched' = touched
      BY <1>1, <2>7, <3>1, <3>2 DEF ClearStage, Undone, environment
    <3>4. g.projection = h.projection /\ LeavesLock(g) /\ g.pc \notin {"unlink", "drop"}
      BY <1>2, <3>1, <3>2, UndoFields
    <3>5. QED
      BY <1>2, <3>3, <3>4
  <2>8. CASE UndoFails(w)
    <3>1. h.pc \in {"drop", "restore", "clear"} /\ p \in Path /\ UNCHANGED proof /\ touched' = touched
      BY <1>1, <1>3, <2>8 DEF UndoFails, BackSteps
    <3>2. PICK b : b = Blocked(h, p)
      OBVIOUS
    <3>3. b \in CallRecord /\ b.projection = h.projection /\ b.journal = h.journal
      BY <1>2, <3>1, <3>2, BlockedFacts
    <3>4. PICK k : k = Recorded(b, p)
      OBVIOUS
    <3>5. PICK g1, g2 : g1 = Lower(k) /\ g2 = [b EXCEPT !.pc = "clear"]
      OBVIOUS
    <3>6. held' = [held EXCEPT ![w] = g1] \/ held' = [held EXCEPT ![w] = g2]
      BY <1>1, <2>8, <3>2, <3>4, <3>5 DEF UndoFails, Undone
    <3>7. g1.projection = h.projection /\ LeavesLock(g1) /\ g1.pc \notin {"unlink", "drop"}
      BY <1>2, <3>3, <3>4, <3>5, UndoFields
    <3>8. g2.projection = h.projection /\ LeavesLock(g2) /\ g2.pc \notin {"unlink", "drop"}
      BY <3>3, <3>5 DEF CallRecord, LeavesLock, UndoSteps
    <3>9. QED
      BY <1>2, <3>1, <3>6, <3>7, <3>8
  <2>9. CASE RemoveDirectory(w)
    BY <1>1, <2>9, GotoFacts DEF RemoveDirectory, environment, Follows, LeavesLock, UndoSteps
  <2>10. CASE PurgeQuarantine(w)
    BY <1>1, <2>10, GotoFacts DEF PurgeQuarantine, environment, Follows, LeavesLock, UndoSteps
  <2>11. CASE CloseRecovery(w)
    <3>1. PICK j : j = IF h.blocked # {} THEN [h.journal EXCEPT !.status = "RECOVERY_BLOCKED"]
                   ELSE [h.journal EXCEPT !.status = "ROLLED_BACK", !.created = FALSE, !.published = FALSE]
      OBVIOUS
    <3>2. PICK next : next = CASE h.after = "retry" /\ h.blocked = {}  -> "renew"
                            [] h.after = "seal"                     -> "seal"
                            [] h.after = "restore" /\ h.blocked = {} -> "check"
                            [] OTHER                                -> "return"
      OBVIOUS
    <3>3. next \in {"renew", "seal", "check", "return"}
      BY <3>2
    <3>4. PICK g : g = [h EXCEPT !.journal = j, !.pc = next, !.at = Len(Sidecars)]
      OBVIOUS
    <3>5. PICK f : f = IF next = "return" THEN Idle ELSE g
      OBVIOUS
    <3>6. held' = [held EXCEPT ![w] = f] /\ UNCHANGED proof /\ touched' = touched
      BY <1>1, <2>11, <3>1, <3>2, <3>4, <3>5 DEF CloseRecovery, environment
    <3>7. g.projection = h.projection /\ LeavesLock(g) /\ g.pc \notin {"unlink", "drop"}
      BY <1>2, <3>3, <3>4 DEF CallRecord, LeavesLock, UndoSteps
    <3>8. QED
      BY <1>2, <3>5, <3>6, <3>7
  <2>12. CASE Renew(w)
    <3>1. PICK g : g = [h EXCEPT !.journal = NewJournal, !.pc = "begin", !.at = 1]
      OBVIOUS
    <3>2. held' = [held EXCEPT ![w] = g] /\ UNCHANGED proof /\ touched' = touched
      BY <1>1, <2>12, <3>1 DEF Renew, environment
    <3>3. g.projection = h.projection /\ LeavesLock(g) /\ g.pc \notin {"unlink", "drop"}
      BY <1>2, <3>1 DEF CallRecord, LeavesLock, CoreSteps
    <3>4. QED
      BY <1>2, <3>2, <3>3
  <2>13. QED
    BY <2>1, <2>2, <2>3, <2>4, <2>5, <2>6, <2>7, <2>8, <2>9, <2>10, <2>11, <2>12 DEF RecoverySteps
<1>5. PICK g : /\ held'[w] = g /\ UNCHANGED proof /\ touched' = touched
               /\ g = Idle \/ (/\ g.projection = h.projection /\ LeavesLock(g)
                               /\ g.pc \in {"unlink", "drop"} => LookBack(w))
  BY <1>4
<1>6. QED
  BY <1>1, <1>2, <1>5

LEMMA UndoProof ==
    ASSUME Alone, CoreInv, ProofInv, NEW w \in Process, RecoverySteps(w), Busy(w),
           held[w].pc \in UndoSteps
    PROVE  ProofInv'
<1>1. /\ UNCHANGED proof /\ touched' = touched /\ InLock(held[w])
      /\ held'[w] = Idle \/ (held'[w].projection = held[w].projection /\ LeavesLock(held'[w]))
  BY UndoLeaves
<1>2. QED
  BY <1>1, LockedProof

\* Steps outside the lock that leave the sidecars alone.
LEMMA OutProof ==
    ASSUME Alone, ProofInv, NEW w \in Process, NEW g, held'[w] = g,
           UNCHANGED <<sidecar, preimage, journal, touched>>,
           \/ projection' = projection
           \/ /\ projection # None /\ projection' # None
              /\ \E v : projection' = v /\ SourceOK(v),
           g = Idle \/ ProofKnows(g)
    PROVE  ProofInv'
<1>1. SidecarsKnown
  BY DEF ProofInv
<1>2. SourceOK(projection)' /\ (projection' = None <=> projection = None)
  BY <1>1 DEF SidecarsKnown, SourceOK
<1>3. SidecarsKnown'
  BY <1>1, <1>2 DEF SidecarsKnown, ProofFollowsFiles
<1>4. ASSUME g # Idle PROVE ProofKnows(held[w])'
  <2>1. ProofKnows(g)
    BY <1>4
  <2>2. ProofKnows(g)'
    BY <1>2, <2>1 DEF ProofKnows, InLock, Ours, SourceOK, NoB, BackFrom
  <2>3. QED
    BY <2>2
<1>5. QED
  BY <1>3, <1>4, ProofStep

LEMMA FreeKnows ==
    ASSUME NEW g, SourceOK(g.projection),
           g.pc \in {"preflight", "open", "project", "unwind", "seal", "sealback"}
    PROVE  ProofKnows(g)
  BY DEF ProofKnows, InLock, CoreSteps, UndoSteps, ProjectionSteps

LEMMA StartProves ==
    ASSUME Alone, CoreInv, ProofInv, NEW w \in Process, Apply(w) \/ Rollback(w) \/ Recover(w)
    PROVE  ProofInv'
<1>1. PICK g, pc : /\ held' = [held EXCEPT ![w] = g]
                   /\ Starting(g, pc, projection) /\ Opening(pc, projection)
  BY Starts
<1>2. held'[w] = g /\ UNCHANGED <<journal, sidecar, preimage, projection, touched>>
  BY <1>1 DEF Apply, Rollback, Recover, CoreInv, CallsTyped, proof, environment
<1>3. SidecarsKnown /\ SourceOK(g.projection) /\ g.pc = pc /\ g.at = 1
  BY <1>1 DEF ProofInv, SidecarsKnown, Starting
<1>4. ProofKnows(g)
  <2>1. CASE pc = "preimage"
    <3>1. projection = None
      BY <1>1, <2>1 DEF Opening
    <3>2. QED
      BY <1>3, <2>1, <3>1 DEF ProofKnows, InLock, CoreSteps, UndoSteps, ProjectionSteps
  <2>2. CASE pc \in {"preflight", "unwind", "project"}
    BY <1>3, <2>2, FreeKnows
  <2>3. CASE pc = "rollback"
    <3>1. NoB
      BY <1>1, <1>3, <2>3 DEF Opening, SidecarsKnown, ProofFollowsFiles, NoB
    <3>2. QED
      BY <1>3, <2>3, <3>1 DEF ProofKnows, InLock, CoreSteps, UndoSteps, ProjectionSteps
  <2>4. QED
    BY <1>1, <2>1, <2>2, <2>3 DEF Opening
<1>5. QED
  BY <1>2, <1>4, OutProof

LEMMA PreflightProves ==
    ASSUME Alone, CoreInv, ProofInv, NEW w \in Process, Preflight(w) PROVE ProofInv'
<1>1. Busy(w) /\ UNCHANGED <<journal, sidecar, preimage, projection, touched>>
  BY DEF Preflight, At, proof, environment
<1>2. ProofKnows(held[w])
  BY <1>1 DEF ProofInv
<1>3. CASE Return(w)
  <2>1. held'[w] = Idle
    BY <1>3 DEF Return, CoreInv, CallsTyped
  <2>2. QED
    BY <1>1, <2>1, OutProof
<1>4. ASSUME NEW pc \in {"project", "open"}, Goto(w, pc) PROVE ProofInv'
  <2>1. PICK g : g = held'[w]
    OBVIOUS
  <2>2. g.projection = held[w].projection /\ g.pc = pc
    BY <1>1, <1>4, <2>1, GotoFacts DEF Follows
  <2>3. ProofKnows(g)
    BY <1>2, <2>2, FreeKnows DEF ProofKnows
  <2>4. QED
    BY <1>1, <2>1, <2>3, OutProof
<1>5. Return(w) \/ Goto(w, "project") \/ Goto(w, "open")
  BY DEF Preflight
<1>6. QED
  BY <1>3, <1>4, <1>5

\* While no sidecar claims B, the journal may go on.
LEMMA QuietProof ==
    ASSUME Alone, ProofInv, NoB, NEW w \in Process, UNCHANGED proof, touched' = touched,
           NEW g, held'[w] = g, g = Idle \/ (SourceOK(g.projection) /\ LeavesLock(g))
    PROVE  ProofInv'
<1>1. SidecarsKnown
  BY DEF ProofInv
<1>2. /\ sidecar' = sidecar /\ preimage' = preimage /\ projection' = projection
  BY DEF proof
<1>3. NoB'
  BY <1>2 DEF NoB
<1>4. SidecarsKnown'
  BY <1>1, <1>2, <1>3 DEF SidecarsKnown, SourceOK, ProofFollowsFiles, NoB
<1>5. ASSUME g # Idle PROVE ProofKnows(g)'
  <2>1. SourceOK(g.projection)'
    BY <1>5 DEF SourceOK
  <2>2. /\ g.pc \notin {"preimage", "prepared", "sidecars", "unproject", "unprojected"}
        /\ g.pc \notin ProjectionSteps /\ (g.pc = "check" => g.at = Len(Sidecars))
    BY <1>5 DEF LeavesLock, CoreSteps, UndoSteps, ProjectionSteps
  <2>3. QED
    BY <1>3, <2>1, <2>2 DEF ProofKnows, NoB
<1>6. held'[w] = Idle \/ ProofKnows(held[w])'
  BY <1>5
<1>7. QED
  BY <1>4, <1>6, ProofStep

LEMMA OpenProves ==
    ASSUME Alone, CoreInv, ProofInv, NEW w \in Process, Open(w) PROVE ProofInv'
<1>1. Busy(w) /\ UNCHANGED proof /\ touched' = touched
  BY DEF Open, At, environment
<1>2. ProofKnows(held[w]) /\ SidecarsKnown
  BY <1>1 DEF ProofInv
<1>3. PICK h : h = held[w]
  OBVIOUS
<1>4. h \in CallRecord /\ \A g : held' = [held EXCEPT ![w] = g] => held'[w] = g
  BY <1>1, <1>3, CallFacts DEF CoreInv, CallsTyped
<1>5. PICK j : j = IF journal = None \/ journal.status = "ROLLED_BACK" THEN NewJournal ELSE journal
  OBVIOUS
<1>6. PICK next : next = CASE j.status = "PLANNED"          -> "begin"
                          [] j.status = "COMMITTED"        -> IF IsAfter /\ snapshot THEN "project" ELSE "raise"
                          [] j.status = "RECOVERY_BLOCKED" -> "raise"
                          [] OTHER                         -> "recover"
  OBVIOUS
<1>7. PICK at : at = IF next = "recover" THEN Len(Items) ELSE 1
  OBVIOUS
<1>8. PICK i : i = [h EXCEPT !.journal = j, !.pc = next, !.after = "retry", !.at = at]
  OBVIOUS
<1>9. PICK g : g = IF next = "raise" THEN Idle ELSE i
  OBVIOUS
<1>10. held' = [held EXCEPT ![w] = g] /\ journal' = j
  BY <1>3, <1>5, <1>6, <1>7, <1>8, <1>9 DEF Open, CoreInv, CallsTyped
<1>11. held'[w] = g
  BY <1>4, <1>10
<1>12. i.projection = h.projection /\ i.pc = next
  BY <1>4, <1>8 DEF CallRecord
<1>13. SourceOK(i.projection)
  BY <1>2, <1>3, <1>12 DEF ProofKnows
<1>14. CASE journal # None /\ journal.status = "COMMITTED"
  <2>1. j = journal /\ next \in {"project", "raise"}
    BY <1>5, <1>6, <1>14
  <2>2. g = Idle \/ ProofKnows(g)
    BY <1>9, <1>12, <1>13, <2>1, FreeKnows
  <2>3. UNCHANGED <<sidecar, preimage, journal, touched>> /\ projection' = projection
    BY <1>1, <1>10, <2>1 DEF proof
  <2>4. QED
    BY <1>11, <2>2, <2>3, OutProof
<1>15. CASE ~(journal # None /\ journal.status = "COMMITTED")
  <2>1. NoB
    BY <1>2, <1>15 DEF SidecarsKnown, ProofFollowsFiles, NoB
  <2>2. j.status # "COMMITTED"
    BY <1>5, <1>15 DEF NewJournal
  <2>3. next \in {"begin", "raise", "recover"}
    BY <1>6, <2>2
  <2>4. g = Idle \/ (SourceOK(g.projection) /\ LeavesLock(g))
    BY <1>9, <1>12, <1>13, <2>3 DEF LeavesLock, CoreSteps, UndoSteps
  <2>5. QED
    BY <1>1, <1>11, <2>1, <2>4, QuietProof
<1>16. QED
  BY <1>14, <1>15

LEMMA SavePreimageProves ==
    ASSUME Alone, CoreInv, ProofInv, NEW w \in Process, SavePreimage(w) PROVE ProofInv'
<1>1. Busy(w) /\ UNCHANGED <<journal, sidecar, projection, touched>>
  BY DEF SavePreimage, At, environment
<1>2. PICK h, s : h = held[w] /\ s = There(w)
  OBVIOUS
<1>3. /\ h \in CallRecord /\ h.pc = "preimage" /\ \A g : held' = [held EXCEPT ![w] = g] => held'[w] = g
  BY <1>1, <1>2, CallFacts DEF CoreInv, CallsTyped, SavePreimage, At
<1>4. ProofKnows(h) /\ SidecarsKnown
  BY <1>1, <1>2 DEF ProofInv
<1>5. CASE sidecar[s] = "absent"
  <2>1. held'[w] = Idle /\ preimage' = preimage
    BY <1>2, <1>3, <1>5 DEF SavePreimage, Return
  <2>2. QED
    BY <1>1, <2>1, OutProof
<1>6. CASE sidecar[s] # "absent"
  <2>1. h.at \in 1..Len(Sidecars) /\ s = Sidecars[h.at] /\ s \in Sidecar /\ h.at \in Nat
    BY <1>1, <1>2, <1>3, OutsideFacts, SidecarFacts DEF OuterSteps, SideSteps, There
  <2>2. projection = None /\ SourceOK(h.projection)
    BY <1>3, <1>4 DEF ProofKnows
  <2>3. preimage' = [preimage EXCEPT ![s] = sidecar[s]] /\ preimage \in [Sidecar -> Bytes]
    BY <1>2, <1>6 DEF SavePreimage, CoreInv, SharedTyped
  <2>4. PICK g : g = IF h.at = Len(Sidecars) THEN [h EXCEPT !.pc = "prepared"] ELSE [h EXCEPT !.at = @ + 1]
    OBVIOUS
  <2>5. held'[w] = g
    <3>1. held' = [held EXCEPT ![w] = g]
      BY <1>2, <1>6, <2>4 DEF SavePreimage
    <3>2. QED
      BY <1>3, <3>1
  <2>6. SidecarsKnown'
    BY <1>1, <1>4, <2>2 DEF SidecarsKnown, SourceOK, ProofFollowsFiles
  <2>7. \A k \in 1..h.at : Ours(Sidecars[k]) => preimage'[Sidecars[k]] = "A"
    <3>1. TAKE k \in 1..h.at
    <3>2. HAVE Ours(Sidecars[k])
    <3>3. k \in DOMAIN Sidecars /\ Sidecars[k] \in Sidecar
      BY <2>1, SidecarFacts
    <3>4. CASE Sidecars[k] = s
      BY <1>4, <2>2, <2>3, <3>2, <3>3, <3>4 DEF SidecarsKnown, Ours
    <3>5. CASE Sidecars[k] # s
      <4>1. k \in 1..(h.at - 1)
        BY <2>1, <3>5
      <4>2. preimage[Sidecars[k]] = "A"
        BY <1>3, <1>4, <3>2, <4>1 DEF ProofKnows
      <4>3. QED
        BY <2>3, <3>3, <3>5, <4>2
    <3>6. QED
      BY <3>4, <3>5
  <2>8. ProofKnows(g)'
    <3>1. CASE h.at = Len(Sidecars)
      <4>1. g.pc = "prepared" /\ g.projection = h.projection
        BY <1>3, <2>4, <3>1 DEF CallRecord
      <4>2. \A x \in Sidecar \ touched : preimage'[x] = "A"
        BY <2>1, <2>7, <3>1, SidecarFacts DEF Ours
      <4>3. QED
        BY <1>1, <2>2, <4>1, <4>2 DEF ProofKnows, InLock, CoreSteps, UndoSteps, ProjectionSteps, SourceOK
    <3>2. CASE h.at # Len(Sidecars)
      <4>1. g.pc = "preimage" /\ g.projection = h.projection /\ g.at - 1 = h.at
        BY <1>3, <2>1, <2>4, <3>2 DEF CallRecord
      <4>2. QED
        BY <1>1, <2>2, <2>7, <4>1 DEF ProofKnows, InLock, CoreSteps, UndoSteps, ProjectionSteps, SourceOK, Ours
    <3>3. QED
      BY <3>1, <3>2
  <2>9. QED
    BY <2>5, <2>6, <2>8, ProofStep
<1>7. QED
  BY <1>5, <1>6

LEMMA PrepareProves ==
    ASSUME Alone, CoreInv, ProofInv, NEW w \in Process, Prepare(w) PROVE ProofInv'
<1>1. Busy(w) /\ held[w].pc = "prepared" /\ UNCHANGED <<journal, sidecar, preimage, touched>>
  BY DEF Prepare, SaveProjection, At, environment
<1>2. PICK h : h = held[w]
  OBVIOUS
<1>3. h \in CallRecord /\ \A g : held' = [held EXCEPT ![w] = g] => held'[w] = g
  BY <1>1, <1>2, CallFacts DEF CoreInv, CallsTyped
<1>4. PICK v : v = [status |-> "PREPARED", source |-> preimage, aimed |-> {}, there |-> {}]
  OBVIOUS
<1>5. PICK g : g = [h EXCEPT !.projection = v, !.pc = "preflight"]
  OBVIOUS
<1>6. projection' = v /\ held'[w] = g
  BY <1>2, <1>3, <1>4, <1>5 DEF Prepare, SaveProjection, CoreInv, CallsTyped
<1>7. ProofKnows(h) /\ SidecarsKnown
  BY <1>1, <1>2 DEF ProofInv
<1>8. \A s \in Sidecar \ touched : preimage[s] = "A"
  BY <1>1, <1>2, <1>7 DEF ProofKnows
<1>9. v.source = preimage /\ g.projection = v /\ g.pc = "preflight"
  BY <1>3, <1>4, <1>5 DEF CallRecord
<1>10. SourceOK(v) /\ SourceOK(v)'
  BY <1>1, <1>8, <1>9 DEF SourceOK
<1>11. v # None
  BY <1>4, NoneAssumption, <1>1 DEF CoreInv, SharedTyped, Projection
<1>12. SidecarsKnown'
  BY <1>1, <1>6, <1>7, <1>8, <1>10, <1>11 DEF SidecarsKnown, ProofFollowsFiles, SourceOK
<1>13. ProofKnows(g)'
  BY <1>9, <1>10 DEF ProofKnows, InLock, CoreSteps, UndoSteps, ProjectionSteps
<1>14. QED
  BY <1>6, <1>12, <1>13, ProofStep

\* A call projects only behind the commit, which holds as long as it is outside the lock.
LEMMA ProjectionKnows ==
    ASSUME NEW g, SourceOK(g.projection), g.pc \in ProjectionSteps,
           journal # None, journal.status = "COMMITTED"
    PROVE  ProofKnows(g)
  BY DEF ProofKnows, InLock, CoreSteps, UndoSteps, ProjectionSteps

LEMMA ProjectProves ==
    ASSUME Alone, CoreInv, ProofInv, NEW w \in Process, Project(w) PROVE ProofInv'
<1>1. Busy(w) /\ UNCHANGED <<sidecar, preimage, journal, touched, projection>>
  BY DEF Project, At, proof, environment
<1>2. PICK h : h = held[w]
  OBVIOUS
<1>3. h \in CallRecord /\ \A g : held' = [held EXCEPT ![w] = g] => held'[w] = g
  BY <1>1, <1>2, CallFacts DEF CoreInv, CallsTyped
<1>4. PICK next : next =
         CASE projection.status = "COMMITTED" ->
                IF \A s \in Sidecar : sidecar[s] = "B" THEN "return" ELSE "unwind"
           [] journal = None \/ journal.status # "COMMITTED" \/ ~snapshot -> "unwind"
           [] OTHER -> "aim"
  OBVIOUS
<1>5. /\ next \in {"return", "unwind", "aim"}
      /\ next = "aim" => journal # None /\ journal.status = "COMMITTED"
  BY <1>4
<1>6. PICK k : k = [h EXCEPT !.projection = projection, !.pc = next, !.at = 1]
  OBVIOUS
<1>7. PICK i : i = [k EXCEPT !.pc = "unwind"]
  OBVIOUS
<1>8. PICK g : g = IF next = "return" /\ IsAfter THEN Idle ELSE IF next = "return" THEN i ELSE k
  OBVIOUS
<1>9. held' = [held EXCEPT ![w] = g]
  BY <1>2, <1>4, <1>6, <1>7, <1>8 DEF Project
<1>10. held'[w] = g /\ SourceOK(projection)
  BY <1>3, <1>9 DEF ProofInv, SidecarsKnown
<1>11. k.projection = projection /\ i.projection = projection /\ k.pc = next /\ i.pc = "unwind"
  BY <1>3, <1>6, <1>7 DEF CallRecord
<1>12. ProofKnows(i)
  BY <1>10, <1>11, FreeKnows
<1>13. ASSUME next # "return" PROVE ProofKnows(k)
  <2>1. CASE next = "unwind"
    BY <1>10, <1>11, <2>1, FreeKnows
  <2>2. CASE next = "aim"
    BY <1>5, <1>10, <1>11, <2>2, ProjectionKnows DEF ProjectionSteps
  <2>3. QED
    BY <1>5, <1>13, <2>1, <2>2
<1>14. g = Idle \/ ProofKnows(g)
  BY <1>8, <1>12, <1>13
<1>15. QED
  BY <1>1, <1>10, <1>14, OutProof

\* A step of the projection saves its journal.
LEMMA SavedProof ==
    ASSUME Alone, CoreInv, ProofInv, NEW w \in Process, Busy(w), NEW u, NEW pc,
           projection \in Projection, u # None, SourceOK(u),
           pc = "unwind" \/ (pc \in ProjectionSteps /\ held[w].pc \in ProjectionSteps),
           held' = [held EXCEPT ![w].projection = u, ![w].pc = pc], projection' = u,
           UNCHANGED <<sidecar, preimage, journal, touched>>
    PROVE  ProofInv'
<1>1. PICK h, g : h = held[w] /\ g = [h EXCEPT !.projection = u, !.pc = pc]
  OBVIOUS
<1>2. h \in CallRecord /\ held' = [held EXCEPT ![w] = g]
  BY <1>1, CallFacts DEF CoreInv, CallsTyped
<1>3. held'[w] = g /\ g.projection = u /\ g.pc = pc
  BY <1>1, <1>2 DEF CoreInv, CallsTyped, CallRecord
<1>4. ProofKnows(h)
  BY <1>1 DEF ProofInv
<1>5. ProofKnows(g)
  <2>1. CASE pc = "unwind"
    BY <1>3, <2>1, FreeKnows
  <2>2. CASE pc \in ProjectionSteps /\ h.pc \in ProjectionSteps
    <3>1. journal # None /\ journal.status = "COMMITTED"
      BY <1>4, <2>2 DEF ProofKnows
    <3>2. QED
      BY <1>3, <2>2, <3>1, ProjectionKnows
  <2>3. QED
    BY <1>1, <2>1, <2>2
<1>6. projection # None
  BY NoneAssumption
<1>7. QED
  BY <1>3, <1>5, <1>6, OutProof

LEMMA AimProves ==
    ASSUME Alone, CoreInv, ProofInv, NEW w \in Process, Aim(w) PROVE ProofInv'
<1>1. Busy(w) /\ held[w].pc = "aim"
  BY DEF Aim, At
<1>2. /\ held[w].projection \in Projection /\ held[w].at \in DOMAIN Sidecars
      /\ projection \in Projection /\ ProofKnows(held[w])
  BY <1>1, OutsideFacts, SidecarFacts DEF ProjectionSteps, SideSteps, ProofInv
<1>3. There(w) \in Sidecar
  BY <1>2, SidecarFacts DEF There
<1>4. PICK v, u : v = held[w].projection /\ u = [v EXCEPT !.aimed = @ \cup {There(w)}]
  OBVIOUS
<1>5. u # None /\ u.source = v.source
  BY <1>2, <1>3, <1>4, ProjectionSaved
<1>6. SourceOK(u)
  BY <1>2, <1>4, <1>5, NoneAssumption DEF ProofKnows, SourceOK
<1>7. SaveProjection(w, u, "compare")
  BY <1>4 DEF Aim
<1>8. /\ held' = [held EXCEPT ![w].projection = u, ![w].pc = "compare"] /\ projection' = u
      /\ UNCHANGED <<sidecar, preimage, journal, touched>>
  BY <1>7 DEF SaveProjection, environment
<1>9. "compare" \in ProjectionSteps /\ held[w].pc \in ProjectionSteps
  BY <1>1 DEF ProjectionSteps
<1>10. QED
  BY <1>1, <1>2, <1>5, <1>6, <1>8, <1>9, SavedProof

LEMMA CompareProves ==
    ASSUME Alone, CoreInv, ProofInv, NEW w \in Process, Compare(w) \/ Reread(w) \/ Prove(w)
    PROVE  ProofInv'
<1>1. /\ Busy(w) /\ UNCHANGED <<sidecar, preimage, journal, touched, projection>>
      /\ held[w].pc \in ProjectionSteps /\ \E pc \in ProjectionSteps : Goto(w, pc)
  BY DEF Compare, Reread, Prove, At, Look, proof, environment, ProjectionSteps
<1>2. PICK pc \in ProjectionSteps : Goto(w, pc)
  BY <1>1
<1>3. ProofKnows(held[w])
  BY <1>1 DEF ProofInv
<1>4. PICK g : g = held'[w]
  OBVIOUS
<1>5. g.projection = held[w].projection /\ g.pc = pc
  BY <1>1, <1>2, <1>4, GotoFacts DEF Follows
<1>6. journal # None /\ journal.status = "COMMITTED" /\ SourceOK(g.projection)
  BY <1>1, <1>3, <1>5 DEF ProofKnows
<1>7. ProofKnows(g)
  BY <1>2, <1>5, <1>6, ProjectionKnows
<1>8. QED
  BY <1>1, <1>4, <1>7, OutProof

LEMMA SwapProves ==
    ASSUME Alone, CoreInv, ProofInv, NEW w \in Process, Swap(w) PROVE ProofInv'
<1>1. /\ Busy(w) /\ UNCHANGED <<preimage, journal, touched, projection>> /\ held[w].pc = "write"
      /\ Goto(w, "written") /\ sidecar' = [sidecar EXCEPT ![There(w)] = "B"]
  BY DEF Swap, At, environment
<1>2. ProofKnows(held[w]) /\ SidecarsKnown
  BY <1>1 DEF ProofInv
<1>3. journal # None /\ journal.status = "COMMITTED" /\ SourceOK(held[w].projection)
  BY <1>1, <1>2 DEF ProofKnows, ProjectionSteps
<1>4. projection # None
  BY <1>1, OutsideFacts, NoneAssumption DEF ProjectionSteps
<1>5. SidecarsKnown'
  <2>1. sidecar \in [Sidecar -> Bytes]
    BY DEF CoreInv, SharedTyped
  <2>2. \A s \in Sidecar \ touched : sidecar'[s] \in {"A", "B"}
    BY <1>1, <1>2, <2>1 DEF SidecarsKnown
  <2>3. SourceOK(projection)' /\ ProofFollowsFiles'
    BY <1>1, <1>2, <1>3 DEF SidecarsKnown, SourceOK, ProofFollowsFiles
  <2>4. QED
    BY <1>1, <1>2, <1>4, <2>2, <2>3 DEF SidecarsKnown
<1>6. PICK g : g = held'[w]
  OBVIOUS
<1>7. g.projection = held[w].projection /\ g.pc = "written"
  BY <1>1, <1>6, GotoFacts DEF Follows
<1>8. SourceOK(g.projection)'
  BY <1>1, <1>3, <1>7 DEF SourceOK
<1>9. ProofKnows(g)'
  BY <1>1, <1>3, <1>7, <1>8 DEF ProofKnows, InLock, CoreSteps, UndoSteps, ProjectionSteps
<1>10. QED
  BY <1>5, <1>6, <1>9, ProofStep

LEMMA RecordProjectedProves ==
    ASSUME Alone, CoreInv, ProofInv, NEW w \in Process, RecordProjected(w) PROVE ProofInv'
<1>1. Busy(w) /\ held[w].pc = "projected" /\ UNCHANGED <<sidecar, preimage, journal, touched>>
  BY DEF RecordProjected, At, environment
<1>2. PICK h, v : h = held[w] /\ v = h.projection
  OBVIOUS
<1>3. /\ h \in CallRecord /\ h.at \in 1..Len(Sidecars) /\ v \in Projection
      /\ projection \in Projection /\ ProofKnows(h)
  BY <1>1, <1>2, OutsideFacts DEF ProjectionSteps, SideSteps, ProofInv
<1>4. There(w) \in Sidecar
  BY <1>2, <1>3, SidecarFacts DEF There
<1>5. PICK u : u = [v EXCEPT !.there = @ \cup {There(w)}]
  OBVIOUS
<1>6. u # None /\ u.source = v.source
  BY <1>3, <1>4, <1>5, ProjectionSaved
<1>7. SourceOK(u) /\ projection # None
  BY <1>2, <1>3, <1>6, NoneAssumption DEF ProofKnows, SourceOK
<1>8. PICK g : g = [h EXCEPT !.projection = u,
                             !.pc = IF h.at = Len(Sidecars) THEN "prove" ELSE "aim",
                             !.at = IF h.at = Len(Sidecars) THEN @ ELSE @ + 1]
  OBVIOUS
<1>9. held' = [held EXCEPT ![w] = g] /\ projection' = u
  BY <1>2, <1>5, <1>8 DEF RecordProjected
<1>10. held'[w] = g /\ g.projection = u /\ g.pc \in {"prove", "aim"}
  BY <1>3, <1>8, <1>9 DEF CoreInv, CallsTyped, CallRecord
<1>11. journal # None /\ journal.status = "COMMITTED" /\ g.pc \in ProjectionSteps
  BY <1>1, <1>2, <1>3, <1>10 DEF ProofKnows, ProjectionSteps
<1>12. ProofKnows(g)
  BY <1>7, <1>10, <1>11, ProjectionKnows
<1>13. projection # None /\ projection' # None /\ \E x : projection' = x /\ SourceOK(x)
  BY <1>6, <1>7, <1>9
<1>14. QED
  BY <1>1, <1>10, <1>12, <1>13, OutProof

LEMMA FailProjectionProves ==
    ASSUME Alone, CoreInv, ProofInv, NEW w \in Process, FailProjection(w) PROVE ProofInv'
<1>1. Busy(w) /\ held[w].pc \in ProjectionSteps
  BY DEF FailProjection
<1>2. projection \in Projection
  BY <1>1, OutsideFacts DEF ProjectionSteps
<1>3. PICK u : u = [projection EXCEPT !.status = "RECOVERY_REQUIRED"]
  OBVIOUS
<1>4. u # None /\ u.source = projection.source
  BY <1>2, <1>3, ProjectionSaved
<1>5. SourceOK(u)
  BY <1>2, <1>4, NoneAssumption DEF ProofInv, SidecarsKnown, SourceOK
<1>6. /\ held' = [held EXCEPT ![w].projection = u, ![w].pc = "unwind"] /\ projection' = u
      /\ UNCHANGED <<sidecar, preimage, journal, touched>>
  BY <1>3 DEF FailProjection
<1>7. QED
  BY <1>1, <1>2, <1>4, <1>5, <1>6, SavedProof

LEMMA EndProves ==
    ASSUME Alone, CoreInv, ProofInv, NEW w \in Process, CommitProof(w) \/ Seal(w) \/ SealBack(w)
    PROVE  ProofInv'
<1>1. Busy(w) /\ held[w].pc \in {"commitproof", "seal", "sealback"}
  BY DEF CommitProof, Seal, SealBack, At
<1>2. PICK v : v = held[w].projection
  OBVIOUS
<1>3. v \in Projection /\ projection \in Projection /\ ProofKnows(held[w])
  BY <1>1, <1>2, OutsideFacts DEF ProjectionSteps, OuterSteps, ProofInv
<1>4. \E status \in {"COMMITTED", "RECOVERY_BLOCKED", "ROLLED_BACK"} :
         ReturnWith(w, [v EXCEPT !.status = status])
  BY <1>2 DEF CommitProof, Seal, SealBack
<1>5. PICK status \in {"COMMITTED", "RECOVERY_BLOCKED", "ROLLED_BACK"} :
         ReturnWith(w, [v EXCEPT !.status = status])
  BY <1>4
<1>6. PICK u : u = [v EXCEPT !.status = status]
  OBVIOUS
<1>7. u # None /\ u.source = v.source
  BY <1>3, <1>6, ProjectionSaved
<1>8. SourceOK(u) /\ projection # None
  BY <1>2, <1>3, <1>7, NoneAssumption DEF ProofKnows, SourceOK
<1>9. held'[w] = Idle /\ projection' = u /\ UNCHANGED <<sidecar, preimage, journal, touched>>
  BY <1>5, <1>6 DEF ReturnWith, Return, environment, CoreInv, CallsTyped
<1>10. projection # None /\ projection' # None /\ \E x : projection' = x /\ SourceOK(x)
  BY <1>7, <1>8, <1>9
<1>11. QED
  BY <1>9, <1>10, OutProof

LEMMA UnwindProves ==
    ASSUME Alone, CoreInv, ProofInv, NEW w \in Process, Unwind(w) PROVE ProofInv'
<1>1. Busy(w) /\ held[w].pc = "unwind" /\ UNCHANGED <<sidecar, preimage, journal, touched>>
  BY DEF Unwind, At, ReturnWith, proof, environment
<1>2. PICK h : h = held[w]
  OBVIOUS
<1>3. /\ h \in CallRecord /\ projection \in Projection
      /\ \A g : held' = [held EXCEPT ![w] = g] => held'[w] = g
  BY <1>1, <1>2, OutsideFacts DEF OuterSteps, CoreInv, CallsTyped
<1>4. SourceOK(projection)
  BY DEF ProofInv, SidecarsKnown
<1>5. CASE \A s \in Sidecar : Known(projection, s)
  <2>1. PICK g : g = [h EXCEPT !.projection = projection, !.pc = "sidecars",
                               !.at = Len(Sidecars), !.undo = TRUE, !.after = "seal"]
    OBVIOUS
  <2>2. held' = [held EXCEPT ![w] = g] /\ projection' = projection
    BY <1>2, <1>5, <2>1 DEF Unwind, proof
  <2>3. g.pc = "sidecars" /\ g.at = Len(Sidecars) /\ g.projection = projection
    BY <1>3, <2>1 DEF CallRecord
  <2>4. BackFrom(g)
    BY <2>3, SidecarFacts DEF BackFrom
  <2>5. ProofKnows(g)
    BY <1>4, <2>3, <2>4 DEF ProofKnows, InLock, CoreSteps, UndoSteps, ProjectionSteps
  <2>6. QED
    BY <1>1, <1>3, <2>2, <2>5, OutProof
<1>6. CASE ~ \A s \in Sidecar : Known(projection, s)
  <2>1. PICK u : u = [projection EXCEPT !.status = "RECOVERY_BLOCKED"]
    OBVIOUS
  <2>2. u # None /\ u.source = projection.source
    BY <1>3, <2>1, ProjectionSaved
  <2>3. SourceOK(u) /\ projection # None
    BY <1>3, <1>4, <2>2, NoneAssumption DEF SourceOK
  <2>4. held' = [held EXCEPT ![w] = Idle] /\ projection' = u
    BY <1>6, <2>1 DEF Unwind, ReturnWith, Return
  <2>5. projection # None /\ projection' # None /\ \E x : projection' = x /\ SourceOK(x)
    BY <2>2, <2>3, <2>4
  <2>6. QED
    BY <1>1, <1>3, <2>4, <2>5, OutProof
<1>7. QED
  BY <1>5, <1>6

LEMMA EnterCoreProves ==
    ASSUME Alone, CoreInv, ProofInv, NEW w \in Process, EnterCore(w) PROVE ProofInv'
<1>1. Busy(w) /\ held[w].pc = "rollback" /\ UNCHANGED proof /\ touched' = touched
  BY DEF EnterCore, At, environment
<1>2. PICK h : h = held[w]
  OBVIOUS
<1>3. /\ h \in CallRecord /\ ProofKnows(h)
      /\ \A g : held' = [held EXCEPT ![w] = g] => held'[w] = g
  BY <1>1, <1>2, CallFacts DEF CoreInv, CallsTyped, ProofInv
<1>4. NoB /\ SourceOK(h.projection)
  BY <1>1, <1>2, <1>3 DEF ProofKnows
<1>5. PICK i : i = [h EXCEPT !.journal = journal, !.pc = "recover"]
  OBVIOUS
<1>6. PICK g : g = IF journal = None THEN Idle ELSE i
  OBVIOUS
<1>7. held' = [held EXCEPT ![w] = g]
  BY <1>2, <1>5, <1>6 DEF EnterCore, Return, CoreInv, CallsTyped
<1>8. i.projection = h.projection /\ i.pc = "recover"
  BY <1>3, <1>5 DEF CallRecord
<1>9. held'[w] = g /\ (g = Idle \/ (SourceOK(g.projection) /\ LeavesLock(g)))
  BY <1>3, <1>4, <1>6, <1>7, <1>8 DEF LeavesLock, UndoSteps
<1>10. QED
  BY <1>1, <1>4, <1>9, QuietProof

LEMMA CheckSidecarsProves ==
    ASSUME Alone, CoreInv, ProofInv, NEW w \in Process, CheckSidecars(w) PROVE ProofInv'
<1>1. /\ Busy(w) /\ held[w].pc = "check"
      /\ UNCHANGED <<sidecar, preimage, journal, touched, projection>>
  BY DEF CheckSidecars, At, proof, environment
<1>2. PICK h : h = held[w]
  OBVIOUS
<1>3. /\ h \in CallRecord /\ ProofKnows(h)
      /\ \A g : held' = [held EXCEPT ![w] = g] => held'[w] = g
  BY <1>1, <1>2, CallFacts DEF CoreInv, CallsTyped, ProofInv
<1>4. PICK i : i = [h EXCEPT !.pc = "sidecars"]
  OBVIOUS
<1>5. held' = [held EXCEPT ![w] = i] \/ held' = [held EXCEPT ![w] = Idle]
  BY <1>2, <1>4 DEF CheckSidecars
<1>6. i.pc = "sidecars" /\ i.at = Len(Sidecars) /\ i.projection = h.projection
  BY <1>1, <1>2, <1>3, <1>4 DEF CallRecord, ProofKnows
<1>7. BackFrom(i)
  BY <1>6, SidecarFacts DEF BackFrom
<1>8. ProofKnows(i)
  BY <1>3, <1>6, <1>7 DEF ProofKnows, InLock, CoreSteps, UndoSteps, ProjectionSteps
<1>9. QED
  BY <1>1, <1>3, <1>5, <1>8, OutProof

\* One sidecar further back.
LEMMA OnwardProof ==
    ASSUME NEW h \in CallRecord, h.at \in 1..Len(Sidecars), h.projection \in Projection,
           SourceOK(h.projection), NEW s \in Sidecar, NEW k, k = Home(h, s),
           NEW g, g = Onward(k),
           \A m \in DOMAIN Sidecars : m >= h.at => (Ours(Sidecars[m]) => sidecar[Sidecars[m]] # "B")
    PROVE  ProofKnows(g) /\ k.projection # None /\ SourceOK(k.projection)
<1>1. PICK v : v = [h.projection EXCEPT !.there = @ \ {s}]
  OBVIOUS
<1>2. k = [h EXCEPT !.projection = v]
  BY <1>1 DEF Home
<1>3. v \in Projection /\ v.source = h.projection.source
  BY <1>1 DEF Projection
<1>4. k \in CallRecord /\ k.at = h.at /\ k.projection = v
  BY <1>2, <1>3 DEF CallRecord
<1>5. v # None /\ h.projection # None /\ SourceOK(v)
  BY <1>3, NoneAssumption DEF SourceOK
<1>6. CASE k.at > 1
  <2>1. g = [k EXCEPT !.pc = "sidecars", !.at = @ - 1]
    BY <1>6 DEF Onward
  <2>2. g.pc = "sidecars" /\ g.at = h.at - 1 /\ g.projection = v
    BY <1>4, <2>1 DEF CallRecord
  <2>3. BackFrom(g)
    BY <2>2, SidecarFacts DEF BackFrom
  <2>4. QED
    BY <1>4, <1>5, <2>2, <2>3 DEF ProofKnows, InLock, CoreSteps, UndoSteps, ProjectionSteps
<1>7. CASE ~(k.at > 1)
  <2>1. g = [k EXCEPT !.pc = IF k.undo THEN "rollback" ELSE "sealback"]
    BY <1>7 DEF Onward
  <2>2. g.pc \in {"rollback", "sealback"} /\ g.projection = v
    BY <1>4, <2>1 DEF CallRecord
  <2>3. h.at = 1
    BY <1>4, <1>7, SidecarFacts
  <2>4. NoB
    BY <2>3, SidecarFacts DEF NoB, Ours
  <2>5. QED
    BY <1>4, <1>5, <2>2, <2>4 DEF ProofKnows, InLock, CoreSteps, UndoSteps, ProjectionSteps
<1>8. QED
  BY <1>6, <1>7

LEMMA LookAtSidecarProves ==
    ASSUME Alone, CoreInv, ProofInv, NEW w \in Process, LookAtSidecar(w) PROVE ProofInv'
<1>1. /\ Busy(w) /\ held[w].pc = "sidecars"
      /\ UNCHANGED <<sidecar, preimage, journal, touched, projection>>
  BY DEF LookAtSidecar, At, proof, environment
<1>2. PICK h, s : h = held[w] /\ s = There(w)
  OBVIOUS
<1>3. /\ h \in CallRecord /\ h.at \in 1..Len(Sidecars) /\ h.projection \in Projection
      /\ h.projection # None /\ ProofKnows(h)
      /\ \A g : held' = [held EXCEPT ![w] = g] => held'[w] = g
  BY <1>1, <1>2, OutsideFacts, NoneAssumption DEF OuterSteps, SideSteps, CoreInv, CallsTyped, ProofInv
<1>4. s \in Sidecar /\ s = Sidecars[h.at] /\ SourceOK(h.projection)
  BY <1>2, <1>3, SidecarFacts DEF There, ProofKnows
<1>5. CASE sidecar[s] = h.projection.source[s]
  <2>1. PICK k, g : k = Home(h, s) /\ g = Onward(k)
    OBVIOUS
  <2>2. held' = [held EXCEPT ![w] = g]
    BY <1>2, <1>5, <2>1 DEF LookAtSidecar
  <2>3. \A m \in DOMAIN Sidecars : m >= h.at => (Ours(Sidecars[m]) => sidecar[Sidecars[m]] # "B")
    <3>1. Ours(s) => sidecar[s] # "B"
      BY <1>3, <1>4, <1>5 DEF SourceOK, Ours
    <3>2. BackFrom(h)
      BY <1>1, <1>2, <1>3 DEF ProofKnows
    <3>3. QED
      BY <1>3, <1>4, <3>1, <3>2, SidecarFacts DEF BackFrom
  <2>4. ProofKnows(g)
    BY <1>3, <1>4, <2>1, <2>3, OnwardProof
  <2>5. QED
    BY <1>1, <1>3, <2>2, <2>4, OutProof
<1>6. CASE sidecar[s] # h.projection.source[s]
  <2>1. PICK g : g = [h EXCEPT !.pc = "unproject"]
    OBVIOUS
  <2>2. held' = [held EXCEPT ![w] = g]
    BY <1>2, <1>6, <2>1 DEF LookAtSidecar
  <2>3. g.pc = "unproject" /\ g.at = h.at /\ g.projection = h.projection
    BY <1>3, <2>1 DEF CallRecord
  <2>4. BackFrom(g)
    BY <1>1, <1>2, <1>3, <2>3 DEF BackFrom, ProofKnows
  <2>5. ProofKnows(g)
    BY <1>4, <2>3, <2>4 DEF ProofKnows, InLock, CoreSteps, UndoSteps, ProjectionSteps
  <2>6. QED
    BY <1>1, <1>3, <2>2, <2>5, OutProof
<1>7. QED
  BY <1>5, <1>6

LEMMA RestoreSidecarProves ==
    ASSUME Alone, CoreInv, ProofInv, NEW w \in Process, RestoreSidecar(w) PROVE ProofInv'
<1>1. /\ Busy(w) /\ UNCHANGED <<preimage, journal, touched, projection>>
      /\ held[w].pc = "unproject" /\ Goto(w, "unprojected")
      /\ sidecar' = [sidecar EXCEPT ![There(w)] = preimage[There(w)]]
  BY DEF RestoreSidecar, At, environment
<1>2. PICK h, s : h = held[w] /\ s = There(w)
  OBVIOUS
<1>3. /\ h.at \in 1..Len(Sidecars) /\ projection # None /\ ProofKnows(h) /\ SidecarsKnown
  BY <1>1, <1>2, OutsideFacts, NoneAssumption DEF OuterSteps, SideSteps, ProofInv
<1>4. s \in Sidecar /\ s = Sidecars[h.at] /\ SourceOK(h.projection) /\ BackFrom(h)
  BY <1>1, <1>2, <1>3, SidecarFacts DEF There, ProofKnows
<1>5. /\ sidecar' = [sidecar EXCEPT ![s] = preimage[s]] /\ (Ours(s) => preimage[s] = "A")
      /\ sidecar \in [Sidecar -> Bytes]
  BY <1>1, <1>2, <1>3, <1>4 DEF SidecarsKnown, Ours, CoreInv, SharedTyped
<1>6. SidecarsKnown'
  BY <1>1, <1>3, <1>5 DEF SidecarsKnown, SourceOK, ProofFollowsFiles, Ours
<1>7. PICK g : g = held'[w]
  OBVIOUS
<1>8. g.projection = h.projection /\ g.pc = "unprojected" /\ g.at = h.at
  BY <1>1, <1>2, <1>7, GotoFacts DEF Follows
<1>9. BackFrom(g)'
  <2>1. \A m \in DOMAIN Sidecars : m >= h.at => (Ours(Sidecars[m]) => sidecar'[Sidecars[m]] # "B")
    <3>1. TAKE m \in DOMAIN Sidecars
    <3>2. HAVE m >= h.at
    <3>3. HAVE Ours(Sidecars[m])
    <3>4. Sidecars[m] \in Sidecar
      BY SidecarFacts
    <3>5. CASE Sidecars[m] = s
      BY <1>5, <3>3, <3>4, <3>5
    <3>6. CASE Sidecars[m] # s
      <4>1. m > h.at
        BY <1>3, <1>4, <3>2, <3>6, SidecarFacts
      <4>2. QED
        BY <1>4, <1>5, <3>3, <3>4, <3>6, <4>1 DEF BackFrom
    <3>7. QED
      BY <3>5, <3>6
  <2>2. QED
    BY <1>1, <1>3, <1>8, <2>1, SidecarFacts DEF BackFrom, Ours
<1>10. ProofKnows(g)'
  BY <1>1, <1>4, <1>8, <1>9
  DEF ProofKnows, InLock, CoreSteps, UndoSteps, ProjectionSteps, SourceOK
<1>11. QED
  BY <1>6, <1>7, <1>10, ProofStep

LEMMA RecordRestoredProves ==
    ASSUME Alone, CoreInv, ProofInv, NEW w \in Process, RecordRestored(w) PROVE ProofInv'
<1>1. /\ Busy(w) /\ held[w].pc = "unprojected" /\ UNCHANGED <<sidecar, preimage, journal, touched>>
  BY DEF RecordRestored, At, environment
<1>2. PICK h, s : h = held[w] /\ s = There(w)
  OBVIOUS
<1>3. /\ h \in CallRecord /\ h.at \in 1..Len(Sidecars) /\ h.projection \in Projection
      /\ projection # None /\ ProofKnows(h)
      /\ \A g : held' = [held EXCEPT ![w] = g] => held'[w] = g
  BY <1>1, <1>2, OutsideFacts, NoneAssumption DEF OuterSteps, SideSteps, CoreInv, CallsTyped, ProofInv
<1>4. s \in Sidecar /\ SourceOK(h.projection) /\ BackFrom(h) /\ h.pc = "unprojected"
  BY <1>1, <1>2, <1>3, SidecarFacts DEF There, ProofKnows
<1>5. PICK k, g : k = Home(h, s) /\ g = Onward(k)
  OBVIOUS
<1>6. held' = [held EXCEPT ![w] = g] /\ projection' = k.projection
  BY <1>2, <1>5 DEF RecordRestored
<1>7. \A m \in DOMAIN Sidecars : m >= h.at => (Ours(Sidecars[m]) => sidecar[Sidecars[m]] # "B")
  BY <1>3, <1>4, SidecarFacts DEF BackFrom
<1>8. ProofKnows(g) /\ k.projection # None /\ SourceOK(k.projection)
  BY <1>3, <1>4, <1>5, <1>7, OnwardProof
<1>9. projection # None /\ projection' # None /\ \E x : projection' = x /\ SourceOK(x)
  BY <1>3, <1>6, <1>8
<1>10. QED
  BY <1>1, <1>3, <1>6, <1>8, <1>9, OutProof

\* What the consumer does to a sidecar is the consumer's.
LEMMA EditProves ==
    ASSUME CoreInv, ProofInv, NEW p \in Path \cup Sidecar, NEW b, Edit(p, b) PROVE ProofInv'
<1>1. UNCHANGED <<journal, preimage, projection, held>> /\ touched' = touched \cup {p}
  BY DEF Edit
<1>2. sidecar' = sidecar \/ (p \in Sidecar /\ sidecar' = [sidecar EXCEPT ![p] = b])
  BY DEF Edit
<1>3. sidecar \in [Sidecar -> Bytes]
  BY DEF CoreInv, SharedTyped
<1>4. \A s \in Sidecar \ touched' : s \in Sidecar \ touched /\ sidecar'[s] = sidecar[s]
  BY <1>1, <1>2, <1>3
<1>5. ProofFollowsFiles' /\ (NoB => NoB') /\ \A v : SourceOK(v) => SourceOK(v)'
  BY <1>1, <1>4 DEF ProofInv, SidecarsKnown, ProofFollowsFiles, NoB, SourceOK
<1>6. SidecarsKnown'
  BY <1>1, <1>4, <1>5 DEF ProofInv, SidecarsKnown, SourceOK
<1>7. ASSUME NEW w \in Process, Busy(w)' PROVE ProofKnows(held[w])'
  <2>1. PICK h : h = held[w]
    OBVIOUS
  <2>2. ProofKnows(h) /\ held'[w] = h
    BY <1>1, <1>7, <2>1 DEF ProofInv, Busy
  <2>3. \A m \in DOMAIN Sidecars : Sidecars[m] \in Sidecar
    BY SidecarFacts
  <2>4. \A m \in DOMAIN Sidecars :
           Ours(Sidecars[m])' => Ours(Sidecars[m]) /\ sidecar'[Sidecars[m]] = sidecar[Sidecars[m]]
    BY <1>4, <2>3 DEF Ours
  <2>5. BackFrom(h) => BackFrom(h)'
    BY <2>4 DEF BackFrom
  <2>6. h.pc = "preimage" => \A k \in 1..(h.at - 1) : Ours(Sidecars[k])' => preimage[Sidecars[k]] = "A"
    BY <1>1, <2>2 DEF ProofKnows, Ours
  <2>7. h.pc = "prepared" => \A s \in Sidecar \ touched' : preimage[s] = "A"
    BY <1>4, <2>2 DEF ProofKnows
  <2>8. ProofKnows(h)'
    BY <1>1, <1>5, <2>2, <2>5, <2>6, <2>7 DEF ProofKnows, InLock
  <2>9. QED
    BY <2>2, <2>8
<1>8. QED
  BY <1>6, <1>7 DEF ProofInv

LEMMA StutterProves == ASSUME ProofInv, UNCHANGED vars PROVE ProofInv'
<1>1. UNCHANGED <<journal, preimage, projection, held, sidecar, touched>>
  BY DEF vars, proof, environment
<1>2. QED
  BY <1>1 DEF ProofInv, SidecarsKnown, ProofFollowsFiles, SourceOK, ProofKnows, NoB, BackFrom, Ours,
              InLock, Busy

LEMMA CrashProves ==
    ASSUME Alone, CoreInv, ProofInv, NEW w \in Process, Crash(w) PROVE ProofInv'
<1>1. held'[w] = Idle /\ UNCHANGED <<sidecar, preimage, journal, touched, projection>>
  BY DEF Crash, Return, proof, CoreInv, CallsTyped
<1>2. QED
  BY <1>1, OutProof

LEMMA StepProves ==
    ASSUME Alone, CoreInv, ProofInv, NEW w \in Process, Steps(w) PROVE ProofInv'
<1>1. CASE Preflight(w) BY <1>1, PreflightProves
<1>2. CASE Open(w) BY <1>2, OpenProves
<1>3. CASE ApplySteps(w) /\ ~Preflight(w) /\ ~Open(w)
  <2>1. Busy(w) /\ InLock(held[w])
    BY <1>3
    DEF ApplySteps, Begin, Preserve, MakeDirectory, RecordDirectory, WriteStage, RecordStage,
        BackUp, RecordBackUp, LookAtSource, UnlinkSource, RecordRemoved, Install, RecordInstalled,
        Unstage, Verify, CheckAfter, Publish, RecordSnapshot, Commit, ReadBack, Fail, At, InLock,
        CoreSteps
  <2>2. QED
    BY <1>3, <2>1, CoreProof
<1>4. CASE RecoverySteps(w)
  <2>1. Busy(w) /\ held[w].pc \in UndoSteps
    BY <1>4
    DEF RecoverySteps, RetractSnapshot, UndoKept, PassProfile, LookBack, DropInstalled, Restore,
        ClearStage, UndoFails, RemoveDirectory, PurgeQuarantine, CloseRecovery, Renew, At, UndoSteps
  <2>2. QED
    BY <1>4, <2>1, UndoProof
<1>5. CASE ConnectedSteps(w)
  <2>1. CASE SavePreimage(w) BY <2>1, SavePreimageProves
  <2>2. CASE Prepare(w) BY <2>2, PrepareProves
  <2>3. CASE Project(w) BY <2>3, ProjectProves
  <2>4. CASE Aim(w) BY <2>4, AimProves
  <2>5. CASE Compare(w) \/ Reread(w) \/ Prove(w) BY <2>5, CompareProves
  <2>6. CASE Swap(w) BY <2>6, SwapProves
  <2>7. CASE RecordProjected(w) BY <2>7, RecordProjectedProves
  <2>8. CASE CommitProof(w) \/ Seal(w) \/ SealBack(w) BY <2>8, EndProves
  <2>9. CASE FailProjection(w) BY <2>9, FailProjectionProves
  <2>10. CASE Unwind(w) BY <2>10, UnwindProves
  <2>11. CASE EnterCore(w) BY <2>11, EnterCoreProves
  <2>12. CASE CheckSidecars(w) BY <2>12, CheckSidecarsProves
  <2>13. CASE LookAtSidecar(w) BY <2>13, LookAtSidecarProves
  <2>14. CASE RestoreSidecar(w) BY <2>14, RestoreSidecarProves
  <2>15. CASE RecordRestored(w) BY <2>15, RecordRestoredProves
  <2>16. QED
    BY <1>5, <2>1, <2>2, <2>3, <2>4, <2>5, <2>6, <2>7, <2>8, <2>9, <2>10, <2>11, <2>12, <2>13,
       <2>14, <2>15 DEF ConnectedSteps
<1>6. QED
  BY <1>1, <1>2, <1>3, <1>4, <1>5 DEF Steps

LEMMA ProofInvariant == ASSUME Alone PROVE Spec => []ProofInv
<1>1. Init => ProofInv
  BY ProofInit
<1>2. CoreInv /\ ProofInv /\ [Next]_vars => ProofInv'
  <2> SUFFICES ASSUME CoreInv, ProofInv, [Next]_vars PROVE ProofInv'
    OBVIOUS
  <2>1. CASE UNCHANGED vars
    BY <2>1, StutterProves
  <2>2. ASSUME NEW w \in Process, Calls(w) PROVE ProofInv'
    BY <2>2, StartProves DEF Calls
  <2>3. ASSUME NEW w \in Process, Steps(w) PROVE ProofInv'
    BY <2>3, StepProves
  <2>4. ASSUME NEW w \in Process, Crash(w) PROVE ProofInv'
    BY <2>4, CrashProves
  <2>5. ASSUME NEW p \in Path \cup Sidecar, NEW b \in Bytes \ {"A"}, Edit(p, b) PROVE ProofInv'
    BY <2>5, EditProves
  <2>6. QED
    BY <2>1, <2>2, <2>3, <2>4, <2>5 DEF Next
<1>3. QED
  BY <1>1, <1>2, CoreInvariant, PTL DEF Spec

\* With one operator at a time, no sidecar claims B unless the files are committed to it,
\* and what is rolled back has the sidecars of A as well
\* (consumer_upgrade_projection.py, project_committed_upgrade, rollback_connected_upgrade).
THEOREM StatusTrue == ASSUME Alone PROVE Spec => []StatusIsTrue
<1>1. ASSUME CoreInv, ProofInv PROVE StatusIsTrue
  <2>1. JournalIsTrue
    BY <1>1, CoreTells
  <2>2. SidecarsKnown
    BY <1>1 DEF ProofInv
  <2>3. RolledBackProof
    <3> SUFFICES ASSUME projection # None, journal.status = "ROLLED_BACK"
                 PROVE \A s \in Sidecar \ touched : sidecar[s] = "A"
      BY DEF RolledBackProof
    <3>1. \A s \in Sidecar \ touched : sidecar[s] # "B"
      BY <2>2 DEF SidecarsKnown, ProofFollowsFiles
    <3>2. QED
      BY <2>2, <3>1 DEF SidecarsKnown
  <2>4. QED
    BY <2>1, <2>2, <2>3 DEF JournalIsTrue, SidecarsKnown, StatusIsTrue
<1>2. CoreInv /\ ProofInv => StatusIsTrue
  BY <1>1
<1>3. QED
  BY <1>2, CoreInvariant, ProofInvariant, PTL

-----------------------------------------------------------------------------
(* The bytes of the consumer, with one operator: what a call is about to     *)
(* remove or replace is what it saw, or the consumer came late.              *)
Looked == {"unlink", "drop", "write", "sidecars", "unproject", "unprojected"}
Source(v) == v # None => v.source = preimage
CalmFiles(h) ==
    /\ h.pc = "unlink" => target[Items[h.at]] = "A" \/ Items[h.at] \in late
    /\ h.pc = "drop" => target[Items[h.at]] = "B" \/ Items[h.at] \in late
CalmSidecars(h) ==
    /\ Source(h.projection)
    /\ h.pc = "write" => \/ sidecar[Sidecars[h.at]] = h.projection.source[Sidecars[h.at]]
                         \/ Sidecars[h.at] \in late
    /\ h.pc \in {"sidecars", "unproject", "unprojected"} =>
           \A s \in Sidecar : Known(h.projection, s) \/ s \in late
    /\ h.pc = "unproject" => sidecar[Sidecars[h.at]] = "B" \/ Sidecars[h.at] \in late
CalmInv == /\ Source(projection)
           /\ \A w \in Process : Busy(w) => CalmFiles(held[w]) /\ CalmSidecars(held[w])

LEMMA CalmStep ==
    ASSUME Alone, NEW w \in Process, Source(projection)', NEW g, held'[w] = g,
           g = Idle \/ (CalmFiles(g)' /\ CalmSidecars(g)')
    PROVE  CalmInv'
<1> SUFFICES ASSUME NEW v \in Process, Busy(v)' PROVE CalmFiles(held[v])' /\ CalmSidecars(held[v])'
  BY DEF CalmInv
<1>1. v = w /\ held'[v] # Idle
  BY DEF Alone, Busy
<1>2. QED
  BY <1>1

\* A step after which nothing that was seen is about to be acted on.
LEMMA EasyCalm ==
    ASSUME Alone, CalmInv, NEW w \in Process, NEW g, held'[w] = g, preimage' = preimage,
           projection' = projection \/ \E v : projection' = v /\ Source(v),
           g = Idle \/ (Source(g.projection) /\ g.pc \notin Looked)
    PROVE  CalmInv'
<1>1. Source(projection)'
  BY DEF CalmInv, Source
<1>2. ASSUME g # Idle PROVE CalmFiles(g)' /\ CalmSidecars(g)'
  BY <1>2 DEF CalmFiles, CalmSidecars, Looked, Source
<1>3. QED
  BY <1>1, <1>2, CalmStep

LEMMA CalmInit == ASSUME Init PROVE CalmInv
  BY DEF Init, CalmInv, Busy, Source

LEMMA StartCalms ==
    ASSUME Alone, CoreInv, CalmInv, NEW w \in Process, Apply(w) \/ Rollback(w) \/ Recover(w)
    PROVE  CalmInv'
<1>1. PICK g, pc : /\ held' = [held EXCEPT ![w] = g]
                   /\ Starting(g, pc, projection) /\ Opening(pc, projection)
  BY Starts
<1>2. held'[w] = g /\ UNCHANGED <<preimage, projection>>
  BY <1>1 DEF Apply, Rollback, Recover, CoreInv, CallsTyped, proof
<1>3. Source(g.projection) /\ g.pc \notin Looked
  BY <1>1 DEF CalmInv, Starting, Opening, Looked
<1>4. QED
  BY <1>2, <1>3, EasyCalm

LEMMA LookAtSourceCalms ==
    ASSUME Alone, CoreInv, CalmInv, NEW w \in Process, LookAtSource(w) PROVE CalmInv'
<1>1. Busy(w) /\ target[Here(w)] = "A" /\ Goto(w, "unlink") /\ UNCHANGED <<target, preimage, projection>>
  BY DEF LookAtSource, At, Look, files, proof
<1>2. PICK g : g = held'[w]
  OBVIOUS
<1>3. Follows(held[w], g, "unlink")
  BY <1>1, <1>2, GotoFacts
<1>4. Source(g.projection)' /\ Source(projection)'
  BY <1>1, <1>3 DEF CalmInv, CalmSidecars, Follows, Source
<1>5. CalmFiles(g)'
  BY <1>1, <1>3 DEF CalmFiles, Follows, Here
<1>6. CalmSidecars(g)'
  BY <1>3, <1>4 DEF CalmSidecars, Follows
<1>7. QED
  BY <1>2, <1>4, <1>5, <1>6, CalmStep

LEMMA LookBackCalms ==
    ASSUME Alone, CoreInv, CalmInv, NEW w \in Process, LookBack(w) PROVE CalmInv'
<1>1. /\ Busy(w) /\ held[w].pc = "undo" /\ UNCHANGED <<target, preimage, projection>>
  BY DEF LookBack, At, files, proof
<1>2. PICK h, p : h = held[w] /\ p = Here(w)
  OBVIOUS
<1>3. /\ h \in CallRecord /\ p \in Path /\ Source(h.projection)
      /\ \A g : held' = [held EXCEPT ![w] = g] => held'[w] = g
  BY <1>1, <1>2, AtBack, AtUndo DEF CoreInv, CallsTyped, CalmInv, CalmSidecars, BackSteps, UndoSteps
<1>4. PICK next : next = CASE target[p] = "B" /\ Stages(p) /\ Proven(h, p) -> "drop"
                           [] target[p] = "absent" /\ plan[p] = "CREATE"   -> "clear"
                           [] target[p] \in {"absent", "A"} /\ Removes(p)  -> "restore"
                           [] OTHER                                        -> "blocked"
  OBVIOUS
<1>5. next \in {"drop", "clear", "restore", "blocked"} /\ (next = "drop" => target[p] = "B")
  BY <1>4
<1>6. PICK b : b = Blocked(h, p)
  OBVIOUS
<1>7. PICK g : g = IF next = "blocked" THEN [b EXCEPT !.pc = "clear"] ELSE [h EXCEPT !.pc = next]
  OBVIOUS
<1>8. held' = [held EXCEPT ![w] = g]
  BY <1>2, <1>4, <1>6, <1>7 DEF LookBack
<1>9. b \in CallRecord /\ b.projection = h.projection
  BY <1>3, <1>6, BlockedFacts
<1>10. CASE next = "blocked"
  <2>1. g.projection = h.projection /\ g.pc = "clear"
    BY <1>7, <1>9, <1>10 DEF CallRecord
  <2>2. QED
    BY <1>1, <1>3, <1>8, <2>1, EasyCalm DEF Looked
<1>11. CASE next # "blocked"
  <2>1. g.projection = h.projection /\ g.pc = next /\ g.at = h.at
    BY <1>3, <1>7, <1>11 DEF CallRecord
  <2>2. CalmFiles(g)'
    BY <1>1, <1>2, <1>5, <2>1 DEF CalmFiles, Here
  <2>3. Source(g.projection)' /\ Source(projection)'
    BY <1>1, <1>3, <2>1 DEF CalmInv, Source
  <2>4. CalmSidecars(g)'
    BY <1>5, <2>1, <2>3 DEF CalmSidecars
  <2>5. QED
    BY <1>3, <1>8, <2>2, <2>3, <2>4, CalmStep
<1>12. QED
  BY <1>10, <1>11

\* The rest of what happens under the lock.
LEMMA LockCalms ==
    ASSUME Alone, CoreInv, CalmInv, NEW w \in Process, Busy(w), InLock(held[w]),
           ApplySteps(w) \/ RecoverySteps(w)
    PROVE  CalmInv'
<1>1. CASE LookAtSource(w)
  BY <1>1, LookAtSourceCalms
<1>2. CASE LookBack(w)
  BY <1>2, LookBackCalms
<1>3. CASE ~LookAtSource(w) /\ ~LookBack(w)
  <2>1. CASE ApplySteps(w)
    <3>1. /\ UNCHANGED proof
          /\ held'[w].projection = held[w].projection /\ LeavesLock(held'[w])
          /\ held'[w].pc \notin {"unlink", "drop"}
      BY <1>3, <2>1, CoreLeaves
    <3>2. QED
      BY <3>1, EasyCalm
      DEF CalmInv, CalmSidecars, LeavesLock, CoreSteps, UndoSteps, Looked, proof
  <2>2. CASE RecoverySteps(w)
    <3>1. held[w].pc \in UndoSteps
      BY <2>2
      DEF RecoverySteps, RetractSnapshot, UndoKept, PassProfile, LookBack, DropInstalled, Restore,
          ClearStage, UndoFails, RemoveDirectory, PurgeQuarantine, CloseRecovery, Renew, At, UndoSteps
    <3>2. /\ UNCHANGED proof
          /\ \/ held'[w] = Idle
             \/ /\ held'[w].projection = held[w].projection /\ LeavesLock(held'[w])
                /\ held'[w].pc \notin {"unlink", "drop"}
      BY <1>3, <2>2, <3>1, UndoLeaves
    <3>3. QED
      BY <3>2, EasyCalm
      DEF CalmInv, CalmSidecars, LeavesLock, CoreSteps, UndoSteps, Looked, proof
  <2>3. QED
    BY <2>1, <2>2
<1>4. QED
  BY <1>1, <1>2, <1>3

\* Outside the lock.
LEMMA ReturnCalms ==
    ASSUME Alone, CalmInv, NEW w \in Process, held'[w] = Idle, preimage' = preimage,
           projection' = projection \/ \E v : projection' = v /\ Source(v)
    PROVE  CalmInv'
  BY EasyCalm

\* A call goes on with the projection it has.
LEMMA GotoCalms ==
    ASSUME Alone, CoreInv, CalmInv, NEW w \in Process, Busy(w), NEW pc, Goto(w, pc),
           pc \notin Looked, UNCHANGED <<preimage, projection>>
    PROVE  CalmInv'
<1>1. PICK g : g = held'[w]
  OBVIOUS
<1>2. Follows(held[w], g, pc)
  BY <1>1, GotoFacts
<1>3. Source(g.projection) /\ g.pc \notin Looked
  BY <1>2 DEF CalmInv, CalmSidecars, Follows
<1>4. QED
  BY <1>1, <1>3, EasyCalm

LEMMA PreflightCalms ==
    ASSUME Alone, CoreInv, CalmInv, NEW w \in Process, Preflight(w) PROVE CalmInv'
<1>1. Busy(w) /\ UNCHANGED <<preimage, projection>>
  BY DEF Preflight, At, proof
<1>2. Return(w) \/ Goto(w, "project") \/ Goto(w, "open")
  BY DEF Preflight
<1>3. CASE Return(w)
  BY <1>1, <1>3, ReturnCalms DEF Return, CoreInv, CallsTyped
<1>4. CASE Goto(w, "project") \/ Goto(w, "open")
  BY <1>1, <1>4, GotoCalms DEF Looked
<1>5. QED
  BY <1>2, <1>3, <1>4

LEMMA OpenCalms ==
    ASSUME Alone, CoreInv, CalmInv, NEW w \in Process, Open(w) PROVE CalmInv'
<1>1. Busy(w) /\ UNCHANGED <<preimage, projection>>
  BY DEF Open, At, proof
<1>2. PICK h : h = held[w]
  OBVIOUS
<1>3. /\ h \in CallRecord /\ Source(h.projection)
      /\ \A g : held' = [held EXCEPT ![w] = g] => held'[w] = g
  BY <1>1, <1>2, CallFacts DEF CoreInv, CallsTyped, CalmInv, CalmSidecars
<1>4. PICK j : j = IF journal = None \/ journal.status = "ROLLED_BACK" THEN NewJournal ELSE journal
  OBVIOUS
<1>5. PICK next : next = CASE j.status = "PLANNED"          -> "begin"
                          [] j.status = "COMMITTED"        -> IF IsAfter /\ snapshot THEN "project" ELSE "raise"
                          [] j.status = "RECOVERY_BLOCKED" -> "raise"
                          [] OTHER                         -> "recover"
  OBVIOUS
<1>6. next \in {"begin", "project", "raise", "recover"}
  BY <1>5
<1>7. PICK at : at = IF next = "recover" THEN Len(Items) ELSE 1
  OBVIOUS
<1>8. PICK i : i = [h EXCEPT !.journal = j, !.pc = next, !.after = "retry", !.at = at]
  OBVIOUS
<1>9. PICK g : g = IF next = "raise" THEN Idle ELSE i
  OBVIOUS
<1>10. held' = [held EXCEPT ![w] = g]
  BY <1>2, <1>4, <1>5, <1>7, <1>8, <1>9 DEF Open, CoreInv, CallsTyped
<1>11. i.projection = h.projection /\ i.pc = next
  BY <1>3, <1>8 DEF CallRecord
<1>12. held'[w] = g /\ (g = Idle \/ (Source(g.projection) /\ g.pc \notin Looked))
  BY <1>3, <1>6, <1>9, <1>10, <1>11 DEF Looked
<1>13. QED
  BY <1>1, <1>12, EasyCalm

\* The copies of the sidecars change only before there is a projection.
LEMMA SavePreimageCalms ==
    ASSUME Alone, CoreInv, ProofInv, CalmInv, NEW w \in Process, SavePreimage(w) PROVE CalmInv'
<1>1. Busy(w) /\ projection' = projection
  BY DEF SavePreimage, At
<1>2. PICK h, s : h = held[w] /\ s = There(w)
  OBVIOUS
<1>3. /\ h \in CallRecord /\ h.pc = "preimage" /\ projection = None
      /\ \A g : held' = [held EXCEPT ![w] = g] => held'[w] = g
  BY <1>1, <1>2, CallFacts DEF CoreInv, CallsTyped, SavePreimage, At, ProofInv, ProofKnows
<1>4. h.projection = None
  BY <1>1, <1>2, <1>3 DEF CoreInv, CallsTyped, CallTyped
<1>5. Source(projection)'
  BY <1>1, <1>3 DEF Source
<1>6. PICK i : i = IF h.at = Len(Sidecars) THEN [h EXCEPT !.pc = "prepared"] ELSE [h EXCEPT !.at = @ + 1]
  OBVIOUS
<1>7. i.projection = None /\ i.pc \in {"prepared", "preimage"}
  BY <1>3, <1>4, <1>6 DEF CallRecord
<1>8. held' = [held EXCEPT ![w] = i] \/ held' = [held EXCEPT ![w] = Idle]
  BY <1>2, <1>6 DEF SavePreimage, Return
<1>9. CalmFiles(i)' /\ CalmSidecars(i)'
  BY <1>7 DEF CalmFiles, CalmSidecars, Source
<1>10. held'[w] = Idle \/ held'[w] = i
  BY <1>3, <1>8
<1>11. QED
  BY <1>5, <1>9, <1>10, CalmStep

LEMMA PrepareCalms ==
    ASSUME Alone, CoreInv, CalmInv, NEW w \in Process, Prepare(w) PROVE CalmInv'
<1>1. Busy(w) /\ preimage' = preimage
  BY DEF Prepare, SaveProjection, At
<1>2. PICK h, v : h = held[w] /\ v = [status |-> "PREPARED", source |-> preimage, aimed |-> {}, there |-> {}]
  OBVIOUS
<1>3. h \in CallRecord /\ \A g : held' = [held EXCEPT ![w] = g] => held'[w] = g
  BY <1>1, <1>2, CallFacts DEF CoreInv, CallsTyped
<1>4. PICK g : g = [h EXCEPT !.projection = v, !.pc = "preflight"]
  OBVIOUS
<1>5. projection' = v /\ held' = [held EXCEPT ![w] = g]
  BY <1>2, <1>3, <1>4 DEF Prepare, SaveProjection, CoreInv, CallsTyped
<1>6. g.projection = v /\ g.pc = "preflight" /\ Source(v)
  BY <1>2, <1>3, <1>4 DEF CallRecord, Source
<1>7. QED
  BY <1>1, <1>3, <1>5, <1>6, EasyCalm DEF Looked

LEMMA ProjectCalms ==
    ASSUME Alone, CoreInv, CalmInv, NEW w \in Process, Project(w) PROVE CalmInv'
<1>1. Busy(w) /\ UNCHANGED <<preimage, projection>>
  BY DEF Project, At, proof
<1>2. PICK h : h = held[w]
  OBVIOUS
<1>3. h \in CallRecord /\ \A g : held' = [held EXCEPT ![w] = g] => held'[w] = g
  BY <1>1, <1>2, CallFacts DEF CoreInv, CallsTyped
<1>4. PICK next : next =
         CASE projection.status = "COMMITTED" ->
                IF \A s \in Sidecar : sidecar[s] = "B" THEN "return" ELSE "unwind"
           [] journal = None \/ journal.status # "COMMITTED" \/ ~snapshot -> "unwind"
           [] OTHER -> "aim"
  OBVIOUS
<1>5. next \in {"return", "unwind", "aim"}
  BY <1>4
<1>6. PICK k : k = [h EXCEPT !.projection = projection, !.pc = next, !.at = 1]
  OBVIOUS
<1>7. PICK i : i = [k EXCEPT !.pc = "unwind"]
  OBVIOUS
<1>8. PICK g : g = IF next = "return" /\ IsAfter THEN Idle ELSE IF next = "return" THEN i ELSE k
  OBVIOUS
<1>9. held' = [held EXCEPT ![w] = g]
  BY <1>2, <1>4, <1>6, <1>7, <1>8 DEF Project
<1>10. k.projection = projection /\ i.projection = projection /\ k.pc = next /\ i.pc = "unwind"
  BY <1>3, <1>6, <1>7 DEF CallRecord
<1>11. held'[w] = g /\ (g = Idle \/ (Source(g.projection) /\ g.pc \notin Looked))
  BY <1>3, <1>5, <1>8, <1>9, <1>10 DEF CalmInv, Looked
<1>12. QED
  BY <1>1, <1>11, EasyCalm

LEMMA SavedCalms ==
    ASSUME Alone, CoreInv, CalmInv, NEW w \in Process, Busy(w), NEW u, NEW pc, Source(u),
           pc \notin Looked, held' = [held EXCEPT ![w].projection = u, ![w].pc = pc],
           projection' = u, preimage' = preimage
    PROVE  CalmInv'
<1>1. PICK h, g : h = held[w] /\ g = [h EXCEPT !.projection = u, !.pc = pc]
  OBVIOUS
<1>2. h \in CallRecord /\ held' = [held EXCEPT ![w] = g]
  BY <1>1, CallFacts DEF CoreInv, CallsTyped
<1>3. held'[w] = g /\ g.projection = u /\ g.pc = pc
  BY <1>1, <1>2 DEF CoreInv, CallsTyped, CallRecord
<1>4. QED
  BY <1>3, EasyCalm

\* A step that leaves the sidecars alone.
LEMMA KeptCalms ==
    ASSUME Alone, CalmInv, NEW w \in Process, NEW g, held'[w] = g, UNCHANGED <<sidecar, preimage, late>>,
           projection' = projection \/ \E v : projection' = v /\ Source(v),
           CalmSidecars(g), g.pc \notin {"unlink", "drop"}
    PROVE  CalmInv'
<1>1. Source(projection)'
  BY DEF CalmInv, Source
<1>2. CalmFiles(g)' /\ CalmSidecars(g)'
  BY DEF CalmFiles, CalmSidecars, Source, Known
<1>3. QED
  BY <1>1, <1>2, CalmStep

LEMMA AimCalms ==
    ASSUME Alone, CoreInv, CalmInv, NEW w \in Process, Aim(w) PROVE CalmInv'
<1>1. Busy(w) /\ held[w].pc = "aim"
  BY DEF Aim, At
<1>2. held[w].projection \in Projection /\ held[w].at \in DOMAIN Sidecars
  BY <1>1, OutsideFacts, SidecarFacts DEF ProjectionSteps, SideSteps
<1>3. There(w) \in Sidecar
  BY <1>2, SidecarFacts DEF There
<1>4. PICK v, u : v = held[w].projection /\ u = [v EXCEPT !.aimed = @ \cup {There(w)}]
  OBVIOUS
<1>5. u.source = v.source
  BY <1>2, <1>3, <1>4, ProjectionSaved
<1>6. Source(u)
  BY <1>1, <1>2, <1>4, <1>5, NoneAssumption DEF CalmInv, CalmSidecars, Source
<1>7. SaveProjection(w, u, "compare")
  BY <1>4 DEF Aim
<1>8. /\ held' = [held EXCEPT ![w].projection = u, ![w].pc = "compare"] /\ projection' = u
      /\ preimage' = preimage
  BY <1>7 DEF SaveProjection
<1>9. QED
  BY <1>1, <1>6, <1>8, SavedCalms DEF Looked

LEMMA CompareCalms ==
    ASSUME Alone, CoreInv, CalmInv, NEW w \in Process, Compare(w) \/ Reread(w) \/ Prove(w)
    PROVE  CalmInv'
<1>1. Busy(w) /\ UNCHANGED <<sidecar, preimage, projection, late>>
  BY DEF Compare, Reread, Prove, At, Look, proof, environment
<1>2. CASE Goto(w, "projected") \/ Goto(w, "commitproof")
  BY <1>1, <1>2, GotoCalms DEF Looked
<1>3. CASE Compare(w) /\ sidecar[There(w)] # "B"
  <2>1. Goto(w, "write") /\ sidecar[There(w)] = held[w].projection.source[There(w)]
    BY <1>3 DEF Compare, Look
  <2>2. PICK g : g = held'[w]
    OBVIOUS
  <2>3. Follows(held[w], g, "write")
    BY <1>1, <2>1, <2>2, GotoFacts
  <2>4. CalmSidecars(g)
    BY <1>1, <2>1, <2>3 DEF CalmInv, CalmSidecars, Follows, There
  <2>5. g.pc \notin {"unlink", "drop"}
    BY <2>3 DEF Follows
  <2>6. QED
    BY <1>1, <2>2, <2>4, <2>5, KeptCalms
<1>4. QED
  BY <1>2, <1>3 DEF Compare, Reread, Prove, Look

LEMMA SwapCalms ==
    ASSUME Alone, CoreInv, CalmInv, NEW w \in Process, Swap(w) PROVE CalmInv'
  BY GotoCalms DEF Swap, At, Looked

LEMMA RecordProjectedCalms ==
    ASSUME Alone, CoreInv, CalmInv, NEW w \in Process, RecordProjected(w) PROVE CalmInv'
<1>1. Busy(w) /\ held[w].pc = "projected" /\ preimage' = preimage
  BY DEF RecordProjected, At
<1>2. PICK h, v : h = held[w] /\ v = h.projection
  OBVIOUS
<1>3. /\ h \in CallRecord /\ h.at \in 1..Len(Sidecars) /\ v \in Projection /\ Source(v)
  BY <1>1, <1>2, OutsideFacts DEF ProjectionSteps, SideSteps, CalmInv, CalmSidecars
<1>4. There(w) \in Sidecar
  BY <1>2, <1>3, SidecarFacts DEF There
<1>5. PICK u : u = [v EXCEPT !.there = @ \cup {There(w)}]
  OBVIOUS
<1>6. u.source = v.source
  BY <1>3, <1>4, <1>5, ProjectionSaved
<1>7. Source(u)
  BY <1>3, <1>6, NoneAssumption DEF Source
<1>8. PICK g : g = [h EXCEPT !.projection = u,
                             !.pc = IF h.at = Len(Sidecars) THEN "prove" ELSE "aim",
                             !.at = IF h.at = Len(Sidecars) THEN @ ELSE @ + 1]
  OBVIOUS
<1>9. held' = [held EXCEPT ![w] = g] /\ projection' = u
  BY <1>2, <1>5, <1>8 DEF RecordProjected
<1>10. held'[w] = g /\ g.projection = u /\ g.pc \in {"prove", "aim"}
  BY <1>3, <1>8, <1>9 DEF CoreInv, CallsTyped, CallRecord
<1>11. QED
  BY <1>1, <1>7, <1>9, <1>10, EasyCalm DEF Looked

LEMMA FailProjectionCalms ==
    ASSUME Alone, CoreInv, CalmInv, NEW w \in Process, FailProjection(w) PROVE CalmInv'
<1>1. Busy(w) /\ held[w].pc \in ProjectionSteps
  BY DEF FailProjection
<1>2. projection \in Projection
  BY <1>1, OutsideFacts DEF ProjectionSteps
<1>3. PICK u : u = [projection EXCEPT !.status = "RECOVERY_REQUIRED"]
  OBVIOUS
<1>4. u.source = projection.source
  BY <1>2, <1>3, ProjectionSaved
<1>5. Source(u)
  BY <1>2, <1>4, NoneAssumption DEF CalmInv, Source
<1>6. /\ held' = [held EXCEPT ![w].projection = u, ![w].pc = "unwind"] /\ projection' = u
      /\ preimage' = preimage
  BY <1>3 DEF FailProjection
<1>7. PICK pc : pc = "unwind"
  OBVIOUS
<1>8. pc \notin Looked
  BY <1>7 DEF Looked
<1>9. /\ held' = [held EXCEPT ![w].projection = u, ![w].pc = pc]
      /\ Alone /\ CoreInv /\ CalmInv /\ w \in Process /\ Busy(w) /\ Source(u)
      /\ projection' = u /\ preimage' = preimage
  BY <1>1, <1>5, <1>6, <1>7
<1>10. QED
  BY <1>8, <1>9, SavedCalms

LEMMA EndCalms ==
    ASSUME Alone, CoreInv, CalmInv, NEW w \in Process, CommitProof(w) \/ Seal(w) \/ SealBack(w)
    PROVE  CalmInv'
<1>1. Busy(w) /\ held[w].pc \in {"commitproof", "seal", "sealback"}
  BY DEF CommitProof, Seal, SealBack, At
<1>2. PICK v : v = held[w].projection
  OBVIOUS
<1>3. v \in Projection /\ Source(v)
  BY <1>1, <1>2, OutsideFacts DEF ProjectionSteps, OuterSteps, CalmInv, CalmSidecars
<1>4. \E status \in {"COMMITTED", "RECOVERY_BLOCKED", "ROLLED_BACK"} :
         ReturnWith(w, [v EXCEPT !.status = status])
  BY <1>2 DEF CommitProof, Seal, SealBack
<1>5. PICK status \in {"COMMITTED", "RECOVERY_BLOCKED", "ROLLED_BACK"} :
         ReturnWith(w, [v EXCEPT !.status = status])
  BY <1>4
<1>6. PICK u : u = [v EXCEPT !.status = status]
  OBVIOUS
<1>7. u.source = v.source
  BY <1>3, <1>6, ProjectionSaved
<1>8. Source(u)
  BY <1>3, <1>7, NoneAssumption DEF Source
<1>9. held'[w] = Idle /\ projection' = u /\ preimage' = preimage
  BY <1>5, <1>6 DEF ReturnWith, Return, CoreInv, CallsTyped
<1>10. QED
  BY <1>8, <1>9, ReturnCalms

LEMMA UnwindCalms ==
    ASSUME Alone, CoreInv, CalmInv, NEW w \in Process, Unwind(w) PROVE CalmInv'
<1>1. Busy(w) /\ held[w].pc = "unwind" /\ UNCHANGED <<sidecar, preimage, late>>
  BY DEF Unwind, At, ReturnWith, proof, environment
<1>2. PICK h : h = held[w]
  OBVIOUS
<1>3. /\ h \in CallRecord /\ projection \in Projection /\ Source(projection)
      /\ \A g : held' = [held EXCEPT ![w] = g] => held'[w] = g
  BY <1>1, <1>2, OutsideFacts DEF OuterSteps, CoreInv, CallsTyped, CalmInv
<1>4. CASE \A s \in Sidecar : Known(projection, s)
  <2>1. PICK g : g = [h EXCEPT !.projection = projection, !.pc = "sidecars",
                               !.at = Len(Sidecars), !.undo = TRUE, !.after = "seal"]
    OBVIOUS
  <2>2. held' = [held EXCEPT ![w] = g] /\ projection' = projection
    BY <1>2, <1>4, <2>1 DEF Unwind, proof
  <2>3. g.pc = "sidecars" /\ g.projection = projection
    BY <1>3, <2>1 DEF CallRecord
  <2>4. CalmSidecars(g)
    BY <1>3, <1>4, <2>3 DEF CalmSidecars
  <2>5. QED
    BY <1>1, <1>3, <2>2, <2>3, <2>4, KeptCalms
<1>5. CASE ~ \A s \in Sidecar : Known(projection, s)
  <2>1. PICK u : u = [projection EXCEPT !.status = "RECOVERY_BLOCKED"]
    OBVIOUS
  <2>2. u.source = projection.source
    BY <1>3, <2>1, ProjectionSaved
  <2>3. Source(u)
    BY <1>3, <2>2, NoneAssumption DEF Source
  <2>4. held' = [held EXCEPT ![w] = Idle] /\ projection' = u
    BY <1>5, <2>1 DEF Unwind, ReturnWith, Return
  <2>5. QED
    BY <1>1, <1>3, <2>3, <2>4, ReturnCalms
<1>6. QED
  BY <1>4, <1>5

LEMMA EnterCoreCalms ==
    ASSUME Alone, CoreInv, CalmInv, NEW w \in Process, EnterCore(w) PROVE CalmInv'
<1>1. Busy(w) /\ UNCHANGED <<preimage, projection>>
  BY DEF EnterCore, At, proof
<1>2. PICK h : h = held[w]
  OBVIOUS
<1>3. /\ h \in CallRecord /\ Source(h.projection)
      /\ \A g : held' = [held EXCEPT ![w] = g] => held'[w] = g
  BY <1>1, <1>2, CallFacts DEF CoreInv, CallsTyped, CalmInv, CalmSidecars
<1>4. PICK i : i = [h EXCEPT !.journal = journal, !.pc = "recover"]
  OBVIOUS
<1>5. PICK g : g = IF journal = None THEN Idle ELSE i
  OBVIOUS
<1>6. held' = [held EXCEPT ![w] = g]
  BY <1>2, <1>4, <1>5 DEF EnterCore, Return, CoreInv, CallsTyped
<1>7. i.projection = h.projection /\ i.pc = "recover"
  BY <1>3, <1>4 DEF CallRecord
<1>8. held'[w] = g /\ (g = Idle \/ (Source(g.projection) /\ g.pc \notin Looked))
  BY <1>3, <1>5, <1>6, <1>7 DEF Looked
<1>9. QED
  BY <1>1, <1>8, EasyCalm

LEMMA CheckSidecarsCalms ==
    ASSUME Alone, CoreInv, CalmInv, NEW w \in Process, CheckSidecars(w) PROVE CalmInv'
<1>1. Busy(w) /\ UNCHANGED <<sidecar, preimage, projection, late>>
  BY DEF CheckSidecars, At, proof, environment
<1>2. PICK h : h = held[w]
  OBVIOUS
<1>3. /\ h \in CallRecord /\ Source(h.projection)
      /\ \A g : held' = [held EXCEPT ![w] = g] => held'[w] = g
  BY <1>1, <1>2, CallFacts DEF CoreInv, CallsTyped, CalmInv, CalmSidecars
<1>4. CASE \A s \in Sidecar : Known(h.projection, s)
  <2>1. PICK g : g = [h EXCEPT !.pc = "sidecars"]
    OBVIOUS
  <2>2. held' = [held EXCEPT ![w] = g]
    BY <1>2, <1>4, <2>1 DEF CheckSidecars
  <2>3. g.pc = "sidecars" /\ g.projection = h.projection
    BY <1>3, <2>1 DEF CallRecord
  <2>4. CalmSidecars(g)
    BY <1>3, <1>4, <2>3 DEF CalmSidecars
  <2>5. QED
    BY <1>1, <1>3, <2>2, <2>3, <2>4, KeptCalms
<1>5. CASE ~ \A s \in Sidecar : Known(h.projection, s)
  <2>1. held' = [held EXCEPT ![w] = Idle]
    BY <1>2, <1>5 DEF CheckSidecars
  <2>2. QED
    BY <1>1, <1>3, <2>1, ReturnCalms
<1>6. QED
  BY <1>4, <1>5

LEMMA OnwardCalms ==
    ASSUME NEW h \in CallRecord, h.at \in 1..Len(Sidecars), h.projection \in Projection,
           Source(h.projection), \A x \in Sidecar : Known(h.projection, x) \/ x \in late, NEW s \in Sidecar,
           NEW k, k = Home(h, s), NEW g, g = Onward(k)
    PROVE  CalmSidecars(g) /\ Source(k.projection) /\ g.pc \notin {"unlink", "drop"}
<1>1. PICK v : v = [h.projection EXCEPT !.there = @ \ {s}]
  OBVIOUS
<1>2. k = [h EXCEPT !.projection = v]
  BY <1>1 DEF Home
<1>3. k.projection = v /\ v.source = h.projection.source /\ v.aimed = h.projection.aimed
  BY <1>1, <1>2 DEF CallRecord, Projection
<1>4. Source(v) /\ \A x \in Sidecar : Known(v, x) \/ x \in late
  BY <1>3, NoneAssumption DEF Source, Known
<1>5. /\ g.pc \in {"sidecars", "rollback", "sealback"} /\ g.projection = k.projection
  BY OnwardFacts
<1>6. QED
  BY <1>3, <1>4, <1>5 DEF CalmSidecars

LEMMA LookAtSidecarCalms ==
    ASSUME Alone, CoreInv, CalmInv, NEW w \in Process, LookAtSidecar(w) PROVE CalmInv'
<1>1. /\ Busy(w) /\ held[w].pc = "sidecars" /\ UNCHANGED <<sidecar, preimage, projection, late>>
  BY DEF LookAtSidecar, At, proof, environment
<1>2. PICK h, s : h = held[w] /\ s = There(w)
  OBVIOUS
<1>3. /\ h \in CallRecord /\ h.at \in 1..Len(Sidecars) /\ h.projection \in Projection
      /\ \A g : held' = [held EXCEPT ![w] = g] => held'[w] = g
  BY <1>1, <1>2, OutsideFacts DEF OuterSteps, SideSteps, CoreInv, CallsTyped
<1>4. s \in Sidecar /\ s = Sidecars[h.at] /\ Source(h.projection)
      /\ \A x \in Sidecar : Known(h.projection, x) \/ x \in late
  BY <1>1, <1>2, <1>3, SidecarFacts DEF There, CalmInv, CalmSidecars
<1>5. CASE sidecar[s] = h.projection.source[s]
  <2>1. PICK k, g : k = Home(h, s) /\ g = Onward(k)
    OBVIOUS
  <2>2. held' = [held EXCEPT ![w] = g]
    BY <1>2, <1>5, <2>1 DEF LookAtSidecar
  <2>3. CalmSidecars(g) /\ g.pc \notin {"unlink", "drop"}
    BY <1>3, <1>4, <2>1, OnwardCalms
  <2>4. QED
    BY <1>1, <1>3, <2>2, <2>3, KeptCalms
<1>6. CASE sidecar[s] # h.projection.source[s]
  <2>1. PICK g : g = [h EXCEPT !.pc = "unproject"]
    OBVIOUS
  <2>2. held' = [held EXCEPT ![w] = g]
    BY <1>2, <1>6, <2>1 DEF LookAtSidecar
  <2>3. g.pc = "unproject" /\ g.at = h.at /\ g.projection = h.projection
    BY <1>3, <2>1 DEF CallRecord
  <2>4. CalmSidecars(g)
    BY <1>4, <1>6, <2>3 DEF CalmSidecars, Known
  <2>5. QED
    BY <1>1, <1>3, <2>2, <2>3, <2>4, KeptCalms
<1>7. QED
  BY <1>5, <1>6

LEMMA RestoreSidecarCalms ==
    ASSUME Alone, CoreInv, CalmInv, NEW w \in Process, RestoreSidecar(w) PROVE CalmInv'
<1>1. /\ Busy(w) /\ UNCHANGED <<preimage, projection, late>>
      /\ held[w].pc = "unproject" /\ Goto(w, "unprojected")
      /\ sidecar' = [sidecar EXCEPT ![There(w)] = preimage[There(w)]]
  BY DEF RestoreSidecar, At, environment
<1>2. PICK h, s, v : h = held[w] /\ s = There(w) /\ v = h.projection
  OBVIOUS
<1>3. v # None /\ Source(v) /\ (\A x \in Sidecar : Known(v, x) \/ x \in late) /\ sidecar \in [Sidecar -> Bytes]
  BY <1>1, <1>2, OutsideFacts, NoneAssumption
  DEF OuterSteps, CalmInv, CalmSidecars, CoreInv, SharedTyped
<1>4. PICK g : g = held'[w]
  OBVIOUS
<1>5. g.projection = v /\ g.pc = "unprojected" /\ g.at = h.at
  BY <1>1, <1>2, <1>4, GotoFacts DEF Follows
<1>6. Source(v)' /\ Source(projection)'
  BY <1>1, <1>3 DEF Source, CalmInv
<1>7. ASSUME NEW x \in Sidecar PROVE (Known(v, x) \/ x \in late)'
  <2>1. CASE x = s
    BY <1>1, <1>2, <1>3, <2>1 DEF Known, Source
  <2>2. CASE x # s
    BY <1>1, <1>2, <1>3, <2>2 DEF Known
  <2>3. QED
    BY <2>1, <2>2
<1>8. CalmFiles(g)' /\ CalmSidecars(g)'
  BY <1>5, <1>6, <1>7 DEF CalmFiles, CalmSidecars
<1>9. QED
  BY <1>4, <1>6, <1>8, CalmStep

LEMMA RecordRestoredCalms ==
    ASSUME Alone, CoreInv, CalmInv, NEW w \in Process, RecordRestored(w) PROVE CalmInv'
<1>1. Busy(w) /\ held[w].pc = "unprojected" /\ UNCHANGED <<sidecar, preimage, late>>
  BY DEF RecordRestored, At, environment
<1>2. PICK h, s : h = held[w] /\ s = There(w)
  OBVIOUS
<1>3. /\ h \in CallRecord /\ h.at \in 1..Len(Sidecars) /\ h.projection \in Projection
      /\ \A g : held' = [held EXCEPT ![w] = g] => held'[w] = g
  BY <1>1, <1>2, OutsideFacts DEF OuterSteps, SideSteps, CoreInv, CallsTyped
<1>4. s \in Sidecar /\ Source(h.projection) /\ \A x \in Sidecar : Known(h.projection, x) \/ x \in late
  BY <1>1, <1>2, <1>3, SidecarFacts DEF There, CalmInv, CalmSidecars
<1>5. PICK k, g : k = Home(h, s) /\ g = Onward(k)
  OBVIOUS
<1>6. held' = [held EXCEPT ![w] = g] /\ projection' = k.projection
  BY <1>2, <1>5 DEF RecordRestored
<1>7. CalmSidecars(g) /\ Source(k.projection) /\ g.pc \notin {"unlink", "drop"}
  BY <1>3, <1>4, <1>5, OnwardCalms
<1>8. QED
  BY <1>1, <1>3, <1>6, <1>7, KeptCalms

LEMMA EditedExists ==
    ASSUME CoreInv, NEW w \in Process, Busy(w), NEW h, h = held[w]
    PROVE  /\ h.pc \in {"unlink", "drop"} => Items[h.at] \in Path
           /\ h.pc \in {"write", "unproject"} => Sidecars[h.at] \in Sidecar
<1>1. h \in CallRecord /\ CallTyped(h)
  BY CallFacts
<1>2. h.pc \in {"unlink", "drop"} => h.at \in DOMAIN Items
  BY <1>1, ItemFacts DEF CallTyped, ItemSteps, EarlySteps, BackSteps
<1>3. h.pc \in {"write", "unproject"} => h.at \in 1..Len(Sidecars)
  BY <1>1 DEF CallTyped, SideSteps
<1>4. QED
  BY <1>2, <1>3, ItemFacts, SidecarFacts

LEMMA EditCalms ==
    ASSUME CoreInv, CalmInv, NEW p \in Path \cup Sidecar, NEW b, Edit(p, b) PROVE CalmInv'
<1>1. /\ UNCHANGED <<preimage, projection, held>>
      /\ late' = IF \E w \in Process : HasSeen(w, p) THEN late \cup {p} ELSE late
      /\ \/ p \in Path /\ target' = [target EXCEPT ![p] = b] /\ sidecar' = sidecar
         \/ p \in Sidecar /\ sidecar' = [sidecar EXCEPT ![p] = b] /\ target' = target
      /\ target \in [Path -> Bytes] /\ sidecar \in [Sidecar -> Bytes]
  BY DEF Edit, CoreInv, SharedTyped
<1>2. Source(projection)'
  BY <1>1 DEF CalmInv, Source
<1>3. ASSUME NEW w \in Process, Busy(w)' PROVE CalmFiles(held[w])' /\ CalmSidecars(held[w])'
  <2>1. PICK h : h = held[w]
    OBVIOUS
  <2>2. /\ Busy(w) /\ held'[w] = h /\ CalmFiles(h) /\ CalmSidecars(h)
        /\ \A x \in Path : target'[x] = target[x] \/ x = p
        /\ \A x \in Sidecar : sidecar'[x] = sidecar[x] \/ x = p
        /\ \A x \in late : x \in late'
    BY <1>1, <1>3, <2>1 DEF CalmInv, Busy
  <2>a. /\ h.pc \in {"unlink", "drop"} => Items[h.at] \in Path
        /\ h.pc \in {"write", "unproject"} => Sidecars[h.at] \in Sidecar
    BY <2>1, <2>2, EditedExists
  <2>3. HasSeen(w, p) => p \in late'
    BY <1>1
  <2>4. CalmFiles(h)'
    <3>1. h.pc \in {"unlink", "drop"} /\ p = Items[h.at] => p \in late'
      BY <2>1, <2>2, <2>3 DEF HasSeen, ActsOn
    <3>2. QED
      BY <2>2, <2>a, <3>1 DEF CalmFiles
  <2>5. CalmSidecars(h)'
    <3>1. h.pc \in {"write", "unproject"} /\ p = Sidecars[h.at] => p \in late'
      BY <2>1, <2>2, <2>3 DEF HasSeen, ActsOn
    <3>2. h.pc \in {"sidecars", "unproject", "unprojected"} /\ p \in Sidecar => p \in late'
      BY <2>1, <2>2, <2>3 DEF HasSeen
    <3>3. Source(h.projection)'
      BY <1>1, <2>2 DEF CalmSidecars, Source
    <3>4. h.pc = "write" => \/ sidecar'[Sidecars[h.at]] = h.projection.source[Sidecars[h.at]]
                            \/ Sidecars[h.at] \in late'
      BY <2>2, <2>a, <3>1 DEF CalmSidecars
    <3>5. h.pc \in {"sidecars", "unproject", "unprojected"} =>
             \A x \in Sidecar : Known(h.projection, x)' \/ x \in late'
      BY <2>2, <3>2 DEF CalmSidecars, Known
    <3>6. h.pc = "unproject" => sidecar'[Sidecars[h.at]] = "B" \/ Sidecars[h.at] \in late'
      BY <2>2, <2>a, <3>1 DEF CalmSidecars
    <3>7. QED
      BY <3>3, <3>4, <3>5, <3>6 DEF CalmSidecars
  <2>6. QED
    BY <2>2, <2>4, <2>5
<1>4. QED
  BY <1>2, <1>3 DEF CalmInv

LEMMA StutterCalms == ASSUME CalmInv, UNCHANGED vars PROVE CalmInv'
<1>1. UNCHANGED <<target, sidecar, preimage, projection, held, late>>
  BY DEF vars, files, proof, environment
<1>2. QED
  BY <1>1 DEF CalmInv, Source, CalmFiles, CalmSidecars, Known, Busy

LEMMA CrashCalms ==
    ASSUME Alone, CoreInv, CalmInv, NEW w \in Process, Crash(w) PROVE CalmInv'
<1>1. held'[w] = Idle /\ UNCHANGED <<preimage, projection>>
  BY DEF Crash, Return, proof, CoreInv, CallsTyped
<1>2. QED
  BY <1>1, ReturnCalms

LEMMA StepCalms ==
    ASSUME Alone, CoreInv, ProofInv, CalmInv, NEW w \in Process, Steps(w) PROVE CalmInv'
<1>1. CASE Preflight(w) BY <1>1, PreflightCalms
<1>2. CASE Open(w) BY <1>2, OpenCalms
<1>3. CASE ApplySteps(w) /\ ~Preflight(w) /\ ~Open(w)
  <2>1. Busy(w) /\ InLock(held[w])
    BY <1>3
    DEF ApplySteps, Begin, Preserve, MakeDirectory, RecordDirectory, WriteStage, RecordStage,
        BackUp, RecordBackUp, LookAtSource, UnlinkSource, RecordRemoved, Install, RecordInstalled,
        Unstage, Verify, CheckAfter, Publish, RecordSnapshot, Commit, ReadBack, Fail, At, InLock,
        CoreSteps
  <2>2. QED
    BY <1>3, <2>1, LockCalms
<1>4. CASE RecoverySteps(w)
  <2>1. Busy(w) /\ held[w].pc \in UndoSteps
    BY <1>4
    DEF RecoverySteps, RetractSnapshot, UndoKept, PassProfile, LookBack, DropInstalled, Restore,
        ClearStage, UndoFails, RemoveDirectory, PurgeQuarantine, CloseRecovery, Renew, At, UndoSteps
  <2>2. QED
    BY <1>4, <2>1, LockCalms DEF InLock
<1>5. CASE ConnectedSteps(w)
  <2>1. CASE SavePreimage(w) BY <2>1, SavePreimageCalms
  <2>2. CASE Prepare(w) BY <2>2, PrepareCalms
  <2>3. CASE Project(w) BY <2>3, ProjectCalms
  <2>4. CASE Aim(w) BY <2>4, AimCalms
  <2>5. CASE Compare(w) \/ Reread(w) \/ Prove(w) BY <2>5, CompareCalms
  <2>6. CASE Swap(w) BY <2>6, SwapCalms
  <2>7. CASE RecordProjected(w) BY <2>7, RecordProjectedCalms
  <2>8. CASE CommitProof(w) \/ Seal(w) \/ SealBack(w) BY <2>8, EndCalms
  <2>9. CASE FailProjection(w) BY <2>9, FailProjectionCalms
  <2>10. CASE Unwind(w) BY <2>10, UnwindCalms
  <2>11. CASE EnterCore(w) BY <2>11, EnterCoreCalms
  <2>12. CASE CheckSidecars(w) BY <2>12, CheckSidecarsCalms
  <2>13. CASE LookAtSidecar(w) BY <2>13, LookAtSidecarCalms
  <2>14. CASE RestoreSidecar(w) BY <2>14, RestoreSidecarCalms
  <2>15. CASE RecordRestored(w) BY <2>15, RecordRestoredCalms
  <2>16. QED
    BY <1>5, <2>1, <2>2, <2>3, <2>4, <2>5, <2>6, <2>7, <2>8, <2>9, <2>10, <2>11, <2>12, <2>13,
       <2>14, <2>15 DEF ConnectedSteps
<1>6. QED
  BY <1>1, <1>2, <1>3, <1>4, <1>5 DEF Steps

LEMMA CalmInvariant == ASSUME Alone PROVE Spec => []CalmInv
<1>1. Init => CalmInv
  BY CalmInit
<1>2. CoreInv /\ ProofInv /\ CalmInv /\ [Next]_vars => CalmInv'
  <2> SUFFICES ASSUME CoreInv, ProofInv, CalmInv, [Next]_vars PROVE CalmInv'
    OBVIOUS
  <2>1. CASE UNCHANGED vars
    BY <2>1, StutterCalms
  <2>2. ASSUME NEW w \in Process, Calls(w) PROVE CalmInv'
    BY <2>2, StartCalms DEF Calls
  <2>3. ASSUME NEW w \in Process, Steps(w) PROVE CalmInv'
    BY <2>3, StepCalms
  <2>4. ASSUME NEW w \in Process, Crash(w) PROVE CalmInv'
    BY <2>4, CrashCalms
  <2>5. ASSUME NEW p \in Path \cup Sidecar, NEW b \in Bytes \ {"A"}, Edit(p, b) PROVE CalmInv'
    BY <2>5, EditCalms
  <2>6. QED
    BY <2>1, <2>2, <2>3, <2>4, <2>5 DEF Next
<1>3. QED
  BY <1>1, <1>2, CoreInvariant, ProofInvariant, PTL DEF Spec

\* The files change under the lock only, and what is taken away is known or overtaken.
LEMMA FilesSpared ==
    ASSUME CoreInv, CalmInv, NEW w \in Process, ApplySteps(w) \/ RecoverySteps(w)
    PROVE  \A p \in Path : target[p] \in Foreign => target'[p] = target[p] \/ Overtaken(p)
<1>1. target \in [Path -> Bytes] /\ Foreign \cap {"absent", "A", "B", "partial"} = {}
  BY UpgradeAssumption DEF CoreInv, SharedTyped
<1>2. CASE UnlinkSource(w)
  <2>1. Busy(w) /\ held[w].pc = "unlink" /\ target' = [target EXCEPT ![Here(w)] = "absent"]
    BY <1>2 DEF UnlinkSource, At
  <2>2. target[Here(w)] = "A" \/ Overtaken(Here(w))
    BY <2>1 DEF CalmInv, CalmFiles, Here, Overtaken, ActsOn
  <2>3. QED
    BY <1>1, <2>1, <2>2
<1>3. CASE Install(w)
  BY <1>1, <1>3 DEF Install
<1>4. CASE DropInstalled(w)
  <2>1. Busy(w) /\ held[w].pc = "drop" /\ target' = [target EXCEPT ![Here(w)] = "absent"]
    BY <1>4 DEF DropInstalled, At
  <2>2. target[Here(w)] = "B" \/ Overtaken(Here(w))
    BY <2>1 DEF CalmInv, CalmFiles, Here, Overtaken, ActsOn
  <2>3. QED
    BY <1>1, <2>1, <2>2
<1>5. CASE Restore(w)
  BY <1>1, <1>5 DEF Restore
<1>6. CASE ~UnlinkSource(w) /\ ~Install(w) /\ ~DropInstalled(w) /\ ~Restore(w)
  <2>1. CASE ApplySteps(w)
    BY <1>6, <2>1
    DEF ApplySteps, Preflight, Open, Begin, Preserve, MakeDirectory, RecordDirectory, WriteStage,
        RecordStage, BackUp, RecordBackUp, LookAtSource, RecordRemoved, RecordInstalled, Unstage,
        Verify, CheckAfter, Publish, RecordSnapshot, Commit, ReadBack, Fail, files, Look, Save, SaveEntry
  <2>2. CASE RecoverySteps(w)
    BY <1>6, <2>2
    DEF RecoverySteps, RetractSnapshot, UndoKept, PassProfile, LookBack, ClearStage, UndoFails,
        RemoveDirectory, PurgeQuarantine, CloseRecovery, Renew, files
  <2>3. QED
    BY <2>1, <2>2
<1>7. QED
  BY <1>2, <1>3, <1>4, <1>5, <1>6

LEMMA ProjectionSpares ==
    ASSUME CoreInv, CalmInv, NEW w \in Process, ConnectedSteps(w)
    PROVE  /\ target' = target
           /\ \A s \in Sidecar : sidecar[s] \in Foreign =>
                 sidecar'[s] = sidecar[s] \/ preimage'[s] = sidecar[s] \/ Overtaken(s)
<1>1. target' = target
  BY DEF ConnectedSteps, SavePreimage, Prepare, Project, Aim, Compare, Swap, Reread, RecordProjected,
         Prove, CommitProof, FailProjection, Unwind, EnterCore, CheckSidecars, LookAtSidecar,
         RestoreSidecar, RecordRestored, Seal, SealBack, SaveProjection, ReturnWith, Look, files
<1>2. sidecar \in [Sidecar -> Bytes] /\ Foreign \cap {"absent", "A", "B", "partial"} = {}
  BY UpgradeAssumption DEF CoreInv, SharedTyped
<1>3. CASE Swap(w)
  <2>1. /\ Busy(w) /\ held[w].pc = "write" /\ preimage' = preimage
        /\ sidecar' = [sidecar EXCEPT ![There(w)] = "B"]
    BY <1>3 DEF Swap, At
  <2>2. PICK h, s : h = held[w] /\ s = There(w)
    OBVIOUS
  <2>3. h.projection # None
    BY <2>1, <2>2, OutsideFacts, NoneAssumption DEF ProjectionSteps
  <2>4. sidecar[s] = preimage[s] \/ Overtaken(s)
    BY <2>1, <2>2, <2>3 DEF CalmInv, CalmSidecars, Source, There, Overtaken, ActsOn
  <2>5. QED
    BY <1>1, <1>2, <2>1, <2>2, <2>4
<1>4. CASE RestoreSidecar(w)
  <2>1. /\ Busy(w) /\ held[w].pc = "unproject"
        /\ \E b : sidecar' = [sidecar EXCEPT ![There(w)] = b]
    BY <1>4 DEF RestoreSidecar, At
  <2>2. sidecar[There(w)] = "B" \/ Overtaken(There(w))
    BY <2>1 DEF CalmInv, CalmSidecars, There, Overtaken, ActsOn
  <2>3. QED
    BY <1>1, <1>2, <2>1, <2>2
<1>5. CASE ~Swap(w) /\ ~RestoreSidecar(w)
  <2>1. sidecar' = sidecar
    BY <1>5
    DEF ConnectedSteps, SavePreimage, Prepare, Project, Aim, Compare, Reread, RecordProjected,
        Prove, CommitProof, FailProjection, Unwind, EnterCore, CheckSidecars, LookAtSidecar,
        RecordRestored, Seal, SealBack, SaveProjection, ReturnWith, Look, proof
  <2>2. QED
    BY <1>1, <2>1
<1>6. QED
  BY <1>3, <1>4, <1>5

\* With one operator at a time, no step of an upgrade, a recovery or a rollback destroys
\* bytes of the consumer, whenever the consumer acts, except those it wrote into a file
\* between the call's last look at that very file and the removal or replacement the look
\* allowed (consumer_upgrade_transaction.py, _apply_entry and _recover_locked;
\* consumer_upgrade_projection.py, _cas_project and _restore_source_sidecars).
THEOREM BytesSurvive == ASSUME Alone PROVE Spec => ConsumerBytesSurvive
<1>1. ASSUME CoreInv, CalmInv, [Next]_vars PROVE [KeepsForeign]_vars
  <2>1. CASE UNCHANGED vars
    BY <2>1
  <2>2. ASSUME NEW w \in Process, Calls(w) PROVE KeepsForeign
    BY <2>2 DEF Calls, Apply, Recover, Rollback, files, proof, KeepsForeign
  <2>3. ASSUME NEW w \in Process, ApplySteps(w) \/ RecoverySteps(w) PROVE KeepsForeign
    <3>1. sidecar' = sidecar
      BY <2>3
      DEF ApplySteps, Preflight, Open, Begin, Preserve, MakeDirectory, RecordDirectory, WriteStage,
          RecordStage, BackUp, RecordBackUp, LookAtSource, UnlinkSource, RecordRemoved, Install,
          RecordInstalled, Unstage, Verify, CheckAfter, Publish, RecordSnapshot, Commit, ReadBack,
          Fail, RecoverySteps, RetractSnapshot, UndoKept, PassProfile, LookBack, DropInstalled,
          Restore, ClearStage, UndoFails, RemoveDirectory, PurgeQuarantine, CloseRecovery, Renew,
          proof, Look, Save, SaveEntry
    <3>2. QED
      BY <1>1, <2>3, <3>1, FilesSpared DEF KeepsForeign
  <2>4. ASSUME NEW w \in Process, ConnectedSteps(w) PROVE KeepsForeign
    BY <1>1, <2>4, ProjectionSpares DEF KeepsForeign
  <2>5. ASSUME NEW w \in Process, Crash(w) PROVE KeepsForeign
    BY <2>5 DEF Crash, proof, KeepsForeign
  <2>6. ASSUME NEW p \in Path \cup Sidecar, NEW b \in Bytes \ {"A"}, Edit(p, b) PROVE KeepsForeign
    <3>1. edits \in Nat
      BY <1>1 DEF CoreInv, SharedTyped
    <3>2. edits' # edits
      BY <2>6, <3>1 DEF Edit
    <3>3. QED
      BY <3>2 DEF KeepsForeign
  <2>7. QED
    BY <1>1, <2>1, <2>2, <2>3, <2>4, <2>5, <2>6 DEF Next, Steps
<1>2. CoreInv /\ CalmInv /\ [Next]_vars => [KeepsForeign]_vars
  BY <1>1
<1>3. QED
  BY <1>2, CoreInvariant, CalmInvariant, PTL DEF Spec, ConsumerBytesSurvive
=============================================================================
