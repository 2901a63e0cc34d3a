----------------------------- MODULE SafeHealing -----------------------------
(***************************************************************************)
(* Incidents and healing together: what is observed is recorded, recorded  *)
(* incidents are evaluated against the recipe registry and the circuit     *)
(* breaker, and outcomes of what a sandbox tried come back, while recipes  *)
(* move through their life cycle.  The two files of the knowledge base are *)
(* written by one operator at a time, as nothing in the code locks them;   *)
(* the operator saves an outcome in both, one after the other, and may die *)
(* between the two.                                                        *)
(***************************************************************************)
EXTENDS Healing

(***************************************************************************)
(* The incident store (.adwf/lib/incidents.py): an append-only log of one  *)
(* line per observation, chained by hashes, written under a file lock.  An *)
(* incident is its stable fingerprint; the sanitized text is left out.     *)
(***************************************************************************)
CONSTANTS Reporter, Symptom, IncidentId, Free, Quiet, MaxEvents

ASSUME IncidentsAssumption ==
    /\ Free \notin Reporter
    /\ MaxEvents \in Nat

VARIABLES log,    \* the lines of the store
          torn,   \* the last line is incomplete
          lock,   \* holder of the lock file, or Free
          report  \* what a reporter is about to append, or Quiet

store == <<log, torn, lock, report>>

Event(type, id, symptom, seen) ==
    [type |-> type, id |-> id, symptom |-> symptom, sequence |-> Len(seen) + 1,
     previous |-> IF seen = <<>> THEN 0 ELSE seen[Len(seen)].sequence]

\* _find_original
Originals(events, symptom) ==
    {i \in DOMAIN events : events[i].type = "INCIDENT_RECORDED" /\ events[i].symptom = symptom}

\* build in record_incident: an observation of what is known keeps its id, a new
\* one may not take an id that is in use.
Built(events, symptom, id) ==
    LET first == CHOOSE i \in Originals(events, symptom) : TRUE
    IN  IF Originals(events, symptom) # {}
        THEN Event("DUPLICATE_OBSERVED", events[first].id, symptom, events)
        ELSE Event("INCIDENT_RECORDED", id, symptom, events)

Collision(events, symptom, id) ==
    Originals(events, symptom) = {} /\ \E i \in DOMAIN events : events[i].id = id

\* _decode_events refuses a store with an incomplete line or a broken chain.
Readable(events) ==
    \A i \in DOMAIN events : events[i].sequence = i /\ events[i].previous = i - 1

Release(p) == lock' = Free /\ report' = [report EXCEPT ![p] = Quiet]

\* Mutant: the store is read before the lock is taken.
BeginReportUnlocked(p, symptom, id) ==
    /\ report[p] = Quiet
    /\ Len(log) < MaxEvents
    /\ ~torn /\ ~Collision(log, symptom, id)
    /\ report' = [report EXCEPT ![p] = Built(log, symptom, id)]
    /\ UNCHANGED <<log, torn, lock>>

\* _append_locked: lock, read the store, build the line.  The id is the caller's,
\* or the one derived from the symptom, which another caller may have taken.
BeginReport(p, symptom, id) ==
    /\ lock = Free
    /\ report[p] = Quiet
    /\ Len(log) < MaxEvents
    /\ ~torn /\ ~Collision(log, symptom, id)
    /\ lock' = p
    /\ report' = [report EXCEPT ![p] = Built(log, symptom, id)]
    /\ UNCHANGED <<log, torn>>

AppendLine(p) ==
    /\ report[p] # Quiet
    /\ log' = Append(log, report[p])
    /\ Release(p)
    /\ UNCHANGED torn

\* The reporter dies: before its line, or in the middle of it.
ReporterDies(p) ==
    /\ report[p] # Quiet
    /\ torn' \in {torn, TRUE}
    /\ Release(p)
    /\ UNCHANGED log

IncidentsInit == log = <<>> /\ torn = FALSE /\ lock = Free /\ report = [p \in Reporter |-> Quiet]

IncidentsNext ==
    \E p \in Reporter :
        \/ \E symptom \in Symptom, id \in IncidentId : BeginReport(p, symptom, id)
        \/ AppendLine(p)
        \/ ReporterDies(p)

-----------------------------------------------------------------------------
(* Incidents and healing together.                                           *)

CONSTANTS MaxHistory, MaxHeals,   \* bounds
          Saved

VARIABLES registry, circuit,
          result,    \* what record_heal_outcome answered and is not saved, or Saved
          planned,   \* recipes an evaluation selected and nobody reported on
          burnt      \* history: recipes with a recorded false heal

healing == <<store, registry, circuit, result, planned, burnt>>

HealingInit ==
    /\ IncidentsInit
    /\ registry = [r \in Recipe |-> Draft]
    /\ circuit = Closed
    /\ result = Saved
    /\ planned = {}
    /\ burnt = {}

Report ==
    /\ IncidentsNext
    /\ UNCHANGED <<registry, circuit, result, planned, burnt>>

\* transition_recipe and save_recipe_registry
MoveRecipe(r, target, approved, passes) ==
    /\ result = Saved
    /\ Len(registry[r].history) < MaxHistory
    /\ MayTransition(registry[r], target, approved, passes)
    /\ registry' = [registry EXCEPT ![r] = Transition(@, target, approved, passes)]
    /\ ValidRegistry(registry')
    /\ UNCHANGED <<store, circuit, result, planned, burnt>>

\* evaluate_healing of a recorded incident, on the files as they are; an executor
\* takes up what it allows.
Evaluate(i, x) ==
    LET d == EvaluateHealing(registry, circuit, log[i].symptom, x)
    IN  /\ ValidRegistry(registry)
        /\ d.level = "H3"
        /\ planned' = planned \cup {d.recipe}
        /\ UNCHANGED <<store, registry, circuit, result, burnt>>

\* record_heal_outcome, whenever the report about a planned recipe comes back: it
\* answers with a new registry and a new circuit and saves neither.
Outcome(r, f, outcome) ==
    /\ result = Saved
    /\ r \in planned
    /\ ValidRegistry(registry)
    /\ circuit.recipes[r] < MaxHeals
    /\ Len(registry[r].history) < MaxHistory
    /\ result' = [recipe |-> r, failed |-> outcome \in FalseHealOutcomes,
                  registry |-> [registry EXCEPT ![r] = Quarantine(@, outcome)],
                  circuit |-> Burnt(circuit, r, f, outcome),
                  files |-> {"registry", "circuit"}]
    /\ UNCHANGED <<store, registry, circuit, planned, burnt>>

\* The caller saves the two files, in either order: the registry with
\* save_recipe_registry, the circuit in a way of its own.  An outcome is recorded
\* when the circuit has it, and done with when both files do.
SaveOutcome(file) ==
    /\ result # Saved /\ file \in result.files
    /\ IF file = "registry"
       THEN registry' = result.registry /\ UNCHANGED <<circuit, burnt>>
       ELSE /\ circuit' = result.circuit
            /\ burnt' = IF result.failed THEN burnt \cup {result.recipe} ELSE burnt
            /\ UNCHANGED registry
    /\ result' = IF result.files = {file} THEN Saved ELSE [result EXCEPT !.files = @ \ {file}]
    /\ planned' = IF result.files = {file} THEN planned \ {result.recipe} ELSE planned
    /\ UNCHANGED store

\* The caller dies with what it has not saved; the report can be made again.
CallerDies ==
    /\ result # Saved
    /\ result' = Saved
    /\ UNCHANGED <<store, registry, circuit, planned, burnt>>

\* Somebody opens the breaker for everything.
TripBreaker ==
    /\ result = Saved
    /\ ~circuit.global
    /\ circuit' = [circuit EXCEPT !.global = TRUE]
    /\ UNCHANGED <<store, registry, result, planned, burnt>>

HealingNext ==
    \/ Report
    \/ \E r \in Recipe, target \in RecipeStates, approved \in BOOLEAN, n \in 0..MinShadowPasses :
           MoveRecipe(r, target, approved, n)
    \/ \E i \in DOMAIN log, x \in Context : Evaluate(i, x)
    \/ \E r \in Recipe, f \in Fingerprint, outcome \in {"SUCCESS", "FALSE_HEAL"} :
           Outcome(r, f, outcome)
    \/ \E file \in {"registry", "circuit"} : SaveOutcome(file)
    \/ CallerDies
    \/ TripBreaker

HealingSpec == HealingInit /\ [][HealingNext]_healing

-----------------------------------------------------------------------------
HealingTypes ==
    /\ registry \in [Recipe -> Entry] /\ circuit \in Circuit
    /\ planned \subseteq Recipe /\ burnt \subseteq Recipe

(* The store tells one story, whoever reports at the same time and wherever  *)
(* a reporter dies: it can be read back, a symptom is recorded once, what is *)
(* observed again points to that record, and no two records share an id      *)
(* (record_incident).                                                        *)
OneRecordPerSymptom ==
    /\ Readable(log)
    /\ \A i, k \in DOMAIN log :
           log[i].type = "INCIDENT_RECORDED" /\ i # k =>
               /\ log[k].symptom = log[i].symptom =>
                      i < k /\ log[k].type = "DUPLICATE_OBSERVED" /\ log[k].id = log[i].id
               /\ log[k].symptom # log[i].symptom => log[k].id # log[i].id

(* A recipe whose false heal was recorded is never selected again, whatever  *)
(* the registry says about it since, whoever asks, with whatever budget left,*)
(* and while the two files disagree because the caller is between its two    *)
(* saves or died there (_circuit_open, record_heal_outcome).                 *)
FalseHealIsFinal ==
    \A f \in Fingerprint, x \in Context :
        EvaluateHealing(registry, circuit, f, x).recipe \notin burnt

(* A recipe in use was certified by an independent approval after it was     *)
(* last quarantined: no path leads back without a new certification.         *)
QuarantineNeedsCertification ==
    \A r \in Recipe : registry[r].lifecycle = "ACTIVE" =>
        LET h == registry[r].history
        IN  \E i \in DOMAIN h :
                /\ h[i] = <<"CERTIFIED", TRUE>>
                /\ \A k \in i..Len(h) : h[k][1] # "QUARANTINED"
=============================================================================
