---------------------------- MODULE MappingRoute ----------------------------
(***************************************************************************)
(* How a route is authorised: the matcher decides which source field goes  *)
(* to which target field (matching/), a plan is built from the decisions   *)
(* (planning.py), validated (validation.py, policy.py) and tried on the    *)
(* records without writing (preflight.py); then agents and runtime carry   *)
(* it out.  A schema is a sequence of field descriptors and a field its    *)
(* position.  A value is one of a few kinds that types and transforms tell *)
(* apart; scores are integers where the code has decimal fractions.        *)
(***************************************************************************)
EXTENDS Integers, Sequences, FiniteSets, FiniteSetsExt, Functions

CONSTANTS
    SourceSchemas, TargetSchemas,  \* non-empty sequences of field descriptors
    NameScores,    \* name similarities that occur, in hundredths
    ModelScores,   \* scores an embedding or a reranker gives, in hundredths
    Files,         \* sources: records, the one whose reading fails or 0, whether they
                   \* hold formulas
    Caps,          \* max_records and max_input_records, NoCap if not given
    NoCap,         \* above the length of every file
    Resolvers      \* what the foreign key probe answers: a value, "null", or none

ASSUME RouteConstants ==
    /\ NameScores \cup ModelScores \subseteq 0..100
    /\ \A f \in Files : Len(f.records) < NoCap /\ f.breaks \in 0..Len(f.records) + 1
    /\ \A f \in Files : f.records \in Seq(Range(f.records))
    /\ NoCap \in Nat /\ \A cap \in Caps : {cap.records, cap.input} \subseteq Nat
    /\ "absent" \notin Resolvers

VARIABLES
    sourceSchema, targetSchema,
    step,        \* where the route stands
    decisions,   \* for each source field decided so far: target and status
    alone,       \* the decisions the matcher takes without models
    reviewed,    \* source fields whose target an operator has chosen
    plan,        \* the schemas it was made for and its rules
    file, caps, resolver,  \* what the preflight is run on
    report       \* what the preflight says

routeVars == <<sourceSchema, targetSchema, step, decisions, alone, reviewed, plan, file,
               caps, resolver, report>>

NoPlan == [source |-> <<>>, target |-> <<>>, rules |-> <<>>]
NoReport == [promotable |-> FALSE, valid |-> FALSE, checked |-> 0]

-----------------------------------------------------------------------------
(* Types, sensitivities and roles of fields (models/types.py).             *)

Rank == [public |-> 0, internal |-> 1, personal |-> 2, confidential |-> 3, secret |-> 4,
         opaque |-> 5]

(* sensitivity_route_safe                                                  *)
RouteSafe(s, t) == Rank[t.sensitivity] >= Rank[s.sensitivity]

(* A schema has fields, each of a known sensitivity.                       *)
ASSUME SchemaAssumption ==
    \A schema \in SourceSchemas \cup TargetSchemas :
        /\ schema \in Seq(Range(schema)) /\ schema # <<>>
        /\ \A i \in DOMAIN schema : schema[i].sensitivity \in DOMAIN Rank

Sealed(s) == s.sensitivity \in {"secret", "opaque"}

(* runtime_type_satisfies                                                  *)
TypeSatisfies(actual, target) ==
    target = "unknown" \/ actual = target \/ (actual = "integer" /\ target = "decimal")

(* automatic_copy_type_safe                                                *)
CopySafe(actual, target) == actual # "unknown" /\ TypeSatisfies(actual, target)

RoleCompatible(a, b) == a = b \/ ("value" \in {a, b} /\ "credential" \notin {a, b})

(* _foreign_key_lookup_key: the relation of a target field has at most one *)
(* lookup key, of type t.lookup, and its name resembles the source's.      *)
LookupKey(s, t, automatic) ==
    /\ ~Sealed(s) /\ s.role = "natural_key" /\ t.role = "foreign_key" /\ t.lookup # "none"
    /\ \/ CopySafe(s.type, t.lookup) /\ t.lookup # "unknown"
       \/ ~automatic /\ "unknown" \in {s.type, t.lookup}

(* automatic_mapping_contract_safe                                         *)
ContractSafe(s, t) ==
    /\ s.sensitivity = t.sensitivity
    /\ s.nullable => t.nullable
    /\ LookupKey(s, t, TRUE) \/ (CopySafe(s.type, t.type) /\ RoleCompatible(s.role, t.role))

-----------------------------------------------------------------------------
(* The matcher.                                                            *)

TypeCompatibility(a, b) ==
    IF "unknown" \in {a, b} THEN 55
    ELSE IF a = b THEN 100
    ELSE IF {a, b} = {"integer", "decimal"} THEN 85
    ELSE IF a = "string" THEN 45 ELSE 0

(* deterministic_score, in ten-thousandths.                                *)
DeterministicScore(s, t, name) ==
    LET relation == LookupKey(s, t, TRUE)
        type == Max({TypeCompatibility(s.type, t.type), IF relation THEN 85 ELSE 0})
        role == Max({IF s.role = t.role THEN 100 ELSE 55, IF relation THEN 85 ELSE 0})
        score == 68 * name + 22 * type + 10 * role + IF relation THEN 1200 ELSE 0
    IN IF RouteSafe(s, t) THEN Min({score, 10000}) ELSE 0

(* The first of the best, and how far it is ahead.                         *)
Winner(score) ==
    CHOOSE t \in DOMAIN score : \A u \in DOMAIN score :
        score[t] > score[u] \/ (score[t] = score[u] /\ t <= u)

Margin(score) ==
    score[Winner(score)] - Max({0} \cup {score[u] : u \in DOMAIN score \ {Winner(score)}})

(* deterministic_is_decisive                                               *)
Decisive(s, targets, scores) ==
    /\ scores[Winner(scores)] >= 9000 /\ Margin(scores) >= 800
    /\ ContractSafe(s, targets[Winner(scores)])

(* candidates_for: what the models add, in hundred-millionths.  They are   *)
(* asked only where the deterministic evidence leaves doubt.               *)
Blended(s, targets, scores, evidence) ==
    LET decisive == Decisive(s, targets, scores)
        initial == [t \in DOMAIN scores |->
                      IF evidence.semantic = <<>> \/ decisive THEN 10000 * scores[t]
                      ELSE 7600 * scores[t] + 240000 * evidence.semantic[t]]
        close == /\ initial[Winner(initial)] >= 50000000
                 /\ Margin(initial) <= 16000000
    IN IF evidence.reranker # <<>> /\ Len(targets) > 1 /\ ~decisive /\ close
       THEN [t \in DOMAIN scores |->
               82 * (initial[t] \div 100) + 180000 * evidence.reranker[t]]
       ELSE initial

DecideByScore(s, targets, evidence) ==
    LET scores == [t \in DOMAIN targets |-> DeterministicScore(s, targets[t], evidence.name[t])]
        final == Blended(s, targets, scores, evidence)
        top == Winner(final)
    IN IF final[top] >= 86000000 /\ Margin(final) >= 8000000 /\ ContractSafe(s, targets[top])
       THEN [target |-> top, status |-> "auto"]
       ELSE IF final[top] >= 55000000 THEN [target |-> top, status |-> "review"]
       ELSE [target |-> 0, status |-> "blocked"]

(* decide                                                                  *)
Decide(s, targets, evidence) ==
    LET scores == [t \in DOMAIN targets |-> DeterministicScore(s, targets[t], evidence.name[t])]
        final == Blended(s, targets, scores, evidence)
        top == Winner(final)
        deterministicOk == Winner(scores) = top /\ Decisive(s, targets, scores)
    IN IF final[top] >= 86000000 /\ Margin(final) >= 8000000 /\ deterministicOk
       THEN [target |-> top, status |-> "auto"]
       ELSE IF final[top] >= 55000000 \/ scores[Winner(scores)] >= 5500
       THEN [target |-> top, status |-> "review"]
       ELSE [target |-> 0, status |-> "blocked"]

(* advisory_glossary_target, and what propose makes of it.                 *)
Advised(s, targets, decision, glossary) ==
    IF decision.status = "auto" \/ glossary \in {0, decision.target}
       \/ ~ContractSafe(s, targets[glossary])
    THEN decision ELSE [target |-> glossary, status |-> "review"]

(* The end of propose: fields that claim one target are all for review.    *)
Contested(all) ==
    [s \in DOMAIN all |->
        IF all[s].target # 0 /\ \E u \in DOMAIN all \ {s} : all[u].target = all[s].target
        THEN [all[s] EXCEPT !.status = "review"] ELSE all[s]]

-----------------------------------------------------------------------------
(* The plan.                                                               *)

(* PolicyEngine.validate_route                                             *)
PolicyAllows(s, t, transform) ==
    /\ RouteSafe(s, t)
    /\ Sealed(s) => transform \in {"copy", "opaque_forward"}
    /\ "opaque" \in {s.sensitivity, t.sensitivity} => transform = "opaque_forward"

(* _mapping_rule                                                           *)
TransformFor(s, t, isReviewed) ==
    IF Sealed(s) THEN "opaque_forward"
    ELSE IF LookupKey(s, t, TRUE) \/ (isReviewed /\ LookupKey(s, t, FALSE))
    THEN "lookup_foreign_key"
    ELSE IF s.type = "integer" /\ t.type = "integer" THEN "parse_integer" ELSE "copy"

(* build_plan: the rules in the order of the decisions, each under the     *)
(* number of its own, and whether one of them makes it raise.              *)
Mapped(allowReview) ==
    {s \in DOMAIN decisions : decisions[s].status \in {"auto"} \cup
                                  (IF allowReview THEN {"review"} ELSE {})}

RuleOf(s) ==
    LET t == decisions[s].target
    IN [source |-> s, target |-> t,
        transform |-> TransformFor(sourceSchema[s], targetSchema[t],
                                   decisions[s].status = "review")]

BuildRaises(allowReview) ==
    \E s \in Mapped(allowReview) :
        LET from == sourceSchema[s]
            to == targetSchema[decisions[s].target]
        IN \/ decisions[s].status = "auto" /\ ~ContractSafe(from, to)
           \/ ~PolicyAllows(from, to, RuleOf(s).transform)

Rules(allowReview) == [s \in Mapped(allowReview) |-> RuleOf(s)]

(* PlanValidator.validate: one rule that is not a duplicate.               *)
RuleFindings(rule, sources, targets) ==
    LET s == sources[rule.source]
        t == targets[rule.target]
        copies == rule.transform \in {"copy", "opaque_forward"}
        lookup == t.lookup # "none" /\ s.role = "natural_key" /\ t.role = "foreign_key"
    IN IF ~PolicyAllows(s, t, rule.transform) THEN {"blocking"}
       ELSE (IF s.nullable /\ ~t.nullable THEN {"review"} ELSE {})
            \cup (IF copies /\ s.type = "unknown" THEN {"review"} ELSE {})
            \cup (IF copies /\ s.type # "unknown" /\ ~TypeSatisfies(s.type, t.type)
                  THEN {"blocking"} ELSE {})
            \cup (IF rule.transform # "lookup_foreign_key" THEN {}
                  ELSE IF ~lookup THEN {"blocking"}
                  ELSE IF "unknown" \in {s.type, t.lookup} THEN {"review"}
                  ELSE IF ~CopySafe(s.type, t.lookup) THEN {"blocking"} ELSE {})

Validate(p, sources, targets) ==
    LET duplicate(i) == \E j \in DOMAIN p.rules : j < i /\ p.rules[j].target = p.rules[i].target
        targeted == {p.rules[i].target : i \in DOMAIN p.rules}
        drift == p.source # sources \/ p.target # targets
    IN (UNION {IF duplicate(i) THEN {"blocking"} ELSE RuleFindings(p.rules[i], sources, targets) :
                 i \in DOMAIN p.rules})
       \cup (IF drift THEN {"blocking"} ELSE {})
       \cup (IF \E t \in DOMAIN targets \ targeted : ~targets[t].nullable /\ ~targets[t].generated
             THEN {"unmapped"} ELSE {})

-----------------------------------------------------------------------------
(* Values: what they are at run time, and what the source makes of them.   *)

Null == {"null", "absent"}

(* runtime_type                                                            *)
TypeOf == [integer |-> "integer", string |-> "string", numeral |-> "string",
           blank |-> "string", decimal |-> "decimal", infinite |-> "decimal"]

(* value_satisfies_type                                                    *)
Fits(value, type) == value # "infinite" /\ TypeSatisfies(TypeOf[value], type)

(* apply_transform with copy or parse_integer.                             *)
Applied(transform, value) ==
    IF transform = "copy" THEN value
    ELSE IF value \in Null \cup {"blank"} THEN "null"
    ELSE IF value \in {"integer", "numeral"} THEN "integer" ELSE "error"

ValueFindingsAfterTransform(rule, s, t, value, probe) ==
    LET result == Applied(rule.transform, value)
    IN IF value \in Null THEN IF t.nullable THEN {} ELSE {"blocking"}
       ELSE IF Sealed(s) \/ rule.transform = "lookup_foreign_key" \/ result = "null" THEN {}
       ELSE IF result # "error" /\ Fits(result, t.type) THEN {} ELSE {"blocking"}

(* PreflightRunner.run: what it finds in one value.                        *)
ValueFindings(rule, s, t, value, probe) ==
    LET result == Applied(rule.transform, value)
        null == IF t.nullable THEN {} ELSE {"blocking"}
    IN IF value = "absent" /\ ~s.nullable THEN {"blocking"}
       ELSE IF value \in Null THEN null
       ELSE IF Sealed(s) THEN {}
       ELSE IF rule.transform # "lookup_foreign_key" THEN
            IF result = "error" THEN {"blocking"}
            ELSE IF result = "null" THEN null
            ELSE IF Fits(result, t.type) THEN {} ELSE {"blocking"}
       ELSE IF probe = "missing" THEN {"review"}
       ELSE IF ~Fits(value, t.lookup) \/ probe = "fails" \/ probe = "null" THEN {"blocking"}
       ELSE IF Fits(probe, t.type) THEN {} ELSE {"blocking"}

RecordFindings(record, p, sources, targets, probe) ==
    (IF record.extra THEN {"blocking"} ELSE {})
    \cup (UNION {ValueFindings(p.rules[i], sources[p.rules[i].source],
                               targets[p.rules[i].target], record.values[p.rules[i].source],
                               probe) : i \in DOMAIN p.rules})

(* The scan: how many records are asked for, whether one of them cannot be *)
(* read, how many are checked, and whether those were all.                 *)
AskedFor(f, cap) ==
    Min({Len(f.records) + 1, IF cap.input # NoCap THEN cap.input + 1 ELSE cap.records + 1})

Broken(f, cap) == f.breaks \in 1..AskedFor(f, cap)

CheckedRecords(f, cap) ==
    Min({cap.records, cap.input, IF Broken(f, cap) THEN f.breaks - 1 ELSE Len(f.records)})

CompleteScan(f, cap) == ~Broken(f, cap) /\ Len(f.records) <= Min({cap.records, cap.input})

InputExceeded(f, cap) == ~Broken(f, cap) /\ Len(f.records) > cap.input

(* run, and the report's valid, requires_review and promotable.            *)
Preflight(f, cap, probe, p, sources, targets) ==
    LET planned == Validate(p, sources, targets)
        checked == CheckedRecords(f, cap)
        found == (UNION {RecordFindings(f.records[i], p, sources, targets, probe) :
                           i \in 1..checked})
                 \cup (IF Broken(f, cap) \/ InputExceeded(f, cap) THEN {"blocking"} ELSE {})
                 \cup (IF checked = 0 \/ f.formulas THEN {"review"} ELSE {})
        sound == planned \cap {"blocking", "unmapped"} = {}
        valid == sound /\ "blocking" \notin found
    IN [valid |-> valid, checked |-> IF sound THEN checked ELSE 0,
        promotable |-> /\ valid /\ "review" \notin planned \cup found
                       /\ CompleteScan(f, cap) /\ checked > 0]

-----------------------------------------------------------------------------
(* What becomes of a value when the route is carried out: the source       *)
(* transforms it, the destination looks it up, and the target's contract   *)
(* takes it or not.                                                        *)
Delivered(rule, s, t, value, probe) ==
    LET sent == IF Sealed(s) \/ rule.transform = "lookup_foreign_key" THEN value
                ELSE Applied(rule.transform, value)
        looks == rule.transform = "lookup_foreign_key" /\ sent \notin Null
        stored == IF looks THEN probe ELSE sent
    IN /\ IF looks THEN Fits(sent, t.lookup) /\ probe \notin {"missing", "fails", "null"}
          ELSE sent # "error"
       /\ IF stored \in Null THEN t.nullable ELSE Fits(stored, t.type)

-----------------------------------------------------------------------------
RouteInit ==
    /\ sourceSchema \in SourceSchemas /\ targetSchema \in TargetSchemas
    /\ step = "decide" /\ decisions = <<>> /\ alone = <<>> /\ reviewed = {}
    /\ plan = NoPlan /\ report = NoReport
    /\ file = [records |-> <<>>, breaks |-> 0, formulas |-> FALSE]
    /\ caps = [records |-> NoCap, input |-> NoCap] /\ resolver = "missing"

(* The matcher decides one field after the other, then looks at conflicts. *)
DecideField(evidence, glossary) ==
    LET s == sourceSchema[Len(decisions) + 1]
        decided(e) == Advised(s, targetSchema, Decide(s, targetSchema, e), glossary)
        all == Append(decisions, decided(evidence))
        without == [evidence EXCEPT !.semantic = <<>>, !.reranker = <<>>]
    IN /\ step = "decide"
       /\ IF Len(all) = Len(sourceSchema)
          THEN decisions' = Contested(all) /\ step' = "decided"
          ELSE decisions' = all /\ step' = step
       /\ alone' = Append(alone, decided(without))
       /\ UNCHANGED <<sourceSchema, targetSchema, reviewed, plan, file, caps, resolver, report>>

(* An operator chooses the target of a field that is not blocked.          *)
ReviewField(s, t) ==
    /\ step = "decided" /\ s \notin reviewed /\ decisions[s].status # "blocked"
    /\ decisions' = [decisions EXCEPT ![s] = [target |-> t, status |-> "review"]]
    /\ reviewed' = reviewed \cup {s}
    /\ UNCHANGED <<sourceSchema, targetSchema, step, alone, plan, file, caps, resolver, report>>

(* From here on the plan stands for the decisions.                         *)
Build ==
    LET allowed == reviewed # {}
    IN /\ step = "decided"
       /\ step' = IF BuildRaises(allowed) THEN "raised" ELSE "built"
       /\ plan' = IF BuildRaises(allowed) THEN NoPlan
                  ELSE [source |-> sourceSchema, target |-> targetSchema,
                        rules |-> Rules(allowed)]
       /\ decisions' = <<>> /\ alone' = <<>>
       /\ UNCHANGED <<sourceSchema, targetSchema, reviewed, file, caps, resolver, report>>

(* The destination's schema changes after the plan was built.              *)
SchemaDrifts(other) ==
    /\ step = "built" /\ other # targetSchema /\ Len(other) = Len(targetSchema)
    /\ targetSchema' = other /\ step' = "drifted"
    /\ UNCHANGED <<sourceSchema, decisions, alone, reviewed, plan, file, caps, resolver, report>>

Check(f, cap, probe) ==
    /\ step \in {"built", "drifted"} /\ plan.rules # <<>>
    /\ file' = f /\ caps' = cap /\ resolver' = probe
    /\ report' = Preflight(f, cap, probe, plan, sourceSchema, targetSchema)
    /\ step' = "checked" /\ reviewed' = {}
    /\ UNCHANGED <<sourceSchema, targetSchema, decisions, alone, plan>>

ModelSays(n) == {<<>>} \cup [1..n -> ModelScores]

RouteNext ==
    \/ \E name \in [1..Len(targetSchema) -> NameScores],
          semantic, reranker \in ModelSays(Len(targetSchema)),
          glossary \in 0..Len(targetSchema) :
         DecideField([name |-> name, semantic |-> semantic, reranker |-> reranker], glossary)
    \/ \E s \in DOMAIN decisions, t \in DOMAIN targetSchema : ReviewField(s, t)
    \/ Build
    \/ \E other \in TargetSchemas : SchemaDrifts(other)
    \/ \E f \in Files, cap \in Caps, probe \in Resolvers : Check(f, cap, probe)

RouteSpec == RouteInit /\ [][RouteNext]_routeVars

-----------------------------------------------------------------------------
(* Models may take an automatic decision away and never bring one about:   *)
(* what is mapped automatically is mapped to the same field without them   *)
(* (the thresholds of HybridMatcher.decide).                               *)
ModelsOnlyVeto ==
    \A s \in DOMAIN decisions : decisions[s].status = "auto" => alone[s] = decisions[s]

(* A plan of automatic decisions alone is never refused for what its rules *)
(* do: matcher, planner, policy and validator agree about what is safe.    *)
AutoPlanIsValid ==
    step \in {"raised", "built"} /\ reviewed = {} =>
        step = "built" /\ Validate(plan, sourceSchema, targetSchema) \subseteq {"unmapped"}

(* A promotable route delivers the file it was tried on: every record,     *)
(* through transforms, lookups and the target's contract, and no required  *)
(* field of the target is left out.  Sealed values are exempt: nobody      *)
(* inspects them before delivery.                                          *)
PromotableDelivers ==
    report.promotable =>
        /\ file.records # <<>> /\ file.breaks = 0
        /\ \A i \in DOMAIN file.records, j \in DOMAIN plan.rules :
             LET rule == plan.rules[j]
                 s == sourceSchema[rule.source]
             IN Sealed(s) \/ Delivered(rule, s, targetSchema[rule.target],
                                       file.records[i].values[rule.source], resolver)
        /\ \A t \in DOMAIN targetSchema :
             \/ targetSchema[t].nullable \/ targetSchema[t].generated
             \/ Cardinality({j \in DOMAIN plan.rules : plan.rules[j].target = t}) = 1

(* Whatever an operator chooses, no plan lowers the sensitivity of a value,*)
(* and a secret or opaque value is forwarded sealed and never transformed. *)
SealedStaysSealed ==
    \A j \in DOMAIN plan.rules :
        LET s == plan.source[plan.rules[j].source]
            t == plan.target[plan.rules[j].target]
        IN /\ RouteSafe(s, t)
           /\ Sealed(s) <=> plan.rules[j].transform = "opaque_forward"

(* What is decided without an operator is decided by deterministic evidence*)
(* and stands before the validator, and nobody's decision opens a sealed   *)
(* value (HybridMatcher, build_plan, PolicyEngine).                        *)
MappingSafe == ModelsOnlyVeto /\ AutoPlanIsValid /\ SealedStaysSealed

=============================================================================
