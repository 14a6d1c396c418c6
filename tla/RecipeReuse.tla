----------------------------- MODULE RecipeReuse -----------------------------
(***************************************************************************)
(* Remembered mappings (recipes.py) and the commands that use them (cli.py:*)
(* prepare, preflight --remember, recipe remember).  All of it is about one*)
(* pair of structures: the versions of its recipe, the runs observed with  *)
(* each of them, and commands that run beside each other and may die       *)
(* between two statements.  What the matcher, the validator and the        *)
(* preflight make of a plan are choices here (MappingRoute).               *)
(***************************************************************************)
EXTENDS Naturals, Sequences, FiniteSets, FiniteSetsExt, SequencesExt

CONSTANTS
    Commands,      \* processes that run commands
    Threshold,     \* recipe_rejection_threshold of each of them
    MaxVersions,   \* bound: versions of the recipe
    MaxRuns        \* bound: runs recorded

ASSUME RecipeConstants ==
    /\ IsFiniteSet(Commands)
    /\ \A p \in Commands : Threshold[p] \in Nat \ {0}
    /\ {MaxVersions, MaxRuns} \subseteq Nat

VARIABLES
    recipes,   \* recipes by version: who has remembered each
    runs,      \* recipe_runs by id: the recipe's version and the outcome
    command    \* where each command stands, its candidate, the recipe it uses, the last
               \* version it has read, whether its plan is to be remembered

recipeVars == <<recipes, runs, command>>

NotRunning == [at |-> "idle", candidate |-> 0, recipe |-> 0, latest |-> 0, remember |-> FALSE,
               observes |-> FALSE]
Latest == Max({0} \cup DOMAIN recipes)

Stands(p, place) == command[p].at = place
Goes(p, place) == command' = [command EXCEPT ![p].at = place]
Stops(p) == command' = [command EXCEPT ![p] = NotRunning]

-----------------------------------------------------------------------------
(* health: the query counts the rejected runs with a higher id than every  *)
(* other run of the recipe.                                                *)
RunsOf(version) == {i \in DOMAIN runs : runs[i].recipe = version}

Streak(version) ==
    LET others == {i \in RunsOf(version) : runs[i].outcome # "rejected"}
    IN Cardinality({i \in RunsOf(version) :
                      runs[i].outcome = "rejected" /\ i > Max({0} \cup others)})

SuspendedAbove(version, threshold) == Streak(version) > threshold

Suspended(version, threshold) == Streak(version) >= threshold

(* record_run                                                              *)
RecordRun(version, outcome) ==
    /\ Len(runs) < MaxRuns
    /\ runs' = Append(runs, [recipe |-> version, outcome |-> outcome])

-----------------------------------------------------------------------------
(* prepare: the newest version is the candidate.                           *)
FindRecipe(p, remember) ==
    /\ Stands(p, "idle")
    /\ command' = [command EXCEPT ![p] = [NotRunning EXCEPT
                     !.at = IF Latest = 0 THEN "match" ELSE "health",
                     !.candidate = Latest, !.remember = remember, !.observes = TRUE]]
    /\ UNCHANGED <<recipes, runs>>

(* The health of the candidate decides whether it is used by itself.       *)
CheckHealth(p) ==
    /\ Stands(p, "health")
    /\ Goes(p, IF Suspended(command[p].candidate, Threshold[p]) THEN "match" ELSE "rebind")
    /\ UNCHANGED <<recipes, runs>>

(* Recipe.rebind validates the plan against the present schemas; a recipe  *)
(* that does not fit is observed as rejected and a fresh mapping made.     *)
Rebind(p) ==
    /\ Stands(p, "rebind")
    /\ \/ /\ command' = [command EXCEPT ![p].at = "preflight", ![p].recipe = command[p].candidate]
          /\ UNCHANGED runs
       \/ RecordRun(command[p].candidate, "rejected") /\ Goes(p, "match")
    /\ UNCHANGED recipes

(* A fresh plan, or none that any rule is in.                              *)
MatchAfresh(p) ==
    /\ Stands(p, "match")
    /\ Goes(p, "preflight") \/ Stops(p)
    /\ UNCHANGED <<recipes, runs>>

(* _recipe_observation: what a preflight comes to.                         *)
RunOutcomes == {"success", "quarantined", "rejected"}

(* A recipe without rules is rejected, one with rules gets the preflight's *)
(* outcome; a fresh plan that is promotable may be remembered.             *)
Observe(p, outcome) ==
    /\ Stands(p, "preflight")
    /\ IF command[p].recipe # 0
       THEN RecordRun(command[p].recipe, outcome) /\ Stops(p)
       ELSE /\ UNCHANGED runs
            /\ IF outcome = "success" /\ command[p].remember THEN Goes(p, "read") ELSE Stops(p)
    /\ UNCHANGED recipes

-----------------------------------------------------------------------------
(* preflight --remember and recipe remember bring a plan of their own; the *)
(* latter only validates it and observes no run.                           *)
PreflightPlan(p) ==
    /\ Stands(p, "idle")
    /\ command' = [command EXCEPT ![p] = [NotRunning EXCEPT
                     !.at = "preflight", !.remember = TRUE, !.observes = TRUE]]
    /\ UNCHANGED <<recipes, runs>>

RememberPlan(p) ==
    /\ Stands(p, "idle")
    /\ command' = [command EXCEPT ![p] = [NotRunning EXCEPT !.at = "read", !.remember = TRUE]]
    /\ UNCHANGED <<recipes, runs>>

(* remember: the query for the latest version is not in the transaction    *)
(* that the insertion begins.                                              *)
ReadLatest(p) ==
    /\ Stands(p, "read")
    /\ command' = [command EXCEPT ![p].latest = Latest, ![p].at = "insert"]
    /\ UNCHANGED <<recipes, runs>>

(* A version that is there by now is a constraint error.                   *)
InsertVersion(p) ==
    LET version == command[p].latest + 1
    IN /\ Stands(p, "insert") /\ version <= MaxVersions
       /\ IF version \in DOMAIN recipes
          THEN Stops(p) /\ UNCHANGED recipes
          ELSE /\ recipes' = [v \in DOMAIN recipes \cup {version} |->
                                IF v = version THEN p ELSE recipes[v]]
               /\ IF command[p].observes
                  THEN command' = [command EXCEPT ![p].recipe = version, ![p].at = "first"]
                  ELSE Stops(p)
       /\ UNCHANGED runs

FirstRun(p) ==
    /\ Stands(p, "first")
    /\ RecordRun(command[p].recipe, "success") /\ Stops(p)
    /\ UNCHANGED recipes

CommandDies(p) == ~Stands(p, "idle") /\ Stops(p) /\ UNCHANGED <<recipes, runs>>

RecipeInit ==
    /\ recipes = <<>> /\ runs = <<>>
    /\ command = [p \in Commands |-> NotRunning]

RecipeNext ==
    \E p \in Commands :
        \/ \E remember \in BOOLEAN : FindRecipe(p, remember)
        \/ PreflightPlan(p) \/ RememberPlan(p)
        \/ CheckHealth(p) \/ Rebind(p) \/ MatchAfresh(p)
        \/ \E outcome \in RunOutcomes : Observe(p, outcome)
        \/ ReadLatest(p) \/ InsertVersion(p) \/ FirstRun(p) \/ CommandDies(p)

RecipeSpec == RecipeInit /\ [][RecipeNext]_recipeVars

-----------------------------------------------------------------------------
(* A version has n runs, and its n newest ones are rejections.             *)
RejectedAtEnd(version, n) ==
    /\ Cardinality(RunsOf(version)) >= n
    /\ \A i \in RunsOf(version) :
          Cardinality({j \in RunsOf(version) : j > i}) < n => runs[i].outcome = "rejected"

(* The circuit breaker: however the commands interleave, a version is      *)
(* rejected in a row no more often than the largest threshold says and once*)
(* by each other command that had looked at its health before.             *)
CircuitHolds ==
    \A v \in DOMAIN recipes :
        ~RejectedAtEnd(v, Max({Threshold[p] : p \in Commands}) + Cardinality(Commands))

(* A version is passed over only if its own latest outcomes, as many as the*)
(* threshold says, are rejections: a success or a review closes the circuit*)
(* and a new version starts afresh (the docstring of health).              *)
SuspendedForCause ==
    \A p \in Commands :
       Stands(p, "health") /\ command'[p].at = "match" =>
           RejectedAtEnd(command[p].candidate, Threshold[p])

(* Recipes remembered at the same time get versions of their own or an     *)
(* error: no version is skipped or replaced by another plan.               *)
VersionsKept ==
    /\ \A v \in DOMAIN recipes : v \in DOMAIN recipes' /\ recipes'[v] = recipes[v]
    /\ DOMAIN recipes' = 1..Cardinality(DOMAIN recipes')

(* The recipe store under commands that run beside each other: circuit and *)
(* versions (remember, record_run, health).                                *)
RecipesSafe == [][CircuitHolds' /\ SuspendedForCause /\ VersionsKept]_recipeVars

=============================================================================
