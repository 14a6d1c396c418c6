----------------------------- MODULE MoveSession -----------------------------
(***************************************************************************)
(* A move session of an embedding host (embed.py): prepare() inspects, maps*)
(* and preflights without writing and keeps its result; execute() writes   *)
(* through the destination connector.  Every event is delivered inside the *)
(* call that emits it (domain_events.py), so an event handler may fail or  *)
(* record a review of its own between two steps of a call.  The matcher's  *)
(* proposal and the preflight's verdict on the values are choices here;    *)
(* MappingRoute has them in detail.                                        *)
(***************************************************************************)
EXTENDS Naturals, Sequences, FiniteSets, FiniteSetsExt

CONSTANTS
    SourceFields,    \* fields of the source
    TargetFields,    \* fields of the destination, positive numbers
    Proposals,       \* what the matcher can make of the schemas: a target and a status
                     \* for each source field
    SourceRecords,   \* records in each version of the source file
    MaxInputRecords, \* max_input_records
    MaxReviews,      \* bound: calls of review_mapping
    MaxCalls,        \* bound: calls of prepare and execute
    MaxUpsets        \* bound: failing handlers and steps, changes outside

ASSUME MoveConstants ==
    /\ TargetFields \subseteq Nat \ {0}
    /\ \A p \in Proposals : \A f \in SourceFields :
         p[f] \in [target : TargetFields, status : {"auto", "review"}]
                  \cup {[target |-> 0, status |-> "blocked"]}
    /\ {MaxReviews, MaxCalls, MaxUpsets} \subseteq Nat
    /\ MaxInputRecords \in Nat \ {0}
    /\ 1 \in DOMAIN SourceRecords /\ \A v \in DOMAIN SourceRecords : SourceRecords[v] \in Nat

VARIABLES
    world,        \* the source file's version, the destination's schema and capabilities
    proposal,     \* what the matcher makes of the present schemas
    source,       \* "file", "sealed file" if it has secret fields, or "connector"
    inspected,    \* the version of that file, 0 before the source is resolved
    knownCaps,    \* _destination_capabilities
    reviews,      \* _reviews: the target of each reviewed source field, 0 if none
    preparation,  \* _preparation
    call,         \* the call under way and its locals
    sent,         \* what the present call has stored in the destination
    result,       \* what the last call returned
    asked,        \* history: the reviews recorded before the present call decides
    missed,       \* history: a handler's review came after the decisions it was for
    calls, reviewsMade, upsets

moveVars == <<world, proposal, source, inspected, knownCaps, reviews, preparation, call, sent,
              result, asked, missed, calls, reviewsMade, upsets>>
outside == <<world, proposal, source>>

NoPreparation == [status |-> "none"]
EmptyPlan == [f \in SourceFields |-> 0]
NoCall == [kind |-> "none", at |-> "idle", plan |-> EmptyPlan, schema |-> 0, verdict |-> "none",
         checked |-> 0, version |-> 0, taken |-> <<>>, exhausted |-> FALSE]
NotAField == Max(TargetFields) + 1

InPhase(phase) == call.at = phase
Upset == upsets < MaxUpsets /\ upsets' = upsets + 1
Proven == source # "connector"

-----------------------------------------------------------------------------
(* EventDispatcher.emit: what a handler does to the session.  Its          *)
(* exceptions are counted and go no further.                               *)
Quiet == [kind |-> "quiet", field |-> CHOOSE f \in SourceFields : TRUE, target |-> 0]
Effects ==
    {Quiet, [Quiet EXCEPT !.kind = "fails"]}
    \cup [kind : {"review"}, field : SourceFields, target : TargetFields \cup {NotAField}]

Reviews(effect) == effect.kind = "review"

RecordedKeepingPreparation(effect, kept) ==
    /\ reviewsMade < MaxReviews /\ reviewsMade' = reviewsMade + 1
    /\ reviews' = [reviews EXCEPT ![effect.field] = effect.target]
    /\ preparation' = kept

(* review_mapping: the choice is recorded and the preparation forgotten.   *)
Recorded(effect, kept) ==
    /\ reviewsMade < MaxReviews /\ reviewsMade' = reviewsMade + 1
    /\ reviews' = [reviews EXCEPT ![effect.field] = effect.target]
    /\ preparation' = NoPreparation

(* The session holds a preparation `kept' when the event is emitted.       *)
Emits(effect, kept) ==
    \/ Reviews(effect) /\ Recorded(effect, kept) /\ UNCHANGED upsets
    \/ /\ ~Reviews(effect)
       /\ IF effect.kind = "fails" THEN Upset ELSE UNCHANGED upsets
       /\ preparation' = kept /\ UNCHANGED <<reviews, reviewsMade>>

Silent == UNCHANGED <<reviews, reviewsMade, preparation, upsets>>

(* The call ends with an exception or with a result.                       *)
Ends(status, count) ==
    /\ result' = [status |-> status, count |-> count]
    /\ call' = [call EXCEPT !.at = "idle"]

Raises == Ends("raised", 0) /\ UNCHANGED <<reviews, reviewsMade, preparation>>

-----------------------------------------------------------------------------
(* prepare, up to the inspection; execute calls it first.                  *)
BeginCall(kind, effect) ==
    /\ InPhase("idle") /\ calls < MaxCalls /\ calls' = calls + 1
    /\ sent' = <<>>
    /\ result' = [status |-> "none", count |-> 0]
    /\ IF preparation # NoPreparation
       THEN /\ effect = Quiet /\ Silent
            /\ call' = [NoCall EXCEPT !.kind = kind, !.at = "returned"]
       ELSE /\ Emits(effect, NoPreparation)
            /\ call' = [NoCall EXCEPT !.kind = kind, !.at = "inspect"]
    /\ asked' = reviews'
    /\ UNCHANGED <<outside, inspected, knownCaps, missed>>

(* _resolve_source, _resolve_destination and the schemas; the source is    *)
(* resolved once in a session.                                             *)
InspectEndpoints(effect) ==
    /\ InPhase("inspect")
    /\ \/ /\ Emits(effect, NoPreparation)
          /\ inspected' = IF inspected = 0 THEN world.file ELSE inspected
          /\ knownCaps' = world.caps
          /\ call' = [call EXCEPT !.at = "map", !.schema = world.schema]
          /\ UNCHANGED result
       \/ Upset /\ effect = Quiet /\ Raises /\ UNCHANGED <<inspected, knownCaps>>
    /\ asked' = reviews'
    /\ UNCHANGED <<outside, sent, missed, calls>>

(* The decision about a field: a review stands in for the proposal unless  *)
(* that is blocked.                                                        *)
Decided(f) ==
    IF reviews[f] # 0 /\ proposal[f].status # "blocked"
    THEN [target |-> reviews[f], status |-> "reviewed"] ELSE proposal[f]

AnyDecided(status) == \E f \in SourceFields : Decided(f).status = status

(* assembled_preparation                                                   *)
Assembled(status, plan, checked, version) ==
    [status |-> status, plan |-> plan, schema |-> call.schema, checked |-> checked,
     version |-> version]

(* From the proposal to the plan, or to the end of prepare.                *)
MapFields(effect) ==
    LET stopped(status) ==
            /\ Emits(effect, Assembled(status, EmptyPlan, 0, 0))
            /\ call' = [call EXCEPT !.at = "returned"] /\ UNCHANGED <<result, missed>>
    IN /\ InPhase("map")
       /\ IF \E f \in SourceFields : reviews[f] = NotAField
          THEN effect = Quiet /\ Raises /\ UNCHANGED <<upsets, missed>>
          ELSE \/ AnyDecided("blocked") /\ stopped("blocked")
               \/ ~AnyDecided("blocked") /\ AnyDecided("review") /\ stopped("review_required")
               \/ /\ ~AnyDecided("blocked") /\ ~AnyDecided("review")
                  /\ Emits(effect, NoPreparation)
                  /\ call' = [call EXCEPT !.at = "preflight",
                                          !.plan = [f \in SourceFields |-> Decided(f).target]]
                  /\ missed' = Reviews(effect) /\ UNCHANGED result
               \/ Upset /\ effect = Quiet /\ Raises /\ UNCHANGED missed
       /\ UNCHANGED <<outside, inspected, knownCaps, sent, asked, calls>>

(* Whether the source gives out the records of the version that was        *)
(* inspected; a source that is no file has none.                           *)
SameSource == ~Proven \/ world.file = inspected

RefusedAtOnce ==
    \/ ~SameSource \/ SourceRecords[world.file] > MaxInputRecords
    \/ \E f, g \in SourceFields : f # g /\ call.plan[f] = call.plan[g]

(* PreflightRunner.run and preflight.completed: a source that cannot be    *)
(* read, a target with two sources or too many records are never ready;    *)
(* an empty source needs review.                                           *)
RunPreflight(verdict, effect) ==
    /\ InPhase("preflight")
    /\ verdict \in IF RefusedAtOnce THEN {"blocked"}
                   ELSE {"review_required", "blocked"} \cup
                        (IF SourceRecords[world.file] > 0 THEN {"ready"} ELSE {})
    /\ Emits(effect, NoPreparation)
    /\ call' = [call EXCEPT !.at = "assemble", !.verdict = verdict, !.version = world.file,
                            !.checked = IF RefusedAtOnce THEN 0 ELSE SourceRecords[world.file]]
    /\ missed' = (missed \/ Reviews(effect))
    /\ UNCHANGED <<outside, inspected, knownCaps, sent, result, asked, calls>>

(* The end of prepare: the preparation is kept, and run.ready or           *)
(* run.blocked emitted.                                                    *)
KeepPreparation(effect) ==
    /\ InPhase("assemble")
    /\ Emits(effect, Assembled(call.verdict, call.plan, call.checked, call.version))
    /\ call' = [call EXCEPT !.at = "returned"]
    /\ UNCHANGED <<outside, inspected, knownCaps, sent, result, asked, missed, calls>>

(* What prepare returns is what the session holds by then.                 *)
ReturnPreparation ==
    /\ InPhase("returned") /\ call.kind = "prepare"
    /\ Ends(preparation.status, 0) /\ Silent
    /\ UNCHANGED <<outside, inspected, knownCaps, sent, asked, missed, calls>>

-----------------------------------------------------------------------------
(* execute, after prepare has returned: a rule that forwards sealed values *)
(* needs the encrypted transport.                                          *)
NeedsTransport == source = "sealed file"

Drifted == world.caps # knownCaps \/ world.schema # preparation.schema

(* What stops it before the write, and destination.write_started.          *)
StartWrite(effect) ==
    /\ InPhase("returned") /\ call.kind = "execute"
    /\ \/ /\ preparation = NoPreparation /\ effect = Quiet
          /\ Raises /\ UNCHANGED upsets
       \/ /\ preparation.status \in {"review_required", "blocked"} /\ effect = Quiet
          /\ Ends(preparation.status, 0) /\ Silent
       \/ /\ preparation.status = "ready"
          /\ ~Proven \/ NeedsTransport \/ Drifted
          /\ Emits(effect, preparation) /\ Ends("blocked", 0)
       \/ /\ preparation.status = "ready" /\ Proven
          /\ ~NeedsTransport /\ ~Drifted
          /\ Emits(effect, preparation)
          /\ call' = [call EXCEPT !.at = "write", !.plan = preparation.plan,
                                  !.schema = preparation.schema, !.verdict = "ready",
                                  !.checked = preparation.checked,
                                  !.version = preparation.version]
          /\ UNCHANGED result
    /\ UNCHANGED <<outside, inspected, knownCaps, sent, asked, missed, calls>>

(* iter_records: the identity of the file is compared when it is opened    *)
(* and when it has been read; in between an edit shows in what is read.    *)
MapRecord(effect) ==
    /\ InPhase("write") /\ ~call.exhausted
    /\ call.taken = <<>> => SameSource
    /\ Len(call.taken) < Min({SourceRecords[world.file], MaxInputRecords})
    /\ call' = [call EXCEPT !.taken = Append(@, world.file)]
    /\ Emits(effect, preparation)
    /\ UNCHANGED <<outside, inspected, knownCaps, sent, result, asked, missed, calls>>

ExhaustSource ==
    /\ InPhase("write") /\ ~call.exhausted /\ Len(call.taken) = SourceRecords[world.file]
    /\ SameSource
    /\ call' = [call EXCEPT !.exhausted = TRUE]
    /\ Silent
    /\ UNCHANGED <<outside, inspected, knownCaps, sent, result, asked, missed, calls>>

(* The connector stores a record it has taken from the stream.             *)
StoreRecord ==
    /\ InPhase("write") /\ Len(sent) < Len(call.taken)
    /\ sent' = Append(sent, [version |-> call.taken[Len(sent) + 1], record |-> Len(sent) + 1,
                             plan |-> call.plan])
    /\ Silent
    /\ UNCHANGED <<outside, inspected, knownCaps, call, result, asked, missed, calls>>

(* How write_records may end.  What a connector declares is true; it counts*)
(* what it has stored once the stream has ended, and may count wrongly.    *)
Outcomes ==
    {"unknown", "exception", "miscounted"}
    \cup (IF call.exhausted THEN {"counted"} ELSE {})
    \cup (IF sent = <<>> THEN {"not committed"} ELSE {"partial"})

(* Only a count that agrees with the stream and with the preflight is a    *)
(* completion; what nobody vouches for is unknown.                         *)
StatusOf(outcome) ==
    CASE outcome = "counted" -> IF Len(sent) = Len(call.taken) /\ Len(sent) = call.checked
                                THEN "completed" ELSE "unknown"
      [] outcome = "partial" -> "partial"
      [] outcome = "not committed" -> "not_committed"
      [] OTHER -> "unknown"

EndWrite(outcome, effect) ==
    /\ InPhase("write") /\ outcome \in Outcomes
    /\ Emits(effect, preparation)
    /\ Ends(StatusOf(outcome), Len(sent))
    /\ UNCHANGED <<outside, inspected, knownCaps, sent, asked, missed, calls>>

-----------------------------------------------------------------------------
(* The host reviews between calls; the file and the destination change.    *)
HostReviews(effect) ==
    /\ InPhase("idle") /\ Reviews(effect) /\ Recorded(effect, preparation)
    /\ UNCHANGED <<outside, inspected, knownCaps, call, sent, result, asked, missed, calls, upsets>>

FileChanges ==
    /\ Upset /\ world.file + 1 \in DOMAIN SourceRecords
    /\ world' = [world EXCEPT !.file = @ + 1]
    /\ UNCHANGED <<proposal, source, inspected, knownCaps, reviews, preparation, call, sent,
                   result, asked, missed, calls, reviewsMade>>

DestinationChanges(what) ==
    /\ Upset
    /\ world' = [world EXCEPT ![what] = @ + 1]
    /\ IF what = "schema" THEN proposal' \in Proposals ELSE UNCHANGED proposal
    /\ UNCHANGED <<source, inspected, knownCaps, reviews, preparation, call, sent, result, asked,
                   missed, calls, reviewsMade>>

MoveInit ==
    /\ world = [file |-> 1, schema |-> 1, caps |-> 1]
    /\ proposal \in Proposals /\ source \in {"file", "sealed file", "connector"}
    /\ inspected = 0 /\ knownCaps = 0 /\ reviews = EmptyPlan /\ preparation = NoPreparation
    /\ call = NoCall /\ sent = <<>> /\ result = [status |-> "none", count |-> 0]
    /\ asked = EmptyPlan /\ missed = FALSE /\ calls = 0 /\ reviewsMade = 0 /\ upsets = 0

MoveNext ==
    \/ \E effect \in Effects :
         \/ \E kind \in {"prepare", "execute"} : BeginCall(kind, effect)
         \/ InspectEndpoints(effect) \/ MapFields(effect)
         \/ \E verdict \in {"ready", "review_required", "blocked"} : RunPreflight(verdict, effect)
         \/ KeepPreparation(effect)
         \/ StartWrite(effect) \/ MapRecord(effect)
         \/ \E outcome \in Outcomes : EndWrite(outcome, effect)
         \/ HostReviews(effect)
    \/ ReturnPreparation \/ ExhaustSource \/ StoreRecord \/ FileChanges
    \/ \E what \in {"schema", "caps"} : DestinationChanges(what)

MoveSpec == MoveInit /\ [][MoveNext]_moveVars

-----------------------------------------------------------------------------
(* execute() completes only if it has stored each record that the          *)
(* preflight checked, once and in order, from the version of the file that *)
(* was checked and under the plan it was checked with.                     *)
CompletedIsPreflighted ==
    result.status = "completed" =>
        sent = [i \in 1..call.checked |->
                  [version |-> call.version, record |-> i, plan |-> call.plan]]

(* What execute() returns about the destination is true: nothing is stored *)
(* unless it says completed, partial or unknown, and the first two say how *)
(* much (RouteStatus and records_written).                                 *)
ResultTruth ==
    InPhase("idle") =>
        /\ sent # <<>> => result.status \in {"completed", "partial", "unknown"}
        /\ result.status \in {"completed", "partial"} => Len(sent) = result.count

(* A write follows every review that was recorded before the call, and in  *)
(* it before the fields are mapped.                                        *)
ReviewsHonoured ==
    InPhase("write") => \A f \in SourceFields : asked[f] \in {0, call.plan[f]}

(* The same but for reviews that a handler records while prepare() is      *)
(* under way and after it has looked at the reviews.                       *)
TimelyReviewsHonoured == missed \/ ReviewsHonoured

(* What a session writes is what was preflighted and reviewed, and what it *)
(* returns of it is so (prepare, review_mapping, execute).                 *)
SessionTrue == CompletedIsPreflighted /\ ResultTruth /\ TimelyReviewsHonoured

=============================================================================
