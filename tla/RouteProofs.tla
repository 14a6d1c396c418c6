---------------------------- MODULE RouteProofs -----------------------------
(***************************************************************************)
(* Proofs about a route: the session that moves it (MoveSession), the      *)
(* connectors it reads and writes through (RemoteConnectors) and the       *)
(* mapping it rests on (MappingRoute), for every set of fields, every      *)
(* evidence, source and server, and every bound.                           *)
(***************************************************************************)
EXTENDS MoveSession, RemoteConnectors, MappingRoute, WellFoundedInduction, FiniteSetTheorems, TLAPS

-----------------------------------------------------------------------------
(***************************************************************************)
(* The move session. The identity of the file is compared at both ends of  *)
(* the stream and the file only moves forward, so what was read in between *)
(* is one version; that version is the one the preflight saw, because a    *)
(* ready verdict is given only on the version inspected and the inspection *)
(* is made once. A review forgets the preparation, so a preparation that   *)
(* is kept agrees with the reviews unless one came after its decisions.    *)
(***************************************************************************)

PlanValues == TargetFields \cup {NotAField, 0}
Plan == [SourceFields -> PlanValues]
Verdicts == {"none", "ready", "review_required", "blocked"}

Call == [kind : {"none", "prepare", "execute"},
         at : {"idle", "inspect", "map", "preflight", "assemble", "returned", "write"},
         plan : Plan, schema : Nat, verdict : Verdicts, checked : Nat, version : Nat,
         taken : Seq(Nat), exhausted : BOOLEAN]

Preparation ==
    {NoPreparation} \cup
    [status : Verdicts, plan : Plan, schema : Nat, checked : Nat, version : Nat]

\* The session's state has its type.
MoveType ==
    /\ world \in [file : Nat, schema : Nat, caps : Nat] /\ world.file \in DOMAIN SourceRecords
    /\ proposal \in Proposals
    /\ inspected \in Nat
    /\ reviews \in Plan /\ asked \in Plan
    /\ preparation \in Preparation
    /\ call \in Call
    /\ sent \in Seq([version : Nat, record : Nat, plan : Plan])

\* A call that is under way has returned nothing, and has read and stored nothing
\* before it writes.
NothingYet ==
    /\ call.at # "idle" => result.status = "none"
    /\ call.at \notin {"idle", "write"} => sent = <<>> /\ call.taken = <<>> /\ ~call.exhausted

Honours(chosen, choices) == \A f \in SourceFields : choices[f] \in {0, chosen[f]}

\* A preparation that is ready is about the version inspected, and follows the
\* reviews unless one came after its decisions.
ReadyTrue ==
    preparation.status = "ready" =>
        /\ Proven => preparation.version = inspected
        /\ missed \/ Honours(preparation.plan, reviews)
        /\ call.at = "returned" => missed \/ Honours(preparation.plan, asked)

\* The same of a preparation in the making.
MakingTrue ==
    /\ call.at \in {"inspect", "map"} => asked = reviews
    /\ call.at \in {"preflight", "assemble"} =>
         /\ missed \/ Honours(call.plan, reviews)
         /\ Honours(call.plan, asked)
    /\ call.at = "assemble" /\ call.verdict = "ready" /\ Proven => call.version = inspected

\* What a write has read is from the version inspected on, and once the source
\* has ended from no later one; what is stored is what was read, in order.
WritingTrue ==
    call.at = "write" =>
        /\ Proven /\ call.version = inspected
        /\ missed \/ Honours(call.plan, asked)
        /\ \A i \in 1..Len(call.taken) : inspected <= call.taken[i] /\ call.taken[i] <= world.file
        /\ call.exhausted => \A i \in 1..Len(call.taken) : call.taken[i] = inspected
        /\ Len(sent) <= Len(call.taken)
        /\ \A i \in 1..Len(sent) :
             sent[i] = [version |-> call.taken[i], record |-> i, plan |-> call.plan]

MInv == /\ MoveType
        /\ NothingYet
        /\ ReadyTrue
        /\ MakingTrue
        /\ WritingTrue
        /\ CompletedIsPreflighted
        /\ ResultTruth

-----------------------------------------------------------------------------
(* What an event handler does.                                             *)

\* A handler's review names a field and a target, one of the destination's or not.
LEMMA EffectIs ==
  ASSUME NEW effect \in Effects, Reviews(effect)
  PROVE  effect.field \in SourceFields /\ effect.target \in PlanValues
  BY DEF Effects, Reviews, Quiet, PlanValues

\* A handler that reviews forgets the preparation, any other leaves the reviews.
LEMMA EmitsIs ==
  ASSUME NEW effect \in Effects, NEW kept, Emits(effect, kept), reviews \in Plan
  PROVE  /\ reviews' \in Plan
         /\ Reviews(effect) => preparation' = NoPreparation
         /\ ~Reviews(effect) => preparation' = kept /\ reviews' = reviews
  <1>1. CASE Reviews(effect)
    <2>1. reviews' = [reviews EXCEPT ![effect.field] = effect.target] /\ preparation' = NoPreparation
      BY <1>1 DEF Emits, Recorded
    <2> QED BY <1>1, <2>1, EffectIs DEF Plan
  <1>2. CASE ~Reviews(effect)
    BY <1>2 DEF Emits
  <1> QED BY <1>1, <1>2

LEMMA NotReady == NoPreparation \in Preparation /\ NoPreparation.status = "none"
  BY DEF NoPreparation, Preparation

LEMMA NoCallIs ==
  /\ NoCall \in Call /\ EmptyPlan \in Plan
  /\ \A kind \in {"prepare", "execute"}, at \in {"inspect", "returned"} :
       /\ [NoCall EXCEPT !.kind = kind, !.at = at] \in Call
       /\ [NoCall EXCEPT !.kind = kind, !.at = at].at = at
       /\ [NoCall EXCEPT !.kind = kind, !.at = at].taken = <<>>
       /\ ~[NoCall EXCEPT !.kind = kind, !.at = at].exhausted
  <1>1. EmptyPlan \in Plan
    BY DEF EmptyPlan, Plan, PlanValues
  <1>2. NoCall \in Call
    BY <1>1 DEF NoCall, Call, Verdicts
  <1> QED BY <1>1, <1>2 DEF Call, NoCall

\* Before a call decides, no reviewed field is blocked: its plan honours them.
LEMMA DecidedHonours ==
  ASSUME proposal \in Proposals, reviews \in Plan, ~AnyDecided("blocked"),
         NEW chosen, chosen = [f \in SourceFields |-> Decided(f).target]
  PROVE  chosen \in Plan /\ Honours(chosen, reviews)
  <1> SUFFICES ASSUME NEW f \in SourceFields
               PROVE  Decided(f).target \in PlanValues /\ reviews[f] \in {0, Decided(f).target}
    BY DEF Plan, Honours
  <1>1. /\ reviews[f] \in PlanValues
        /\ proposal[f] \in [target : TargetFields, status : {"auto", "review"}]
                  \cup {[target |-> 0, status |-> "blocked"]}
    BY MoveConstants DEF Plan
  <1>2. Decided(f).status # "blocked"
    BY DEF AnyDecided
  <1>3. CASE reviews[f] # 0 /\ proposal[f].status # "blocked"
    BY <1>1, <1>3 DEF Decided
  <1>4. CASE ~(reviews[f] # 0 /\ proposal[f].status # "blocked")
    <2>1. Decided(f) = proposal[f]
      BY <1>4 DEF Decided
    <2> QED BY <1>1, <1>2, <1>4, <2>1 DEF PlanValues
  <1> QED BY <1>3, <1>4

-----------------------------------------------------------------------------
(* Every step keeps the invariant.                                         *)

\* prepare, up to the preflight.
LEMMA PrepareStep ==
  ASSUME MInv, NEW effect \in Effects,
         \/ \E kind \in {"prepare", "execute"} : BeginCall(kind, effect)
         \/ InspectEndpoints(effect)
  PROVE  MInv'
  <1>t. MoveType /\ call \in Call /\ reviews \in Plan /\ inspected \in Nat /\ world.file \in Nat
        /\ world.schema \in Nat
    BY DEF MInv, MoveType
  <1>1. ASSUME NEW kind \in {"prepare", "execute"}, BeginCall(kind, effect) PROVE MInv'
    <2>1. /\ asked' = reviews' /\ sent' = <<>> /\ result'.status = "none"
          /\ UNCHANGED <<world, proposal, source, inspected, missed>>
      BY <1>1 DEF BeginCall, outside
    <2>2. CASE preparation # NoPreparation
      <3>1. UNCHANGED <<reviews, preparation>> /\ call' = [NoCall EXCEPT !.kind = kind, !.at = "returned"]
        BY <1>1, <2>2 DEF BeginCall, Silent
      <3>2. call' \in Call /\ call'.at = "returned" /\ call'.taken = <<>> /\ ~call'.exhausted
        BY <3>1, NoCallIs
      <3>3. MoveType'
        BY <1>t, <2>1, <3>1, <3>2 DEF MoveType
      <3> QED BY <2>1, <3>1, <3>2, <3>3 DEF MInv, NothingYet, ReadyTrue, MakingTrue, WritingTrue,
            CompletedIsPreflighted, ResultTruth, InPhase, Proven, Honours
    <2>3. CASE preparation = NoPreparation
      <3>1. Emits(effect, NoPreparation) /\ call' = [NoCall EXCEPT !.kind = kind, !.at = "inspect"]
        BY <1>1, <2>3 DEF BeginCall
      <3>2. call' \in Call /\ call'.at = "inspect" /\ call'.taken = <<>> /\ ~call'.exhausted
        BY <3>1, NoCallIs
      <3>3. preparation' = NoPreparation /\ reviews' \in Plan
        BY <1>t, <3>1, EmitsIs
      <3>4. MoveType'
        BY <1>t, <2>1, <3>2, <3>3, NotReady DEF MoveType
      <3> QED BY <2>1, <3>2, <3>3, <3>4, NotReady DEF MInv, NothingYet, ReadyTrue, MakingTrue,
            WritingTrue, CompletedIsPreflighted, ResultTruth, InPhase
    <2> QED BY <2>2, <2>3
  <1>2. ASSUME InspectEndpoints(effect) PROVE MInv'
    <2>1. /\ asked' = reviews' /\ call.at = "inspect"
          /\ UNCHANGED <<world, proposal, source, sent, missed>>
      BY <1>2 DEF InspectEndpoints, outside, InPhase
    <2>0. sent = <<>> /\ result.status = "none" /\ call.taken = <<>> /\ ~call.exhausted
      BY <2>1 DEF MInv, NothingYet
    <2>2. CASE /\ Emits(effect, NoPreparation)
               /\ inspected' = IF inspected = 0 THEN world.file ELSE inspected
               /\ call' = [call EXCEPT !.at = "map", !.schema = world.schema]
               /\ UNCHANGED result
      <3>1. preparation' = NoPreparation /\ reviews' \in Plan
        BY <1>t, <2>2, EmitsIs
      <3>2. call' \in Call /\ call'.at = "map"
            /\ call'.taken = call.taken /\ call'.exhausted = call.exhausted
        BY <1>t, <2>2 DEF Call
      <3>3. MoveType'
        BY <1>t, <2>1, <2>2, <3>1, <3>2, NotReady DEF MoveType
      <3> QED BY <2>0, <2>1, <2>2, <3>1, <3>2, <3>3, NotReady DEF MInv, NothingYet, ReadyTrue,
            MakingTrue, WritingTrue, CompletedIsPreflighted, ResultTruth, InPhase
    <2>3. CASE Raises /\ UNCHANGED inspected
      <3>1. /\ UNCHANGED <<reviews, preparation>> /\ call' = [call EXCEPT !.at = "idle"]
            /\ result'.status = "raised"
        BY <2>3 DEF Raises, Ends
      <3>2. call' \in Call /\ call'.at = "idle"
        BY <1>t, <3>1 DEF Call
      <3>3. MoveType'
        BY <1>t, <2>1, <2>3, <3>1, <3>2 DEF MoveType
      <3> QED BY <2>0, <2>1, <2>3, <3>1, <3>2, <3>3 DEF MInv, NothingYet, ReadyTrue, MakingTrue,
            WritingTrue, CompletedIsPreflighted, ResultTruth, InPhase, Proven, Honours
    <2> QED BY <1>2, <2>2, <2>3 DEF InspectEndpoints
  <1> QED BY <1>1, <1>2

\* A preparation that is kept or forgotten with a review keeps its truth.
LEMMA KeptOrForgotten ==
  ASSUME MInv, NEW effect \in Effects, Emits(effect, preparation), reviews \in Plan
  PROVE  /\ reviews' \in Plan
         /\ preparation' = NoPreparation \/ UNCHANGED <<preparation, reviews>>
  BY EmitsIs

\* The steps that end a call which has stored nothing.
LEMMA EndsEmpty ==
  ASSUME MInv, call.at \notin {"idle", "write"}, call' = [call EXCEPT !.at = "idle"],
         result'.status \notin {"completed", "partial"},
         UNCHANGED <<world, proposal, source, inspected, asked, missed, sent>>,
         reviews' \in Plan,
         preparation' = NoPreparation \/ UNCHANGED <<preparation, reviews>>
  PROVE  MInv'
  <1>1. call \in Call /\ sent = <<>> /\ MoveType
    BY DEF MInv, MoveType, NothingYet
  <1>2. call' \in Call /\ call'.at = "idle"
    BY <1>1 DEF Call
  <1>3. MoveType'
    BY <1>1, <1>2, NotReady DEF MoveType
  <1> QED BY <1>1, <1>2, <1>3, NotReady DEF MInv, NothingYet, ReadyTrue, MakingTrue, WritingTrue,
        CompletedIsPreflighted, ResultTruth, InPhase, Proven, Honours

\* From the proposal to the plan, or to the end of prepare.
LEMMA MapStep ==
  ASSUME MInv, NEW effect \in Effects, MapFields(effect)
  PROVE  MInv'
  <1>t. /\ MoveType /\ call \in Call /\ reviews \in Plan /\ proposal \in Proposals
        /\ call.schema \in Nat
    BY DEF MInv, MoveType, Call
  <1>1. /\ call.at = "map" /\ asked = reviews /\ sent = <<>> /\ result.status = "none"
        /\ call.taken = <<>> /\ ~call.exhausted
        /\ UNCHANGED <<world, proposal, source, inspected, sent, asked>>
    BY DEF MapFields, outside, InPhase, MInv, MakingTrue, NothingYet
  <1>2. CASE Raises /\ UNCHANGED missed
    <2>1. /\ UNCHANGED <<reviews, preparation>> /\ call' = [call EXCEPT !.at = "idle"]
          /\ result'.status = "raised"
      BY <1>2 DEF Raises, Ends
    <2> QED BY <1>t, <1>1, <1>2, <2>1, EndsEmpty
  <1>3. ASSUME NEW status \in {"blocked", "review_required"},
               Emits(effect, Assembled(status, EmptyPlan, 0, 0)),
               call' = [call EXCEPT !.at = "returned"], UNCHANGED <<result, missed>>
        PROVE  MInv'
    <2> PICK kept : kept = Assembled(status, EmptyPlan, 0, 0)
      OBVIOUS
    <2>1. kept \in Preparation /\ kept.status = status
      BY <1>t, <1>3, NoCallIs DEF Assembled, Preparation, Verdicts
    <2>2. /\ preparation' \in Preparation /\ preparation'.status # "ready" /\ reviews' \in Plan
      BY <1>t, <1>3, <2>1, EmitsIs, NotReady
    <2>3. call' \in Call /\ call'.at = "returned"
          /\ call'.taken = call.taken /\ call'.exhausted = call.exhausted
      BY <1>t, <1>3 DEF Call
    <2>4. MoveType'
      BY <1>t, <1>1, <2>2, <2>3 DEF MoveType
    <2> QED BY <1>1, <1>3, <2>2, <2>3, <2>4 DEF MInv, NothingYet, ReadyTrue, MakingTrue, WritingTrue,
          CompletedIsPreflighted, ResultTruth, InPhase
  <1>4. ASSUME ~AnyDecided("blocked"), Emits(effect, NoPreparation),
               call' = [call EXCEPT !.at = "preflight",
                                    !.plan = [f \in SourceFields |-> Decided(f).target]],
               missed' = Reviews(effect), UNCHANGED result
        PROVE  MInv'
    <2> PICK chosen : chosen = [f \in SourceFields |-> Decided(f).target]
      OBVIOUS
    <2>1. chosen \in Plan /\ Honours(chosen, reviews)
      BY <1>t, <1>4, DecidedHonours
    <2>2. /\ preparation' = NoPreparation /\ reviews' \in Plan
          /\ missed' \/ reviews' = reviews
      BY <1>t, <1>4, EmitsIs
    <2>3. call' \in Call /\ call'.at = "preflight" /\ call'.plan = chosen
          /\ call'.taken = call.taken /\ call'.exhausted = call.exhausted
      BY <1>t, <1>4, <2>1 DEF Call
    <2>4. MoveType'
      BY <1>t, <1>1, <2>2, <2>3, NotReady DEF MoveType
    <2>5. Honours(chosen, asked') /\ (missed' \/ Honours(chosen, reviews'))
      BY <1>1, <2>1, <2>2
    <2>6. MakingTrue'
      BY <2>3, <2>5 DEF MakingTrue, Honours
    <2> QED BY <1>1, <1>4, <2>2, <2>3, <2>4, <2>6, NotReady DEF MInv, NothingYet, ReadyTrue, WritingTrue,
          CompletedIsPreflighted, ResultTruth, InPhase
  <1> QED BY <1>2, <1>3, <1>4 DEF MapFields

\* The preflight and the end of prepare.
LEMMA PreflightStep ==
  ASSUME MInv, NEW effect \in Effects,
         \/ \E verdict \in {"ready", "review_required", "blocked"} : RunPreflight(verdict, effect)
         \/ KeepPreparation(effect)
         \/ ReturnPreparation
  PROVE  MInv'
  <1>t. /\ MoveType /\ call \in Call /\ reviews \in Plan /\ preparation \in Preparation
        /\ call.plan \in Plan /\ call.schema \in Nat /\ call.checked \in Nat /\ call.version \in Nat
        /\ call.verdict \in Verdicts
        /\ world.file \in Nat /\ SourceRecords[world.file] \in Nat
    BY MoveConstants DEF MInv, MoveType, Call
  <1>1. ASSUME NEW verdict \in {"ready", "review_required", "blocked"},
               RunPreflight(verdict, effect)
        PROVE  MInv'
    <2>1. /\ call.at = "preflight" /\ Emits(effect, NoPreparation)
          /\ missed' = (missed \/ Reviews(effect))
          /\ UNCHANGED <<world, proposal, source, inspected, sent, result, asked>>
      BY <1>1 DEF RunPreflight, InPhase, outside
    <2> PICK n \in Nat : n = IF RefusedAtOnce THEN 0 ELSE SourceRecords[world.file]
      BY <1>t
    <2>2. call' = [call EXCEPT !.at = "assemble", !.verdict = verdict, !.version = world.file,
                               !.checked = n]
      BY <1>1 DEF RunPreflight
    <2>3. /\ call' \in Call /\ call'.at = "assemble" /\ call'.verdict = verdict
          /\ call'.version = world.file /\ call'.plan = call.plan
          /\ call'.taken = call.taken /\ call'.exhausted = call.exhausted
      BY <1>t, <2>2 DEF Call, Verdicts
    <2>4. verdict = "ready" /\ Proven => world.file = inspected
      BY <1>1 DEF RunPreflight, RefusedAtOnce, SameSource
    <2>5. /\ preparation' = NoPreparation /\ reviews' \in Plan
          /\ missed' \/ (~missed /\ reviews' = reviews)
      BY <1>t, <2>1, EmitsIs
    <2>6. MoveType'
      BY <1>t, <2>1, <2>3, <2>5, NotReady DEF MoveType
    <2>7. Honours(call.plan, asked) /\ (missed \/ Honours(call.plan, reviews))
          /\ sent = <<>> /\ result.status = "none" /\ call.taken = <<>> /\ ~call.exhausted
      BY <2>1 DEF MInv, MakingTrue, NothingYet
    <2>8. MakingTrue'
      BY <2>1, <2>3, <2>4, <2>5, <2>7 DEF MakingTrue, Honours, Proven
    <2> QED BY <2>1, <2>3, <2>5, <2>6, <2>7, <2>8, NotReady DEF MInv, NothingYet, ReadyTrue,
          WritingTrue, CompletedIsPreflighted, ResultTruth, InPhase
  <1>2. ASSUME KeepPreparation(effect) PROVE MInv'
    <2> PICK kept : kept = Assembled(call.verdict, call.plan, call.checked, call.version)
      OBVIOUS
    <2>1. /\ call.at = "assemble" /\ Emits(effect, kept) /\ call' = [call EXCEPT !.at = "returned"]
          /\ UNCHANGED <<world, proposal, source, inspected, sent, result, asked, missed>>
      BY <1>2 DEF KeepPreparation, InPhase, outside
    <2>2. /\ kept \in Preparation /\ kept.status = call.verdict /\ kept.plan = call.plan
          /\ kept.version = call.version
      BY <1>t DEF Assembled, Preparation
    <2>3. call' \in Call /\ call'.at = "returned"
          /\ call'.taken = call.taken /\ call'.exhausted = call.exhausted
      BY <1>t, <2>1 DEF Call
    <2>4. /\ reviews' \in Plan /\ preparation' \in Preparation
          /\ preparation'.status = "ready" => preparation' = kept /\ reviews' = reviews
      BY <1>t, <2>1, <2>2, EmitsIs, NotReady
    <2>5. MoveType'
      BY <1>t, <2>1, <2>3, <2>4 DEF MoveType
    <2>6. /\ Honours(call.plan, asked) /\ (missed \/ Honours(call.plan, reviews))
          /\ call.verdict = "ready" /\ Proven => call.version = inspected
          /\ sent = <<>> /\ result.status = "none" /\ call.taken = <<>> /\ ~call.exhausted
      BY <2>1 DEF MInv, MakingTrue, NothingYet
    <2>7. ReadyTrue'
      <3> SUFFICES ASSUME preparation'.status = "ready"
                   PROVE  /\ Proven' => preparation'.version = inspected'
                          /\ missed' \/ Honours(preparation'.plan, reviews')
                          /\ missed' \/ Honours(preparation'.plan, asked')
        BY DEF ReadyTrue, Honours
      <3>1. /\ preparation'.plan = call.plan /\ preparation'.version = call.version
            /\ call.verdict = "ready" /\ reviews' = reviews
        BY <2>2, <2>4
      <3> QED BY <2>1, <2>6, <3>1 DEF Proven, Honours
    <2> QED BY <2>1, <2>3, <2>5, <2>6, <2>7 DEF MInv, NothingYet, MakingTrue, WritingTrue,
          CompletedIsPreflighted, ResultTruth, InPhase
  <1>3. ASSUME ReturnPreparation PROVE MInv'
    <2>1. /\ call.at = "returned" /\ call' = [call EXCEPT !.at = "idle"]
          /\ result'.status = preparation.status /\ UNCHANGED <<reviews, preparation>>
          /\ UNCHANGED <<world, proposal, source, inspected, asked, missed, sent>>
      BY <1>3 DEF ReturnPreparation, InPhase, outside, Silent, Ends
    <2>2. preparation.status \in Verdicts
      BY <1>t, NotReady DEF Preparation, Verdicts
    <2> QED BY <1>t, <2>1, <2>2, EndsEmpty DEF Verdicts
  <1> QED BY <1>1, <1>2, <1>3

\* What stops execute() before the write, and the start of the write.
LEMMA StartStep ==
  ASSUME MInv, NEW effect \in Effects, StartWrite(effect)
  PROVE  MInv'
  <1>t. /\ MoveType /\ call \in Call /\ reviews \in Plan /\ preparation \in Preparation
    BY DEF MInv, MoveType
  <1>1. /\ call.at = "returned" /\ sent = <<>> /\ result.status = "none"
        /\ call.taken = <<>> /\ ~call.exhausted
        /\ UNCHANGED <<world, proposal, source, inspected, sent, asked, missed>>
    BY DEF StartWrite, outside, InPhase, MInv, NothingYet
  <1>2. CASE Raises
    <2>1. /\ UNCHANGED <<reviews, preparation>> /\ call' = [call EXCEPT !.at = "idle"]
          /\ result'.status = "raised"
      BY <1>2 DEF Raises, Ends
    <2> QED BY <1>t, <1>1, <2>1, EndsEmpty
  <1>3. CASE /\ preparation.status \in {"review_required", "blocked"}
             /\ Ends(preparation.status, 0) /\ Silent
    <2>1. /\ UNCHANGED <<reviews, preparation>> /\ call' = [call EXCEPT !.at = "idle"]
          /\ result'.status \in {"review_required", "blocked"}
      BY <1>3 DEF Silent, Ends
    <2> QED BY <1>t, <1>1, <2>1, EndsEmpty
  <1>4. CASE Emits(effect, preparation) /\ Ends("blocked", 0)
    <2>1. call' = [call EXCEPT !.at = "idle"] /\ result'.status = "blocked"
      BY <1>4 DEF Ends
    <2> QED BY <1>t, <1>1, <1>4, <2>1, KeptOrForgotten, EndsEmpty
  <1>5. CASE /\ preparation.status = "ready" /\ Proven /\ Emits(effect, preparation)
             /\ call' = [call EXCEPT !.at = "write", !.plan = preparation.plan,
                                  !.schema = preparation.schema, !.verdict = "ready",
                                  !.checked = preparation.checked,
                                  !.version = preparation.version]
             /\ UNCHANGED result
    <2>1. preparation \in [status : Verdicts, plan : Plan, schema : Nat, checked : Nat, version : Nat]
      BY <1>t, <1>5, NotReady DEF Preparation
    <2>2. /\ call' \in Call /\ call'.at = "write" /\ call'.plan = preparation.plan
          /\ call'.version = preparation.version /\ call'.taken = <<>> /\ ~call'.exhausted
      BY <1>t, <1>1, <1>5, <2>1 DEF Call, Verdicts
    <2>3. /\ reviews' \in Plan
          /\ preparation' = NoPreparation \/ UNCHANGED <<preparation, reviews>>
      BY <1>t, <1>5, KeptOrForgotten
    <2>4. MoveType'
      BY <1>t, <1>1, <2>2, <2>3, NotReady DEF MoveType
    <2>5. preparation.version = inspected /\ (missed \/ Honours(preparation.plan, asked))
      BY <1>1, <1>5 DEF MInv, ReadyTrue
    <2>6. WritingTrue'
      BY <1>1, <1>5, <2>2, <2>5 DEF WritingTrue, Honours, Proven
    <2> QED BY <1>1, <1>5, <2>2, <2>3, <2>4, <2>6, NotReady DEF MInv, NothingYet, ReadyTrue, MakingTrue,
          CompletedIsPreflighted, ResultTruth, InPhase, Proven, Honours
  <1> QED BY <1>2, <1>3, <1>4, <1>5 DEF StartWrite

\* A step of a write that goes on keeps the invariant if what was read and stored
\* stays true of the file.
LEMMA WritesOn ==
  ASSUME MInv, call.at = "write", MoveType', WritingTrue', call'.at = "write",
         UNCHANGED <<source, inspected, missed, result>>,
         preparation' = NoPreparation \/ UNCHANGED <<preparation, reviews>>
  PROVE  MInv'
  <1>1. result.status = "none"
    BY DEF MInv, NothingYet
  <1> QED BY <1>1, NotReady DEF MInv, NothingYet, ReadyTrue, MakingTrue, CompletedIsPreflighted,
        ResultTruth, InPhase, Proven, Honours

\* The records that are read.
LEMMA ReadStep ==
  ASSUME MInv, NEW effect \in Effects, MapRecord(effect) \/ ExhaustSource
  PROVE  MInv'
  <1>t. /\ MoveType /\ call \in Call /\ reviews \in Plan /\ preparation \in Preparation
        /\ world.file \in Nat /\ inspected \in Nat /\ call.taken \in Seq(Nat)
    BY DEF MInv, MoveType, Call
  <1>1. /\ call.at = "write" /\ ~call.exhausted
        /\ UNCHANGED <<world, proposal, source, inspected, sent, result, asked, missed>>
    BY DEF MapRecord, ExhaustSource, outside, InPhase
  <1>2. /\ Proven /\ call.version = inspected /\ (missed \/ Honours(call.plan, asked))
        /\ \A i \in 1..Len(call.taken) : inspected <= call.taken[i] /\ call.taken[i] <= world.file
        /\ Len(sent) <= Len(call.taken)
        /\ \A i \in 1..Len(sent) :
             sent[i] = [version |-> call.taken[i], record |-> i, plan |-> call.plan]
    BY <1>1 DEF MInv, WritingTrue
  <1>s. sent \in Seq([version : Nat, record : Nat, plan : Plan])
    BY <1>t DEF MoveType
  <1>3. ASSUME MapRecord(effect) PROVE MInv'
    <2>1. /\ call' = [call EXCEPT !.taken = Append(call.taken, world.file)]
          /\ Emits(effect, preparation) /\ (call.taken = <<>> => SameSource)
      BY <1>3 DEF MapRecord
    <2>2. inspected <= world.file
      <3>1. CASE call.taken = <<>>
        BY <1>t, <1>2, <2>1, <3>1 DEF SameSource
      <3>2. CASE call.taken # <<>>
        <4>1. 1 \in 1..Len(call.taken) /\ call.taken[1] \in Nat
          BY <1>t, <3>2
        <4> QED BY <1>t, <1>2, <4>1
      <3> QED BY <3>1, <3>2
    <2> PICK taken : taken = Append(call.taken, world.file)
      OBVIOUS
    <2>3. /\ taken \in Seq(Nat) /\ Len(taken) = Len(call.taken) + 1 /\ Len(call.taken) \in Nat
          /\ taken[Len(taken)] = world.file
          /\ \A i \in 1..Len(call.taken) : taken[i] = call.taken[i]
      BY <1>t
    <2>4. /\ call' \in Call /\ call'.at = "write" /\ call'.plan = call.plan
          /\ call'.version = call.version /\ call'.taken = taken /\ ~call'.exhausted
      BY <1>t, <1>1, <2>1, <2>3 DEF Call
    <2>5. /\ reviews' \in Plan
          /\ preparation' = NoPreparation \/ UNCHANGED <<preparation, reviews>>
      BY <1>t, <2>1, KeptOrForgotten
    <2>6. MoveType'
      BY <1>t, <1>1, <2>4, <2>5, NotReady DEF MoveType
    <2>7. \A i \in 1..Len(taken) : inspected <= taken[i] /\ taken[i] <= world.file
      <3> SUFFICES ASSUME NEW i \in 1..Len(taken)
                   PROVE  inspected <= taken[i] /\ taken[i] <= world.file
        OBVIOUS
      <3>1. CASE i \in 1..Len(call.taken)
        BY <1>2, <2>3, <3>1
      <3>2. CASE i \notin 1..Len(call.taken)
        <4>1. i = Len(taken)
          BY <2>3, <3>2
        <4> QED BY <1>t, <2>2, <2>3, <4>1
      <3> QED BY <3>1, <3>2
    <2>8. Len(sent) <= Len(taken) /\ \A i \in 1..Len(sent) : taken[i] = call.taken[i]
      BY <1>s, <1>2, <2>3
    <2>9. \A i \in 1..Len(sent) : sent[i] = [version |-> taken[i], record |-> i, plan |-> call.plan]
      BY <1>2, <2>8
    <2>10. WritingTrue'
      BY <1>1, <1>2, <2>4, <2>7, <2>8, <2>9 DEF WritingTrue, Honours, Proven
    <2> QED BY <1>1, <2>4, <2>5, <2>6, <2>10, WritesOn
  <1>4. ASSUME ExhaustSource PROVE MInv'
    <2>1. /\ call' = [call EXCEPT !.exhausted = TRUE] /\ UNCHANGED <<reviews, preparation>>
          /\ world.file = inspected
      BY <1>2, <1>4 DEF ExhaustSource, Silent, SameSource
    <2>2. /\ call' \in Call /\ call'.at = "write" /\ call'.plan = call.plan
          /\ call'.version = call.version /\ call'.taken = call.taken
      BY <1>t, <1>1, <2>1 DEF Call
    <2>3. MoveType'
      BY <1>t, <1>1, <2>1, <2>2 DEF MoveType
    <2>4. \A i \in 1..Len(call.taken) : call.taken[i] = inspected
      <3> TAKE i \in 1..Len(call.taken)
      <3>1. call.taken[i] \in Nat
        BY <1>t
      <3> QED BY <1>t, <1>2, <2>1, <3>1
    <2>5. WritingTrue'
      BY <1>1, <1>2, <2>2, <2>4 DEF WritingTrue, Honours, Proven
    <2> QED BY <1>1, <2>1, <2>2, <2>3, <2>5, WritesOn
  <1> QED BY <1>3, <1>4

\* The records that are stored.
LEMMA StoreStep ==
  ASSUME MInv, StoreRecord
  PROVE  MInv'
  <1>t. /\ MoveType /\ call \in Call /\ call.taken \in Seq(Nat) /\ call.plan \in Plan
        /\ sent \in Seq([version : Nat, record : Nat, plan : Plan])
    BY DEF MInv, MoveType, Call
  <1> PICK n : n = Len(sent) + 1
    OBVIOUS
  <1> PICK item : item = [version |-> call.taken[n], record |-> n, plan |-> call.plan]
    OBVIOUS
  <1>1. /\ call.at = "write" /\ Len(sent) < Len(call.taken) /\ sent' = Append(sent, item)
        /\ UNCHANGED <<world, proposal, source, inspected, call, result, asked, missed, reviews,
                       preparation>>
    BY DEF StoreRecord, outside, InPhase, Silent
  <1>2. n \in 1..Len(call.taken) /\ n \in Nat /\ call.taken[n] \in Nat
    BY <1>t, <1>1
  <1>3. item \in [version : Nat, record : Nat, plan : Plan]
    BY <1>t, <1>2
  <1>4. /\ sent' \in Seq([version : Nat, record : Nat, plan : Plan])
        /\ Len(sent') = n /\ sent'[n] = item /\ \A i \in 1..Len(sent) : sent'[i] = sent[i]
    BY <1>t, <1>1, <1>3
  <1>5. MoveType'
    BY <1>t, <1>1, <1>4 DEF MoveType
  <1>6. \A i \in 1..Len(sent') :
          sent'[i] = [version |-> call.taken[i], record |-> i, plan |-> call.plan]
    <2> TAKE i \in 1..Len(sent')
    <2>1. CASE i \in 1..Len(sent)
      BY <1>1, <1>4, <2>1 DEF MInv, WritingTrue
    <2>2. CASE i \notin 1..Len(sent)
      <3>1. i = n
        BY <1>t, <1>4, <2>2
      <3> QED BY <1>4, <3>1
    <2> QED BY <2>1, <2>2
  <1>7. WritingTrue
    BY DEF MInv
  <1>8. WritingTrue'
    BY <1>t, <1>1, <1>2, <1>4, <1>6, <1>7, SMTT(30) DEF WritingTrue, Honours, Proven
  <1> QED BY <1>1, <1>5, <1>8, WritesOn

\* The end of a write.  A count that agrees with the stream and with the preflight
\* is of the records that were checked.
LEMMA EndStep ==
  ASSUME MInv, NEW effect \in Effects, NEW outcome, EndWrite(outcome, effect)
  PROVE  MInv'
  <1>t. /\ MoveType /\ call \in Call /\ call.taken \in Seq(Nat) /\ call.checked \in Nat
        /\ reviews \in Plan /\ preparation \in Preparation
        /\ sent \in Seq([version : Nat, record : Nat, plan : Plan])
    BY DEF MInv, MoveType, Call
  <1>1. /\ call.at = "write" /\ outcome \in Outcomes /\ Emits(effect, preparation)
        /\ call' = [call EXCEPT !.at = "idle"]
        /\ result' = [status |-> StatusOf(outcome), count |-> Len(sent)]
        /\ UNCHANGED <<world, proposal, source, inspected, sent, asked, missed>>
    BY DEF EndWrite, outside, InPhase, Ends
  <1>2. /\ call' \in Call /\ call'.at = "idle" /\ call'.plan = call.plan
        /\ call'.version = call.version /\ call'.checked = call.checked
    BY <1>t, <1>1 DEF Call
  <1>3. /\ reviews' \in Plan
        /\ preparation' = NoPreparation \/ UNCHANGED <<preparation, reviews>>
    BY <1>t, <1>1, KeptOrForgotten
  <1>4. MoveType'
    BY <1>t, <1>1, <1>2, <1>3, NotReady DEF MoveType
  <1> PICK status : status = StatusOf(outcome)
    OBVIOUS
  <1>5. result'.status = status /\ result'.count = Len(sent)
    BY <1>1
  <1>6. /\ status \in {"completed", "partial", "unknown", "not_committed"}
        /\ status = "not_committed" => sent = <<>>
        /\ status = "completed" => /\ call.exhausted
                                   /\ Len(sent) = Len(call.taken) /\ Len(sent) = call.checked
    BY <1>1 DEF Outcomes, StatusOf
  <1>7. status = "completed" =>
          sent = [i \in 1..call.checked |->
                    [version |-> call.version, record |-> i, plan |-> call.plan]]
    <2> SUFFICES ASSUME status = "completed"
                 PROVE  sent = [i \in 1..call.checked |->
                              [version |-> call.version, record |-> i, plan |-> call.plan]]
      OBVIOUS
    <2>1. \A i \in 1..Len(sent) :
            sent[i] = [version |-> call.version, record |-> i, plan |-> call.plan]
      BY <1>1, <1>6 DEF MInv, WritingTrue
    <2>2. sent = [i \in 1..Len(sent) |-> sent[i]] /\ Len(sent) = call.checked
      BY <1>t, <1>6
    <2> QED BY <2>1, <2>2
  <1>8. CompletedIsPreflighted'
    BY <1>1, <1>2, <1>5, <1>7 DEF CompletedIsPreflighted
  <1>9. ResultTruth'
    BY <1>1, <1>5, <1>6 DEF ResultTruth
  <1> QED BY <1>1, <1>2, <1>3, <1>4, <1>8, <1>9, NotReady DEF MInv, NothingYet, ReadyTrue, MakingTrue,
        WritingTrue, Proven, Honours

\* A review between calls, and what changes outside the session.
LEMMA OutsideStep ==
  ASSUME MInv,
         \/ \E effect \in Effects : HostReviews(effect)
         \/ FileChanges
         \/ \E what \in {"schema", "caps"} : DestinationChanges(what)
         \/ UNCHANGED moveVars
  PROVE  MInv'
  <1>t. /\ MoveType /\ call \in Call /\ reviews \in Plan /\ preparation \in Preparation
        /\ world \in [file : Nat, schema : Nat, caps : Nat] /\ call.taken \in Seq(Nat)
    BY DEF MInv, MoveType, Call
  <1>w. world \in [file : Nat, schema : Nat, caps : Nat]
    BY <1>t
  <1>d. world.file \in DOMAIN SourceRecords
    BY <1>t DEF MoveType
  <1>1. ASSUME NEW effect \in Effects, HostReviews(effect) PROVE MInv'
    <2>1. /\ call.at = "idle" /\ preparation' = NoPreparation
          /\ reviews' = [reviews EXCEPT ![effect.field] = effect.target]
          /\ effect.field \in SourceFields /\ effect.target \in PlanValues
          /\ UNCHANGED <<world, proposal, source, inspected, call, sent, result, asked, missed>>
      BY <1>1, EffectIs DEF HostReviews, Recorded, InPhase, outside
    <2>2. reviews' \in Plan
      BY <1>t, <2>1 DEF Plan
    <2>3. MoveType'
      BY <1>t, <2>1, <2>2, NotReady DEF MoveType
    <2> QED BY <2>1, <2>3, NotReady DEF MInv, NothingYet, ReadyTrue, MakingTrue, WritingTrue,
          CompletedIsPreflighted, ResultTruth, InPhase
  <1>2. ASSUME world' \in [file : Nat, schema : Nat, caps : Nat], world'.file \in DOMAIN SourceRecords,
               world.file <= world'.file, proposal' \in Proposals,
               UNCHANGED <<source, inspected, reviews, preparation, call, sent, result, asked, missed>>
        PROVE  MInv'
    <2>1. MoveType'
      BY <1>t, <1>2 DEF MoveType
    <2>2. WritingTrue'
      <3> SUFFICES ASSUME call.at = "write" PROVE WritingTrue'
        BY <1>2 DEF WritingTrue
      <3>1. \A i \in 1..Len(call.taken) : inspected <= call.taken[i] /\ call.taken[i] <= world'.file
        <4> TAKE i \in 1..Len(call.taken)
        <4>1. call.taken[i] \in Nat /\ world.file \in Nat /\ world'.file \in Nat
          BY <1>t, <1>2, SMTT(30)
        <4>2. inspected <= call.taken[i] /\ call.taken[i] <= world.file
          BY DEF MInv, WritingTrue
        <4> QED BY <1>2, <4>1, <4>2
      <3>2. WritingTrue
        BY DEF MInv
      <3> QED BY <1>2, <3>1, <3>2 DEF WritingTrue, Honours, Proven
    <2> QED BY <1>2, <2>1, <2>2 DEF MInv, NothingYet, ReadyTrue, MakingTrue,
          CompletedIsPreflighted, ResultTruth, InPhase, Proven, Honours
  <1>3. ASSUME FileChanges PROVE MInv'
    <2>1. /\ world.file + 1 \in DOMAIN SourceRecords
          /\ world' = [world EXCEPT !.file = world.file + 1]
          /\ UNCHANGED <<proposal, source, inspected, reviews, preparation, call, sent, result,
                         asked, missed>>
      BY <1>3 DEF FileChanges
    <2>2. /\ world' \in [file : Nat, schema : Nat, caps : Nat] /\ world'.file = world.file + 1
          /\ world.file \in Nat
      BY <1>t, <2>1
    <2>3. world.file <= world'.file /\ world'.file \in DOMAIN SourceRecords /\ proposal' \in Proposals
      BY <1>t, <2>1, <2>2 DEF MoveType
    <2> QED BY <1>2, <2>1, <2>2, <2>3
  <1>4. ASSUME NEW what \in {"schema", "caps"}, DestinationChanges(what) PROVE MInv'
    <2>1. /\ world' = [world EXCEPT ![what] = @ + 1]
          /\ proposal' \in Proposals
          /\ UNCHANGED <<source, inspected, reviews, preparation, call, sent, result, asked, missed>>
      BY <1>t, <1>4 DEF DestinationChanges, MoveType
    <2>2. CASE what = "schema"
      <3>1. world' = [world EXCEPT !.schema = world.schema + 1]
        BY <2>1, <2>2
      <3>2. /\ world' \in [file : Nat, schema : Nat, caps : Nat] /\ world'.file = world.file
            /\ world.file \in Nat
        BY <1>w, <3>1
      <3> QED BY <1>d, <1>2, <2>1, <3>2
    <2>3. CASE what = "caps"
      <3>1. world' = [world EXCEPT !.caps = world.caps + 1]
        BY <2>1, <2>3
      <3>2. /\ world' \in [file : Nat, schema : Nat, caps : Nat] /\ world'.file = world.file
            /\ world.file \in Nat
        BY <1>w, <3>1
      <3> QED BY <1>d, <1>2, <2>1, <3>2
    <2> QED BY <2>2, <2>3
  <1>5. ASSUME UNCHANGED moveVars PROVE MInv'
    <2>1. world'.file = world.file /\ world.file \in Nat /\ world.file \in DOMAIN SourceRecords
          /\ proposal \in Proposals
      BY <1>t, <1>5 DEF moveVars, MoveType
    <2> QED BY <1>t, <1>2, <1>5, <2>1 DEF moveVars
  <1> QED BY <1>1, <1>3, <1>4, <1>5

-----------------------------------------------------------------------------

LEMMA MInvInit == MoveInit => MInv
  <1> SUFFICES ASSUME MoveInit PROVE MInv
    OBVIOUS
  <1>1. NoCall.at = "idle" /\ 1 \in DOMAIN SourceRecords
    BY MoveConstants DEF NoCall
  <1>2. MoveType
    <2>1. world \in [file : Nat, schema : Nat, caps : Nat] /\ world.file = 1
      BY DEF MoveInit
    <2>2. sent \in Seq([version : Nat, record : Nat, plan : Plan])
      <3>1. sent = <<>>
        BY DEF MoveInit
      <3> QED BY <3>1
    <2> QED BY <1>1, <2>1, <2>2, NoCallIs, NotReady DEF MoveInit, MoveType
  <1> QED BY <1>1, <1>2, NotReady DEF MoveInit, MInv, NothingYet, ReadyTrue, MakingTrue, WritingTrue,
        CompletedIsPreflighted, ResultTruth, InPhase

LEMMA MInvStep == MInv /\ [MoveNext]_moveVars => MInv'
  <1> SUFFICES ASSUME MInv, [MoveNext]_moveVars PROVE MInv'
    OBVIOUS
  <1>1. ASSUME NEW effect \in Effects,
               \/ \E kind \in {"prepare", "execute"} : BeginCall(kind, effect)
               \/ InspectEndpoints(effect) \/ MapFields(effect)
               \/ \E verdict \in {"ready", "review_required", "blocked"} :
                    RunPreflight(verdict, effect)
               \/ KeepPreparation(effect)
               \/ StartWrite(effect) \/ MapRecord(effect)
               \/ \E outcome \in Outcomes : EndWrite(outcome, effect)
               \/ HostReviews(effect)
        PROVE  MInv'
    BY <1>1, PrepareStep, MapStep, PreflightStep, StartStep, ReadStep, EndStep, OutsideStep
  <1>2. ASSUME ReturnPreparation \/ ExhaustSource PROVE MInv'
    <2>1. Quiet \in Effects
      BY DEF Effects
    <2> QED BY <1>2, <2>1, PreflightStep, ReadStep
  <1> QED BY <1>1, <1>2, StoreStep, OutsideStep DEF MoveNext

\* What a session writes is what was preflighted and reviewed, and what it returns of
\* it is so, however its event handlers, the host, the source file and the destination
\* interfere (MoveSession.prepare, review_mapping and execute).
THEOREM SessionIsTrue == MoveSpec => []SessionTrue
  <1>1. MInv => SessionTrue
    BY DEF MInv, SessionTrue, WritingTrue, TimelyReviewsHonoured, ReviewsHonoured, InPhase, Honours
  <1> QED BY <1>1, MInvInit, MInvStep, PTL DEF MoveSpec

-----------------------------------------------------------------------------
(***************************************************************************)
(* The connectors. What a write says is true because at each place of the  *)
(* call (WritePlace) the rows kept, pending and on the way are known to be *)
(* the first ones of the input; the only uncertainty is the one request    *)
(* under way. A paged read yields a prefix of the server's rows because    *)
(* the place of the next page is the number of rows yielded so far, for    *)
(* pages and for cursors (FetchPlace).                                     *)
(***************************************************************************)

First(n) == [i \in 1..n |-> i]

Write == [sink : Sinks, items : Inputs, batch : BOOLEAN, context : BOOLEAN, count : Nat,
          at : {"begin", "take", "wait", "insert", "roll back", "commit", "over"},
          says : {"none", "written", "not committed", "raised", "partial", "unknown"},
          next : {"none", "not committed", "unknown"}]

\* The request under way is for the record after the acknowledged ones, and the server
\* keeps it or not.
Underway ==
    \/ onTheWay = write.count + 1 /\ rowsKept = First(write.count)
    \/ onTheWay = 0 /\ rowsKept \in {First(write.count), First(write.count + 1)}

\* What is on the way, pending and kept at each place of a call.
WritePlace ==
    /\ write.at \in {"begin", "insert"} =>
         write.count = 0 /\ rowsKept = <<>> /\ onTheWay = 0 /\ pending = <<>>
    /\ write.at = "take" => rowsKept = First(write.count) /\ onTheWay = 0
    /\ write.at = "wait" => Underway /\ write.count < Len(Items)
    /\ write.at = "roll back" =>
         onTheWay = 0 /\ (write.sink # "plain" => rowsKept = <<>>)
    /\ write.at = "commit" =>
         /\ onTheWay = 0
         /\ rowsKept \o pending = First(Len(Items))
    /\ write.at = "over" => write.says # "none"
    /\ write.at # "over" => write.says = "none" /\ write.next = "none"
    /\ write.says \in {"none", "partial"} => write.count <= Len(Items)
    /\ write.says = "partial" => write.count > 0 /\ Underway
    /\ write.next = "not committed" => onTheWay = 0 /\ rowsKept = First(write.count)

\* WriteTruth in these terms.
Truth ==
    /\ write.says = "written" => rowsKept = First(Len(Items)) /\ onTheWay = 0
    /\ write.says \in {"not committed", "raised"} => rowsKept = <<>> /\ onTheWay = 0

WInv == /\ write \in Write /\ onTheWay \in Nat
        /\ WritePlace
        /\ Truth

LEMMA ItemsAre ==
  ASSUME write \in Write
  PROVE  Items \in Seq({"good", "bad", "raises", "same"}) /\ Len(Items) \in Nat
  <1>1. write.items \in Inputs
    BY DEF Write
  <1>2. \A items \in Inputs : items \in Seq({"good", "bad", "raises", "same"})
    BY InputsAssumption
  <1>3. write.items \in Seq({"good", "bad", "raises", "same"})
    BY <1>1, <1>2
  <1> QED BY <1>3 DEF Items

LEMMA ZeroLeast == \A l \in Nat : 0 <= l
  OBVIOUS

LEMMA FirstZero == First(0) = <<>>
  BY DEF First

LEMMA FirstIs ==
  ASSUME NEW n \in Nat
  PROVE  /\ First(n) \in Seq(Nat) /\ Len(First(n)) = n
         /\ \A i \in 1..n : First(n)[i] = i
         /\ First(n) \o <<>> = First(n) /\ <<>> \o First(n) = First(n)
         /\ Append(First(n), n + 1) = First(n + 1)
  <1>1. First(n) \in Seq(Nat) /\ Len(First(n)) = n /\ \A i \in 1..n : First(n)[i] = i
    BY DEF First
  <1>2. First(n) \o <<>> = First(n) /\ <<>> \o First(n) = First(n)
    BY <1>1
  <1>3. Append(First(n), n + 1) = First(n + 1)
    BY <1>1 DEF First
  <1> QED BY <1>1, <1>2, <1>3

LEMMA WriteInit == RemoteInit => WInv
  <1> SUFFICES ASSUME RemoteInit PROVE WInv
    OBVIOUS
  <1>1. write \in Write /\ write.at = "begin" /\ write.count = 0 /\ write.says = "none" /\ write.next = "none"
    <2>1. write \in [sink : Sinks, items : Inputs, batch : BOOLEAN, context : BOOLEAN,
                  count : {0}, at : {"begin"}, says : {"none"}, next : {"none"}]
      BY DEF RemoteInit
    <2>2. write \in Write
      <3>1. 0 \in Nat
        OBVIOUS
      <3> QED BY <2>1, <3>1, Zenon DEF Write
    <2> QED BY <2>1, <2>2
  <1>2. Len(Items) \in Nat
    BY <1>1, ItemsAre
  <1> QED BY <1>1, <1>2 DEF RemoteInit, WInv, WritePlace, Truth

LEMMA PostStep ==
  ASSUME WInv, BeginPost \/ TakeRecord \/ Answer \/ ServerActs
  PROVE  WInv'
  <1>t. /\ Len(Items) \in Nat /\ write.count \in Nat /\ onTheWay \in Nat
    BY ItemsAre DEF WInv, Write
  <1>w. write \in Write
    BY DEF WInv
  <1>1. CASE BeginPost
    <2>1. /\ write.at = "begin" /\ write.count = 0 /\ rowsKept = <<>> /\ onTheWay = 0
          /\ pending = <<>> /\ write.says = "none" /\ write.next = "none"
          /\ UNCHANGED <<onTheWay, pending, rowsKept>>
      BY <1>1 DEF BeginPost, WInv, WritePlace, WriteAt, serverVars
    <2>2. CASE write' = [write EXCEPT !.at = "take"]
      <3>1. write' \in Write /\ write'.at = "take" /\ write'.items = write.items /\ write'.count = 0
            /\ write'.says = "none" /\ write'.next = "none"
        BY <1>w, <2>1, <2>2 DEF Write
      <3> QED BY <1>t, <2>1, <3>1, FirstZero DEF WInv, WritePlace, Truth, Items
    <2>3. ASSUME NEW verdict \in {"raised", "written", "not committed"}, Says(verdict, "none"),
                 verdict = "written" => Items = <<>>
          PROVE  WInv'
      <3>1. write' \in Write /\ write'.at = "over" /\ write'.items = write.items /\ write'.count = 0
            /\ write'.says = verdict /\ write'.next = "none"
        BY <1>w, <2>1, <2>3 DEF Write, Says
      <3>2. WritePlace'
        BY <1>t, <2>1, <3>1, FirstZero DEF WritePlace, Items, Underway
      <3>3. verdict = "written" => Len(write'.items) = 0
        BY <2>3, <3>1 DEF Items
      <3>4. Truth'
        BY <1>t, <2>1, <2>3, <3>1, <3>3, FirstZero DEF Truth, Items
      <3> QED BY <1>t, <2>1, <3>1, <3>2, <3>4 DEF WInv
    <2> QED BY <1>1, <2>2, <2>3 DEF BeginPost
  <1>2. CASE TakeRecord
    <2>1. /\ write.at = "take" /\ rowsKept = First(write.count) /\ onTheWay = 0
          /\ write.says = "none" /\ write.next = "none" /\ write.count <= Len(Items)
          /\ UNCHANGED <<pending, rowsKept>>
      BY <1>2 DEF TakeRecord, WInv, WritePlace, WriteAt
    <2>2. CASE Says("written", "none") /\ UNCHANGED onTheWay /\ write.count + 1 > Len(Items)
      <3>1. write' \in Write /\ write'.at = "over" /\ write'.items = write.items
            /\ write'.count = write.count
            /\ write'.says = "written" /\ write'.next = "none"
        BY <1>w, <2>1, <2>2 DEF Write, Says
      <3>2. write.count = Len(Items)
        BY <1>t, <2>1, <2>2
      <3> QED BY <1>t, <2>1, <2>2, <3>1, <3>2 DEF WInv, WritePlace, Truth, Items
    <2>3. CASE Fails("not committed") /\ UNCHANGED onTheWay
      <3>1. CASE write.count = 0
        <4>1. write' \in Write /\ write'.at = "over" /\ write'.items = write.items
              /\ write'.count = write.count
              /\ write'.says = "not committed" /\ write'.next = "none"
          BY <1>w, <2>1, <2>3, <3>1 DEF Write, Says, Fails
        <4> QED BY <1>t, <2>1, <2>3, <3>1, <4>1, FirstZero DEF WInv, WritePlace, Truth, Items
      <3>2. CASE write.count # 0
        <4>1. write' \in Write /\ write'.at = "over" /\ write'.items = write.items
              /\ write'.count = write.count
              /\ write'.says = "partial" /\ write'.next = "not committed"
          BY <1>w, <2>1, <2>3, <3>2 DEF Write, Says, Fails
        <4>u. onTheWay' = 0
          BY <2>1, <2>3
        <4>0. onTheWay' = 0 /\ write.count > 0
          BY <1>t, <3>2, <4>u
        <4>2. WritePlace'
          BY <1>t, <2>1, <4>0, <4>1 DEF WritePlace, Items, Underway
        <4>3. Truth'
          BY <4>1 DEF Truth
        <4> QED BY <1>t, <2>3, <4>1, <4>2, <4>3 DEF WInv
      <3> QED BY <3>1, <3>2
    <2>4. CASE /\ write' = [write EXCEPT !.at = "wait"] /\ onTheWay' = write.count + 1
               /\ write.count + 1 <= Len(Items)
      <3>1. write' \in Write /\ write'.at = "wait" /\ write'.items = write.items
            /\ write'.count = write.count
            /\ write'.says = "none" /\ write'.next = "none"
        BY <1>w, <2>1, <2>4 DEF Write
      <3>0. onTheWay' = write.count + 1 /\ write.count < Len(Items)
        BY <1>t, <2>4
      <3>2. WritePlace'
        BY <1>t, <2>1, <3>0, <3>1 DEF WritePlace, Items, Underway
      <3>3. Truth' /\ onTheWay' \in Nat
        BY <1>t, <3>0, <3>1 DEF Truth
      <3> QED BY <3>1, <3>2, <3>3 DEF WInv
    <2>5. CASE write.count + 1 > Len(Items)
      BY <1>2, <2>2, <2>5 DEF TakeRecord
    <2>6. CASE ~(write.count + 1 > Len(Items))
      <3>1. write.count + 1 <= Len(Items)
        BY <1>t, <2>6
      <3> QED BY <1>2, <2>3, <2>4, <2>6, <3>1 DEF TakeRecord
    <2> QED BY <2>5, <2>6
  <1>3. CASE Answer
    <2>1. /\ write.at = "wait" /\ Underway /\ write.count < Len(Items)
          /\ write.says = "none" /\ write.next = "none"
          /\ UNCHANGED <<pending, rowsKept, onTheWay>>
      BY <1>3, FirstIs DEF Answer, WInv, WritePlace, WriteAt, serverVars
    <2>2. CASE /\ onTheWay = 0 /\ rowsKept # <<>> /\ rowsKept[Len(rowsKept)] = write.count + 1
               /\ write' = [write EXCEPT !.at = "take", !.count = @ + 1]
      <3>1. rowsKept = First(write.count + 1)
        <4>1. CASE rowsKept = First(write.count)
          <5>1. write.count # 0
            BY <2>2, <4>1, FirstZero
          <5>2. write.count \in 1..write.count /\ write.count \in Nat
            BY <1>t, <5>1
          <5>3. First(write.count)[write.count] = write.count /\ Len(First(write.count)) = write.count
            BY <5>2, FirstIs
          <5> QED BY <1>t, <2>2, <4>1, <5>3
        <4> QED BY <2>1, <2>2, <4>1 DEF Underway
      <3>2. write' \in Write /\ write'.at = "take" /\ write'.items = write.items
            /\ write'.count = write.count + 1
            /\ write'.says = "none" /\ write'.next = write.next
        <4>1. write.count + 1 \in Nat
          BY <1>t
        <4> QED BY <1>w, <2>1, <2>2, <4>1 DEF Write
      <3>3. WritePlace'
        BY <1>t, <2>1, <2>2, <3>1, <3>2 DEF WritePlace, Items
      <3>4. Truth' /\ onTheWay' \in Nat
        BY <1>t, <2>1, <3>2 DEF Truth
      <3> QED BY <3>2, <3>3, <3>4 DEF WInv
    <2>3. CASE Fails("unknown")
      <3>1. CASE write.count = 0
        <4>1. write' \in Write /\ write'.at = "over" /\ write'.items = write.items
              /\ write'.count = write.count
              /\ write'.says = "unknown" /\ write'.next = "none"
          BY <1>w, <2>1, <2>3, <3>1 DEF Write, Says, Fails
        <4> QED BY <1>t, <2>1, <2>3, <3>1, <4>1 DEF WInv, WritePlace, Truth, Items
      <3>2. CASE write.count # 0
        <4>1. write' \in Write /\ write'.at = "over" /\ write'.items = write.items
              /\ write'.count = write.count
              /\ write'.says = "partial" /\ write'.next = "unknown"
          BY <1>w, <2>1, <2>3, <3>2 DEF Write, Says, Fails
        <4>2. WritePlace'
          BY <1>t, <2>1, <3>2, <4>1 DEF WritePlace, Items, Underway
        <4>3. Truth'
          BY <1>t, <2>1, <3>2, <4>1 DEF Truth, Underway
        <4> QED BY <1>t, <2>1, <4>1, <4>2, <4>3 DEF WInv
      <3> QED BY <3>1, <3>2
    <2> QED BY <1>3, <2>2, <2>3 DEF Answer
  <1>4. CASE ServerActs
    <2>1. /\ onTheWay # 0 /\ onTheWay' = 0 /\ rowsKept' \in {rowsKept, Append(rowsKept, onTheWay)}
          /\ UNCHANGED <<write, pending>>
      BY <1>4 DEF ServerActs
    <2>2. /\ write.at \in {"wait", "over"} /\ write.next # "not committed"
          /\ write.at = "wait" => Underway
          /\ write.at = "over" => write.says \in {"partial", "unknown"}
          /\ write.at = "over" /\ write.says = "partial" => Underway
      BY <1>t, <2>1 DEF WInv, WritePlace, Truth, Write
    <2>3. Underway => Underway'
      BY <1>t, <2>1, FirstIs DEF Underway
    <2>4. WritePlace'
      BY <1>t, <2>1, <2>2, <2>3 DEF WInv, WritePlace, Items
    <2>5. Truth'
      BY <1>t, <2>1, <2>2, <2>4 DEF WritePlace, WInv, Truth, Underway
    <2> QED BY <1>t, <2>1, <2>4, <2>5 DEF WInv
  <1> QED BY <1>1, <1>2, <1>3, <1>4

LEMMA InsertStep ==
  ASSUME WInv,
         BeginInsert \/ (\E n \in 0..Len(Items) : ExecuteInsert(n)) \/ RollBack \/ Commit
  PROVE  WInv'
  <1>t. /\ Len(Items) \in Nat /\ write.count \in Nat /\ onTheWay \in Nat
        /\ write.sink \in {"post", "keyed post", "transactional", "plain"}
    BY ItemsAre, RemoteConstants DEF WInv, Write
  <1>w. write \in Write
    BY DEF WInv
  <1>1. CASE BeginInsert
    <2>1. /\ write.at = "begin" /\ write.count = 0 /\ rowsKept = <<>> /\ onTheWay = 0
          /\ pending = <<>> /\ write.says = "none" /\ write.next = "none"
          /\ UNCHANGED <<onTheWay, pending, rowsKept>>
      BY <1>1, FirstZero DEF BeginInsert, WInv, WritePlace, WriteAt, serverVars
    <2>2. CASE write' = [write EXCEPT !.at = "insert"]
      <3>1. write' \in Write /\ write'.at = "insert" /\ write'.items = write.items /\ write'.count = 0
            /\ write'.says = "none" /\ write'.next = write.next
        BY <1>w, <2>1, <2>2 DEF Write
      <3> QED BY <1>t, <2>1, <3>1, FirstZero DEF WInv, WritePlace, Truth, Items
    <2>3. ASSUME NEW verdict \in {"raised", "written", "not committed"}, Says(verdict, "none"),
                 verdict = "written" => Items = <<>>
          PROVE  WInv'
      <3>1. write' \in Write /\ write'.at = "over" /\ write'.items = write.items /\ write'.count = 0
            /\ write'.says = verdict /\ write'.next = "none"
        BY <1>w, <2>1, <2>3 DEF Write, Says
      <3>2. WritePlace'
        BY <1>t, <2>1, <3>1, FirstZero DEF WritePlace, Items, Underway
      <3>3. verdict = "written" => Len(write'.items) = 0
        BY <2>3, <3>1 DEF Items
      <3>4. Truth'
        BY <1>t, <2>1, <2>3, <3>1, <3>3, FirstZero DEF Truth, Items
      <3> QED BY <1>t, <2>1, <3>1, <3>2, <3>4 DEF WInv
    <2> QED BY <1>1, <2>2, <2>3 DEF BeginInsert
  <1>2. ASSUME NEW n \in 0..Len(Items), ExecuteInsert(n) PROVE WInv'
    <2>1. /\ write.at = "insert" /\ write.count = 0 /\ rowsKept = <<>> /\ onTheWay = 0
          /\ pending = <<>> /\ write.says = "none" /\ write.next = "none"
          /\ UNCHANGED onTheWay
      BY <1>2, FirstZero DEF ExecuteInsert, WInv, WritePlace, WriteAt
    <2>2. IF write.sink = "plain" THEN rowsKept' = First(n) /\ pending' = <<>>
          ELSE pending' = First(n) /\ rowsKept' = <<>>
      BY <1>2, <2>1 DEF ExecuteInsert, First
    <2>l. Len(Items) \in Nat
      BY <1>t
    <2>n. n \in Nat
      BY <2>l
    <2>3. First(n) \o <<>> = First(n) /\ <<>> \o First(n) = First(n)
      BY <2>n, FirstIs
    <2>4. PICK place \in {"roll back", "commit"} :
            /\ place = "commit" => n = Len(Items)
            /\ write' = [write EXCEPT !.at = place]
      BY <1>2 DEF ExecuteInsert
    <2>5. write' \in Write /\ write'.at = place /\ write'.items = write.items
          /\ write'.count = 0 /\ write'.sink = write.sink
          /\ write'.says = "none" /\ write'.next = write.next
      BY <1>w, <2>1, <2>4 DEF Write
    <2>6. place = "commit" => rowsKept' \o pending' = First(Len(write'.items))
      BY <2>2, <2>3, <2>4, <2>5 DEF Items
    <2>s. place \in {"roll back", "commit"} /\ (write.sink # "plain" => rowsKept' = <<>>)
      BY <2>2, <2>4
    <2>8. WritePlace'
      <3>0. write'.count = 0 /\ write'.items = Items
        BY <2>5 DEF Items
      <3>1. write'.count <= Len(write'.items)
        <4>1. Len(write'.items) \in Nat
          BY <2>l, <3>0
        <4> QED BY <3>0, <4>1, ZeroLeast, Zenon
      <3>2. CASE place = "commit"
        BY <2>1, <2>5, <2>6, <3>1, <3>2 DEF WritePlace, Items
      <3>3. CASE place = "roll back"
        BY <2>1, <2>s, <2>5, <3>1, <3>3 DEF WritePlace, Items
      <3> QED BY <2>s, <3>2, <3>3
    <2>7. Truth'
      BY <2>5 DEF Truth
    <2> QED BY <1>t, <2>1, <2>5, <2>8, <2>7 DEF WInv
  <1>3. CASE RollBack
    <2>1. /\ write.at = "roll back" /\ onTheWay = 0 /\ (write.sink # "plain" => rowsKept = <<>>)
          /\ write.says = "none" /\ write.count <= Len(Items)
          /\ UNCHANGED <<onTheWay, rowsKept>>
      BY <1>3 DEF RollBack, WInv, WritePlace, WriteAt
    <2>2. PICK verdict \in {"not committed", "unknown"} :
            Says(verdict, "none") /\ (verdict = "not committed" => write.sink = "transactional")
      BY <1>3 DEF RollBack
    <2>3. write' \in Write /\ write'.at = "over" /\ write'.items = write.items
          /\ write'.count = write.count /\ write'.says = verdict /\ write'.next = "none"
      BY <1>w, <2>1, <2>2 DEF Write, Says
    <2> QED BY <1>t, <2>1, <2>2, <2>3 DEF WInv, WritePlace, Truth, Items
  <1>4. CASE Commit
    <2>1. /\ write.at = "commit" /\ onTheWay = 0 /\ rowsKept \o pending = First(Len(Items))
          /\ write.says = "none" /\ write.count <= Len(Items)
          /\ UNCHANGED onTheWay
      BY <1>4 DEF Commit, WInv, WritePlace, WriteAt
    <2>2. PICK verdict \in {"written", "unknown"} :
            Says(verdict, "none") /\ (verdict = "written" => rowsKept' = rowsKept \o pending)
      BY <1>4 DEF Commit
    <2>3. write' \in Write /\ write'.at = "over" /\ write'.items = write.items
          /\ write'.count = write.count /\ write'.says = verdict /\ write'.next = "none"
      BY <1>w, <2>1, <2>2 DEF Write, Says
    <2> QED BY <1>t, <2>1, <2>2, <2>3 DEF WInv, WritePlace, Truth, Items
  <1> QED BY <1>1, <1>2, <1>3, <1>4

\* What a connector says of a write is true and stays true, for any input and budget,
\* also when a request is carried out after the call has ended (write_records,
\* write_batch).
THEOREM WriteIsTrue == RemoteSpec => []WriteTruth
  <1>1. WInv /\ [RemoteNext]_remoteVars => WInv'
    <2> SUFFICES ASSUME WInv, [RemoteNext]_remoteVars PROVE WInv'
      OBVIOUS
    <2>1. CASE RequestPage \/ UNCHANGED remoteVars
      BY <2>1, ZenonT(60) DEF RequestPage, remoteVars, WInv, WritePlace, Truth, Underway, Items
    <2> QED BY <2>1, PostStep, InsertStep DEF RemoteNext
  <1>2. WInv => WriteTruth
    BY DEF WInv, Truth, WritePlace, Underway, WriteTruth, First
  <1> QED BY <1>1, <1>2, WriteInit, PTL DEF RemoteSpec

-----------------------------------------------------------------------------

Fetch == [mode : Modes, total : Nat, pages : Nat, position : Nat, seen : SUBSET Nat,
          out : Seq(Nat), at : {"ask", "done", "failed"}]

\* Where a reading is, the position says what has been given out.
FetchPlace ==
    /\ fetch.at = "ask" /\ fetch.mode = "none" => fetch.out = <<>>
    /\ fetch.at = "ask" /\ fetch.mode \in {"page", "cursor"} =>
         fetch.out = First(IF fetch.position <= fetch.total THEN fetch.position ELSE fetch.total)
    /\ fetch.at = "ask" => 0 \notin fetch.seen
    /\ fetch.at = "done" => fetch.out = First(fetch.total)

FInv == fetch \in Fetch /\ FetchPlace

LEMMA Limits == PageSize \in Nat /\ PageSize > 0 /\ ReadBudget \in Nat /\ ReadBudget > 0
  <1>1. PageSize \in Nat \ {0} /\ ReadBudget \in Nat \ {0}
    BY RemoteConstants, Zenon
  <1> QED BY <1>1

LEMMA MinTwo ==
  ASSUME NEW a \in Nat, NEW b \in Nat
  PROVE  Min({a, b}) = IF a <= b THEN a ELSE b
  <1>1. \E x \in {a, b} : \A y \in {a, b} : x <= y
    <2>1. CASE a <= b
      BY <2>1
    <2>2. CASE b <= a
      BY <2>2
    <2> QED BY <2>1, <2>2
  <1>2. Min({a, b}) \in {a, b} /\ \A y \in {a, b} : Min({a, b}) <= y
    BY <1>1 DEF Min
  <1> QED BY <1>2

LEMMA FirstMore ==
  ASSUME NEW p \in Nat, NEW k \in Nat
  PROVE  First(p) \o [i \in 1..k |-> p + i] = First(p + k)
  <1> DEFINE more == [i \in 1..k |-> p + i]
  <1>1. First(p) \in Seq(Nat) /\ Len(First(p)) = p /\ \A i \in 1..p : First(p)[i] = i
    BY FirstIs
  <1>2. more \in Seq(Nat) /\ Len(more) = k /\ \A i \in 1..k : more[i] = p + i
    OBVIOUS
  <1>3. p + k \in Nat
    OBVIOUS
  <1>4. First(p + k) \in Seq(Nat) /\ Len(First(p + k)) = p + k
        /\ \A i \in 1..(p + k) : First(p + k)[i] = i
    BY <1>3, FirstIs
  <1> HIDE DEF more
  <1>5. First(p) \o more \in Seq(Nat) /\ Len(First(p) \o more) = p + k
        /\ \A i \in 1..(p + k) : (First(p) \o more)[i] = i
    BY <1>1, <1>2
  <1>6. First(p) \o more = First(p + k)
    <2> DEFINE a == First(p) \o more
    <2> HIDE DEF a
    <2>1. a \in Seq(Nat) /\ Len(a) = p + k /\ \A i \in 1..(p + k) : a[i] = i
      BY <1>5 DEF a
    <2>2. a = [i \in 1..(p + k) |-> a[i]]
      BY <2>1
    <2>3. [i \in 1..(p + k) |-> a[i]] = [i \in 1..(p + k) |-> i]
      BY <2>1
    <2>4. a = First(p + k)
      BY <2>2, <2>3, Zenon DEF First
    <2> QED BY <2>4 DEF a
  <1> QED BY <1>6 DEF more

LEMMA PageIs ==
  ASSUME NEW p \in Nat, fetch.total \in Nat
  PROVE  LET past == IF p <= fetch.total THEN p ELSE fetch.total
             upto == IF p + PageSize <= fetch.total THEN p + PageSize ELSE fetch.total
         IN /\ PageFrom(p) \in Seq(Nat)
            /\ PageFrom(p) = <<>> => past = fetch.total
            /\ First(past) \o PageFrom(p) = First(upto)
  <1> DEFINE t == fetch.total
             past == IF p <= t THEN p ELSE t
             upto == IF p + PageSize <= t THEN p + PageSize ELSE t
             k == IF PageSize <= t - past THEN PageSize ELSE t - past
  <1>1. PageSize \in Nat /\ PageSize > 0
    BY Limits
  <1>2. Min({p, t}) = past /\ past \in Nat /\ t - past \in Nat
    BY MinTwo
  <1>3. Min({PageSize, t - past}) = k /\ k \in Nat
    BY <1>1, <1>2, MinTwo
  <1>4. PageFrom(p) = [i \in 1..k |-> p + i]
    BY <1>2, <1>3 DEF PageFrom
  <1>5. CASE p <= t
    <2>1. past = p /\ past + k = upto
      BY <1>1, <1>5
    <2>2. First(past) \o PageFrom(p) = First(upto)
      <3> HIDE DEF past, upto, k
      <3>1. PageFrom(p) = [i \in 1..k |-> past + i]
        BY <1>4, <2>1
      <3>2. First(past) \o [i \in 1..k |-> past + i] = First(past + k)
        BY <1>2, <1>3, FirstMore
      <3> QED BY <2>1, <3>1, <3>2
    <2>3. k = 0 => past = t
      BY <1>1, <1>2
    <2>4. PageFrom(p) = <<>> => k = 0
      BY <1>3, <1>4
    <2>5. PageFrom(p) \in Seq(Nat)
      BY <1>3, <1>4
    <2> QED BY <2>2, <2>3, <2>4, <2>5
  <1>6. CASE ~(p <= t)
    <2>1. past = t /\ k = 0 /\ upto = t
      BY <1>1, <1>6
    <2>2. PageFrom(p) = <<>>
      BY <1>4, <2>1
    <2>3. First(past) \o <<>> = First(past)
      BY <1>2, FirstIs
    <2> QED BY <2>1, <2>2, <2>3
  <1> QED BY <1>5, <1>6

LEMMA FetchInit == RemoteInit => FInv
  <1> SUFFICES ASSUME RemoteInit PROVE FInv
    OBVIOUS
  <1>1. fetch \in [mode : Modes, total : Totals, pages : {0}, position : {0}, seen : {{}},
                  out : {<<>>}, at : {"ask"}]
    BY DEF RemoteInit
  <1>2. 0 \in Nat /\ {} \in SUBSET Nat /\ <<>> \in Seq(Nat) /\ Totals \subseteq Nat
    <2>1. Totals \subseteq Nat
      BY RemoteConstants, Zenon
    <2> QED BY <2>1
  <1>3. fetch \in Fetch
    BY <1>1, <1>2, Zenon DEF Fetch
  <1>4. fetch.position = 0 /\ fetch.seen = {} /\ fetch.out = <<>> /\ fetch.at = "ask"
    BY <1>1
  <1>5. fetch.total \in Nat
    BY <1>3 DEF Fetch
  <1>6. First(IF fetch.position <= fetch.total THEN fetch.position ELSE fetch.total) = <<>>
    BY <1>4, <1>5, FirstZero
  <1>7. FetchPlace
    BY <1>4, <1>6 DEF FetchPlace
  <1> QED BY <1>3, <1>7 DEF FInv

LEMMA FetchStep ==
  ASSUME FInv, RequestPage
  PROVE  FInv'
  <1> DEFINE page == IF fetch.mode = "none" THEN [i \in 1..fetch.total |-> i]
                     ELSE PageFrom(fetch.position)
             given == [fetch EXCEPT !.pages = @ + 1, !.out = @ \o page]
             past == IF fetch.position <= fetch.total THEN fetch.position ELSE fetch.total
             upto == IF fetch.position + PageSize <= fetch.total
                     THEN fetch.position + PageSize ELSE fetch.total
             after(place) == IF given.pages = MaxPages /\ place = "ask" THEN PageLimit ELSE place
  <1>f. fetch \in Fetch
    BY DEF FInv
  <1>t. /\ fetch.total \in Nat /\ fetch.position \in Nat /\ fetch.pages \in Nat
        /\ fetch.out \in Seq(Nat) /\ fetch.seen \subseteq Nat
        /\ fetch.mode \in Modes
    BY <1>f DEF Fetch
  <1>c. PageSize \in Nat /\ PageSize > 0 /\ ReadBudget \in Nat /\ ReadBudget > 0
    BY Limits
  <1>p. /\ fetch.at = "ask" /\ 0 \notin fetch.seen
        /\ fetch.mode = "none" => fetch.out = <<>>
        /\ fetch.mode \in {"page", "cursor"} => fetch.out = First(past)
    BY DEF RequestPage, FInv, FetchPlace, FetchAt
  <1>g. fetch.mode # "none" =>
          /\ PageFrom(fetch.position) \in Seq(Nat)
          /\ PageFrom(fetch.position) = <<>> => past = fetch.total
          /\ First(past) \o PageFrom(fetch.position) = First(upto)
    BY <1>t, PageIs
  <1>n. fetch.mode = "none" =>
          /\ page = First(fetch.total) /\ page \in Seq(Nat)
          /\ page = <<>> => fetch.total = 0
          /\ fetch.out \o page = First(fetch.total)
    <2>1. First(fetch.total) \in Seq(Nat) /\ Len(First(fetch.total)) = fetch.total
          /\ <<>> \o First(fetch.total) = First(fetch.total)
      BY <1>t, FirstIs
    <2>2. fetch.mode = "none" => page = First(fetch.total)
      BY DEF First
    <2> QED BY <1>t, <1>p, <2>1, <2>2, SMTT(30)
  <1>s. page \in Seq(Nat)
    BY <1>g, <1>n
  <1>o. fetch.out \o page \in Seq(Nat) /\ fetch.pages + 1 \in Nat
    BY <1>t, <1>s
  <1>m. fetch.mode \in {"page", "cursor"} => fetch.out \o page = First(upto)
    BY <1>p, <1>g
  <1>v. /\ given \in Fetch /\ given.mode = fetch.mode /\ given.total = fetch.total
        /\ given.out = fetch.out \o page /\ given.position = fetch.position
        /\ given.seen = fetch.seen /\ given.at = "ask" /\ given.pages = fetch.pages + 1
    BY <1>f, <1>o, <1>p DEF Fetch
  <1>a. after("ask") \in {"ask", "failed"}
    BY DEF PageLimit
  <1> HIDE DEF page, given, after
  <1>1. CASE fetch' = [fetch EXCEPT !.at = "failed"]
    <2>1. fetch' \in Fetch /\ fetch'.at = "failed"
      BY <1>f, <1>1 DEF Fetch
    <2> QED BY <2>1 DEF FInv, FetchPlace
  <1>2. CASE page = <<>> /\ fetch' = [fetch EXCEPT !.at = "done"]
    <2>1. /\ fetch' \in Fetch /\ fetch'.at = "done" /\ fetch'.out = fetch.out
          /\ fetch'.total = fetch.total
      BY <1>f, <1>2 DEF Fetch
    <2>2. fetch.mode \in {"none", "page", "cursor"} => fetch.out = First(fetch.total)
      BY <1>2, <1>p, <1>g, <1>n, FirstZero DEF page
    <2> QED BY <2>1, <2>2, RemoteConstants, <1>t DEF FInv, FetchPlace
  <1>3. CASE fetch' = [given EXCEPT !.at = "failed", !.out = SubSeq(@, 1, ReadBudget)]
             /\ Len(given.out) > ReadBudget
    <2>1. SubSeq(given.out, 1, ReadBudget) \in Seq(Nat)
      <3>1. given.out \in Seq(Nat)
        BY <1>o, <1>v
      <3> QED BY <1>c, <1>3, <3>1
    <2>2. fetch' \in Fetch /\ fetch'.at = "failed"
      BY <1>3, <1>v, <2>1 DEF Fetch
    <2> QED BY <2>2 DEF FInv, FetchPlace
  <1>4. CASE fetch.mode = "none" /\ fetch' = [given EXCEPT !.at = "done"]
    <2>1. /\ fetch' \in Fetch /\ fetch'.at = "done" /\ fetch'.out = fetch.out \o page
          /\ fetch'.total = fetch.total
      BY <1>4, <1>v DEF Fetch
    <2> QED BY <1>4, <1>n, <2>1 DEF FInv, FetchPlace
  <1>5. CASE fetch.mode = "page"
             /\ fetch' = [given EXCEPT !.at = after("ask"), !.position = @ + PageSize]
    <2>0. fetch.position + PageSize \in Nat
      BY <1>t, <1>c
    <2>1. /\ fetch' \in Fetch /\ fetch'.at \in {"ask", "failed"} /\ fetch'.out = fetch.out \o page
          /\ fetch'.total = fetch.total /\ fetch'.position = fetch.position + PageSize
          /\ fetch'.seen = fetch.seen /\ fetch'.mode = "page"
      BY <1>5, <1>a, <1>v, <2>0 DEF Fetch
    <2>2. FetchPlace'
      BY <1>5, <1>p, <1>m, <2>1 DEF FetchPlace
    <2> QED BY <2>1, <2>2 DEF FInv
  <1>6. ASSUME fetch.mode = "cursor", NEW next \in NextCursors(fetch.position),
               fetch' = [given EXCEPT
                           !.at = IF next = 0 THEN "done"
                                  ELSE IF next \in fetch.seen THEN "failed"
                                  ELSE after("ask"),
                           !.position = next, !.seen = @ \cup {next}]
        PROVE  FInv'
    <2>1. next \in Nat /\ (next \notin fetch.seen =>
            IF fetch.position + PageSize < fetch.total
            THEN next = fetch.position + PageSize ELSE next = 0)
      BY <1>t, <1>c, <1>6 DEF NextCursors
    <2>2. fetch.seen \cup {next} \in SUBSET Nat
      BY <1>t, <2>1
    <2>3. /\ fetch' \in Fetch /\ fetch'.out = fetch.out \o page
          /\ fetch'.total = fetch.total /\ fetch'.position = next
          /\ fetch'.seen = fetch.seen \cup {next} /\ fetch'.mode = "cursor"
          /\ fetch'.at = (IF next = 0 THEN "done" ELSE IF next \in fetch.seen THEN "failed"
                          ELSE after("ask"))
      BY <1>6, <1>a, <1>v, <2>1, <2>2 DEF Fetch
    <2>4. CASE next = 0
      <3>1. fetch'.at = "done" /\ ~(fetch.position + PageSize < fetch.total)
        BY <1>p, <1>t, <1>c, <2>1, <2>3, <2>4
      <3>2. upto = fetch.total
        BY <1>t, <1>c, <3>1
      <3> QED BY <1>m, <1>6, <2>3, <3>1, <3>2 DEF FInv, FetchPlace
    <2>5. CASE next # 0 /\ next \in fetch.seen
      BY <2>3, <2>5 DEF FInv, FetchPlace
    <2>6. CASE next # 0 /\ next \notin fetch.seen
      <3>1. fetch.position + PageSize < fetch.total /\ next = fetch.position + PageSize
        BY <2>1, <2>6
      <3>2. upto = next /\ next <= fetch.total
        BY <1>t, <1>c, <3>1
      <3>3. fetch'.at \in {"ask", "failed"} /\ 0 \notin fetch'.seen
        BY <1>a, <1>p, <2>3, <2>6
      <3>4. fetch'.out = First(IF fetch'.position <= fetch'.total THEN fetch'.position ELSE fetch'.total)
        BY <1>m, <1>6, <2>3, <3>2
      <3>5. FetchPlace'
        BY <2>3, <3>3, <3>4 DEF FetchPlace
      <3> QED BY <2>3, <3>5 DEF FInv
    <2> QED BY <2>4, <2>5, <2>6
  <1> QED BY <1>1, <1>2, <1>3, <1>4, <1>5, <1>6 DEF RequestPage, page, given, after

\* A paged read that ends well has given out each record of the server's
\* collection once and in order, whether by page or by cursor, for any
\* collection, page size, page limit and budget
\* (HttpJsonSourceConnector.iter_records).
THEOREM PagesAreRead == RemoteSpec => []PagesRead
  <1>1. FInv /\ [RemoteNext]_remoteVars => FInv'
    <2> SUFFICES ASSUME FInv, [RemoteNext]_remoteVars PROVE FInv'
      OBVIOUS
    <2>1. CASE RequestPage
      BY <2>1, FetchStep
    <2>2. CASE UNCHANGED fetch
      BY <2>2 DEF FInv, FetchPlace
    <2>3. RequestPage \/ UNCHANGED fetch
      BY DEF RemoteNext, remoteVars, serverVars, BeginPost, TakeRecord, Answer, ServerActs,
             BeginInsert, ExecuteInsert, RollBack, Commit
    <2> QED BY <2>1, <2>2, <2>3
  <1>2. FInv => PagesRead
    BY DEF FInv, FetchPlace, PagesRead, FetchAt, First
  <1> QED BY <1>1, <1>2, FetchInit, PTL DEF RemoteSpec

-----------------------------------------------------------------------------
(***************************************************************************)
(* The mapping. A report is what the preflight of its file comes to        *)
(* (ReportTrue), and what a promotable preflight scanned is what the       *)
(* delivery writes, row for row. That nothing unsafe is mapped by itself   *)
(* takes the evidence of each decision: an automatic one is decisive, so   *)
(* that no model's score can change it, its contract is safe, its target   *)
(* is named, and after the contested ones are taken back no two have the   *)
(* same target (MapInv).                                                   *)
(***************************************************************************)

\* A report is what the preflight of the file it is about comes to.
ReportTrue ==
    /\ step # "checked" => ~report.promotable
    /\ step = "checked" =>
         /\ report = Preflight(file, caps, resolver, plan, sourceSchema, targetSchema)
         /\ file \in Files /\ caps \in Caps /\ resolver \in Resolvers

LEMMA ReportStarts == RouteInit => ReportTrue
  BY DEF RouteInit, ReportTrue, NoReport

LEMMA ReportSteps == ReportTrue /\ [RouteNext]_routeVars => ReportTrue'
  <1> SUFFICES ASSUME ReportTrue, [RouteNext]_routeVars PROVE ReportTrue'
    OBVIOUS
  <1>1. ASSUME NEW evidence, NEW glossary, DecideField(evidence, glossary) PROVE ReportTrue'
    <2>1. step = "decide" /\ step' \in {"decide", "decided"} /\ UNCHANGED report
      BY <1>1 DEF DecideField
    <2> QED BY <2>1 DEF ReportTrue
  <1>2. ASSUME NEW s, NEW t, ReviewField(s, t) PROVE ReportTrue'
    BY <1>2 DEF ReviewField, ReportTrue
  <1>3. CASE Build
    <2>1. step = "decided" /\ step' \in {"raised", "built"} /\ UNCHANGED report
      BY <1>3 DEF Build
    <2> QED BY <2>1 DEF ReportTrue
  <1>4. ASSUME NEW other, SchemaDrifts(other) PROVE ReportTrue'
    BY <1>4 DEF SchemaDrifts, ReportTrue
  <1>5. ASSUME NEW f \in Files, NEW cap \in Caps, NEW probe \in Resolvers, Check(f, cap, probe) PROVE ReportTrue'
    <2>1. /\ file' = f /\ caps' = cap /\ resolver' = probe /\ step' = "checked"
          /\ report' = Preflight(f, cap, probe, plan, sourceSchema, targetSchema)
          /\ UNCHANGED <<sourceSchema, targetSchema, plan>>
      BY <1>5 DEF Check
    <2>2. report' = Preflight(file', caps', resolver', plan', sourceSchema', targetSchema')
      BY <2>1
    <2> QED BY <1>5, <2>1, <2>2 DEF ReportTrue
  <1>6. CASE UNCHANGED routeVars
    BY <1>6 DEF routeVars, ReportTrue
  <1> QED BY <1>1, <1>2, <1>3, <1>4, <1>5, <1>6 DEF RouteNext

-----------------------------------------------------------------------------
\* A value in which nothing is found is delivered.
LEMMA ValueDelivered ==
  ASSUME NEW rule, NEW s, NEW t, NEW value, NEW probe,
         ValueFindings(rule, s, t, value, probe) \cap {"blocking", "review"} = {},
         ~Sealed(s), probe # "absent"
  PROVE  Delivered(rule, s, t, value, probe)
  <1> DEFINE fit(v, ty) == Fits(v, ty)
  <1>1. CASE value \in Null
    <2>1. t.nullable
      BY <1>1 DEF ValueFindings
    <2>2. Applied(rule.transform, value) \in Null
      BY <1>1 DEF Applied, Null
    <2> QED BY <1>1, <2>1, <2>2 DEF Delivered, Null
  <1>2. CASE value \notin Null /\ rule.transform # "lookup_foreign_key"
    <2>1. Applied(rule.transform, value) # "error"
      BY <1>2 DEF ValueFindings, Null
    <2>2. CASE Applied(rule.transform, value) = "null"
      <3>1. t.nullable
        BY <1>2, <2>2 DEF ValueFindings, Null
      <3> QED BY <1>2, <2>1, <2>2, <3>1 DEF Delivered, Null
    <2>3. CASE Applied(rule.transform, value) # "null"
      <3>1. Fits(Applied(rule.transform, value), t.type)
        BY <1>2, <2>1, <2>3 DEF ValueFindings, Null
      <3>2. Applied(rule.transform, value) \notin Null
        BY <1>2, <2>3 DEF Applied, Null
      <3> QED BY <1>2, <2>1, <3>1, <3>2 DEF Delivered
    <2> QED BY <2>2, <2>3
  <1>3. CASE value \notin Null /\ rule.transform = "lookup_foreign_key"
    <2>1. probe # "missing"
      BY <1>3 DEF ValueFindings, Null
    <2>2. /\ Fits(value, t.lookup) /\ probe # "fails" /\ probe # "null"
          /\ Fits(probe, t.type)
      BY <1>3, <2>1 DEF ValueFindings, Null
    <2> QED BY <1>3, <2>1, <2>2 DEF Delivered, Null
  <1> QED BY <1>1, <1>2, <1>3

-----------------------------------------------------------------------------
LEMMA RouteMinTwo ==
  ASSUME NEW a \in Int, NEW b \in Int
  PROVE  Min({a, b}) = IF a <= b THEN a ELSE b
  <1>1. \E x \in {a, b} : \A y \in {a, b} : x <= y
    <2>1. CASE a <= b
      BY <2>1
    <2>2. CASE b <= a
      BY <2>2
    <2> QED BY <2>1, <2>2
  <1>2. Min({a, b}) \in {a, b} /\ \A y \in {a, b} : Min({a, b}) <= y
    BY <1>1 DEF Min
  <1> QED BY <1>2

LEMMA RouteMaxTwo ==
  ASSUME NEW a \in Int, NEW b \in Int
  PROVE  Max({a, b}) = IF a >= b THEN a ELSE b
  <1>1. \E x \in {a, b} : \A y \in {a, b} : x >= y
    <2>1. CASE a >= b
      BY <2>1
    <2>2. CASE b >= a
      BY <2>2
    <2> QED BY <2>1, <2>2
  <1>2. Max({a, b}) \in {a, b} /\ \A y \in {a, b} : Max({a, b}) >= y
    BY <1>1 DEF Max
  <1> QED BY <1>2

LEMMA LeastOfThree ==
  ASSUME NEW a \in Int, NEW b \in Int, NEW c \in Int, c <= a, c <= b
  PROVE  Min({a, b, c}) = c
  <1>1. \E x \in {a, b, c} : \A y \in {a, b, c} : x <= y
    OBVIOUS
  <1>2. Min({a, b, c}) \in {a, b, c} /\ \A y \in {a, b, c} : Min({a, b, c}) <= y
    BY <1>1 DEF Min
  <1> QED BY <1>2

\* A scan that is complete reads and checks every record of its file.
LEMMA ScanIsWhole ==
  ASSUME NEW f \in Files, NEW cap \in Caps, CompleteScan(f, cap)
  PROVE  /\ f.breaks = 0 /\ ~Broken(f, cap)
         /\ CheckedRecords(f, cap) = Len(f.records) /\ Len(f.records) \in Nat
  <1>1. f.records \in Seq(Range(f.records)) /\ f.breaks \in 0..Len(f.records) + 1
    BY RouteConstants
  <1>2. Len(f.records) \in Nat
    BY <1>1
  <1>3. PICK n : n = Len(f.records)
    OBVIOUS
  <1>4. cap.records \in Nat /\ cap.input \in Nat /\ NoCap \in Nat
    BY RouteConstants
  <1>5. n <= cap.records /\ n <= cap.input /\ ~Broken(f, cap)
    <2>1. n <= Min({cap.records, cap.input}) /\ ~Broken(f, cap)
      BY <1>3 DEF CompleteScan
    <2> QED BY <2>1, <1>2, <1>3, <1>4, RouteMinTwo
  <1>6. AskedFor(f, cap) = n + 1
    <2>1. PICK m : m = IF cap.input # NoCap THEN cap.input + 1 ELSE cap.records + 1
      OBVIOUS
    <2>2. m \in Int /\ n + 1 \in Int /\ n + 1 <= m
      BY <1>2, <1>3, <1>4, <1>5, <2>1
    <2>3. AskedFor(f, cap) = Min({n + 1, m})
      BY <1>3, <2>1 DEF AskedFor
    <2> QED BY <2>2, <2>3, RouteMinTwo
  <1>7. f.breaks = 0
    <2>1. f.breaks \in 0..n + 1 /\ f.breaks \notin 1..n + 1
      BY <1>1, <1>3, <1>5, <1>6 DEF Broken
    <2> QED BY <1>2, <1>3, <2>1
  <1>8. CheckedRecords(f, cap) = n
    <2>1. CheckedRecords(f, cap) = Min({cap.records, cap.input, n})
      BY <1>3, <1>5 DEF CheckedRecords
    <2> QED BY <1>2, <1>3, <1>4, <1>5, <2>1, LeastOfThree
  <1> QED BY <1>2, <1>3, <1>5, <1>7, <1>8


\* What a promotable report rules out.
LEMMA PromotableMeans ==
  ASSUME NEW f \in Files, NEW cap \in Caps, NEW probe, NEW p, NEW sources, NEW targets,
         Preflight(f, cap, probe, p, sources, targets).promotable
  PROVE  /\ Validate(p, sources, targets) \cap {"blocking", "unmapped", "review"} = {}
         /\ CompleteScan(f, cap) /\ f.breaks = 0 /\ f.records # <<>>
         /\ \A i \in DOMAIN f.records :
              RecordFindings(f.records[i], p, sources, targets, probe)
                \cap {"blocking", "review"} = {}
  <1> DEFINE planned == Validate(p, sources, targets)
             checked == CheckedRecords(f, cap)
             found == (UNION {RecordFindings(f.records[i], p, sources, targets, probe) :
                                i \in 1..checked})
                      \cup (IF Broken(f, cap) \/ InputExceeded(f, cap)
                            THEN {"blocking"} ELSE {})
                      \cup (IF checked = 0 \/ f.formulas THEN {"review"} ELSE {})
             valid == planned \cap {"blocking", "unmapped"} = {} /\ "blocking" \notin found
  <1>1. Preflight(f, cap, probe, p, sources, targets).promotable =
          (valid /\ "review" \notin planned \cup found /\ CompleteScan(f, cap) /\ checked > 0)
    BY DEF Preflight
  <1>2. /\ planned \cap {"blocking", "unmapped"} = {} /\ "blocking" \notin found
        /\ "review" \notin planned \cup found /\ CompleteScan(f, cap) /\ checked > 0
    BY <1>1
  <1>3. f.breaks = 0 /\ checked = Len(f.records) /\ Len(f.records) \in Nat
    BY <1>2, ScanIsWhole
  <1>4. f.records \in Seq(Range(f.records))
    BY RouteConstants
  <1>5. f.records # <<>> /\ DOMAIN f.records = 1..checked
    BY <1>2, <1>3, <1>4
  <1>6. ASSUME NEW i \in DOMAIN f.records
        PROVE  RecordFindings(f.records[i], p, sources, targets, probe)
                 \cap {"blocking", "review"} = {}
    <2>1. RecordFindings(f.records[i], p, sources, targets, probe) \subseteq found
      <3> HIDE DEF checked
      <3>1. i \in 1..checked
        BY <1>5
      <3> QED BY <3>1
    <2> QED BY <1>2, <2>1
  <1> QED BY <1>2, <1>3, <1>5, <1>6

\* Rules in which the validator finds nothing write every required field, once.
LEMMA RequiredIsWritten ==
  ASSUME NEW p, NEW sources, NEW targets, DOMAIN p.rules \subseteq Nat,
         Validate(p, sources, targets) \cap {"blocking", "unmapped"} = {},
         NEW t \in DOMAIN targets, ~targets[t].nullable, ~targets[t].generated
  PROVE  Cardinality({j \in DOMAIN p.rules : p.rules[j].target = t}) = 1
  <1> DEFINE S == {j \in DOMAIN p.rules : p.rules[j].target = t}
             duplicate(i) == \E j \in DOMAIN p.rules : j < i /\ p.rules[j].target = p.rules[i].target
             targeted == {p.rules[i].target : i \in DOMAIN p.rules}
             each(i) == IF duplicate(i) THEN {"blocking"}
                        ELSE RuleFindings(p.rules[i], sources, targets)
             missing == IF \E u \in DOMAIN targets \ targeted :
                              ~targets[u].nullable /\ ~targets[u].generated
                        THEN {"unmapped"} ELSE {}
  <1>1. Validate(p, sources, targets) =
          (UNION {each(i) : i \in DOMAIN p.rules})
          \cup (IF p.source # sources \/ p.target # targets THEN {"blocking"} ELSE {})
          \cup missing
    BY DEF Validate
  <1>2. t \in targeted
    <2>1. SUFFICES ASSUME t \notin targeted PROVE "unmapped" \in Validate(p, sources, targets)
      OBVIOUS
    <2>2. \E u \in DOMAIN targets \ targeted : ~targets[u].nullable /\ ~targets[u].generated
      BY <2>1
    <2> QED BY <2>2 DEF Validate
  <1>3. PICK j \in DOMAIN p.rules : p.rules[j].target = t
    BY <1>2
  <1>4. ASSUME NEW i \in DOMAIN p.rules PROVE ~duplicate(i)
    <2>1. each(i) \subseteq Validate(p, sources, targets)
      <3> HIDE DEF missing, each
      <3> QED BY <1>1
    <2>2. "blocking" \notin each(i)
      <3> HIDE DEF each
      <3> QED BY <2>1
    <2> QED BY <2>2
  <1>5. ASSUME NEW i \in S PROVE i = j
    <2>1. i \in Nat /\ j \in Nat /\ p.rules[i].target = p.rules[j].target
      BY <1>3
    <2>2. ~(i < j) /\ ~(j < i)
      BY <1>3, <1>4, <2>1
    <2> QED BY <2>1, <2>2
  <1>6. S = {j}
    BY <1>3, <1>5
  <1> QED BY <1>6, FS_Singleton

-----------------------------------------------------------------------------
\* What a true report of a promotable route promises.
LEMMA TrueReportDelivers ==
  ASSUME ReportTrue, DOMAIN plan.rules \subseteq Nat
  PROVE  PromotableDelivers
  <1> SUFFICES ASSUME report.promotable
               PROVE  /\ file.records # <<>> /\ file.breaks = 0
                      /\ \A i \in DOMAIN file.records, j \in DOMAIN plan.rules :
                           LET rule == plan.rules[j]
                               s == sourceSchema[rule.source]
                           IN Sealed(s) \/ Delivered(rule, s, targetSchema[rule.target],
                                             file.records[i].values[rule.source], resolver)
                      /\ \A t \in DOMAIN targetSchema :
                           \/ targetSchema[t].nullable \/ targetSchema[t].generated
                           \/ Cardinality({j \in DOMAIN plan.rules : plan.rules[j].target = t}) = 1
    BY DEF PromotableDelivers
  <1>1. /\ report = Preflight(file, caps, resolver, plan, sourceSchema, targetSchema)
        /\ file \in Files /\ caps \in Caps /\ resolver \in Resolvers
    BY DEF ReportTrue
  <1>2. /\ Validate(plan, sourceSchema, targetSchema) \cap {"blocking", "unmapped", "review"} = {}
        /\ file.breaks = 0 /\ file.records # <<>>
        /\ \A i \in DOMAIN file.records :
             RecordFindings(file.records[i], plan, sourceSchema, targetSchema, resolver)
               \cap {"blocking", "review"} = {}
    BY <1>1, PromotableMeans
  <1>3. resolver # "absent"
    BY <1>1, RouteConstants
  <1>4. ASSUME NEW i \in DOMAIN file.records, NEW j \in DOMAIN plan.rules,
               ~Sealed(sourceSchema[plan.rules[j].source])
        PROVE  Delivered(plan.rules[j], sourceSchema[plan.rules[j].source],
                         targetSchema[plan.rules[j].target],
                         file.records[i].values[plan.rules[j].source], resolver)
    <2> DEFINE found == ValueFindings(plan.rules[j], sourceSchema[plan.rules[j].source],
                         targetSchema[plan.rules[j].target],
                         file.records[i].values[plan.rules[j].source], resolver)
    <2>1. found \subseteq
            RecordFindings(file.records[i], plan, sourceSchema, targetSchema, resolver)
      BY <1>4 DEF RecordFindings
    <2>2. found \cap {"blocking", "review"} = {}
      BY <1>2, <2>1
    <2> QED BY <1>3, <1>4, <2>2, ValueDelivered
  <1>5. ASSUME NEW t \in DOMAIN targetSchema, ~targetSchema[t].nullable,
               ~targetSchema[t].generated
        PROVE  Cardinality({j \in DOMAIN plan.rules : plan.rules[j].target = t}) = 1
    BY <1>2, <1>5, RequiredIsWritten
  <1> QED BY <1>2, <1>4, <1>5


-----------------------------------------------------------------------------
(* The first of the best scores.                                           *)

\* Every non-empty set of natural numbers has a least element.
LEMMA LeastNumber ==
  ASSUME NEW T \in SUBSET Nat, T # {}
  PROVE  \E x \in T : \A y \in T : x <= y
  <1> DEFINE R == OpToRel(<, Nat)
  <1>1. IsWellFoundedOn(R, Nat)
    BY NatLessThanWellFounded
  <1>2. \A a, b \in Nat : a < b => <<a, b>> \in R
    BY DEF OpToRel
  <1> HIDE DEF R
  <1>3. PICK x \in T : \A y \in T : ~ (<<y, x>> \in R)
    BY <1>1, WFMin
  <1>4. ASSUME NEW y \in T, y < x PROVE FALSE
    <2>1. <<y, x>> \in R
      BY <1>2, <1>4
    <2> QED BY <1>3, <2>1
  <1>5. \A y \in T : x <= y
    BY <1>4
  <1> QED BY <1>5

\* Among the first n of some scores one is the first of the best.
LEMMA BestAmong ==
  ASSUME NEW f, NEW m \in Nat, \A i \in 1..m : f[i] \in Int,
         NEW n \in Nat, n >= 1, n <= m
  PROVE  \E t \in 1..n : \A u \in 1..n : f[t] > f[u] \/ (f[t] = f[u] /\ t <= u)
  <1> DEFINE Best(k, t) == \A u \in 1..k : f[t] > f[u] \/ (f[t] = f[u] /\ t <= u)
             Bad == {k \in Nat : k >= 1 /\ k <= m /\ ~ \E t \in 1..k : Best(k, t)}
  <1>1. SUFFICES Bad = {}
    OBVIOUS
  <1>2. SUFFICES ASSUME Bad # {} PROVE FALSE
    OBVIOUS
  <1>3. PICK k \in Bad : \A y \in Bad : k <= y
    <2>1. Bad \in SUBSET Nat
      OBVIOUS
    <2> HIDE DEF Bad
    <2> QED BY <1>2, <2>1, LeastNumber
  <1>4. k \in Nat /\ k >= 1 /\ k <= m /\ ~ \E t \in 1..k : Best(k, t)
    BY <1>3
  <1>5. CASE k = 1
    <2>1. 1 \in 1..m /\ 1..k = {1}
      BY <1>4, <1>5
    <2>2. Best(k, 1)
      BY <2>1
    <2> QED BY <1>4, <2>1, <2>2
  <1>6. CASE k # 1
    <2>1. k - 1 \in Nat /\ k - 1 >= 1 /\ k - 1 <= m /\ ~(k <= k - 1)
      BY <1>4, <1>6
    <2> HIDE DEF Bad
    <2>a. k - 1 \notin Bad
      BY <1>3, <2>1
    <2> USE DEF Bad
    <2>2. PICK t \in 1..k - 1 : Best(k - 1, t)
      <3> HIDE DEF Best
      <3> QED BY <2>1, <2>a
    <2>3. f[t] \in Int /\ f[k] \in Int /\ t \in 1..k /\ k \in 1..k
      BY <1>4, <2>1, <2>2
    <2>4. \A u \in 1..k : u \in 1..k - 1 \/ u = k
      BY <1>4
    <2>5. CASE f[t] >= f[k]
      <3>1. Best(k, t)
        BY <2>2, <2>3, <2>4, <2>5
      <3> QED BY <1>4, <2>3, <3>1
    <2>6. CASE f[t] < f[k]
      <3>1. ASSUME NEW u \in 1..k PROVE f[k] > f[u] \/ (f[k] = f[u] /\ k <= u)
        <4>1. CASE u = k
          BY <2>3, <4>1
        <4>2. CASE u \in 1..k - 1
          <5>1. f[u] \in Int
            BY <1>4, <4>2
          <5>2. f[t] >= f[u]
            BY <2>2, <2>3, <4>2, <5>1
          <5> QED BY <2>3, <2>6, <5>1, <5>2
        <4> QED BY <2>4, <4>1, <4>2
      <3> QED BY <1>4, <2>3, <3>1
    <2> QED BY <2>3, <2>5, <2>6
  <1> QED BY <1>5, <1>6

LEMMA WinnerIs ==
  ASSUME NEW n \in Nat, n >= 1, NEW f \in [1..n -> Int]
  PROVE  Winner(f) \in 1..n
  <1>1. \E t \in 1..n : \A u \in 1..n : f[t] > f[u] \/ (f[t] = f[u] /\ t <= u)
    <2>1. \A i \in 1..n : f[i] \in Int
      OBVIOUS
    <2>2. n <= n
      OBVIOUS
    <2> QED BY <2>1, <2>2, BestAmong
  <1>2. DOMAIN f = 1..n
    OBVIOUS
  <1> QED BY <1>1, <1>2 DEF Winner

\* Scores are numbers.
LEMMA ScoreIs ==
  ASSUME NEW s, NEW t, NEW name \in 0..100
  PROVE  DeterministicScore(s, t, name) \in Int
  <1> DEFINE relation == LookupKey(s, t, TRUE)
  <1>1. PICK tc : tc = TypeCompatibility(s.type, t.type)
    OBVIOUS
  <1>2. tc \in Int
    BY <1>1 DEF TypeCompatibility
  <1>3. PICK bonus : bonus = IF relation THEN 85 ELSE 0
    OBVIOUS
  <1>4. PICK rc : rc = IF s.role = t.role THEN 100 ELSE 55
    OBVIOUS
  <1>5. PICK type : type = Max({tc, bonus})
    OBVIOUS
  <1>6. PICK kind : kind = Max({rc, bonus})
    OBVIOUS
  <1>7. type \in Int /\ kind \in Int
    <2>1. bonus \in Int /\ rc \in Int
      BY <1>3, <1>4
    <2> QED BY <1>2, <1>5, <1>6, <2>1, RouteMaxTwo
  <1>8. PICK extra \in {0, 1200} : extra = IF relation THEN 1200 ELSE 0
    <2> HIDE DEF relation
    <2> QED OBVIOUS
  <1>9. PICK score : score = 68 * name + 22 * type + 10 * kind + extra
    OBVIOUS
  <1>11. Min({score, 10000}) \in Int
    BY <1>9, RouteMinTwo
  <1>12. DeterministicScore(s, t, name) = IF RouteSafe(s, t) THEN Min({score, 10000}) ELSE 0
    <2> HIDE DEF relation
    <2> QED BY <1>1, <1>3, <1>4, <1>5, <1>6, <1>8, <1>9 DEF DeterministicScore, relation
  <1> QED BY <1>11, <1>12


-----------------------------------------------------------------------------
(* Decisions                                                               *)

ScoresOf(s, targets, evidence) ==
    [t \in DOMAIN targets |-> DeterministicScore(s, targets[t], evidence.name[t])]

Evidence(n) == [name : [1..n -> NameScores], semantic : ModelSays(n), reranker : ModelSays(n)]

LEMMA ScoresAre ==
  ASSUME NEW s, NEW S, NEW targets \in Seq(S), NEW e \in Evidence(Len(targets))
  PROVE  ScoresOf(s, targets, e) \in [1..Len(targets) -> Int]
  <1>1. e.name \in [1..Len(targets) -> NameScores]
    BY DEF Evidence
  <1>2. \A t \in 1..Len(targets) : e.name[t] \in 0..100
    BY <1>1, RouteConstants
  <1>3. \A t \in 1..Len(targets) : DeterministicScore(s, targets[t], e.name[t]) \in Int
    BY <1>2, ScoreIs
  <1> QED BY <1>3 DEF ScoresOf

\* What decisive evidence makes of the models: nothing.
LEMMA DecisiveIsFinal ==
  ASSUME NEW s, NEW targets, NEW scores, NEW e, Decisive(s, targets, scores)
  PROVE  Blended(s, targets, scores, e) = [t \in DOMAIN scores |-> 10000 * scores[t]]
  <1> DEFINE initial == [t \in DOMAIN scores |->
                 IF e.semantic = <<>> \/ Decisive(s, targets, scores) THEN 10000 * scores[t]
                 ELSE 7600 * scores[t] + 240000 * e.semantic[t]]
  <1>1. Blended(s, targets, scores, e) = initial
    BY DEF Blended
  <1>2. initial = [t \in DOMAIN scores |-> 10000 * scores[t]]
    OBVIOUS
  <1> QED BY <1>1, <1>2

\* An automatic decision is decisive, whatever the models said.
LEMMA AutomaticIsDecisive ==
  ASSUME NEW s, NEW S, NEW targets \in Seq(S), targets # <<>>,
         NEW e \in Evidence(Len(targets)), NEW w, w.name = e.name,
         Decide(s, targets, e).status = "auto"
  PROVE  /\ Decide(s, targets, e).target \in 1..Len(targets)
         /\ ContractSafe(s, targets[Decide(s, targets, e).target])
         /\ Decide(s, targets, w) = Decide(s, targets, e)
  <1>3. PICK scores : scores = ScoresOf(s, targets, e)
    OBVIOUS
  <1>4. scores = ScoresOf(s, targets, w)
    BY <1>3 DEF ScoresOf
  <1>5. scores \in [1..Len(targets) -> Int] /\ Len(targets) \in Nat /\ Len(targets) >= 1
    <2>1. Len(targets) \in Nat /\ Len(targets) >= 1
      OBVIOUS
    <2> QED BY <1>3, <2>1, ScoresAre
  <1>6. Winner(scores) \in 1..Len(targets)
    BY <1>5, WinnerIs
  <1> DEFINE Verdict(final) ==
        IF final[Winner(final)] >= 86000000 /\ Margin(final) >= 8000000
           /\ Winner(scores) = Winner(final) /\ Decisive(s, targets, scores)
        THEN [target |-> Winner(final), status |-> "auto"]
        ELSE IF final[Winner(final)] >= 55000000 \/ scores[Winner(scores)] >= 5500
        THEN [target |-> Winner(final), status |-> "review"]
        ELSE [target |-> 0, status |-> "blocked"]
  <1>7. Decide(s, targets, e) = Verdict(Blended(s, targets, scores, e))
    BY <1>3 DEF Decide, ScoresOf
  <1>8. Decide(s, targets, w) = Verdict(Blended(s, targets, scores, w))
    BY <1>4 DEF Decide, ScoresOf
  <1>9. PICK final : final = Blended(s, targets, scores, e)
    OBVIOUS
  <1>10. Decisive(s, targets, scores) /\ Winner(scores) = Winner(final)
         /\ Decide(s, targets, e).target = Winner(final)
    BY <1>7, <1>9
  <1>11. Blended(s, targets, scores, w) = final
    BY <1>9, <1>10, DecisiveIsFinal
  <1>12. Decide(s, targets, w) = Decide(s, targets, e)
    BY <1>7, <1>8, <1>9, <1>11
  <1>13. ContractSafe(s, targets[Winner(scores)])
    BY <1>10 DEF Decisive
  <1> QED BY <1>6, <1>10, <1>12, <1>13

LEMMA ModelScoresAre ==
  ASSUME NEW x \in ModelScores
  PROVE  x \in Int
  <1>1. x \in NameScores \cup ModelScores
    OBVIOUS
  <1>2. x \in 0..100
    BY <1>1, RouteConstants
  <1> QED BY <1>2

\* The models' scores are numbers too, so every decision names a field or none.
LEMMA BlendedIs ==
  ASSUME NEW s, NEW targets, NEW n \in Nat, NEW scores \in [1..n -> Int],
         NEW e \in [name : [1..n -> NameScores], semantic : ModelSays(n), reranker : ModelSays(n)]
  PROVE  Blended(s, targets, scores, e) \in [1..n -> Int]
  <1>1. \A t \in 1..n : e.semantic # <<>> => e.semantic[t] \in Int
    <2>1. e.semantic \in {<<>>} \cup [1..n -> ModelScores]
      BY DEF ModelSays
    <2>2. \A x \in ModelScores : x \in Int
      BY ModelScoresAre
    <2> QED BY <2>1, <2>2
  <1>2. \A t \in 1..n : e.reranker # <<>> => e.reranker[t] \in Int
    <2>1. e.reranker \in {<<>>} \cup [1..n -> ModelScores]
      BY DEF ModelSays
    <2>2. \A x \in ModelScores : x \in Int
      BY ModelScoresAre
    <2> QED BY <2>1, <2>2
  <1> DEFINE value(t) == IF e.semantic = <<>> \/ Decisive(s, targets, scores) THEN 10000 * scores[t]
                         ELSE 7600 * scores[t] + 240000 * e.semantic[t]
             initial == [t \in DOMAIN scores |-> value(t)]
             refined == [t \in DOMAIN scores |->
                           82 * (initial[t] \div 100) + 180000 * e.reranker[t]]
  <1>3. \A t \in 1..n : scores[t] \in Int
    OBVIOUS
  <1>4. \A t \in 1..n : value(t) \in Int
    BY <1>1, <1>3
  <1> HIDE DEF value
  <1>5. initial \in [1..n -> Int]
    BY <1>4
  <1> HIDE DEF initial
  <1>6. e.reranker # <<>> => refined \in [1..n -> Int]
    <2> SUFFICES ASSUME e.reranker # <<>> PROVE refined \in [1..n -> Int]
      OBVIOUS
    <2>1. ASSUME NEW t \in 1..n PROVE 82 * (initial[t] \div 100) + 180000 * e.reranker[t] \in Int
      <3>1. initial[t] \in Int /\ e.reranker[t] \in Int
        BY <1>2, <1>5
      <3>2. initial[t] \div 100 \in Int
        BY <3>1
      <3> QED BY <3>1, <3>2
    <2> QED BY <2>1
  <1> HIDE DEF refined
  <1>7. Blended(s, targets, scores, e) = initial
        \/ (e.reranker # <<>> /\ Blended(s, targets, scores, e) = refined)
    BY DEF Blended, refined, initial, value
  <1> QED BY <1>5, <1>6, <1>7

Decision == [target : Nat, status : {"auto", "review", "blocked"}]

LEMMA DecideIs ==
  ASSUME NEW s, NEW S, NEW targets \in Seq(S), targets # <<>>,
         NEW e \in Evidence(Len(targets))
  PROVE  Decide(s, targets, e) \in Decision
  <1>1. PICK scores : scores = ScoresOf(s, targets, e)
    OBVIOUS
  <1>2. Len(targets) \in Nat /\ Len(targets) >= 1
    OBVIOUS
  <1>3. scores \in [1..Len(targets) -> Int]
    BY <1>1, ScoresAre
  <1>4. PICK final : final = Blended(s, targets, scores, e)
    OBVIOUS
  <1>5. final \in [1..Len(targets) -> Int]
    BY <1>2, <1>3, <1>4, BlendedIs DEF Evidence
  <1>6. Winner(final) \in Nat
    BY <1>2, <1>5, WinnerIs
  <1>7. Decide(s, targets, e) \in {[target |-> Winner(final), status |-> "auto"],
                                   [target |-> Winner(final), status |-> "review"],
                                   [target |-> 0, status |-> "blocked"]}
    BY <1>1, <1>4 DEF Decide, ScoresOf
  <1> QED BY <1>6, <1>7 DEF Decision

\* The same of a decision after advice: advice never makes one automatic.
LEMMA AdvisedIs ==
  ASSUME NEW s, NEW S, NEW targets \in Seq(S), targets # <<>>,
         NEW e \in Evidence(Len(targets)), NEW glossary \in 0..Len(targets),
         NEW w, w.name = e.name,
         NEW d, d = Advised(s, targets, Decide(s, targets, e), glossary)
  PROVE  /\ d \in Decision
         /\ d.status = "auto" =>
              /\ d.target \in 1..Len(targets) /\ ContractSafe(s, targets[d.target])
              /\ Advised(s, targets, Decide(s, targets, w), glossary) = d
  <1>1. PICK by : by = Decide(s, targets, e)
    OBVIOUS
  <1>2. by \in Decision
    BY <1>1, DecideIs
  <1>3. d = IF by.status = "auto" \/ glossary \in {0, by.target}
               \/ ~ContractSafe(s, targets[glossary])
            THEN by ELSE [target |-> glossary, status |-> "review"]
    BY <1>1 DEF Advised
  <1>4. glossary \in Nat
    OBVIOUS
  <1>5. d \in Decision
    BY <1>2, <1>3, <1>4 DEF Decision
  <1>6. ASSUME d.status = "auto"
        PROVE  /\ d.target \in 1..Len(targets) /\ ContractSafe(s, targets[d.target])
               /\ Advised(s, targets, Decide(s, targets, w), glossary) = d
    <2>1. by.status = "auto" /\ d = by
      BY <1>2, <1>3, <1>6
    <2>2. /\ by.target \in 1..Len(targets) /\ ContractSafe(s, targets[by.target])
          /\ Decide(s, targets, w) = by
      BY <1>1, <2>1, AutomaticIsDecisive
    <2>3. Advised(s, targets, by, glossary) = by
      BY <2>1 DEF Advised
    <2> QED BY <2>1, <2>2, <2>3
  <1> QED BY <1>5, <1>6


-----------------------------------------------------------------------------
\* What holds of the decisions while a plan is made of them.
AutoIsSound(s) ==
    decisions[s].status = "auto" =>
        /\ alone[s] = decisions[s] /\ decisions[s].target \in 1..Len(targetSchema)
        /\ ContractSafe(sourceSchema[s], targetSchema[decisions[s].target])

MapInv ==
    /\ sourceSchema \in SourceSchemas /\ targetSchema \in TargetSchemas
    /\ decisions \in Seq(Decision) /\ alone \in Seq(Decision)
    /\ Len(alone) = Len(decisions) /\ Len(decisions) <= Len(sourceSchema)
    /\ step = "decide" => Len(decisions) < Len(sourceSchema)
    /\ step \notin {"decide", "decided"} => decisions = <<>>
    /\ \A s \in 1..Len(decisions) : AutoIsSound(s)
    /\ step = "decided" =>
         \A s, u \in 1..Len(decisions) :
            s # u /\ decisions[s].status = "auto" /\ decisions[u].status = "auto"
            => decisions[s].target # decisions[u].target
    /\ AutoPlanIsValid /\ SealedStaysSealed /\ DOMAIN plan.rules \subseteq Nat

LEMMA SchemasAre ==
  ASSUME NEW schema \in SourceSchemas \cup TargetSchemas
  PROVE  /\ schema \in Seq(Range(schema)) /\ schema # <<>>
         /\ Len(schema) \in Nat /\ Len(schema) >= 1 /\ DOMAIN schema = 1..Len(schema)
         /\ \A i \in 1..Len(schema) : schema[i].sensitivity \in DOMAIN Rank
  <1>1. schema \in Seq(Range(schema)) /\ schema # <<>>
    BY SchemaAssumption
  <1>2. Len(schema) \in Nat /\ Len(schema) >= 1 /\ DOMAIN schema = 1..Len(schema)
    BY <1>1
  <1>3. \A i \in DOMAIN schema : schema[i].sensitivity \in DOMAIN Rank
    BY SchemaAssumption
  <1> QED BY <1>1, <1>2, <1>3

LEMMA MappingStarts == RouteInit => MapInv
  <1> SUFFICES ASSUME RouteInit PROVE MapInv
    OBVIOUS
  <1>1. /\ sourceSchema \in SourceSchemas /\ targetSchema \in TargetSchemas
        /\ step = "decide" /\ decisions = <<>> /\ alone = <<>> /\ plan.rules = <<>>
    BY DEF RouteInit, NoPlan
  <1>2. Len(sourceSchema) \in Nat /\ Len(sourceSchema) >= 1
    BY <1>1, SchemasAre
  <1>3. DOMAIN plan.rules = {}
    BY <1>1
  <1>4. decisions \in Seq(Decision) /\ Len(decisions) = 0 /\ Len(alone) = 0
        /\ alone \in Seq(Decision)
    BY <1>1
  <1>5. AutoPlanIsValid /\ SealedStaysSealed
    BY <1>1, <1>3 DEF AutoPlanIsValid, SealedStaysSealed
  <1> QED BY <1>1, <1>2, <1>3, <1>4, <1>5 DEF MapInv

\* Deciding a field.
LEMMA DecideStep ==
  ASSUME MapInv, NEW e \in Evidence(Len(targetSchema)), NEW glossary \in 0..Len(targetSchema),
         DecideField(e, glossary)
  PROVE  MapInv'
  <1> DEFINE s == sourceSchema[Len(decisions) + 1]
  <1>1. /\ sourceSchema \in SourceSchemas /\ targetSchema \in TargetSchemas
        /\ decisions \in Seq(Decision) /\ alone \in Seq(Decision)
        /\ Len(alone) = Len(decisions) /\ step = "decide"
        /\ Len(decisions) < Len(sourceSchema)
    BY DEF MapInv, DecideField
  <1>2. PICK n \in Nat : n = Len(decisions)
    BY <1>1
  <1>3. /\ targetSchema \in Seq(Range(targetSchema)) /\ targetSchema # <<>>
        /\ Len(targetSchema) \in Nat
    BY <1>1, SchemasAre
  <1>4. PICK w : w = [e EXCEPT !.semantic = <<>>, !.reranker = <<>>]
    OBVIOUS
  <1>5. w \in Evidence(Len(targetSchema))
    BY <1>4 DEF Evidence, ModelSays
  <1>6. PICK d : d = Advised(s, targetSchema, Decide(s, targetSchema, e), glossary)
    OBVIOUS
  <1>7. PICK a : a = Advised(s, targetSchema, Decide(s, targetSchema, w), glossary)
    OBVIOUS
  <1>8. /\ d \in Decision
        /\ d.status = "auto" =>
             d.target \in 1..Len(targetSchema) /\ ContractSafe(s, targetSchema[d.target]) /\ a = d
    <2> HIDE DEF s
    <2>1. /\ d \in Decision
          /\ d.status = "auto" =>
               /\ d.target \in 1..Len(targetSchema) /\ ContractSafe(s, targetSchema[d.target])
               /\ Advised(s, targetSchema, Decide(s, targetSchema, w), glossary) = d
      <3>1. w.name = e.name
        BY <1>4 DEF Evidence
      <3> QED BY <1>3, <1>6, <3>1, AdvisedIs
    <2> QED BY <1>7, <2>1
  <1>9. a \in Decision
    <2> HIDE DEF s
    <2> QED BY <1>3, <1>5, <1>7, AdvisedIs
  <1>10. PICK all : all = Append(decisions, d)
    OBVIOUS
  <1>11. /\ alone' = Append(alone, a)
         /\ UNCHANGED <<sourceSchema, targetSchema, plan, reviewed>>
         /\ IF Len(all) = Len(sourceSchema)
            THEN decisions' = Contested(all) /\ step' = "decided"
            ELSE decisions' = all /\ step' = "decide"
    BY <1>1, <1>4, <1>6, <1>7, <1>10 DEF DecideField
  <1>12. /\ all \in Seq(Decision) /\ Len(all) = n + 1 /\ all[n + 1] = d
         /\ \A i \in 1..n : all[i] = decisions[i]
    BY <1>1, <1>2, <1>8, <1>10
  <1>13. /\ alone' \in Seq(Decision) /\ Len(alone') = n + 1 /\ alone'[n + 1] = a
         /\ \A i \in 1..n : alone'[i] = alone[i]
    BY <1>1, <1>2, <1>9, <1>11
  <1>14. ASSUME NEW i \in 1..n + 1, all[i].status = "auto"
         PROVE  /\ alone'[i] = all[i] /\ all[i].target \in 1..Len(targetSchema)
                /\ ContractSafe(sourceSchema[i], targetSchema[all[i].target])
    <2>1. CASE i = n + 1
      <3>1. all[i] = d /\ alone'[i] = a /\ sourceSchema[i] = s
        BY <1>2, <1>12, <1>13, <2>1
      <3> HIDE DEF s
      <3> QED BY <1>8, <1>14, <3>1
    <2>2. CASE i # n + 1
      <3>1. i \in 1..n
        BY <2>2
      <3>2. AutoIsSound(i)
        BY <1>2, <3>1 DEF MapInv
      <3>3. all[i] = decisions[i] /\ alone'[i] = alone[i]
        BY <1>12, <1>13, <3>1
      <3> QED BY <1>14, <3>2, <3>3 DEF AutoIsSound
    <2> QED BY <2>1, <2>2
  <1>15. /\ decisions' \in Seq(Decision) /\ Len(decisions') = n + 1
         /\ \A i \in 1..n + 1 : decisions'[i].status = "auto" => decisions'[i] = all[i]
         /\ step' = "decided" =>
              \A i, j \in 1..n + 1 :
                 i # j /\ decisions'[i].status = "auto" /\ decisions'[j].status = "auto"
                 => decisions'[i].target # decisions'[j].target
    <2>1. CASE Len(all) # Len(sourceSchema)
      BY <1>11, <1>12, <2>1
    <2>2. CASE Len(all) = Len(sourceSchema)
      <3> DEFINE clash(i) == all[i].target # 0 /\ \E u \in DOMAIN all \ {i} : all[u].target = all[i].target
                 c(i) == IF clash(i) THEN [all[i] EXCEPT !.status = "review"] ELSE all[i]
      <3>1. DOMAIN all = 1..n + 1
        BY <1>12
      <3>2. decisions' = [i \in 1..n + 1 |-> c(i)]
        BY <1>11, <2>2, <3>1 DEF Contested
      <3>3. \A i \in 1..n + 1 : all[i] \in Decision
        BY <1>12
      <3> HIDE DEF clash
      <3>4. \A i \in 1..n + 1 : /\ c(i) \in Decision
                                /\ c(i).status = "auto" => c(i) = all[i] /\ ~clash(i)
        BY <3>3 DEF Decision
      <3> HIDE DEF c
      <3>5. decisions' \in Seq(Decision) /\ Len(decisions') = n + 1
        BY <3>2, <3>4
      <3>6. \A i \in 1..n + 1 : decisions'[i] = c(i)
        BY <3>2
      <3>7. ASSUME NEW i \in 1..n + 1, NEW j \in 1..n + 1, i # j,
                   decisions'[i].status = "auto", decisions'[j].status = "auto"
            PROVE  decisions'[i].target # decisions'[j].target
        <4>1. decisions'[i] = all[i] /\ decisions'[j] = all[j] /\ ~clash(i)
          BY <3>4, <3>6, <3>7
        <4>2. all[i].target # 0
          BY <1>3, <1>14, <3>7, <4>1
        <4>3. j \in DOMAIN all \ {i}
          BY <3>1, <3>7
        <4> QED BY <4>1, <4>2, <4>3 DEF clash
      <3> QED BY <3>4, <3>5, <3>6, <3>7
    <2> QED BY <2>1, <2>2
  <1>16. \A i \in 1..Len(decisions') : AutoIsSound(i)'
    <2> SUFFICES ASSUME NEW i \in 1..n + 1, decisions'[i].status = "auto"
                 PROVE  /\ alone'[i] = decisions'[i]
                        /\ decisions'[i].target \in 1..Len(targetSchema)
                        /\ ContractSafe(sourceSchema[i], targetSchema[decisions'[i].target])
      BY <1>11, <1>15 DEF AutoIsSound
    <2>1. decisions'[i] = all[i]
      BY <1>15
    <2> QED BY <1>14, <2>1
  <1>17. /\ n + 1 <= Len(sourceSchema)
         /\ step' = "decide" => n + 1 < Len(sourceSchema)
         /\ step' \in {"decide", "decided"}
    <2>1. Len(sourceSchema) \in Nat
      BY <1>1, SchemasAre
    <2> QED BY <1>1, <1>2, <1>11, <1>12, <2>1
  <1>18. AutoPlanIsValid' /\ SealedStaysSealed' /\ DOMAIN plan'.rules \subseteq Nat
    BY <1>11, <1>17 DEF MapInv, AutoPlanIsValid, SealedStaysSealed
  <1> QED BY <1>1, <1>11, <1>13, <1>15, <1>16, <1>17, <1>18 DEF MapInv


\* An operator's choice.
LEMMA ReviewStep ==
  ASSUME MapInv, NEW s \in DOMAIN decisions, NEW t \in DOMAIN targetSchema, ReviewField(s, t)
  PROVE  MapInv'
  <1>1. /\ sourceSchema \in SourceSchemas /\ targetSchema \in TargetSchemas
        /\ decisions \in Seq(Decision) /\ alone \in Seq(Decision) /\ step = "decided"
    BY DEF MapInv, ReviewField
  <1>2. /\ decisions' = [decisions EXCEPT ![s] = [target |-> t, status |-> "review"]]
        /\ UNCHANGED <<sourceSchema, targetSchema, step, alone, plan>>
    BY DEF ReviewField
  <1>3. t \in Nat
    <2>1. DOMAIN targetSchema = 1..Len(targetSchema) /\ Len(targetSchema) \in Nat
      BY <1>1, SchemasAre
    <2> QED BY <2>1
  <1>4. [target |-> t, status |-> "review"] \in Decision
    BY <1>3 DEF Decision
  <1>5. decisions' \in Seq(Decision) /\ Len(decisions') = Len(decisions)
    BY <1>1, <1>2, <1>4
  <1>6. \A i \in 1..Len(decisions) :
           decisions'[i].status = "auto" => decisions'[i] = decisions[i]
    BY <1>1, <1>2
  <1>7. \A i \in 1..Len(decisions') : AutoIsSound(i)'
    <2> SUFFICES ASSUME NEW i \in 1..Len(decisions), decisions'[i].status = "auto"
                 PROVE  /\ alone[i] = decisions'[i]
                        /\ decisions'[i].target \in 1..Len(targetSchema)
                        /\ ContractSafe(sourceSchema[i], targetSchema[decisions'[i].target])
      BY <1>2, <1>5 DEF AutoIsSound
    <2>1. decisions'[i] = decisions[i]
      BY <1>6
    <2>2. AutoIsSound(i)
      BY DEF MapInv
    <2> QED BY <2>1, <2>2 DEF AutoIsSound
  <1>8. \A i, j \in 1..Len(decisions') :
            i # j /\ decisions'[i].status = "auto" /\ decisions'[j].status = "auto"
            => decisions'[i].target # decisions'[j].target
    BY <1>1, <1>5, <1>6 DEF MapInv
  <1>9. AutoPlanIsValid' /\ SealedStaysSealed' /\ DOMAIN plan'.rules \subseteq Nat
    BY <1>1, <1>2 DEF MapInv, AutoPlanIsValid, SealedStaysSealed
  <1> QED BY <1>1, <1>2, <1>5, <1>7, <1>8, <1>9 DEF MapInv

\* The policy lets through what an automatic contract covers, and the validator
\* finds nothing in the rule that is made of it.
LEMMA ContractIsValid ==
  ASSUME NEW s, NEW t, ContractSafe(s, t), s.sensitivity \in DOMAIN Rank
  PROVE  PolicyAllows(s, t, TransformFor(s, t, FALSE))
  <1>1. s.sensitivity = t.sensitivity
    BY DEF ContractSafe
  <1>2. Rank[s.sensitivity] \in Int
    BY DEF Rank
  <1>3. RouteSafe(s, t)
    BY <1>1, <1>2 DEF RouteSafe
  <1>4. Sealed(s) => TransformFor(s, t, FALSE) = "opaque_forward"
    BY DEF TransformFor
  <1>5. "opaque" \in {s.sensitivity, t.sensitivity} => Sealed(s)
    BY <1>1 DEF Sealed
  <1> QED BY <1>3, <1>4, <1>5 DEF PolicyAllows

LEMMA NothingFound ==
  ASSUME NEW sources, NEW targets, NEW rule, NEW s, NEW t,
         s = sources[rule.source], t = targets[rule.target],
         ContractSafe(s, t), s.sensitivity \in DOMAIN Rank,
         rule.transform = TransformFor(s, t, FALSE)
  PROVE  RuleFindings(rule, sources, targets) = {}
  <1> DEFINE x == rule.transform
             copies == x \in {"copy", "opaque_forward"}
             lookup == t.lookup # "none" /\ s.role = "natural_key" /\ t.role = "foreign_key"
  <1>1. PolicyAllows(s, t, x)
    BY ContractIsValid
  <1>2. ~(s.nullable /\ ~t.nullable)
    BY DEF ContractSafe
  <1>3. CASE LookupKey(s, t, TRUE)
    <2>1. ~Sealed(s) /\ x = "lookup_foreign_key" /\ lookup
      BY <1>3 DEF TransformFor, LookupKey
    <2>2. CopySafe(s.type, t.lookup) /\ t.lookup # "unknown" /\ s.type # "unknown"
      BY <1>3 DEF LookupKey, CopySafe
    <2> QED BY <1>1, <1>2, <2>1, <2>2 DEF RuleFindings
  <1>4. CASE ~LookupKey(s, t, TRUE)
    <2>1. CopySafe(s.type, t.type)
      BY <1>4 DEF ContractSafe
    <2>2. s.type # "unknown" /\ TypeSatisfies(s.type, t.type)
      BY <2>1 DEF CopySafe
    <2>3. x # "lookup_foreign_key"
      BY <1>4 DEF TransformFor
    <2> QED BY <1>1, <1>2, <2>2, <2>3 DEF RuleFindings
  <1> QED BY <1>3, <1>4

\* A plan is built.
LEMMA BuildStep ==
  ASSUME MapInv, Build
  PROVE  MapInv'
  <1> DEFINE allowed == reviewed # {}
  <1>1. /\ sourceSchema \in SourceSchemas /\ targetSchema \in TargetSchemas
        /\ decisions \in Seq(Decision) /\ step = "decided"
        /\ Len(decisions) <= Len(sourceSchema)
        /\ \A i \in 1..Len(decisions) : AutoIsSound(i)
        /\ \A i, j \in 1..Len(decisions) :
            i # j /\ decisions[i].status = "auto" /\ decisions[j].status = "auto"
            => decisions[i].target # decisions[j].target
    BY DEF MapInv, Build
  <1>2. /\ decisions' = <<>> /\ alone' = <<>>
        /\ UNCHANGED <<sourceSchema, targetSchema, reviewed>>
        /\ step' = IF BuildRaises(allowed) THEN "raised" ELSE "built"
        /\ plan' = IF BuildRaises(allowed) THEN NoPlan
                   ELSE [source |-> sourceSchema, target |-> targetSchema,
                         rules |-> Rules(allowed)]
    BY DEF Build
  <1>3. Len(sourceSchema) \in Nat /\ DOMAIN decisions = 1..Len(decisions) /\ Len(decisions) \in Nat
    BY <1>1, SchemasAre
  <1>4. /\ decisions' \in Seq(Decision) /\ alone' \in Seq(Decision)
        /\ Len(decisions') = 0 /\ Len(alone') = 0
    BY <1>2
  <1>5. \A b \in BOOLEAN : Mapped(b) \subseteq 1..Len(decisions)
    BY <1>3 DEF Mapped
  <1>6. allowed \in BOOLEAN
    OBVIOUS
  <1> HIDE DEF allowed
  <1>7. DOMAIN plan'.rules \subseteq Nat
    <2>1. CASE BuildRaises(allowed)
      BY <1>2, <2>1 DEF NoPlan
    <2>2. CASE ~BuildRaises(allowed)
      <3>1. DOMAIN plan'.rules = Mapped(allowed)
        BY <1>2, <2>2 DEF Rules
      <3> QED BY <1>3, <1>5, <1>6, <3>1
    <2> QED BY <2>1, <2>2
  <1>8. SealedStaysSealed'
    <2>1. CASE BuildRaises(allowed)
      <3>1. plan'.rules = <<>>
        BY <1>2, <2>1 DEF NoPlan
      <3> QED BY <3>1 DEF SealedStaysSealed
    <2>2. CASE ~BuildRaises(allowed)
      <3>1. /\ plan'.source = sourceSchema /\ plan'.target = targetSchema
            /\ plan'.rules = [s \in Mapped(allowed) |-> RuleOf(s)]
        BY <1>2, <2>2 DEF Rules
      <3>2. ASSUME NEW j \in Mapped(allowed)
            PROVE  /\ RouteSafe(sourceSchema[RuleOf(j).source], targetSchema[RuleOf(j).target])
                   /\ Sealed(sourceSchema[RuleOf(j).source])
                        <=> RuleOf(j).transform = "opaque_forward"
        <4>1. RuleOf(j).source = j /\ RuleOf(j).target = decisions[j].target
              /\ RuleOf(j).transform = TransformFor(sourceSchema[j],
                    targetSchema[decisions[j].target], decisions[j].status = "review")
          BY DEF RuleOf
        <4>2. PolicyAllows(sourceSchema[j], targetSchema[decisions[j].target],
                           RuleOf(j).transform)
          BY <2>2 DEF BuildRaises
        <4>3. RouteSafe(sourceSchema[j], targetSchema[decisions[j].target])
          BY <4>2 DEF PolicyAllows
        <4>4. Sealed(sourceSchema[j]) <=> RuleOf(j).transform = "opaque_forward"
          BY <4>1 DEF TransformFor
        <4> QED BY <4>1, <4>3, <4>4
      <3>3. DOMAIN plan'.rules = Mapped(allowed)
            /\ \A j \in Mapped(allowed) : plan'.rules[j] = RuleOf(j)
        BY <3>1
      <3> QED BY <3>1, <3>2, <3>3 DEF SealedStaysSealed
    <2> QED BY <2>1, <2>2
  <1>9. AutoPlanIsValid'
    <2> SUFFICES ASSUME reviewed = {}
                 PROVE  /\ step' = "built"
                        /\ Validate(plan', sourceSchema, targetSchema) \subseteq {"unmapped"}
      BY <1>2 DEF AutoPlanIsValid
    <2>1. allowed = FALSE
      BY DEF allowed
    <2>2. Mapped(FALSE) = {s \in 1..Len(decisions) : decisions[s].status = "auto"}
      BY <1>3 DEF Mapped
    <2>3. ASSUME NEW j \in Mapped(FALSE)
          PROVE  /\ ContractSafe(sourceSchema[j], targetSchema[decisions[j].target])
                 /\ sourceSchema[j].sensitivity \in DOMAIN Rank
                 /\ j \in 1..Len(decisions)
      <3>1. j \in 1..Len(decisions) /\ decisions[j].status = "auto"
        BY <2>2
      <3>2. j \in 1..Len(sourceSchema)
        BY <1>1, <1>3, <3>1
      <3>3. sourceSchema[j].sensitivity \in DOMAIN Rank
        BY <1>1, <3>2, SchemasAre
      <3> QED BY <1>1, <3>1, <3>3 DEF AutoIsSound
    <2>4. \A j \in Mapped(FALSE) :
            /\ RuleOf(j).source = j /\ RuleOf(j).target = decisions[j].target
            /\ RuleOf(j).transform = TransformFor(sourceSchema[j],
                                        targetSchema[decisions[j].target], FALSE)
      <3> SUFFICES ASSUME NEW j \in Mapped(FALSE)
                   PROVE  /\ RuleOf(j).source = j /\ RuleOf(j).target = decisions[j].target
                          /\ RuleOf(j).transform = TransformFor(sourceSchema[j],
                                        targetSchema[decisions[j].target], FALSE)
        OBVIOUS
      <3>1. (decisions[j].status = "review") = FALSE
        BY <2>2
      <3> QED BY <3>1 DEF RuleOf
    <2>5. ~BuildRaises(FALSE)
      <3>1. ASSUME NEW j \in Mapped(FALSE)
            PROVE  PolicyAllows(sourceSchema[j], targetSchema[decisions[j].target],
                                RuleOf(j).transform)
        BY <2>3, <2>4, ContractIsValid
      <3> QED BY <2>3, <3>1 DEF BuildRaises
    <2>6. /\ step' = "built" /\ plan'.source = sourceSchema /\ plan'.target = targetSchema
          /\ plan'.rules = [s \in Mapped(FALSE) |-> RuleOf(s)]
      BY <1>2, <2>1, <2>5 DEF Rules
    <2>7. PICK p : p = plan'
      OBVIOUS
    <2>8. /\ DOMAIN p.rules = Mapped(FALSE) /\ p.source = sourceSchema /\ p.target = targetSchema
          /\ \A j \in Mapped(FALSE) : p.rules[j] = RuleOf(j)
      BY <2>6, <2>7
    <2>9. ASSUME NEW j \in DOMAIN p.rules
          PROVE  RuleFindings(p.rules[j], sourceSchema, targetSchema) = {}
      <3>1. /\ sourceSchema[p.rules[j].source] = sourceSchema[j]
            /\ targetSchema[p.rules[j].target] = targetSchema[decisions[j].target]
            /\ p.rules[j].transform = TransformFor(sourceSchema[j],
                                        targetSchema[decisions[j].target], FALSE)
        BY <2>4, <2>8, ZenonT(60)
      <3>2. ContractSafe(sourceSchema[j], targetSchema[decisions[j].target])
            /\ sourceSchema[j].sensitivity \in DOMAIN Rank
        BY <2>3, <2>8
      <3> QED BY <3>1, <3>2, NothingFound
    <2>10. ASSUME NEW i \in DOMAIN p.rules, NEW j \in DOMAIN p.rules, j < i
           PROVE  p.rules[j].target # p.rules[i].target
      <3>1. /\ i \in 1..Len(decisions) /\ j \in 1..Len(decisions)
            /\ decisions[i].status = "auto" /\ decisions[j].status = "auto"
        BY <2>2, <2>8
      <3>2. i # j
        BY <1>3, <2>10, <3>1
      <3>3. p.rules[i].target = decisions[i].target /\ p.rules[j].target = decisions[j].target
        BY <2>4, <2>8
      <3> QED BY <1>1, <3>1, <3>2, <3>3
    <2>11. Validate(p, sourceSchema, targetSchema) \subseteq {"unmapped"}
      <3> DEFINE found(i) ==
            IF \E j \in DOMAIN p.rules : j < i /\ p.rules[j].target = p.rules[i].target
            THEN {"blocking"} ELSE RuleFindings(p.rules[i], sourceSchema, targetSchema)
      <3>1. \A i \in DOMAIN p.rules : found(i) = {}
        BY <2>9, <2>10
      <3>2. (UNION {found(i) : i \in DOMAIN p.rules}) = {}
        <4> HIDE DEF found
        <4> QED BY <3>1
      <3>3. ~(p.source # sourceSchema \/ p.target # targetSchema)
        BY <2>8
      <3>4. Validate(p, sourceSchema, targetSchema) \subseteq
              (UNION {found(i) : i \in DOMAIN p.rules}) \cup {"unmapped"}
        BY <3>3 DEF Validate
      <3> HIDE DEF found
      <3> QED BY <3>2, <3>4
    <2> QED BY <2>6, <2>7, <2>11
  <1> QED BY <1>1, <1>2, <1>3, <1>4, <1>7, <1>8, <1>9, SchemasAre DEF MapInv


LEMMA MappingSteps == MapInv /\ [RouteNext]_routeVars => MapInv'
  <1> SUFFICES ASSUME MapInv, [RouteNext]_routeVars PROVE MapInv'
    OBVIOUS
  <1>1. ASSUME NEW name \in [1..Len(targetSchema) -> NameScores],
               NEW semantic \in ModelSays(Len(targetSchema)),
               NEW reranker \in ModelSays(Len(targetSchema)),
               NEW glossary \in 0..Len(targetSchema),
               DecideField([name |-> name, semantic |-> semantic, reranker |-> reranker],
                           glossary)
        PROVE  MapInv'
    <2>1. [name |-> name, semantic |-> semantic, reranker |-> reranker]
            \in Evidence(Len(targetSchema))
      BY DEF Evidence
    <2> QED BY <1>1, <2>1, DecideStep
  <1>2. ASSUME NEW s \in DOMAIN decisions, NEW t \in DOMAIN targetSchema, ReviewField(s, t)
        PROVE  MapInv'
    BY <1>2, ReviewStep
  <1>3. CASE Build
    BY <1>3, BuildStep
  <1>4. ASSUME NEW other \in TargetSchemas, SchemaDrifts(other) PROVE MapInv'
    <2>1. /\ step = "built" /\ step' = "drifted" /\ targetSchema' = other
          /\ UNCHANGED <<sourceSchema, decisions, alone, plan>>
      BY <1>4 DEF SchemaDrifts
    <2>2. decisions = <<>> /\ Len(decisions) = 0 /\ 1..Len(decisions') = {}
      BY <2>1 DEF MapInv
    <2>3. AutoPlanIsValid' /\ SealedStaysSealed'
      BY <2>1 DEF MapInv, AutoPlanIsValid, SealedStaysSealed
    <2> QED BY <2>1, <2>2, <2>3 DEF MapInv
  <1>5. ASSUME NEW f, NEW cap, NEW probe, Check(f, cap, probe) PROVE MapInv'
    <2>1. /\ step \in {"built", "drifted"} /\ step' = "checked"
          /\ UNCHANGED <<sourceSchema, targetSchema, decisions, alone, plan>>
      BY <1>5 DEF Check
    <2>2. decisions = <<>> /\ Len(decisions) = 0 /\ 1..Len(decisions') = {}
      BY <2>1 DEF MapInv
    <2>3. AutoPlanIsValid' /\ SealedStaysSealed'
      BY <2>1 DEF MapInv, AutoPlanIsValid, SealedStaysSealed
    <2> QED BY <2>1, <2>2, <2>3 DEF MapInv
  <1>6. CASE UNCHANGED routeVars
    BY <1>6 DEF routeVars, MapInv, AutoIsSound, AutoPlanIsValid, SealedStaysSealed
  <1> QED BY <1>1, <1>2, <1>3, <1>4, <1>5, <1>6 DEF RouteNext

\* What is mapped without an operator is what deterministic evidence decides
\* and stands before the validator, and no plan, whoever chose its targets,
\* opens a sealed value or lowers its sensitivity (HybridMatcher.decide and
\* propose, build_plan, PolicyEngine.validate_route, PlanValidator.validate).
THEOREM MappingIsSafe == RouteSpec => []MappingSafe
  <1>1. RouteInit => MapInv
    BY MappingStarts
  <1>2. MapInv /\ [RouteNext]_routeVars => MapInv'
    BY MappingSteps
  <1>3. MapInv => MappingSafe
    <2> SUFFICES ASSUME MapInv PROVE ModelsOnlyVeto
      BY DEF MapInv, MappingSafe
    <2>1. DOMAIN decisions = 1..Len(decisions)
      BY DEF MapInv
    <2> QED BY <2>1 DEF MapInv, AutoIsSound, ModelsOnlyVeto
  <1> QED BY <1>1, <1>2, <1>3, PTL DEF RouteSpec

\* A route that PreflightRunner.run reports as promotable delivers the file it
\* was tried on: every record is read, every value that is not sealed passes
\* its transform, its lookup and the target's contract, and every required
\* field of the target is written by exactly one rule.
THEOREM RoutesDeliver == RouteSpec => []PromotableDelivers
  <1>1. RouteInit => MapInv /\ ReportTrue
    BY MappingStarts, ReportStarts
  <1>2. MapInv /\ ReportTrue /\ [RouteNext]_routeVars => MapInv' /\ ReportTrue'
    BY MappingSteps, ReportSteps
  <1>3. MapInv /\ ReportTrue => PromotableDelivers
    BY TrueReportDelivers DEF MapInv
  <1> QED BY <1>1, <1>2, <1>3, PTL DEF RouteSpec

=============================================================================
