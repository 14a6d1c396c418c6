----------------------------- MODULE PathProofs -----------------------------
(***************************************************************************)
(* Proofs about the transfer path (Pipeline) and about the driver that     *)
(* runs it from end to end (Workflow), for every set of identities, rows   *)
(* and workers, every number of records and batch size, and every bound.   *)
(***************************************************************************)
EXTENDS Pipeline, Workflow, WellFoundedInduction, FiniteSetTheorems, SequenceTheorems, TLAPS

-----------------------------------------------------------------------------
(***************************************************************************)
(* The path. Its stores hold each identity once, the relay holds nothing   *)
(* that only it has, and the path implements Handover. The sequences of    *)
(* the model are cut with a recursive function (Without), so its first     *)
(* lemmas are proved by induction, from the least element of a set of      *)
(* counterexamples.                                                        *)
(***************************************************************************)

Record == [id : Identities, seal : 1..MaxSeals, row : Rows]

Distinct(s) == \A i, j \in 1..Len(s) : s[i].id = s[j].id => i = j

-----------------------------------------------------------------------------
(* Natural numbers                                                         *)

\* Every non-empty set of natural numbers has a least element.
LEMMA LeastOf ==
  ASSUME NEW T \in SUBSET Nat, T # {}
  PROVE  \E x \in T : \A y \in T : x <= y
  <1> DEFINE R == OpToRel(<, Nat)
  <1>1. IsWellFoundedOn(R, Nat)
    BY NatLessThanWellFounded
  <1>2. \A a, b \in Nat : a < b => <<a, b>> \in R
    BY DEF OpToRel
  <1> HIDE DEF R
  <1>3. PICK x \in T : \A y \in T : ~ (<<y, x>> \in R)
    BY <1>1, WFMin
  <1>4. ASSUME NEW y \in T, y < x PROVE FALSE
    <2>1. <<y, x>> \in R
      BY <1>2, <1>4
    <2> QED BY <1>3, <2>1
  <1>5. \A y \in T : x <= y
    BY <1>4
  <1> QED BY <1>5

\* Induction, for a set of natural numbers.
LEMMA SetInduction ==
  ASSUME NEW S, 0 \in S, \A n \in Nat : n \in S => n + 1 \in S
  PROVE  Nat \subseteq S
  <1> SUFFICES ASSUME Nat \ S # {} PROVE FALSE
    OBVIOUS
  <1>1. PICK x \in Nat \ S : \A y \in Nat \ S : x <= y
    BY LeastOf
  <1>2. x # 0 /\ x - 1 \in Nat
    BY <1>1
  <1>3. x - 1 \in S
    BY <1>1, <1>2
  <1> QED BY <1>1, <1>2, <1>3

-----------------------------------------------------------------------------
(* Sequences                                                               *)

\* What a sequence holds, by position.
LEMMA InRange ==
  ASSUME NEW S, NEW s \in Seq(S), NEW x
  PROVE  x \in Range(s) <=> \E i \in 1..Len(s) : s[i] = x
  BY DEF Range

LEMMA RangeIn ==
  ASSUME NEW S, NEW s \in Seq(S)
  PROVE  Range(s) \subseteq S
  BY DEF Range

\* A record added at the end.
LEMMA AppendedAre ==
  ASSUME NEW s \in Seq(Record), NEW r \in Record
  PROVE  /\ Append(s, r) \in Seq(Record)
         /\ Append(s, r) # <<>>
         /\ Range(Append(s, r)) = Range(s) \cup {r}
         /\ Distinct(s) /\ (\A q \in Range(s) : q.id # r.id) => Distinct(Append(s, r))
  <1>1. /\ Append(s, r) \in Seq(Record)
        /\ Len(s) \in Nat /\ Len(Append(s, r)) = Len(s) + 1
        /\ \A i \in 1..Len(s) : Append(s, r)[i] = s[i]
        /\ Append(s, r)[Len(s) + 1] = r
    OBVIOUS
  <1>2. Range(Append(s, r)) = Range(s) \cup {r}
    <2>1. ASSUME NEW x \in Range(Append(s, r)) PROVE x \in Range(s) \cup {r}
      <3>1. PICK i \in 1..Len(Append(s, r)) : Append(s, r)[i] = x
        BY <1>1, <2>1, InRange
      <3>2. CASE i = Len(s) + 1
        BY <1>1, <3>1, <3>2
      <3>3. CASE i # Len(s) + 1
        <4>1. i \in 1..Len(s) /\ s[i] = x
          BY <1>1, <3>1, <3>3
        <4> QED BY <4>1, InRange
      <3> QED BY <3>2, <3>3
    <2>2. ASSUME NEW x \in Range(s) \cup {r} PROVE x \in Range(Append(s, r))
      <3>1. CASE x = r
        <4>1. Len(s) + 1 \in 1..Len(Append(s, r)) /\ Append(s, r)[Len(s) + 1] = x
          BY <1>1, <3>1
        <4> QED BY <1>1, <4>1, InRange
      <3>2. CASE x \in Range(s)
        <4>1. PICK i \in 1..Len(s) : s[i] = x
          BY <3>2, InRange
        <4>2. i \in 1..Len(Append(s, r)) /\ Append(s, r)[i] = x
          BY <1>1, <4>1
        <4> QED BY <1>1, <4>2, InRange
      <3> QED BY <2>2, <3>1, <3>2
    <2> QED BY <2>1, <2>2
  <1>3. ASSUME Distinct(s), \A q \in Range(s) : q.id # r.id
        PROVE  Distinct(Append(s, r))
    <2>1. \A i \in 1..Len(s) : s[i].id # r.id
      BY <1>3, InRange
    <2> QED BY <1>1, <1>3, <2>1 DEF Distinct
  <1> QED BY <1>1, <1>2, <1>3

\* Two sequences, one after the other.
LEMMA Concatenated ==
  ASSUME NEW s \in Seq(Record), NEW t \in Seq(Record)
  PROVE  /\ s \o t \in Seq(Record)
         /\ Range(s \o t) = Range(s) \cup Range(t)
         /\ Distinct(s) /\ Distinct(t) /\ (\A r \in Range(s), q \in Range(t) : r.id # q.id)
               => Distinct(s \o t)
  <1>1. /\ s \o t \in Seq(Record) /\ Len(s) \in Nat /\ Len(t) \in Nat
        /\ Len(s \o t) = Len(s) + Len(t)
        /\ \A i \in 1..Len(s) + Len(t) :
              (s \o t)[i] = IF i <= Len(s) THEN s[i] ELSE t[i - Len(s)]
    BY ConcatProperties
  <1>2. Range(s \o t) = Range(s) \cup Range(t)
    <2>1. ASSUME NEW x \in Range(s \o t) PROVE x \in Range(s) \cup Range(t)
      <3>1. PICK i \in 1..Len(s) + Len(t) : (s \o t)[i] = x
        BY <1>1, <2>1, InRange
      <3>2. CASE i <= Len(s)
        <4>1. i \in 1..Len(s) /\ s[i] = x
          BY <1>1, <3>1, <3>2
        <4> QED BY <4>1, InRange
      <3>3. CASE i > Len(s)
        <4>1. i - Len(s) \in 1..Len(t) /\ t[i - Len(s)] = x
          BY <1>1, <3>1, <3>3
        <4> QED BY <4>1, InRange
      <3> QED BY <1>1, <3>1, <3>2, <3>3
    <2>2. ASSUME NEW x \in Range(s) PROVE x \in Range(s \o t)
      <3>1. PICK i \in 1..Len(s) : s[i] = x
        BY <2>2, InRange
      <3>2. i \in 1..Len(s \o t) /\ (s \o t)[i] = x
        BY <1>1, <3>1
      <3> QED BY <1>1, <3>2, InRange
    <2>3. ASSUME NEW x \in Range(t) PROVE x \in Range(s \o t)
      <3>1. PICK i \in 1..Len(t) : t[i] = x
        BY <2>3, InRange
      <3>2. Len(s) + i \in 1..Len(s \o t) /\ (s \o t)[Len(s) + i] = x
        BY <1>1, <3>1
      <3> QED BY <1>1, <3>2, InRange
    <2> QED BY <2>1, <2>2, <2>3
  <1>3. ASSUME Distinct(s), Distinct(t), \A r \in Range(s), q \in Range(t) : r.id # q.id
        PROVE  Distinct(s \o t)
    <2>1. \A i \in 1..Len(s), j \in 1..Len(t) : s[i].id # t[j].id
      BY <1>3, InRange
    <2> SUFFICES ASSUME NEW i \in 1..Len(s) + Len(t), NEW j \in 1..Len(s) + Len(t),
                        (s \o t)[i].id = (s \o t)[j].id
                 PROVE  i = j
      BY <1>1 DEF Distinct
    <2>2. CASE i <= Len(s) /\ j <= Len(s)
      BY <1>1, <1>3, <2>2 DEF Distinct
    <2>3. CASE i > Len(s) /\ j > Len(s)
      <3>1. i - Len(s) \in 1..Len(t) /\ j - Len(s) \in 1..Len(t)
        BY <1>1, <2>3
      <3> QED BY <1>1, <1>3, <2>3, <3>1 DEF Distinct
    <2>4. CASE i <= Len(s) /\ j > Len(s)
      <3>1. i \in 1..Len(s) /\ j - Len(s) \in 1..Len(t)
        BY <1>1, <2>4
      <3> QED BY <1>1, <2>1, <2>4, <3>1
    <2>5. CASE i > Len(s) /\ j <= Len(s)
      <3>1. j \in 1..Len(s) /\ i - Len(s) \in 1..Len(t)
        BY <1>1, <2>5
      <3> QED BY <1>1, <2>1, <2>5, <3>1
    <2> QED BY <1>1, <2>2, <2>3, <2>4, <2>5
  <1> QED BY <1>1, <1>2, <1>3

\* The first records of a sequence.
LEMMA Cut ==
  ASSUME NEW s \in Seq(Record), NEW n \in 0..Len(s)
  PROVE  /\ SubSeq(s, 1, n) \in Seq(Record)
         /\ Range(SubSeq(s, 1, n)) \subseteq Range(s)
         /\ Distinct(s) => Distinct(SubSeq(s, 1, n))
  <1>1. /\ SubSeq(s, 1, n) \in Seq(Record) /\ Len(s) \in Nat
        /\ Len(SubSeq(s, 1, n)) = n
        /\ \A i \in 1..n : SubSeq(s, 1, n)[i] = s[i]
    OBVIOUS
  <1>2. ASSUME NEW x \in Range(SubSeq(s, 1, n)) PROVE x \in Range(s)
    <2>1. PICK i \in 1..n : SubSeq(s, 1, n)[i] = x
      BY <1>1, <1>2, InRange, ZenonT(60)
    <2>2. i \in 1..Len(s) /\ s[i] = x
      BY <1>1, <2>1
    <2> QED BY <2>2, InRange
  <1>3. Distinct(s) => Distinct(SubSeq(s, 1, n))
    BY <1>1 DEF Distinct
  <1> QED BY <1>1, <1>2, <1>3

\* The first record of a sequence and the others.
LEMMA FirstAndRest ==
  ASSUME NEW s \in Seq(Record), s # <<>>
  PROVE  /\ Head(s) \in Range(s)
         /\ Tail(s) \in Seq(Record)
         /\ Range(Tail(s)) \subseteq Range(s)
  <1>1. /\ Len(s) \in Nat \ {0} /\ Head(s) = s[1] /\ Tail(s) \in Seq(Record)
        /\ Len(Tail(s)) = Len(s) - 1
        /\ \A i \in 1..Len(s) - 1 : Tail(s)[i] = s[i + 1]
    OBVIOUS
  <1>2. Head(s) \in Range(s)
    <2>1. 1 \in 1..Len(s) /\ s[1] = Head(s)
      BY <1>1
    <2> QED BY <2>1, InRange
  <1>3. ASSUME NEW x \in Range(Tail(s)) PROVE x \in Range(s)
    <2>1. PICK i \in 1..Len(Tail(s)) : Tail(s)[i] = x
      BY <1>1, <1>3, InRange, ZenonT(60)
    <2>2. i + 1 \in 1..Len(s) /\ s[i + 1] = x
      BY <1>1, <2>1
    <2> QED BY <2>2, InRange
  <1> QED BY <1>1, <1>2, <1>3

\* The recursion Without is written with has a solution.
NextPrefix(g, s, gone, n) ==
    IF n = 0 THEN <<>> ELSE IF s[n] \in gone THEN g[n - 1] ELSE Append(g[n - 1], s[n])

IsPrefixes(g, s, gone, m) == g = [n \in 0..m |-> NextPrefix(g, s, gone, n)]

LEMMA WithoutDefined ==
  ASSUME NEW s, NEW gone, NEW m \in Nat
  PROVE  \E g : IsPrefixes(g, s, gone, m)
  <1> DEFINE S == {k \in Nat : \E g : IsPrefixes(g, s, gone, k)}
  <1>1. 0 \in S
    <2> DEFINE g == [n \in 0..0 |-> <<>>]
    <2>1. IsPrefixes(g, s, gone, 0)
      BY DEF IsPrefixes, NextPrefix
    <2> QED BY <2>1
  <1>2. ASSUME NEW k \in Nat, k \in S PROVE k + 1 \in S
    <2>1. PICK g : IsPrefixes(g, s, gone, k)
      BY <1>2
    <2> DEFINE h == [n \in 0..k + 1 |-> NextPrefix(g, s, gone, n)]
    <2>2. \A n \in 0..k : h[n] = g[n]
      <3>1. \A n \in 0..k : g[n] = NextPrefix(g, s, gone, n)
        BY <2>1 DEF IsPrefixes
      <3>2. \A n \in 0..k : n \in 0..k + 1
        OBVIOUS
      <3> QED BY <3>1, <3>2
    <2>3. \A n \in 0..k + 1 : NextPrefix(h, s, gone, n) = NextPrefix(g, s, gone, n)
      <3> HIDE DEF h
      <3>1. \A n \in 0..k + 1 : n # 0 => n - 1 \in 0..k
        OBVIOUS
      <3> QED BY <2>2, <3>1 DEF NextPrefix
    <2>4. IsPrefixes(h, s, gone, k + 1)
      BY <2>3 DEF IsPrefixes
    <2> HIDE DEF h
    <2> QED BY <2>4
  <1>3. Nat \subseteq S
    <2> HIDE DEF S
    <2> QED BY <1>1, <1>2, SetInduction
  <1> QED BY <1>3

\* The steps of Without.
LEMMA WithoutSteps ==
  ASSUME NEW s \in Seq(Record), NEW gone
  PROVE  \E f : /\ f[0] = <<>>
                /\ \A n \in 1..Len(s) :
                     f[n] = IF s[n] \in gone THEN f[n - 1] ELSE Append(f[n - 1], s[n])
                /\ Without(s, gone) = f[Len(s)]
  <1> DEFINE f == CHOOSE g : IsPrefixes(g, s, gone, Len(s))
  <1>1. Len(s) \in Nat
    OBVIOUS
  <1>2. \E g : IsPrefixes(g, s, gone, Len(s))
    BY <1>1, WithoutDefined
  <1>3. IsPrefixes(f, s, gone, Len(s))
    BY <1>2
  <1>4. Without(s, gone) = f[Len(s)]
    BY DEF Without, IsPrefixes, NextPrefix
  <1> HIDE DEF f
  <1>5. \A n \in 0..Len(s) : f[n] = NextPrefix(f, s, gone, n)
    BY <1>3 DEF IsPrefixes
  <1>6. f[0] = <<>>
    BY <1>1, <1>5 DEF NextPrefix
  <1>7. \A n \in 1..Len(s) :
          f[n] = IF s[n] \in gone THEN f[n - 1] ELSE Append(f[n - 1], s[n])
    BY <1>1, <1>5 DEF NextPrefix
  <1> QED BY <1>4, <1>6, <1>7

\* What Without leaves: the other records, each where it was among them.
LEMMA WithoutLeaves ==
  ASSUME NEW s \in Seq(Record), NEW gone
  PROVE  /\ Without(s, gone) \in Seq(Record)
         /\ Range(Without(s, gone)) = Range(s) \ gone
         /\ Distinct(s) => Distinct(Without(s, gone))
  <1>1. PICK f : /\ f[0] = <<>>
                 /\ \A n \in 1..Len(s) :
                      f[n] = IF s[n] \in gone THEN f[n - 1] ELSE Append(f[n - 1], s[n])
                 /\ Without(s, gone) = f[Len(s)]
    BY WithoutSteps
  <1> DEFINE Left(n) == {s[i] : i \in 1..n} \ gone
             Good(n) == /\ f[n] \in Seq(Record)
                        /\ Range(f[n]) = Left(n)
                        /\ Distinct(s) => Distinct(f[n])
             S == {n \in Nat : n <= Len(s) => Good(n)}
  <1>2. 0 \in S
    <2>1. <<>> \in Seq(Record) /\ Range(<<>>) = {} /\ Distinct(<<>>) /\ Left(0) = {}
      BY DEF Range, Distinct
    <2> QED BY <1>1, <2>1
  <1>3. ASSUME NEW n \in Nat, n \in S PROVE n + 1 \in S
    <2> SUFFICES ASSUME n + 1 <= Len(s) PROVE Good(n + 1)
      BY <1>3
    <2>1. Good(n) /\ Len(s) \in Nat
      BY <1>3
    <2>2. n + 1 \in 1..Len(s) /\ (n + 1) - 1 = n /\ s[n + 1] \in Record
      BY <2>1
    <2>3. f[n + 1] = IF s[n + 1] \in gone THEN f[n] ELSE Append(f[n], s[n + 1])
      BY <1>1, <2>2
    <2>4. Left(n + 1) = Left(n) \cup ({s[n + 1]} \ gone)
      OBVIOUS
    <2>5. CASE s[n + 1] \in gone
      BY <2>1, <2>3, <2>4, <2>5
    <2>6. CASE s[n + 1] \notin gone
      <3>1. ASSUME Distinct(s), NEW q \in Range(f[n]) PROVE q.id # s[n + 1].id
        <4>1. PICK i \in 1..n : q = s[i]
          BY <2>1, <3>1
        <4> QED BY <2>1, <2>2, <3>1, <4>1 DEF Distinct
      <3> HIDE DEF Left
      <3>2. /\ Append(f[n], s[n + 1]) \in Seq(Record)
            /\ Range(Append(f[n], s[n + 1])) = Range(f[n]) \cup {s[n + 1]}
            /\ Distinct(s) => Distinct(Append(f[n], s[n + 1]))
        BY <2>1, <2>2, <3>1, AppendedAre
      <3> QED BY <2>1, <2>3, <2>4, <2>6, <3>2
    <2> QED BY <2>5, <2>6
  <1>4. Nat \subseteq S
    <2> HIDE DEF S
    <2> QED BY <1>2, <1>3, SetInduction
  <1>5. Good(Len(s))
    <2>1. Len(s) \in Nat
      OBVIOUS
    <2>2. Len(s) \in S
      BY <1>4, <2>1
    <2> HIDE DEF Good
    <2> QED BY <2>1, <2>2
  <1>6. Left(Len(s)) = Range(s) \ gone
    <2>1. Range(s) = {s[i] : i \in 1..Len(s)}
      BY DEF Range
    <2> QED BY <2>1
  <1> QED BY <1>1, <1>5, <1>6

-----------------------------------------------------------------------------
(* The operators of the model                                              *)

\* The order prepare_records seals a set of identities in.
LEMMA SealOrder ==
  ASSUME NEW ids \in SUBSET Identities
  PROVE  /\ Cardinality(ids) \in Nat
         /\ SetToSeq(ids) \in [1..Cardinality(ids) -> ids]
         /\ \A i, j \in 1..Cardinality(ids) : SetToSeq(ids)[i] = SetToSeq(ids)[j] => i = j
  <1>1. IsFiniteSet(ids)
    BY PipelineAssumptionHolds, FS_Subset DEF PipelineAssumption
  <1>2. Cardinality(ids) \in Nat /\ ExistsBijection(1..Cardinality(ids), ids)
    BY <1>1, FS_CardinalityType
  <1>3. \E f \in [1..Cardinality(ids) -> ids] : IsInjective(f)
    BY <1>2 DEF ExistsBijection, Bijection, Injection
  <1>4. SetToSeq(ids) \in [1..Cardinality(ids) -> ids] /\ IsInjective(SetToSeq(ids))
    BY <1>3 DEF SetToSeq
  <1> QED BY <1>2, <1>4 DEF IsInjective

\* An empty batch has no bytes.
NextSum(g, s, n) == IF n = 0 THEN 0 ELSE g[n - 1] + WireBytes[s[n].row]

LEMMA NoBytes == BytesOf(<<>>) = 0
  <1> DEFINE f == CHOOSE g : g = [n \in 0..0 |-> NextSum(g, <<>>, n)]
             h == [n \in 0..0 |-> 0]
  <1>1. h = [n \in 0..0 |-> NextSum(h, <<>>, n)]
    BY DEF NextSum
  <1>2. f = [n \in 0..0 |-> NextSum(f, <<>>, n)]
    BY <1>1
  <1>3. BytesOf(<<>>) = f[0]
    BY DEF BytesOf, NextSum
  <1> HIDE DEF f
  <1> QED BY <1>2, <1>3 DEF NextSum

\* pending reads the oldest records, some number of them.
LEMMA PendingIsOldest ==
  ASSUME outbox \in Seq(Record)
  PROVE  \E n \in 0..Len(outbox) : Pending = SubSeq(outbox, 1, n)
  <1> DEFINE fits == {n \in 0..Len(outbox) :
                        n <= Limit /\ BytesOf(SubSeq(outbox, 1, n)) <= MaxWireBytes}
             n == CHOOSE k \in fits : \A m \in fits : m <= k
  <1>1. Pending = SubSeq(outbox, 1, n)
    BY DEF Pending
  <1>2. Len(outbox) \in Nat /\ Limit \in Nat /\ MaxWireBytes \in Nat
    BY PipelineAssumptionHolds DEF PipelineAssumption
  <1>3. 0 \in fits
    <2>1. SubSeq(outbox, 1, 0) = <<>>
      BY SubSeqEmpty
    <2>2. BytesOf(SubSeq(outbox, 1, 0)) = 0
      BY <2>1, NoBytes
    <2>3. 0 \in 0..Len(outbox) /\ 0 <= Limit /\ 0 <= MaxWireBytes
      BY <1>2
    <2> QED BY <2>2, <2>3
  <1>4. fits \in SUBSET (0..Len(outbox))
    OBVIOUS
  <1> HIDE DEF fits
  <1> DEFINE T == {Len(outbox) - k : k \in fits}
  <1>5. T \in SUBSET Nat /\ T # {}
    BY <1>2, <1>3, <1>4
  <1>6. PICK x \in T : \A y \in T : x <= y
    BY <1>5, LeastOf
  <1>7. PICK k \in fits : x = Len(outbox) - k
    BY <1>6
  <1>8. ASSUME NEW m \in fits PROVE m <= k
    <2>1. x <= Len(outbox) - m
      BY <1>6, <1>8
    <2> QED BY <1>2, <1>4, <1>7, <2>1
  <1>9. n \in fits
    BY <1>7, <1>8
  <1> QED BY <1>1, <1>4, <1>9

-----------------------------------------------------------------------------
(* The invariant                                                           *)

Job == [phase : {"rest", "deliver", "acknowledge", "forget"},
        batch : Seq(Record), done : Seq(Record)]

PipeType ==
    /\ outbox \in Seq(Record) /\ relay \in Seq(Record)
    /\ source \in Seq(Record) /\ sending \in Seq(Record)
    /\ lease \in [1..MaxSeals -> Workers \cup {Nobody}]
    /\ ledger \in [Identities -> Record \cup {NoRecord}]
    /\ worker \in [Workers -> Job]
    /\ seals \in 0..MaxSeals

(* Every sequence holds an identity once.                                  *)
OneEach == Distinct(outbox) /\ Distinct(relay) /\ Distinct(source) /\ Distinct(sending)

(* A record on the path is still staged, or its identity is committed.     *)
Covered(r) == r \in Range(outbox) \/ ledger[r.id] # NoRecord

AllCovered ==
    /\ \A r \in Range(relay) \cup Range(sending) : Covered(r)
    /\ \A w \in Workers : \A r \in Range(worker[w].batch) : Covered(r)

(* A worker acknowledges only what is committed.                           *)
DoneIsCommitted ==
    \A w \in Workers : \A r \in Range(worker[w].done) : ledger[r.id] # NoRecord

(* There is a record to deliver.                                           *)
Delivering == \A w \in Workers : worker[w].phase = "deliver" => worker[w].batch # <<>>

(* The target has what is committed, once.                                 *)
WrittenOnce ==
    target = [id \in Identities |-> IF ledger[id] = NoRecord THEN <<>> ELSE <<ledger[id].row>>]

PInv == /\ PipeType /\ OneEach
        /\ AllCovered /\ DoneIsCommitted
        /\ Delivering /\ WrittenOnce

\* The invariant says what the run's invariant says.
LEMMA PInvIsSafe == PInv => PathSafe
  <1> SUFFICES ASSUME PInv PROVE PathSafe
    OBVIOUS
  <1>1. PipeTypeOK
    <2>1. \A store \in {outbox, relay} :
            \A i, j \in 1..Len(store) : store[i].id = store[j].id => i = j
      BY DEF PInv, OneEach, Distinct
    <2>2. seals \in 0..MaxSeals /\ (\A s \in 1..MaxSeals : lease[s] \in Workers \cup {Nobody})
      BY DEF PInv, PipeType
    <2>3. \A w \in Workers : worker[w].phase \in {"rest", "deliver", "acknowledge", "forget"}
      BY DEF PInv, PipeType, Job
    <2> QED BY <2>1, <2>2, <2>3 DEF PipeTypeOK
  <1>2. RelayIsRecoverable
    BY DEF PInv, AllCovered, Covered, RelayIsRecoverable
  <1> QED BY <1>1, <1>2 DEF PathSafe

\* A sealed record is not the absence of one.
LEMMA RecordIsNotNone == NoRecord \notin Record /\ "none" \notin Rows
  BY PipelineAssumptionHolds DEF PipelineAssumption, NoRecord, Record

LEMMA EmptyIsFine == <<>> \in Seq(Record) /\ Range(<<>>) = {} /\ Distinct(<<>>)
  BY DEF Range, Distinct

LEMMA RestingIsJob == /\ Resting \in Job /\ Resting.phase = "rest"
                      /\ Resting.batch = <<>> /\ Resting.done = <<>>
  BY DEF Resting, Job

\* The initial states satisfy the invariant.
LEMMA PInvInit == PipeInit => PInv
  <1> SUFFICES ASSUME PipeInit PROVE PInv
    OBVIOUS
  <1>1. PipeType
    BY EmptyIsFine, RestingIsJob, PipelineAssumptionHolds
       DEF PipeInit, PipeType, PipelineAssumption
  <1>2. OneEach
    BY EmptyIsFine DEF PipeInit, OneEach
  <1>3. AllCovered /\ DoneIsCommitted
    BY EmptyIsFine, RestingIsJob DEF PipeInit, AllCovered, DoneIsCommitted
  <1>4. Delivering
    BY RestingIsJob DEF PipeInit, Delivering
  <1>5. WrittenOnce
    BY DEF PipeInit, WrittenOnce
  <1> QED BY <1>1, <1>2, <1>3, <1>4, <1>5 DEF PInv

-----------------------------------------------------------------------------
(* The promise                                                             *)

\* What Kept says, by where the identity is.
KeptIs(id) ==
    /\ ledger[id] # NoRecord => Kept(id) = ledger[id].row
    /\ ledger[id] = NoRecord =>
         /\ id \notin Ids(outbox) => Kept(id) = "none"
         /\ \A r \in Range(outbox) : r.id = id => Kept(id) = r.row
    /\ Kept(id) \in Rows \cup {"none"}

AllKept == \A id \in Identities : KeptIs(id)

LEMMA KeptNow == PInv => AllKept
  <1> SUFFICES ASSUME PInv, NEW id \in Identities PROVE KeptIs(id)
    BY DEF AllKept
  <1>1. ASSUME ledger[id] # NoRecord PROVE Kept(id) = ledger[id].row
    BY <1>1 DEF Kept
  <1>2. ASSUME ledger[id] = NoRecord, id \notin Ids(outbox) PROVE Kept(id) = "none"
    BY <1>2 DEF Kept
  <1>3. ASSUME ledger[id] = NoRecord, NEW r \in Range(outbox), r.id = id
        PROVE  Kept(id) = r.row
    <2>1. id \in Ids(outbox)
      BY <1>3 DEF Ids
    <2>2. \A q \in Range(outbox) : q.id = id => q = r
      <3> SUFFICES ASSUME NEW q \in Range(outbox), q.id = id PROVE q = r
        OBVIOUS
      <3>1. outbox \in Seq(Record) /\ Distinct(outbox)
        BY DEF PInv, PipeType, OneEach
      <3>2. PICK i \in 1..Len(outbox) : outbox[i] = q
        BY <3>1, InRange
      <3>3. PICK j \in 1..Len(outbox) : outbox[j] = r
        BY <3>1, InRange
      <3> QED BY <1>3, <3>1, <3>2, <3>3 DEF Distinct
    <2>3. (CHOOSE q \in Range(outbox) : q.id = id) = r
      BY <1>3, <2>2
    <2> QED BY <1>3, <2>1, <2>3 DEF Kept
  <1>4. Kept(id) \in Rows \cup {"none"}
    <2>1. CASE ledger[id] # NoRecord
      BY <1>1, <2>1 DEF PInv, PipeType, Record
    <2>2. CASE ledger[id] = NoRecord /\ id \notin Ids(outbox)
      BY <1>2, <2>2
    <2>3. CASE ledger[id] = NoRecord /\ id \in Ids(outbox)
      <3>1. PICK r \in Range(outbox) : r.id = id
        BY <2>3 DEF Ids
      <3>2. r \in Record
        BY <3>1, RangeIn DEF PInv, PipeType
      <3> QED BY <1>3, <2>3, <3>1, <3>2 DEF Record
    <2> QED BY <2>1, <2>2, <2>3
  <1> QED BY <1>1, <1>2, <1>3, <1>4 DEF KeptIs

LEMMA KeptNext == PInv' => AllKept'
  BY KeptNow, PTL

PathStep == PInv' /\ [Promise!HandoverNext]_(Promise!handoverVars)

\* A step that commits nothing and takes no record from the outbox that is not
\* committed: the path keeps what it has accepted.
LEMMA PathFrame ==
  ASSUME PInv, UNCHANGED <<ledger, target>>, PipeType', OneEach',
         \A r \in Range(outbox) : r \in Range(outbox') \/ ledger[r.id] # NoRecord,
         \A r \in Range(relay') \cup Range(sending') : Covered(r),
         \A w \in Workers :
            \/ worker'[w] = worker[w]
            \/ /\ \A r \in Range(worker'[w].batch) : Covered(r)
               /\ \A r \in Range(worker'[w].done) : ledger[r.id] # NoRecord
               /\ worker'[w].phase = "deliver" => worker'[w].batch # <<>>
  PROVE  PathStep
  <1>1. \A r : Covered(r) => Covered(r)'
    BY DEF Covered
  <1>2. AllCovered'
    BY <1>1 DEF PInv, AllCovered
  <1>3. DoneIsCommitted' /\ Delivering'
    BY DEF PInv, DoneIsCommitted, Delivering
  <1>4. PInv'
    BY <1>2, <1>3 DEF PInv, WrittenOnce
  <1>5. AllKept /\ AllKept'
    BY <1>4, KeptNow, KeptNext
  <1>6. ASSUME NEW id \in Identities
        PROVE  Kept(id)' \in Rows \cup {"none"} /\ Kept(id) \in {"none", Kept(id)'}
    <2>1. KeptIs(id) /\ KeptIs(id)'
      BY <1>5 DEF AllKept
    <2>2. CASE ledger[id] # NoRecord
      BY <2>1, <2>2 DEF KeptIs
    <2>3. CASE ledger[id] = NoRecord /\ id \notin Ids(outbox)
      BY <2>1, <2>3 DEF KeptIs
    <2>4. CASE ledger[id] = NoRecord /\ id \in Ids(outbox)
      <3>1. PICK r \in Range(outbox) : r.id = id
        BY <2>4 DEF Ids
      <3>2. r \in Range(outbox')
        BY <2>4, <3>1
      <3> QED BY <2>1, <2>4, <3>1, <3>2 DEF KeptIs
    <2> QED BY <2>2, <2>3, <2>4
  <1>7. Promise!Keep
    BY <1>6 DEF Promise!Keep
  <1> QED BY <1>4, <1>7 DEF PathStep, Promise!HandoverNext

\* prepare_records seals a batch of distinct identities.
LEMMA SealStep ==
  ASSUME PInv, NEW ids \in SUBSET Identities, NEW row \in Rows, Seal(ids, row)
  PROVE  PathStep
  <1> DEFINE order == SetToSeq(ids)
             n == Cardinality(ids)
             new == [i \in 1..n |-> [id |-> order[i], seal |-> seals + i, row |-> row]]
  <1>1. /\ n \in Nat /\ order \in [1..n -> ids]
        /\ \A i, j \in 1..n : order[i] = order[j] => i = j
    BY SealOrder
  <1> HIDE DEF order, n
  <1>2. Len(order) = n
    BY <1>1
  <1>3. /\ source' = new /\ seals + n <= MaxSeals /\ seals' = seals + n
        /\ UNCHANGED <<outbox, relay, lease, ledger, target, sending, worker>>
    BY <1>2 DEF Seal, order, n
  <1>4. seals \in Nat /\ MaxSeals \in Nat
    BY PipelineAssumptionHolds DEF PInv, PipeType, PipelineAssumption
  <1>5. \A i \in 1..n : [id |-> order[i], seal |-> seals + i, row |-> row] \in Record
    <2> SUFFICES ASSUME NEW i \in 1..n
                 PROVE  [id |-> order[i], seal |-> seals + i, row |-> row] \in Record
      OBVIOUS
    <2>1. order[i] \in Identities /\ seals + i \in 1..MaxSeals
      BY <1>1, <1>3, <1>4
    <2> QED BY <2>1 DEF Record
  <1>6. new \in Seq(Record) /\ Len(new) = n
    BY <1>1, <1>5
  <1>7. Distinct(new)
    <2>1. \A i \in 1..n : new[i].id = order[i]
      OBVIOUS
    <2> HIDE DEF new
    <2> QED BY <1>1, <1>6, <2>1 DEF Distinct
  <1> HIDE DEF new
  <1>8. PipeType'
    BY <1>1, <1>3, <1>4, <1>6 DEF PInv, PipeType
  <1>9. OneEach'
    BY <1>3, <1>7 DEF PInv, OneEach
  <1> QED BY <1>3, <1>8, <1>9, PathFrame DEF PInv, AllCovered

\* stage_many adds what it does not hold, or nothing.
LEMMA PathStageStep ==
  ASSUME PInv, Stage
  PROVE  PathStep
  <1> DEFINE new == Missing(outbox, source)
  <1>1. /\ outbox \in Seq(Record) /\ source \in Seq(Record)
        /\ Distinct(outbox) /\ Distinct(source)
    BY DEF PInv, PipeType, OneEach
  <1>2. new \in Seq(Record) /\ Range(new) = Range(source) \ Range(outbox) /\ Distinct(new)
    BY <1>1, WithoutLeaves DEF Missing
  <1>3. /\ outbox' = IF Stageable(source) THEN outbox \o new ELSE outbox
        /\ source' = <<>> \/ source' = source
        /\ UNCHANGED <<relay, lease, ledger, target, sending, worker, seals>>
    BY DEF Stage
  <1> HIDE DEF new
  <1>4. outbox' \in Seq(Record) /\ Distinct(outbox') /\ Range(outbox) \subseteq Range(outbox')
    <2>1. CASE ~Stageable(source)
      BY <1>1, <1>3, <2>1
    <2>2. CASE Stageable(source)
      <3>1. \A r \in Range(outbox), q \in Range(new) : r.id # q.id
        BY <1>2, <2>2 DEF Stageable
      <3>2. outbox' = outbox \o new
        BY <1>3, <2>2
      <3> QED BY <1>1, <1>2, <3>1, <3>2, Concatenated
    <2> QED BY <2>1, <2>2
  <1>5. source' \in Seq(Record) /\ Distinct(source')
    BY <1>1, <1>3, EmptyIsFine
  <1>6. PipeType' /\ OneEach'
    BY <1>3, <1>4, <1>5 DEF PInv, PipeType, OneEach
  <1> QED BY <1>3, <1>4, <1>6, PathFrame DEF PInv, AllCovered

\* The sender reads what is pending and offers it to the relay.
LEMMA SenderSteps ==
  ASSUME PInv, SenderStep
  PROVE  PathStep
  <1>1. /\ outbox \in Seq(Record) /\ relay \in Seq(Record) /\ sending \in Seq(Record)
        /\ Distinct(outbox) /\ Distinct(relay) /\ Distinct(sending)
    BY DEF PInv, PipeType, OneEach
  <1>2. CASE ReadPending
    <2>1. PICK n \in 0..Len(outbox) : Pending = SubSeq(outbox, 1, n)
      BY <1>1, PendingIsOldest
    <2>2. /\ sending' = SubSeq(outbox, 1, n)
          /\ UNCHANGED <<outbox, relay, lease, ledger, target, source, worker, seals>>
      BY <1>2, <2>1 DEF ReadPending
    <2>3. /\ sending' \in Seq(Record) /\ Distinct(sending')
          /\ Range(sending') \subseteq Range(outbox)
      BY <1>1, <2>1, <2>2, Cut
    <2>4. PipeType' /\ OneEach'
      BY <2>2, <2>3 DEF PInv, PipeType, OneEach
    <2>5. \A r \in Range(relay') \cup Range(sending') : Covered(r)
      BY <2>2, <2>3 DEF PInv, AllCovered, Covered
    <2> QED BY <2>2, <2>4, <2>5, PathFrame
  <1>3. CASE Enqueue
    <2> DEFINE new == Missing(relay, sending)
    <2>1. new \in Seq(Record) /\ Range(new) = Range(sending) \ Range(relay) /\ Distinct(new)
      BY <1>1, WithoutLeaves DEF Missing
    <2>2. /\ relay' = IF \A r \in Range(sending), q \in Range(relay) : r.id = q.id => r = q
                      THEN relay \o new ELSE relay
          /\ sending' = <<>>
          /\ UNCHANGED <<outbox, lease, ledger, target, source, worker, seals>>
      BY <1>3 DEF Enqueue
    <2> HIDE DEF new
    <2>3. /\ relay' \in Seq(Record) /\ Distinct(relay')
          /\ Range(relay') \subseteq Range(relay) \cup Range(sending)
      <3>1. CASE \A r \in Range(sending), q \in Range(relay) : r.id = q.id => r = q
        <4>1. \A r \in Range(relay), q \in Range(new) : r.id # q.id
          BY <2>1, <3>1
        <4>2. relay' = relay \o new
          BY <2>2, <3>1
        <4> QED BY <1>1, <2>1, <4>1, <4>2, Concatenated
      <3>2. CASE relay' = relay
        BY <1>1, <3>2
      <3> QED BY <2>2, <3>1, <3>2
    <2>4. PipeType' /\ OneEach'
      BY <2>2, <2>3, EmptyIsFine DEF PInv, PipeType, OneEach
    <2>5. \A r \in Range(relay') \cup Range(sending') : Covered(r)
      BY <2>2, <2>3, EmptyIsFine DEF PInv, AllCovered
    <2> QED BY <2>2, <2>4, <2>5, PathFrame
  <1> QED BY <1>2, <1>3 DEF SenderStep

\* A worker leases records of the relay.
LEMMA PathLeaseStep ==
  ASSUME PInv, NEW w \in Workers, Lease(w)
  PROVE  PathStep
  <1> DEFINE free == Without(relay, {r \in Range(relay) : lease[r.seal] # Nobody})
             n == IF Len(free) < Limit THEN Len(free) ELSE Limit
             picked == SubSeq(free, 1, n)
             job == [phase |-> "deliver", batch |-> picked, done |-> <<>>]
  <1>1. relay \in Seq(Record)
    BY DEF PInv, PipeType
  <1>2. free \in Seq(Record) /\ Range(free) \subseteq Range(relay)
    BY <1>1, WithoutLeaves
  <1>3. /\ picked # <<>>
        /\ lease' = [s \in 1..MaxSeals |-> IF \E r \in Range(picked) : r.seal = s
                                           THEN w ELSE lease[s]]
        /\ worker' = [worker EXCEPT ![w] = job]
        /\ UNCHANGED <<outbox, relay, ledger, target, source, sending, seals>>
    BY DEF Lease
  <1> HIDE DEF free
  <1>4. n \in 0..Len(free)
    BY <1>2, PipelineAssumptionHolds DEF PipelineAssumption
  <1> HIDE DEF n
  <1>5. picked \in Seq(Record) /\ Range(picked) \subseteq Range(relay)
    BY <1>2, <1>4, Cut
  <1> HIDE DEF picked
  <1>6. job \in Job /\ job.batch = picked /\ job.done = <<>>
    BY <1>5, EmptyIsFine DEF Job
  <1> HIDE DEF job
  <1>7. PipeType'
    BY <1>3, <1>6 DEF PInv, PipeType
  <1>8. \A v \in Workers : worker'[v] = IF v = w THEN job ELSE worker[v]
    BY <1>3 DEF PInv, PipeType
  <1>9. \A v \in Workers :
           \/ worker'[v] = worker[v]
           \/ /\ \A r \in Range(worker'[v].batch) : Covered(r)
              /\ \A r \in Range(worker'[v].done) : ledger[r.id] # NoRecord
              /\ worker'[v].phase = "deliver" => worker'[v].batch # <<>>
    BY <1>3, <1>5, <1>6, <1>8, EmptyIsFine DEF PInv, AllCovered
  <1> QED BY <1>3, <1>7, <1>9, PathFrame DEF PInv, OneEach, AllCovered

\* A worker gives its batch up, or goes on to the next step with it.
LEMMA WorkerFrame ==
  ASSUME PInv, NEW w \in Workers, NEW job \in Job,
         worker' = [worker EXCEPT ![w] = job],
         job.batch = <<>> \/ job.batch = worker[w].batch, job.phase # "deliver",
         job.done = <<>> \/ job.done = worker[w].done,
         UNCHANGED <<ledger, target, source, sending, seals>>,
         lease' \in [1..MaxSeals -> Workers \cup {Nobody}],
         outbox' \in Seq(Record), Distinct(outbox'), relay' \in Seq(Record), Distinct(relay'),
         \A r \in Range(outbox) : r \in Range(outbox') \/ ledger[r.id] # NoRecord,
         Range(relay') \subseteq Range(relay)
  PROVE  PathStep
  <1>1. PipeType'
    BY DEF PInv, PipeType
  <1>2. OneEach'
    BY DEF PInv, OneEach
  <1>3. \A v \in Workers : worker'[v] = IF v = w THEN job ELSE worker[v]
    BY DEF PInv, PipeType
  <1>4. \A v \in Workers :
           \/ worker'[v] = worker[v]
           \/ /\ \A r \in Range(worker'[v].batch) : Covered(r)
              /\ \A r \in Range(worker'[v].done) : ledger[r.id] # NoRecord
              /\ worker'[v].phase = "deliver" => worker'[v].batch # <<>>
    BY <1>3, EmptyIsFine DEF PInv, AllCovered, DoneIsCommitted
  <1>5. \A r \in Range(relay') \cup Range(sending') : Covered(r)
    BY DEF PInv, AllCovered
  <1> QED BY <1>1, <1>2, <1>4, <1>5, PathFrame

\* The relay forgets the records of a batch, or the worker gives up.
LEMMA AckRelayStep ==
  ASSUME PInv, NEW w \in Workers, AckRelay(w)
  PROVE  PathStep
  <1>0. /\ outbox \in Seq(Record) /\ relay \in Seq(Record) /\ worker[w] \in Job
        /\ Distinct(outbox) /\ Distinct(relay)
        /\ lease \in [1..MaxSeals -> Workers \cup {Nobody}]
        /\ UNCHANGED <<outbox, ledger, target, source, sending, seals>>
    BY DEF PInv, PipeType, OneEach, AckRelay
  <1>1. CASE Owns(w, worker[w].done)
    <2> DEFINE kept == Without(relay, Range(worker[w].done))
               job == [worker[w] EXCEPT !.phase = "forget"]
    <2>1. /\ relay' = kept
          /\ lease' = [s \in 1..MaxSeals |->
                         IF \E r \in Range(worker[w].done) : r.seal = s
                         THEN Nobody ELSE lease[s]]
          /\ worker' = [worker EXCEPT ![w] = job]
      BY <1>1 DEF AckRelay, PInv, PipeType
    <2>2. kept \in Seq(Record) /\ Range(kept) \subseteq Range(relay) /\ Distinct(kept)
      BY <1>0, WithoutLeaves
    <2>3. job \in Job /\ job.batch = worker[w].batch /\ job.phase = "forget"
          /\ job.done = worker[w].done
      BY <1>0 DEF Job
    <2> HIDE DEF kept, job
    <2>4. lease' \in [1..MaxSeals -> Workers \cup {Nobody}]
      BY <1>0, <2>1
    <2> QED BY <1>0, <2>1, <2>2, <2>3, <2>4, WorkerFrame
  <1>2. CASE ~Owns(w, worker[w].done)
    <2>1. worker' = [worker EXCEPT ![w] = Resting] /\ UNCHANGED <<relay, lease>>
      BY <1>2 DEF AckRelay
    <2> QED BY <1>0, <2>1, RestingIsJob, WorkerFrame
  <1> QED BY <1>1, <1>2

\* The outbox forgets what is committed.
LEMMA AckOutboxStep ==
  ASSUME PInv, NEW w \in Workers, AckOutbox(w)
  PROVE  PathStep
  <1>0. /\ outbox \in Seq(Record) /\ relay \in Seq(Record) /\ Distinct(relay)
        /\ Distinct(outbox) /\ lease \in [1..MaxSeals -> Workers \cup {Nobody}]
    BY DEF PInv, PipeType, OneEach
  <1> DEFINE kept == Without(outbox, Range(worker[w].done))
  <1>1. /\ outbox' = kept /\ worker' = [worker EXCEPT ![w] = Resting]
        /\ UNCHANGED <<relay, lease, ledger, target, source, sending, seals>>
    BY DEF AckOutbox
  <1>2. /\ kept \in Seq(Record) /\ Distinct(kept)
        /\ Range(kept) = Range(outbox) \ Range(worker[w].done)
    BY <1>0, WithoutLeaves
  <1> HIDE DEF kept
  <1>3. \A r \in Range(outbox) : r \in Range(outbox') \/ ledger[r.id] # NoRecord
    BY <1>1, <1>2 DEF PInv, DoneIsCommitted
  <1> QED BY <1>0, <1>1, <1>2, <1>3, RestingIsJob, WorkerFrame

\* A worker dies, or its leases run out.
LEMMA WorkerEnds ==
  ASSUME PInv, NEW w \in Workers, WorkerDies(w) \/ LeasesLapse(w) \/ LeasesLapseEarly(w)
  PROVE  PathStep
  <1>1. CASE WorkerDies(w)
    <2>1. /\ worker' = [worker EXCEPT ![w] = Resting]
          /\ UNCHANGED <<outbox, relay, lease, ledger, target, source, sending, seals>>
      BY <1>1 DEF WorkerDies
    <2> QED BY <2>1, RestingIsJob, WorkerFrame DEF PInv, PipeType, OneEach
  <1>2. CASE LeasesLapse(w) \/ LeasesLapseEarly(w)
    <2>1. /\ lease' = [s \in 1..MaxSeals |-> IF lease[s] = w THEN Nobody ELSE lease[s]]
          /\ UNCHANGED <<outbox, relay, ledger, target, source, sending, worker, seals>>
      BY <1>2 DEF LeasesLapse, LeasesLapseEarly
    <2>2. PipeType' /\ OneEach'
      BY <2>1 DEF PInv, PipeType, OneEach
    <2> QED BY <2>1, <2>2, PathFrame DEF PInv, AllCovered
  <1> QED BY <1>1, <1>2

\* The source or the sender dies with what it has in memory.
LEMMA BatchLost ==
  ASSUME PInv, SourceDies \/ SenderDies
  PROVE  PathStep
  <1>1. /\ source' \in {<<>>, source} /\ sending' \in {<<>>, sending}
        /\ UNCHANGED <<outbox, relay, lease, ledger, target, worker, seals>>
    BY DEF SourceDies, SenderDies
  <1>2. PipeType' /\ OneEach'
    BY <1>1, EmptyIsFine DEF PInv, PipeType, OneEach
  <1>3. \A r \in Range(relay') \cup Range(sending') : Covered(r)
    BY <1>1, EmptyIsFine DEF PInv, AllCovered
  <1> QED BY <1>1, <1>2, <1>3, PathFrame

-----------------------------------------------------------------------------
\* One record of a worker's batch: the only step that commits and writes.
LEMMA PathDeliverStep ==
  ASSUME PInv, NEW w \in Workers, Deliver(w)
  PROVE  PathStep
  <1> DEFINE me == worker[w]
             r == Head(me.batch)
             next(todo, done) == [phase |-> IF todo # <<>> THEN "deliver" ELSE
                                             IF done # <<>> THEN "acknowledge" ELSE "rest",
                                   batch |-> todo, done |-> done]
             further == next(Tail(me.batch), Append(me.done, r))
             stopped == next(<<>>, me.done)
  <1>1. /\ me \in Job /\ me.phase = "deliver" /\ me.batch # <<>>
        /\ me.batch \in Seq(Record) /\ me.done \in Seq(Record)
    BY DEF Deliver, PInv, PipeType, Delivering, Job
  <1>2. /\ r \in Range(me.batch) /\ r \in Record
        /\ Tail(me.batch) \in Seq(Record) /\ Range(Tail(me.batch)) \subseteq Range(me.batch)
    BY <1>1, FirstAndRest, RangeIn
  <1>3. UNCHANGED <<outbox, relay, lease, source, sending, seals>>
    BY DEF Deliver
  <1>4. /\ further \in Job /\ further.batch = Tail(me.batch)
        /\ Range(further.done) = Range(me.done) \cup {r}
        /\ further.phase = "deliver" => further.batch # <<>>
    <2>1. Append(me.done, r) \in Seq(Record)
          /\ Range(Append(me.done, r)) = Range(me.done) \cup {r}
      BY <1>1, <1>2, AppendedAre
    <2> HIDE DEF r, me
    <2> QED BY <1>2, <2>1 DEF Job
  <1>5. /\ stopped \in Job /\ stopped.batch = <<>> /\ stopped.done = me.done
        /\ stopped.phase # "deliver"
    <2> HIDE DEF me
    <2> QED BY <1>1, EmptyIsFine DEF Job
  <1>6. \/ /\ Commits(r)
           /\ ledger' = [ledger EXCEPT ![r.id] = r]
           /\ target' = [target EXCEPT ![r.id] = Append(@, r.row)]
           /\ worker' = [worker EXCEPT ![w] = further]
        \/ /\ Duplicate(r)
           /\ worker' = [worker EXCEPT ![w] = further]
           /\ UNCHANGED <<ledger, target>>
        \/ /\ worker' = [worker EXCEPT ![w] = stopped]
           /\ UNCHANGED <<ledger, target>>
    BY DEF Deliver
  <1> HIDE DEF me, r, next, further, stopped
  <1>7. \A v \in Workers : worker'[v] = worker[v] \/ v = w
    BY <1>6 DEF PInv, PipeType
  <1>8. CASE /\ worker' = [worker EXCEPT ![w] = stopped] /\ UNCHANGED <<ledger, target>>
    BY <1>3, <1>5, <1>8, WorkerFrame DEF PInv, PipeType, OneEach, me
  <1>9. CASE /\ Duplicate(r) /\ worker' = [worker EXCEPT ![w] = further]
             /\ UNCHANGED <<ledger, target>>
    <2>1. PipeType' /\ OneEach' /\ worker'[w] = further
      BY <1>3, <1>4, <1>9 DEF PInv, PipeType, OneEach
    <2>2. ledger[r.id] # NoRecord
      BY <1>2, <1>9, RecordIsNotNone DEF Duplicate
    <2>3. \A v \in Workers :
             \/ worker'[v] = worker[v]
             \/ /\ \A q \in Range(worker'[v].batch) : Covered(q)
                /\ \A q \in Range(worker'[v].done) : ledger[q.id] # NoRecord
                /\ worker'[v].phase = "deliver" => worker'[v].batch # <<>>
      BY <1>2, <1>4, <1>7, <2>1, <2>2 DEF PInv, AllCovered, DoneIsCommitted, me
    <2> QED BY <1>3, <1>9, <2>1, <2>3, PathFrame DEF PInv, AllCovered
  <1>10. CASE /\ Commits(r)
              /\ ledger' = [ledger EXCEPT ![r.id] = r]
              /\ target' = [target EXCEPT ![r.id] = Append(@, r.row)]
              /\ worker' = [worker EXCEPT ![w] = further]
    <2>1. r.id \in Identities /\ r.row \in Rows /\ r # NoRecord /\ ledger[r.id] = NoRecord
      BY <1>2, <1>10, RecordIsNotNone DEF Record, Commits
    <2>2. \A id \in Identities : ledger'[id] = IF id = r.id THEN r ELSE ledger[id]
      BY <1>10 DEF PInv, PipeType
    <2>3. PipeType' /\ OneEach' /\ worker'[w] = further
      BY <1>2, <1>3, <1>4, <1>10 DEF PInv, PipeType, OneEach
    <2>4. ASSUME NEW q \in Record, Covered(q) PROVE Covered(q)'
      BY <1>3, <2>1, <2>2, <2>4 DEF Covered, Record
    <2>5. AllCovered'
      <3>1. /\ Range(relay) \subseteq Record /\ Range(sending) \subseteq Record
            /\ \A v \in Workers : Range(worker[v].batch) \subseteq Record
        BY RangeIn DEF PInv, PipeType, Job
      <3>2. \A q \in Range(relay') \cup Range(sending') : Covered(q)'
        BY <1>3, <2>4, <3>1 DEF PInv, AllCovered
      <3>3. \A v \in Workers : \A q \in Range(worker[v].batch) : Covered(q)'
        BY <2>4, <3>1 DEF PInv, AllCovered
      <3>4. \A v \in Workers : \A q \in Range(worker'[v].batch) : Covered(q)'
        BY <1>2, <1>4, <1>7, <2>3, <3>3 DEF me
      <3> QED BY <3>2, <3>4 DEF AllCovered
    <2>6. DoneIsCommitted'
      <3>1. \A v \in Workers : Range(worker[v].done) \subseteq Record
        BY RangeIn DEF PInv, PipeType, Job
      <3>2. \A v \in Workers : \A q \in Range(worker[v].done) : ledger'[q.id] # NoRecord
        BY <2>1, <2>2, <3>1 DEF PInv, DoneIsCommitted, Record
      <3>3. \A v \in Workers : \A q \in Range(worker'[v].done) : ledger'[q.id] # NoRecord
        BY <1>4, <1>7, <2>1, <2>2, <2>3, <3>2 DEF me
      <3> QED BY <3>3 DEF DoneIsCommitted
    <2>7. Delivering'
      BY <1>4, <1>7, <2>3 DEF PInv, Delivering
    <2>8. /\ target[r.id] = <<>>
          /\ target' = [target EXCEPT ![r.id] = <<r.row>>]
      <3>1. target[r.id] = <<>>
        BY <2>1 DEF PInv, WrittenOnce
      <3>2. Append(<<>>, r.row) = <<r.row>>
        BY <2>1
      <3>3. target' = [target EXCEPT ![r.id] = Append(target[r.id], r.row)]
        BY <1>10
      <3> QED BY <3>1, <3>2, <3>3
    <2>9. WrittenOnce'
      BY <2>1, <2>2, <2>8 DEF PInv, WrittenOnce
    <2>10. PInv'
      BY <2>3, <2>5, <2>6, <2>7, <2>9 DEF PInv
    <2>11. AllKept /\ AllKept'
      BY <2>10, KeptNow, KeptNext
    <2>12. r \in Range(outbox)
      BY <1>2, <2>1 DEF PInv, AllCovered, Covered, me
    <2>13. Kept(r.id) = r.row /\ Kept(r.id) # "none"
      BY <2>1, <2>11, <2>12, RecordIsNotNone DEF AllKept, KeptIs
    <2>14. ASSUME NEW id \in Identities PROVE Kept(id)' = Kept(id)
      <3>1. KeptIs(id) /\ KeptIs(id)'
        BY <2>11 DEF AllKept
      <3>2. CASE id = r.id
        BY <2>1, <2>2, <2>13, <3>1, <3>2 DEF KeptIs
      <3>3. CASE id # r.id
        <4>1. ledger'[id] = ledger[id] /\ outbox' = outbox
          BY <1>3, <2>2, <3>3
        <4> QED BY <4>1 DEF Kept
      <3> QED BY <3>2, <3>3
    <2>15. Promise!Write(r.id)
      BY <2>1, <2>8, <2>13, <2>14 DEF Promise!Write
    <2> QED BY <2>1, <2>10, <2>15 DEF PathStep, Promise!HandoverNext
  <1> QED BY <1>6, <1>8, <1>9, <1>10

\* Every step keeps the invariant and is one of the promise's.
LEMMA PInvStep == PInv /\ [PipeNext]_pipeVars => PathStep
  <1> SUFFICES ASSUME PInv, [PipeNext]_pipeVars PROVE PathStep
    OBVIOUS
  <1>1. CASE UNCHANGED pipeVars
    <2>1. PipeType' /\ OneEach'
      BY <1>1 DEF pipeVars, PInv, PipeType, OneEach
    <2> QED BY <1>1, <2>1, PathFrame DEF pipeVars, PInv, AllCovered
  <1>2. CASE \E ids \in SUBSET Identities \ {{}}, row \in Rows : Seal(ids, row)
    BY <1>2, SealStep
  <1>3. CASE Stage \/ SenderStep
    BY <1>3, PathStageStep, SenderSteps
  <1>4. CASE SourceDies \/ SenderDies
    BY <1>4, BatchLost
  <1>5. CASE \E w \in Workers : WorkerStep(w)
    BY <1>5, PathLeaseStep, PathDeliverStep, AckRelayStep, AckOutboxStep DEF WorkerStep
  <1>6. CASE \E w \in Workers : WorkerDies(w) \/ LeasesLapse(w) \/ LeasesLapseEarly(w)
    BY <1>6, WorkerEnds
  <1> QED BY <1>1, <1>2, <1>3, <1>4, <1>5, <1>6 DEF PipeNext

-----------------------------------------------------------------------------
\* For every set of identities and workers: outbox and relay hold an identity
\* once, and a record of the relay is staged too or committed, so that losing the
\* relay's database loses nothing that was not delivered.
THEOREM PathIsSafe == PipeSpec => []PathSafe
  <1>1. PipeInit => PInv
    BY PInvInit
  <1>2. PInv /\ [PipeNext]_pipeVars => PInv'
    BY PInvStep DEF PathStep
  <1>3. PInv => PathSafe
    BY PInvIsSafe
  <1> QED BY <1>1, <1>2, <1>3, PTL DEF PipeSpec

\* The transfer path implements Handover: what is staged first under an identity
\* is kept, is never dropped, and is written to the target once, whatever
\* processes die or repeat each other's work on the way.
THEOREM PathHandsOver == PipeSpec => HandsOver
  <1>1. PipeInit => PInv
    BY PInvInit
  <1>2. PipeInit => Promise!HandoverInit
    <2> SUFFICES ASSUME PipeInit PROVE Promise!HandoverInit
      OBVIOUS
    <2>1. \A id \in Identities : Kept(id) = "none"
      BY EmptyIsFine DEF PipeInit, Kept, Ids
    <2> QED BY <2>1 DEF PipeInit, Promise!HandoverInit
  <1>3. PInv /\ [PipeNext]_pipeVars => PInv' /\ [Promise!HandoverNext]_(Promise!handoverVars)
    BY PInvStep DEF PathStep
  <1>4. PipeSpec => Promise!HandoverInit /\ [][Promise!HandoverNext]_(Promise!handoverVars)
    BY <1>1, <1>2, <1>3, PTL DEF PipeSpec
  <1> QED BY <1>4 DEF HandsOver, Promise!HandoverSpec

-----------------------------------------------------------------------------
(***************************************************************************)
(* The driver. WorkflowTrue is not inductive. That a report of success is  *)
(* true needs what each counter has come to at each stage (Handed) and     *)
(* what a run without a failure has passed by then (Ending). That the      *)
(* reserved space is enough needs the number of events that the rest of    *)
(* the run may still take (Owed), from the rows not yet read, the batch in *)
(* hand and the chunks of it not yet delivered: each step appends no more  *)
(* than it takes from that number (Reserved), and at the start it is what  *)
(* _required_event_stream_bytes computes.                                  *)
(***************************************************************************)

-----------------------------------------------------------------------------
(* Division                                                                *)

LEMMA Quotient ==
  ASSUME NEW x \in Nat, NEW b \in Nat \ {0}, NEW q \in Nat, NEW r \in Nat, r < b,
         x = b * q + r
  PROVE  x \div b = q /\ x % b = r
  OBVIOUS

LEMMA Division ==
  ASSUME NEW x \in Nat, NEW b \in Nat \ {0}
  PROVE  /\ x \div b \in Nat /\ x % b \in Nat /\ x % b < b
         /\ x = b * (x \div b) + (x % b)
  <1>1. x \div b \in Nat
    OBVIOUS
  <1>2. x % b \in Nat
    OBVIOUS
  <1>3. x % b < b
    OBVIOUS
  <1>4. x = b * (x \div b) + (x % b)
    OBVIOUS
  <1> QED BY <1>1, <1>2, <1>3, <1>4

LEMMA Small ==
  ASSUME NEW x \in Nat, NEW b \in Nat \ {0}, x < b
  PROVE  x \div b = 0 /\ x % b = x
  OBVIOUS

LEMMA Large ==
  ASSUME NEW x \in Nat, NEW b \in Nat \ {0}, x >= b
  PROVE  /\ x - b \in Nat
         /\ x \div b = ((x - b) \div b) + 1 /\ x % b = (x - b) % b
  <1>1. PICK y \in Nat : y = x - b
    OBVIOUS
  <1>2. PICK q \in Nat : q = y \div b
    BY Division
  <1>3. PICK r \in Nat : r = y % b
    BY Division
  <1>4. r < b /\ y = b * q + r
    BY <1>2, <1>3, Division
  <1>5. q + 1 \in Nat /\ b * (q + 1) = b * q + b
    OBVIOUS
  <1>6. x = b * (q + 1) + r
    BY <1>1, <1>4, <1>5
  <1>7. x \div b = q + 1 /\ x % b = r
    BY <1>4, <1>5, <1>6, Quotient
  <1> QED BY <1>1, <1>2, <1>3, <1>7

LEMMA DivMonotone ==
  ASSUME NEW x \in Nat, NEW y \in Nat, NEW b \in Nat \ {0}, x <= y
  PROVE  x \div b <= y \div b
  OBVIOUS


-----------------------------------------------------------------------------
(* How many events are still to come                                       *)

LEMMA BatchesAre ==
  ASSUME NEW x \in Nat, NEW b \in Nat \ {0}
  PROVE  /\ Batches(x, b) \in Nat /\ Batches(0, b) = 0
         /\ 0 < x /\ x <= b => Batches(x, b) = 1
         /\ x >= b => x - b \in Nat /\ Batches(x, b) = Batches(x - b, b) + 1
  <1>1. b - 1 \in Nat /\ b - 1 < b /\ x + b - 1 \in Nat
    OBVIOUS
  <1>2. Batches(x, b) \in Nat
    BY <1>1, Division DEF Batches
  <1>3. Batches(0, b) = 0
    <2>1. 0 + b - 1 = b - 1
      OBVIOUS
    <2> QED BY <1>1, <2>1, Small DEF Batches
  <1>4. ASSUME x >= b PROVE x - b \in Nat /\ Batches(x, b) = Batches(x - b, b) + 1
    <2>1. x - b \in Nat /\ x + b - 1 >= b /\ (x - b) + b - 1 = (x + b - 1) - b
      BY <1>4
    <2>2. (x + b - 1) \div b = (((x + b - 1) - b) \div b) + 1
      BY <1>1, <2>1, Large
    <2> QED BY <2>1, <2>2 DEF Batches
  <1>5. ASSUME 0 < x, x <= b PROVE Batches(x, b) = 1
    <2>1. x + b - 1 >= b /\ (x + b - 1) - b \in Nat /\ (x + b - 1) - b < b
      BY <1>5
    <2>2. (x + b - 1) \div b = (((x + b - 1) - b) \div b) + 1
      BY <1>1, <2>1, Large
    <2>3. ((x + b - 1) - b) \div b = 0
      BY <2>1, Small
    <2> QED BY <2>2, <2>3 DEF Batches
  <1> QED BY <1>2, <1>3, <1>4, <1>5

LEMMA BatchesMonotone ==
  ASSUME NEW x \in Nat, NEW y \in Nat, NEW b \in Nat \ {0}, x <= y
  PROVE  Batches(x, b) <= Batches(y, b)
  <1>1. x + b - 1 \in Nat /\ y + b - 1 \in Nat /\ x + b - 1 <= y + b - 1
    OBVIOUS
  <1> QED BY <1>1, DivMonotone DEF Batches

\* Events of the chunks that n records of one batch are delivered in.
Chunks(n) == IF batchSize = 1 THEN 0 ELSE Batches(n, GroupMax)

\* Events of n rows that are still to be read: one for each record, one for
\* each batch and those of its chunks.
Cost(n) ==
    n + Batches(n, batchSize)
      + (IF batchSize = 1 THEN 0
         ELSE (n \div batchSize) * Batches(batchSize, GroupMax) + Batches(n % batchSize, GroupMax))

Sizes == batchSize \in BatchSizes

LEMMA SizesAre ==
  ASSUME Sizes
  PROVE  batchSize \in Nat \ {0} /\ GroupMax \in Nat \ {0} /\ Requested \in Nat \ {0}
  <1>1. \A x \in {Requested, GroupMax} \cup BatchSizes : x \in Nat \ {0}
    BY WorkflowAssumptionHolds DEF WorkflowAssumption
  <1> QED BY <1>1 DEF Sizes

LEMMA ChunksAre ==
  ASSUME Sizes, NEW n \in Nat
  PROVE  /\ Chunks(n) \in Nat /\ Chunks(0) = 0
         /\ n > 0 =>
              LET k == Least(GroupMax, n)
              IN /\ k \in 1..n /\ n - k \in Nat /\ k <= GroupMax
                 /\ batchSize # 1 => Chunks(n) = Chunks(n - k) + 1
  <1>1. GroupMax \in Nat \ {0}
    BY SizesAre
  <1>2. Chunks(n) \in Nat /\ Chunks(0) = 0
    BY <1>1, BatchesAre DEF Chunks
  <1>3. ASSUME n > 0
        PROVE  LET k == Least(GroupMax, n)
               IN /\ k \in 1..n /\ n - k \in Nat /\ k <= GroupMax
                  /\ batchSize # 1 => Chunks(n) = Chunks(n - k) + 1
    <2>1. PICK k : k = Least(GroupMax, n)
      OBVIOUS
    <2>2. k \in 1..n /\ n - k \in Nat /\ k <= GroupMax
      BY <1>1, <1>3, <2>1 DEF Least
    <2>3. CASE GroupMax < n
      <3>1. k = GroupMax
        BY <2>1, <2>3 DEF Least
      <3>2. Batches(n, GroupMax) = Batches(n - k, GroupMax) + 1
        BY <1>1, <2>3, <3>1, BatchesAre
      <3> QED BY <2>1, <2>2, <3>2 DEF Chunks
    <2>4. CASE ~(GroupMax < n)
      <3>1. k = n /\ n - k = 0 /\ n <= GroupMax
        BY <1>1, <2>1, <2>4 DEF Least
      <3>2. Batches(n, GroupMax) = 1 /\ Batches(0, GroupMax) = 0
        BY <1>1, <1>3, <3>1, BatchesAre
      <3> QED BY <2>1, <2>2, <3>1, <3>2 DEF Chunks
    <2> QED BY <2>3, <2>4
  <1> QED BY <1>2, <1>3

\* Reading a batch takes its share, and the source need not have every row.
LEMMA CostOfBatch ==
  ASSUME Sizes, NEW n \in Nat
  PROVE  /\ Cost(n) \in Nat /\ Cost(0) = 0
         /\ n > 0 =>
              LET k == Least(batchSize, n)
              IN k \in 1..n /\ n - k \in Nat /\ Cost(n) = Cost(n - k) + k + 1 + Chunks(k)
  <1>1. PICK b \in Nat \ {0} : b = batchSize
    BY SizesAre
  <1>2. GroupMax \in Nat \ {0}
    BY SizesAre
  <1>3. PICK c \in Nat : c = Batches(b, GroupMax)
    BY <1>1, <1>2, BatchesAre
  <1>4. \A m \in Nat : /\ m \div b \in Nat /\ m % b \in Nat
                       /\ Batches(m, b) \in Nat /\ Batches(m % b, GroupMax) \in Nat
    BY <1>1, <1>2, Division, BatchesAre
  <1>5. \A m \in Nat : (m \div b) * c \in Nat
    BY <1>4
  <1>6. \A m \in Nat : Cost(m) = m + Batches(m, b)
             + (IF b = 1 THEN 0 ELSE (m \div b) * c + Batches(m % b, GroupMax))
    BY <1>1, <1>3 DEF Cost
  <1>7. ASSUME NEW m \in Nat PROVE Cost(m) \in Nat
    <2>1. PICK t \in Nat : t = Batches(m % b, GroupMax)
      BY <1>4
    <2>2. PICK p \in Nat : p = (m \div b) * c
      BY <1>5
    <2>3. PICK u \in Nat : u = Batches(m, b)
      BY <1>4
    <2>4. Cost(m) = m + u + (IF b = 1 THEN 0 ELSE p + t)
      BY <1>6, <2>1, <2>2, <2>3
    <2> QED BY <2>4
  <1>8. Cost(0) = 0
    <2>1. 0 \div b = 0 /\ 0 % b = 0
      BY <1>1, Small
    <2>2. Batches(0, b) = 0 /\ Batches(0, GroupMax) = 0
      BY <1>1, <1>2, BatchesAre
    <2>3. 0 * c = 0
      BY <1>3
    <2> QED BY <1>6, <2>1, <2>2, <2>3
  <1>9. ASSUME n > 0
        PROVE  LET k == Least(batchSize, n)
               IN k \in 1..n /\ n - k \in Nat /\ Cost(n) = Cost(n - k) + k + 1 + Chunks(k)
    <2>1. PICK k : k = Least(b, n)
      OBVIOUS
    <2>2. k \in 1..n /\ n - k \in Nat
      BY <1>1, <1>9, <2>1 DEF Least
    <2>3. CASE b < n
      <3>1. k = b /\ n >= b
        BY <1>1, <2>1, <2>3 DEF Least
      <3>2. PICK m \in Nat : m = n - b
        BY <2>2, <3>1
      <3>3. n \div b = (m \div b) + 1 /\ n % b = m % b
        BY <1>1, <3>1, <3>2, Large
      <3>4. Batches(n, b) = Batches(m, b) + 1
        BY <1>1, <3>1, <3>2, BatchesAre
      <3>5. PICK q \in Nat : q = m \div b
        BY <1>4
      <3>6. (q + 1) * c = q * c + c
        BY <1>3
      <3>7. Chunks(k) = IF b = 1 THEN 0 ELSE c
        BY <1>1, <1>3, <3>1 DEF Chunks
      <3>8. PICK p \in Nat : p = q * c
        BY <1>3
      <3>9. PICK t \in Nat : t = Batches(m % b, GroupMax)
        BY <1>4
      <3>10. PICK u \in Nat : u = Batches(m, b)
        BY <1>4
      <3>11. Cost(m) = m + u + (IF b = 1 THEN 0 ELSE p + t)
        BY <1>6, <3>5, <3>8, <3>9, <3>10
      <3>12. Cost(n) = n + (u + 1) + (IF b = 1 THEN 0 ELSE (p + c) + t)
        BY <1>6, <3>3, <3>4, <3>5, <3>6, <3>8, <3>9, <3>10, ZenonT(60)
      <3>13. Cost(n) = Cost(m) + k + 1 + Chunks(k)
        BY <1>3, <3>1, <3>2, <3>7, <3>11, <3>12
      <3> QED BY <1>1, <2>1, <2>2, <3>1, <3>2, <3>13
    <2>4. CASE ~(b < n)
      <3>1. k = n /\ n - k = 0 /\ n <= b
        BY <1>1, <2>1, <2>4 DEF Least
      <3>2. Batches(n, b) = 1
        BY <1>1, <1>9, <3>1, BatchesAre
      <3>3. (IF b = 1 THEN 0 ELSE (n \div b) * c + Batches(n % b, GroupMax)) = Chunks(n)
        <4>1. CASE n = b
          <5>1. b = b * 1 + 0 /\ 0 < b
            BY <1>1
          <5>2. n \div b = 1 /\ n % b = 0
            BY <1>1, <4>1, <5>1, Quotient
          <5>3. Batches(0, GroupMax) = 0
            BY <1>2, BatchesAre
          <5> QED BY <1>1, <1>3, <4>1, <5>2, <5>3 DEF Chunks
        <4>2. CASE n < b
          <5>1. n \div b = 0 /\ n % b = n
            BY <1>1, <4>2, Small
          <5>2. Batches(n, GroupMax) \in Nat
            BY <1>2, BatchesAre
          <5> QED BY <1>1, <1>3, <5>1, <5>2 DEF Chunks
        <4> QED BY <1>1, <3>1, <4>1, <4>2
      <3>4. Chunks(n) \in Nat
        BY ChunksAre
      <3>5. Cost(n) = n + 1 + Chunks(n)
        BY <1>6, <3>2, <3>3, <3>4
      <3> QED BY <1>1, <1>8, <2>1, <2>2, <3>1, <3>4, <3>5
    <2> QED BY <2>3, <2>4
  <1> QED BY <1>7, <1>8, <1>9


LEMMA CostMonotone ==
  ASSUME Sizes, NEW x \in Nat, NEW y \in Nat, x <= y
  PROVE  Cost(x) <= Cost(y)
  <1>1. PICK b \in Nat \ {0} : b = batchSize
    BY SizesAre
  <1>2. GroupMax \in Nat \ {0}
    BY SizesAre
  <1>3. PICK c \in Nat : c = Batches(b, GroupMax)
    BY <1>1, <1>2, BatchesAre
  <1>4. PICK i \in Nat : i = x \div b
    BY <1>1, Division
  <1>5. PICK j \in Nat : j = y \div b
    BY <1>1, Division
  <1>6. PICK r \in Nat : r = x % b
    BY <1>1, Division
  <1>7. PICK s \in Nat : s = y % b
    BY <1>1, Division
  <1>8. r < b /\ s < b /\ x = b * i + r /\ y = b * j + s
    BY <1>1, <1>4, <1>5, <1>6, <1>7, Division
  <1>9. i <= j
    BY <1>1, <1>4, <1>5, DivMonotone
  <1>10. PICK t \in Nat : t = Batches(r, GroupMax)
    BY <1>2, BatchesAre
  <1>11. PICK u \in Nat : u = Batches(s, GroupMax)
    BY <1>2, BatchesAre
  <1>12. i * c + t <= j * c + u
    <2>1. CASE i = j
      <3>1. r <= s
        BY <1>8, <2>1
      <3>2. t <= u
        BY <1>2, <1>10, <1>11, <3>1, BatchesMonotone
      <3>3. i * c \in Nat
        BY <1>3
      <3> QED BY <2>1, <3>2, <3>3
    <2>2. CASE i + 1 <= j
      <3>1. t <= c
        <4>1. r <= b
          BY <1>8
        <4> QED BY <1>1, <1>2, <1>3, <1>10, <4>1, BatchesMonotone
      <3>2. PICK d \in Nat : j = i + 1 + d
        <4>1. j - (i + 1) \in Nat /\ j = i + 1 + (j - (i + 1))
          BY <2>2
        <4> QED BY <4>1
      <3>3. j * c = i * c + c + d * c
        BY <1>3, <3>2
      <3>4. i * c \in Nat /\ d * c \in Nat
        BY <1>3
      <3> QED BY <3>1, <3>3, <3>4
    <2> QED BY <1>9, <2>1, <2>2
  <1>13. Batches(x, b) <= Batches(y, b) /\ Batches(x, b) \in Nat /\ Batches(y, b) \in Nat
    BY <1>1, BatchesMonotone, BatchesAre
  <1>14. /\ Cost(x) = x + Batches(x, b) + (IF b = 1 THEN 0 ELSE i * c + t)
         /\ Cost(y) = y + Batches(y, b) + (IF b = 1 THEN 0 ELSE j * c + u)
    BY <1>1, <1>3, <1>4, <1>5, <1>6, <1>7, <1>10, <1>11 DEF Cost
  <1>15. i * c \in Nat /\ j * c \in Nat
    BY <1>3
  <1>16. PICK v \in Nat : v = i * c + t
    BY <1>15
  <1>17. PICK w \in Nat : w = j * c + u
    BY <1>15
  <1> QED BY <1>12, <1>13, <1>14, <1>16, <1>17

LEMMA RequiredIs ==
  ASSUME Sizes
  PROVE  Required(Requested, batchSize) = Cost(Requested) + 3
  <1>1. Requested \in Nat
    BY SizesAre
  <1>2. Cost(Requested) \in Nat
    BY <1>1, CostOfBatch
  <1>3. PICK x : x = Requested + Batches(Requested, batchSize)
    OBVIOUS
  <1>4. PICK y : y = IF batchSize = 1 THEN 0
                     ELSE (Requested \div batchSize) * Batches(batchSize, GroupMax)
                          + Batches(Requested % batchSize, GroupMax)
    OBVIOUS
  <1>5. x \in Nat /\ y \in Nat
    <2>1. batchSize \in Nat \ {0} /\ GroupMax \in Nat \ {0}
      BY SizesAre
    <2>2. /\ Requested \div batchSize \in Nat /\ Requested % batchSize \in Nat
          /\ Batches(Requested, batchSize) \in Nat
      BY <1>1, <2>1, Division, BatchesAre
    <2>3. /\ Batches(batchSize, GroupMax) \in Nat
          /\ Batches(Requested % batchSize, GroupMax) \in Nat
      BY <2>1, <2>2, BatchesAre
    <2>4. (Requested \div batchSize) * Batches(batchSize, GroupMax) \in Nat
      BY <2>2, <2>3
    <2> QED BY <1>1, <1>3, <1>4, <2>2, <2>3, <2>4
  <1>6. Cost(Requested) = x + y
    BY <1>3, <1>4 DEF Cost
  <1>7. Required(Requested, batchSize) = x + y + 1 + 2
    BY <1>3, <1>4 DEF Required
  <1> QED BY <1>5, <1>6, <1>7


-----------------------------------------------------------------------------
(* The inductive invariant                                                 *)

SetupStages == {"fixture_generation", "destination_setup", "content_inspection",
                "source_schema_inspection", "target_schema_inspection", "mapping_and_plan",
                "full_preflight", "security_and_state_setup"}
Sending == {"stage", "send", "lease"}
Settling == {"acknowledge", "check", "events", "batched"}
Before == SetupStages \cup {"start", "read"}
Running == Before \cup Sending \cup Settling \cup {"deliver", "count"}
Ended == {"summary", "tidy", "done"}
Late == {"unwind", "verify", "close", "summaries"} \cup Ended

StageNames == SetupStages \cup
    {"workflow_internal", "source_record_read", "source_seal_and_outbox_stage",
     "outbox_reload_and_relay_enqueue", "relay_lease", "destination_delivery",
     "acknowledgements", "destination_audit_outcome_check",
     "destination_operational_event_check", "end_to_end_verification", "resource_cleanup"}

Events == [type : {"workflow_started", "workflow_completed", "stage_summary", "delivery",
                   "delivery_batch", "batch_completed"},
           status : {"started", "passed", "failed", "delivered", "quarantined"}, items : Nat]

Data ==
    /\ rows \in Nat /\ batch \in Nat /\ left \in Nat
    /\ progress \in [read : Nat, staged : Nat, relayed : Nat, leased : Nat, delivered : Nat,
                     acknowledged : Nat, batches : Nat]
    /\ stores \in [outbox : Int, relay : Int, committed : Nat, target : Nat, quarantine : Nat]
    /\ stream \in [events : Seq(Events), torn : BOOLEAN, limit : Nat]
    /\ Len(stream.events) <= stream.limit

\* The first failure is the one in the report, and there is none while the
\* run goes on.
Failures ==
    /\ book \in Seq(StageNames) /\ FirstFailureReported
    /\ step \in Running => failure = None

\* What has been counted of the batch in hand, from stage to stage.
Handed ==
    LET p == progress
    IN /\ step \in Before =>
            /\ p.staged = p.read /\ p.relayed = p.read /\ p.leased = p.read
            /\ p.delivered = p.read /\ p.acknowledged = p.read
       /\ step \in Sending \cup Settling \cup {"deliver"} => batch >= 1 /\ batch <= batchSize
       /\ step = "stage" =>
            /\ p.staged + batch = p.read /\ p.relayed = p.staged /\ p.leased = p.staged
            /\ p.delivered = p.staged /\ p.acknowledged = p.staged
       /\ step = "send" =>
            /\ p.staged = p.read /\ p.relayed + batch = p.read /\ p.leased = p.relayed
            /\ p.delivered = p.relayed /\ p.acknowledged = p.relayed
       /\ step = "lease" =>
            /\ p.staged = p.read /\ p.relayed = p.read /\ p.leased + batch = p.read
            /\ p.delivered = p.leased /\ p.acknowledged = p.leased
       /\ step = "deliver" =>
            /\ p.staged = p.read /\ p.relayed = p.read /\ p.leased = p.read
            /\ p.delivered + stores.quarantine + left = p.read
            /\ p.acknowledged + batch = p.read /\ left >= 1 /\ left <= batch
       /\ step \in Settling =>
            /\ p.staged = p.read /\ p.relayed = p.read /\ p.leased = p.read
            /\ p.delivered = p.read
            /\ p.acknowledged = IF step = "acknowledge" THEN p.read - batch ELSE p.read
       /\ step = "count" =>
            /\ p.relayed = p.staged /\ p.leased = p.staged
            /\ p.delivered = p.staged /\ p.acknowledged = p.staged
            /\ p.read = p.staged \/ p.read > Requested
            /\ p.read >= p.staged
       /\ step \in Running \ {"deliver"} => stores.quarantine = 0

Backed == CountersAreBacked /\ progress.delivered = stores.target

\* What a run without a failure has come to.
Ending ==
    failure = None =>
        /\ step \in Late =>
             \A c \in {"read", "staged", "relayed", "leased", "delivered", "acknowledged"} :
                progress[c] = Requested
        /\ step \in {"close", "summaries"} \cup Ended => FinalState
        /\ step \in Ended => Last(stream.events).status = "passed"
        /\ step \in {"tidy", "done"} => ~stream.torn /\ LifecycleValid

\* Events that the rest of the run may still take, but for the last two.
Owed ==
    IF step \in Sending THEN 1 + batch + Chunks(batch) + Cost(rows)
    ELSE IF step = "deliver" THEN 1 + left + Chunks(left) + Cost(rows)
    ELSE IF step \in Settling \cup {"start"} THEN 1 + Cost(rows)
    ELSE IF step \in Before THEN Cost(rows) ELSE 0

Reserved ==
    ~stream.torn /\ progress.read + rows <= Requested /\ step \notin Ended =>
        Len(stream.events) + Owed + 2 <= stream.limit

WInv ==
    Sizes /\ Data /\ step \in Running \cup Late /\ Failures /\ Handed /\ Backed /\ Ending /\ Reserved

-----------------------------------------------------------------------------
(* What every step has in common                                           *)

LEMMA DataIs ==
  /\ Data => Len(stream.events) \in Nat /\ stream.limit \in Nat
  /\ Data' => Len(stream'.events) \in Nat /\ stream'.limit \in Nat
  <1>1. \A s \in [events : Seq(Events), torn : BOOLEAN, limit : Nat] :
          Len(s.events) \in Nat /\ s.limit \in Nat
    OBVIOUS
  <1> QED BY <1>1 DEF Data

LEMMA OwedIs ==
  ASSUME Sizes, Data
  PROVE  Owed \in Nat
  <1>1. Chunks(batch) \in Nat /\ Chunks(left) \in Nat /\ Cost(rows) \in Nat
    BY ChunksAre, CostOfBatch DEF Data
  <1>2. batch \in Nat /\ left \in Nat
    BY DEF Data
  <1>3. PICK a \in Nat : a = Chunks(batch)
    BY <1>1
  <1>4. PICK b \in Nat : b = Chunks(left)
    BY <1>1
  <1>5. PICK c \in Nat : c = Cost(rows)
    BY <1>1
  <1> QED BY <1>2, <1>3, <1>4, <1>5 DEF Owed

\* A stage is marked as failed.
LEMMA Fails ==
  ASSUME Failures, NEW stage \in StageNames, MarkFailed(stage), step' \notin Running
  PROVE  Failures' /\ failure' # None
  <1>1. book \in Seq(StageNames) /\ failure = IF book = <<>> THEN None ELSE book[1]
    BY DEF Failures, FirstFailureReported
  <1>2. book' = Append(book, stage) /\ failure' = IF failure = None THEN stage ELSE failure
    BY DEF MarkFailed
  <1>3. stage # None
    BY DEF StageNames, SetupStages, None
  <1>4. book' \in Seq(StageNames) /\ book' # <<>>
    BY <1>1, <1>2
  <1>5. CASE book = <<>>
    <2>1. failure' = stage /\ book'[1] = stage
      BY <1>1, <1>2, <1>5
    <2> QED BY <1>3, <1>4, <2>1 DEF Failures, FirstFailureReported
  <1>6. CASE book # <<>>
    <2>1. book[1] \in StageNames
      BY <1>1, <1>6
    <2>2. book[1] # None
      BY <2>1 DEF StageNames, SetupStages, None
    <2>3. failure' = book[1] /\ book'[1] = book[1]
      BY <1>1, <1>2, <1>6, <2>2
    <2> QED BY <1>4, <2>2, <2>3 DEF Failures, FirstFailureReported
  <1> QED BY <1>5, <1>6

\* A run that stops keeps what it counted, and its events fit.
LEMMA StopMove ==
  ASSUME WInv, NEW stage \in StageNames, MarkFailed(stage), step' \in Late,
         step \in Ended => step' \in Ended, UNCHANGED batchSize,
         Data', Backed', stream'.limit = stream.limit,
         ~stream'.torn => ~stream.torn /\ Len(stream'.events) <= Len(stream.events) + Owed,
         progress'.read + rows' >= progress.read + rows
  PROVE  WInv'
  <1>1. Sizes /\ Sizes'
    BY DEF WInv, Sizes
  <1>2. step' \notin Running /\ step' # "deliver" /\ step' # "count" /\ step' \notin Before
        /\ step' \notin Sending /\ step' \notin Settling
        /\ step' \notin {"stage", "send", "lease", "start"}
    BY DEF Late, Ended, Running, Before, Sending, Settling, SetupStages
  <1>3. Failures' /\ failure' # None
    BY <1>2, Fails DEF WInv
  <1>4. Handed'
    BY <1>2 DEF Handed
  <1>5. Ending'
    BY <1>3 DEF Ending
  <1>6. Reserved'
    <2> SUFFICES ASSUME ~stream'.torn, progress'.read + rows' <= Requested, step' \notin Ended
                 PROVE  Len(stream'.events) + Owed' + 2 <= stream'.limit
      BY DEF Reserved
    <2>1. Owed' = 0
      BY <1>2 DEF Owed
    <2>2. Owed \in Nat
      BY <1>1, OwedIs DEF WInv
    <2>3. Len(stream.events) \in Nat /\ Len(stream'.events) \in Nat /\ stream.limit \in Nat
      BY DataIs DEF WInv
    <2>4. /\ progress.read \in Nat /\ progress'.read \in Nat /\ rows \in Nat /\ rows' \in Nat
          /\ Requested \in Nat
      BY <1>1, SizesAre DEF WInv, Data
    <2>5. progress.read + rows <= Requested
      BY <2>4
    <2>6. Len(stream.events) + Owed + 2 <= stream.limit
      BY <2>5 DEF WInv, Reserved
    <2> QED BY <2>1, <2>2, <2>3, <2>6
  <1> QED BY <1>1, <1>3, <1>4, <1>5, <1>6 DEF WInv


Still == UNCHANGED <<rows, batch, left, progress, stores>>

LEMMA DataStays ==
  ASSUME Data, Still,
         stream' \in [events : Seq(Events), torn : BOOLEAN, limit : Nat],
         Len(stream'.events) <= stream'.limit
  PROVE  Data'
  BY DEF Data, Still

LEMMA BackedStays ==
  ASSUME Backed, UNCHANGED <<progress, stores>>
  PROVE  Backed'
  BY DEF Backed, CountersAreBacked

\* A stream whose write fails keeps its events, torn or not.
LEMMA StreamKept ==
  ASSUME Data, stream' \in {stream, [stream EXCEPT !.torn = TRUE]}
  PROVE  /\ stream' \in [events : Seq(Events), torn : BOOLEAN, limit : Nat]
         /\ stream'.events = stream.events /\ stream'.limit = stream.limit
         /\ ~stream'.torn => ~stream.torn
         /\ Len(stream'.events) <= stream'.limit
  <1>1. stream \in [events : Seq(Events), torn : BOOLEAN, limit : Nat]
    BY DEF Data
  <1>2. CASE stream' = stream
    BY <1>1, <1>2 DEF Data
  <1>3. CASE stream' = [stream EXCEPT !.torn = TRUE]
    BY <1>1, <1>3 DEF Data
  <1> QED BY <1>2, <1>3

LEMMA StreamGrown ==
  ASSUME Data, NEW added \in Seq(Events), Room(Len(added)), stream' = Appended(added)
  PROVE  /\ stream' \in [events : Seq(Events), torn : BOOLEAN, limit : Nat]
         /\ Len(stream'.events) = Len(stream.events) + Len(added)
         /\ stream'.events = stream.events \o added
         /\ stream'.limit = stream.limit /\ ~stream'.torn /\ ~stream.torn
         /\ Len(stream'.events) <= stream'.limit
  <1>1. /\ stream \in [events : Seq(Events), torn : BOOLEAN, limit : Nat]
        /\ ~stream.torn /\ Len(stream.events) + Len(added) <= stream.limit
    BY DEF Data, Room
  <1>2. stream' = [stream EXCEPT !.events = stream.events \o added]
    BY DEF Appended
  <1>3. stream.events \o added \in Seq(Events)
    BY <1>1
  <1>4. Len(stream.events \o added) = Len(stream.events) + Len(added)
    BY <1>1
  <1>5. /\ stream'.events = stream.events \o added /\ stream'.limit = stream.limit
        /\ stream'.torn = stream.torn
        /\ stream' \in [events : Seq(Events), torn : BOOLEAN, limit : Nat]
    BY <1>1, <1>2, <1>3
  <1> QED BY <1>1, <1>4, <1>5

\* A stage fails that has changed nothing but, perhaps, the tail of the stream.
LEMMA StopStill ==
  ASSUME WInv, NEW stage \in StageNames, NEW next \in Late, Stops(stage, next),
         step \in Ended => next \in Ended, Still, UNCHANGED batchSize,
         stream' \in {stream, [stream EXCEPT !.torn = TRUE]}
  PROVE  WInv'
  <1>1. MarkFailed(stage) /\ step' = next
    BY DEF Stops
  <1>2. /\ stream' \in [events : Seq(Events), torn : BOOLEAN, limit : Nat]
        /\ stream'.events = stream.events /\ stream'.limit = stream.limit
        /\ ~stream'.torn => ~stream.torn
        /\ Len(stream'.events) <= stream'.limit
    BY StreamKept DEF WInv
  <1>3. Data' /\ Backed'
    BY <1>2, DataStays, BackedStays DEF WInv, Still
  <1>4. Owed \in Nat /\ Len(stream.events) \in Nat
    BY OwedIs, DataIs DEF WInv
  <1>5. Len(stream'.events) <= Len(stream.events) + Owed
    BY <1>2, <1>4
  <1>6. progress.read \in Nat /\ rows \in Nat
    BY DEF WInv, Data
  <1>7. progress'.read + rows' >= progress.read + rows
    BY <1>6 DEF Still
  <1> QED BY <1>1, <1>2, <1>3, <1>5, <1>7, StopMove

\* A stage of a run without failures passes on to another.
LEMMA RunMove ==
  ASSUME WInv, step \in Running, step' \in Running, UNCHANGED <<book, failure, batchSize>>,
         Data', Backed', Handed', Reserved'
  PROVE  WInv'
  <1>1. Sizes'
    BY DEF WInv, Sizes
  <1>2. Failures'
    BY DEF WInv, Failures, FirstFailureReported
  <1>3. step' \notin Late /\ step' \notin {"close", "summaries"} \cup Ended
        /\ step' \notin {"tidy", "done"}
    BY DEF Late, Ended, Running, Before, Sending, Settling, SetupStages
  <1>4. Ending'
    BY <1>3 DEF Ending, Late, Ended
  <1> QED BY <1>1, <1>2, <1>4 DEF WInv

\* An append either goes on with its events in the stream, or stops with none
\* of them there.
LEMMA EmitsIs ==
  ASSUME NEW added, NEW next, NEW stop, Emits(added, next, stop)
  PROVE  \/ Room(Len(added)) /\ stream' = Appended(added) /\ Passes(next)
         \/ stop /\ stream' \in {stream, [stream EXCEPT !.torn = TRUE]}
  BY DEF Emits, AppendFails

-----------------------------------------------------------------------------
(* The setup                                                               *)

LEMMA SetupIs ==
  /\ Len(Setup) = 8 /\ Setup[1] \in SetupStages
  /\ \A i \in 1..8 : Setup[i] \in SetupStages
  /\ \A i \in 1..8 : i # 8 => Setup[i + 1] \in SetupStages
  <1>1. Len(Setup) = 8 /\ Setup[1] \in SetupStages
    BY DEF Setup, SetupStages
  <1>2. /\ Setup[2] \in SetupStages /\ Setup[3] \in SetupStages /\ Setup[4] \in SetupStages
        /\ Setup[5] \in SetupStages /\ Setup[6] \in SetupStages /\ Setup[7] \in SetupStages
        /\ Setup[8] \in SetupStages
    BY DEF Setup, SetupStages
  <1>3. \A i \in 1..8 : i = 1 \/ i = 2 \/ i = 3 \/ i = 4 \/ i = 5 \/ i = 6 \/ i = 7 \/ i = 8
    OBVIOUS
  <1>4. \A i \in 1..8 : Setup[i] \in SetupStages
    BY <1>1, <1>2, <1>3
  <1>5. \A i \in 1..8 : i # 8 => i + 1 \in 1..8
    OBVIOUS
  <1> QED BY <1>1, <1>4, <1>5

\* Before the first batch nothing is counted.
LEMMA StartStep ==
  ASSUME WInv, Start, UNCHANGED <<left, batchSize>>
  PROVE  WInv'
  <1> DEFINE e == Event("workflow_started", "started", Requested)
  <1>1. step = "start" /\ Still
    BY DEF Start, Still
  <1>2. \/ Room(Len(<<e>>)) /\ stream' = Appended(<<e>>) /\ Passes(Setup[1])
        \/ /\ Stops("workflow_internal", "summaries")
           /\ stream' \in {stream, [stream EXCEPT !.torn = TRUE]}
    BY EmitsIs DEF Start
  <1>3. CASE Stops("workflow_internal", "summaries")
             /\ stream' \in {stream, [stream EXCEPT !.torn = TRUE]}
    <2>1. "workflow_internal" \in StageNames /\ "summaries" \in Late /\ step \notin Ended
      BY <1>1 DEF StageNames, Late, Ended
    <2> QED BY <1>1, <1>3, <2>1, StopStill
  <1>4. CASE Room(Len(<<e>>)) /\ stream' = Appended(<<e>>) /\ Passes(Setup[1])
    <2>1. Requested \in Nat
      BY SizesAre DEF WInv
    <2>2. <<e>> \in Seq(Events) /\ Len(<<e>>) = 1
      <3>1. e \in Events
        BY <2>1 DEF Event, Events
      <3> HIDE DEF e
      <3> QED BY <3>1
    <2> HIDE DEF e
    <2>3. /\ stream' \in [events : Seq(Events), torn : BOOLEAN, limit : Nat]
          /\ Len(stream'.events) = Len(stream.events) + 1
          /\ stream'.limit = stream.limit /\ ~stream.torn
          /\ Len(stream'.events) <= stream'.limit
      BY <1>4, <2>2, StreamGrown DEF WInv
    <2>4. Data' /\ Backed'
      BY <1>1, <2>3, DataStays, BackedStays DEF WInv, Still
    <2>5. step' \in SetupStages /\ UNCHANGED <<book, failure>>
      BY <1>4, SetupIs DEF Passes
    <2>6. /\ step' \in Before /\ step' \in Running
          /\ step' \notin Sending \cup Settling \cup {"deliver", "count", "start"}
          /\ step \in Before /\ step \in Running \ {"deliver"}
          /\ step \notin Sending /\ step # "deliver"
      BY <1>1, <2>5 DEF Running, Before, Sending, Settling, SetupStages
    <2>7. Handed'
      BY <1>1, <2>6 DEF WInv, Handed, Still, Sending, Settling
    <2>8. Owed = 1 + Cost(rows) /\ Owed' = Cost(rows)
      BY <1>1, <2>6 DEF Owed, Still, Cost, Settling, Sending
    <2>9. Cost(rows) \in Nat /\ Len(stream.events) \in Nat /\ stream.limit \in Nat
      BY CostOfBatch, DataIs DEF WInv, Data
    <2>10. step \notin Ended
      BY <1>1 DEF Ended
    <2>11. Reserved'
      BY <1>1, <2>3, <2>8, <2>9, <2>10 DEF WInv, Reserved, Still
    <2> QED BY <2>4, <2>5, <2>6, <2>7, <2>11, RunMove
  <1> QED BY <1>2, <1>3, <1>4


\* A stage that passes without a trace in stores, counters and stream.
LEMMA PassStill ==
  ASSUME WInv, step \in Running, step' \in Running, UNCHANGED <<book, failure, batchSize, stream>>,
         Still, Handed', Owed' <= Owed, Owed' \in Nat
  PROVE  WInv'
  <1>1. Data' /\ Backed'
    <2>1. Data'
      BY DEF WInv, Data, Still
    <2> QED BY <2>1, BackedStays DEF WInv, Still
  <1>2. Reserved'
    <2>1. step \notin Ended
      BY DEF Ended, Running, Before, Sending, Settling, SetupStages
    <2>2. Owed \in Nat /\ Len(stream.events) \in Nat /\ stream.limit \in Nat
      BY OwedIs, DataIs DEF WInv
    <2> QED BY <2>1, <2>2 DEF WInv, Reserved, Still
  <1> QED BY <1>1, <1>2, RunMove

LEMMA PrepareStep ==
  ASSUME WInv, Prepare, UNCHANGED <<left, batchSize>>
  PROVE  WInv'
  <1>1. PICK i \in 1..8 :
          /\ step = Setup[i]
          /\ \/ Passes(IF i = 8 THEN "read" ELSE Setup[i + 1])
             \/ Stops(step, IF i < 5 THEN "summaries" ELSE "close")
    BY SetupIs DEF Prepare
  <1>2. Still /\ UNCHANGED stream
    BY DEF Prepare, Still
  <1>3. step \in SetupStages
    BY <1>1, SetupIs
  <1>4. /\ step \in Before /\ step \in Running \ {"deliver"} /\ step \notin Sending \cup Settling
        /\ step \notin {"deliver", "count", "start", "stage", "send", "lease"} /\ step \notin Ended
        /\ step \in StageNames
    BY <1>3 DEF Running, Before, Sending, Settling, SetupStages, Ended, StageNames
  <1>5. CASE Stops(step, IF i < 5 THEN "summaries" ELSE "close")
    <2>1. PICK stage : stage = step
      OBVIOUS
    <2>2. PICK next : next = IF i < 5 THEN "summaries" ELSE "close"
      OBVIOUS
    <2>3. next \in Late
      BY <2>2 DEF Late
    <2> QED BY <1>2, <1>4, <1>5, <2>1, <2>2, <2>3, StopStill
  <1>6. CASE Passes(IF i = 8 THEN "read" ELSE Setup[i + 1])
    <2>1. step' \in SetupStages \cup {"read"} /\ UNCHANGED <<book, failure>>
      BY <1>6, SetupIs DEF Passes
    <2>2. /\ step' \in Before /\ step' \in Running /\ step' \notin Sending \cup Settling
          /\ step' \notin {"deliver", "count", "start", "stage", "send", "lease"}
      BY <2>1 DEF Running, Before, Sending, Settling, SetupStages
    <2>3. Handed'
      BY <1>2, <1>4, <2>2 DEF WInv, Handed, Still
    <2>4. Owed = Cost(rows) /\ Owed' = Cost(rows)
      BY <1>2, <1>4, <2>2 DEF Owed, Still, Cost
    <2>5. Cost(rows) \in Nat
      BY CostOfBatch DEF WInv, Data
    <2> QED BY <1>2, <1>4, <2>1, <2>2, <2>3, <2>4, <2>5, PassStill
  <1> QED BY <1>1, <1>5, <1>6

-----------------------------------------------------------------------------
(* The loop                                                                *)

LEMMA ReadStep ==
  ASSUME WInv, Read, UNCHANGED <<left, batchSize>>
  PROVE  WInv'
  <1>1. step = "read" /\ UNCHANGED <<stores, stream>>
    BY DEF Read
  <1>2. /\ step \in Before /\ step \in Running \ {"deliver"} /\ step \notin Ended
        /\ step \notin Sending \cup Settling \cup {"deliver", "start"}
    BY <1>1 DEF Running, Before, Sending, Settling, SetupStages, Ended
  <1>3. /\ Sizes /\ rows \in Nat /\ batch \in Nat /\ left \in Nat /\ Data
        /\ progress \in [read : Nat, staged : Nat, relayed : Nat, leased : Nat, delivered : Nat,
                         acknowledged : Nat, batches : Nat]
    BY DEF WInv, Data
  <1>4. batchSize \in Nat \ {0} /\ Requested \in Nat
    BY <1>3, SizesAre
  <1>5. /\ progress.staged = progress.read /\ progress.relayed = progress.read
        /\ progress.leased = progress.read /\ progress.delivered = progress.read
        /\ progress.acknowledged = progress.read /\ stores.quarantine = 0
    BY <1>2 DEF WInv, Handed
  <1>6. /\ stores.target \in Nat /\ stores.outbox \in Int /\ progress.delivered = stores.target
        /\ progress.staged - progress.acknowledged <= stores.outbox
    BY DEF WInv, Data, Backed, CountersAreBacked
  <1>7. Len(stream.events) \in Nat /\ stream.limit \in Nat
    BY <1>3, DataIs
  <1>8. Owed = Cost(rows) /\ Cost(rows) \in Nat
    BY <1>2, <1>3, CostOfBatch DEF Owed
  <1>r. Reserved
    BY DEF WInv
  <1>9. CASE progress.read < Requested
    <2>1. PICK n \in 0..Least(batchSize, rows) :
            /\ rows' = rows - n /\ batch' = n
            /\ progress' = [progress EXCEPT !.read = @ + n]
            /\ \/ /\ n = Least(batchSize, rows)
                  /\ Passes(IF n = 0 THEN "count" ELSE "stage")
               \/ Stops("source_record_read", "unwind")
      BY <1>9 DEF Read
    <2>2. n \in Nat /\ n <= rows /\ n <= batchSize /\ rows - n \in Nat
      BY <1>3, <1>4, <2>1 DEF Least
    <2>3. /\ progress' \in [read : Nat, staged : Nat, relayed : Nat, leased : Nat, delivered : Nat,
                            acknowledged : Nat, batches : Nat]
          /\ progress'.read = progress.read + n /\ progress'.staged = progress.staged
          /\ progress'.relayed = progress.relayed /\ progress'.leased = progress.leased
          /\ progress'.delivered = progress.delivered
          /\ progress'.acknowledged = progress.acknowledged
      BY <1>3, <2>1, <2>2
    <2>4. Data'
      BY <1>1, <1>3, <2>1, <2>2, <2>3 DEF Data
    <2>5. progress.read \in Nat
      BY <1>3
    <2>6. Backed'
      <3>1. progress'.staged - progress'.acknowledged <= stores'.outbox
        BY <1>1, <1>6, <2>3
      <3>2. progress'.staged <= progress'.read
        BY <1>5, <2>2, <2>3, <2>5
      <3>3. /\ progress'.delivered = progress.read /\ progress'.leased = progress.read
            /\ progress'.relayed = progress.read /\ progress'.staged = progress.read
            /\ stores'.target = progress.read
        BY <1>1, <1>5, <1>6, <2>3
      <3> QED BY <2>5, <3>1, <3>2, <3>3 DEF Backed, CountersAreBacked
    <2>7. progress'.read + rows' = progress.read + rows
      BY <1>3, <2>1, <2>2, <2>3, <2>5
    <2>8. CASE Stops("source_record_read", "unwind")
      <3>1. "source_record_read" \in StageNames /\ "unwind" \in Late
        BY DEF StageNames, Late
      <3>2. MarkFailed("source_record_read") /\ step' = "unwind"
        BY <2>8 DEF Stops
      <3>3. Len(stream'.events) <= Len(stream.events) + Owed /\ stream' = stream
        BY <1>1, <1>7, <1>8
      <3>4. progress'.read + rows' >= progress.read + rows
        BY <1>3, <2>5, <2>7
      <3> QED BY <1>2, <2>4, <2>6, <3>1, <3>2, <3>3, <3>4, StopMove
    <2>9. CASE n = 0 /\ n = Least(batchSize, rows) /\ Passes("count")
      <3>1. step' = "count" /\ UNCHANGED <<book, failure>>
        BY <2>9 DEF Passes
      <3>2. /\ step' \in Running \ {"deliver"} /\ step' \notin Before
            /\ step' \notin Sending \cup Settling
            /\ step' \notin {"deliver", "stage", "send", "lease", "start"}
        BY <3>1 DEF Running, Before, Sending, Settling, SetupStages
      <3>3. Handed'
        BY <1>1, <1>5, <2>3, <2>5, <2>9, <3>1, <3>2 DEF Handed
      <3>4. Owed' = 0
        BY <3>2 DEF Owed
      <3>5. Reserved'
        <4> SUFFICES ASSUME ~stream.torn, progress.read + rows <= Requested
                     PROVE  Len(stream.events) + 0 + 2 <= stream.limit
          BY <1>1, <2>7, <3>4 DEF Reserved
        <4>1. Len(stream.events) + Owed + 2 <= stream.limit
          BY <1>2, <1>r DEF Reserved
        <4> QED BY <1>7, <1>8, <4>1
      <3> QED BY <1>2, <2>4, <2>6, <3>1, <3>2, <3>3, <3>5, RunMove
    <2>10. CASE n # 0 /\ n = Least(batchSize, rows) /\ Passes("stage")
      <3>1. step' = "stage" /\ UNCHANGED <<book, failure>>
        BY <2>10 DEF Passes
      <3>2. /\ step' \in Running \ {"deliver"} /\ step' \notin Before
            /\ step' \in Sending /\ step' \notin Settling
            /\ step' \notin {"deliver", "count", "send", "lease", "start"}
        BY <3>1 DEF Running, Before, Sending, Settling, SetupStages
      <3>3. n >= 1 /\ rows > 0
        BY <1>3, <2>2, <2>10
      <3>4. Handed'
        BY <1>1, <1>5, <2>1, <2>2, <2>3, <2>5, <3>1, <3>2, <3>3 DEF Handed
      <3>5. Cost(rows) = Cost(rows - n) + n + 1 + Chunks(n)
        BY <1>3, <2>10, <3>3, CostOfBatch
      <3>6. Owed' = 1 + n + Chunks(n) + Cost(rows - n)
        BY <2>1, <3>2 DEF Owed, Chunks, Cost
      <3>7. Chunks(n) \in Nat /\ Cost(rows - n) \in Nat
        BY <1>3, <2>2, ChunksAre, CostOfBatch
      <3>8. Owed' = Owed
        BY <1>8, <2>2, <3>5, <3>6, <3>7
      <3>9. Reserved'
        BY <1>1, <1>2, <1>r, <2>7, <3>8 DEF Reserved
      <3> QED BY <1>2, <2>4, <2>6, <3>1, <3>2, <3>4, <3>9, RunMove
    <2> QED BY <2>1, <2>8, <2>9, <2>10
  <1>10. CASE ~(progress.read < Requested)
    <2>1. PICK k \in {0, 1} : k = IF progress.read = Requested /\ rows > 0 THEN 1 ELSE 0
      OBVIOUS
    <2>2. progress' = [progress EXCEPT !.read = @ + k] /\ Passes("count") /\ UNCHANGED <<rows, batch>>
      BY <1>10, <2>1 DEF Read
    <2>3. /\ progress' \in [read : Nat, staged : Nat, relayed : Nat, leased : Nat, delivered : Nat,
                            acknowledged : Nat, batches : Nat]
          /\ progress'.read = progress.read + k /\ progress'.staged = progress.staged
          /\ progress'.relayed = progress.relayed /\ progress'.leased = progress.leased
          /\ progress'.delivered = progress.delivered
          /\ progress'.acknowledged = progress.acknowledged
      BY <1>3, <2>2
    <2>4. Data'
      BY <1>1, <1>3, <2>2, <2>3 DEF Data
    <2>5. progress.read \in Nat
      BY <1>3
    <2>6. Backed'
      <3>1. progress'.staged - progress'.acknowledged <= stores'.outbox
        BY <1>1, <1>6, <2>3
      <3>2. progress'.staged <= progress'.read
        BY <1>5, <2>1, <2>3, <2>5
      <3>3. /\ progress'.delivered = progress.read /\ progress'.leased = progress.read
            /\ progress'.relayed = progress.read /\ progress'.staged = progress.read
            /\ stores'.target = progress.read
        BY <1>1, <1>5, <1>6, <2>3
      <3> QED BY <2>5, <3>1, <3>2, <3>3 DEF Backed, CountersAreBacked
    <2>7. step' = "count" /\ UNCHANGED <<book, failure>>
      BY <2>2 DEF Passes
    <2>8. /\ step' \in Running \ {"deliver"} /\ step' \notin Before
          /\ step' \notin Sending \cup Settling
          /\ step' \notin {"deliver", "stage", "send", "lease", "start"}
      BY <2>7 DEF Running, Before, Sending, Settling, SetupStages
    <2>9. progress'.read = progress'.staged \/ progress'.read > Requested
      BY <1>4, <1>5, <2>1, <2>3, <2>5
    <2>10. Handed'
      BY <1>1, <1>5, <2>3, <2>5, <2>7, <2>8, <2>9 DEF Handed
    <2>11. Owed' = 0
      BY <2>8 DEF Owed
    <2>12. progress'.read + rows' <= Requested => progress.read + rows <= Requested
      BY <1>3, <1>4, <2>1, <2>2, <2>3, <2>5
    <2>13. Reserved'
      BY <1>1, <1>2, <1>7, <1>8, <1>r, <2>11, <2>12 DEF Reserved
    <2> QED BY <1>2, <2>4, <2>6, <2>7, <2>8, <2>10, <2>13, RunMove
  <1> QED BY <1>9, <1>10


\* The counters and stores of any state are numbers.
LEMMA Numbers ==
  ASSUME Data
  PROVE  /\ rows \in Nat /\ batch \in Nat /\ left \in Nat
         /\ progress \in [read : Nat, staged : Nat, relayed : Nat, leased : Nat, delivered : Nat,
                          acknowledged : Nat, batches : Nat]
         /\ progress.read \in Nat /\ progress.staged \in Nat /\ progress.relayed \in Nat
         /\ progress.leased \in Nat /\ progress.delivered \in Nat /\ progress.acknowledged \in Nat
         /\ stores \in [outbox : Int, relay : Int, committed : Nat, target : Nat, quarantine : Nat]
         /\ stores.outbox \in Int /\ stores.relay \in Int /\ stores.target \in Nat
         /\ stores.committed \in Nat /\ stores.quarantine \in Nat
  BY DEF Data

\* A stage of the loop that fails with its stores changed.
LEMMA StopLoop ==
  ASSUME WInv, NEW stage \in StageNames, Stops(stage, "unwind"), step \notin Ended,
         UNCHANGED <<rows, batchSize, stream>>, progress'.read = progress.read,
         Data', Backed'
  PROVE  WInv'
  <1>1. MarkFailed(stage) /\ step' = "unwind" /\ "unwind" \in Late
    BY DEF Stops, Late
  <1>2. Owed \in Nat /\ Len(stream.events) \in Nat
    BY OwedIs, DataIs DEF WInv
  <1>3. Len(stream'.events) <= Len(stream.events) + Owed
    BY <1>2
  <1>4. progress.read \in Nat /\ rows \in Nat
    BY Numbers DEF WInv
  <1>5. progress'.read + rows' >= progress.read + rows
    BY <1>4
  <1> QED BY <1>1, <1>3, <1>5, StopMove

\* A stage of the loop that passes on with no event more or less to come.
LEMMA PassLoop ==
  ASSUME WInv, step \in Running, step' \in Running,
         UNCHANGED <<rows, batchSize, stream, book, failure>>, progress'.read = progress.read,
         Data', Backed', Handed', Owed' = Owed
  PROVE  WInv'
  <1>1. step \notin Ended
    BY DEF Ended, Running, Before, Sending, Settling, SetupStages
  <1>2. Reserved
    BY DEF WInv
  <1>3. Reserved'
    BY <1>1, <1>2 DEF Reserved
  <1> QED BY <1>3, RunMove

LEMMA ReadCountStep ==
  ASSUME WInv, ReadCount, UNCHANGED <<left, batchSize>>
  PROVE  WInv'
  <1>1. /\ step = "count" /\ Still /\ UNCHANGED stream
        /\ IF progress.read = Requested THEN Passes("unwind")
           ELSE Stops("source_record_read", "unwind")
    BY DEF ReadCount, Still
  <1>2. /\ step \in Running \ {"deliver"} /\ step \notin Ended /\ step \notin Before
        /\ step \notin Sending \cup Settling \cup {"start", "deliver"}
    BY <1>1 DEF Running, Before, Sending, Settling, SetupStages, Ended
  <1>3. CASE progress.read # Requested
    <2>1. "source_record_read" \in StageNames /\ "unwind" \in Late
      BY DEF StageNames, Late
    <2> QED BY <1>1, <1>2, <1>3, <2>1, StopStill
  <1>4. CASE progress.read = Requested
    <2>1. step' = "unwind" /\ UNCHANGED <<book, failure>>
      BY <1>1, <1>4 DEF Passes
    <2>2. /\ step' \in Late /\ step' \notin Running /\ step' \notin Before
          /\ step' \notin Sending \cup Settling \cup Ended
          /\ step' \notin {"deliver", "stage", "send", "lease", "start", "count", "close", "summaries"}
          /\ step' \notin {"close", "summaries"} \cup Ended /\ step' \notin {"tidy", "done"}
      BY <2>1 DEF Late, Running, Before, Sending, Settling, SetupStages, Ended
    <2>3. Requested \in Nat
      BY SizesAre DEF WInv
    <2>4. /\ progress.staged = Requested /\ progress.relayed = Requested
          /\ progress.leased = Requested /\ progress.delivered = Requested
          /\ progress.acknowledged = Requested
      BY <1>1, <1>4, <2>3 DEF WInv, Handed
    <2>5. Sizes' /\ Data' /\ Backed'
      <3>1. Sizes' /\ Data'
        BY <1>1 DEF WInv, Data, Sizes, Still
      <3> QED BY <1>1, <3>1, BackedStays DEF WInv, Still
    <2>6. Failures'
      BY <2>1, <2>2 DEF WInv, Failures, FirstFailureReported
    <2>7. Handed'
      BY <2>2 DEF Handed
    <2>8. Ending'
      BY <1>1, <1>4, <2>2, <2>4 DEF Ending, Still
    <2>9. Owed' = 0 /\ Owed = 0
      BY <1>2, <2>2 DEF Owed
    <2>10. Reserved
      BY DEF WInv
    <2>11. Reserved'
      BY <1>1, <1>2, <2>9, <2>10 DEF Reserved, Still
    <2> QED BY <2>2, <2>5, <2>6, <2>7, <2>8, <2>11 DEF WInv
  <1> QED BY <1>3, <1>4

LEMMA StageStep ==
  ASSUME WInv, StageBatch, UNCHANGED <<left, batchSize>>
  PROVE  WInv'
  <1>1. step = "stage" /\ UNCHANGED <<rows, batch, stream>>
    BY DEF StageBatch
  <1>2. /\ step \in Running \ {"deliver"} /\ step \notin Ended /\ step \in Sending
        /\ step \in Sending \cup Settling \cup {"deliver"}
    BY <1>1 DEF Running, Sending, Ended
  <1>3. Data /\ Backed /\ Handed
    BY DEF WInv
  <1>4. /\ progress.staged + batch = progress.read /\ progress.relayed = progress.staged
        /\ progress.leased = progress.staged /\ progress.delivered = progress.staged
        /\ progress.acknowledged = progress.staged /\ stores.quarantine = 0
        /\ batch >= 1 /\ batch <= batchSize
    BY <1>1, <1>2, <1>3 DEF Handed
  <1>5. progress.staged - progress.acknowledged <= stores.outbox /\ progress.delivered = stores.target
    BY <1>3 DEF Backed, CountersAreBacked
  <1>6. CASE /\ stores' \in {stores, [stores EXCEPT !.outbox = @ + batch]} /\ UNCHANGED progress
             /\ Stops("source_seal_and_outbox_stage", "unwind")
    <2>1. /\ stores' \in [outbox : Int, relay : Int, committed : Nat, target : Nat, quarantine : Nat]
          /\ stores'.target = stores.target /\ stores'.outbox >= stores.outbox
      BY <1>3, <1>6, Numbers
    <2>2. Data'
      BY <1>1, <1>3, <1>6, <2>1 DEF Data
    <2>3. stores'.outbox \in Int
      BY <2>1
    <2>4. progress.staged - progress.acknowledged <= stores'.outbox
      BY <1>3, <1>5, <2>1, <2>3, Numbers
    <2>5. Backed'
      BY <1>3, <1>6, <2>1, <2>4 DEF Backed, CountersAreBacked
    <2>6. "source_seal_and_outbox_stage" \in StageNames
      BY DEF StageNames
    <2> QED BY <1>1, <1>2, <1>6, <2>2, <2>5, <2>6, StopLoop
  <1>7. CASE /\ stores' = [stores EXCEPT !.outbox = @ + batch]
             /\ progress' = [progress EXCEPT !.staged = @ + batch] /\ Passes("send")
    <2>1. /\ stores' \in [outbox : Int, relay : Int, committed : Nat, target : Nat, quarantine : Nat]
          /\ stores'.target = stores.target /\ stores'.outbox = stores.outbox + batch
          /\ stores'.quarantine = stores.quarantine
      BY <1>3, <1>7, Numbers
    <2>2. /\ progress' \in [read : Nat, staged : Nat, relayed : Nat, leased : Nat, delivered : Nat,
                            acknowledged : Nat, batches : Nat]
          /\ progress'.read = progress.read /\ progress'.staged = progress.staged + batch
          /\ progress'.relayed = progress.relayed /\ progress'.leased = progress.leased
          /\ progress'.delivered = progress.delivered
          /\ progress'.acknowledged = progress.acknowledged
      BY <1>3, <1>7, Numbers
    <2>3. Data'
      BY <1>1, <1>3, <2>1, <2>2 DEF Data
    <2>4. /\ progress.staged \in Nat /\ batch \in Nat /\ stores.outbox \in Int
          /\ progress.read \in Nat
      BY <1>3, Numbers
    <2>5. progress'.staged - progress'.acknowledged <= stores'.outbox
      <3>1. progress.staged - progress.staged <= stores.outbox
        BY <1>4, <1>5
      <3>2. (progress.staged + batch) - progress.staged <= stores.outbox + batch
        BY <2>4, <3>1
      <3> QED BY <1>4, <2>1, <2>2, <3>2
    <2>6. /\ progress'.delivered = progress.staged /\ progress'.leased = progress.staged
          /\ progress'.relayed = progress.staged /\ progress'.staged = progress.read
          /\ progress.staged <= progress.read /\ stores'.target = progress.staged
      <3>1. /\ progress'.delivered = progress.staged /\ progress'.leased = progress.staged
            /\ progress'.relayed = progress.staged /\ progress'.staged = progress.read
            /\ stores'.target = progress.staged
        BY <1>4, <1>5, <2>1, <2>2
      <3>2. progress.staged <= progress.read
        BY <1>4, <2>4
      <3> QED BY <3>1, <3>2
    <2>7. Backed'
      BY <2>2, <2>4, <2>5, <2>6 DEF Backed, CountersAreBacked
    <2>8. step' = "send" /\ UNCHANGED <<book, failure>>
      BY <1>7 DEF Passes
    <2>9. /\ step' \in Running \ {"deliver"} /\ step' \in Sending /\ step' \notin Before
          /\ step' \notin Settling
      BY <2>8 DEF Running, Before, Sending, Settling, SetupStages
    <2>10. Handed'
      BY <1>1, <1>4, <2>1, <2>2, <2>4, <2>6, <2>8, <2>9 DEF Handed
    <2>11. Owed' = Owed
      BY <1>1, <1>2, <2>9 DEF Owed, Chunks, Cost
    <2> QED BY <1>1, <1>2, <2>2, <2>3, <2>7, <2>8, <2>9, <2>10, <2>11, PassLoop
  <1> QED BY <1>6, <1>7 DEF StageBatch


LEMMA SendStep ==
  ASSUME WInv, SendBatch, UNCHANGED <<left, batchSize>>
  PROVE  WInv'
  <1>1. step = "send" /\ UNCHANGED <<rows, batch, stream>>
    BY DEF SendBatch
  <1>2. /\ step \in Running \ {"deliver"} /\ step \notin Ended /\ step \in Sending
        /\ step \in Sending \cup Settling \cup {"deliver"}
    BY <1>1 DEF Running, Sending, Ended
  <1>3. Data /\ Backed /\ Handed
    BY DEF WInv
  <1>4. /\ progress.staged = progress.read /\ progress.relayed + batch = progress.read
        /\ progress.leased = progress.relayed /\ progress.delivered = progress.relayed
        /\ progress.acknowledged = progress.relayed /\ stores.quarantine = 0
        /\ batch >= 1 /\ batch <= batchSize
    BY <1>1, <1>2, <1>3 DEF Handed
  <1>5. progress.staged - progress.acknowledged <= stores.outbox /\ progress.delivered = stores.target
    BY <1>3 DEF Backed, CountersAreBacked
  <1>6. CASE /\ stores' \in {stores, [stores EXCEPT !.relay = @ + batch]} /\ UNCHANGED progress
             /\ Stops("outbox_reload_and_relay_enqueue", "unwind")
    <2>1. /\ stores' \in [outbox : Int, relay : Int, committed : Nat, target : Nat, quarantine : Nat]
          /\ stores'.target = stores.target /\ stores'.outbox = stores.outbox
      BY <1>3, <1>6, Numbers
    <2>2. Data'
      BY <1>1, <1>3, <1>6, <2>1 DEF Data
    <2>3. Backed'
      BY <1>3, <1>6, <2>1 DEF Backed, CountersAreBacked
    <2>4. "outbox_reload_and_relay_enqueue" \in StageNames
      BY DEF StageNames
    <2> QED BY <1>1, <1>2, <1>6, <2>2, <2>3, <2>4, StopLoop
  <1>7. CASE /\ stores' = [stores EXCEPT !.relay = @ + batch]
             /\ progress' = [progress EXCEPT !.relayed = @ + batch] /\ Passes("lease")
    <2>1. /\ stores' \in [outbox : Int, relay : Int, committed : Nat, target : Nat, quarantine : Nat]
          /\ stores'.target = stores.target /\ stores'.outbox = stores.outbox
          /\ stores'.quarantine = stores.quarantine
      BY <1>3, <1>7, Numbers
    <2>2. /\ progress' \in [read : Nat, staged : Nat, relayed : Nat, leased : Nat, delivered : Nat,
                            acknowledged : Nat, batches : Nat]
          /\ progress'.read = progress.read /\ progress'.staged = progress.staged
          /\ progress'.relayed = progress.relayed + batch /\ progress'.leased = progress.leased
          /\ progress'.delivered = progress.delivered
          /\ progress'.acknowledged = progress.acknowledged
      BY <1>3, <1>7, Numbers
    <2>3. Data'
      BY <1>1, <1>3, <2>1, <2>2 DEF Data
    <2>4. progress.relayed \in Nat /\ batch \in Nat /\ progress.read \in Nat
      BY <1>3, Numbers
    <2>5. progress'.staged - progress'.acknowledged <= stores'.outbox
      BY <1>5, <2>1, <2>2
    <2>6. /\ progress'.delivered = progress.relayed /\ progress'.leased = progress.relayed
          /\ progress'.relayed = progress.read /\ progress'.staged = progress.read
          /\ stores'.target = progress.relayed
      BY <1>4, <1>5, <2>1, <2>2
    <2>7. progress.relayed <= progress.read
      BY <1>4, <2>4
    <2>8. Backed'
      BY <2>2, <2>4, <2>5, <2>6, <2>7 DEF Backed, CountersAreBacked
    <2>9. step' = "lease" /\ UNCHANGED <<book, failure>>
      BY <1>7 DEF Passes
    <2>10. /\ step' \in Running \ {"deliver"} /\ step' \in Sending /\ step' \notin Before
           /\ step' \notin Settling
      BY <2>9 DEF Running, Before, Sending, Settling, SetupStages
    <2>11. Handed'
      BY <1>1, <1>4, <2>1, <2>2, <2>4, <2>6, <2>9, <2>10 DEF Handed
    <2>12. Owed' = Owed
      BY <1>1, <1>2, <2>10 DEF Owed, Chunks, Cost
    <2> QED BY <1>1, <1>2, <2>2, <2>3, <2>8, <2>9, <2>10, <2>11, <2>12, PassLoop
  <1> QED BY <1>6, <1>7 DEF SendBatch

LEMMA LeaseStep ==
  ASSUME WInv, LeaseBatch, UNCHANGED batchSize
  PROVE  WInv'
  <1>1. step = "lease" /\ left' = batch /\ UNCHANGED <<rows, batch, stores, stream>>
    BY DEF LeaseBatch
  <1>2. /\ step \in Running \ {"deliver"} /\ step \notin Ended /\ step \in Sending
        /\ step \in Sending \cup Settling \cup {"deliver"}
    BY <1>1 DEF Running, Sending, Ended
  <1>3. Data /\ Backed /\ Handed
    BY DEF WInv
  <1>4. /\ progress.staged = progress.read /\ progress.relayed = progress.read
        /\ progress.leased + batch = progress.read /\ progress.delivered = progress.leased
        /\ progress.acknowledged = progress.leased /\ stores.quarantine = 0
        /\ batch >= 1 /\ batch <= batchSize
    BY <1>1, <1>2, <1>3 DEF Handed
  <1>5. progress.staged - progress.acknowledged <= stores.outbox /\ progress.delivered = stores.target
    BY <1>3 DEF Backed, CountersAreBacked
  <1>6. PICK n \in 0..batch :
          /\ progress' = [progress EXCEPT !.leased = @ + n]
          /\ \/ n = batch /\ Passes("deliver")
             \/ n < batch /\ Stops("relay_lease", "unwind")
    BY DEF LeaseBatch
  <1>7. progress.leased \in Nat /\ batch \in Nat /\ progress.read \in Nat /\ n \in Nat /\ n <= batch
    BY <1>3, <1>6, Numbers
  <1>8. /\ progress' \in [read : Nat, staged : Nat, relayed : Nat, leased : Nat, delivered : Nat,
                          acknowledged : Nat, batches : Nat]
        /\ progress'.read = progress.read /\ progress'.staged = progress.staged
        /\ progress'.relayed = progress.relayed /\ progress'.leased = progress.leased + n
        /\ progress'.delivered = progress.delivered
        /\ progress'.acknowledged = progress.acknowledged
    BY <1>3, <1>6, <1>7, Numbers
  <1>9. Data'
    BY <1>1, <1>3, <1>7, <1>8 DEF Data
  <1>10. progress'.staged - progress'.acknowledged <= stores'.outbox
    BY <1>1, <1>5, <1>8
  <1>11. /\ progress'.delivered = progress.leased /\ progress'.leased = progress.leased + n
         /\ progress'.relayed = progress.read /\ progress'.staged = progress.read
         /\ stores'.target = progress.leased
    BY <1>1, <1>4, <1>5, <1>8
  <1>12. progress.leased <= progress.leased + n /\ progress.leased + n <= progress.read
    BY <1>4, <1>7
  <1>13. Backed'
    BY <1>7, <1>8, <1>10, <1>11, <1>12 DEF Backed, CountersAreBacked
  <1>14. CASE Stops("relay_lease", "unwind")
    <2>1. "relay_lease" \in StageNames
      BY DEF StageNames
    <2> QED BY <1>1, <1>2, <1>8, <1>9, <1>13, <1>14, <2>1, StopLoop
  <1>15. CASE n = batch /\ Passes("deliver")
    <2>1. step' = "deliver" /\ UNCHANGED <<book, failure>>
      BY <1>15 DEF Passes
    <2>2. /\ step' \in Running /\ step' \notin Sending /\ step' \notin Before
          /\ step' \notin Settling /\ step' \in Sending \cup Settling \cup {"deliver"}
      BY <2>1 DEF Running, Before, Sending, Settling, SetupStages
    <2>3. progress'.delivered + stores'.quarantine + left' = progress'.read
      BY <1>1, <1>4, <1>7, <1>8
    <2>4. progress'.acknowledged + batch' = progress'.read /\ progress'.leased = progress'.read
      BY <1>1, <1>4, <1>8, <1>15
    <2>5. Handed'
      BY <1>1, <1>4, <1>7, <1>8, <1>11, <2>1, <2>2, <2>3, <2>4 DEF Handed
    <2>6. Owed' = Owed
      BY <1>1, <1>2, <2>1, <2>2 DEF Owed, Chunks, Cost
    <2> QED BY <1>1, <1>2, <1>8, <1>9, <1>13, <2>1, <2>2, <2>5, <2>6, PassLoop
  <1> QED BY <1>6, <1>14, <1>15

LEMMA AckStep ==
  ASSUME WInv, AckBatch, UNCHANGED <<left, batchSize>>
  PROVE  WInv'
  <1>1. step = "acknowledge" /\ UNCHANGED <<rows, batch, stream>>
    BY DEF AckBatch
  <1>2. /\ step \in Running \ {"deliver"} /\ step \notin Ended /\ step \in Settling
        /\ step \notin Sending /\ step # "deliver"
        /\ step \in Sending \cup Settling \cup {"deliver"}
    BY <1>1 DEF Running, Sending, Settling, Ended
  <1>3. Data /\ Backed /\ Handed
    BY DEF WInv
  <1>4. /\ progress.staged = progress.read /\ progress.relayed = progress.read
        /\ progress.leased = progress.read /\ progress.delivered = progress.read
        /\ progress.acknowledged = progress.read - batch /\ stores.quarantine = 0
        /\ batch >= 1 /\ batch <= batchSize
    BY <1>1, <1>2, <1>3 DEF Handed
  <1>5. progress.staged - progress.acknowledged <= stores.outbox /\ progress.delivered = stores.target
    BY <1>3 DEF Backed, CountersAreBacked
  <1>6. CASE /\ stores' \in {stores, [stores EXCEPT !.relay = @ - batch]} /\ UNCHANGED progress
             /\ Stops("acknowledgements", "unwind")
    <2>1. /\ stores' \in [outbox : Int, relay : Int, committed : Nat, target : Nat, quarantine : Nat]
          /\ stores'.target = stores.target /\ stores'.outbox = stores.outbox
      BY <1>3, <1>6, Numbers
    <2>2. Data'
      BY <1>1, <1>3, <1>6, <2>1 DEF Data
    <2>3. Backed'
      BY <1>3, <1>6, <2>1 DEF Backed, CountersAreBacked
    <2>4. "acknowledgements" \in StageNames
      BY DEF StageNames
    <2> QED BY <1>1, <1>2, <1>6, <2>2, <2>3, <2>4, StopLoop
  <1>7. CASE /\ stores' = [stores EXCEPT !.relay = @ - batch, !.outbox = @ - batch]
             /\ progress' = [progress EXCEPT !.acknowledged = @ + batch] /\ Passes("check")
    <2>1. /\ stores' \in [outbox : Int, relay : Int, committed : Nat, target : Nat, quarantine : Nat]
          /\ stores'.target = stores.target /\ stores'.outbox = stores.outbox - batch
          /\ stores'.quarantine = stores.quarantine
      <3>1. stores.relay - batch \in Int /\ stores.outbox - batch \in Int
        BY <1>3, Numbers
      <3>2. stores \in [outbox : Int, relay : Int, committed : Nat, target : Nat, quarantine : Nat]
        BY <1>3, Numbers
      <3> QED BY <1>7, <3>1, <3>2
    <2>2. /\ progress' \in [read : Nat, staged : Nat, relayed : Nat, leased : Nat, delivered : Nat,
                            acknowledged : Nat, batches : Nat]
          /\ progress'.read = progress.read /\ progress'.staged = progress.staged
          /\ progress'.relayed = progress.relayed /\ progress'.leased = progress.leased
          /\ progress'.delivered = progress.delivered
          /\ progress'.acknowledged = progress.acknowledged + batch
      BY <1>3, <1>7, Numbers
    <2>3. Data'
      BY <1>1, <1>3, <2>1, <2>2 DEF Data
    <2>4. batch \in Nat /\ progress.read \in Nat /\ stores.outbox \in Int /\ progress.acknowledged \in Nat
      BY <1>3, Numbers
    <2>5. progress'.acknowledged = progress.read
      BY <1>4, <2>2, <2>4
    <2>6. progress'.staged - progress'.acknowledged <= stores'.outbox
      <3>1. progress.read - (progress.read - batch) <= stores.outbox
        BY <1>4, <1>5
      <3>2. progress.read - progress.read <= stores.outbox - batch
        BY <2>4, <3>1
      <3> QED BY <1>4, <2>1, <2>2, <2>5, <3>2
    <2>7. /\ progress'.delivered = progress.read /\ progress'.leased = progress.read
          /\ progress'.relayed = progress.read /\ progress'.staged = progress.read
          /\ stores'.target = progress.read
      BY <1>4, <1>5, <2>1, <2>2
    <2>8. Backed'
      BY <2>2, <2>4, <2>6, <2>7 DEF Backed, CountersAreBacked
    <2>9. step' = "check" /\ UNCHANGED <<book, failure>>
      BY <1>7 DEF Passes
    <2>10. /\ step' \in Running \ {"deliver"} /\ step' \in Settling /\ step' \notin Before
           /\ step' \notin Sending
      BY <2>9 DEF Running, Before, Sending, Settling, SetupStages
    <2>11. Handed'
      BY <1>1, <1>4, <2>1, <2>2, <2>5, <2>7, <2>9, <2>10 DEF Handed
    <2>12. Owed' = Owed
      BY <1>1, <1>2, <2>9, <2>10 DEF Owed, Chunks, Cost
    <2> QED BY <1>1, <1>2, <2>2, <2>3, <2>8, <2>9, <2>10, <2>11, <2>12, PassLoop
  <1> QED BY <1>6, <1>7 DEF AckBatch


LEMMA CheckStep ==
  ASSUME WInv, CheckBatch, UNCHANGED <<left, batchSize>>
  PROVE  WInv'
  <1>1. /\ step = "check" /\ Still /\ UNCHANGED stream
        /\ Passes("events") \/ Stops("destination_audit_outcome_check", "unwind")
    BY DEF CheckBatch, Still
  <1>2. step \in Running \ {"deliver"} /\ step \notin Ended /\ step \in Settling /\ step \notin Sending
    BY <1>1 DEF Running, Ended, Settling, Sending
  <1>3. CASE Stops("destination_audit_outcome_check", "unwind")
    <2>1. "destination_audit_outcome_check" \in StageNames /\ "unwind" \in Late
      BY DEF StageNames, Late
    <2> QED BY <1>1, <1>2, <1>3, <2>1, StopStill
  <1>4. CASE Passes("events")
    <2>1. step' = "events" /\ UNCHANGED <<book, failure>>
      BY <1>4 DEF Passes
    <2>2. /\ step' \in Running \ {"deliver"} /\ step' \in Settling /\ step' \notin Before
          /\ step' \notin Sending
      BY <2>1 DEF Running, Before, Sending, Settling, SetupStages
    <2>3. Handed'
      BY <1>1, <1>2, <2>1, <2>2 DEF WInv, Handed, Still
    <2>4. Owed' = Owed
      BY <1>1, <1>2, <2>1, <2>2 DEF Owed, Still, Cost
    <2>5. Owed \in Nat
      BY OwedIs DEF WInv
    <2> QED BY <1>1, <1>2, <2>1, <2>2, <2>3, <2>4, <2>5, PassStill
  <1> QED BY <1>1, <1>3, <1>4

LEMMA CheckEventsStep ==
  ASSUME WInv, CheckEvents, UNCHANGED <<left, batchSize>>
  PROVE  WInv'
  <1>1. /\ step = "events" /\ UNCHANGED <<rows, batch, stores, stream>>
        /\ \/ Passes("batched") /\ progress' = [progress EXCEPT !.batches = @ + 1]
           \/ Stops("destination_operational_event_check", "unwind") /\ UNCHANGED progress
    BY DEF CheckEvents
  <1>2. step \in Running \ {"deliver"} /\ step \notin Ended /\ step \in Settling /\ step \notin Sending
    BY <1>1 DEF Running, Ended, Settling, Sending
  <1>3. CASE Stops("destination_operational_event_check", "unwind") /\ UNCHANGED progress
    <2>1. "destination_operational_event_check" \in StageNames /\ "unwind" \in Late
      BY DEF StageNames, Late
    <2>2. Still
      BY <1>1, <1>3 DEF Still
    <2> QED BY <1>1, <1>2, <1>3, <2>1, <2>2, StopStill
  <1>4. CASE Passes("batched") /\ progress' = [progress EXCEPT !.batches = @ + 1]
    <2>1. step' = "batched" /\ UNCHANGED <<book, failure>>
      BY <1>4 DEF Passes
    <2>2. /\ step' \in Running \ {"deliver"} /\ step' \in Settling /\ step' \notin Before
          /\ step' \notin Sending
      BY <2>1 DEF Running, Before, Sending, Settling, SetupStages
    <2>3. /\ progress' \in [read : Nat, staged : Nat, relayed : Nat, leased : Nat, delivered : Nat,
                            acknowledged : Nat, batches : Nat]
          /\ progress'.read = progress.read /\ progress'.staged = progress.staged
          /\ progress'.relayed = progress.relayed /\ progress'.leased = progress.leased
          /\ progress'.delivered = progress.delivered
          /\ progress'.acknowledged = progress.acknowledged
      <3>1. progress \in [read : Nat, staged : Nat, relayed : Nat, leased : Nat, delivered : Nat,
                           acknowledged : Nat, batches : Nat]
        BY DEF WInv, Data
      <3>2. progress.batches + 1 \in Nat
        BY <3>1
      <3> QED BY <1>4, <3>1, <3>2
    <2>4. Data' /\ Backed'
      <3>1. Data'
        BY <1>1, <2>3 DEF WInv, Data
      <3>2. Backed'
        BY <1>1, <2>3 DEF WInv, Backed, CountersAreBacked
      <3> QED BY <3>1, <3>2
    <2>5. Handed'
      BY <1>1, <1>2, <2>1, <2>2, <2>3 DEF WInv, Handed
    <2>6. Owed' = Owed
      BY <1>1, <1>2, <2>1, <2>2 DEF Owed, Cost
    <2> QED BY <1>1, <1>2, <2>1, <2>2, <2>3, <2>4, <2>5, <2>6, PassLoop
  <1> QED BY <1>1, <1>3, <1>4

LEMMA CompleteStep ==
  ASSUME WInv, CompleteBatch, UNCHANGED <<left, batchSize>>
  PROVE  WInv'
  <1> DEFINE e == Event("batch_completed", "passed", batch)
  <1>1. step = "batched" /\ Still
    BY DEF CompleteBatch, Still
  <1>2. \/ Room(Len(<<e>>)) /\ stream' = Appended(<<e>>) /\ Passes("read")
        \/ /\ Stops("workflow_internal", "unwind")
           /\ stream' \in {stream, [stream EXCEPT !.torn = TRUE]}
    BY EmitsIs DEF CompleteBatch
  <1>3. CASE Stops("workflow_internal", "unwind")
             /\ stream' \in {stream, [stream EXCEPT !.torn = TRUE]}
    <2>1. "workflow_internal" \in StageNames /\ "unwind" \in Late /\ step \notin Ended
      BY <1>1 DEF StageNames, Late, Ended
    <2> QED BY <1>1, <1>3, <2>1, StopStill
  <1>4. CASE Room(Len(<<e>>)) /\ stream' = Appended(<<e>>) /\ Passes("read")
    <2>1. batch \in Nat
      BY Numbers DEF WInv
    <2>2. <<e>> \in Seq(Events) /\ Len(<<e>>) = 1
      <3>1. e \in Events
        BY <2>1 DEF Event, Events
      <3> HIDE DEF e
      <3> QED BY <3>1
    <2> HIDE DEF e
    <2>3. /\ stream' \in [events : Seq(Events), torn : BOOLEAN, limit : Nat]
          /\ Len(stream'.events) = Len(stream.events) + 1
          /\ stream'.limit = stream.limit /\ ~stream.torn
          /\ Len(stream'.events) <= stream'.limit
      BY <1>4, <2>2, StreamGrown DEF WInv
    <2>4. Data' /\ Backed'
      BY <1>1, <2>3, DataStays, BackedStays DEF WInv, Still
    <2>5. step' = "read" /\ UNCHANGED <<book, failure>>
      BY <1>4 DEF Passes
    <2>6. /\ step' \in Before /\ step' \in Running \ {"deliver"}
          /\ step' \notin Sending \cup Settling \cup {"deliver", "count", "start"}
          /\ step \in Settling /\ step \in Running \ {"deliver"}
          /\ step \notin Sending /\ step # "deliver" /\ step \notin Ended
      BY <1>1, <2>5 DEF Running, Before, Sending, Settling, SetupStages, Ended
    <2>7. Handed'
      BY <1>1, <2>5, <2>6 DEF WInv, Handed, Still
    <2>8. Owed = 1 + Cost(rows) /\ Owed' = Cost(rows)
      BY <1>1, <2>6 DEF Owed, Still, Cost
    <2>9. Cost(rows) \in Nat /\ Len(stream.events) \in Nat /\ stream.limit \in Nat
      BY CostOfBatch, DataIs DEF WInv, Data
    <2>10. Reserved
      BY DEF WInv
    <2>11. Reserved'
      BY <1>1, <2>3, <2>6, <2>8, <2>9, <2>10 DEF Reserved, Still
    <2> QED BY <2>4, <2>5, <2>6, <2>7, <2>11, RunMove
  <1> QED BY <1>2, <1>3, <1>4

-----------------------------------------------------------------------------
(* A chunk of a batch                                                      *)

LEMMA Joined ==
  ASSUME NEW S, NEW a \in Seq(S), NEW b \in Seq(S)
  PROVE  a \o b \in Seq(S) /\ Len(a \o b) = Len(a) + Len(b)
  OBVIOUS

LEMMA ChunkEventsAre ==
  ASSUME NEW k \in Nat, k >= 1, NEW status \in {"delivered", "quarantined"}
  PROVE  /\ ChunkEvents(k, status) \in Seq(Events)
         /\ Len(ChunkEvents(k, status)) = k + (IF k > 1 THEN 1 ELSE 0)
  <1>1. PICK one : one = Event("delivery", status, 1)
    OBVIOUS
  <1>2. PICK all : all = Event("delivery_batch", status, k)
    OBVIOUS
  <1>3. one \in Events /\ all \in Events
    BY <1>1, <1>2 DEF Event, Events
  <1>4. PICK singles : singles = [i \in 1..k |-> one]
    OBVIOUS
  <1>5. singles \in Seq(Events) /\ Len(singles) = k
    BY <1>3, <1>4
  <1>6. PICK tail : tail = IF k > 1 THEN <<all>> ELSE <<>>
    OBVIOUS
  <1>7. tail \in Seq(Events) /\ Len(tail) = IF k > 1 THEN 1 ELSE 0
    BY <1>3, <1>6
  <1>8. ChunkEvents(k, status) = singles \o tail
    BY <1>1, <1>2, <1>4, <1>6 DEF ChunkEvents
  <1>9. singles \o tail \in Seq(Events) /\ Len(singles \o tail) = Len(singles) + Len(tail)
    BY <1>5, <1>7, Joined
  <1> QED BY <1>5, <1>7, <1>8, <1>9

\* Telling of a chunk adds its events or nothing.
LEMMA ToldIs ==
  ASSUME Data, NEW added \in Seq(Events), Told(added)
  PROVE  /\ stream' \in [events : Seq(Events), torn : BOOLEAN, limit : Nat]
         /\ stream'.limit = stream.limit
         /\ ~stream'.torn => ~stream.torn
         /\ Len(stream'.events) <= stream'.limit
         /\ Len(stream'.events) <= Len(stream.events) + Len(added)
  <1>1. CASE Room(Len(added))
    <2>1. stream' = Appended(added)
      BY <1>1 DEF Told
    <2>2. Len(stream.events) \in Nat /\ Len(added) \in Nat
      BY DataIs
    <2>3. /\ stream' \in [events : Seq(Events), torn : BOOLEAN, limit : Nat]
          /\ Len(stream'.events) = Len(stream.events) + Len(added)
          /\ stream'.limit = stream.limit /\ ~stream'.torn /\ ~stream.torn
          /\ Len(stream'.events) <= stream'.limit
      BY <1>1, <2>1, StreamGrown
    <2> QED BY <2>2, <2>3
  <1>2. CASE ~Room(Len(added))
    <2>1. stream' = stream
      BY <1>2 DEF Told
    <2>2. Len(stream.events) \in Nat /\ Len(added) \in Nat
      BY DataIs
    <2> QED BY <2>1, <2>2 DEF Data
  <1> QED BY <1>1, <1>2


LEMMA SumOwed ==
  ASSUME NEW m \in Nat, NEW l \in Nat, NEW b \in Nat, NEW n \in Nat, NEW a \in Nat,
         NEW c \in Nat, NEW o, m + l + b <= n + a, o = 1 + n + a + c
  PROVE  o \in Nat /\ m <= o /\ m + (1 + l + b + c) <= o
  OBVIOUS

LEMMA SumReserved ==
  ASSUME NEW x \in Nat, NEW y \in Nat, NEW m \in Nat, NEW o \in Nat, NEW q \in Nat,
         NEW max \in Nat, y <= x + m, x + o + 2 <= max, m + q <= o
  PROVE  y + q + 2 <= max
  OBVIOUS

LEMMA DeliverStep ==
  ASSUME WInv, DeliverChunk, UNCHANGED batchSize
  PROVE  WInv'
  <1>1. step = "deliver" /\ left' = left - Chunk /\ UNCHANGED <<rows, batch>>
    BY DEF DeliverChunk
  <1>2. /\ step \in Running /\ step \notin Ended /\ step \notin Sending /\ step \notin Settling
        /\ step \in Sending \cup Settling \cup {"deliver"}
    BY <1>1 DEF Running, Sending, Settling, Ended
  <1>3. Sizes /\ Data /\ Backed /\ Handed /\ Reserved
    BY DEF WInv
  <1>4. /\ progress.staged = progress.read /\ progress.relayed = progress.read
        /\ progress.leased = progress.read
        /\ progress.delivered + stores.quarantine + left = progress.read
        /\ progress.acknowledged + batch = progress.read /\ left >= 1 /\ left <= batch
        /\ batch >= 1 /\ batch <= batchSize
    BY <1>1, <1>2, <1>3 DEF Handed
  <1>5. progress.staged - progress.acknowledged <= stores.outbox /\ progress.delivered = stores.target
    BY <1>3 DEF Backed, CountersAreBacked
  <1>6. /\ progress.read \in Nat /\ progress.delivered \in Nat /\ stores.quarantine \in Nat
        /\ left \in Nat /\ batch \in Nat /\ stores.target \in Nat /\ stores.committed \in Nat
        /\ rows \in Nat /\ progress.acknowledged \in Nat /\ Len(stream.events) \in Nat
        /\ stream.limit \in Nat
    BY <1>3, Numbers, DataIs
  <1>7. PICK k : k = Chunk
    OBVIOUS
  <1>8. /\ k \in 1..left /\ left - k \in Nat
        /\ batchSize # 1 => Chunks(left) = Chunks(left - k) + 1
    BY <1>3, <1>4, <1>6, <1>7, ChunksAre DEF Chunk
  <1>9. k \in Nat /\ k >= 1 /\ left' = left - k /\ left' \in Nat
    BY <1>1, <1>6, <1>7, <1>8
  <1>10. Chunks(left) \in Nat /\ Chunks(left - k) \in Nat /\ Cost(rows) \in Nat
    BY <1>3, <1>6, <1>8, ChunksAre, CostOfBatch
  <1>11. PICK m \in Nat : m = k + (IF k > 1 THEN 1 ELSE 0)
    BY <1>9
  \* The chunk's events are what it was owed.
  <1>12. m + (left - k) + Chunks(left - k) <= left + Chunks(left)
    <2>1. CASE batchSize = 1
      <3>1. left = 1 /\ k = 1 /\ m = 1
        BY <1>4, <1>6, <1>8, <1>11, <2>1
      <3>2. Chunks(left) = 0 /\ Chunks(left - k) = 0
        BY <2>1 DEF Chunks
      <3> QED BY <3>1, <3>2
    <2>2. CASE batchSize # 1
      <3>1. Chunks(left) = Chunks(left - k) + 1 /\ m <= k + 1
        BY <1>8, <1>9, <1>11, <2>2
      <3> QED BY <1>6, <1>8, <1>9, <1>10, <1>11, <3>1
    <2> QED BY <2>1, <2>2
  <1>13. Owed = 1 + left + Chunks(left) + Cost(rows)
    BY <1>1, <1>2 DEF Owed
  <1>14. /\ Owed \in Nat /\ m <= Owed
         /\ m + (1 + (left - k) + Chunks(left - k) + Cost(rows)) <= Owed
    <2>1. PICK a \in Nat : a = Chunks(left)
      BY <1>10
    <2>2. PICK b \in Nat : b = Chunks(left - k)
      BY <1>10
    <2>3. PICK c \in Nat : c = Cost(rows)
      BY <1>10
    <2>4. PICK l \in Nat : l = left - k
      BY <1>8
    <2>5. m + l + b <= left + a /\ Owed = 1 + left + a + c
      BY <1>12, <1>13, <2>1, <2>2, <2>3, <2>4
    <2>6. PICK n \in Nat : n = left
      BY <1>6
    <2>7. PICK o : o = Owed
      OBVIOUS
    <2>8. m + l + b <= n + a /\ o = 1 + n + a + c
      BY <2>5, <2>6, <2>7
    <2>9. o \in Nat /\ m <= o /\ m + (1 + l + b + c) <= o
      BY <1>11, <2>1, <2>2, <2>3, <2>4, <2>6, <2>8, SumOwed
    <2> QED BY <2>2, <2>3, <2>4, <2>7, <2>9
  \* Nothing is written, something is, or the chunk is quarantined.
  <1>15. CASE Stops("destination_delivery", "unwind") /\ UNCHANGED <<stores, progress, stream>>
    <2>1. "destination_delivery" \in StageNames
      BY DEF StageNames
    <2>2. Data'
      BY <1>1, <1>3, <1>9, <1>15 DEF Data
    <2>3. Backed'
      BY <1>3, <1>15, BackedStays
    <2> QED BY <1>1, <1>2, <1>15, <2>1, <2>2, <2>3, StopLoop
  <1>16. ASSUME AfterChunk,
                stream' \in [events : Seq(Events), torn : BOOLEAN, limit : Nat],
                stream'.limit = stream.limit, ~stream'.torn => ~stream.torn,
                Len(stream'.events) <= stream'.limit,
                Len(stream'.events) <= Len(stream.events) + m,
                progress' \in [read : Nat, staged : Nat, relayed : Nat, leased : Nat,
                               delivered : Nat, acknowledged : Nat, batches : Nat],
                stores' \in [outbox : Int, relay : Int, committed : Nat, target : Nat,
                             quarantine : Nat],
                progress'.read = progress.read, progress'.staged = progress.staged,
                progress'.relayed = progress.relayed, progress'.leased = progress.leased,
                progress'.acknowledged = progress.acknowledged, stores'.outbox = stores.outbox,
                \/ /\ progress'.delivered = progress.delivered + k
                   /\ stores'.target = stores.target + k /\ stores'.quarantine = stores.quarantine
                \/ /\ progress'.delivered = progress.delivered
                   /\ stores'.target = stores.target /\ stores'.quarantine = stores.quarantine + k
         PROVE  WInv'
    <2>1. Data'
      BY <1>1, <1>3, <1>9, <1>16 DEF Data
    <2>2. Len(stream'.events) \in Nat
      BY <2>1, DataIs
    <2>3. /\ progress'.delivered \in Nat /\ stores'.quarantine \in Nat /\ stores'.target \in Nat
          /\ progress'.delivered = stores'.target
          /\ progress'.delivered + stores'.quarantine + left' = progress'.read
      <3>1. progress'.delivered \in Nat /\ stores'.quarantine \in Nat /\ stores'.target \in Nat
        BY <1>16
      <3>2. progress'.delivered = stores'.target
        BY <1>5, <1>6, <1>9, <1>16
      <3>3. progress'.delivered + stores'.quarantine + (left - k) = progress.read
        <4>1. progress.delivered + stores.quarantine + left = progress.read
          BY <1>4
        <4>2. CASE /\ progress'.delivered = progress.delivered + k
                   /\ stores'.quarantine = stores.quarantine
          BY <1>6, <1>9, <4>1, <4>2
        <4>3. CASE /\ progress'.delivered = progress.delivered
                   /\ stores'.quarantine = stores.quarantine + k
          BY <1>6, <1>9, <4>1, <4>3
        <4> QED BY <1>16, <4>2, <4>3
      <3> QED BY <1>9, <1>16, <3>1, <3>2, <3>3
    <2>4. progress'.delivered <= progress'.read
      BY <1>6, <1>9, <1>16, <2>3, SMTT(30)
    <2>5. Backed'
      <3>1. progress'.staged - progress'.acknowledged <= stores'.outbox
        BY <1>5, <1>16
      <3>2. /\ progress'.leased = progress.read /\ progress'.relayed = progress.read
            /\ progress'.staged = progress.read /\ progress'.read = progress.read
        BY <1>4, <1>16
      <3> QED BY <1>6, <2>3, <2>4, <3>1, <3>2 DEF Backed, CountersAreBacked
    <2>6. CASE Stops("destination_delivery", "unwind")
      <3>1. /\ MarkFailed("destination_delivery") /\ step' = "unwind" /\ "unwind" \in Late
            /\ "destination_delivery" \in StageNames
        BY <2>6 DEF Stops, Late, StageNames
      <3>2. Len(stream'.events) <= Len(stream.events) + Owed
        <4>1. Len(stream'.events) <= Len(stream.events) + m
          BY <1>16
        <4> QED BY <1>6, <1>11, <1>14, <2>2, <4>1
      <3>3. progress'.read + rows' >= progress.read + rows
        BY <1>1, <1>6, <1>16, SMTT(30)
      <3> QED BY <1>2, <1>16, <2>1, <2>5, <3>1, <3>2, <3>3, StopMove
    <2>7. ASSUME NEW next \in {"deliver", "acknowledge"}, Passes(next),
                 next = "deliver" => left' > 0,
                 next = "acknowledge" => left' = 0 /\ stores'.quarantine = 0
          PROVE  WInv'
      <3>1. step' = next /\ UNCHANGED <<book, failure>>
        BY <2>7 DEF Passes
      <3>2. /\ step' \in Running /\ step' \notin Before /\ step' \notin Sending
            /\ step' \notin {"count", "stage", "send", "lease", "start"}
            /\ step' \in Settling => step' = "acknowledge"
            /\ step' = "acknowledge" => step' \in Settling
            /\ step' = "deliver" => step' \notin Settling \cup {"start"}
        BY <2>7, <3>1 DEF Running, Before, Sending, Settling, SetupStages
      <3>3. left' <= batch' /\ batch' >= 1 /\ batch' <= batchSize'
        BY <1>1, <1>4, <1>6, <1>9
      <3>4. /\ progress'.staged = progress'.read /\ progress'.relayed = progress'.read
            /\ progress'.leased = progress'.read /\ progress'.acknowledged + batch' = progress'.read
        BY <1>1, <1>4, <1>16
      <3>5. step' = "deliver" => left' >= 1
        BY <1>9, <2>7, <3>1
      <3>6. step' = "acknowledge" =>
              /\ stores'.quarantine = 0 /\ progress'.delivered = progress'.read
              /\ progress'.acknowledged = progress'.read - batch'
        BY <1>1, <1>6, <1>16, <2>3, <2>7, <3>1, <3>4, SMTT(30)
      <3>7. step' \in Running \ {"deliver"} => step' = "acknowledge"
        BY <2>7, <3>1
      <3>8. Handed'
        BY <2>3, <3>2, <3>3, <3>4, <3>5, <3>6, <3>7 DEF Handed
      <3>9. Owed' <= 1 + (left - k) + Chunks(left - k) + Cost(rows) /\ Owed' \in Nat
        <4>1. CASE next = "deliver"
          <5>1. Owed' = 1 + (left - k) + Chunks(left - k) + Cost(rows)
            BY <1>1, <1>9, <3>1, <3>2, <4>1 DEF Owed, Chunks, Cost
          <5> QED BY <1>8, <1>9, <1>10, <5>1
        <4>2. CASE next = "acknowledge"
          <5>1. Owed' = 1 + Cost(rows)
            BY <1>1, <3>1, <3>2, <4>2 DEF Owed, Cost
          <5> QED BY <1>8, <1>9, <1>10, <5>1
        <4> QED BY <2>7, <4>1, <4>2
      <3>10. Reserved'
        <4> SUFFICES ASSUME ~stream'.torn, progress'.read + rows' <= Requested
                     PROVE  Len(stream'.events) + Owed' + 2 <= stream'.limit
          BY DEF Reserved
        <4>1. Len(stream.events) + Owed + 2 <= stream.limit
          BY <1>1, <1>2, <1>3, <1>16 DEF Reserved
        <4>2. m + Owed' <= Owed
          <5>1. PICK x \in Nat : x = 1 + (left - k) + Chunks(left - k) + Cost(rows)
            BY <1>8, <1>10
          <5>2. Owed' <= x /\ Owed' \in Nat /\ m + x <= Owed
            BY <1>14, <3>9, <5>1
          <5> QED BY <1>11, <1>14, <5>2
        <4>3. Len(stream'.events) <= Len(stream.events) + m /\ stream'.limit = stream.limit
          BY <1>16
        <4> QED BY <1>6, <1>11, <1>14, <2>2, <3>9, <4>1, <4>2, <4>3, SumReserved
      <3> QED BY <1>2, <2>1, <2>5, <3>1, <3>2, <3>8, <3>10, RunMove
    <2> QED BY <1>9, <1>16, <2>6, <2>7, SMTT(30) DEF AfterChunk
  <1>17. CASE /\ Told(ChunkEvents(Chunk, "delivered")) \/ AppendFails
              /\ stores' = [stores EXCEPT !.committed = @ + Chunk, !.target = @ + Chunk]
              /\ progress' = [progress EXCEPT !.delivered = @ + Chunk]
              /\ AfterChunk
    <2>1. /\ stream' \in [events : Seq(Events), torn : BOOLEAN, limit : Nat]
          /\ stream'.limit = stream.limit
          /\ ~stream'.torn => ~stream.torn
          /\ Len(stream'.events) <= stream'.limit
          /\ Len(stream'.events) <= Len(stream.events) + m
      <3>1. CASE Told(ChunkEvents(Chunk, "delivered"))
        <4>1. PICK added : added = ChunkEvents(k, "delivered")
          OBVIOUS
        <4>2. added \in Seq(Events) /\ Len(added) = m
          BY <1>9, <1>11, <4>1, ChunkEventsAre
        <4>3. Told(added)
          BY <1>7, <3>1, <4>1
        <4> QED BY <1>3, <4>2, <4>3, ToldIs
      <3>2. CASE AppendFails
        <4>1. stream' \in {stream, [stream EXCEPT !.torn = TRUE]}
          BY <3>2 DEF AppendFails
        <4>2. /\ stream' \in [events : Seq(Events), torn : BOOLEAN, limit : Nat]
              /\ stream'.events = stream.events /\ stream'.limit = stream.limit
              /\ ~stream'.torn => ~stream.torn
              /\ Len(stream'.events) <= stream'.limit
          BY <1>3, <4>1, StreamKept
        <4> QED BY <1>6, <1>11, <4>2
      <3> QED BY <1>17, <3>1, <3>2
    <2>2. /\ stores' \in [outbox : Int, relay : Int, committed : Nat, target : Nat, quarantine : Nat]
          /\ stores'.target = stores.target + k /\ stores'.outbox = stores.outbox
          /\ stores'.quarantine = stores.quarantine
      <3>1. stores.committed + k \in Nat /\ stores.target + k \in Nat
        BY <1>6, <1>9, SMTT(30)
      <3> QED BY <1>3, <1>7, <1>17, <3>1 DEF Data
    <2>3. /\ progress' \in [read : Nat, staged : Nat, relayed : Nat, leased : Nat, delivered : Nat,
                            acknowledged : Nat, batches : Nat]
          /\ progress'.read = progress.read /\ progress'.staged = progress.staged
          /\ progress'.relayed = progress.relayed /\ progress'.leased = progress.leased
          /\ progress'.delivered = progress.delivered + k
          /\ progress'.acknowledged = progress.acknowledged
      <3>1. progress.delivered + k \in Nat
        BY <1>6, <1>9
      <3> QED BY <1>3, <1>7, <1>17, <3>1 DEF Data
    <2> QED BY <1>16, <1>17, <2>1, <2>2, <2>3
  <1>18. CASE /\ Told(ChunkEvents(Chunk, "quarantined"))
              /\ stores' = [stores EXCEPT !.quarantine = @ + Chunk]
              /\ UNCHANGED progress /\ AfterChunk
    <2>1. /\ stream' \in [events : Seq(Events), torn : BOOLEAN, limit : Nat]
          /\ stream'.limit = stream.limit
          /\ ~stream'.torn => ~stream.torn
          /\ Len(stream'.events) <= stream'.limit
          /\ Len(stream'.events) <= Len(stream.events) + m
      <3>1. PICK added : added = ChunkEvents(k, "quarantined")
        OBVIOUS
      <3>2. added \in Seq(Events) /\ Len(added) = m
        BY <1>9, <1>11, <3>1, ChunkEventsAre
      <3>3. Told(added)
        BY <1>7, <1>18, <3>1
      <3> QED BY <1>3, <3>2, <3>3, ToldIs
    <2>2. /\ stores' \in [outbox : Int, relay : Int, committed : Nat, target : Nat, quarantine : Nat]
          /\ stores'.target = stores.target /\ stores'.outbox = stores.outbox
          /\ stores'.quarantine = stores.quarantine + k
      <3>1. stores.quarantine + k \in Nat
        BY <1>6, <1>9
      <3> QED BY <1>3, <1>7, <1>18, <3>1 DEF Data
    <2>3. progress' \in [read : Nat, staged : Nat, relayed : Nat, leased : Nat, delivered : Nat,
                         acknowledged : Nat, batches : Nat]
      BY <1>3, <1>18 DEF Data
    <2> QED BY <1>16, <1>18, <2>1, <2>2, <2>3
  <1> QED BY <1>15, <1>17, <1>18 DEF DeliverChunk

-----------------------------------------------------------------------------
(* After the loop                                                          *)

\* A step after the loop that passes on, with its events in the stream.
LEMMA LateMove ==
  ASSUME WInv, step \in Late, step' \in Late, UNCHANGED <<book, failure, batchSize>>, Still,
         stream' \in [events : Seq(Events), torn : BOOLEAN, limit : Nat],
         Len(stream'.events) <= stream'.limit, Ending',
         step' \in Ended \/ (step \notin Ended /\ stream' = stream)
  PROVE  WInv'
  <1>1. Sizes'
    BY DEF WInv, Sizes
  <1>2. /\ step' \notin Running /\ step' # "deliver" /\ step' # "count" /\ step' \notin Before
        /\ step' \notin Sending /\ step' \notin Settling
        /\ step' \notin {"stage", "send", "lease", "start"}
    BY DEF Late, Ended, Running, Before, Sending, Settling, SetupStages
  <1>3. /\ step # "deliver" /\ step \notin Before /\ step \notin Sending /\ step \notin Settling
        /\ step # "start"
    BY DEF Late, Ended, Before, Sending, Settling, SetupStages
  <1>4. Failures'
    BY <1>2 DEF WInv, Failures, FirstFailureReported
  <1>5. Handed'
    BY <1>2 DEF Handed
  <1>6. Data' /\ Backed'
    BY DataStays, BackedStays DEF WInv, Still
  <1>7. Owed = 0 /\ Owed' = 0
    BY <1>2, <1>3 DEF Owed
  <1>8. Reserved'
    BY <1>7 DEF WInv, Reserved, Still
  <1> QED BY <1>1, <1>4, <1>5, <1>6, <1>8 DEF WInv

\* One that changes nothing at all.
LEMMA LateStill ==
  ASSUME WInv, step \in Late, step' \in Late, UNCHANGED <<book, failure, batchSize, stream>>,
         Still, Ending', step' \in Ended \/ step \notin Ended
  PROVE  WInv'
  <1>1. /\ stream' \in [events : Seq(Events), torn : BOOLEAN, limit : Nat]
        /\ Len(stream'.events) <= stream'.limit
    BY DEF WInv, Data
  <1> QED BY <1>1, LateMove

LEMMA UnwindStep ==
  ASSUME WInv, Unwind, UNCHANGED <<left, batchSize>>
  PROVE  WInv'
  <1>1. /\ step = "unwind" /\ Still /\ UNCHANGED stream
        /\ Passes("verify") \/ Stops("source_record_read", "verify")
    BY DEF Unwind, Still
  <1>2. /\ step \in Late /\ step \notin Ended /\ "verify" \in Late
        /\ "source_record_read" \in StageNames
    BY <1>1 DEF Late, Ended, StageNames
  <1>3. CASE Stops("source_record_read", "verify")
    BY <1>1, <1>2, <1>3, StopStill
  <1>4. CASE Passes("verify")
    <2>1. step' = "verify" /\ UNCHANGED <<book, failure>>
      BY <1>4 DEF Passes
    <2>2. step' \notin {"close", "summaries"} \cup Ended /\ step' \notin {"tidy", "done"}
      BY <2>1 DEF Ended
    <2>3. Ending'
      BY <1>1, <1>2, <2>1, <2>2 DEF WInv, Ending, Still
    <2> QED BY <1>1, <1>2, <2>1, <2>3, LateStill
  <1> QED BY <1>1, <1>3, <1>4

LEMMA VerifyStep ==
  ASSUME WInv, Verify, UNCHANGED <<left, batchSize>>
  PROVE  WInv'
  <1>1. /\ step = "verify" /\ Still /\ UNCHANGED stream
        /\ (FinalState /\ Passes("close")) \/ Stops("end_to_end_verification", "close")
    BY DEF Verify, Still
  <1>2. /\ step \in Late /\ step \notin Ended /\ "close" \in Late
        /\ "end_to_end_verification" \in StageNames
    BY <1>1 DEF Late, Ended, StageNames
  <1>3. CASE Stops("end_to_end_verification", "close")
    BY <1>1, <1>2, <1>3, StopStill
  <1>4. CASE FinalState /\ Passes("close")
    <2>1. step' = "close" /\ UNCHANGED <<book, failure>>
      BY <1>4 DEF Passes
    <2>2. step' \notin Ended /\ step' \notin {"tidy", "done"}
      BY <2>1 DEF Ended
    <2>3. FinalState'
      BY <1>1, <1>4 DEF FinalState, Still
    <2>4. Ending'
      BY <1>1, <1>2, <2>1, <2>2, <2>3 DEF WInv, Ending, Still
    <2> QED BY <1>1, <1>2, <2>1, <2>4, LateStill
  <1> QED BY <1>1, <1>3, <1>4

LEMMA CloseStep ==
  ASSUME WInv, Close, UNCHANGED <<left, batchSize>>
  PROVE  WInv'
  <1>1. /\ step = "close" /\ Still /\ UNCHANGED stream
        /\ Passes("summaries") \/ Stops("resource_cleanup", "summaries")
    BY DEF Close, Still
  <1>2. /\ step \in Late /\ step \notin Ended /\ "summaries" \in Late
        /\ "resource_cleanup" \in StageNames
    BY <1>1 DEF Late, Ended, StageNames
  <1>3. CASE Stops("resource_cleanup", "summaries")
    BY <1>1, <1>2, <1>3, StopStill
  <1>4. CASE Passes("summaries")
    <2>1. step' = "summaries" /\ UNCHANGED <<book, failure>>
      BY <1>4 DEF Passes
    <2>2. step' \notin Ended /\ step' \notin {"tidy", "done"}
      BY <2>1 DEF Ended
    <2>3. Ending'
      BY <1>1, <1>2, <2>1, <2>2 DEF WInv, Ending, Still, FinalState
    <2> QED BY <1>1, <1>2, <2>1, <2>3, LateStill
  <1> QED BY <1>1, <1>3, <1>4

\* The completion is the last event, with the verdict so far.
LEMMA TwoAdded ==
  ASSUME NEW s \in Seq(Events), NEW a \in Events, NEW b \in Events
  PROVE  Last(s \o <<a, b>>) = b
  <1>1. s \o <<a, b>> \in Seq(Events) /\ Len(s \o <<a, b>>) = Len(s) + 2
    BY Joined
  <1>2. (s \o <<a, b>>)[Len(s) + 2] = b
    OBVIOUS
  <1> QED BY <1>1, <1>2 DEF Last

LEMMA SummariesStep ==
  ASSUME WInv, Summaries, UNCHANGED <<left, batchSize>>
  PROVE  WInv'
  <1>1. PICK verdict \in {"passed", "failed"} : verdict = IF failure = None THEN "passed" ELSE "failed"
    OBVIOUS
  <1>2. PICK a : a = Event("stage_summary", "passed", 0)
    OBVIOUS
  <1>3. PICK b : b = Event("workflow_completed", verdict, progress.delivered)
    OBVIOUS
  <1>4. progress.delivered \in Nat
    BY Numbers DEF WInv
  <1>5. a \in Events /\ b \in Events /\ b.status = verdict
    BY <1>2, <1>3, <1>4 DEF Event, Events
  <1>6. <<a, b>> \in Seq(Events)
    BY <1>5
  <1>7. /\ step = "summaries" /\ Still
        /\ Emits(<<a, b>>, "summary",
                 IF failure = None THEN Stops("workflow_internal", "summary") ELSE Passes("summary"))
    BY <1>1, <1>2, <1>3 DEF Summaries, Still
  <1>8. \/ Room(Len(<<a, b>>)) /\ stream' = Appended(<<a, b>>) /\ Passes("summary")
        \/ /\ IF failure = None THEN Stops("workflow_internal", "summary") ELSE Passes("summary")
           /\ stream' \in {stream, [stream EXCEPT !.torn = TRUE]}
    BY <1>7 DEF Emits, AppendFails
  <1>9. /\ step \in Late /\ step \notin Ended /\ "summary" \in Late /\ "summary" \in Ended
        /\ "workflow_internal" \in StageNames
    BY <1>7 DEF Late, Ended, StageNames
  <1>10. CASE Room(Len(<<a, b>>)) /\ stream' = Appended(<<a, b>>) /\ Passes("summary")
    <2>1. step' = "summary" /\ UNCHANGED <<book, failure>>
      BY <1>10 DEF Passes
    <2>2. /\ stream' \in [events : Seq(Events), torn : BOOLEAN, limit : Nat]
          /\ stream'.events = stream.events \o <<a, b>>
          /\ Len(stream'.events) <= stream'.limit
      BY <1>6, <1>10, StreamGrown DEF WInv
    <2>3. stream.events \in Seq(Events)
      BY DEF WInv, Data
    <2>4. Last(stream'.events) = b
      BY <1>5, <2>2, <2>3, TwoAdded
    <2>5. step' \notin {"tidy", "done"}
      BY <2>1
    <2>6. failure = None => Last(stream'.events).status = "passed"
      BY <1>1, <1>5, <2>4
    <2>7. Ending'
      BY <1>7, <1>9, <2>1, <2>5, <2>6 DEF WInv, Ending, Still, FinalState
    <2> QED BY <1>7, <1>9, <2>1, <2>2, <2>7, LateMove
  <1>11. CASE failure = None /\ Stops("workflow_internal", "summary")
              /\ stream' \in {stream, [stream EXCEPT !.torn = TRUE]}
    BY <1>7, <1>9, <1>11, StopStill
  <1>12. CASE failure # None /\ Passes("summary")
              /\ stream' \in {stream, [stream EXCEPT !.torn = TRUE]}
    <2>1. step' = "summary" /\ UNCHANGED <<book, failure>>
      BY <1>12 DEF Passes
    <2>2. /\ stream' \in [events : Seq(Events), torn : BOOLEAN, limit : Nat]
          /\ Len(stream'.events) <= stream'.limit
      BY <1>12, StreamKept DEF WInv
    <2>3. Ending'
      BY <1>12, <2>1 DEF Ending
    <2> QED BY <1>7, <1>9, <2>1, <2>2, <2>3, LateMove
  <1> QED BY <1>8, <1>10, <1>11, <1>12

LEMMA SummaryStep ==
  ASSUME WInv, Summary, UNCHANGED <<left, batchSize>>
  PROVE  WInv'
  <1>1. /\ step = "summary" /\ Still /\ UNCHANGED stream
        /\ \/ (failure # None \/ (~stream.torn /\ LifecycleValid)) /\ Passes("tidy")
           \/ Stops("workflow_internal", "tidy")
    BY DEF Summary, Still
  <1>2. /\ step \in Late /\ step \in Ended /\ "tidy" \in Late /\ "tidy" \in Ended
        /\ "workflow_internal" \in StageNames
    BY <1>1 DEF Late, Ended, StageNames
  <1>3. CASE Stops("workflow_internal", "tidy")
    BY <1>1, <1>2, <1>3, StopStill
  <1>4. CASE (failure # None \/ (~stream.torn /\ LifecycleValid)) /\ Passes("tidy")
    <2>1. step' = "tidy" /\ UNCHANGED <<book, failure>>
      BY <1>4 DEF Passes
    <2>2. failure = None => ~stream'.torn /\ LifecycleValid'
      BY <1>1, <1>4 DEF LifecycleValid
    <2>3. Ending'
      BY <1>1, <1>2, <2>1, <2>2 DEF WInv, Ending, Still, FinalState
    <2> QED BY <1>1, <1>2, <2>1, <2>3, LateStill
  <1> QED BY <1>1, <1>3, <1>4

LEMMA TidyStep ==
  ASSUME WInv, Tidy, UNCHANGED <<left, batchSize>>
  PROVE  WInv'
  <1>1. /\ step = "tidy" /\ Still /\ UNCHANGED stream
        /\ Passes("done") \/ Stops("resource_cleanup", "done")
    BY DEF Tidy, Still
  <1>2. /\ step \in Late /\ step \in Ended /\ "done" \in Late /\ "done" \in Ended
        /\ "resource_cleanup" \in StageNames
    BY <1>1 DEF Late, Ended, StageNames
  <1>3. CASE Stops("resource_cleanup", "done")
    BY <1>1, <1>2, <1>3, StopStill
  <1>4. CASE Passes("done")
    <2>1. step' = "done" /\ UNCHANGED <<book, failure>>
      BY <1>4 DEF Passes
    <2>2. LifecycleValid => LifecycleValid'
      BY <1>1 DEF LifecycleValid
    <2>3. Ending'
      BY <1>1, <1>2, <2>1, <2>2 DEF WInv, Ending, Still, FinalState
    <2> QED BY <1>1, <1>2, <2>1, <2>3, LateStill
  <1> QED BY <1>1, <1>3, <1>4


-----------------------------------------------------------------------------
(* The invariant holds, and it is enough                                   *)

LEMMA WorkflowStarts == WorkflowInit => WInv
  <1> SUFFICES ASSUME WorkflowInit PROVE WInv
    OBVIOUS
  <1>1. /\ step = "start" /\ rows \in SourceRows /\ batch = 0 /\ left = 0
        /\ progress = NoProgress /\ stores = EmptyStores /\ batchSize \in BatchSizes
        /\ stream = [events |-> <<>>, torn |-> FALSE, limit |-> Required(Requested, batchSize)]
        /\ book = <<>> /\ failure = None
    BY DEF WorkflowInit
  <1>2. Sizes /\ Requested \in Nat
    BY <1>1, SizesAre DEF Sizes
  <1>3. rows \in Nat
    BY <1>1, WorkflowAssumptionHolds DEF WorkflowAssumption
  <1>4. Required(Requested, batchSize) = Cost(Requested) + 3 /\ Cost(Requested) \in Nat
    BY <1>2, RequiredIs, CostOfBatch
  <1>5. Data
    <2>1. progress \in [read : Nat, staged : Nat, relayed : Nat, leased : Nat, delivered : Nat,
                        acknowledged : Nat, batches : Nat]
      BY <1>1 DEF NoProgress
    <2>2. stores \in [outbox : Int, relay : Int, committed : Nat, target : Nat, quarantine : Nat]
      BY <1>1 DEF EmptyStores
    <2>3. PICK max \in Nat : max = Required(Requested, batchSize)
      BY <1>4
    <2>4. stream = [events |-> <<>>, torn |-> FALSE, limit |-> max]
      BY <1>1, <2>3
    <2>5. <<>> \in Seq(Events)
      OBVIOUS
    <2>6. /\ stream \in [events : Seq(Events), torn : BOOLEAN, limit : Nat]
          /\ stream.events = <<>> /\ stream.limit = max
      BY <2>4, <2>5
    <2>7. Len(stream.events) <= stream.limit
      BY <2>6
    <2> QED BY <1>1, <1>3, <2>1, <2>2, <2>6, <2>7 DEF Data
  <1>6. Failures
    BY <1>1 DEF Failures, FirstFailureReported
  <1>7. /\ progress.read = 0 /\ progress.staged = 0 /\ progress.relayed = 0 /\ progress.leased = 0
        /\ progress.delivered = 0 /\ progress.acknowledged = 0
        /\ stores.outbox = 0 /\ stores.target = 0 /\ stores.quarantine = 0
    BY <1>1 DEF NoProgress, EmptyStores
  <1>8. /\ step \in Before /\ step \in Running /\ step \notin Late /\ step \notin Sending
        /\ step \notin Settling /\ step \in Settling \cup {"start"} /\ step # "deliver"
    BY <1>1 DEF Running, Before, Sending, Settling, SetupStages, Late, Ended
  <1>9. Handed
    BY <1>1, <1>7, <1>8 DEF Handed
  <1>10. Backed
    BY <1>7 DEF Backed, CountersAreBacked
  <1>11. Ending
    BY <1>1, <1>8 DEF Ending, Ended
  <1>12. Reserved
    <2> SUFFICES ASSUME progress.read + rows <= Requested
                 PROVE  Len(stream.events) + Owed + 2 <= stream.limit
      BY DEF Reserved
    <2>1. rows <= Requested
      BY <1>2, <1>3, <1>7
    <2>2. Cost(rows) <= Cost(Requested) /\ Cost(rows) \in Nat
      BY <1>2, <1>3, <2>1, CostMonotone, CostOfBatch
    <2>3. Owed = 1 + Cost(rows)
      BY <1>8 DEF Owed
    <2>4. Len(stream.events) = 0 /\ stream.limit = Cost(Requested) + 3
      BY <1>1, <1>4
    <2> QED BY <1>4, <2>2, <2>3, <2>4
  <1> QED BY <1>2, <1>5, <1>6, <1>8, <1>9, <1>10, <1>11, <1>12 DEF WInv

LEMMA WorkflowSteps == WInv /\ [WorkflowNext]_wfVars => WInv'
  <1> SUFFICES ASSUME WInv, [WorkflowNext]_wfVars PROVE WInv'
    OBVIOUS
  <1>1. CASE UNCHANGED wfVars
    <2>1. UNCHANGED <<batchSize, step, rows, batch, left, progress, stores, stream, book, failure>>
      BY <1>1 DEF wfVars
    <2>2. Sizes' /\ Data' /\ Failures'
      BY <2>1 DEF WInv, Sizes, Data, Failures, FirstFailureReported
    <2>3. Handed' /\ Backed'
      BY <2>1 DEF WInv, Handed, Backed, CountersAreBacked
    <2>4. LifecycleValid' = LifecycleValid /\ FinalState' = FinalState
      BY <2>1 DEF LifecycleValid, FinalState
    <2>5. Ending'
      BY <2>1, <2>4 DEF WInv, Ending
    <2>6. Owed' = Owed
      BY <2>1 DEF Owed, Chunks, Cost
    <2>7. Reserved'
      BY <2>1, <2>6 DEF WInv, Reserved
    <2> QED BY <2>1, <2>2, <2>3, <2>5, <2>7 DEF WInv
  <1>2. CASE WorkflowNext
    <2>1. UNCHANGED batchSize
      BY <1>2 DEF WorkflowNext
    <2>2. CASE LeaseBatch
      BY <2>1, <2>2, LeaseStep
    <2>3. CASE DeliverChunk
      BY <2>1, <2>3, DeliverStep
    <2>4. CASE WorkflowStep /\ UNCHANGED left
      <3>1. CASE Start
        BY <2>1, <2>4, <3>1, StartStep
      <3>2. CASE Prepare
        BY <2>1, <2>4, <3>2, PrepareStep
      <3>3. CASE Read
        BY <2>1, <2>4, <3>3, ReadStep
      <3>4. CASE ReadCount
        BY <2>1, <2>4, <3>4, ReadCountStep
      <3>5. CASE StageBatch
        BY <2>1, <2>4, <3>5, StageStep
      <3>6. CASE SendBatch
        BY <2>1, <2>4, <3>6, SendStep
      <3>7. CASE AckBatch
        BY <2>1, <2>4, <3>7, AckStep
      <3>8. CASE CheckBatch
        BY <2>1, <2>4, <3>8, CheckStep
      <3>9. CASE CheckEvents
        BY <2>1, <2>4, <3>9, CheckEventsStep
      <3>10. CASE CompleteBatch
        BY <2>1, <2>4, <3>10, CompleteStep
      <3>11. CASE Unwind
        BY <2>1, <2>4, <3>11, UnwindStep
      <3>12. CASE Verify
        BY <2>1, <2>4, <3>12, VerifyStep
      <3>13. CASE Close
        BY <2>1, <2>4, <3>13, CloseStep
      <3>14. CASE Summaries
        BY <2>1, <2>4, <3>14, SummariesStep
      <3>15. CASE Summary
        BY <2>1, <2>4, <3>15, SummaryStep
      <3>16. CASE Tidy
        BY <2>1, <2>4, <3>16, TidyStep
      <3> QED BY <2>4, <3>1, <3>2, <3>3, <3>4, <3>5, <3>6, <3>7, <3>8, <3>9, <3>10, <3>11,
                 <3>12, <3>13, <3>14, <3>15, <3>16 DEF WorkflowStep
    <2> QED BY <1>2, <2>2, <2>3, <2>4 DEF WorkflowNext
  <1> QED BY <1>1, <1>2

LEMMA SetupRange == Range(Setup) = SetupStages
  <1>1. DOMAIN Setup = 1..8
    BY DEF Setup
  <1>2. \A x \in SetupStages : \E i \in 1..8 : Setup[i] = x
    <2>1. /\ Setup[1] = "fixture_generation" /\ Setup[2] = "destination_setup"
          /\ Setup[3] = "content_inspection" /\ Setup[4] = "source_schema_inspection"
          /\ Setup[5] = "target_schema_inspection" /\ Setup[6] = "mapping_and_plan"
          /\ Setup[7] = "full_preflight" /\ Setup[8] = "security_and_state_setup"
      BY DEF Setup
    <2>2. 1 \in 1..8 /\ 2 \in 1..8 /\ 3 \in 1..8 /\ 4 \in 1..8 /\ 5 \in 1..8 /\ 6 \in 1..8
          /\ 7 \in 1..8 /\ 8 \in 1..8
      OBVIOUS
    <2> QED BY <2>1, <2>2 DEF SetupStages
  <1> QED BY <1>1, <1>2, SetupIs DEF Range

LEMMA WorkflowHolds == WInv => WorkflowTrue
  <1> SUFFICES ASSUME WInv PROVE WorkflowTrue
    OBVIOUS
  <1>1. Data /\ Reserved /\ Sizes /\ Ending
    BY DEF WInv
  <1>2. Len(stream.events) \in Nat /\ stream.limit \in Nat /\ Owed \in Nat
    BY <1>1, DataIs, OwedIs
  <1>3. WorkflowTypeOK
    <2>1. step \in SetupStages \cup
            {"start", "read", "count", "stage", "send", "lease", "deliver", "acknowledge",
             "check", "events", "batched", "unwind", "verify", "close", "summaries",
             "summary", "tidy", "done"}
      BY DEF WInv, Running, Before, Sending, Settling, Late, Ended
    <2> QED BY <1>1, <2>1, SetupRange DEF WorkflowTypeOK, Data
  <1>4. SuccessIsTruth
    BY <1>1 DEF Ending, Ended, Late, SuccessIsTruth
  <1>5. FirstFailureReported /\ CountersAreBacked
    BY DEF WInv, Failures, Backed
  <1>6. ReservedIsEnough
    <2> SUFFICES ASSUME ~stream.torn, progress.read + rows <= Requested
                 PROVE  /\ step = "batched" => Room(1)
                        /\ step = "deliver" => Room(Len(ChunkEvents(Chunk, "delivered")))
                        /\ step = "summaries" => Room(2)
      BY DEF ReservedIsEnough
    <2>1. step \notin Ended => Len(stream.events) + Owed + 2 <= stream.limit
      BY <1>1 DEF Reserved
    <2>2. CASE step = "summaries"
      BY <1>2, <2>1, <2>2 DEF Room, Ended
    <2>3. CASE step = "batched"
      BY <1>2, <2>1, <2>3 DEF Room, Ended
    <2>4. CASE step = "deliver"
      <3>1. left \in Nat /\ left >= 1 /\ rows \in Nat
        BY <2>4, <1>1 DEF WInv, Handed, Data
      <3>2. PICK k : k = Chunk
        OBVIOUS
      <3>3. k \in 1..left /\ left - k \in Nat
        BY <1>1, <3>1, <3>2, ChunksAre DEF Chunk
      <3>4. Chunks(left) \in Nat /\ Cost(rows) \in Nat
        BY <1>1, <3>1, ChunksAre, CostOfBatch
      <3>5. Len(ChunkEvents(k, "delivered")) = k + (IF k > 1 THEN 1 ELSE 0)
        BY <3>3, ChunkEventsAre
      <3>6. Owed = 1 + left + Chunks(left) + Cost(rows) /\ step \notin Ended
        BY <2>4 DEF Owed, Sending, Ended
      <3>7. Len(ChunkEvents(k, "delivered")) \in Nat /\ Len(ChunkEvents(k, "delivered")) <= 1 + left
        BY <3>1, <3>3, <3>5
      <3>8. 1 + left <= Owed
        BY <3>1, <3>4, <3>6
      <3>9. Len(stream.events) + Len(ChunkEvents(k, "delivered")) <= stream.limit
        BY <1>2, <2>1, <3>1, <3>6, <3>7, <3>8
      <3> QED BY <2>4, <3>2, <3>9 DEF Room
    <2> QED BY <2>2, <2>3, <2>4
  <1> QED BY <1>3, <1>4, <1>5, <1>6 DEF WorkflowTrue

(* Whatever fails and however many rows the source turns out to have, a    *)
(* run of the workflow driver reports the first failure and counts no more *)
(* than the stores hold; a run that reports success has moved every record *)
(* requested; and the space reserved for its events is enough for them, for*)
(* every number of records, batch size and size of an atomic chunk         *)
(* (_execute_workflow, _required_event_stream_bytes).                      *)
THEOREM WorkflowIsTrue == WorkflowSpec => []WorkflowTrue
  <1>1. WorkflowInit => WInv
    BY WorkflowStarts
  <1>2. WInv /\ [WorkflowNext]_wfVars => WInv'
    BY WorkflowSteps
  <1>3. WInv => WorkflowTrue
    BY WorkflowHolds
  <1> QED BY <1>1, <1>2, <1>3, PTL DEF WorkflowSpec

=============================================================================
