------------------------ MODULE BatchSchedulerProofs ------------------------
(***************************************************************************)
(* What holds of the scheduler for every plan and every choice of limits.  *)
(* The limits are tested against counters, so the inductive invariant says *)
(* that the counters count the requests outstanding; that needs each span  *)
(* to be admitted only once, which is the document order of the queues.    *)
(***************************************************************************)
EXTENDS BoundedBypass, FiniteSetTheorems, SequenceTheorems,
        WellFoundedInduction, TLAPS

\* The limits, in terms of the counters acquire() tests.
CountersWithinLimits ==
  /\ inFlight <= peakInFlight /\ peakInFlight <= GlobalLimit
  /\ \A d \in Documents : documentInFlight[d] <= PerDocumentLimit
  /\ \A g \in Graphs : graphInFlight[g] <= PerGraphLimit

\* No document ever leaves the rotation.
RotationComplete == \A d \in Documents : \E i \in DOMAIN rotation : rotation[i] = d

SchedulerInv ==
  /\ SchedulerTypeOK
  /\ IsFiniteSet(active)
  /\ DocumentOrderKept
  /\ CountersMatchActive
  /\ CountersWithinLimits
  /\ RotationComplete
-----------------------------------------------------------------------------
(* Facts about the plan and the spans.                                     *)

LEMMA PlanFacts ==
  /\ GraphOf \in [Documents -> Graphs]
  /\ SpanCount \in [Documents -> Nat]
  /\ \A d \in Documents : SpanCount[d] >= 1
  /\ PerDocumentLimit \in Nat /\ PerDocumentLimit >= 1
  /\ PerGraphLimit \in Nat /\ PerGraphLimit >= 1
  /\ GlobalLimit \in Nat /\ GlobalLimit >= 1
BY PlanAssumption, LimitsAssumption DEF LimitsAreCoherent

\* A span is a document and a position in it.
LEMMA ItemFacts ==
  /\ \A item \in Items :
       /\ item.document \in Documents
       /\ item.order \in 1 .. SpanCount[item.document]
       /\ item = [document |-> item.document, order |-> item.order]
  /\ \A d \in Documents : \A k \in 1 .. SpanCount[d] :
       [document |-> d, order |-> k] \in Items
BY DEF Items, ItemsOf

\* The head of a queue is a span of that document not yet in flight.
LEMMA NextSpanFacts ==
  ASSUME SchedulerTypeOK, DocumentOrderKept, NEW d \in Documents, queues[d] # <<>>
  PROVE  /\ NextSpan(d) \in Items
         /\ NextSpan(d).document = d
         /\ NextSpan(d).order = SpanCount[d] - Len(queues[d]) + 1
         /\ NextSpan(d) \notin active
         /\ Len(queues[d]) \in Nat /\ Len(queues[d]) >= 1
<1>1. queues[d] \in Seq(Items) /\ Len(queues[d]) \in Nat /\ Len(queues[d]) >= 1
  BY EmptySeq DEF SchedulerTypeOK
<1>2. NextSpan(d) = queues[d][1] /\ 1 \in DOMAIN queues[d]
  BY <1>1 DEF NextSpan
<1>3. NextSpan(d) = [document |-> d, order |-> SpanCount[d] - Len(queues[d]) + 1]
  BY <1>2 DEF DocumentOrderKept
<1>4. NextSpan(d) \in Items
  BY <1>1, <1>2
<1>5. ASSUME NextSpan(d) \in active PROVE FALSE
  <2>1. SpanCount[d] - Len(queues[d]) + 1 <= SpanCount[d] - Len(queues[d])
    BY <1>3, <1>5 DEF DocumentOrderKept
  <2>2. QED
    BY <2>1, <1>1, PlanFacts
<1>6. QED
  BY <1>1, <1>3, <1>4, <1>5
\* Counting after one span was added to, or taken from, a set of spans: the
\* part of the set with a property changes exactly when the span has it.
LEMMA CountAdded ==
  ASSUME NEW S, IsFiniteSet(S), NEW x, x \notin S, NEW T, T \subseteq S
  PROVE  /\ IsFiniteSet(S \cup {x}) /\ Cardinality(S \cup {x}) = Cardinality(S) + 1
         /\ IsFiniteSet(T) /\ Cardinality(T) \in Nat
         /\ Cardinality(T \cup {x}) = Cardinality(T) + 1
<1>1. IsFiniteSet(T)
  BY FS_Subset
<1>2. QED
  BY <1>1, FS_AddElement, FS_CardinalityType

LEMMA CountRemoved ==
  ASSUME NEW S, IsFiniteSet(S), NEW x \in S, NEW T, T \subseteq S
  PROVE  /\ IsFiniteSet(S \ {x}) /\ Cardinality(S \ {x}) = Cardinality(S) - 1
         /\ IsFiniteSet(T) /\ Cardinality(T) \in Nat
         /\ x \in T => Cardinality(T \ {x}) = Cardinality(T) - 1
<1>1. IsFiniteSet(T)
  BY FS_Subset
<1>2. QED
  BY <1>1, FS_RemoveElement, FS_CardinalityType

\* Moving an entry to the back: where each entry of the sequence ends up.
LEMMA MoveToBack ==
  ASSUME NEW S, NEW s \in Seq(S), NEW i \in 1 .. Len(s)
  PROVE  LET t == Append(RemoveAt(s, i), s[i]) IN
         /\ t \in Seq(S) /\ Len(t) = Len(s)
         /\ \A k \in 1 .. Len(s) :
              t[k] = IF k < i THEN s[k] ELSE IF k < Len(s) THEN s[k + 1] ELSE s[i]
<1> DEFINE front == SubSeq(s, 1, i - 1)
           back  == SubSeq(s, i + 1, Len(s))
           rest  == front \o back
<1>1. Len(s) \in Nat /\ i \in Int /\ 1 <= i /\ i <= Len(s) /\ s[i] \in S
  BY LenProperties, ElementOfSeq
<1>2. /\ front \in Seq(S) /\ Len(front) = i - 1
      /\ \A k \in 1 .. (i - 1) : front[k] = s[k]
  BY <1>1
<1>3. /\ back \in Seq(S) /\ Len(back) = Len(s) - i
      /\ \A k \in 1 .. (Len(s) - i) : back[k] = s[k + i]
  BY <1>1
<1> HIDE DEF front, back
<1>4. /\ rest \in Seq(S) /\ Len(rest) = Len(s) - 1
      /\ \A k \in 1 .. (Len(s) - 1) :
           rest[k] = IF k <= i - 1 THEN front[k] ELSE back[k - (i - 1)]
  <2>1. Len(front) + Len(back) = Len(s) - 1
    BY <1>1, <1>2, <1>3
  <2>2. /\ rest \in Seq(S) /\ Len(rest) = Len(front) + Len(back)
        /\ \A k \in 1 .. Len(front) + Len(back) :
             rest[k] = IF k <= Len(front) THEN front[k] ELSE back[k - Len(front)]
    BY <1>2, <1>3, ConcatProperties, Zenon
  <2> HIDE DEF rest
  <2>3. QED
    BY <2>1, <2>2, <1>2
<1> HIDE DEF rest
<1>5. \A k \in 1 .. (Len(s) - 1) : rest[k] = IF k < i THEN s[k] ELSE s[k + 1]
  <2>1. TAKE k \in 1 .. (Len(s) - 1)
  <2>2. CASE k < i
    <3>1. k \in 1 .. (i - 1) /\ k <= i - 1
      BY <1>1, <2>2
    <3>2. QED
      BY <1>2, <1>4, <2>2, <3>1
  <2>3. CASE k >= i
    <3>1. k - (i - 1) \in 1 .. (Len(s) - i) /\ k - (i - 1) + i = k + 1 /\ ~(k <= i - 1)
      BY <1>1, <2>3
    <3>2. back[k - (i - 1)] = s[k + 1]
      BY <1>3, <3>1
    <3>3. QED
      BY <1>1, <1>4, <2>3, <3>1, <3>2
  <2>4. QED
    BY <1>1, <2>2, <2>3
<1>6. RemoveAt(s, i) = rest
  BY DEF RemoveAt, rest, front, back
<1>7. QED
  BY <1>1, <1>4, <1>5, <1>6

\* Rotating keeps the rotation a sequence that mentions the same documents.
LEMMA RotatedFacts ==
  ASSUME rotation \in Seq(Documents), NEW i \in DOMAIN rotation
  PROVE  /\ Rotated(i) \in Seq(Documents)
         /\ \A k \in DOMAIN rotation :
              \E j \in DOMAIN Rotated(i) : Rotated(i)[j] = rotation[k]
<1>1. Len(rotation) \in Nat /\ i \in 1 .. Len(rotation)
  BY LenProperties
<1>2. /\ Rotated(i) \in Seq(Documents) /\ Len(Rotated(i)) = Len(rotation)
      /\ \A k \in 1 .. Len(rotation) :
           Rotated(i)[k] = IF k < i THEN rotation[k]
                           ELSE IF k < Len(rotation) THEN rotation[k + 1] ELSE rotation[i]
  BY <1>1, MoveToBack DEF Rotated
<1>3. ASSUME NEW k \in DOMAIN rotation
      PROVE  \E j \in DOMAIN Rotated(i) : Rotated(i)[j] = rotation[k]
  <2>1. k \in 1 .. Len(rotation) /\ DOMAIN Rotated(i) = 1 .. Len(rotation)
    BY <1>2, LenProperties
  <2>2. CASE k < i
    BY <1>1, <1>2, <2>1, <2>2
  <2>3. CASE k = i
    <3>1. Rotated(i)[Len(rotation)] = rotation[k]
      BY <1>1, <1>2, <2>3
    <3>2. QED
      BY <1>1, <2>1, <3>1
  <2>4. CASE k > i
    <3>1. k - 1 \in 1 .. Len(rotation) /\ Rotated(i)[k - 1] = rotation[k]
      BY <1>1, <1>2, <2>1, <2>4
    <3>2. QED
      BY <2>1, <3>1
  <2>5. QED
    BY <1>1, <2>1, <2>2, <2>3, <2>4
<1>4. QED
  BY <1>2, <1>3
-----------------------------------------------------------------------------
(* The inductive invariant.                                                *)

LEMMA SchedulerInitInv == SchedulerInit => SchedulerInv
<1> SUFFICES ASSUME SchedulerInit PROVE SchedulerInv
  OBVIOUS
<1> USE DEF SchedulerInit
<1>1. SchedulerTypeOK
  <2>1. ASSUME NEW d \in Documents PROVE queues[d] \in Seq(Items)
    <3>1. queues[d] \in [1 .. SpanCount[d] -> Items]
      BY ItemFacts, PlanFacts
    <3>2. SpanCount[d] \in Nat
      BY PlanFacts
    <3>3. \E n \in Nat : queues[d] \in [1 .. n -> Items]
      BY <3>1, <3>2
    <3>4. QED
      BY <3>3, SeqDef, ZenonT(60)
  <2>2. queues \in [Documents -> Seq(Items)]
    BY <2>1
  <2>3. QED
    BY <2>2, PlanAssumption DEF SchedulerTypeOK
<1>2. active = {} /\ IsFiniteSet(active) /\ Cardinality(active) = 0
  BY FS_EmptySet
<1>3. DocumentOrderKept
  <2>1. ASSUME NEW d \in Documents, NEW k \in DOMAIN queues[d]
        PROVE  queues[d][k] = [document |-> d, order |-> SpanCount[d] - Len(queues[d]) + k]
    <3>1. DOMAIN queues[d] = 1 .. SpanCount[d] /\ SpanCount[d] \in Nat
      BY PlanFacts
    <3>2. Len(queues[d]) = SpanCount[d]
      BY <3>1, <1>1, LenProperties DEF SchedulerTypeOK
    <3>3. QED
      BY <3>1, <3>2
  <2>2. QED
    BY <2>1, <1>2 DEF DocumentOrderKept
<1>4. CountersMatchActive
  <2>1. /\ \A d \in Documents : ActiveOfDocument(d) = {}
        /\ \A g \in Graphs : ActiveOfGraph(g) = {}
    BY DEF ActiveOfDocument, ActiveOfGraph
  <2>2. QED
    BY <2>1, <1>2 DEF CountersMatchActive
<1>5. CountersWithinLimits
  BY PlanFacts DEF CountersWithinLimits
<1>6. RotationComplete
  BY PlanAssumption DEF RotationComplete
<1>7. QED
  BY <1>1, <1>2, <1>3, <1>4, <1>5, <1>6 DEF SchedulerInv
\* Admission: one more span in flight, taken from the head of its queue.
LEMMA AcquireInv ==
  ASSUME SchedulerInv, NEW item \in Items, Acquire(item)
  PROVE  SchedulerInv'
<1>1. /\ SchedulerTypeOK /\ IsFiniteSet(active) /\ DocumentOrderKept
      /\ CountersMatchActive /\ CountersWithinLimits /\ RotationComplete
  BY DEF SchedulerInv
<1>2. PICK i \in DOMAIN rotation :
        FirstAdmissible(i) /\ item = NextSpan(rotation[i]) /\ rotation' = Rotated(i)
  BY DEF Acquire
<1> DEFINE d == item.document
           g == GraphOf[item.document]
<1>3. rotation[i] \in Documents /\ Admissible(rotation[i])
  BY <1>1, <1>2, LenProperties, ElementOfSeq DEF SchedulerTypeOK, FirstAdmissible
<1>4. /\ d = rotation[i] /\ d \in Documents /\ g \in Graphs
      /\ item.order = SpanCount[d] - Len(queues[d]) + 1
      /\ item \notin active
      /\ queues[d] # <<>> /\ Len(queues[d]) \in Nat /\ Len(queues[d]) >= 1
  BY <1>1, <1>2, <1>3, NextSpanFacts, PlanFacts DEF Admissible
<1>5. /\ queues' = [queues EXCEPT ![d] = Tail(queues[d])]
      /\ documentInFlight' = [documentInFlight EXCEPT ![d] = documentInFlight[d] + 1]
      /\ graphInFlight' = [graphInFlight EXCEPT ![g] = graphInFlight[g] + 1]
      /\ inFlight' = inFlight + 1
      /\ peakInFlight' = IF inFlight + 1 > peakInFlight THEN inFlight + 1 ELSE peakInFlight
      /\ active' = active \cup {item}
      /\ inFlight < GlobalLimit
  BY DEF Acquire
<1>6. /\ documentInFlight[d] < PerDocumentLimit /\ graphInFlight[g] < PerGraphLimit
  BY <1>3, <1>4 DEF Admissible
<1>lim. PerDocumentLimit \in Nat /\ PerGraphLimit \in Nat /\ GlobalLimit \in Nat
  BY PlanFacts
<1> HIDE DEF d, g
<1>7. /\ Tail(queues[d]) \in Seq(Items) /\ Len(Tail(queues[d])) = Len(queues[d]) - 1
      /\ DOMAIN Tail(queues[d]) = 1 .. (Len(queues[d]) - 1)
      /\ \A k \in 1 .. (Len(queues[d]) - 1) : Tail(queues[d])[k] = queues[d][k + 1]
  BY <1>1, <1>4 DEF SchedulerTypeOK
<1>8. SchedulerTypeOK'
  <2>1. rotation' \in Seq(Documents)
    BY <1>1, <1>2, RotatedFacts DEF SchedulerTypeOK
  <2>2. queues' \in [Documents -> Seq(Items)]
    BY <1>1, <1>4, <1>5, <1>7 DEF SchedulerTypeOK
  <2>3. documentInFlight' \in [Documents -> Nat] /\ graphInFlight' \in [Graphs -> Nat]
    <3>1. documentInFlight[d] + 1 \in Nat /\ graphInFlight[g] + 1 \in Nat
      BY <1>1, <1>4 DEF SchedulerTypeOK
    <3>2. QED
      BY <3>1, <1>1, <1>4, <1>5 DEF SchedulerTypeOK
  <2>4. inFlight' \in Nat /\ peakInFlight' \in Nat
    <3>1. inFlight \in Nat /\ peakInFlight \in Nat
      BY <1>1 DEF SchedulerTypeOK
    <3>2. CASE inFlight + 1 > peakInFlight
      BY <3>1, <3>2, <1>5
    <3>3. CASE ~(inFlight + 1 > peakInFlight)
      BY <3>1, <3>3, <1>5
    <3>4. QED
      BY <3>2, <3>3
  <2>5. active' \in SUBSET Items
    BY <1>1, <1>5 DEF SchedulerTypeOK
  <2>6. QED
    BY <2>1, <2>2, <2>3, <2>4, <2>5 DEF SchedulerTypeOK
<1>9. IsFiniteSet(active')
  BY <1>1, <1>4, <1>5, FS_AddElement
<1>10. DocumentOrderKept'
  <2>1. ASSUME NEW e \in Documents, NEW k \in DOMAIN queues'[e]
        PROVE  queues'[e][k] =
                 [document |-> e, order |-> SpanCount[e] - Len(queues'[e]) + k]
    <3>1. CASE e # d
      <4>1. queues'[e] = queues[e]
        BY <1>1, <1>4, <1>5, <3>1 DEF SchedulerTypeOK
      <4>2. k \in DOMAIN queues[e]
        BY <4>1
      <4>3. queues[e][k] = [document |-> e, order |-> SpanCount[e] - Len(queues[e]) + k]
        BY <4>2, <1>1 DEF DocumentOrderKept
      <4>4. QED
        BY <4>1, <4>3
    <3>2. CASE e = d
      <4>1. queues'[e] = Tail(queues[d])
        BY <1>1, <1>4, <1>5, <3>2 DEF SchedulerTypeOK
      <4> k \in DOMAIN Tail(queues[d])
        BY <4>1
      <4>2. k \in 1 .. (Len(queues[d]) - 1) /\ k + 1 \in DOMAIN queues[d] /\ k \in Int
        <5>1. k \in 1 .. (Len(queues[d]) - 1)
          BY <1>7
        <5>2. k + 1 \in 1 .. Len(queues[d])
          BY <5>1, <1>4
        <5>3. DOMAIN queues[d] = 1 .. Len(queues[d])
          BY <1>1, <1>4, LenProperties DEF SchedulerTypeOK
        <5>4. QED
          BY <5>1, <5>2, <5>3
      <4>3. queues[d][k + 1] =
              [document |-> d, order |-> SpanCount[d] - Len(queues[d]) + (k + 1)]
        BY <4>2, <1>1, <1>4 DEF DocumentOrderKept
      <4>4. SpanCount[d] - Len(queues[d]) + (k + 1) = SpanCount[d] - (Len(queues[d]) - 1) + k
        <5>1. PICK a \in Int : a = SpanCount[d]
          BY <1>4, PlanFacts
        <5>2. PICK b \in Int : b = Len(queues[d])
          BY <1>4
        <5>3. a - b + (k + 1) = a - (b - 1) + k
          BY <4>2, SMT
        <5>4. QED
          BY <5>1, <5>2, <5>3, Zenon
      <4>5. QED
        BY <4>1, <4>2, <4>3, <4>4, <1>7, <3>2
    <3>3. QED
      BY <3>1, <3>2
  <2>2. ASSUME NEW it \in active'
        PROVE  it.order <= SpanCount[it.document] - Len(queues'[it.document])
    <3>1. it \in Items /\ it.document \in Documents /\ it.order \in Int
      BY <1>8, <2>2, ItemFacts, PlanFacts DEF SchedulerTypeOK
    <3>2. /\ Len(queues[it.document]) \in Nat
          /\ Len(queues'[it.document]) =
               IF it.document = d THEN Len(queues[d]) - 1 ELSE Len(queues[it.document])
      BY <1>1, <1>4, <1>5, <1>7, <3>1, LenProperties DEF SchedulerTypeOK
    <3>3. CASE it = item
      BY <3>1, <3>2, <3>3, <1>4, PlanFacts DEF d
    <3>4. CASE it \in active
      <4>1. it.order <= SpanCount[it.document] - Len(queues[it.document])
        BY <3>4, <1>1 DEF DocumentOrderKept
      <4>2. QED
        BY <4>1, <3>1, <3>2, <1>4, PlanFacts
    <3>5. QED
      BY <3>3, <3>4, <2>2, <1>5
  <2>3. QED
    BY <2>1, <2>2 DEF DocumentOrderKept
<1>11. CountersMatchActive'
  <2>1. Cardinality(active') = Cardinality(active) + 1
    BY <1>1, <1>4, <1>5, FS_AddElement
  <2>2. ASSUME NEW e \in Documents
        PROVE  documentInFlight'[e] = Cardinality(ActiveOfDocument(e)')
    <3>1. ActiveOfDocument(e)' =
            IF e = d THEN ActiveOfDocument(e) \cup {item} ELSE ActiveOfDocument(e)
      BY <1>5 DEF ActiveOfDocument, d
    <3>2. ActiveOfDocument(e) \subseteq active
      BY DEF ActiveOfDocument
    <3>3. Cardinality(ActiveOfDocument(e) \cup {item}) = Cardinality(ActiveOfDocument(e)) + 1
      BY <3>2, <1>1, <1>4, CountAdded
    <3>4. documentInFlight[e] = Cardinality(ActiveOfDocument(e))
      BY <1>1 DEF CountersMatchActive
    <3>5. QED
      BY <3>1, <3>3, <3>4, <1>1, <1>4, <1>5 DEF SchedulerTypeOK
  <2>3. ASSUME NEW h \in Graphs
        PROVE  graphInFlight'[h] = Cardinality(ActiveOfGraph(h)')
    <3>1. ActiveOfGraph(h)' =
            IF h = g THEN ActiveOfGraph(h) \cup {item} ELSE ActiveOfGraph(h)
      BY <1>5 DEF ActiveOfGraph, g
    <3>2. ActiveOfGraph(h) \subseteq active
      BY DEF ActiveOfGraph
    <3>3. Cardinality(ActiveOfGraph(h) \cup {item}) = Cardinality(ActiveOfGraph(h)) + 1
      BY <3>2, <1>1, <1>4, CountAdded
    <3>4. graphInFlight[h] = Cardinality(ActiveOfGraph(h))
      BY <1>1 DEF CountersMatchActive
    <3>5. QED
      BY <3>1, <3>3, <3>4, <1>1, <1>4, <1>5 DEF SchedulerTypeOK
  <2>4. QED
    BY <2>1, <2>2, <2>3, <1>1, <1>5 DEF CountersMatchActive
<1>12. CountersWithinLimits'
  <2>1. inFlight' <= peakInFlight' /\ peakInFlight' <= GlobalLimit
    <3>1. /\ inFlight \in Nat /\ peakInFlight \in Nat /\ GlobalLimit \in Nat
          /\ inFlight <= peakInFlight /\ peakInFlight <= GlobalLimit
      BY <1>lim, <1>1 DEF CountersWithinLimits, SchedulerTypeOK
    <3>2. CASE inFlight + 1 > peakInFlight
      BY <3>1, <3>2, <1>5
    <3>3. CASE ~(inFlight + 1 > peakInFlight)
      BY <3>1, <3>3, <1>5
    <3>4. QED
      BY <3>2, <3>3
  <2>2. ASSUME NEW e \in Documents PROVE documentInFlight'[e] <= PerDocumentLimit
    <3>1. CASE e = d
      BY <3>1, <1>lim, <1>1, <1>4, <1>5, <1>6 DEF SchedulerTypeOK
    <3>2. CASE e # d
      BY <3>2, <1>lim, <1>1, <1>4, <1>5 DEF CountersWithinLimits, SchedulerTypeOK
    <3>3. QED
      BY <3>1, <3>2
  <2>3. ASSUME NEW h \in Graphs PROVE graphInFlight'[h] <= PerGraphLimit
    <3>1. CASE h = g
      BY <3>1, <1>lim, <1>1, <1>4, <1>5, <1>6 DEF SchedulerTypeOK
    <3>2. CASE h # g
      BY <3>2, <1>lim, <1>1, <1>4, <1>5 DEF CountersWithinLimits, SchedulerTypeOK
    <3>3. QED
      BY <3>1, <3>2
  <2>4. QED
    BY <2>1, <2>2, <2>3 DEF CountersWithinLimits
<1>13. RotationComplete'
  BY <1>1, <1>2, RotatedFacts DEF RotationComplete, SchedulerTypeOK
<1>14. QED
  BY <1>8, <1>9, <1>10, <1>11, <1>12, <1>13 DEF SchedulerInv

\* Completion: the counters give back what the span had taken.
LEMMA CompleteInv ==
  ASSUME SchedulerInv, NEW item \in Items, Complete(item)
  PROVE  SchedulerInv'
<1> USE PlanFacts, ItemFacts
<1>1. /\ SchedulerTypeOK /\ IsFiniteSet(active) /\ DocumentOrderKept
      /\ CountersMatchActive /\ CountersWithinLimits /\ RotationComplete
  BY DEF SchedulerInv
<1> DEFINE d == item.document
           g == GraphOf[item.document]
<1>2. d \in Documents /\ g \in Graphs /\ item \in active
  BY DEF Complete
<1>3. /\ documentInFlight' = [documentInFlight EXCEPT ![d] = documentInFlight[d] - 1]
      /\ graphInFlight' = [graphInFlight EXCEPT ![g] = graphInFlight[g] - 1]
      /\ inFlight' = inFlight - 1
      /\ active' = active \ {item}
      /\ UNCHANGED <<queues, rotation, peakInFlight>>
  BY DEF Complete
<1>4. /\ IsFiniteSet(active') /\ Cardinality(active') = Cardinality(active) - 1
      /\ Cardinality(active') \in Nat
  BY <1>1, <1>2, <1>3, CountRemoved, FS_CardinalityType
<1>5. ASSUME NEW e \in Documents
      PROVE  /\ documentInFlight'[e] = Cardinality(ActiveOfDocument(e)')
             /\ documentInFlight'[e] \in Nat /\ documentInFlight'[e] <= documentInFlight[e]
  <2>1. ActiveOfDocument(e) \subseteq active /\ ActiveOfDocument(e)' \subseteq active'
    BY DEF ActiveOfDocument
  <2>2. /\ item \in ActiveOfDocument(e) =>
             Cardinality(ActiveOfDocument(e) \ {item}) = Cardinality(ActiveOfDocument(e)) - 1
        /\ Cardinality(ActiveOfDocument(e)') \in Nat
    BY <2>1, <1>1, <1>2, <1>4, CountRemoved, FS_Subset, FS_CardinalityType
  <2>3. /\ e = d => /\ item \in ActiveOfDocument(e)
                    /\ ActiveOfDocument(e)' = ActiveOfDocument(e) \ {item}
        /\ e # d => ActiveOfDocument(e)' = ActiveOfDocument(e)
    BY <1>2, <1>3 DEF ActiveOfDocument
  <2>4. documentInFlight[e] = Cardinality(ActiveOfDocument(e)) /\ documentInFlight[e] \in Nat
    BY <1>1 DEF CountersMatchActive, SchedulerTypeOK
  <2>5. documentInFlight'[e] = IF e = d THEN documentInFlight[e] - 1 ELSE documentInFlight[e]
    BY <1>1, <1>2, <1>3 DEF SchedulerTypeOK
  <2>6. documentInFlight'[e] = Cardinality(ActiveOfDocument(e)')
    BY <2>2, <2>3, <2>4, <2>5
  <2>7. QED
    BY <2>2, <2>4, <2>5, <2>6
<1>6. ASSUME NEW h \in Graphs
      PROVE  /\ graphInFlight'[h] = Cardinality(ActiveOfGraph(h)')
             /\ graphInFlight'[h] \in Nat /\ graphInFlight'[h] <= graphInFlight[h]
  <2>1. ActiveOfGraph(h) \subseteq active /\ ActiveOfGraph(h)' \subseteq active'
    BY DEF ActiveOfGraph
  <2>2. /\ item \in ActiveOfGraph(h) =>
             Cardinality(ActiveOfGraph(h) \ {item}) = Cardinality(ActiveOfGraph(h)) - 1
        /\ Cardinality(ActiveOfGraph(h)') \in Nat
    BY <2>1, <1>1, <1>2, <1>4, CountRemoved, FS_Subset, FS_CardinalityType
  <2>3. /\ h = g => /\ item \in ActiveOfGraph(h)
                    /\ ActiveOfGraph(h)' = ActiveOfGraph(h) \ {item}
        /\ h # g => ActiveOfGraph(h)' = ActiveOfGraph(h)
    BY <1>2, <1>3 DEF ActiveOfGraph
  <2>4. graphInFlight[h] = Cardinality(ActiveOfGraph(h)) /\ graphInFlight[h] \in Nat
    BY <1>1 DEF CountersMatchActive, SchedulerTypeOK
  <2>5. graphInFlight'[h] = IF h = g THEN graphInFlight[h] - 1 ELSE graphInFlight[h]
    BY <1>1, <1>2, <1>3 DEF SchedulerTypeOK
  <2>6. graphInFlight'[h] = Cardinality(ActiveOfGraph(h)')
    BY <2>2, <2>3, <2>4, <2>5
  <2>7. QED
    BY <2>2, <2>4, <2>5, <2>6
<1>7. SchedulerTypeOK'
  <2>1. documentInFlight' \in [Documents -> Nat]
    BY <1>1, <1>3, <1>5 DEF SchedulerTypeOK
  <2>2. graphInFlight' \in [Graphs -> Nat]
    BY <1>1, <1>3, <1>6 DEF SchedulerTypeOK
  <2>3. inFlight' \in Nat
    BY <1>1, <1>3, <1>4 DEF CountersMatchActive
  <2>4. QED
    BY <2>1, <2>2, <2>3, <1>1, <1>3 DEF SchedulerTypeOK
<1>8. DocumentOrderKept'
  BY <1>1, <1>3 DEF DocumentOrderKept
<1>9. CountersMatchActive'
  BY <1>1, <1>3, <1>4, <1>5, <1>6 DEF CountersMatchActive
<1>10. CountersWithinLimits'
  BY <1>1, <1>3, <1>5, <1>6 DEF CountersWithinLimits, SchedulerTypeOK
<1>11. RotationComplete'
  BY <1>1, <1>3 DEF RotationComplete
<1>12. QED
  BY <1>4, <1>7, <1>8, <1>9, <1>10, <1>11 DEF SchedulerInv

\* Discarding empties queues and touches nothing that is counted.
LEMMA DiscardInv ==
  ASSUME SchedulerInv, NEW g \in Graphs, DiscardGraph(g)
  PROVE  SchedulerInv'
<1> USE PlanFacts, ItemFacts
<1>1. /\ SchedulerTypeOK /\ IsFiniteSet(active) /\ DocumentOrderKept
      /\ CountersMatchActive /\ CountersWithinLimits /\ RotationComplete
  BY DEF SchedulerInv
<1>2. /\ UNCHANGED <<rotation, documentInFlight, graphInFlight, inFlight, peakInFlight, active>>
      /\ \A d \in Documents : queues'[d] = IF GraphOf[d] = g THEN <<>> ELSE queues[d]
      /\ queues' \in [Documents -> Seq(Items)]
  BY <1>1, EmptySeq DEF DiscardGraph, SchedulerTypeOK
<1>3. SchedulerTypeOK'
  BY <1>1, <1>2 DEF SchedulerTypeOK
<1>4. DocumentOrderKept'
  <2>1. ASSUME NEW d \in Documents, NEW k \in DOMAIN queues'[d]
        PROVE  queues'[d][k] =
                 [document |-> d, order |-> SpanCount[d] - Len(queues'[d]) + k]
    <3>1. CASE GraphOf[d] = g
      <4>1. queues'[d] = <<>> /\ DOMAIN queues'[d] = {}
        BY <3>1, <1>2
      <4>2. QED
        BY <4>1
    <3>2. CASE GraphOf[d] # g
      <4>1. queues'[d] = queues[d] /\ k \in DOMAIN queues[d]
        BY <3>2, <1>2
      <4>2. queues[d][k] = [document |-> d, order |-> SpanCount[d] - Len(queues[d]) + k]
        BY <4>1, <1>1 DEF DocumentOrderKept
      <4>3. QED
        BY <4>1, <4>2
    <3>3. QED
      BY <3>1, <3>2
  <2>2. ASSUME NEW it \in active
        PROVE  it.order <= SpanCount[it.document] - Len(queues'[it.document])
    <3>1. it \in Items /\ it.document \in Documents /\ it.order \in 1 .. SpanCount[it.document]
      BY <1>1 DEF SchedulerTypeOK
    <3>2. it.order <= SpanCount[it.document] - Len(queues[it.document])
      BY <1>1 DEF DocumentOrderKept
    <3>3. CASE GraphOf[it.document] = g
      BY <3>1, <3>3, <1>2, EmptySeq
    <3>4. CASE GraphOf[it.document] # g
      BY <3>1, <3>2, <3>4, <1>2
    <3>5. QED
      BY <3>3, <3>4
  <2>3. QED
    BY <2>1, <2>2, <1>2 DEF DocumentOrderKept
<1>5. CountersMatchActive'
  BY <1>1, <1>2 DEF CountersMatchActive, ActiveOfDocument, ActiveOfGraph
<1>6. CountersWithinLimits' /\ RotationComplete' /\ IsFiniteSet(active')
  BY <1>1, <1>2 DEF CountersWithinLimits, RotationComplete
<1>7. QED
  BY <1>3, <1>4, <1>5, <1>6 DEF SchedulerInv
LEMMA SchedulerStutterInv ==
  ASSUME SchedulerInv, UNCHANGED schedulerVars
  PROVE  SchedulerInv'
BY DEF SchedulerInv, schedulerVars, SchedulerTypeOK, DocumentOrderKept, CountersMatchActive,
       CountersWithinLimits, RotationComplete, ActiveOfDocument, ActiveOfGraph

LEMMA SchedulerStepInv == SchedulerInv /\ [SchedulerNext]_schedulerVars => SchedulerInv'
BY AcquireInv, CompleteInv, DiscardInv, SchedulerStutterInv DEF SchedulerNext

\* The scheduler keeps its inductive invariant for every plan and all limits.
THEOREM SchedulerInvariant == SchedulerSpec => []SchedulerInv
BY SchedulerInitInv, SchedulerStepInv, PTL DEF SchedulerSpec
-----------------------------------------------------------------------------
(* What follows from it.                                                   *)

\* Type correctness of the scheduler: in particular no counter of
\* batch_scheduler.py:38-41 ever becomes negative.
THEOREM SchedulerTypeCorrect == SchedulerSpec => []SchedulerTypeOK
<1>1. SchedulerInv => SchedulerTypeOK
  BY DEF SchedulerInv
<1>2. QED
  BY <1>1, SchedulerInvariant, PTL

\* The counters of batch_scheduler.py:60-75 count the outstanding requests.
THEOREM CountersExact == SchedulerSpec => []CountersMatchActive
<1>1. SchedulerInv => CountersMatchActive
  BY DEF SchedulerInv
<1>2. QED
  BY <1>1, SchedulerInvariant, PTL

\* The requests outstanding respect the three limits, whatever their values
\* and however admissions, completions and discards interleave.
THEOREM LimitsAlwaysRespected == SchedulerSpec => []LimitsRespected
<1>1. SchedulerInv => LimitsRespected
  BY PlanFacts
     DEF SchedulerInv, LimitsRespected, SchedulerTypeOK, CountersMatchActive,
         CountersWithinLimits
<1>2. QED
  BY <1>1, SchedulerInvariant, PTL

\* Spans are admitted once each, in document order.
THEOREM OrderAlwaysKept == SchedulerSpec => []DocumentOrderKept
<1>1. SchedulerInv => DocumentOrderKept
  BY DEF SchedulerInv
<1>2. QED
  BY <1>1, SchedulerInvariant, PTL

\* A nonempty set of positions has a first one.
LEMMA FirstPosition ==
  ASSUME NEW T, T \subseteq Nat, T # {}
  PROVE  \E i \in T : \A j \in T : ~(j < i)
<1>1. \E i \in T : \A j \in T : ~(<<j, i>> \in OpToRel(<, Nat))
  BY NatLessThanWellFounded, WFMin
<1>2. \A i, j \in T : j < i => <<j, i>> \in OpToRel(<, Nat)
  BY DEF OpToRel
<1>3. QED
  BY <1>1, <1>2

\* With nothing in flight and something queued acquire() returns a span.
LEMMA IdleAdmits ==
  ASSUME SchedulerInv, active = {}, Pending
  PROVE  CanAcquire
<1>1. PICK d \in Documents : queues[d] # <<>>
  BY DEF Pending
<1>2. /\ SchedulerTypeOK /\ CountersMatchActive /\ RotationComplete
      /\ GraphOf[d] \in Graphs
  BY <1>1, PlanFacts DEF SchedulerInv
<1>3. /\ ActiveOfDocument(d) = {} /\ ActiveOfGraph(GraphOf[d]) = {}
  BY DEF ActiveOfDocument, ActiveOfGraph
<1>4. /\ inFlight = 0 /\ documentInFlight[d] = 0 /\ graphInFlight[GraphOf[d]] = 0
  BY <1>1, <1>2, <1>3, FS_EmptySet DEF CountersMatchActive
<1>5. Admissible(d) /\ inFlight < GlobalLimit
  BY <1>1, <1>4, PlanFacts DEF Admissible
<1> DEFINE T == {i \in DOMAIN rotation : Admissible(rotation[i])}
<1>6. DOMAIN rotation = 1 .. Len(rotation) /\ Len(rotation) \in Nat
  BY <1>2, LenProperties DEF SchedulerTypeOK
<1>7. T \subseteq Nat /\ T # {}
  BY <1>1, <1>2, <1>5, <1>6 DEF RotationComplete
<1>8. PICK i \in T : \A j \in T : ~(j < i)
  BY <1>7, FirstPosition
<1>9. FirstAdmissible(i)
  BY <1>6, <1>8 DEF FirstAdmissible
<1>10. QED
  BY <1>5, <1>8, <1>9 DEF CanAcquire

\* So the loop of run_batch never leaves queued work behind by being idle.
THEOREM IdleAlwaysAdmits == SchedulerSpec => []IdleMeansAdmission
<1>1. SchedulerInv => IdleMeansAdmission
  BY IdleAdmits DEF IdleMeansAdmission
<1>2. QED
  BY <1>1, SchedulerInvariant, PTL
-----------------------------------------------------------------------------
(* The promise of the rotation (BoundedBypass).  That a waiting document   *)
(* is passed at most once by each other one is not inductive: the          *)
(* invariant adds who may pass it again.  A document that passed d stands  *)
(* behind d in the rotation, and only the admission of d itself, which     *)
(* ends the waiting, moves d behind others.                                *)

\* Each document has one place in the rotation.
OnePlaceEach == \A i, j \in DOMAIN rotation : rotation[i] = rotation[j] => i = j

BypassType == bypass \in [Documents -> [Documents -> 0 .. 1]]

\* Whoever has passed a waiting document is behind it.
PassedIsBehind ==
  \A i, j \in DOMAIN rotation : bypass[rotation[i]][rotation[j]] = 1 => i < j

BypassInv ==
  /\ SchedulerInv
  /\ OnePlaceEach
  /\ BypassType
  /\ PassedIsBehind

LEMMA BypassInitInv == BypassInit => BypassInv
<1> SUFFICES ASSUME BypassInit PROVE BypassInv
  OBVIOUS
<1>1. SchedulerInv
  BY SchedulerInitInv DEF BypassInit
<1>2. rotation = DocumentOrder /\ bypass = [d \in Documents |-> [e \in Documents |-> 0]]
  BY DEF BypassInit, SchedulerInit, NoBypass
<1>3. OnePlaceEach
  BY <1>2, PlanAssumption DEF OnePlaceEach
<1>4. BypassType
  BY <1>2 DEF BypassType
<1>5. \A i \in DOMAIN rotation : rotation[i] \in Documents
  BY <1>2, PlanAssumption
<1>6. PassedIsBehind
  BY <1>2, <1>5 DEF PassedIsBehind
<1>7. QED
  BY <1>1, <1>3, <1>4, <1>6 DEF BypassInv

\* Where the entries of a sequence of n come from when the i-th goes last.
LEMMA MovedPlaces ==
  ASSUME NEW n \in Nat, NEW i \in 1 .. n, NEW a \in 1 .. n, NEW b \in 1 .. n,
         NEW x \in Int, x = IF a < i THEN a ELSE IF a < n THEN a + 1 ELSE i,
         NEW y \in Int, y = IF b < i THEN b ELSE IF b < n THEN b + 1 ELSE i
  PROVE  /\ x = y => a = b
         /\ a # n <=> x # i
         /\ a # n /\ b # n /\ x < y => a < b
<1>1. CASE a < i
  BY <1>1
<1>2. CASE a >= i /\ a < n
  BY <1>2
<1>3. CASE a >= i /\ a >= n
  BY <1>3
<1>4. QED
  BY <1>1, <1>2, <1>3

\* An admission: the admitted document goes behind all others, and counts
\* against those that could have been admitted, which stand behind it.
LEMMA AdmissionInv ==
  ASSUME BypassInv, NEW item \in Items, Acquire(item), AfterAdmission(item.document)
  PROVE  BypassInv'
<1>1. SchedulerInv /\ SchedulerTypeOK /\ DocumentOrderKept /\ RotationComplete
      /\ OnePlaceEach /\ BypassType /\ PassedIsBehind
  BY DEF BypassInv, SchedulerInv
<1>2. SchedulerInv'
  BY <1>1, AcquireInv
<1> DEFINE n == Len(rotation)
<1>3. n \in Nat /\ DOMAIN rotation = 1 .. n /\ rotation \in Seq(Documents)
      /\ \A k \in 1 .. n : rotation[k] \in Documents
  BY <1>1, LenProperties, ElementOfSeq DEF SchedulerTypeOK
<1> HIDE DEF n
<1>4. PICK i \in 1 .. n :
        FirstAdmissible(i) /\ item = NextSpan(rotation[i]) /\ rotation' = Rotated(i)
  BY <1>3 DEF Acquire
<1> DEFINE e0 == rotation[i]
           was(k) == IF k < i THEN k ELSE IF k < n THEN k + 1 ELSE i
<1>5. e0 \in Documents /\ Admissible(e0) /\ \A j \in 1 .. n : j < i => ~Admissible(rotation[j])
  BY <1>4, <1>3 DEF FirstAdmissible
<1>6. item.document = e0
  BY <1>1, <1>4, <1>5, NextSpanFacts DEF Admissible
<1>7. /\ rotation' \in Seq(Documents) /\ Len(rotation') = n
      /\ DOMAIN rotation' = 1 .. n
      /\ \A k \in 1 .. n : rotation'[k] = rotation[was(k)] /\ was(k) \in 1 .. n
  <2>1. /\ rotation' \in Seq(Documents) /\ Len(rotation') = n
        /\ \A k \in 1 .. n : rotation'[k] = IF k < i THEN rotation[k]
                               ELSE IF k < n THEN rotation[k + 1] ELSE rotation[i]
    BY <1>4, <1>3, MoveToBack DEF Rotated, n
  <2>2. DOMAIN rotation' = 1 .. n
    BY <2>1, LenProperties
  <2>3. \A k \in 1 .. n : rotation'[k] = rotation[was(k)] /\ was(k) \in 1 .. n
    BY <2>1, <1>4, <1>3
  <2>4. QED
    BY <2>1, <2>2, <2>3, SMTT(40)
<1>8. ASSUME NEW a \in 1 .. n, NEW b \in 1 .. n
      PROVE  /\ was(a) = was(b) => a = b
             /\ a # n <=> was(a) # i
             /\ a # n /\ b # n /\ was(a) < was(b) => a < b
  <2>1. n \in Nat /\ i \in 1 .. n
    BY <1>4, <1>3
  <2>2. was(a) \in Int /\ was(b) \in Int
    BY <2>1
  <2>3. QED
    <3> DEFINE x == was(a)
               y == was(b)
    <3>1. x \in Int /\ y \in Int
      BY <2>2
    <3>2. /\ x = IF a < i THEN a ELSE IF a < n THEN a + 1 ELSE i
          /\ y = IF b < i THEN b ELSE IF b < n THEN b + 1 ELSE i
      OBVIOUS
    <3> HIDE DEF x, y
    <3>3. /\ x = y => a = b
          /\ a # n <=> x # i
          /\ a # n /\ b # n /\ x < y => a < b
      BY <2>1, <3>1, <3>2, MovedPlaces
    <3>4. QED
      BY <3>3 DEF x, y
<1> HIDE DEF was
<1>10. OnePlaceEach'
  <2>1. SUFFICES ASSUME NEW a \in 1 .. n, NEW b \in 1 .. n, rotation'[a] = rotation'[b]
                 PROVE  a = b
    BY <1>7 DEF OnePlaceEach
  <2>2. was(a) = was(b)
    BY <2>1, <1>1, <1>3, <1>7 DEF OnePlaceEach
  <2>3. QED
    BY <2>2, <1>8
\* The counters after the step.
<1>11. ASSUME NEW d \in Documents, NEW e \in Documents
       PROVE  /\ bypass'[d][e] \in 0 .. 1
              /\ bypass'[d][e] = 1 => d # e0 /\ (e = e0 \/ bypass[d][e] = 1)
              /\ bypass' \in [Documents -> [Documents -> Int]]
  <2>1. bypass' = [x \in Documents |->
                     IF x = e0 \/ ~Waiting(x)' THEN NoBypass
                     ELSE IF Admissible(x) THEN [bypass[x] EXCEPT ![e0] = @ + 1]
                     ELSE bypass[x]]
    BY <1>6 DEF AfterAdmission
  <2>2. bypass[d] \in [Documents -> 0 .. 1] /\ bypass[d][e] \in 0 .. 1
    BY <1>1 DEF BypassType
  <2>3. bypass' \in [Documents -> [Documents -> Int]]
    <3>1. ASSUME NEW x \in Documents PROVE bypass'[x] \in [Documents -> Int]
      <4>1. bypass[x] \in [Documents -> 0 .. 1]
        BY <1>1 DEF BypassType
      <4>2. CASE x = e0 \/ ~Waiting(x)'
        BY <4>2, <2>1 DEF NoBypass
      <4>3. CASE ~(x = e0 \/ ~Waiting(x)') /\ Admissible(x)
        <5>1. bypass'[x] = [bypass[x] EXCEPT ![e0] = @ + 1]
          BY <4>3, <2>1
        <5>2. QED
          BY <4>1, <5>1, <1>5
      <4>4. CASE ~(x = e0 \/ ~Waiting(x)') /\ ~Admissible(x)
        <5>1. bypass'[x] = bypass[x]
          BY <4>4, <2>1
        <5>2. QED
          BY <4>1, <5>1
      <4>5. QED
        BY <4>2, <4>3, <4>4
    <3>2. QED
      BY <3>1, <2>1
  <2>4. CASE d = e0 \/ ~Waiting(d)'
    BY <2>1, <2>3, <2>4 DEF NoBypass
  <2>5. CASE ~(d = e0 \/ ~Waiting(d)') /\ Admissible(d)
    <3>1. bypass'[d] = [bypass[d] EXCEPT ![e0] = @ + 1]
      BY <2>1, <2>5
    <3>2. bypass[d][e0] = 0
      <4>1. PICK j \in 1 .. n : rotation[j] = d
        BY <1>1, <1>3 DEF RotationComplete
      <4>2. ~(j < i)
        BY <1>5, <2>5, <4>1
      <4>3. bypass[d][e0] \in 0 .. 1 /\ bypass[d][e0] # 1
        BY <4>1, <4>2, <1>1, <1>4, <1>3, <1>5, <2>2 DEF PassedIsBehind
      <4>4. QED
        BY <4>3
    <3>3. CASE e = e0
      BY <2>2, <2>3, <2>5, <3>1, <3>2, <3>3, <1>5
    <3>4. CASE e # e0
      BY <2>2, <2>3, <2>5, <3>1, <3>4
    <3>5. QED
      BY <3>3, <3>4
  <2>6. CASE ~(d = e0 \/ ~Waiting(d)') /\ ~Admissible(d)
    <3>1. bypass'[d] = bypass[d]
      BY <2>1, <2>6
    <3>2. QED
      BY <2>2, <2>3, <2>6, <3>1
  <2>7. QED
    BY <2>4, <2>5, <2>6
<1>12. BypassType'
  <2>1. bypass' \in [Documents -> [Documents -> Int]]
    BY <1>5, <1>11
  <2>2. QED
    BY <2>1, <1>11 DEF BypassType
<1>13. PassedIsBehind'
  <2>1. SUFFICES ASSUME NEW a \in 1 .. n, NEW b \in 1 .. n,
                        bypass'[rotation'[a]][rotation'[b]] = 1
                 PROVE  a < b
    BY <1>7 DEF PassedIsBehind
  <2>2. /\ was(a) \in 1 .. n /\ was(b) \in 1 .. n
        /\ rotation'[a] = rotation[was(a)] /\ rotation'[b] = rotation[was(b)]
        /\ rotation[was(a)] \in Documents /\ rotation[was(b)] \in Documents
    BY <1>3, <1>7
  <2>3. rotation[was(a)] # e0 /\ (rotation[was(b)] = e0 \/ bypass[rotation[was(a)]][rotation[was(b)]] = 1)
    BY <2>1, <2>2, <1>11
  <2>4. a # n
    BY <2>3, <1>8
  <2>5. CASE rotation[was(b)] = e0
    <3>1. was(b) = i
      BY <2>2, <2>5, <1>1, <1>4, <1>3 DEF OnePlaceEach
    <3>2. b = n
      BY <3>1, <1>8
    <3>3. QED
      BY <2>4, <3>2, <1>3
  <2>6. CASE rotation[was(b)] # e0
    <3>1. was(a) < was(b)
      BY <2>2, <2>3, <2>6, <1>1, <1>3 DEF PassedIsBehind
    <3>2. b # n
      BY <2>6, <1>8
    <3>3. QED
      BY <2>4, <3>1, <3>2, <1>8
  <2>7. QED
    BY <2>5, <2>6
<1>14. QED
  BY <1>2, <1>10, <1>12, <1>13 DEF BypassInv

\* Completions and discards leave the rotation alone and pass nobody.
LEMMA OtherInv ==
  ASSUME BypassInv, SchedulerInv', UNCHANGED rotation, AfterOther
  PROVE  BypassInv'
<1>1. OnePlaceEach /\ BypassType /\ PassedIsBehind /\ rotation \in Seq(Documents)
  BY DEF BypassInv, SchedulerInv, SchedulerTypeOK
<1>2. bypass' = [d \in Documents |-> IF Waiting(d)' THEN bypass[d] ELSE NoBypass]
  BY DEF AfterOther
<1>3. ASSUME NEW d \in Documents
      PROVE  bypass'[d] = bypass[d] \/ bypass'[d] = [e \in Documents |-> 0]
  BY <1>2 DEF NoBypass
<1>4. BypassType'
  <2>1. \A d \in Documents : bypass'[d] \in [Documents -> 0 .. 1]
    BY <1>1, <1>3 DEF BypassType
  <2>2. QED
    BY <1>2, <2>1 DEF BypassType
<1>5. PassedIsBehind'
  <2>1. SUFFICES ASSUME NEW i \in DOMAIN rotation, NEW j \in DOMAIN rotation,
                        bypass'[rotation[i]][rotation[j]] = 1
                 PROVE  i < j
    BY DEF PassedIsBehind
  <2>2. rotation[i] \in Documents /\ rotation[j] \in Documents
    BY <1>1
  <2>3. bypass[rotation[i]][rotation[j]] = 1
    BY <2>1, <2>2, <1>3
  <2>4. QED
    BY <2>3, <1>1 DEF PassedIsBehind
<1>6. OnePlaceEach'
  BY <1>1 DEF OnePlaceEach
<1>7. QED
  BY <1>4, <1>5, <1>6 DEF BypassInv

LEMMA BypassStepInv == BypassInv /\ [BypassNext]_bypassVars => BypassInv'
<1> SUFFICES ASSUME BypassInv, [BypassNext]_bypassVars PROVE BypassInv'
  OBVIOUS
<1>1. SchedulerInv
  BY DEF BypassInv
<1>2. ASSUME NEW item \in Items, Acquire(item), AfterAdmission(item.document)
      PROVE  BypassInv'
  BY <1>2, AdmissionInv
<1>3. ASSUME NEW item \in Items, Complete(item), AfterOther PROVE BypassInv'
  <2>1. UNCHANGED rotation
    BY <1>3 DEF Complete
  <2>2. SchedulerInv'
    BY <1>1, <1>3, CompleteInv
  <2>3. QED
    BY <1>3, <2>1, <2>2, OtherInv
<1>4. ASSUME NEW g \in Graphs, DiscardGraph(g), AfterOther PROVE BypassInv'
  <2>1. UNCHANGED rotation
    BY <1>4 DEF DiscardGraph
  <2>2. SchedulerInv'
    BY <1>1, <1>4, DiscardInv
  <2>3. QED
    BY <1>4, <2>1, <2>2, OtherInv
<1>5. CASE UNCHANGED bypassVars
  <2>1. SchedulerInv'
    BY <1>1, <1>5, SchedulerStutterInv DEF bypassVars
  <2>2. UNCHANGED <<rotation, bypass>>
    BY <1>5 DEF bypassVars, schedulerVars
  <2>3. QED
    BY <2>1, <2>2 DEF BypassInv, OnePlaceEach, BypassType, PassedIsBehind
<1>6. QED
  BY <1>2, <1>3, <1>4, <1>5 DEF BypassNext

\* In every run of the scheduler a document that could be admitted waits for
\* at most one admission of each other document (batch_scheduler.py:51-64):
\* it is served before any of them is served twice.
THEOREM BypassBounded == BypassSpec => []AtMostOneBypass
<1>1. BypassInv => AtMostOneBypass
  BY DEF BypassInv, BypassType, AtMostOneBypass
<1>2. BypassSpec => []BypassInv
  BY BypassInitInv, BypassStepInv, PTL DEF BypassSpec
<1>3. QED
  BY <1>1, <1>2, PTL
=============================================================================
