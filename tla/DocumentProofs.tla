--------------------------- MODULE DocumentProofs ---------------------------
(***************************************************************************)
(* A document, cut into spans, and the graph of what was said of them.     *)
(*                                                                         *)
(* The spans lie in order inside the paragraphs, hold every visible        *)
(* character, and split into themselves, for every set of documents.       *)
(* Lines read so far are in the finished paragraphs or in the open one     *)
(* (ReadingFits), and what stands before the sentence being scanned is in  *)
(* the spans (SpansFit).                                                   *)
(*                                                                         *)
(* The edges of the graph are the facts of the answers, for every set of   *)
(* answers and every partition of the mentions.  A mention has one place   *)
(* among all (Offset), so each of the three series of ids is known from    *)
(* the answers (Enriched, Extracted, EdgeOf).                              *)
(***************************************************************************)
EXTENDS EvidenceSpans, FactGraph, FiniteSetTheorems, WellFoundedInduction, TLAPS

\* A nonempty set of numbers has a least one, a bounded one a greatest.
LEMMA FirstOne ==
  ASSUME NEW T, T \subseteq Nat, T # {}
  PROVE  \E i \in T : \A j \in T : i <= j
<1>1. \E i \in T : \A j \in T : ~(<<j, i>> \in OpToRel(<, Nat))
  BY NatLessThanWellFounded, WFMin
<1>2. \A i, j \in T : j < i => <<j, i>> \in OpToRel(<, Nat)
  BY DEF OpToRel
<1> QED
  <2>1. PICK i \in T : \A j \in T : ~(j < i)
    BY <1>1, <1>2
  <2> QED BY <2>1
-----------------------------------------------------------------------------
(* Splitting.                                                              *)

Bounds == [first : Visible, last : Visible]

\* Between two line ends of a paragraph stands a visible character.
Separated(a, b) ==
  \A k, m \in a .. b :
    k < m /\ text[k] \in LineEnds /\ text[m] \in LineEnds
      => \E v \in Visible : k < v /\ v < m

\* The paragraphs: in order, none reaches over a blank line.
ParagraphsFit ==
  /\ units \in Seq(Bounds)
  /\ \A i \in DOMAIN units :
       units[i].first <= units[i].last /\ Separated(units[i].first, units[i].last)
  /\ \A i, j \in DOMAIN units : i < j => units[i].last < units[j].first

\* While lines are read: all before the line being read is in a paragraph.
ReadingFits ==
  pass = "units" =>
    /\ lineStart \in 1 .. Len(text) + 1
    /\ paragraph = 1 /\ spans = <<>>
    /\ open \subseteq Bounds /\ \A o, p \in open : o = p
    /\ \A o \in open :
         /\ o.first <= o.last /\ o.last < lineStart
         /\ Separated(o.first, lineStart - 1)
         /\ \A i \in DOMAIN units : units[i].last < o.first
    /\ \A i \in DOMAIN units : units[i].last < lineStart
    /\ \A k \in Visible : k < lineStart =>
         \/ \E i \in DOMAIN units : In(k, units[i])
         \/ \E o \in open : In(k, o)

\* Afterwards all that is visible is in one.
AllRead ==
  pass # "units" => \A k \in Visible : \E i \in DOMAIN units : In(k, units[i])

\* While a paragraph is scanned: the sentence begun has no end yet.
ScanFits ==
  pass = "spans" =>
    /\ paragraph \in DOMAIN units
    /\ start \in units[paragraph].first .. units[paragraph].last + 1
    /\ index \in start .. units[paragraph].last + 1
    /\ \A k \in start .. index - 1 : ~Boundary(k, units[paragraph].last)

\* Spans s that hold exactly what is visible before position n.
SpansBefore(s, n) ==
  /\ s \in Seq([unit : Nat, range : Bounds])
  /\ \A i \in DOMAIN s :
       /\ s[i].unit \in DOMAIN units
       /\ units[s[i].unit].first <= s[i].range.first
       /\ s[i].range.first <= s[i].range.last
       /\ s[i].range.last <= units[s[i].unit].last
       /\ s[i].range.last < n
       /\ \A k \in s[i].range.first .. s[i].range.last - 1 : ~Boundary(k, s[i].range.last)
  /\ \A i, j \in DOMAIN s : i < j => s[i].range.last < s[j].range.first
  /\ \A k \in Visible : k < n => \E i \in DOMAIN s : In(k, s[i].range)

\* The finished spans hold what stands before the sentence begun, in the end all.
SpansFit ==
  /\ pass = "spans" => SpansBefore(spans, start)
  /\ pass = "done" => SpansBefore(spans, Len(text) + 1)
  /\ pass = "failed" => spans = <<>> /\ Visible = {}

\* The inductive invariant.
SplitInv ==
  /\ text \in Texts
  /\ pass \in {"units", "spans", "done", "failed"}
  /\ ParagraphsFit /\ ReadingFits /\ AllRead /\ ScanFits /\ SpansFit
-----------------------------------------------------------------------------
\* What the assumptions say of the text.
LEMMA TextFacts ==
  ASSUME text \in Texts
  PROVE  /\ Len(text) \in Nat /\ Positions = 1 .. Len(text)
         /\ Visible \subseteq Positions /\ Visible \subseteq Nat
         /\ \A k \in Positions : text[k] \in LineEnds => k \notin Visible
  BY TextsAssumption, CharactersAssumption DEF Positions, Visible

\* A bounded set of numbers has a greatest one.
LEMMA LastOne ==
  ASSUME NEW b \in Nat, NEW T, T \subseteq 0 .. b, T # {}
  PROVE  \E i \in T : \A j \in T : j <= i
<1> DEFINE D == {b - i : i \in T}
<1>1. D \subseteq Nat /\ D # {}
  <2>1. PICK i \in T : TRUE
    OBVIOUS
  <2>2. b - i \in D
    BY <2>1
  <2>3. \A j \in T : j \in Nat /\ j <= b
    OBVIOUS
  <2> QED BY <2>2, <2>3
<1>2. PICK d \in D : \A e \in D : d <= e
  <2> HIDE DEF D
  <2> QED BY <1>1, FirstOne
<1>3. PICK i \in T : d = b - i
  BY <1>2
<1>4. \A j \in T : d <= b - j
  BY <1>2
<1> QED BY <1>3, <1>4

\* Entries of a sequence of paragraphs or spans.
LEMMA EntryOf ==
  ASSUME NEW S, NEW s \in Seq(S), NEW i \in DOMAIN s
  PROVE  s[i] \in S /\ i \in Nat
  OBVIOUS

\* What the members of the two lists are.
LEMMA EntryFacts ==
  ASSUME text \in Texts
  PROVE  /\ \A r \in Bounds : /\ r.first \in Visible /\ r.first \in Nat
                             /\ r.last \in Visible /\ r.last \in Nat
         /\ \A s \in Seq(Bounds) : \A i \in DOMAIN s : s[i] \in Bounds /\ i \in Nat
         /\ \A s \in Seq([unit : Nat, range : Bounds]) : \A i \in DOMAIN s :
              s[i].unit \in Nat /\ s[i].range \in Bounds
<1>1. \A r \in Bounds : r.first \in Visible /\ r.last \in Visible
  BY DEF Bounds
<1>2. \A s \in Seq(Bounds) : \A i \in DOMAIN s : s[i] \in Bounds /\ i \in Nat
  BY EntryOf
<1>3. ASSUME NEW s \in Seq([unit : Nat, range : Bounds]), NEW i \in DOMAIN s
      PROVE  s[i].unit \in Nat /\ s[i].range \in Bounds
  <2>1. s[i] \in [unit : Nat, range : Bounds]
    BY EntryOf
  <2> QED BY <2>1
<1> QED BY <1>1, <1>2, <1>3, TextFacts

\* What the trimming of a range returns, when it is not blank.
LEMMA TrimmedFacts ==
  ASSUME text \in Texts, NEW a \in Nat, NEW b \in Nat, NEW r \in Trimmed(a, b)
  PROVE  /\ r \in Bounds /\ r.first \in Nat /\ r.last \in Nat
         /\ a <= r.first /\ r.first <= r.last /\ r.last <= b
         /\ \A k \in Visible : a <= k /\ k <= b => In(k, r)
         /\ r = [first |-> r.first, last |-> r.last]
<1>1. /\ r \in [first : a .. b, last : a .. b]
      /\ r.first \in Visible /\ r.last \in Visible
      /\ \A k \in Visible \cap (a .. b) : k \in r.first .. r.last
  BY DEF Trimmed
<1>2. r.first \in Visible \cap (a .. b)
  BY <1>1
<1>3. r.first <= r.last
  BY <1>1, <1>2
<1> QED BY <1>1, <1>3, TextFacts DEF Bounds, In

\* A stretch with a visible character is not empty after trimming.
LEMMA TrimmedExists ==
  ASSUME text \in Texts, NEW a \in Nat, NEW b \in Nat, NEW k \in Visible, a <= k, k <= b
  PROVE  Trimmed(a, b) # {}
<1> DEFINE T == Visible \cap (a .. b)
<1>1. T \subseteq Nat /\ T \subseteq 0 .. b /\ T # {}
  BY TextFacts
<1>2. PICK f \in T : \A j \in T : f <= j
  BY <1>1, FirstOne
<1>3. PICK l \in T : \A j \in T : j <= l
  BY <1>1, LastOne
<1>4. [first |-> f, last |-> l] \in Trimmed(a, b)
  BY <1>1, <1>2, <1>3 DEF Trimmed
<1> QED BY <1>4

\* A span is added: all that is visible up to b is held.
LEMMA SpannedFits ==
  ASSUME text \in Texts, ParagraphsFit, paragraph \in DOMAIN units,
         NEW b \in Nat, start \in Nat, units[paragraph].first <= start, b <= units[paragraph].last,
         start <= b + 1,
         \A k \in start .. b - 1 : ~Boundary(k, units[paragraph].last),
         SpansBefore(spans, start)
  PROVE  SpansBefore(Spanned(start, b), b + 1)
<1>1. /\ Visible \subseteq Nat /\ units[paragraph] \in Bounds /\ paragraph \in Nat
  BY TextFacts DEF ParagraphsFit
<1>2. CASE Trimmed(start, b) = {}
  <2>1. \A k \in Visible : k < b + 1 => k < start
    <3> SUFFICES ASSUME NEW k \in Visible, k < b + 1, ~(k < start) PROVE FALSE
      OBVIOUS
    <3>1. k \in Nat /\ start <= k /\ k <= b
      BY <1>1
    <3> QED BY <1>2, <3>1, TrimmedExists
  <2>2. Spanned(start, b) = spans
    BY <1>2 DEF Spanned
  <2>3. \A i \in DOMAIN spans : spans[i].range.last \in Nat
    BY EntryFacts DEF SpansBefore
  <2> QED BY <2>1, <2>2, <2>3 DEF SpansBefore
<1>3. CASE Trimmed(start, b) # {}
  <2> DEFINE r == CHOOSE q \in Trimmed(start, b) : TRUE
             new == [unit |-> paragraph, range |-> r]
             s == Append(spans, new)
  <2>1. r \in Trimmed(start, b)
    BY <1>3
  <2> HIDE DEF r
  <2>2. /\ r \in Bounds /\ r.first \in Nat /\ r.last \in Nat
        /\ start <= r.first /\ r.first <= r.last /\ r.last <= b
        /\ \A k \in Visible : start <= k /\ k <= b => In(k, r)
    BY <2>1, TrimmedFacts
  <2>3. Spanned(start, b) = s
    BY <1>3 DEF Spanned, r
  <2>4. /\ s \in Seq([unit : Nat, range : Bounds])
        /\ Len(s) = Len(spans) + 1 /\ DOMAIN s = 1 .. Len(spans) + 1
        /\ \A i \in DOMAIN spans : s[i] = spans[i]
        /\ s[Len(spans) + 1] = new
    BY <1>1, <2>2 DEF SpansBefore
  <2>5. \A k \in r.first .. r.last - 1 : ~Boundary(k, r.last)
    BY <2>2 DEF Boundary
  <2> HIDE DEF s
  <2>6. DOMAIN spans = 1 .. Len(spans) /\ Len(spans) \in Nat
    BY DEF SpansBefore
  <2>7. ASSUME NEW i \in DOMAIN s
        PROVE  /\ s[i].unit \in DOMAIN units
               /\ units[s[i].unit].first <= s[i].range.first
               /\ s[i].range.first <= s[i].range.last
               /\ s[i].range.last <= units[s[i].unit].last
               /\ s[i].range.last < b + 1
               /\ \A k \in s[i].range.first .. s[i].range.last - 1 : ~Boundary(k, s[i].range.last)
    <3>1. CASE i \in DOMAIN spans
      <4>1. spans[i].range.last \in Nat /\ s[i] = spans[i]
        BY <3>1, <2>4, EntryFacts DEF SpansBefore
      <4> QED BY <3>1, <4>1 DEF SpansBefore
    <3>2. CASE i = Len(spans) + 1
      <4>1. s[i] = new /\ units[paragraph].first \in Nat /\ units[paragraph].last \in Nat
        BY <1>1, <3>2, <2>4 DEF Bounds
      <4> QED BY <4>1, <2>2, <2>5
    <3> QED BY <3>1, <3>2, <2>4, <2>6
  <2>8. \A i, j \in DOMAIN s : i < j => s[i].range.last < s[j].range.first
    <3> SUFFICES ASSUME NEW i \in DOMAIN s, NEW j \in DOMAIN s, i < j
                 PROVE  s[i].range.last < s[j].range.first
      OBVIOUS
    <3>1. i \in DOMAIN spans /\ s[i] = spans[i] /\ s[i].range.last < start
      BY <2>4, <2>6 DEF SpansBefore
    <3>2. s[i].range.last \in Nat
      BY <3>1, EntryFacts DEF SpansBefore
    <3>3. CASE j \in DOMAIN spans
      BY <3>1, <3>3, <2>4 DEF SpansBefore
    <3>4. CASE j = Len(spans) + 1
      BY <3>1, <3>2, <3>4, <2>4, <2>2
    <3> QED BY <3>3, <3>4, <2>4, <2>6
  <2>9. ASSUME NEW k \in Visible, k < b + 1
        PROVE  \E i \in DOMAIN s : In(k, s[i].range)
    <3>1. CASE k < start
      BY <3>1, <2>4, <2>6 DEF SpansBefore
    <3>2. CASE ~(k < start)
      <4>1. In(k, s[Len(spans) + 1].range) /\ Len(spans) + 1 \in DOMAIN s
        BY <1>1, <2>2, <2>4, <2>6, <2>9, <3>2
      <4> QED BY <4>1
    <3> QED BY <3>1, <3>2
  <2> QED BY <2>3, <2>4, <2>7, <2>8, <2>9 DEF SpansBefore
<1> QED BY <1>2, <1>3

\* Where nothing is visible the bound may be moved.
LEMMA BoundMoves ==
  ASSUME text \in Texts, NEW s, NEW n \in Nat, NEW m \in Nat, n <= m, SpansBefore(s, n),
         \A k \in Visible : k < m => k < n
  PROVE  SpansBefore(s, m)
<1>1. \A i \in DOMAIN s : s[i].range.last \in Nat
  BY EntryFacts DEF SpansBefore
<1> QED BY <1>1 DEF SpansBefore
-----------------------------------------------------------------------------
LEMMA SplitInitInv == SplitInit => SplitInv
<1> SUFFICES ASSUME SplitInit PROVE SplitInv
  OBVIOUS
<1>1. text \in Texts /\ Len(text) \in Nat /\ Visible \subseteq Positions /\ Positions = 1 .. Len(text)
  BY TextFacts DEF SplitInit
<1>2. \A k \in Visible : ~(k < lineStart)
  BY <1>1 DEF SplitInit
<1> QED BY <1>1, <1>2 DEF SplitInit, SplitInv, ParagraphsFit, ReadingFits, AllRead, ScanFits, SpansFit

\* A line that is not blank opens the paragraph or extends the open one.
LEMMA LineExtends ==
  ASSUME SplitInv, pass = "units", NEW last \in Positions, IsLine(last),
         NEW r \in Trimmed(lineStart, last), NEW o,
         o = Stretch(IF open = {} THEN r.first ELSE (CHOOSE p \in open : TRUE).first, r.last)
  PROVE  /\ o \in Bounds /\ o.first <= o.last /\ o.last < last + 1
         /\ Separated(o.first, last)
         /\ \A i \in DOMAIN units : units[i].last < o.first
         /\ \A k \in Visible : k < last + 1 =>
              (\E i \in DOMAIN units : In(k, units[i])) \/ In(k, o)
<1>1. /\ text \in Texts /\ lineStart \in Nat /\ last \in Nat /\ lineStart <= last
      /\ \A k \in lineStart .. last - 1 : text[k] \notin LineEnds
  BY TextFacts DEF SplitInv, ReadingFits, IsLine
<1>2. /\ r \in Bounds /\ r.first \in Nat /\ r.last \in Nat
      /\ lineStart <= r.first /\ r.first <= r.last /\ r.last <= last
      /\ \A k \in Visible : lineStart <= k /\ k <= last => In(k, r)
  BY <1>1, TrimmedFacts
<1>3. r.first \in Visible /\ r.last \in Visible /\ Visible \subseteq Nat
  BY <1>1, <1>2, EntryFacts, TextFacts
<1>4. CASE open = {}
  <2>1. o.first = r.first /\ o.last = r.last /\ o \in Bounds
    BY <1>3, <1>4 DEF Stretch, Bounds
  <2>2. Separated(o.first, last)
    BY <1>1, <1>2, <2>1 DEF Separated
  <2>3. \A i \in DOMAIN units : units[i].last \in Nat /\ units[i].last < lineStart
    BY <1>1, EntryFacts DEF SplitInv, ReadingFits, ParagraphsFit
  <2>4. ASSUME NEW k \in Visible, k < last + 1
        PROVE  (\E i \in DOMAIN units : In(k, units[i])) \/ In(k, o)
    <3>1. CASE k < lineStart
      BY <1>4, <3>1 DEF SplitInv, ReadingFits
    <3>2. CASE ~(k < lineStart)
      BY <1>1, <1>2, <1>3, <2>1, <2>4, <3>2 DEF In
    <3> QED BY <3>1, <3>2
  <2>5. \A i \in DOMAIN units : units[i].last < o.first
    BY <1>1, <1>2, <2>1, <2>3
  <2>6. o.first <= o.last /\ o.last < last + 1
    BY <1>1, <1>2, <2>1
  <2> QED BY <2>1, <2>2, <2>4, <2>5, <2>6
<1>5. CASE open # {}
  <2> DEFINE p == CHOOSE q \in open : TRUE
  <2>1. /\ p \in open /\ p \in Bounds /\ p.first <= p.last /\ p.last < lineStart
        /\ Separated(p.first, lineStart - 1)
        /\ \A i \in DOMAIN units : units[i].last < p.first
        /\ \A q \in open : q = p
    BY <1>5 DEF SplitInv, ReadingFits
  <2>2. o.first = p.first /\ o.last = r.last
    BY <1>5 DEF Stretch
  <2> HIDE DEF p
  <2>3. p.first \in Visible /\ p.first \in Nat /\ p.last \in Nat
    BY <1>1, <2>1, EntryFacts
  <2>4. o \in Bounds
    <3>1. o = [first |-> p.first, last |-> r.last]
      BY <1>5 DEF Stretch, p
    <3> QED BY <1>3, <2>3, <3>1 DEF Bounds
  <2>5. ASSUME NEW k \in o.first .. last, NEW m \in o.first .. last,
               k < m, text[k] \in LineEnds, text[m] \in LineEnds
        PROVE  \E v \in Visible : k < v /\ v < m
    <3>1. CASE m < lineStart
      <4>1. k \in p.first .. lineStart - 1 /\ m \in p.first .. lineStart - 1
        BY <1>1, <2>2, <2>3, <2>5, <3>1
      <4> QED BY <2>1, <2>5, <4>1 DEF Separated
    <3>2. CASE ~(m < lineStart)
      <4>1. m = last /\ k < lineStart
        BY <1>1, <2>2, <2>3, <2>5, <3>2
      <4>2. last \notin Visible
        BY <1>1, <2>5, <4>1, TextFacts
      <4>3. k < r.first /\ r.first < m
        BY <1>1, <1>2, <1>3, <2>2, <2>3, <4>1, <4>2
      <4> QED BY <1>3, <4>3
    <3> QED BY <3>1, <3>2
  <2>6. ASSUME NEW k \in Visible, k < last + 1
        PROVE  (\E i \in DOMAIN units : In(k, units[i])) \/ In(k, o)
    <3>1. CASE k < lineStart
      <4>1. (\E i \in DOMAIN units : In(k, units[i])) \/ In(k, p)
        BY <2>1, <3>1 DEF SplitInv, ReadingFits
      <4>2. In(k, p) => In(k, o)
        BY <1>1, <1>2, <1>3, <2>1, <2>2, <2>3 DEF In
      <4> QED BY <4>1, <4>2
    <3>2. CASE ~(k < lineStart)
      BY <1>1, <1>2, <1>3, <2>1, <2>2, <2>3, <2>6, <3>2 DEF In
    <3> QED BY <3>1, <3>2
  <2>7. Separated(o.first, last)
    BY <2>5 DEF Separated
  <2> QED BY <1>1, <1>2, <2>1, <2>2, <2>3, <2>4, <2>6, <2>7
<1> QED BY <1>4, <1>5

LEMMA ReadLineStep ==
  ASSUME SplitInv, ReadLine
  PROVE  SplitInv'
<1>1. PICK last \in Positions :
        /\ IsLine(last) /\ lineStart' = last + 1
        /\ IF Trimmed(lineStart, last) # {}
           THEN /\ open' = {Stretch(IF open = {} THEN r.first ELSE (CHOOSE o \in open : TRUE).first, r.last)
                             : r \in Trimmed(lineStart, last)}
                /\ UNCHANGED units
           ELSE /\ open' = open \ open
                /\ units' = IF open = {} THEN units ELSE Append(units, CHOOSE o \in open : TRUE)
  BY DEF ReadLine, Closed, NextLine
<1>2. /\ pass = "units" /\ pass' = "units" /\ text' = text /\ paragraph' = paragraph /\ spans' = spans
      /\ text \in Texts /\ text' \in Texts
  BY DEF ReadLine, SplitInv
<1>3. Visible' = Visible /\ Bounds' = Bounds /\ Visible \subseteq Nat /\ last \in Nat /\ Len(text) \in Nat
  BY <1>2, TextFacts DEF Visible, Positions, Bounds
<1>4. /\ lineStart' \in 1 .. Len(text') + 1 /\ paragraph' = 1 /\ spans' = <<>>
      /\ lineStart \in Nat /\ lineStart <= last
  BY <1>1, <1>2, <1>3, TextFacts DEF SplitInv, ReadingFits, IsLine
<1>5. \A i \in DOMAIN units : units[i].last \in Nat /\ units[i].first \in Nat /\ units[i].last < lineStart
  BY <1>2, EntryFacts DEF SplitInv, ParagraphsFit, ReadingFits
<1>8. AllRead' /\ ScanFits' /\ SpansFit'
  BY <1>2 DEF AllRead, In, ScanFits, Boundary, SpansFit, SpansBefore
<1>6. CASE Trimmed(lineStart, last) # {}
  <2>1. /\ units' = units
        /\ open' = {Stretch(IF open = {} THEN r.first ELSE (CHOOSE o \in open : TRUE).first, r.last)
                     : r \in Trimmed(lineStart, last)}
    BY <1>1, <1>6
  <2>2. \A o \in open' :
         /\ o \in Bounds /\ o.first <= o.last /\ o.last < last + 1
         /\ Separated(o.first, last)
         /\ \A i \in DOMAIN units : units[i].last < o.first
         /\ \A k \in Visible : k < last + 1 =>
              (\E i \in DOMAIN units : In(k, units[i])) \/ In(k, o)
    BY <1>1, <1>2, <2>1, LineExtends
  <2>3. \A q, r \in Trimmed(lineStart, last) : q = r
    <3> SUFFICES ASSUME NEW q \in Trimmed(lineStart, last), NEW r \in Trimmed(lineStart, last)
                 PROVE  q = r
      OBVIOUS
    <3>1. /\ q \in Bounds /\ q.first \in Nat /\ q.last \in Nat
          /\ lineStart <= q.first /\ q.first <= q.last /\ q.last <= last
          /\ \A k \in Visible : lineStart <= k /\ k <= last => In(k, q)
          /\ q = [first |-> q.first, last |-> q.last]
      BY <1>2, <1>3, <1>4, TrimmedFacts
    <3>2. /\ r \in Bounds /\ r.first \in Nat /\ r.last \in Nat
          /\ lineStart <= r.first /\ r.first <= r.last /\ r.last <= last
          /\ \A k \in Visible : lineStart <= k /\ k <= last => In(k, r)
          /\ r = [first |-> r.first, last |-> r.last]
      BY <1>2, <1>3, <1>4, TrimmedFacts
    <3>3. In(r.first, q) /\ In(r.last, q) /\ In(q.first, r) /\ In(q.last, r)
      BY <1>2, <1>3, <1>4, <3>1, <3>2, EntryFacts
    <3>4. q.first = r.first /\ q.last = r.last
      BY <3>1, <3>2, <3>3 DEF In
    <3> QED BY <3>1, <3>2, <3>4
  <2>4. \A o, p \in open' : o = p
    BY <2>1, <2>3
  <2>5. PICK r \in Trimmed(lineStart, last) : TRUE
    BY <1>6
  <2>6. PICK o \in open' : TRUE
    BY <2>1, <2>5
  <2>7. ParagraphsFit'
    BY <1>2, <1>3, <2>1 DEF SplitInv, ParagraphsFit, Separated
  <2>8. ReadingFits'
    <3>1. /\ open' \subseteq Bounds' /\ \A q \in open' :
               /\ q.first <= q.last /\ q.last < lineStart'
               /\ Separated(q.first, last)
               /\ \A i \in DOMAIN units' : units'[i].last < q.first
      BY <1>1, <1>3, <2>1, <2>2
    <3>3. \A i \in DOMAIN units' : units'[i].last < lineStart'
      BY <1>1, <1>3, <1>4, <1>5, <2>1
    <3>4. \A k \in Visible' : k < lineStart' =>
            (\E i \in DOMAIN units' : In(k, units'[i])) \/ (\E q \in open' : In(k, q))
      BY <1>1, <1>3, <2>1, <2>2, <2>6
    <3>5. lineStart' - 1 = last
      BY <1>1, <1>3
    <3>6. \A q \in open' : /\ q.first <= q.last /\ q.last < lineStart'
                          /\ (Separated(q.first, lineStart - 1))'
                          /\ \A i \in DOMAIN units' : units'[i].last < q.first
      BY <1>2, <1>3, <3>1, <3>5 DEF Separated
    <3> QED BY <1>3, <1>4, <2>4, <3>1, <3>3, <3>4, <3>6 DEF ReadingFits, In
  <2> QED BY <1>2, <1>8, <2>7, <2>8 DEF SplitInv
<1>7. CASE Trimmed(lineStart, last) = {}
  <2>0. \A k \in Visible : k < last + 1 => k < lineStart
    <3> SUFFICES ASSUME NEW k \in Visible, k < last + 1, ~(k < lineStart) PROVE FALSE
      OBVIOUS
    <3>1. k \in Nat /\ lineStart <= k /\ k <= last
      BY <1>3, <1>4
    <3> QED BY <1>2, <1>3, <1>4, <1>7, <3>1, TrimmedExists
  <2>1. open' = {} /\ lineStart' = last + 1
    BY <1>1, <1>7
  <2>2. CASE open = {}
    <3>1. units' = units
      BY <1>1, <1>7, <2>2
    <3>2. ParagraphsFit'
      BY <1>2, <1>3, <3>1 DEF SplitInv, ParagraphsFit, Separated
    <3>3. \A i \in DOMAIN units' : units'[i].last < lineStart'
      BY <1>3, <1>4, <1>5, <2>1, <3>1
    <3>4. \A k \in Visible' : k < lineStart' => \E i \in DOMAIN units' : In(k, units'[i])
      BY <1>2, <1>3, <2>0, <2>1, <2>2, <3>1 DEF SplitInv, ReadingFits
    <3>5. ReadingFits'
      BY <1>2, <1>4, <2>1, <3>3, <3>4 DEF ReadingFits, In, Separated
    <3> QED BY <1>2, <1>8, <3>2, <3>5 DEF SplitInv
  <2>3. CASE open # {}
    <3> DEFINE p == CHOOSE q \in open : TRUE
    <3>1. /\ p \in open /\ p \in Bounds /\ p.first <= p.last /\ p.last < lineStart
          /\ Separated(p.first, lineStart - 1)
          /\ \A i \in DOMAIN units : units[i].last < p.first
          /\ \A q \in open : q = p
      BY <1>2, <2>3 DEF SplitInv, ReadingFits
    <3>2. units' = Append(units, p) /\ units \in Seq(Bounds)
      BY <1>1, <1>7, <2>3 DEF SplitInv, ParagraphsFit
    <3> HIDE DEF p
    <3>3. p.first \in Nat /\ p.last \in Nat
      BY <1>2, <3>1, EntryFacts
    <3>4. /\ units' \in Seq(Bounds) /\ DOMAIN units' = 1 .. Len(units) + 1
          /\ DOMAIN units = 1 .. Len(units) /\ Len(units) \in Nat
          /\ \A i \in DOMAIN units : units'[i] = units[i]
          /\ units'[Len(units) + 1] = p
      BY <3>1, <3>2
    <3>5. Separated(p.first, p.last)
      BY <1>4, <3>1, <3>3 DEF Separated
    <3>6. \A i \in DOMAIN units' :
            units'[i].first <= units'[i].last /\ Separated(units'[i].first, units'[i].last)
      BY <3>1, <3>4, <3>5 DEF SplitInv, ParagraphsFit
    <3>7. \A i, j \in DOMAIN units' : i < j => units'[i].last < units'[j].first
      <4> SUFFICES ASSUME NEW i \in DOMAIN units', NEW j \in DOMAIN units', i < j
                   PROVE  units'[i].last < units'[j].first
        OBVIOUS
      <4>1. i \in DOMAIN units
        BY <3>4
      <4>2. CASE j \in DOMAIN units
        BY <3>4, <4>1, <4>2 DEF SplitInv, ParagraphsFit
      <4>3. CASE j = Len(units) + 1
        BY <3>1, <3>4, <4>1, <4>3
      <4> QED BY <3>4, <4>2, <4>3
    <3>8. ParagraphsFit'
      BY <1>2, <1>3, <3>4, <3>6, <3>7 DEF ParagraphsFit, Separated
    <3>9. ASSUME NEW i \in DOMAIN units' PROVE units'[i].last < lineStart'
      <4>1. CASE i \in DOMAIN units
        BY <1>3, <1>4, <1>5, <2>1, <3>4, <4>1
      <4>2. CASE i = Len(units) + 1
        BY <1>3, <1>4, <2>1, <3>1, <3>3, <3>4, <4>2
      <4> QED BY <3>4, <4>1, <4>2
    <3>10. ASSUME NEW k \in Visible, k < lineStart'
           PROVE  \E i \in DOMAIN units' : In(k, units'[i])
      <4>1. (\E i \in DOMAIN units : In(k, units[i])) \/ In(k, p)
        BY <1>2, <2>0, <2>1, <3>1, <3>10 DEF SplitInv, ReadingFits
      <4>2. Len(units) + 1 \in DOMAIN units' /\ DOMAIN units \subseteq DOMAIN units'
        BY <3>4
      <4> QED BY <3>4, <4>1, <4>2
    <3>11. ReadingFits'
      BY <1>2, <1>3, <1>4, <2>1, <3>9, <3>10 DEF ReadingFits, In, Separated
    <3> QED BY <1>2, <1>8, <3>8, <3>11 DEF SplitInv
  <2> QED BY <2>2, <2>3
<1> QED BY <1>6, <1>7

LEMMA EndOfTextStep ==
  ASSUME SplitInv, EndOfText
  PROVE  SplitInv'
<1>1. /\ pass = "units" /\ lineStart > Len(text) /\ text' = text /\ paragraph' = paragraph /\ spans' = spans
      /\ text \in Texts /\ paragraph = 1 /\ spans = <<>>
      /\ units' = IF open = {} THEN units ELSE Append(units, CHOOSE o \in open : TRUE)
      /\ pass' = IF units' = <<>> THEN "failed" ELSE "spans"
      /\ index' = IF units' = <<>> THEN index ELSE units'[1].first
      /\ start' = index'
  BY DEF EndOfText, AllUnits, SplitInv, ReadingFits
<1>2. /\ Visible' = Visible /\ Bounds' = Bounds /\ Visible \subseteq Nat
      /\ Visible \subseteq 1 .. Len(text) /\ Len(text) \in Nat /\ lineStart \in Nat
  BY <1>1, TextFacts DEF Visible, Positions, Bounds, SplitInv, ReadingFits
<1>3. \A k \in Visible : k < lineStart
  BY <1>1, <1>2
<1>4. ParagraphsFit' /\ \A k \in Visible : \E i \in DOMAIN units' : In(k, units'[i])
  <2>1. CASE open = {}
    <3>1. units' = units
      BY <1>1, <2>1
    <3> QED BY <1>1, <1>2, <1>3, <2>1, <3>1 DEF SplitInv, ParagraphsFit, ReadingFits, Separated
  <2>2. CASE open # {}
    <3> DEFINE p == CHOOSE q \in open : TRUE
    <3>1. /\ p \in open /\ p \in Bounds /\ p.first <= p.last /\ p.last < lineStart
          /\ Separated(p.first, lineStart - 1)
          /\ \A i \in DOMAIN units : units[i].last < p.first
          /\ \A q \in open : q = p
      BY <1>1, <2>2 DEF SplitInv, ReadingFits
    <3>2. units' = Append(units, p) /\ units \in Seq(Bounds)
      BY <1>1, <2>2 DEF SplitInv, ParagraphsFit
    <3> HIDE DEF p
    <3>3. p.first \in Nat /\ p.last \in Nat
      BY <1>1, <3>1, EntryFacts
    <3>4. /\ units' \in Seq(Bounds) /\ DOMAIN units' = 1 .. Len(units) + 1
          /\ DOMAIN units = 1 .. Len(units) /\ Len(units) \in Nat
          /\ \A i \in DOMAIN units : units'[i] = units[i]
          /\ units'[Len(units) + 1] = p
      BY <3>1, <3>2
    <3>5. Separated(p.first, p.last)
      BY <1>2, <3>1, <3>3 DEF Separated
    <3>6. \A i \in DOMAIN units' :
            units'[i].first <= units'[i].last /\ Separated(units'[i].first, units'[i].last)
      BY <3>1, <3>4, <3>5 DEF SplitInv, ParagraphsFit
    <3>7. \A i, j \in DOMAIN units' : i < j => units'[i].last < units'[j].first
      <4> SUFFICES ASSUME NEW i \in DOMAIN units', NEW j \in DOMAIN units', i < j
                   PROVE  units'[i].last < units'[j].first
        OBVIOUS
      <4>1. i \in DOMAIN units
        BY <3>4
      <4>2. CASE j \in DOMAIN units
        BY <3>4, <4>1, <4>2 DEF SplitInv, ParagraphsFit
      <4>3. CASE j = Len(units) + 1
        BY <3>1, <3>4, <4>1, <4>3
      <4> QED BY <3>4, <4>2, <4>3
    <3>8. ParagraphsFit'
      <4>1. text' = text
        BY <1>1
      <4> QED BY <4>1, <1>2, <3>4, <3>6, <3>7 DEF ParagraphsFit, Separated
    <3>9. ASSUME NEW k \in Visible
          PROVE  \E i \in DOMAIN units' : In(k, units'[i])
      <4>1. (\E i \in DOMAIN units : In(k, units[i])) \/ In(k, p)
        BY <1>1, <1>3, <3>1 DEF SplitInv, ReadingFits
      <4>2. Len(units) + 1 \in DOMAIN units' /\ DOMAIN units \subseteq DOMAIN units'
        BY <3>4
      <4> QED BY <3>4, <4>1, <4>2
    <3> QED BY <3>8, <3>9
  <2> QED BY <2>1, <2>2
<1>5. AllRead' /\ ReadingFits'
  BY <1>1, <1>2, <1>4 DEF AllRead, ReadingFits, In, Separated
<1>6. CASE units' = <<>>
  <2>1. pass' = "failed" /\ spans' = <<>>
    BY <1>1, <1>6
  <2>2. DOMAIN units' = {}
    BY <1>6
  <2>3. Visible' = {}
    BY <1>2, <1>4, <2>2
  <2>4. SpansFit' /\ ScanFits'
    BY <2>1, <2>3 DEF SpansFit, ScanFits, SpansBefore, Boundary
  <2> QED BY <1>1, <1>4, <1>5, <2>1, <2>4 DEF SplitInv
<1>7. CASE units' # <<>>
  <2>1. /\ pass' = "spans" /\ index' = units'[1].first /\ start' = units'[1].first
        /\ paragraph' = 1 /\ spans' = <<>>
    BY <1>1, <1>7
  <2>2. units' \in Seq(Bounds) /\ 1 \in DOMAIN units' /\ units'[1] \in Bounds
    <3>1. units' \in Seq(Bounds) /\ 1 \in DOMAIN units'
      BY <1>2, <1>4, <1>7 DEF ParagraphsFit
    <3> QED BY <3>1, EntryOf
  <2>3. /\ units'[1].first \in Nat /\ units'[1].last \in Nat
        /\ units'[1].first <= units'[1].last
    BY <1>1, <1>4, <2>2, EntryFacts DEF ParagraphsFit
  <2>4. ScanFits'
    <3>1. start' \in units'[1].first .. units'[1].last + 1
      BY <2>1, <2>3
    <3>2. index' \in start' .. units'[1].last + 1
      BY <2>1, <2>3
    <3>3. start' .. index' - 1 = {}
      BY <2>1, <2>3
    <3> QED BY <2>1, <2>2, <3>1, <3>2, <3>3 DEF ScanFits
  <2>5. ASSUME NEW k \in Visible PROVE ~(k < start')
    <3>1. PICK i \in DOMAIN units' : In(k, units'[i])
      BY <1>4
    <3>2. units'[i] \in Bounds /\ i \in Nat /\ i >= 1
      BY <2>2, EntryOf
    <3>3. units'[i].first \in Nat /\ k \in Nat
      BY <1>1, <1>2, <3>2, EntryFacts
    <3>4. i # 1 => units'[1].last < units'[i].first
      BY <1>4, <2>2, <3>2 DEF ParagraphsFit
    <3> QED BY <2>1, <2>3, <3>1, <3>3, <3>4 DEF In
  <2>6. SpansFit'
    <3>1. <<>> \in Seq([unit : Nat, range : Bounds']) /\ DOMAIN <<>> = {}
      OBVIOUS
    <3> QED BY <1>2, <2>1, <2>5, <3>1 DEF SpansFit, SpansBefore, In, Boundary
  <2> QED BY <1>1, <1>4, <1>5, <2>1, <2>4, <2>6 DEF SplitInv
<1> QED BY <1>6, <1>7

\* What both steps of the second pass leave as it was.
LEMMA ScanFrame ==
  ASSUME SplitInv, pass = "spans", pass' \in {"spans", "done"}, text' = text, units' = units
  PROVE  /\ text' \in Texts /\ pass' \in {"units", "spans", "done", "failed"}
         /\ Visible' = Visible /\ Bounds' = Bounds /\ ParagraphsFit' /\ ReadingFits' /\ AllRead'
<1>1. Visible' = Visible /\ Bounds' = Bounds
  BY DEF Visible, Positions, Bounds
<1> QED BY <1>1 DEF SplitInv, ParagraphsFit, Separated, ReadingFits, AllRead, In

\* Where the scan stands.
LEMMA ScanFacts ==
  ASSUME SplitInv, pass = "spans"
  PROVE  /\ text \in Texts /\ paragraph \in DOMAIN units /\ paragraph \in Nat
         /\ units[paragraph].first \in Nat /\ units[paragraph].last \in Nat
         /\ units[paragraph].first <= units[paragraph].last
         /\ start \in Nat /\ units[paragraph].first <= start /\ start <= index
         /\ index \in Nat /\ index <= units[paragraph].last + 1
         /\ \A k \in start .. index - 1 : ~Boundary(k, units[paragraph].last)
         /\ ParagraphsFit /\ SpansBefore(spans, start)
         /\ units[paragraph].last <= Len(text) /\ Len(text) \in Nat
<1>1. text \in Texts /\ paragraph \in DOMAIN units /\ units \in Seq(Bounds)
  BY DEF SplitInv, ScanFits, ParagraphsFit
<1>2. units[paragraph] \in Bounds /\ paragraph \in Nat
  BY <1>1, EntryOf
<1>3. units[paragraph].first \in Nat /\ units[paragraph].last \in Nat /\ units[paragraph].last \in Visible
  BY <1>1, <1>2, EntryFacts
<1>4. units[paragraph].last <= Len(text) /\ Len(text) \in Nat
  BY <1>1, <1>3, TextFacts
<1>5. units[paragraph].first <= units[paragraph].last
  BY <1>1 DEF SplitInv, ParagraphsFit
<1> QED BY <1>1, <1>2, <1>3, <1>4, <1>5 DEF SplitInv, ScanFits, SpansFit

LEMMA ScanCharacterStep ==
  ASSUME SplitInv, ScanCharacter
  PROVE  SplitInv'
<1>1. /\ pass = "spans" /\ pass' = "spans" /\ text' = text /\ units' = units /\ paragraph' = paragraph
      /\ index <= units[paragraph].last /\ index' = index + 1
  BY DEF ScanCharacter
<1>2. /\ text \in Texts /\ paragraph \in DOMAIN units /\ paragraph \in Nat
      /\ units[paragraph].first \in Nat /\ units[paragraph].last \in Nat
      /\ start \in Nat /\ units[paragraph].first <= start /\ start <= index
      /\ index \in Nat
      /\ \A k \in start .. index - 1 : ~Boundary(k, units[paragraph].last)
      /\ ParagraphsFit /\ SpansBefore(spans, start)
  BY <1>1, ScanFacts
<1>3. /\ text' \in Texts /\ pass' \in {"units", "spans", "done", "failed"}
      /\ Visible' = Visible /\ Bounds' = Bounds /\ ParagraphsFit' /\ ReadingFits' /\ AllRead'
  BY <1>1, ScanFrame
<1>4. CASE Boundary(index, units[paragraph].last)
  <2>1. spans' = Spanned(start, index) /\ start' = index + 1
    BY <1>4 DEF ScanCharacter, NextStart
  <2>2. SpansBefore(spans', start')
    BY <1>1, <1>2, <2>1, SpannedFits
  <2>3. SpansFit'
    BY <1>1, <1>3, <2>2 DEF SpansFit, SpansBefore, Boundary, In
  <2>4. ScanFits'
    BY <1>1, <1>2, <2>1 DEF ScanFits, Boundary
  <2> QED BY <1>3, <2>3, <2>4 DEF SplitInv
<1>5. CASE ~Boundary(index, units[paragraph].last)
  <2>1. spans' = spans /\ start' = start
    BY <1>5 DEF ScanCharacter
  <2>2. SpansFit'
    BY <1>1, <1>2, <1>3, <2>1 DEF SpansFit, SpansBefore, Boundary, In
  <2>3. \A k \in start .. index : ~Boundary(k, units[paragraph].last)
    BY <1>2, <1>5
  <2>4. ScanFits'
    BY <1>1, <1>2, <2>1, <2>3 DEF ScanFits, Boundary
  <2> QED BY <1>3, <2>2, <2>4 DEF SplitInv
<1> QED BY <1>4, <1>5

LEMMA EndOfUnitStep ==
  ASSUME SplitInv, EndOfUnit
  PROVE  SplitInv'
<1> DEFINE last == units[paragraph].last
<1>1. /\ pass = "spans" /\ text' = text /\ units' = units
      /\ index > last /\ paragraph' = paragraph + 1 /\ start' = index' /\ spans' = Spanned(start, last)
      /\ IF paragraph + 1 \in DOMAIN units
         THEN index' = units[paragraph + 1].first /\ pass' = pass
         ELSE index' = index /\ pass' = "done"
  BY DEF EndOfUnit, LastSentence
<1>2. /\ text \in Texts /\ paragraph \in DOMAIN units /\ paragraph \in Nat
      /\ units[paragraph].first \in Nat /\ last \in Nat
      /\ start \in Nat /\ units[paragraph].first <= start /\ start <= index
      /\ index \in Nat /\ index <= last + 1
      /\ \A k \in start .. index - 1 : ~Boundary(k, last)
      /\ ParagraphsFit /\ SpansBefore(spans, start)
      /\ last <= Len(text) /\ Len(text) \in Nat
  BY <1>1, ScanFacts
<1>3. SpansBefore(spans', last + 1)
  <2>1. start <= last + 1 /\ \A k \in start .. last - 1 : ~Boundary(k, last)
    BY <1>1, <1>2
  <2> QED BY <1>1, <1>2, <2>1, SpannedFits
<1>4. /\ text' \in Texts /\ pass' \in {"units", "spans", "done", "failed"}
      /\ Visible' = Visible /\ Bounds' = Bounds /\ ParagraphsFit' /\ ReadingFits' /\ AllRead'
  BY <1>1, ScanFrame
<1>5. \A k \in Visible : \E i \in DOMAIN units : In(k, units[i])
  BY <1>1 DEF SplitInv, AllRead
<1>6. units \in Seq(Bounds) /\ \A i \in DOMAIN units :
        i \in Nat /\ units[i].first \in Nat /\ units[i].last \in Nat /\ units[i].first <= units[i].last
  BY <1>2, EntryFacts DEF ParagraphsFit
<1>7. CASE paragraph + 1 \in DOMAIN units
  <2>1. pass' = "spans" /\ index' = units[paragraph + 1].first /\ start' = units[paragraph + 1].first
    BY <1>1, <1>7
  <2>2. ScanFits'
    BY <1>1, <1>6, <1>7, <2>1 DEF ScanFits, Boundary
  <2>3. last < start' /\ start' \in Nat
    BY <1>2, <1>6, <1>7, <2>1 DEF ParagraphsFit
  <2>4. ASSUME NEW k \in Visible, k < start' PROVE k < last + 1
    <3>1. PICK i \in DOMAIN units : In(k, units[i])
      BY <1>5
    <3>2. k \in Nat /\ units[i].first <= k /\ k <= units[i].last
      BY <1>2, <3>1, TextFacts DEF In
    <3>3. i < paragraph => units[i].last < units[paragraph].first
      BY <1>2 DEF ParagraphsFit
    <3>4. i > paragraph + 1 => units[paragraph + 1].last < units[i].first
      BY <1>2, <1>6, <1>7 DEF ParagraphsFit
    <3>5. i < paragraph \/ i = paragraph \/ i = paragraph + 1 \/ i > paragraph + 1
      BY <1>2, <1>6
    <3>6. units[paragraph].first <= last
      BY <1>2, <1>6
    <3>7. units[i].first \in Nat /\ units[i].last \in Nat /\ k < units[paragraph + 1].first
      BY <1>6, <2>1, <2>4
    <3>8. /\ units[paragraph + 1].first <= units[paragraph + 1].last
          /\ units[paragraph + 1].first \in Nat /\ units[paragraph + 1].last \in Nat
      BY <1>6, <1>7
    <3>9. CASE i < paragraph
      BY <1>2, <3>2, <3>3, <3>6, <3>7, <3>9
    <3>10. CASE i = paragraph
      BY <1>2, <3>2, <3>10
    <3>11. CASE i = paragraph + 1
      BY <3>2, <3>7, <3>8, <3>11
    <3>12. CASE i > paragraph + 1
      BY <3>2, <3>4, <3>7, <3>8, <3>12
    <3> QED BY <3>5, <3>9, <3>10, <3>11, <3>12
  <2>5. SpansBefore(spans', start')
    BY <1>2, <1>3, <2>3, <2>4, BoundMoves
  <2>6. SpansFit'
    BY <1>1, <1>4, <2>1, <2>5 DEF SpansFit, SpansBefore, Boundary, In
  <2> QED BY <1>4, <2>2, <2>6 DEF SplitInv
<1>8. CASE paragraph + 1 \notin DOMAIN units
  <2>1. pass' = "done"
    BY <1>1, <1>8
  <2>2. ASSUME NEW k \in Visible PROVE k < last + 1
    <3>1. PICK i \in DOMAIN units : In(k, units[i])
      BY <1>5
    <3>2. k \in Nat /\ k <= units[i].last
      BY <1>2, <3>1, TextFacts DEF In
    <3>3. i <= paragraph
      BY <1>2, <1>6, <1>8
    <3>4. i < paragraph => units[i].last < units[paragraph].first
      BY <1>2 DEF ParagraphsFit
    <3> QED BY <1>2, <1>6, <3>2, <3>3, <3>4
  <2>3. SpansBefore(spans', Len(text) + 1)
    BY <1>2, <1>3, <2>2, BoundMoves
  <2>4. SpansFit'
    BY <1>1, <1>4, <2>1, <2>3 DEF SpansFit, SpansBefore, Boundary, In
  <2>5. ScanFits'
    BY <2>1 DEF ScanFits, Boundary
  <2> QED BY <1>4, <2>4, <2>5 DEF SplitInv
<1> QED BY <1>7, <1>8

\* Both loops of the splitting keep SplitInv: the one over lines, the one over
\* characters (production_inputs.py:28-87).
THEOREM SplittingInvariant == SplitSpec => []SplitInv
<1>1. SplitInv /\ [SplitNext]_splitVars => SplitInv'
  <2>1. CASE UNCHANGED splitVars
    BY <2>1 DEF splitVars, SplitInv, ParagraphsFit, ReadingFits, AllRead, ScanFits, SpansFit,
              SpansBefore, Separated, Boundary, In, Bounds, Visible, Positions
  <2> QED BY <2>1, ReadLineStep, EndOfTextStep, ScanCharacterStep, EndOfUnitStep DEF SplitNext, SplitStep
<1> QED BY <1>1, SplitInitInv, PTL DEF SplitSpec

\* In every state: what is known of the spans there are.
LEMMA SpansKnown ==
  ASSUME SplitInv
  PROVE  SpansTypeOK /\ SpansInOrder /\ BlankLinesSeparate /\ NothingLost /\ ResplitIsIdentity
<1>1. text \in Texts /\ units \in Seq(Bounds) /\ Visible \subseteq Nat
  BY TextFacts DEF SplitInv, ParagraphsFit
<1>2. \A i \in DOMAIN units : units[i] \in Bounds /\ units[i].first \in Nat /\ units[i].last \in Nat
  BY <1>1, EntryFacts
<1>3. PICK n \in Nat : SpansBefore(spans, n) \/ spans = <<>>
  BY <1>1, TextFacts, ScanFacts DEF SplitInv, SpansFit, ReadingFits
<1>4. \A i \in DOMAIN spans :
        /\ spans[i].unit \in DOMAIN units
        /\ units[spans[i].unit].first <= spans[i].range.first
        /\ spans[i].range.first <= spans[i].range.last
        /\ spans[i].range.last <= units[spans[i].unit].last
        /\ \A k \in spans[i].range.first .. spans[i].range.last - 1 : ~Boundary(k, spans[i].range.last)
        /\ spans[i].range \in Bounds
        /\ spans[i].range.first \in Nat /\ spans[i].range.last \in Nat
  <2>1. CASE spans = <<>>
    BY <2>1
  <2>2. CASE SpansBefore(spans, n)
    <3>1. spans \in Seq([unit : Nat, range : Bounds])
      BY <2>2 DEF SpansBefore
    <3>2. \A i \in DOMAIN spans : spans[i].range \in Bounds
      BY <1>1, <3>1, EntryFacts
    <3>3. \A i \in DOMAIN spans : spans[i].range.first \in Nat /\ spans[i].range.last \in Nat
      BY <1>1, <3>2, EntryFacts
    <3> QED BY <2>2, <3>2, <3>3 DEF SpansBefore
  <2> QED BY <1>3, <2>1, <2>2
<1>5. \A i, j \in DOMAIN spans : i < j => spans[i].range.last < spans[j].range.first
  BY <1>3 DEF SpansBefore
<1>6. SpansTypeOK
  BY <1>2, <1>4 DEF SpansTypeOK, SplitInv, SpansFit, Bounds
<1>7. BlankLinesSeparate
  <2> SUFFICES ASSUME NEW i \in DOMAIN spans,
                      NEW k \in spans[i].range.first .. spans[i].range.last,
                      NEW m \in spans[i].range.first .. spans[i].range.last,
                      k < m, text[k] \in LineEnds, text[m] \in LineEnds
               PROVE  \E v \in Visible : k < v /\ v < m
    BY DEF BlankLinesSeparate
  <2> DEFINE u == units[spans[i].unit]
  <2>1. Separated(u.first, u.last) /\ u.first \in Nat /\ u.last \in Nat
    BY <1>2, <1>4 DEF SplitInv, ParagraphsFit
  <2>2. k \in u.first .. u.last /\ m \in u.first .. u.last
    BY <1>4, <2>1
  <2> QED BY <2>1, <2>2 DEF Separated
<1>8. NothingLost
  <2>1. pass = "done" => \A k \in Visible : k < Len(text) + 1
    BY <1>1, TextFacts
  <2> QED BY <2>1 DEF NothingLost, SplitInv, SpansFit, SpansBefore
<1>9. SpansInOrder
  BY <1>4, <1>5 DEF SpansInOrder
<1>10. ResplitIsIdentity
  BY <1>4 DEF ResplitIsIdentity
<1> QED BY <1>6, <1>7, <1>8, <1>9, <1>10

\* Every document is split into spans that follow each other inside the
\* paragraphs and never reach over a blank line
\* (production_inputs.py, split_unit_spans and sentence_spans).
THEOREM SpansAlwaysInv == SplitSpec => []SpansInv
<1>1. SplitInv => SpansInv
  BY SpansKnown DEF SpansInv
<1> QED BY <1>1, SplittingInvariant, PTL

\* No visible character of a document is left out of the spans
\* (production_inputs.py:20-25, 39-58).
THEOREM NothingEverLost == SplitSpec => []NothingLost
<1>1. SplitInv => NothingLost
  BY SpansKnown
<1> QED BY <1>1, SplittingInvariant, PTL

\* The text of a span, split again by the worker of a batch
\* (batch_runner.py:65-70), is one span.
THEOREM ResplitAlwaysIdentity == SplitSpec => []ResplitIsIdentity
<1>1. SplitInv => ResplitIsIdentity
  BY SpansKnown
<1> QED BY <1>1, SplittingInvariant, PTL
-----------------------------------------------------------------------------
(* From answers to the graph.                                              *)

\* The place of the last mention before span k.
Offset(k) == Cardinality({m \in Mentions : m[1] < k})

\* A text after aggregation: an id of the span is one of the run.
Mapped(q, k) ==
  IF q[1] = "span" /\ q[2] = k /\ q[3] \in 1 .. answers[k].entities
  THEN <<"local", Offset(k) + q[3]>> ELSE q

\* What aggregation makes of fact f: ids of the run instead of its span.
Row(f) ==
  LET r == Fact(f[1], f[2]) IN
    [source |-> Offset(f[1]) + r.source[2], target |-> Offset(f[1]) + r.target[2], raw |-> r.raw,
     family |-> r.family,
     qualifiers |-> [condition |-> Mapped(r.qualifiers.condition, f[1]),
                     temporality |-> Mapped(r.qualifiers.temporality, f[1])]]

\* The aggregated answer to span k.
Extracted(k) ==
  [entities |-> [i \in 1 .. answers[k].entities |-> Offset(k) + i],
   relations |-> [i \in DOMAIN answers[k].relations |-> Row(<<k, i>>)]]

EnrichedAnswers == {Enriched(k) : k \in DOMAIN answers}
ExtractedAnswers == {Extracted(k) : k \in DOMAIN answers}

\* The results are the enriched answers that passed the worker's checks.
EnrichFits ==
  /\ answers \in Documents
  /\ results \in Seq(EnrichedAnswers) /\ Len(results) <= Len(answers)
  /\ \A k \in DOMAIN results :
       results[k] = Enriched(k) /\ WellFormed(answers[k]) /\ Backed(answers[k])
  /\ stage = "enrich" => Len(results) < Len(answers) /\ extractions = <<>>
  /\ stage \notin {"enrich", "terminalFailure"} => Len(results) = Len(answers)

\* The extractions are the results with the ids of the run; the ids used are
\* those before the cursor, which stands after the places of all mentions so far.
AggregateFits ==
  /\ extractions \in Seq(ExtractedAnswers) /\ Len(extractions) <= Len(results)
  /\ \A k \in DOMAIN extractions : extractions[k] = Extracted(k)
  /\ cursor = Offset(Len(extractions) + 1) + 1 /\ cursor - 1 <= LastLocalId
  /\ Locals = 1 .. cursor - 1
  /\ stage = "aggregate" => Len(extractions) < Len(results)
  /\ stage \in {"resolve", "project", "validate", "persisted"} => Len(extractions) = Len(answers)

\* The edge of a fact, whichever of the facts with its signature came first.
EdgeOf(f) == Edge(f[1], Row(f))

AllEdges == {EdgeOf(f) : f \in Facts}

\* Facts whose signature no earlier fact of their span has.
FirstFacts ==
  {f \in Facts : \A g \in Facts : g[1] = f[1] /\ g[2] < f[2] => Signature(EdgeOf(g)) # Signature(EdgeOf(f))}

\* The edges are of first facts of the units projected so far; each fact of these has
\* an edge with its signature and no local id left in its qualifiers.
ProjectFits ==
  /\ stage \in {"enrich", "aggregate", "resolve"} => unit = 1 /\ edges = <<>>
  /\ stage = "project" => unit \in DOMAIN answers
  /\ stage \in {"validate", "persisted"} => unit = Len(answers) + 1
  /\ stage \in {"project", "validate", "persisted"} =>
       /\ DOMAIN ids = Locals
       /\ edges \in Seq(AllEdges)
       /\ \A f \in Facts : f[1] < unit =>
            /\ \E e \in Image(edges) : Signature(e) = Signature(EdgeOf(f))
            /\ \A q \in Image(Row(f).qualifiers) : ~Unresolved(Rebind(q))
       /\ \A e \in Image(edges) : \E f \in FirstFacts : f[1] < unit /\ e = EdgeOf(f)

\* The graph is there when it is persisted, and assembled from ids and edges.
GraphFits ==
  /\ stage \in {"enrich", "aggregate", "resolve", "project", "validate",
                "persisted", "terminalFailure", "raised"}
  /\ stage = "persisted" <=> graph # {}
  /\ stage = "persisted" => graph = {[nodes |-> Nodes, edges |-> EdgeSet]}

\* The inductive invariant.
FactInv == EnrichFits /\ AggregateFits /\ ProjectFits /\ GraphFits /\ LateFailuresExplained
-----------------------------------------------------------------------------
(* Words, answers and the places of their mentions.                        *)

\* The words that mention an id.
LEMMA WordFacts ==
  ASSUME NEW q \in Words
  PROVE  /\ q[1] \in {"none", "text", "local", "mention", "span"}
         /\ q[1] = "local" => q = <<"local", q[2]>> /\ q[2] \in Nat
         /\ q[1] = "span" => q = <<"span", q[2], q[3]>> /\ q[2] \in Nat /\ q[3] \in Nat
  BY LastAssumption DEF Words

\* What the assumption says of the answers.
LEMMA AnswerFacts ==
  ASSUME answers \in Documents
  PROVE  /\ Len(answers) \in Nat /\ Len(answers) > 0 /\ DOMAIN answers = 1 .. Len(answers)
         /\ \A k \in DOMAIN answers : k \in Nat /\ IsAnswer(answers[k]) /\ answers[k].entities \in Nat
         /\ \A k \in DOMAIN answers : \E n \in Nat : DOMAIN answers[k].relations = 1 .. n
  BY AnswersAssumption DEF IsAnswer

\* What an answer that passed the checks says.
LEMMA SaidFacts ==
  ASSUME answers \in Documents, NEW k \in DOMAIN answers, WellFormed(answers[k]),
         NEW i \in DOMAIN answers[k].relations
  PROVE  LET r == answers[k].relations[i] IN
         /\ r.source \in 1 .. answers[k].entities /\ r.target \in 1 .. answers[k].entities
         /\ r.condition \in Words /\ Bound(answers[k], i) \in Words
<1> DEFINE a == answers[k]
           r == a.relations[i]
           own == {b \in Image(a.bindings) : b.relation = i}
<1>1. IsAnswer(a) /\ r \in Image(a.relations)
  BY AnswerFacts DEF Image
<1>2. r.source \in 1 .. a.entities /\ r.target \in 1 .. a.entities
  BY <1>1 DEF WellFormed
<1>3. r.condition \in Words
  BY <1>1 DEF IsAnswer
<1>4. \A b \in own : b.surface \in Words
  BY <1>1 DEF IsAnswer
<1>5. Bound(a, i) = IF own = {} THEN <<"none">> ELSE (CHOOSE b \in own : TRUE).surface
  BY DEF Bound
<1>6. own # {} => (CHOOSE b \in own : TRUE) \in own
  OBVIOUS
<1> HIDE DEF own
<1>7. <<"none">> \in Words
  BY DEF Words
<1>8. Bound(a, i) \in Words
  BY <1>4, <1>5, <1>6, <1>7
<1> QED BY <1>2, <1>3, <1>8

\* Mentions are finite, so places are numbers.
LEMMA MentionsFinite ==
  ASSUME answers \in Documents
  PROVE  IsFiniteSet(Mentions) /\ Cardinality(Mentions) \in Nat
<1> DEFINE of(k) == {k} \X (1 .. answers[k].entities)
           T == {of(k) : k \in DOMAIN answers}
<1>1. IsFiniteSet(DOMAIN answers)
  BY AnswerFacts, FS_Interval
<1>2. IsFiniteSet(T)
  <2> DEFINE f == [k \in DOMAIN answers |-> of(k)]
  <2>1. f \in Surjection(DOMAIN answers, T)
    <3> HIDE DEF of
    <3> QED BY DEF Surjection
  <2> HIDE DEF T, f
  <2> QED BY <1>1, <2>1, FS_Surjection
<1>3. \A t \in T : IsFiniteSet(t)
  <2> SUFFICES ASSUME NEW k \in DOMAIN answers PROVE IsFiniteSet(of(k))
    OBVIOUS
  <2>1. answers[k].entities \in Int
    BY AnswerFacts
  <2>2. IsFiniteSet(1 .. answers[k].entities)
    BY <2>1, FS_Interval
  <2>3. IsFiniteSet({k})
    BY FS_Singleton
  <2> QED BY <2>2, <2>3, FS_Product
<1>4. Mentions = UNION T
  BY DEF Mentions
<1>5. IsFiniteSet(Mentions)
  BY <1>2, <1>3, <1>4, FS_UNION
<1> QED BY <1>5, FS_CardinalityType

\* A mention is an entity of an answer.
LEMMA MentionFacts ==
  ASSUME answers \in Documents
  PROVE  \A m : m \in Mentions <=> /\ m = <<m[1], m[2]>> /\ m[1] \in DOMAIN answers
                                   /\ m[2] \in 1 .. answers[m[1]].entities
  BY DEF Mentions

\* A span's mentions come after those of the spans before it.
LEMMA Placed ==
  ASSUME answers \in Documents, NEW k \in DOMAIN answers, NEW i \in 0 .. answers[k].entities
  PROVE  /\ Offset(k) \in Nat
         /\ Cardinality({m \in Mentions : m[1] < k \/ (m[1] = k /\ m[2] <= i)}) = Offset(k) + i
         /\ Offset(k) + i <= Cardinality(Mentions)
<1> DEFINE A == {m \in Mentions : m[1] < k}
           B == {k} \X (1 .. i)
           C == {m \in Mentions : m[1] < k \/ (m[1] = k /\ m[2] <= i)}
<1>1. k \in Nat /\ answers[k].entities \in Nat /\ i \in Nat
  BY AnswerFacts
<1>2. IsFiniteSet(A)
  BY MentionsFinite, FS_Subset
<1>3. IsFiniteSet(B) /\ Cardinality(B) = i
  <2>1. IsFiniteSet(1 .. i) /\ Cardinality(1 .. i) = i
    BY <1>1, FS_Interval, SMTT(40)
  <2>2. IsFiniteSet({k}) /\ Cardinality({k}) = 1
    BY FS_Singleton
  <2>3. IsFiniteSet(B) /\ Cardinality(B) = 1 * i
    BY <2>1, <2>2, FS_Product, ZenonT(60)
  <2> QED BY <1>1, <2>3
<1>4. C = A \cup B
  <2>1. \A m \in A \cup B : m \in C
    BY <1>1, MentionFacts
  <2>2. \A m \in C : m \in A \cup B
    BY <1>1, MentionFacts
  <2> QED BY <2>1, <2>2
<1>5. A \cap B = {}
  BY <1>1
<1>6. Cardinality(A) \in Nat
  BY <1>2, FS_CardinalityType
<1>7. Cardinality(C) = Cardinality(A) + i
  <2>1. Cardinality(A \cup B) = Cardinality(A) + Cardinality(B) - Cardinality(A \cap B)
    BY <1>2, <1>3, FS_Union
  <2>2. Cardinality(A \cap B) = 0
    BY <1>5, FS_EmptySet
  <2>3. Cardinality(C) = Cardinality(A \cup B) /\ Cardinality(B) = i
    BY <1>3, <1>4
  <2> HIDE DEF A, B, C
  <2> QED BY <1>1, <1>6, <2>1, <2>2, <2>3
<1>8. Cardinality(C) <= Cardinality(Mentions)
  BY MentionsFinite, FS_Subset
<1> QED BY <1>6, <1>7, <1>8 DEF Offset

\* The mentions of a span take the places after its offset.
LEMMA PlaceFacts ==
  ASSUME answers \in Documents, NEW k \in DOMAIN answers, NEW i \in 1 .. answers[k].entities
  PROVE  Place(<<k, i>>) = Offset(k) + i
<1>1. i \in 0 .. answers[k].entities
  BY AnswerFacts
<1> QED BY <1>1, Placed DEF Place

\* Offsets add up: from none before the first span to all of the mentions.
LEMMA Offsets ==
  ASSUME answers \in Documents
  PROVE  /\ Offset(1) = 0
         /\ \A k \in DOMAIN answers : Offset(k) \in Nat /\ Offset(k + 1) = Offset(k) + answers[k].entities
         /\ Offset(Len(answers) + 1) = Cardinality(Mentions)
<1>1. Offset(1) = 0
  <2>1. {m \in Mentions : m[1] < 1} = {}
    BY AnswerFacts, MentionFacts
  <2> QED BY <2>1, FS_EmptySet DEF Offset
<1>2. ASSUME NEW k \in DOMAIN answers
      PROVE  Offset(k) \in Nat /\ Offset(k + 1) = Offset(k) + answers[k].entities
  <2> DEFINE n == answers[k].entities
  <2>1. n \in 0 .. n
    BY AnswerFacts
  <2>2. {m \in Mentions : m[1] < k \/ (m[1] = k /\ m[2] <= n)} = {m \in Mentions : m[1] < k + 1}
    <3>1. \A m \in Mentions : (m[1] < k \/ (m[1] = k /\ m[2] <= n)) <=> m[1] < k + 1
      BY AnswerFacts, MentionFacts
    <3> QED BY <3>1
  <2> QED BY <2>1, <2>2, Placed DEF Offset
<1>3. Offset(Len(answers) + 1) = Cardinality(Mentions)
  <2>1. {m \in Mentions : m[1] < Len(answers) + 1} = Mentions
    BY AnswerFacts, MentionFacts
  <2> QED BY <2>1 DEF Offset
<1> QED BY <1>1, <1>2, <1>3
-----------------------------------------------------------------------------
(* The steps.                                                              *)

\* What depends on the answers alone.
LEMMA SameAnswers ==
  ASSUME answers' = answers
  PROVE  /\ Mentions' = Mentions /\ Facts' = Facts
         /\ EnrichedAnswers' = EnrichedAnswers /\ ExtractedAnswers' = ExtractedAnswers
         /\ \A k : Enriched(k)' = Enriched(k) /\ Extracted(k)' = Extracted(k) /\ Offset(k)' = Offset(k)
         /\ \A f : Row(f)' = Row(f)
<1>1. Mentions' = Mentions /\ Facts' = Facts
  BY DEF Mentions, Facts
<1>2. EnrichedAnswers' = EnrichedAnswers
  BY DEF EnrichedAnswers, Enriched, Fact, Bound, Image
<1>3. ASSUME NEW k PROVE Enriched(k)' = Enriched(k)
  BY DEF Enriched, Fact, Bound, Image
<1>4. ASSUME NEW k PROVE Offset(k)' = Offset(k)
  BY <1>1 DEF Offset
<1>5. ASSUME NEW f PROVE Row(f)' = Row(f)
  BY <1>1 DEF Row, Mapped, Offset, Fact, Bound, Image
<1>6. ASSUME NEW k PROVE Extracted(k)' = Extracted(k)
  BY <1>1 DEF Extracted, Row, Mapped, Offset, Fact, Bound, Image
<1>7. ExtractedAnswers' = ExtractedAnswers
  BY <1>1 DEF ExtractedAnswers, Extracted, Row, Mapped, Offset, Fact, Bound, Image
<1> QED BY <1>1, <1>2, <1>3, <1>4, <1>5, <1>6, <1>7

\* A step that ends the run for one of the causes keeps the explanation true.
LEMMA StillExplained ==
  ASSUME answers' = answers,
         stage' = "raised" =>
           \/ Cardinality(Mentions) > LastLocalId
           \/ \E f \in Facts : Fact(f[1], f[2]).raw = "long"
           \/ \E f \in Facts : \E q \in Image(Fact(f[1], f[2]).qualifiers) :
                q[1] = "mention" \/ (q[1] = "local" /\ q[2] \notin 1 .. Cardinality(Mentions)),
         stage' = "terminalFailure" =>
           \/ \E k \in DOMAIN answers : ~WellFormed(answers[k]) \/ ~Backed(answers[k])
           \/ \E f \in Facts : Fact(f[1], f[2]).raw = "blank"
  PROVE  LateFailuresExplained'
<1> DEFINE facts == {Fact(f[1], f[2]) : f \in Facts}
<1>1. facts' = facts
  BY DEF Facts, Fact, Bound, Image
<1> QED BY <1>1, SameAnswers DEF LateFailuresExplained, WellFormed, Backed

LEMMA FactInit == Init => FactInv
<1> SUFFICES ASSUME Init PROVE FactInv
  OBVIOUS
<1>1. EnrichFits
  BY AnswerFacts DEF Init, EnrichFits
<1>2. Locals = {}
  BY DEF Init, Locals
<1>3. Offset(Len(extractions) + 1) = 0
  BY Offsets DEF Init
<1>4. AggregateFits
  BY <1>2, <1>3, LastAssumption DEF Init, AggregateFits
<1>5. ProjectFits /\ GraphFits /\ LateFailuresExplained
  BY DEF Init, ProjectFits, GraphFits, LateFailuresExplained
<1> QED BY <1>1, <1>4, <1>5 DEF FactInv

LEMMA EnrichStep == FactInv /\ Enrich => FactInv'
<1> SUFFICES ASSUME FactInv, Enrich PROVE FactInv'
  OBVIOUS
<1> DEFINE k == Len(results) + 1
<1> USE DEF FactInv
<1>1. /\ stage = "enrich" /\ UNCHANGED <<answers, extractions, cursor, ids, unit, edges, graph>>
      /\ answers \in Documents /\ k \in DOMAIN answers /\ k \in 1 .. Len(answers) /\ Len(answers) \in Nat
      /\ extractions = <<>> /\ graph = {} /\ unit = 1 /\ edges = <<>>
      /\ results \in Seq(EnrichedAnswers) /\ Len(results) \in Nat /\ DOMAIN results = 1 .. Len(results)
  <2>1. /\ stage = "enrich" /\ Len(results) < Len(answers)
        /\ UNCHANGED <<answers, extractions, cursor, ids, unit, edges, graph>>
    BY DEF Enrich
  <2>2. extractions = <<>> /\ graph = {} /\ unit = 1 /\ edges = <<>>
    BY <2>1 DEF EnrichFits, ProjectFits, GraphFits
  <2>3. answers \in Documents /\ results \in Seq(EnrichedAnswers)
    BY DEF EnrichFits
  <2>4. Len(results) \in Nat /\ DOMAIN results = 1 .. Len(results)
    BY <2>3
  <2>5. k \in DOMAIN answers
    BY <2>1, <2>3, <2>4, AnswerFacts
  <2> QED BY <2>1, <2>2, <2>3, <2>4, <2>5, AnswerFacts
<1>2. Locals' = Locals
  BY <1>1 DEF Locals
<1>3. CASE WellFormed(answers[k]) /\ Backed(answers[k])
  <2>1. /\ results' = Append(results, Enriched(k))
        /\ stage' = IF k = Len(answers) THEN "aggregate" ELSE "enrich"
    BY <1>3 DEF Enrich
  <2>2. Enriched(k) \in EnrichedAnswers
    BY <1>1 DEF EnrichedAnswers
  <2>3. /\ results' \in Seq(EnrichedAnswers) /\ Len(results') = k
        /\ \A j \in DOMAIN results' : results'[j] = IF j = k THEN Enriched(k) ELSE results[j]
        /\ DOMAIN results' = DOMAIN results \cup {k}
    BY <1>1, <2>1, <2>2
  <2>4. ASSUME NEW j \in DOMAIN results'
        PROVE  results'[j] = Enriched(j) /\ WellFormed(answers[j]) /\ Backed(answers[j])
    BY <1>1, <1>3, <2>3 DEF EnrichFits
  <2>5. answers' \in Documents /\ results' \in Seq(EnrichedAnswers') /\ Len(results') <= Len(answers')
    BY <1>1, <2>3, AnswerFacts, SameAnswers DEF EnrichFits
  <2>6. \A j \in DOMAIN results' :
          /\ results'[j] = Enriched(j)' /\ WellFormed(answers'[j]) /\ Backed(answers'[j])
    BY <1>1, <2>4, SameAnswers
  <2>7. /\ stage' = "enrich" => Len(results') < Len(answers') /\ extractions' = <<>>
        /\ stage' \notin {"enrich", "terminalFailure"} => Len(results') = Len(answers')
    BY <1>1, <2>1, <2>3
  <2>8. EnrichFits'
    BY <2>5, <2>6, <2>7 DEF EnrichFits, WellFormed, Backed, Enriched, Fact, Bound, Image
  <2>9. AggregateFits'
    BY <1>1, <1>2, <2>1, <2>3, SameAnswers DEF AggregateFits
  <2>10. ProjectFits' /\ GraphFits' /\ LateFailuresExplained'
    BY <1>1, <2>1 DEF ProjectFits, GraphFits, LateFailuresExplained
  <2> QED BY <2>8, <2>9, <2>10
<1>4. CASE ~(WellFormed(answers[k]) /\ Backed(answers[k]))
  <2>1. stage' = "terminalFailure" /\ results' = results
    BY <1>4 DEF Enrich
  <2>2. EnrichFits'
    BY <1>1, <2>1, SameAnswers DEF EnrichFits, WellFormed, Backed
  <2>3. AggregateFits'
    BY <1>1, <1>2, <2>1, SameAnswers DEF AggregateFits
  <2>4. ProjectFits' /\ GraphFits'
    BY <1>1, <2>1 DEF ProjectFits, GraphFits
  <2>5. LateFailuresExplained'
    BY <1>1, <1>4, <2>1 DEF LateFailuresExplained, WellFormed, Backed
  <2> QED BY <2>2, <2>3, <2>4, <2>5
<1> QED BY <1>3, <1>4

\* Edges depend on answers and ids only.
LEMMA SameEdges ==
  ASSUME answers' = answers, ids' = ids, Locals' = Locals
  PROVE  /\ AllEdges' = AllEdges /\ FirstFacts' = FirstFacts
         /\ \A f : EdgeOf(f)' = EdgeOf(f) /\ Row(f)' = Row(f)
         /\ \A q : Rebind(q)' = Rebind(q)
<1>1. \A q : Rebind(q)' = Rebind(q)
  BY DEF Rebind
<1>2. \A f : Row(f)' = Row(f)
  BY SameAnswers
<1>3. \A f : EdgeOf(f)' = EdgeOf(f)
  BY <1>2, SMTT(40) DEF EdgeOf, Edge, Rebind
<1>4. AllEdges' = {EdgeOf(f)' : f \in Facts'}
  BY ZenonT(60) DEF AllEdges, EdgeOf, Edge, Rebind, Row, Mapped, Offset, Fact, Bound, Image, Facts, Mentions, Locals
<1>5. FirstFacts' = FirstFacts
  <2>1. FirstFacts' = {f \in Facts' : \A g \in Facts' : g[1] = f[1] /\ g[2] < f[2] =>
                         Signature(EdgeOf(g)') # Signature(EdgeOf(f)')}
    BY ZenonT(60) DEF FirstFacts, Signature, EdgeOf, Edge, Rebind, Row, Mapped, Offset, Fact, Bound, Image, Facts, Mentions, Locals
  <2> QED BY <1>3, <2>1, SameAnswers DEF FirstFacts
<1> QED BY <1>1, <1>2, <1>3, <1>4, <1>5, SameAnswers DEF AllEdges

\* One span's answer with ids of the run.
LEMMA AggregateStep == FactInv /\ Aggregate => FactInv'
<1> SUFFICES ASSUME FactInv, Aggregate PROVE FactInv'
  OBVIOUS
<1> USE DEF FactInv
<1>0. PICK k \in Nat : k = Len(extractions) + 1
  <2>1. extractions \in Seq(ExtractedAnswers)
    BY DEF AggregateFits
  <2> QED BY <2>1
<1>1. stage = "aggregate" /\ UNCHANGED <<answers, results, ids, unit, edges, graph>>
  BY DEF Aggregate
<1>2. /\ answers \in Documents /\ results \in Seq(EnrichedAnswers) /\ Len(results) = Len(answers)
      /\ extractions \in Seq(ExtractedAnswers) /\ Len(extractions) < Len(results)
  BY <1>1 DEF EnrichFits, AggregateFits
<1>3. /\ k \in DOMAIN answers /\ k \in DOMAIN results /\ k \in 1 .. Len(answers)
      /\ Len(extractions) \in Nat /\ DOMAIN extractions = 1 .. Len(extractions) /\ Len(answers) \in Nat
  <2>1. /\ Len(extractions) \in Nat /\ Len(results) \in Nat /\ DOMAIN results = 1 .. Len(results)
        /\ DOMAIN extractions = 1 .. Len(extractions)
    BY <1>2
  <2> QED BY <1>0, <1>2, <2>1, AnswerFacts
<1>9. PICK n \in Nat : n = answers[k].entities
  BY <1>2, <1>3, AnswerFacts
<1>4. results[k] = Enriched(k) /\ WellFormed(answers[k])
  BY <1>3 DEF EnrichFits
<1>5. /\ results[k].entities = [i \in 1 .. n |-> <<k, i>>] /\ Len(results[k].entities) = n
      /\ Image(results[k].entities) = {k} \X (1 .. n)
      /\ results[k].relations = [i \in DOMAIN answers[k].relations |-> Fact(k, i)]
  <2>1. results[k].entities = [i \in 1 .. n |-> <<k, i>>]
    BY <1>4, <1>9 DEF Enriched
  <2>2. Len(results[k].entities) = n
    BY <1>3, <2>1
  <2>3. Image(results[k].entities) = {k} \X (1 .. n)
    BY <2>1 DEF Image
  <2>4. results[k].relations = [i \in DOMAIN answers[k].relations |-> Fact(k, i)]
    BY <1>4 DEF Enriched
  <2> QED BY <2>1, <2>2, <2>3, <2>4
<1>6. cursor = Offset(k) + 1 /\ Offset(k) \in Nat /\ Offset(k + 1) = Offset(k) + n /\ Locals = 1 .. Offset(k)
  <2>1. Offset(k) \in Nat /\ Offset(k + 1) = Offset(k) + n
    BY <1>2, <1>3, <1>9, Offsets
  <2> QED BY <1>0, <2>1 DEF AggregateFits
<1>7. CASE Refused(k)
  <2>1. stage' = "raised" /\ UNCHANGED <<extractions, cursor>>
    BY <1>0, <1>7 DEF Aggregate
  <2>2. Cardinality(Mentions) > LastLocalId \/ \E f \in Facts : Fact(f[1], f[2]).raw = "long"
    <3>1. CASE n > 0 /\ cursor + n - 1 > LastLocalId
      <4>1. n \in 0 .. n
        BY <1>3
      <4>2. Offset(k) + n <= Cardinality(Mentions)
        BY <1>2, <1>3, <1>9, <4>1, Placed
      <4> QED BY <1>2, <1>3, <1>6, <3>1, <4>2, MentionsFinite, LastAssumption
    <3>2. CASE \E r \in Image(results[k].relations) : r.raw = "long"
      <4>1. PICK i \in DOMAIN answers[k].relations : Fact(k, i).raw = "long"
        BY <1>5, <3>2 DEF Image
      <4>2. <<k, i>> \in Facts /\ <<k, i>>[1] = k /\ <<k, i>>[2] = i
        BY <1>3 DEF Facts
      <4> QED BY <4>1, <4>2
    <3> QED BY <1>5, <1>7, <3>1, <3>2 DEF Refused
  <2>3. EnrichFits'
    BY <1>1, <1>2, <2>1, SameAnswers DEF EnrichFits, WellFormed, Backed
  <2>4. AggregateFits'
    BY <1>1, <2>1, SameAnswers DEF AggregateFits, Locals, Image
  <2>5. ProjectFits' /\ GraphFits'
    BY <1>1, <2>1 DEF ProjectFits, GraphFits
  <2>6. LateFailuresExplained'
    BY <1>1, <2>1, <2>2, StillExplained
  <2> QED BY <2>3, <2>4, <2>5, <2>6
<1>8. CASE ~Refused(k)
  <2> DEFINE new == [entities |-> [i \in 1 .. n |-> cursor + i - 1],
                     relations |-> [i \in DOMAIN answers[k].relations |-> Row(<<k, i>>)]]
  <2>1. /\ extractions' = Append(extractions, new) /\ cursor' = cursor + n
        /\ stage' = IF k = Len(results) THEN "resolve" ELSE "aggregate"
    <3> DEFINE remap(e) == cursor + e[2] - 1
               mapped(q) == IF q[1] = "span" /\ <<q[2], q[3]>> \in Image(results[k].entities)
                            THEN <<"local", remap(<<q[2], q[3]>>)>> ELSE q
               row(r) == [r EXCEPT !.source = remap(r.source), !.target = remap(r.target),
                                   !.qualifiers = [q \in DOMAIN @ |-> mapped(@[q])]]
    <3>1. /\ extractions' = Append(extractions,
                [entities |-> [i \in 1 .. n |-> cursor + i - 1],
                 relations |-> [i \in DOMAIN results[k].relations |-> row(results[k].relations[i])]])
          /\ cursor' = CursorAfter(n)
          /\ stage' = IF k = Len(results) THEN "resolve" ELSE "aggregate"
      <4> HIDE DEF FactInv
      <4> QED BY <1>0, <1>5, <1>8, ZenonT(60) DEF Aggregate
    <3>2. ASSUME NEW i \in DOMAIN answers[k].relations PROVE row(Fact(k, i)) = Row(<<k, i>>)
      <4> DEFINE r == answers[k].relations[i]
                 t == Bound(answers[k], i)
      <4>0. ASSUME NEW j \in 1 .. n PROVE remap(<<k, j>>) = Offset(k) + j
        BY <1>6
      <4>1. /\ r.source \in 1 .. n /\ r.target \in 1 .. n
            /\ r.condition \in Words /\ t \in Words
        BY <1>2, <1>3, <1>4, <1>9, SaidFacts
      <4>2. Fact(k, i) = [source |-> <<k, r.source>>, target |-> <<k, r.target>>, raw |-> r.raw,
                          family |-> r.family, qualifiers |-> [condition |-> r.condition, temporality |-> t]]
        BY DEF Fact
      <4>3. ASSUME NEW q \in Words PROVE mapped(q) = Mapped(q, k)
        <5>1. <<q[2], q[3]>> \in Image(results[k].entities) <=> q[2] = k /\ q[3] \in 1 .. n
          BY <1>5
        <5> HIDE DEF remap
        <5> QED BY <1>9, <4>0, <5>1 DEF Mapped
      <4>4. remap(<<k, r.source>>) = Offset(k) + r.source /\ remap(<<k, r.target>>) = Offset(k) + r.target
        <5> HIDE DEF remap, r
        <5> QED BY <4>0, <4>1
      <4>5. row(Fact(k, i)) =
              [source |-> Offset(k) + r.source, target |-> Offset(k) + r.target, raw |-> r.raw, family |-> r.family,
               qualifiers |-> [condition |-> mapped(r.condition), temporality |-> mapped(t)]]
        <5> DEFINE f == Fact(k, i)
                   quals == [q \in DOMAIN f.qualifiers |-> mapped(f.qualifiers[q])]
        <5>1. /\ f.source = <<k, r.source>> /\ f.target = <<k, r.target>>
              /\ f.qualifiers = [condition |-> r.condition, temporality |-> t]
          BY <4>2
        <5>2. quals = [condition |-> mapped(r.condition), temporality |-> mapped(t)]
          <6> HIDE DEF mapped, r, t, f
          <6> QED BY <5>1
        <5>3. row(f) = [f EXCEPT !.source = remap(f.source), !.target = remap(f.target), !.qualifiers = quals]
          <6> HIDE DEF mapped, remap, r, t, f
          <6> QED OBVIOUS
        <5> HIDE DEF mapped, remap, r, t, f, quals, row
        <5>5. f = [source |-> <<k, r.source>>, target |-> <<k, r.target>>, raw |-> r.raw,
                   family |-> r.family, qualifiers |-> [condition |-> r.condition, temporality |-> t]]
          BY <4>2 DEF f
        <5>4. row(f) = [source |-> remap(f.source), target |-> remap(f.target), raw |-> r.raw,
                        family |-> r.family, qualifiers |-> quals]
          BY <5>3, <5>5
        <5> QED BY <4>4, <5>1, <5>2, <5>4 DEF f
      <4>6. Row(<<k, i>>) =
              [source |-> Offset(k) + r.source, target |-> Offset(k) + r.target, raw |-> r.raw, family |-> r.family,
               qualifiers |-> [condition |-> Mapped(r.condition, k), temporality |-> Mapped(t, k)]]
        <5> HIDE DEF r, t
        <5> QED BY <4>2 DEF Row
      <4> QED BY <4>1, <4>3, <4>5, <4>6
    <3> HIDE DEF row
    <3>3. [i \in DOMAIN results[k].relations |-> row(results[k].relations[i])]
            = [i \in DOMAIN answers[k].relations |-> Row(<<k, i>>)]
      BY <1>5, <3>2
    <3> QED BY <3>1, <3>3 DEF CursorAfter
  <2>2. new = Extracted(k)
    <3>1. \A i \in 1 .. n : cursor + i - 1 = Offset(k) + i
      BY <1>3, <1>6
    <3> QED BY <1>9, <3>1 DEF Extracted
  <2>3. Extracted(k) \in ExtractedAnswers
    BY <1>3 DEF ExtractedAnswers
  <2> HIDE DEF new
  <2>4. /\ extractions' \in Seq(ExtractedAnswers) /\ Len(extractions') = k
        /\ \A j \in DOMAIN extractions' : extractions'[j] = IF j = k THEN Extracted(k) ELSE extractions[j]
        /\ DOMAIN extractions' = DOMAIN extractions \cup {k}
    BY <1>0, <1>2, <1>3, <2>1, <2>2, <2>3
  <2>5. Locals' = Locals \cup (cursor .. cursor + n - 1)
    <3>1. Image(Extracted(k).entities) = cursor .. cursor + n - 1
      <4>1. Image(Extracted(k).entities) = {Offset(k) + i : i \in 1 .. n}
        BY <1>9 DEF Extracted, Image
      <4>2. \A x \in cursor .. cursor + n - 1 : x = Offset(k) + (x - Offset(k)) /\ x - Offset(k) \in 1 .. n
        BY <1>3, <1>6
      <4>3. \A i \in 1 .. n : Offset(k) + i \in cursor .. cursor + n - 1
        BY <1>3, <1>6
      <4> QED BY <4>1, <4>2, <4>3
    <3>2. \A j \in DOMAIN extractions : extractions'[j] = extractions[j]
      BY <1>0, <1>3, <2>4
    <3>3. extractions'[k] = Extracted(k)
      BY <2>4
    <3>4. Locals' = UNION {Image(extractions'[j].entities) : j \in DOMAIN extractions'}
      BY DEF Locals, Image
    <3>5. \A x : x \in Locals' <=> \E j \in DOMAIN extractions' : x \in Image(extractions'[j].entities)
      BY <3>4
    <3>6. \A x : x \in Locals <=> \E j \in DOMAIN extractions : x \in Image(extractions[j].entities)
      BY DEF Locals
    <3>7. \A x : x \in Locals' <=> x \in Locals \/ x \in Image(Extracted(k).entities)
      BY <2>4, <3>2, <3>3, <3>5, <3>6
    <3> QED BY <3>1, <3>7
  <2>6. cursor' = Offset(k + 1) + 1 /\ cursor' - 1 <= LastLocalId /\ Locals' = 1 .. cursor' - 1
    <3>1. cursor' = Offset(k + 1) + 1
      BY <1>3, <1>6, <2>1
    <3>2. cursor' - 1 <= LastLocalId
      <4>1. cursor - 1 <= LastLocalId
        BY DEF AggregateFits
      <4>2. CASE n = 0
        BY <1>6, <2>1, <4>1, <4>2
      <4>3. CASE n > 0
        BY <1>5, <1>6, <1>8, <2>1, <4>3, LastAssumption DEF Refused
      <4> QED BY <4>2, <4>3
    <3>3. Locals' = 1 .. cursor' - 1
      BY <1>3, <1>6, <2>1, <2>5, SMTT(40)
    <3> QED BY <3>1, <3>2, <3>3
  <2>7. EnrichFits'
    BY <1>1, <1>2, <2>1, SameAnswers DEF EnrichFits, WellFormed, Backed
  <2>8. AggregateFits'
    <3>1. extractions' \in Seq(ExtractedAnswers') /\ Len(extractions') <= Len(results')
      BY <1>1, <1>2, <1>3, <2>4, SameAnswers
    <3>2. \A j \in DOMAIN extractions' : extractions'[j] = Extracted(j)'
      BY <1>0, <1>1, <1>3, <2>4, SameAnswers DEF AggregateFits
    <3>3. cursor' = Offset(Len(extractions) + 1)' + 1
      <4>1. Offset(k + 1)' = Offset(k + 1)
        BY <1>1, SameAnswers
      <4>2. Offset(Len(extractions) + 1)' = Offset(k + 1)'
        BY <2>4 DEF Offset, Mentions
      <4> QED BY <2>6, <4>1, <4>2
    <3>4. /\ stage' = "aggregate" => Len(extractions') < Len(results')
          /\ stage' \in {"resolve", "project", "validate", "persisted"} => Len(extractions') = Len(answers')
      BY <1>1, <1>2, <1>3, <2>1, <2>4
    <3> QED BY <2>6, <3>1, <3>2, <3>3, <3>4
            DEF AggregateFits, Offset, Mentions, Extracted, Row, Mapped, Fact, Bound, Image
  <2>9. ProjectFits' /\ GraphFits' /\ LateFailuresExplained'
    BY <1>1, <2>1 DEF ProjectFits, GraphFits, LateFailuresExplained
  <2> QED BY <2>7, <2>8, <2>9
<1> QED BY <1>7, <1>8

\* A fact is a relation of an answer.
LEMMA FactFacts ==
  ASSUME answers \in Documents
  PROVE  \A f : f \in Facts <=> /\ f = <<f[1], f[2]>> /\ f[1] \in DOMAIN answers
                                /\ f[2] \in DOMAIN answers[f[1]].relations
  BY DEF Facts

LEMMA ResolveStep == FactInv /\ Resolve => FactInv'
<1> SUFFICES ASSUME FactInv, Resolve PROVE FactInv'
  OBVIOUS
<1> USE DEF FactInv
<1>1. /\ stage = "resolve" /\ stage' = "project" /\ DOMAIN ids' = Locals
      /\ UNCHANGED <<answers, results, extractions, cursor, unit, edges, graph>>
  BY DEF Resolve
<1>2. answers \in Documents /\ Len(results) = Len(answers) /\ unit = 1 /\ edges = <<>> /\ graph = {}
  BY <1>1 DEF EnrichFits, ProjectFits, GraphFits
<1>3. Locals' = Locals
  BY <1>1 DEF Locals, Image
<1>4. EnrichFits'
  BY <1>1, <1>2, SameAnswers DEF EnrichFits, WellFormed, Backed
<1>5. AggregateFits'
  BY <1>1, <1>3, SameAnswers DEF AggregateFits
<1>6. ProjectFits'
  <2>1. unit' \in DOMAIN answers'
    BY <1>1, <1>2, AnswerFacts
  <2>2. edges' \in Seq(AllEdges') /\ Image(edges') = {}
    BY <1>1, <1>2 DEF Image
  <2>3. \A f \in Facts' : ~(f[1] < unit')
    BY <1>1, <1>2, AnswerFacts, FactFacts, SameAnswers
  <2> QED BY <1>1, <1>3, <2>1, <2>2, <2>3 DEF ProjectFits, Image
<1>7. GraphFits' /\ LateFailuresExplained'
  BY <1>1, <1>2 DEF GraphFits, LateFailuresExplained
<1> QED BY <1>4, <1>5, <1>6, <1>7
-----------------------------------------------------------------------------
(* Numbering a finite set of positions.                                    *)

\* The members of a finite set of numbers by their rank: each rank has a member,
\* each member has a rank.
LEMMA Nth ==
  ASSUME NEW F, F \subseteq Nat, IsFiniteSet(F)
  PROVE  /\ Cardinality(F) \in Nat
         /\ \A n \in 1 .. Cardinality(F) : (CHOOSE i \in F : Cardinality({j \in F : j < i}) = n - 1) \in F
         /\ \A i \in F : \E n \in 1 .. Cardinality(F) :
              (CHOOSE x \in F : Cardinality({j \in F : j < x}) = n - 1) = i
<1> DEFINE c == Cardinality(F)
           below(i) == {j \in F : j < i}
           rank == [i \in F |-> Cardinality(below(i)) + 1]
<1>1. c \in Nat
  BY FS_CardinalityType
<1>2. ASSUME NEW i \in F
      PROVE  IsFiniteSet(below(i)) /\ Cardinality(below(i)) \in Nat /\ Cardinality(below(i)) < c
  <2>1. IsFiniteSet(below(i)) /\ Cardinality(below(i)) <= c /\ (c = Cardinality(below(i)) => F = below(i))
    BY FS_Subset
  <2>2. i \notin below(i)
    OBVIOUS
  <2>3. Cardinality(below(i)) \in Nat
    BY <2>1, FS_CardinalityType
  <2> HIDE DEF below, c
  <2> QED BY <1>1, <2>1, <2>2, <2>3
<1>3. ASSUME NEW i \in F, NEW j \in F, i < j PROVE Cardinality(below(i)) < Cardinality(below(j))
  <2>0. \A x \in F : x \in Nat
    OBVIOUS
  <2>1. below(i) \in SUBSET below(j) /\ i \in below(j) /\ i \notin below(i)
    <3>1. i \in Nat /\ j \in Nat /\ ~(i < i)
      BY <2>0
    <3>2. ASSUME NEW x \in F, x < i PROVE x < j
      BY <1>3, <2>0, <3>1, <3>2
    <3> QED BY <1>3, <3>1, <3>2
  <2>2. /\ Cardinality(below(i)) <= Cardinality(below(j))
        /\ Cardinality(below(j)) = Cardinality(below(i)) => below(j) = below(i)
    BY <1>2, <2>1, FS_Subset
  <2>3. Cardinality(below(i)) \in Nat /\ Cardinality(below(j)) \in Nat
    BY <1>2
  <2> HIDE DEF below
  <2> QED BY <2>1, <2>2, <2>3
<1> HIDE DEF below
<1>4. ASSUME NEW i \in F, NEW j \in F, Cardinality(below(i)) = Cardinality(below(j)) PROVE i = j
  <2>1. i \in Nat /\ j \in Nat /\ Cardinality(below(i)) \in Nat
    BY <1>2
  <2>2. ~(i < j)
    BY <1>3, <1>4, <2>1
  <2>3. ~(j < i)
    BY <1>3, <1>4, <2>1
  <2> QED BY <2>1, <2>2, <2>3
<1>5. rank \in [F -> 1 .. c]
  BY <1>1, <1>2
<1>6. \A i, j \in F : rank[i] = rank[j] => i = j
  <2> SUFFICES ASSUME NEW i \in F, NEW j \in F, rank[i] = rank[j] PROVE i = j
    OBVIOUS
  <2>1. Cardinality(below(i)) = Cardinality(below(j))
    BY <1>2
  <2> QED BY <1>4, <2>1
<1>7. rank \in Injection(F, 1 .. c)
  BY <1>5, <1>6 DEF Injection, IsInjective
<1>8. IsFiniteSet(1 .. c) /\ Cardinality(1 .. c) = c
  BY <1>1, FS_Interval
<1>9. rank \in Surjection(F, 1 .. c)
  BY <1>7, <1>8, FS_Injection
<1>10. ASSUME NEW n \in 1 .. c PROVE \E i \in F : Cardinality(below(i)) = n - 1
  <2>1. PICK i \in F : rank[i] = n
    BY <1>9 DEF Surjection
  <2> QED BY <1>2, <2>1
<1>11. ASSUME NEW n \in 1 .. c PROVE (CHOOSE i \in F : Cardinality(below(i)) = n - 1) \in F
  BY <1>10
<1>12. ASSUME NEW i \in F
       PROVE  \E n \in 1 .. c : (CHOOSE x \in F : Cardinality(below(x)) = n - 1) = i
  <2> DEFINE n == Cardinality(below(i)) + 1
             y == CHOOSE x \in F : Cardinality(below(x)) = n - 1
  <2>1. n \in 1 .. c /\ n - 1 = Cardinality(below(i))
    BY <1>1, <1>2
  <2>2. y \in F /\ Cardinality(below(y)) = Cardinality(below(i))
    BY <2>1
  <2>3. y = i
    <3> HIDE DEF y
    <3> QED BY <1>4, <2>2
  <2> QED BY <2>1, <2>3
<1> QED BY <1>1, <1>11, <1>12 DEF below

\* Two lists, one after the other.
LEMMA ImageOfConcatenation ==
  ASSUME NEW S, NEW s \in Seq(S), NEW t \in Seq(S)
  PROVE  s \o t \in Seq(S) /\ Image(s \o t) = Image(s) \cup Image(t)
<1> DEFINE st == s \o t
<1>1. /\ st \in Seq(S) /\ Len(st) = Len(s) + Len(t) /\ Len(s) \in Nat /\ Len(t) \in Nat
      /\ DOMAIN s = 1 .. Len(s) /\ DOMAIN t = 1 .. Len(t) /\ DOMAIN st = 1 .. Len(st)
      /\ \A i \in 1 .. Len(st) : st[i] = IF i <= Len(s) THEN s[i] ELSE t[i - Len(s)]
  OBVIOUS
<1> HIDE DEF st
<1>2. \A i \in DOMAIN s : i \in DOMAIN st /\ st[i] = s[i]
  BY <1>1
<1>3. \A i \in DOMAIN t : i + Len(s) \in DOMAIN st /\ st[i + Len(s)] = t[i]
  BY <1>1
<1>4. \A i \in DOMAIN st : (i \in DOMAIN s /\ st[i] = s[i]) \/ (i - Len(s) \in DOMAIN t /\ st[i] = t[i - Len(s)])
  BY <1>1
<1>5. Image(st) = Image(s) \cup Image(t)
  <2>1. \A x \in Image(st) : x \in Image(s) \cup Image(t)
    BY <1>4 DEF Image
  <2>2. \A x \in Image(s) : x \in Image(st)
    BY <1>2 DEF Image
  <2>3. \A x \in Image(t) : x \in Image(st)
    BY <1>3 DEF Image
  <2> QED BY <2>1, <2>2, <2>3
<1> QED BY <1>1, <1>5 DEF st
-----------------------------------------------------------------------------
(* Qualifiers: an id of the span or of the run becomes a node.             *)

\* All answers are aggregated.
AllLocals ==
  /\ answers \in Documents /\ extractions \in Seq(ExtractedAnswers) /\ Len(extractions) = Len(answers)
  /\ \A k \in DOMAIN answers : extractions[k] = Extracted(k) /\ WellFormed(answers[k])
  /\ Locals = 1 .. Cardinality(Mentions)
  /\ DOMAIN extractions = DOMAIN answers

\* After aggregation the extractions are known.
LEMMA Aggregated ==
  ASSUME FactInv, stage \in {"resolve", "project", "validate", "persisted"}
  PROVE  AllLocals
<1>1. /\ answers \in Documents /\ results \in Seq(EnrichedAnswers) /\ Len(results) = Len(answers)
      /\ extractions \in Seq(ExtractedAnswers) /\ Len(extractions) = Len(answers)
  BY DEF FactInv, EnrichFits, AggregateFits
<1>2. DOMAIN extractions = DOMAIN answers /\ DOMAIN results = DOMAIN answers
  BY <1>1, AnswerFacts
<1>3. Locals = 1 .. Cardinality(Mentions)
  BY <1>1, Offsets, MentionsFinite DEF FactInv, AggregateFits
<1> QED BY <1>1, <1>2, <1>3 DEF FactInv, EnrichFits, AggregateFits, AllLocals

\* A qualifier is rebound to what should be persisted, or has a local id left.
LEMMA RebindFacts ==
  ASSUME AllLocals, NEW k \in DOMAIN answers, NEW w \in Words
  PROVE  /\ Unresolved(Rebind(Mapped(w, k))) =>
              w[1] = "mention" \/ (w[1] = "local" /\ w[2] \notin 1 .. Cardinality(Mentions))
         /\ ~Unresolved(Rebind(Mapped(w, k))) => Rebind(Mapped(w, k)) = Persisted(w, k)
<1> DEFINE total == Cardinality(Mentions)
<1>1. answers \in Documents /\ Locals = 1 .. total /\ total \in Nat
  BY MentionsFinite DEF AllLocals
<1>2. CASE w[1] = "span" /\ w[2] = k /\ w[3] \in 1 .. answers[k].entities
  <2>1. Offset(k) \in Nat /\ Offset(k) + w[3] <= total
    <3>1. w[3] \in 0 .. answers[k].entities
      BY <1>1, <1>2, AnswerFacts
    <3> QED BY <1>1, <3>1, Placed
  <2>2. w[3] \in Nat /\ w[3] > 0
    BY <1>1, <1>2, AnswerFacts
  <2> DEFINE p == Offset(k) + w[3]
  <2>3. p \in Locals /\ Place(<<k, w[3]>>) = p
    BY <1>1, <1>2, <2>1, <2>2, PlaceFacts
  <2>4. Mapped(w, k) = <<"local", p>>
    BY <1>2 DEF Mapped
  <2> HIDE DEF p
  <2>5. Rebind(Mapped(w, k)) = <<"node", ids[p]>>
    BY <2>3, <2>4 DEF Rebind
  <2>6. Persisted(w, k) = <<"node", ids[p]>>
    BY <1>2, <2>3 DEF Persisted, Global
  <2>7. ~Unresolved(Rebind(Mapped(w, k)))
    BY <2>5 DEF Unresolved
  <2> QED BY <2>5, <2>6, <2>7
<1>3. CASE ~(w[1] = "span" /\ w[2] = k /\ w[3] \in 1 .. answers[k].entities)
  <2>1. Mapped(w, k) = w
    BY <1>3 DEF Mapped
  <2>2. CASE w[1] = "local"
    BY <1>1, <1>3, <2>1, <2>2, WordFacts DEF Rebind, Unresolved, Persisted
  <2>3. CASE w[1] # "local"
    BY <1>3, <2>1, <2>3 DEF Rebind, Unresolved, Persisted
  <2> QED BY <2>2, <2>3
<1> QED BY <1>2, <1>3

\* The qualifiers of a row, as they were said and as they are persisted.
LEMMA QualifierFacts ==
  ASSUME AllLocals, NEW f \in Facts
  PROVE  LET said == Fact(f[1], f[2]).qualifiers IN
         /\ DOMAIN said = {"condition", "temporality"} /\ DOMAIN Row(f).qualifiers = DOMAIN said
         /\ \A key \in {"condition", "temporality"} :
              said[key] \in Words /\ Row(f).qualifiers[key] = Mapped(said[key], f[1])
<1> DEFINE r == answers[f[1]].relations[f[2]]
           t == Bound(answers[f[1]], f[2])
<1>1. answers \in Documents /\ f[1] \in DOMAIN answers /\ f[2] \in DOMAIN answers[f[1]].relations
      /\ WellFormed(answers[f[1]])
  BY FactFacts DEF AllLocals
<1>2. r.condition \in Words /\ t \in Words
  BY <1>1, SaidFacts
<1>3. Fact(f[1], f[2]).qualifiers = [condition |-> r.condition, temporality |-> t]
  BY DEF Fact
<1> HIDE DEF r, t
<1>4. Row(f).qualifiers = [condition |-> Mapped(r.condition, f[1]), temporality |-> Mapped(t, f[1])]
  BY <1>3 DEF Row
<1> QED BY <1>2, <1>3, <1>4
-----------------------------------------------------------------------------
(* Projection of a unit.                                                   *)

\* Projecting a unit gives edges of its facts, one for every signature.
LEMMA ProjectedFacts ==
  ASSUME AllLocals, NEW k \in DOMAIN answers
  PROVE  /\ Projected(k) \in Seq(AllEdges)
         /\ \A e \in Image(Projected(k)) : \E f \in FirstFacts : f[1] = k /\ e = EdgeOf(f)
         /\ \A f \in Facts : f[1] = k => \E e \in Image(Projected(k)) : Signature(e) = Signature(EdgeOf(f))
<1> DEFINE rows == extractions[k].relations
           sig(i) == Signature(Edge(k, rows[i]))
           F == {i \in DOMAIN rows : \A j \in 1 .. i - 1 : sig(j) # sig(i)}
           nth(n) == CHOOSE i \in F : Cardinality({j \in F : j < i}) = n - 1
<1>1. PICK m \in Nat : DOMAIN answers[k].relations = 1 .. m
  BY AnswerFacts DEF AllLocals
<1>2. rows = [i \in 1 .. m |-> Row(<<k, i>>)]
  <2>1. extractions[k] = Extracted(k)
    BY DEF AllLocals
  <2>2. Extracted(k).relations = [i \in 1 .. m |-> Row(<<k, i>>)]
    BY <1>1 DEF Extracted
  <2> QED BY <2>1, <2>2
<1>3. ASSUME NEW i \in 1 .. m PROVE <<k, i>> \in Facts /\ Edge(k, rows[i]) = EdgeOf(<<k, i>>)
  <2>1. <<k, i>> \in Facts
    BY <1>1 DEF Facts
  <2>2. rows[i] = Row(<<k, i>>)
    BY <1>2
  <2> HIDE DEF rows
  <2> QED BY <2>1, <2>2 DEF EdgeOf
<1>4. F \subseteq Nat /\ F \subseteq 1 .. m /\ IsFiniteSet(F)
  <2>1. F \subseteq 1 .. m
    BY <1>2
  <2> HIDE DEF F
  <2>2. IsFiniteSet(1 .. m)
    BY FS_Interval, m \in Int
  <2>3. IsFiniteSet(F)
    BY <2>1, <2>2, FS_Subset
  <2> QED BY <2>1, <2>3
<1>5. ASSUME NEW i \in 1 .. m PROVE \E j \in F : sig(j) = sig(i)
  <2> DEFINE T == {j \in 1 .. m : sig(j) = sig(i)}
  <2>1. T \subseteq Nat /\ i \in T
    OBVIOUS
  <2>2. PICK j \in T : \A x \in T : j <= x
    <3> HIDE DEF T
    <3> QED BY <2>1, FirstOne
  <2>3. j \in 1 .. m /\ sig(j) = sig(i)
    BY <2>2
  <2>4. ASSUME NEW x \in 1 .. j - 1 PROVE sig(x) # sig(j)
    <3>1. x \in 1 .. m /\ ~(j <= x)
      BY <2>3
    <3> HIDE DEF sig
    <3> QED BY <2>2, <2>3, <3>1
  <2>5. j \in DOMAIN rows
    BY <1>2, <2>3
  <2> QED BY <2>3, <2>4, <2>5
<1>6. Projected(k) = [n \in 1 .. Cardinality(F) |-> Edge(k, rows[nth(n)])]
  BY DEF Projected
<1>12. ASSUME NEW i \in F PROVE <<k, i>> \in FirstFacts
  <2>1. i \in 1 .. m /\ \A j \in 1 .. i - 1 : sig(j) # sig(i)
    BY <1>4
  <2>2. <<k, i>> \in Facts /\ sig(i) = Signature(EdgeOf(<<k, i>>))
    BY <1>3, <2>1
  <2>3. ASSUME NEW g \in Facts, g[1] = k, g[2] < i PROVE Signature(EdgeOf(g)) # Signature(EdgeOf(<<k, i>>))
    <3>1. g = <<k, g[2]>> /\ g[2] \in 1 .. m
      BY <1>1, <2>3, FactFacts DEF AllLocals
    <3>2. g[2] \in 1 .. i - 1
      BY <2>1, <2>3, <3>1
    <3>3. sig(g[2]) = Signature(EdgeOf(g))
      BY <1>3, <3>1
    <3> HIDE DEF sig, F, rows
    <3> QED BY <2>1, <2>2, <3>2, <3>3
  <2> HIDE DEF sig, F, rows
  <2>4. \A g \in Facts : g[1] = <<k, i>>[1] /\ g[2] < <<k, i>>[2] =>
          Signature(EdgeOf(g)) # Signature(EdgeOf(<<k, i>>))
    BY <2>3
  <2> QED BY <2>2, <2>4 DEF FirstFacts
<1> HIDE DEF F, sig, rows
<1>7. /\ Cardinality(F) \in Nat
      /\ \A n \in 1 .. Cardinality(F) : nth(n) \in F
      /\ \A i \in F : \E n \in 1 .. Cardinality(F) : nth(n) = i
  BY <1>4, Nth
<1> HIDE DEF nth
<1>8. ASSUME NEW n \in 1 .. Cardinality(F)
      PROVE  /\ <<k, nth(n)>> \in Facts /\ <<k, nth(n)>> \in FirstFacts
             /\ Projected(k)[n] = EdgeOf(<<k, nth(n)>>)
  <2>1. nth(n) \in 1 .. m
    BY <1>4, <1>7
  <2>2. Projected(k)[n] = Edge(k, rows[nth(n)])
    BY <1>6
  <2> QED BY <1>3, <1>7, <1>12, <2>1, <2>2
<1>9. Projected(k) \in Seq(AllEdges)
  <2>1. \A n \in 1 .. Cardinality(F) : Projected(k)[n] \in AllEdges
    BY <1>8 DEF AllEdges
  <2>2. Projected(k) = [n \in 1 .. Cardinality(F) |-> Projected(k)[n]]
    BY <1>6
  <2> QED BY <1>7, <2>1, <2>2
<1>10. ASSUME NEW e \in Image(Projected(k)) PROVE \E f \in FirstFacts : f[1] = k /\ e = EdgeOf(f)
  <2>1. PICK n \in 1 .. Cardinality(F) : e = Projected(k)[n]
    BY <1>6 DEF Image
  <2> QED BY <1>8, <2>1
<1>11. ASSUME NEW f \in Facts, f[1] = k
       PROVE  \E e \in Image(Projected(k)) : Signature(e) = Signature(EdgeOf(f))
  <2>1. f = <<k, f[2]>> /\ f[2] \in 1 .. m
    BY <1>1, <1>11, FactFacts DEF AllLocals
  <2>2. PICK i \in F : sig(i) = sig(f[2])
    BY <1>5, <2>1
  <2>3. PICK n \in 1 .. Cardinality(F) : nth(n) = i
    BY <1>7
  <2>4. Projected(k)[n] \in Image(Projected(k)) /\ Projected(k)[n] = Edge(k, rows[i])
    BY <1>6, <2>3 DEF Image
  <2>5. Signature(Edge(k, rows[i])) = Signature(EdgeOf(f))
    <3>1. Edge(k, rows[f[2]]) = EdgeOf(f)
      BY <1>3, <2>1
    <3> QED BY <2>2, <3>1 DEF sig
  <2> QED BY <2>4, <2>5
<1> QED BY <1>9, <1>10, <1>11

LEMMA ProjectStep == FactInv /\ Project => FactInv'
<1> SUFFICES ASSUME FactInv, Project PROVE FactInv'
  OBVIOUS
<1>1. PICK k : k = unit
  OBVIOUS
<1>2. stage = "project" /\ UNCHANGED <<answers, results, extractions, cursor, ids, graph>> /\ graph = {}
  BY DEF Project, FactInv, GraphFits
<1>3. AllLocals
  BY <1>2, Aggregated
<1>4. /\ k \in DOMAIN answers /\ k \in Nat /\ DOMAIN ids = Locals /\ edges \in Seq(AllEdges)
      /\ \A f \in Facts : f[1] < k =>
           /\ \E e \in Image(edges) : Signature(e) = Signature(EdgeOf(f))
           /\ \A q \in Image(Row(f).qualifiers) : ~Unresolved(Rebind(q))
      /\ \A e \in Image(edges) : \E f \in FirstFacts : f[1] < k /\ e = EdgeOf(f)
  BY <1>1, <1>2, <1>3, AnswerFacts DEF FactInv, ProjectFits, AllLocals
<1>5. /\ answers \in Documents /\ Len(extractions) = Len(answers) /\ DOMAIN answers = 1 .. Len(answers)
      /\ Len(answers) \in Nat
  BY <1>3, AnswerFacts DEF AllLocals
<1> DEFINE rows == extractions[k].relations
           qualifiers == UNION {Image(r.qualifiers) : r \in Image(rows)}
<1>6. rows = [i \in DOMAIN answers[k].relations |-> Row(<<k, i>>)]
  <2>1. extractions[k] = Extracted(k)
    BY <1>3, <1>4 DEF AllLocals
  <2>2. Extracted(k).relations = [i \in DOMAIN answers[k].relations |-> Row(<<k, i>>)]
    BY DEF Extracted
  <2> QED BY <2>1, <2>2
<1>7. \A q : q \in qualifiers <=> \E f \in Facts : f[1] = k /\ q \in Image(Row(f).qualifiers)
  <2>1. Image(rows) = {Row(<<k, i>>) : i \in DOMAIN answers[k].relations}
    BY <1>6 DEF Image
  <2>2. \A f \in Facts : f[1] = k => f = <<k, f[2]>> /\ f[2] \in DOMAIN answers[k].relations
    BY <1>5, FactFacts
  <2>3. \A i \in DOMAIN answers[k].relations : <<k, i>> \in Facts
    BY <1>4 DEF Facts
  <2> QED BY <2>1, <2>2, <2>3
<1>8. Locals' = Locals
  BY <1>2 DEF Locals, Image
<1>9. stage' \in {"raised", "project", "validate"} => EnrichFits'
  BY <1>2, SameAnswers DEF FactInv, EnrichFits, WellFormed, Backed
<1>10. stage' \in {"raised", "project", "validate"} => AggregateFits'
  BY <1>2, <1>5, <1>8, SameAnswers DEF FactInv, AggregateFits
<1> HIDE DEF qualifiers
<1>11. CASE \E q \in qualifiers : Unresolved(Rebind(q))
  <2>1. stage' = "raised" /\ UNCHANGED <<unit, edges>>
    BY <1>1, <1>11 DEF Project, qualifiers
  <2>2. PICK f \in Facts, key \in {"condition", "temporality"} :
          f[1] = k /\ Unresolved(Rebind(Mapped(Fact(f[1], f[2]).qualifiers[key], k)))
                   /\ Fact(f[1], f[2]).qualifiers[key] \in Words
                   /\ Fact(f[1], f[2]).qualifiers[key] \in Image(Fact(f[1], f[2]).qualifiers)
    <3>1. PICK f \in Facts : f[1] = k /\ \E q \in Image(Row(f).qualifiers) : Unresolved(Rebind(q))
      BY <1>7, <1>11
    <3> QED BY <1>3, <3>1, QualifierFacts DEF Image
  <2>3. LET w == Fact(f[1], f[2]).qualifiers[key] IN
          w[1] = "mention" \/ (w[1] = "local" /\ w[2] \notin 1 .. Cardinality(Mentions))
    BY <1>3, <1>4, <2>2, RebindFacts
  <2>4. LateFailuresExplained'
    BY <1>2, <2>1, <2>2, <2>3, StillExplained
  <2>5. ProjectFits' /\ GraphFits'
    BY <1>2, <2>1 DEF ProjectFits, GraphFits
  <2> QED BY <1>9, <1>10, <2>1, <2>4, <2>5 DEF FactInv
<1>12. CASE ~(\E q \in qualifiers : Unresolved(Rebind(q)))
  <2>1. /\ edges' = edges \o Projected(k) /\ unit' = k + 1
        /\ stage' = IF k = Len(extractions) THEN "validate" ELSE "project"
    BY <1>1, <1>12 DEF Project, qualifiers
  <2>2. edges' \in Seq(AllEdges) /\ Image(edges') = Image(edges) \cup Image(Projected(k))
    BY <1>3, <1>4, <2>1, ProjectedFacts, ImageOfConcatenation
  <2>3. ASSUME NEW f \in Facts, f[1] < k + 1
        PROVE  /\ \E e \in Image(edges') : Signature(e) = Signature(EdgeOf(f))
               /\ \A q \in Image(Row(f).qualifiers) : ~Unresolved(Rebind(q))
    <3>1. f[1] \in Nat /\ (f[1] < k \/ f[1] = k)
      BY <1>4, <1>5, <2>3, FactFacts
    <3>2. CASE f[1] < k
      BY <1>4, <2>2, <3>2
    <3>3. CASE f[1] = k
      BY <1>3, <1>4, <1>7, <1>12, <2>2, <3>3, ProjectedFacts
    <3> QED BY <3>1, <3>2, <3>3
  <2>4. ASSUME NEW e \in Image(edges') PROVE \E f \in FirstFacts : f[1] < k + 1 /\ e = EdgeOf(f)
    <3>1. \A f \in FirstFacts : f[1] \in Nat
      BY <1>5, FactFacts DEF FirstFacts
    <3>2. CASE e \in Image(edges)
      BY <1>4, <3>1, <3>2
    <3>3. CASE e \in Image(Projected(k))
      <4>1. PICK f \in FirstFacts : f[1] = k /\ e = EdgeOf(f)
        BY <1>3, <1>4, <3>3, ProjectedFacts
      <4> QED BY <1>4, <4>1
    <3> QED BY <2>2, <3>2, <3>3
  <2>5. /\ AllEdges' = AllEdges /\ FirstFacts' = FirstFacts
        /\ \A f : EdgeOf(f)' = EdgeOf(f) /\ Row(f)' = Row(f)
        /\ \A q : Rebind(q)' = Rebind(q)
    BY <1>2, <1>8, SameEdges
  <2>6. ProjectFits'
    <3>1. /\ stage' \in {"project", "validate"}
          /\ stage' = "project" => unit' \in DOMAIN answers'
          /\ stage' = "validate" => unit' = Len(answers') + 1
      BY <1>2, <1>4, <1>5, <2>1
    <3>2. DOMAIN ids' = Locals' /\ edges' \in Seq(AllEdges')
      BY <1>2, <1>4, <1>8, <2>2, <2>5
    <3>3. \A f \in Facts' : f[1] < unit' =>
            /\ \E e \in Image(edges') : Signature(e) = Signature(EdgeOf(f)')
            /\ \A q \in Image(Row(f)'.qualifiers) : ~Unresolved(Rebind(q)')
      BY <1>2, <2>1, <2>3, <2>5, SameAnswers
    <3>4. \A e \in Image(edges') : \E f \in FirstFacts' : f[1] < unit' /\ e = EdgeOf(f)'
      BY <1>2, <2>1, <2>4, <2>5, SameAnswers
    <3> QED BY <3>1, <3>2, <3>3, <3>4 DEF ProjectFits
  <2>7. GraphFits' /\ LateFailuresExplained'
    BY <1>2, <2>1 DEF GraphFits, LateFailuresExplained
  <2> QED BY <1>9, <1>10, <2>1, <2>6, <2>7 DEF FactInv
<1> QED BY <1>11, <1>12
-----------------------------------------------------------------------------
(* The final graph.                                                        *)

\* Deduplication keeps one edge of each signature.
LEMMA EdgeSetFacts ==
  ASSUME NEW S, edges \in Seq(S)
  PROVE  /\ EdgeSet \subseteq Image(edges) /\ IsFiniteSet(EdgeSet)
         /\ \A e \in Image(edges) : \E d \in EdgeSet : Signature(d) = Signature(e)
         /\ \A d, e \in EdgeSet : Signature(d) = Signature(e) => d = e
<1> DEFINE F == {j \in DOMAIN edges : \A m \in 1 .. j - 1 : Signature(edges[m]) # Signature(edges[j])}
<1>1. DOMAIN edges = 1 .. Len(edges) /\ Len(edges) \in Nat
  OBVIOUS
<1>2. EdgeSet = {edges[i] : i \in F} /\ F \subseteq DOMAIN edges
  BY DEF EdgeSet
<1>3. EdgeSet \subseteq Image(edges)
  BY <1>2 DEF Image
<1>4. IsFiniteSet(EdgeSet)
  <2> HIDE DEF F
  <2>1. IsFiniteSet(DOMAIN edges)
    BY <1>1, FS_Interval, Len(edges) \in Int
  <2>2. IsFiniteSet(F)
    BY <1>2, <2>1, FS_Subset
  <2> DEFINE g == [i \in F |-> edges[i]]
  <2>3. g \in Surjection(F, EdgeSet)
    BY <1>2 DEF Surjection
  <2> HIDE DEF g
  <2> QED BY <2>2, <2>3, FS_Surjection
<1>5. ASSUME NEW e \in Image(edges) PROVE \E d \in EdgeSet : Signature(d) = Signature(e)
  <2>1. PICK i \in DOMAIN edges : e = edges[i]
    BY DEF Image
  <2> DEFINE T == {j \in DOMAIN edges : Signature(edges[j]) = Signature(e)}
  <2>2. T \subseteq Nat /\ i \in T
    BY <1>1, <2>1
  <2>3. PICK j \in T : \A x \in T : j <= x
    <3> HIDE DEF T
    <3> QED BY <2>2, FirstOne
  <2>4. j \in 1 .. Len(edges) /\ Signature(edges[j]) = Signature(e)
    BY <1>1, <2>3
  <2>5. ASSUME NEW x \in 1 .. j - 1 PROVE Signature(edges[x]) # Signature(edges[j])
    <3>1. x \in DOMAIN edges /\ ~(j <= x)
      BY <1>1, <2>4
    <3>2. x \notin T
      <4> HIDE DEF T
      <4> QED BY <2>3, <3>1
    <3> QED BY <2>4, <3>1, <3>2
  <2>6. j \in F
    BY <1>1, <2>4, <2>5
  <2> QED BY <1>2, <2>4, <2>6
<1>6. ASSUME NEW i \in F, NEW j \in F, Signature(edges[i]) = Signature(edges[j]) PROVE i = j
  <2>1. i \in 1 .. Len(edges) /\ j \in 1 .. Len(edges)
    BY <1>1
  <2>2. ~(i < j)
    <3> SUFFICES ASSUME i < j PROVE FALSE
      OBVIOUS
    <3>1. i \in 1 .. j - 1
      BY <1>1, <2>1
    <3> QED BY <1>6, <3>1
  <2>3. ~(j < i)
    <3> SUFFICES ASSUME j < i PROVE FALSE
      OBVIOUS
    <3>1. j \in 1 .. i - 1
      BY <1>1, <2>1
    <3> QED BY <1>6, <3>1
  <2> QED BY <1>1, <2>1, <2>2, <2>3
<1>7. \A d, e \in EdgeSet : Signature(d) = Signature(e) => d = e
  <2> HIDE DEF F
  <2> QED BY <1>2, <1>6
<1> QED BY <1>3, <1>4, <1>5, <1>7

\* The ends of a row are local ids of the run.
LEMMA RowFacts ==
  ASSUME AllLocals, NEW f \in Facts
  PROVE  LET fact == Fact(f[1], f[2]) IN
         /\ Row(f).source \in Locals /\ Row(f).source = Place(fact.source)
         /\ Row(f).target \in Locals /\ Row(f).target = Place(fact.target)
         /\ Row(f).raw = fact.raw /\ Row(f).family = fact.family
<1> DEFINE r == answers[f[1]].relations[f[2]]
<1>1. /\ answers \in Documents /\ f[1] \in DOMAIN answers /\ f[2] \in DOMAIN answers[f[1]].relations
      /\ WellFormed(answers[f[1]])
  BY FactFacts DEF AllLocals
<1>2. r.source \in 1 .. answers[f[1]].entities /\ r.target \in 1 .. answers[f[1]].entities
  BY <1>1, SaidFacts
<1>3. ASSUME NEW i \in 1 .. answers[f[1]].entities
      PROVE  Offset(f[1]) + i \in Locals /\ Place(<<f[1], i>>) = Offset(f[1]) + i
  <2>1. i \in 0 .. answers[f[1]].entities /\ i \in Nat /\ i > 0
    BY <1>1, AnswerFacts
  <2>2. Offset(f[1]) \in Nat /\ Offset(f[1]) + i <= Cardinality(Mentions)
    BY <1>1, <2>1, Placed
  <2>3. Cardinality(Mentions) \in Nat /\ Locals = 1 .. Cardinality(Mentions)
    BY <1>1, MentionsFinite DEF AllLocals
  <2> QED BY <1>1, <2>1, <2>2, <2>3, PlaceFacts
<1>4. /\ Fact(f[1], f[2]).source = <<f[1], r.source>> /\ Fact(f[1], f[2]).target = <<f[1], r.target>>
  BY DEF Fact
<1> HIDE DEF r
<1>5. /\ Row(f).source = Offset(f[1]) + r.source /\ Row(f).target = Offset(f[1]) + r.target
      /\ Row(f).raw = Fact(f[1], f[2]).raw /\ Row(f).family = Fact(f[1], f[2]).family
  BY <1>4 DEF Row
<1> QED BY <1>2, <1>3, <1>4, <1>5

\* The projection is complete.
AllProjected ==
  /\ AllLocals /\ DOMAIN ids = Locals /\ edges \in Seq(AllEdges)
  /\ \A f \in Facts : /\ \E e \in Image(edges) : Signature(e) = Signature(EdgeOf(f))
                      /\ \A q \in Image(Row(f).qualifiers) : ~Unresolved(Rebind(q))
  /\ \A e \in Image(edges) : \E f \in FirstFacts : e = EdgeOf(f)

\* When the graph is assembled, every unit is projected.
LEMMA ProjectionComplete ==
  ASSUME FactInv, stage \in {"validate", "persisted"}
  PROVE  AllProjected
<1>1. AllLocals
  BY Aggregated
<1>2. /\ unit = Len(answers) + 1 /\ DOMAIN ids = Locals /\ edges \in Seq(AllEdges)
      /\ \A f \in Facts : f[1] < unit =>
           /\ \E e \in Image(edges) : Signature(e) = Signature(EdgeOf(f))
           /\ \A q \in Image(Row(f).qualifiers) : ~Unresolved(Rebind(q))
      /\ \A e \in Image(edges) : \E f \in FirstFacts : f[1] < unit /\ e = EdgeOf(f)
  BY DEF FactInv, ProjectFits
<1>3. \A f \in Facts : f[1] < unit
  BY <1>1, <1>2, AnswerFacts, FactFacts DEF AllLocals
<1> QED BY <1>1, <1>2, <1>3 DEF AllProjected

\* What the edge of a fact says.
LEMMA EdgeFacts ==
  ASSUME AllProjected, NEW f \in Facts
  PROVE  LET fact == Fact(f[1], f[2])
             e == EdgeOf(f)
         IN /\ e.unit = f[1] /\ e.raw = fact.raw /\ e.family = fact.family
            /\ e.source = Global(fact.source) /\ e.target = Global(fact.target)
            /\ e.source \in Image(ids) /\ e.target \in Image(ids)
            /\ e.qualifiers = [key \in {"condition", "temporality"} |-> Persisted(fact.qualifiers[key], f[1])]
            /\ \A q \in Image(e.qualifiers) : q[1] \notin {"local", "mention"}
<1> DEFINE said == Fact(f[1], f[2]).qualifiers
           row == Row(f).qualifiers
           Keys == {"condition", "temporality"}
<1>1. AllLocals /\ f[1] \in DOMAIN answers
  BY FactFacts DEF AllProjected, AllLocals
<1>2. /\ EdgeOf(f).unit = f[1] /\ EdgeOf(f).raw = Row(f).raw /\ EdgeOf(f).family = Row(f).family
      /\ EdgeOf(f).source = ids[Row(f).source] /\ EdgeOf(f).target = ids[Row(f).target]
      /\ EdgeOf(f).qualifiers = [q \in DOMAIN row |-> Rebind(row[q])]
  BY DEF EdgeOf, Edge
<1>3. /\ EdgeOf(f).raw = Fact(f[1], f[2]).raw /\ EdgeOf(f).family = Fact(f[1], f[2]).family
      /\ EdgeOf(f).source = Global(Fact(f[1], f[2]).source) /\ EdgeOf(f).target = Global(Fact(f[1], f[2]).target)
      /\ EdgeOf(f).source \in Image(ids) /\ EdgeOf(f).target \in Image(ids)
  BY <1>1, <1>2, RowFacts DEF Global, Image, AllProjected
<1>4. DOMAIN row = Keys
  BY <1>1, QualifierFacts
<1>5. ASSUME NEW key \in Keys
      PROVE  Rebind(row[key]) = Persisted(said[key], f[1]) /\ ~Unresolved(Rebind(row[key]))
  <2>1. said[key] \in Words /\ row[key] = Mapped(said[key], f[1])
    BY <1>1, QualifierFacts
  <2>2. ~Unresolved(Rebind(row[key]))
    BY <1>4 DEF AllProjected, Image
  <2> HIDE DEF row, said
  <2> QED BY <1>1, <2>1, <2>2, RebindFacts
<1> HIDE DEF row, said, Keys
<1>6. EdgeOf(f).qualifiers = [key \in Keys |-> Persisted(said[key], f[1])]
  BY <1>2, <1>4, <1>5
<1>7. ASSUME NEW q \in Image(EdgeOf(f).qualifiers) PROVE q[1] \notin {"local", "mention"}
  <2>1. PICK key \in Keys : q = Rebind(row[key])
    BY <1>2, <1>4 DEF Image
  <2> QED BY <1>5, <2>1 DEF Unresolved
<1> QED BY <1>2, <1>3, <1>6, <1>7 DEF said, Keys

\* A graph is refused for a blank relation only.
LEMMA ContractHolds ==
  ASSUME AllProjected, \A f \in Facts : Fact(f[1], f[2]).raw # "blank"
  PROVE  Contract(Nodes, EdgeSet)
<1> DEFINE node(x) == [entity |-> x, mentions |-> {n \in Locals : ids[n] = x},
                       evidence |-> {k \in DOMAIN extractions :
                                       \E n \in Image(extractions[k].entities) : ids[n] = x}]
<1>0. Nodes = {node(x) : x \in Image(ids)} /\ \A x : node(x).entity = x
  BY DEF Nodes
<1> HIDE DEF node
<1>1. \A a, b \in Nodes : a.entity = b.entity => a = b
  BY <1>0
<1>2. EdgeSet \subseteq Image(edges) /\ \A a, b \in EdgeSet : Signature(a) = Signature(b) => a = b
  BY EdgeSetFacts DEF AllProjected
<1>3. Image(ids) = {n.entity : n \in Nodes}
  BY <1>0
<1>4. ASSUME NEW e \in EdgeSet
      PROVE  /\ {e.source, e.target} \subseteq {n.entity : n \in Nodes}
             /\ e.raw # "blank"
             /\ \A q \in Image(e.qualifiers) : q[1] \notin {"local", "mention"}
  <2>1. PICK f \in Facts : e = EdgeOf(f)
    BY <1>2 DEF AllProjected, FirstFacts
  <2>2. /\ e.source \in Image(ids) /\ e.target \in Image(ids) /\ e.raw = Fact(f[1], f[2]).raw
        /\ \A q \in Image(e.qualifiers) : q[1] \notin {"local", "mention"}
    BY <2>1, EdgeFacts
  <2> QED BY <1>3, <2>2
<1>5. \A n \in Nodes : n.evidence \subseteq DOMAIN answers
  <2>1. \A n \in Nodes : n.evidence \subseteq DOMAIN extractions
    BY DEF Nodes
  <2> QED BY <2>1 DEF AllProjected, AllLocals
<1> QED BY <1>1, <1>2, <1>4, <1>5 DEF Contract

LEMMA ValidateStep == FactInv /\ Validate => FactInv'
<1> SUFFICES ASSUME FactInv, Validate PROVE FactInv'
  OBVIOUS
<1>1. /\ stage = "validate" /\ UNCHANGED <<answers, results, extractions, cursor, ids, unit, edges>>
      /\ stage' \in {"persisted", "terminalFailure"} /\ graph = {}
  BY DEF Validate, FactInv, GraphFits
<1>2. AllProjected
  BY <1>1, ProjectionComplete
<1>3. Locals' = Locals
  BY <1>1 DEF Locals, Image
<1>4. EnrichFits' /\ AggregateFits'
  <2>1. EnrichFits'
    BY <1>1, SameAnswers DEF FactInv, EnrichFits, WellFormed, Backed
  <2>2. AggregateFits'
    BY <1>1, <1>3, SameAnswers DEF FactInv, AggregateFits
  <2> QED BY <2>1, <2>2
<1>5. ProjectFits'
  <2>1. /\ AllEdges' = AllEdges /\ Facts' = Facts /\ FirstFacts' = FirstFacts
        /\ \A f : EdgeOf(f)' = EdgeOf(f) /\ Row(f)' = Row(f)
        /\ \A q : Rebind(q)' = Rebind(q)
    BY <1>1, <1>3, SameAnswers, SameEdges
  <2> QED BY <1>1, <1>3, <2>1 DEF FactInv, ProjectFits
<1>6. CASE Contract(Nodes, EdgeSet)
  <2>1. graph' = {[nodes |-> Nodes, edges |-> EdgeSet]} /\ stage' = "persisted"
    BY <1>6 DEF Validate
  <2>2. Nodes' = Nodes /\ EdgeSet' = EdgeSet
    BY <1>1, <1>3 DEF Nodes, EdgeSet, Signature, Image
  <2>3. GraphFits' /\ LateFailuresExplained'
    BY <2>1, <2>2 DEF GraphFits, LateFailuresExplained
  <2> QED BY <1>4, <1>5, <2>3 DEF FactInv
<1>7. CASE ~Contract(Nodes, EdgeSet)
  <2>1. graph' = graph /\ stage' = "terminalFailure"
    BY <1>7 DEF Validate
  <2>2. \E f \in Facts : Fact(f[1], f[2]).raw = "blank"
    BY <1>2, <1>7, ContractHolds
  <2>3. GraphFits' /\ LateFailuresExplained'
    BY <1>1, <2>1, <2>2, StillExplained DEF GraphFits
  <2> QED BY <1>4, <1>5, <2>3 DEF FactInv
<1> QED BY <1>6, <1>7

\* Every stage from the answers to the graph keeps FactInv: enrichment,
\* aggregation, resolution, projection and validation
\* (production_runner.py:200-230 and 317-372).
THEOREM FactInvariant == Spec => []FactInv
<1>1. FactInv /\ UNCHANGED vars => FactInv'
  <2> SUFFICES ASSUME FactInv, UNCHANGED vars PROVE FactInv'
    OBVIOUS
  <2>1. /\ answers' = answers /\ stage' = stage /\ results' = results /\ extractions' = extractions
        /\ cursor' = cursor /\ ids' = ids /\ unit' = unit /\ edges' = edges /\ graph' = graph
    BY DEF vars
  <2>2. Locals' = Locals
    BY <2>1 DEF Locals, Image
  <2>3. EnrichFits'
    BY <2>1, SameAnswers DEF FactInv, EnrichFits, WellFormed, Backed
  <2>4. AggregateFits'
    BY <2>1, <2>2, SameAnswers DEF FactInv, AggregateFits
  <2>5. ProjectFits'
    <3>1. /\ AllEdges' = AllEdges /\ Facts' = Facts /\ FirstFacts' = FirstFacts
          /\ \A f : EdgeOf(f)' = EdgeOf(f) /\ Row(f)' = Row(f)
          /\ \A q : Rebind(q)' = Rebind(q)
      BY <2>1, <2>2, SameAnswers, SameEdges
    <3> QED BY <2>1, <2>2, <3>1 DEF FactInv, ProjectFits
  <2>6. Nodes' = Nodes /\ EdgeSet' = EdgeSet
    BY <2>1, <2>2 DEF Nodes, EdgeSet, Signature, Image
  <2>7. GraphFits'
    BY <2>1, <2>6 DEF FactInv, GraphFits
  <2>8. LateFailuresExplained'
    BY <2>1, StillExplained DEF FactInv, LateFailuresExplained
  <2> QED BY <2>3, <2>4, <2>5, <2>7, <2>8 DEF FactInv
<1>2. FactInv /\ [Next]_vars => FactInv'
  BY <1>1, EnrichStep, AggregateStep, ResolveStep, ProjectStep, ValidateStep DEF Next
<1> QED BY FactInit, <1>2, PTL DEF Spec

\* What the workers accepted fails later for four causes only: too many
\* mentions (span_extraction.py:24), a relation longer than a description may be
\* (span_extraction.py:44, prompts/contracts.py:44), a local id in a qualifier that no node
\* answers to (production_projection.py:37), a blank relation
\* (final_graph_contract.py:75).
THEOREM LateFailuresAlwaysExplained == Spec => []LateFailuresExplained
<1>1. FactInv => LateFailuresExplained
  BY DEF FactInv
<1> QED BY <1>1, FactInvariant, PTL

\* The edge of a fact is what the fact says.
LEMMA EdgeSays ==
  ASSUME AllProjected, NEW f \in Facts
  PROVE  EdgeOf(f) = SaidBy(f)
<1> DEFINE e == EdgeOf(f)
           x == SaidBy(f)
<1>1. /\ e.unit = x.unit /\ e.raw = x.raw /\ e.source = x.source /\ e.target = x.target
      /\ e.family = x.family /\ e.qualifiers = x.qualifiers
  BY EdgeFacts DEF SaidBy
<1>2. e = [unit |-> e.unit, source |-> e.source, target |-> e.target, raw |-> e.raw,
           family |-> e.family, qualifiers |-> e.qualifiers]
  BY DEF EdgeOf, Edge
<1>3. x = [unit |-> x.unit, source |-> x.source, target |-> x.target, raw |-> x.raw,
           family |-> x.family, qualifiers |-> x.qualifiers]
  BY DEF SaidBy
<1> HIDE DEF e, x
<1>4. e = x
  BY <1>1, <1>2, <1>3
<1> QED BY <1>4 DEF e, x

\* Facts have the same signature when they say the same but for the family.
LEMMA SameButFamily ==
  ASSUME AllProjected, NEW f \in Facts, NEW g \in Facts
  PROVE  Signature(EdgeOf(g)) = Signature(EdgeOf(f)) <=> ButFamily(g) = ButFamily(f)
<1> DEFINE but(x) == [unit |-> x.unit, source |-> x.source, target |-> x.target, raw |-> x.raw,
                      family |-> "any", qualifiers |-> x.qualifiers]
<1>1. ASSUME NEW h \in Facts PROVE ButFamily(h) = but(EdgeOf(h))
  <2> DEFINE x == SaidBy(h)
  <2>1. x = [unit |-> x.unit, source |-> x.source, target |-> x.target, raw |-> x.raw,
             family |-> x.family, qualifiers |-> x.qualifiers]
    BY DEF SaidBy
  <2>2. ButFamily(h) = [x EXCEPT !.family = "any"]
    BY DEF ButFamily
  <2> HIDE DEF x
  <2>3. ButFamily(h) = but(x)
    BY <2>1, <2>2
  <2> QED BY <2>3, EdgeSays DEF x
<1>2. ASSUME NEW d, NEW e, Signature(d) = Signature(e) PROVE but(d) = but(e)
  BY <1>2 DEF Signature
<1>3. ASSUME NEW d, NEW e, but(d) = but(e) PROVE Signature(d) = Signature(e)
  <2>1. /\ but(d).unit = but(e).unit /\ but(d).source = but(e).source /\ but(d).target = but(e).target
        /\ but(d).raw = but(e).raw /\ but(d).qualifiers = but(e).qualifiers
    BY <1>3
  <2> QED BY <2>1 DEF Signature
<1> HIDE DEF but
<1> QED BY <1>1, <1>2, <1>3

\* The persisted edges are what the answers say, each once, the family included;
\* of facts of a span that differ in the family alone the first is kept
\* (span_extraction.py:16-48, production_projection.py:43-77).
THEOREM EdgesAlwaysFacts == Spec => []EdgesAreFacts
<1>1. FactInv => EdgesAreFacts
  <2> SUFFICES ASSUME FactInv, NEW g \in graph PROVE g.edges = {SaidBy(f) : f \in Firsts}
    BY DEF EdgesAreFacts
  <2>1. stage = "persisted" /\ g.edges = EdgeSet
    BY DEF FactInv, GraphFits
  <2>2. AllProjected
    BY <2>1, ProjectionComplete
  <2>3. Firsts = FirstFacts
    BY <2>2, SameButFamily DEF Firsts, FirstFacts
  <2>4. /\ EdgeSet \subseteq Image(edges)
        /\ \A e \in Image(edges) : \E d \in EdgeSet : Signature(d) = Signature(e)
    BY <2>2, EdgeSetFacts DEF AllProjected
  <2>5. ASSUME NEW e \in EdgeSet PROVE \E f \in FirstFacts : e = EdgeOf(f)
    BY <2>2, <2>4 DEF AllProjected
  <2>6. ASSUME NEW f \in FirstFacts PROVE EdgeOf(f) \in EdgeSet
    <3>1. f \in Facts
      BY DEF FirstFacts
    <3>2. PICK e \in Image(edges) : Signature(e) = Signature(EdgeOf(f))
      BY <2>2, <3>1 DEF AllProjected
    <3>3. PICK d \in EdgeSet : Signature(d) = Signature(EdgeOf(f))
      BY <2>4, <3>2
    <3>4. PICK h \in FirstFacts : d = EdgeOf(h)
      BY <2>5
    <3>5. h \in Facts /\ h[1] = f[1]
      <4>1. h \in Facts
        BY DEF FirstFacts
      <4>2. EdgeOf(h).unit = EdgeOf(f).unit
        BY <3>3, <3>4 DEF Signature
      <4> QED BY <2>2, <3>1, <4>1, <4>2, EdgeFacts
    <3>6. ~(h[2] < f[2]) /\ ~(f[2] < h[2])
      BY <3>1, <3>3, <3>4, <3>5 DEF FirstFacts
    <3>7. /\ f = <<f[1], f[2]>> /\ h = <<h[1], h[2]>> /\ f[2] \in Nat /\ h[2] \in Nat
      BY <2>2, <3>1, <3>5, FactFacts, AnswerFacts DEF AllProjected, AllLocals
    <3>8. h[2] = f[2]
      BY <3>6, <3>7
    <3> QED BY <3>4, <3>5, <3>7, <3>8
  <2>7. \A f \in FirstFacts : SaidBy(f) = EdgeOf(f)
    BY <2>2, EdgeSays DEF FirstFacts
  <2>8. EdgeSet = {SaidBy(f) : f \in FirstFacts}
    <3>1. \A e \in EdgeSet : e \in {SaidBy(f) : f \in FirstFacts}
      BY <2>5, <2>7
    <3>2. \A f \in FirstFacts : SaidBy(f) \in EdgeSet
      BY <2>6, <2>7
    <3> QED BY <3>1, <3>2
  <2> QED BY <2>1, <2>3, <2>8
<1> QED BY <1>1, FactInvariant, PTL

\* Every mention is in one node, whose evidence is the spans of its mentions
\* (production_runner.py:41-48).
THEOREM FactGraphAlwaysInv == Spec => []FactGraphInv
<1>1. FactInv => FactGraphTypeOK
  <2> SUFFICES ASSUME FactInv PROVE FactGraphTypeOK
    OBVIOUS
  <2>1. /\ Locals = 1 .. cursor - 1 /\ cursor - 1 <= LastLocalId
        /\ cursor = Offset(Len(extractions) + 1) + 1
        /\ answers \in Documents /\ extractions \in Seq(ExtractedAnswers)
        /\ Len(extractions) <= Len(results) /\ Len(results) <= Len(answers) /\ results \in Seq(EnrichedAnswers)
    BY DEF FactInv, AggregateFits, EnrichFits
  <2>2. Offset(Len(extractions) + 1) \in Nat
    <3>1. Len(extractions) \in Nat /\ Len(results) \in Nat
      BY <2>1
    <3>2. CASE Len(extractions) = 0
      BY <2>1, <3>2, Offsets
    <3>3. CASE Len(extractions) > 0
      <4>1. Len(extractions) \in DOMAIN answers
        BY <2>1, <3>1, <3>3, AnswerFacts
      <4> QED BY <2>1, <4>1, AnswerFacts, Offsets
    <3> QED BY <3>1, <3>2, <3>3
  <2>3. Cardinality(Locals) = cursor - 1
    <3>1. PICK n \in Nat : n = Offset(Len(extractions) + 1)
      BY <2>2
    <3>2. cursor - 1 = n
      BY <2>1, <3>1
    <3>3. Cardinality(1 .. n) = n
      BY FS_Interval
    <3> QED BY <2>1, <3>2, <3>3
  <2>4. Locals \subseteq 1 .. LastLocalId
    BY <2>1, <2>2, LastAssumption
  <2> QED BY <2>3, <2>4 DEF FactInv, GraphFits, FactGraphTypeOK
<1>2. FactInv => NodesCoverMentions
  <2> SUFFICES ASSUME FactInv, NEW g \in graph
               PROVE  /\ \A m \in Mentions :
                           Cardinality({n \in g.nodes : Place(m) \in n.mentions /\ m[1] \in n.evidence}) = 1
                      /\ \A n \in g.nodes : n.mentions # {} /\ n.evidence # {}
    BY DEF NodesCoverMentions
  <2>1. stage = "persisted" /\ g.nodes = Nodes
    BY DEF FactInv, GraphFits
  <2>2. AllLocals /\ DOMAIN ids = Locals /\ answers \in Documents
    BY <2>1, ProjectionComplete DEF AllProjected, AllLocals
  <2> DEFINE node(x) == [entity |-> x, mentions |-> {n \in Locals : ids[n] = x},
                         evidence |-> {k \in DOMAIN extractions :
                                         \E n \in Image(extractions[k].entities) : ids[n] = x}]
  <2>3. Nodes = {node(x) : x \in Image(ids)}
    BY DEF Nodes
  <2>4. ASSUME NEW m \in Mentions
        PROVE  Cardinality({n \in Nodes : Place(m) \in n.mentions /\ m[1] \in n.evidence}) = 1
    <3>1. m = <<m[1], m[2]>> /\ m[1] \in DOMAIN answers /\ m[2] \in 1 .. answers[m[1]].entities
      BY <2>2, MentionFacts
    <3>2. Place(m) = Offset(m[1]) + m[2]
      BY <2>2, <3>1, PlaceFacts
    <3>3. Place(m) \in Image(extractions[m[1]].entities) /\ m[1] \in DOMAIN extractions
      <4>1. extractions[m[1]] = Extracted(m[1]) /\ m[1] \in DOMAIN extractions
        BY <2>2, <3>1 DEF AllLocals
      <4>2. Place(m) \in Image(Extracted(m[1]).entities)
        BY <3>1, <3>2 DEF Extracted, Image
      <4> QED BY <4>1, <4>2
    <3>4. Place(m) \in Locals
      BY <3>3 DEF Locals
    <3> DEFINE x == ids[Place(m)]
    <3>5. x \in Image(ids)
      BY <2>2, <3>4 DEF Image
    <3>6. \A n \in Nodes : (Place(m) \in n.mentions /\ m[1] \in n.evidence) <=> n = node(x)
      BY <2>3, <3>3, <3>4
    <3>7. {n \in Nodes : Place(m) \in n.mentions /\ m[1] \in n.evidence} = {node(x)}
      <4> HIDE DEF node
      <4> QED BY <2>3, <3>5, <3>6
    <3> QED BY <3>7, FS_Singleton
  <2>5. ASSUME NEW n \in Nodes PROVE n.mentions # {} /\ n.evidence # {}
    <3>1. PICK p \in Locals : n = node(ids[p])
      BY <2>2, <2>3 DEF Image
    <3>2. PICK k \in DOMAIN extractions : p \in Image(extractions[k].entities)
      BY DEF Locals
    <3>3. p \in node(ids[p]).mentions /\ k \in node(ids[p]).evidence
      BY <3>2
    <3> QED BY <3>1, <3>3
  <2> QED BY <2>1, <2>4, <2>5
<1> QED BY <1>1, <1>2, FactInvariant, PTL DEF FactGraphInv
=============================================================================
