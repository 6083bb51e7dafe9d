--------------------------- MODULE EvidenceSpans ---------------------------
(***************************************************************************)
(* split_unit_spans and sentence_spans (src/runtime/production_inputs.py): *)
(* a document is read line by line into paragraph units, and every unit    *)
(* character by character into evidence spans.                             *)
(*                                                                         *)
(* Positions count from 1 and ranges include both ends: the offsets        *)
(* [a, b) of the code are the positions a + 1 .. b.                        *)
(***************************************************************************)
EXTENDS Naturals, Sequences

CONSTANTS
  Texts,     \* the documents
  Spaces,    \* the characters that are white space, line ends among them
  LineEnds,  \* what splitlines ends a line at
  Stops,     \* ! and ?, which always end a sentence
  Period     \* which ends one at the end of a unit or before white space

ASSUME CharactersAssumption ==
  LineEnds \subseteq Spaces /\ Spaces \cap Stops = {} /\ Period \notin Spaces

\* A document is a sequence of characters.
ASSUME TextsAssumption ==
  \A t \in Texts : Len(t) \in Nat /\ DOMAIN t = 1 .. Len(t)

VARIABLES
  text,      \* the document
  pass,      \* "units", "spans", "done" or "failed"
  lineStart, \* the first position of the line being read
  open,      \* the paragraph being read: none or one range
  units,     \* the finished paragraphs
  paragraph, \* the unit being scanned
  index,     \* the character being scanned
  start,     \* where the sentence being scanned begins
  spans      \* the finished spans, each with its unit

splitVars == <<text, pass, lineStart, open, units, paragraph, index, start, spans>>

Positions == 1 .. Len(text)
Visible == {k \in Positions : text[k] \notin Spaces}

Stretch(a, b) == [first |-> a, last |-> b]
\* _trimmed_bounds, and the first and last visible character of a line.
Trimmed(a, b) ==
  {r \in [first : a .. b, last : a .. b] :
     /\ {r.first, r.last} \subseteq Visible
     /\ \A k \in Visible \cap (a .. b) : k \in r.first .. r.last}

SplitInit ==
  /\ text \in Texts
  /\ pass = "units" /\ lineStart = 1 /\ open = {} /\ units = <<>>
  /\ paragraph = 1 /\ index = 1 /\ start = 1 /\ spans = <<>>
-----------------------------------------------------------------------------
(* Paragraphs.                                                             *)

\* The line being read ends with a line end, or with the document.
IsLine(last) ==
  /\ last \in lineStart .. Len(text)
  /\ last = Len(text) \/ text[last] \in LineEnds
  /\ \A k \in lineStart .. last - 1 : text[k] \notin LineEnds

\* A blank line ends the open paragraph.
Closed == open

NextLine(last) == last + 1

ReadLine ==
  /\ pass = "units"
  /\ \E last \in Positions :
       /\ IsLine(last)
       /\ lineStart' = NextLine(last)
       /\ IF Trimmed(lineStart, last) # {}
          THEN /\ open' = {Stretch(IF open = {} THEN r.first ELSE (CHOOSE o \in open : TRUE).first, r.last)
                           : r \in Trimmed(lineStart, last)}
               /\ UNCHANGED units
          ELSE /\ open' = open \ Closed
               /\ units' = IF Closed = {} THEN units ELSE Append(units, CHOOSE o \in Closed : TRUE)
  /\ UNCHANGED <<text, pass, paragraph, index, start, spans>>

AllUnits == IF open = {} THEN units ELSE Append(units, CHOOSE o \in open : TRUE)

\* A document without a unit is refused.
EndOfText ==
  /\ pass = "units" /\ lineStart > Len(text)
  /\ units' = AllUnits
  /\ pass' = IF units' = <<>> THEN "failed" ELSE "spans"
  /\ open' = {}
  /\ index' = IF units' = <<>> THEN index ELSE units'[1].first
  /\ start' = index'
  /\ UNCHANGED <<text, lineStart, paragraph, spans>>
-----------------------------------------------------------------------------
(* Sentences.                                                              *)

\* Whether a text that ends at position last has a sentence end at k.
Boundary(k, last) ==
  \/ text[k] \in Stops
  \/ text[k] = Period /\ (k = last \/ text[k + 1] \in Spaces)

\* The span of a sentence, when it is not blank.
Spanned(a, b) ==
  IF Trimmed(a, b) = {} THEN spans
  ELSE Append(spans, [unit |-> paragraph, range |-> CHOOSE r \in Trimmed(a, b) : TRUE])

\* Mutant: the next sentence begins where this one did.
NextStart_Kept == start

NextStart == index + 1

ScanCharacter ==
  /\ pass = "spans" /\ paragraph \in DOMAIN units /\ index <= units[paragraph].last
  /\ IF Boundary(index, units[paragraph].last)
     THEN spans' = Spanned(start, index) /\ start' = NextStart
     ELSE UNCHANGED <<spans, start>>
  /\ index' = index + 1
  /\ UNCHANGED <<text, pass, lineStart, open, units, paragraph>>

\* Mutant: what follows the last sentence end of a unit is left out.
LastSentence_Dropped == spans

LastSentence == Spanned(start, units[paragraph].last)

\* The rest of the unit after its last sentence end; then the next unit.
EndOfUnit ==
  /\ pass = "spans" /\ paragraph \in DOMAIN units /\ index > units[paragraph].last
  /\ spans' = LastSentence
  /\ paragraph' = paragraph + 1
  /\ IF paragraph' \in DOMAIN units
     THEN index' = units[paragraph'].first /\ UNCHANGED pass
     ELSE UNCHANGED index /\ pass' = "done"
  /\ start' = index'
  /\ UNCHANGED <<text, lineStart, open, units>>

SplitStep == ReadLine \/ EndOfText \/ ScanCharacter \/ EndOfUnit

SplitNext == SplitStep \/ (pass \in {"done", "failed"} /\ UNCHANGED splitVars)

SplitSpec == SplitInit /\ [][SplitNext]_splitVars
-----------------------------------------------------------------------------
In(k, r) == k \in r.first .. r.last

SpansTypeOK ==
  /\ pass \in {"units", "spans", "done", "failed"}
  /\ \A i \in DOMAIN units : units[i] \in [first : Visible, last : Visible]
  /\ \A i \in DOMAIN spans : /\ spans[i].unit \in DOMAIN units
                             /\ spans[i].range \in [first : Visible, last : Visible]
  /\ pass = "failed" => Visible = {}

\* Spans follow each other in document order without touching, each within its
\* unit: an offset names one span, an id is never reused.
SpansInOrder ==
  /\ \A i, j \in DOMAIN spans : i < j => spans[i].range.last < spans[j].range.first
  /\ \A i \in DOMAIN spans :
       LET u == units[spans[i].unit] IN
         u.first <= spans[i].range.first /\ spans[i].range.last <= u.last

\* No visible character is lost: what no span holds, no model is shown.
NothingLost ==
  pass = "done" => \A k \in Visible : \E i \in DOMAIN spans : In(k, spans[i].range)

\* A batch splits the text of a span again and keeps the first part
\* (batch_runner.py:65-70): there is no second part.
ResplitIsIdentity ==
  \A i \in DOMAIN spans :
    LET r == spans[i].range IN \A k \in r.first .. r.last - 1 : ~Boundary(k, r.last)

\* Two paragraphs are never shown to the model as one sentence.
BlankLinesSeparate ==
  \A i \in DOMAIN spans :
    LET r == spans[i].range IN
      \A k, m \in r.first .. r.last :
        k < m /\ text[k] \in LineEnds /\ text[m] \in LineEnds
          => \E v \in Visible : k < v /\ v < m

\* The state invariant of the splitting.
SpansInv == SpansTypeOK /\ SpansInOrder /\ BlankLinesSeparate
=============================================================================
