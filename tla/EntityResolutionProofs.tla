----------------------- MODULE EntityResolutionProofs -----------------------
(***************************************************************************)
(* The nodes of a resolution are the connected components of its MERGE     *)
(* decisions, for every number of entities, every input and every answer   *)
(* of the embedding server.                                                *)
(*                                                                         *)
(* Paths are never followed, so nothing is proved by induction on them: a  *)
(* set of entities is closed under the forest exactly when it is closed    *)
(* under the pairs linked so far, and two roots are told apart by the      *)
(* least set that holds one of them and every entity below its members.    *)
(***************************************************************************)
EXTENDS EntityResolution, FiniteSetTheorems, TLAPS

\* An entity is in the set exactly when its parent is.
BalancedIn(forest, S) == \A i \in Entities : i \in S <=> forest[i] \in S
Balanced(S) == BalancedIn(parent, S)

\* No set closed under the forest separates the two.
TogetherIn(forest, x, y) ==
  \A S \in SUBSET Entities : BalancedIn(forest, S) => (x \in S <=> y \in S)
Together(x, y) == TogetherIn(parent, x, y)

Merges == {p \in decided : Decision(p) = "MERGE"}
Linking == stage \in {"findLeft", "findRight"}
Finding == stage \in {"findLeft", "findRight", "find"}

Root(r) == r \in Entities /\ parent[r] = r

\* Where the finder is, by its stage.
FinderInv ==
  /\ stage \in {"embed", "decide", "next", "findLeft", "findRight", "find", "resolved", "failed"}
  /\ parent \in [Entities -> Entities]
  /\ Finding => at \in Entities
  /\ Linking => pair \in Pairs
  /\ stage = "findLeft" => Together(pair[1], at)
  /\ stage = "findRight" => Root(left) /\ Together(pair[1], left) /\ Together(pair[2], at)
  /\ stage = "find" => Len(ids) < Count /\ Together(Len(ids) + 1, at)

\* Every MERGE decision is to be linked, being linked or linked.
PairsInv ==
  /\ decided \subseteq Pairs
  /\ todo \subseteq Pairs /\ merged \subseteq Pairs
  /\ stage \in {"embed", "decide"} => todo = {}
  /\ stage \in {"embed", "decide"} => merged = {}
  /\ stage \in {"next", "findLeft", "findRight", "find", "resolved"} =>
       Merges = todo \cup merged \cup (IF Linking THEN {pair} ELSE {})
  /\ stage \notin {"embed", "decide", "failed"} => \A p \in Pairs : Explicit(p) => p \in decided
  /\ stage = "resolved" => todo = {} /\ Len(ids) = Count

\* The forest closes the sets that the linked pairs close.
ForestInv == \A S \in SUBSET Entities : Balanced(S) <=> Closed(S, merged)

\* Ids are given to roots one to one, once no pair is left to link.
IdsInv ==
  /\ ids \in Seq([root : Entities, id : Nat])
  /\ Len(ids) <= Count
  /\ stage \in {"embed", "decide"} => ids = <<>>
  /\ ids # <<>> \/ stage = "find" => todo = {} /\ ~Linking
  /\ \A k \in DOMAIN ids : Root(ids[k].root) /\ Together(k, ids[k].root)
  /\ \A j, k \in DOMAIN ids : ids[j].id = ids[k].id <=> ids[j].root = ids[k].root
  /\ \E n \in Nat : {ids[k].id : k \in DOMAIN ids} = 1 .. n

\* The ids of the first entities are always 1, 2, ... without a gap.
DenseInv ==
  \A k \in 0 .. Len(ids) : \E n \in Nat : {ids[j].id : j \in 1 .. k} = 1 .. n

\* Entities have the vectors computed for them.
VectorsInv == vectors = <<>> \/ vectors = [i \in Entities |-> i]

ComponentsInv == FinderInv /\ PairsInv /\ ForestInv /\ IdsInv /\ DenseInv /\ VectorsInv
-----------------------------------------------------------------------------
(* Forests.                                                                *)

\* One turn of the loop of find moves no entity to another tree.
LEMMA HalvedBalance ==
  ASSUME NEW f \in [Entities -> Entities], NEW a \in Entities, f[a] # a,
         NEW S
  PROVE  BalancedIn([f EXCEPT ![a] = f[f[a]]], S) <=> BalancedIn(f, S)
<1> DEFINE g == [f EXCEPT ![a] = f[f[a]]]
<1>1. g[a] = f[f[a]] /\ \A i \in Entities \ {a} : g[i] = f[i]
  OBVIOUS
<1>2. f[a] \in Entities \ {a}
  OBVIOUS
<1>3. ASSUME BalancedIn(f, S) PROVE BalancedIn(g, S)
  BY <1>1, <1>2, <1>3 DEF BalancedIn
<1>4. ASSUME BalancedIn(g, S) PROVE BalancedIn(f, S)
  <2>1. a \in S <=> f[f[a]] \in S
    BY <1>1, <1>4 DEF BalancedIn
  <2>2. f[a] \in S <=> f[f[a]] \in S
    BY <1>1, <1>2, <1>4 DEF BalancedIn
  <2> QED BY <1>1, <1>4, <2>1, <2>2 DEF BalancedIn
<1> QED BY <1>3, <1>4

\* Linking a root joins its tree with the tree it is linked to, and no other.
LEMMA LinkedBalance ==
  ASSUME NEW f \in [Entities -> Entities], NEW a \in Entities, f[a] = a,
         NEW l \in Entities, NEW S
  PROVE  BalancedIn([f EXCEPT ![a] = l], S) <=> (BalancedIn(f, S) /\ (a \in S <=> l \in S))
<1> DEFINE g == [f EXCEPT ![a] = l]
<1>1. g[a] = l /\ \A i \in Entities \ {a} : g[i] = f[i]
  OBVIOUS
<1> QED BY <1>1 DEF BalancedIn

\* Two roots are separated by a balanced set: the least one that holds the
\* first and every entity whose parent it holds.
LEMMA RootsApart ==
  ASSUME NEW f \in [Entities -> Entities],
         NEW r \in Entities, f[r] = r, NEW q \in Entities, f[q] = q, q # r
  PROVE  \E S \in SUBSET Entities : BalancedIn(f, S) /\ r \in S /\ q \notin S
<1> DEFINE Below(T) == r \in T /\ \A y \in Entities : f[y] \in T => y \in T
           S == {z \in Entities : \A T \in SUBSET Entities : Below(T) => z \in T}
<1>1. Below(S)
  <2>1. r \in S
    OBVIOUS
  <2>2. ASSUME NEW y \in Entities, f[y] \in S PROVE y \in S
    <3>1. ASSUME NEW T \in SUBSET Entities, Below(T) PROVE y \in T
      BY <2>2, <3>1
    <3> QED BY <3>1
  <2> QED BY <2>1, <2>2
<1>2. ASSUME NEW T \in SUBSET Entities, Below(T) PROVE S \subseteq T
  BY <1>2
<1> HIDE DEF S
<1>s. S \subseteq Entities
  BY DEF S
<1>3. ASSUME NEW z \in S PROVE f[z] \in S
  <2>1. CASE z = r
    BY <2>1
  <2>2. CASE z # r
    <3> SUFFICES ASSUME f[z] \notin S PROVE FALSE
      OBVIOUS
    <3>1. Below(S \ {z})
      BY <1>1, <2>2
    <3> QED BY <1>2, <1>s, <3>1
  <2> QED BY <2>1, <2>2
<1>4. q \notin S
  <2> SUFFICES ASSUME q \in S PROVE FALSE
    OBVIOUS
  <2>1. Below(S \ {q})
    BY <1>1
  <2> QED BY <1>2, <1>s, <2>1
<1> QED BY <1>1, <1>3, <1>4, <1>s DEF BalancedIn
-----------------------------------------------------------------------------
(* What the steps leave alone.                                             *)

\* Decisions depend on the input and the vectors only.
LEMMA DecisionKept ==
  ASSUME input' = input, vectors' = vectors, NEW p
  PROVE  Decision(p)' = Decision(p) /\ Explicit(p)' = Explicit(p)
<1>1. Explicit(p)' = Explicit(p)
  BY DEF Explicit
<1>2. Distinct(p)' = Distinct(p)
  BY DEF Distinct
<1>3. Relation(p)' = Relation(p)
  BY DEF Relation
<1>4. Similarity(p)' = Similarity(p)
  BY DEF Similarity
<1>5. Compatible(p)' = Compatible(p)
  BY <1>3 DEF Compatible, Families, Neighbours, Incident
<1> QED BY <1>1, <1>2, <1>3, <1>4, <1>5 DEF Decision

\* A turn of the loop: the forest keeps its balanced sets and its roots, and
\* the finder stays in its tree.
Turn ==
  /\ Finding /\ parent[at] # at
  /\ parent' = [parent EXCEPT ![at] = parent[parent[at]]]
  /\ at' = parent[parent[at]]
  /\ UNCHANGED <<input, stage, vectors, decided, todo, merged, pair, left, ids>>

LEMMA TurnKeeps ==
  ASSUME FinderInv, Turn
  PROVE  /\ parent' \in [Entities -> Entities]
         /\ at' \in Entities
         /\ \A S \in SUBSET Entities : BalancedIn(parent', S) <=> BalancedIn(parent, S)
         /\ \A x, y : TogetherIn(parent', x, y) <=> TogetherIn(parent, x, y)
         /\ \A r \in Entities : parent[r] = r => parent'[r] = r
         /\ TogetherIn(parent, at, at')
<1>1. parent \in [Entities -> Entities] /\ at \in Entities
  BY DEF FinderInv, Turn
<1>2. parent' \in [Entities -> Entities] /\ at' \in Entities
  BY <1>1 DEF Turn
<1>3. \A S \in SUBSET Entities : BalancedIn(parent', S) <=> BalancedIn(parent, S)
  BY <1>1, HalvedBalance DEF Turn
<1>6. \A x, y : TogetherIn(parent', x, y) <=> TogetherIn(parent, x, y)
  BY <1>3 DEF TogetherIn
<1>4. \A r \in Entities : parent[r] = r => parent'[r] = r
  BY <1>1 DEF Turn
<1>5. TogetherIn(parent, at, at')
  BY <1>1 DEF TogetherIn, BalancedIn, Turn
<1> QED BY <1>2, <1>3, <1>4, <1>5, <1>6

LEMMA TurnOfLoop == Halve \/ HalveToNumber => Turn
BY DEF Halve, HalveToNumber, Turn, Finding

LEMMA Transitive ==
  ASSUME NEW f, NEW x, NEW y, NEW z, TogetherIn(f, x, y), TogetherIn(f, y, z)
  PROVE  TogetherIn(f, x, z)
BY DEF TogetherIn

LEMMA Reflexive == ASSUME NEW f, NEW x PROVE TogetherIn(f, x, x)
BY DEF TogetherIn

LEMMA PairsOfEntities == \A p \in Pairs : p[1] \in Entities /\ p[2] \in Entities
BY DEF Pairs
-----------------------------------------------------------------------------
(* The steps keep the invariant, one conjunct after the other.             *)

LEMMA FinderInit == Init => FinderInv
BY DEF Init, FinderInv, Finding, Linking

\* The forest is as it was, and so is the finder's place in it.
LEMMA TurnKeepsFinder == ASSUME FinderInv, Turn PROVE FinderInv'
<1>1. /\ parent' \in [Entities -> Entities] /\ at' \in Entities
      /\ \A x, y : TogetherIn(parent', x, y) <=> TogetherIn(parent, x, y)
      /\ \A r \in Entities : parent[r] = r => parent'[r] = r
      /\ TogetherIn(parent, at, at')
  BY TurnKeeps
<1>2. stage' = stage /\ pair' = pair /\ left' = left /\ ids' = ids
  BY DEF Turn
<1>3. stage = "findLeft" => TogetherIn(parent', pair[1], at')
  BY <1>1, Transitive DEF FinderInv, Together
<1>4. stage = "findRight" => /\ left \in Entities /\ parent'[left] = left
                            /\ TogetherIn(parent', pair[1], left)
                            /\ TogetherIn(parent', pair[2], at')
  <2>1. stage = "findRight" => left \in Entities /\ parent[left] = left
    BY DEF FinderInv, Root
  <2>2. stage = "findRight" => TogetherIn(parent', pair[1], left)
    BY <1>1 DEF FinderInv, Together
  <2>3. stage = "findRight" => TogetherIn(parent', pair[2], at')
    BY <1>1, Transitive DEF FinderInv, Together
  <2> QED BY <1>1, <2>1, <2>2, <2>3
<1>5. stage = "find" => Len(ids) < Count /\ TogetherIn(parent', Len(ids) + 1, at')
  BY <1>1, Transitive DEF FinderInv, Together
<1>6. pair \in Pairs \/ ~(stage \in {"findLeft", "findRight"})
  BY DEF FinderInv, Linking
<1>7. stage \in {"embed", "decide", "next", "findLeft", "findRight", "find", "resolved", "failed"}
  BY DEF FinderInv
<1> QED BY <1>1, <1>2, <1>3, <1>4, <1>5, <1>6, <1>7
         DEF FinderInv, Finding, Linking, Root, Together

LEMMA FinderStep == ASSUME FinderInv, PairsInv, IdsInv, [Next]_vars PROVE FinderInv'
<1>1. CASE UNCHANGED vars
  BY <1>1 DEF vars, finder, FinderInv, Finding, Linking, Root, Together
<1>2. CASE Embed \/ EmbeddingFails
  BY <1>2 DEF Embed, EmbeddingFails, finder, FinderInv, Finding, Linking
<1>3. CASE Decide
  BY <1>3 DEF Decide, FinderInv, Finding, Linking
<1>4. CASE NextPair
  <2>1. PICK p \in todo : pair' = p /\ at' = p[1]
    BY <1>4 DEF NextPair
  <2>2. p \in Pairs /\ p[1] \in Entities
    BY PairsOfEntities DEF PairsInv
  <2>3. TogetherIn(parent', pair'[1], at')
    BY <2>1, Reflexive
  <2> QED BY <1>4, <2>1, <2>2, <2>3 DEF NextPair, FinderInv, Finding, Linking, Together
<1>5. CASE Halve
  BY <1>5, TurnOfLoop, TurnKeepsFinder
<1>6. CASE LeftFound
  <2>1. pair \in Pairs /\ at \in Entities /\ TogetherIn(parent, pair[1], at)
    BY <1>6 DEF LeftFound, FinderInv, Finding, Linking, Together
  <2>2. TogetherIn(parent, pair[2], pair[2])
    BY Reflexive
  <2>3. pair[2] \in Entities
    BY <2>1, PairsOfEntities
  <2> QED BY <1>6, <2>1, <2>2, <2>3 DEF LeftFound, FinderInv, Finding, Linking, Together, Root
<1>7. CASE Link
  <2>1. at \in Entities /\ left \in Entities
    BY <1>7 DEF Link, FinderInv, Finding, Root
  <2>2. parent' \in [Entities -> Entities]
    BY <1>7, <2>1 DEF Link, Linked, FinderInv
  <2> QED BY <1>7, <2>2 DEF Link, FinderInv, Finding, Linking
<1>8. CASE NextEntity
  <2>1. Len(ids) \in Nat /\ Len(ids) < Count
    BY <1>8 DEF NextEntity, Numbering, IdsInv
  <2>2. Len(ids) + 1 \in Entities
    BY <2>1, CountAssumption DEF Entities
  <2>3. TogetherIn(parent, Len(ids) + 1, Len(ids) + 1)
    BY Reflexive
  <2> QED BY <1>8, <2>1, <2>2, <2>3 DEF NextEntity, FinderInv, Finding, Linking, Together
<1>9. CASE HalveToNumber
  BY <1>9, TurnOfLoop, TurnKeepsFinder
<1>10. CASE Number
  BY <1>10 DEF Number, FinderInv, Finding, Linking
<1>11. CASE Resolved
  BY <1>11 DEF Resolved, finder, FinderInv, Finding, Linking
<1> QED BY <1>1, <1>2, <1>3, <1>4, <1>5, <1>6, <1>7, <1>8, <1>9, <1>10, <1>11 DEF Next, Resolve

LEMMA PairsInit == Init => PairsInv
BY DEF Init, PairsInv, Linking

\* The decisions stay while neither the input, the vectors nor the pairs change.
LEMMA MergesKept ==
  ASSUME input' = input, vectors' = vectors, decided' = decided
  PROVE  Merges' = Merges
BY DecisionKept DEF Merges

LEMMA PairsStep == ASSUME FinderInv, PairsInv, [Next]_vars PROVE PairsInv'
<1> DEFINE Unresolved == {"embed", "decide", "failed"}
<1>k. ASSUME input' = input, vectors' = vectors, decided' = decided, stage \notin Unresolved
      PROVE  Merges' = Merges /\ \A p \in Pairs : Explicit(p)' => p \in decided'
  BY <1>k, MergesKept, DecisionKept DEF PairsInv
<1>1. CASE UNCHANGED vars
  <2>1. Merges' = Merges /\ \A p \in Pairs : Explicit(p)' <=> Explicit(p)
    BY <1>1, MergesKept, DecisionKept DEF vars
  <2> QED BY <1>1, <2>1 DEF vars, finder, PairsInv, Linking
<1>2. CASE Embed \/ EmbeddingFails
  BY <1>2 DEF Embed, EmbeddingFails, finder, PairsInv, Linking
<1>3. CASE Decide
  <2>1. decided' \subseteq Pairs /\ \A p \in Pairs : Explicit(p) => p \in decided'
    BY <1>3 DEF Decide, Selected
  <2>2. Merges' = todo'
    BY <1>3, DecisionKept DEF Decide, Merges
  <2>3. \A p \in Pairs : Explicit(p)' => p \in decided'
    BY <1>3, <2>1, DecisionKept DEF Decide
  <2> QED BY <1>3, <2>1, <2>2, <2>3 DEF Decide, PairsInv, Linking
<1>4. CASE NextPair
  <2>1. PICK p \in todo : pair' = p /\ todo' = todo \ {p}
    BY <1>4 DEF NextPair
  <2>2. Merges' = Merges /\ \A q \in Pairs : Explicit(q)' => q \in decided'
    BY <1>4, <1>k DEF NextPair
  <2> QED BY <1>4, <2>1, <2>2 DEF NextPair, PairsInv, Linking
<1>5. CASE Turn
  <2>1. stage \notin Unresolved
    BY <1>5 DEF Turn, Finding
  <2>2. Merges' = Merges /\ \A q \in Pairs : Explicit(q)' => q \in decided'
    BY <1>5, <1>k, <2>1 DEF Turn
  <2> QED BY <1>5, <2>1, <2>2 DEF Turn, PairsInv, Linking
<1>6. CASE LeftFound
  <2>2. Merges' = Merges /\ \A q \in Pairs : Explicit(q)' => q \in decided'
    BY <1>6, <1>k DEF LeftFound
  <2> QED BY <1>6, <2>2 DEF LeftFound, PairsInv, Linking
<1>7. CASE Link
  <2>1. pair \in Pairs
    BY <1>7 DEF Link, FinderInv, Linking
  <2>2. Merges' = Merges /\ \A q \in Pairs : Explicit(q)' => q \in decided'
    BY <1>7, <1>k DEF Link
  <2> QED BY <1>7, <2>1, <2>2 DEF Link, PairsInv, Linking
<1>8. CASE NextEntity
  <2>2. Merges' = Merges /\ \A q \in Pairs : Explicit(q)' => q \in decided'
    BY <1>8, <1>k DEF NextEntity, Numbering
  <2> QED BY <1>8, <2>2 DEF NextEntity, Numbering, PairsInv, Linking
<1>10. CASE Number
  <2>2. Merges' = Merges /\ \A q \in Pairs : Explicit(q)' => q \in decided'
    BY <1>10, <1>k DEF Number
  <2> QED BY <1>10, <2>2 DEF Number, PairsInv, Linking
<1>11. CASE Resolved
  <2>2. Merges' = Merges /\ \A q \in Pairs : Explicit(q)' => q \in decided'
    BY <1>11, <1>k DEF Resolved
  <2> QED BY <1>11, <2>2 DEF Resolved, finder, PairsInv, Linking
<1> QED BY <1>1, <1>2, <1>3, <1>4, <1>5, <1>6, <1>7, <1>8, <1>10, <1>11, TurnOfLoop
        DEF Next, Resolve

LEMMA ForestInit == Init => ForestInv
BY DEF Init, ForestInv, Balanced, BalancedIn, Closed

LEMMA ForestStep == ASSUME FinderInv, PairsInv, ForestInv, [Next]_vars PROVE ForestInv'
<1>1. CASE parent' = parent /\ merged' = merged
  BY <1>1 DEF ForestInv, Balanced, Closed
<1>2. CASE Turn
  <2>1. \A S \in SUBSET Entities : BalancedIn(parent', S) <=> BalancedIn(parent, S)
    BY <1>2, TurnKeeps
  <2> QED BY <1>2, <2>1 DEF Turn, ForestInv, Balanced, Closed
<1>3. CASE Link
  <2>1. /\ at \in Entities /\ parent[at] = at /\ left \in Entities
        /\ parent \in [Entities -> Entities]
    BY <1>3 DEF Link, FinderInv, Finding, Root
  <2>2. TogetherIn(parent, pair[1], left) /\ TogetherIn(parent, pair[2], at)
    BY <1>3 DEF Link, FinderInv, Together
  <2>3. ASSUME NEW S \in SUBSET Entities
        PROVE  BalancedIn(parent', S) <=> Closed(S, merged')
    <3>1. BalancedIn(parent', S) <=> (BalancedIn(parent, S) /\ (at \in S <=> left \in S))
      BY <1>3, <2>1, LinkedBalance DEF Link, Linked
    <3>2. BalancedIn(parent, S) <=> Closed(S, merged)
      BY DEF ForestInv, Balanced
    <3>3. BalancedIn(parent, S) => ((at \in S <=> left \in S) <=> (pair[1] \in S <=> pair[2] \in S))
      BY <2>2 DEF TogetherIn
    <3>4. Closed(S, merged') <=> (Closed(S, merged) /\ (pair[1] \in S <=> pair[2] \in S))
      BY <1>3 DEF Link, Closed
    <3> QED BY <3>1, <3>2, <3>3, <3>4
  <2>4. ASSUME NEW S \in SUBSET Entities
        PROVE  Balanced(S)' <=> Closed(S, merged)'
    BY <2>3 DEF Balanced, Closed
  <2> QED BY <2>4 DEF ForestInv
<1>4. CASE Embed \/ EmbeddingFails \/ Decide \/ NextPair \/ LeftFound \/ NextEntity \/ Number \/ Resolved
  BY <1>1, <1>4 DEF Embed, EmbeddingFails, Decide, NextPair, LeftFound, NextEntity, Number, Resolved, finder
<1>5. CASE UNCHANGED vars
  BY <1>1, <1>5 DEF vars, finder
<1> QED BY <1>2, <1>3, <1>4, <1>5, TurnOfLoop DEF Next, Resolve

LEMMA IdsInit == Init => IdsInv
<1> SUFFICES ASSUME Init PROVE IdsInv
  OBVIOUS
<1>1. ids = <<>> /\ stage = "embed" /\ todo = {}
  BY DEF Init
<1>2. {ids[k].id : k \in DOMAIN ids} = 1 .. 0
  BY <1>1
<1> QED BY <1>1, <1>2, CountAssumption DEF IdsInv, Linking

\* Neither the ids nor the roots nor the balanced sets change.
LEMMA IdsKept ==
  ASSUME IdsInv, ids' = ids,
         stage' \in {"embed", "decide"} => stage \in {"embed", "decide"},
         ids # <<>> \/ stage' = "find" => todo' = {} /\ stage' \notin {"findLeft", "findRight"},
         \A r \in Entities : parent[r] = r => parent'[r] = r,
         \A x, y : TogetherIn(parent, x, y) => TogetherIn(parent', x, y)
  PROVE  IdsInv'
<1>1. \A k \in DOMAIN ids : Root(ids[k].root)' /\ Together(k, ids[k].root)'
  BY DEF IdsInv, Root, Together
<1> QED BY <1>1 DEF IdsInv, Linking, Root, Together

\* The ids given so far are 1 .. n, so the fresh one is n + 1.
LEMMA FreshIdIsNext ==
  ASSUME IdsInv
  PROVE  \E n \in Nat : {ids[k].id : k \in DOMAIN ids} = 1 .. n /\ FreshId = n + 1
<1>1. PICK n \in Nat : {ids[k].id : k \in DOMAIN ids} = 1 .. n
  BY DEF IdsInv
<1>2. Cardinality(1 .. n) = n
  BY FS_Interval
<1> QED BY <1>1, <1>2 DEF FreshId

LEMMA NumberKeepsIds == ASSUME FinderInv, IdsInv, Number PROVE IdsInv'
<1> DEFINE new == Len(ids) + 1
           known == {k \in DOMAIN ids : ids[k].root = at}
           id == IF known # {} THEN ids[CHOOSE k \in known : TRUE].id ELSE FreshId
<1>1. /\ at \in Entities /\ parent[at] = at /\ parent' = parent
      /\ Len(ids) < Count /\ TogetherIn(parent, new, at)
      /\ ids' = Append(ids, [root |-> at, id |-> id])
  BY DEF Number, FinderInv, Finding, Together
<1>2. ids \in Seq([root : Entities, id : Nat]) /\ DOMAIN ids = 1 .. Len(ids) /\ Len(ids) \in Nat
  BY DEF IdsInv
<1>3. PICK n \in Nat : {ids[k].id : k \in DOMAIN ids} = 1 .. n /\ FreshId = n + 1
  BY FreshIdIsNext
<1> HIDE DEF id
<1>4. /\ id \in Nat
      /\ \A k \in DOMAIN ids : ids[k].id = id <=> ids[k].root = at
      /\ \E m \in Nat : {ids[k].id : k \in DOMAIN ids} \cup {id} = 1 .. m
  <2>1. CASE known # {}
    <3>1. PICK c \in known : id = ids[c].id
      BY <2>1 DEF id
    <3>2. c \in DOMAIN ids /\ ids[c].root = at
      OBVIOUS
    <3>3. id \in {ids[k].id : k \in DOMAIN ids}
      BY <3>1, <3>2
    <3>4. \A k \in DOMAIN ids : ids[k].id = id <=> ids[k].root = at
      BY <3>1, <3>2 DEF IdsInv
    <3>5. {ids[k].id : k \in DOMAIN ids} \cup {id} = 1 .. n
      BY <1>3, <3>3
    <3>6. id \in Nat
      BY <1>3, <3>3
    <3> QED BY <3>4, <3>5, <3>6
  <2>2. CASE known = {}
    <3>1. id = n + 1
      BY <1>3, <2>2 DEF id
    <3>2. \A k \in DOMAIN ids : ids[k].id \in 1 .. n
      BY <1>3
    <3>3. \A k \in DOMAIN ids : ids[k].id # id /\ ids[k].root # at
      BY <2>2, <3>1, <3>2
    <3>4. {ids[k].id : k \in DOMAIN ids} \cup {id} = 1 .. n + 1
      BY <1>3, <3>1
    <3> QED BY <3>1, <3>3, <3>4
  <2> QED BY <2>1, <2>2
<1>5. /\ ids' \in Seq([root : Entities, id : Nat])
      /\ Len(ids') = new /\ DOMAIN ids' = DOMAIN ids \cup {new} /\ new \notin DOMAIN ids
      /\ \A k \in DOMAIN ids : ids'[k] = ids[k]
      /\ ids'[new] = [root |-> at, id |-> id]
  <2>1. [root |-> at, id |-> id] \in [root : Entities, id : Nat]
    BY <1>1, <1>4
  <2> QED BY <1>1, <1>2, <2>1
<1>6. ids'[new].root = at /\ ids'[new].id = id
  BY <1>5
<1>7. ASSUME NEW k \in DOMAIN ids'
      PROVE  /\ ids'[k].root \in Entities /\ parent'[ids'[k].root] = ids'[k].root
             /\ TogetherIn(parent', k, ids'[k].root)
  <2>1. CASE k \in DOMAIN ids
    BY <1>1, <1>5, <2>1 DEF IdsInv, Root, Together
  <2>2. CASE k = new
    BY <1>1, <1>6, <2>2
  <2> QED BY <1>5, <2>1, <2>2
<1>8. ASSUME NEW j \in DOMAIN ids', NEW k \in DOMAIN ids'
      PROVE  ids'[j].id = ids'[k].id <=> ids'[j].root = ids'[k].root
  <2>1. CASE j \in DOMAIN ids /\ k \in DOMAIN ids
    BY <1>5, <2>1 DEF IdsInv
  <2>2. CASE j \in DOMAIN ids /\ k = new
    BY <1>4, <1>5, <1>6, <2>2
  <2>3. CASE j = new /\ k \in DOMAIN ids
    BY <1>4, <1>5, <1>6, <2>3
  <2>4. CASE j = new /\ k = new
    BY <2>4
  <2> QED BY <1>5, <2>1, <2>2, <2>3, <2>4
<1>9. {ids'[k].id : k \in DOMAIN ids'} = {ids[k].id : k \in DOMAIN ids} \cup {id}
  BY <1>5, <1>6
<1>10. \E m \in Nat : {ids'[k].id : k \in DOMAIN ids'} = 1 .. m
  BY <1>4, <1>9
<1>11. Len(ids') <= Count
  BY <1>1, <1>2, <1>5, CountAssumption
<1>12. todo' = {} /\ stage' = "next"
  BY DEF Number, IdsInv
<1> QED BY <1>5, <1>7, <1>8, <1>10, <1>11, <1>12 DEF IdsInv, Linking, Root, Together

LEMMA IdsStep == ASSUME FinderInv, PairsInv, IdsInv, [Next]_vars PROVE IdsInv'
<1>1. CASE UNCHANGED vars
  BY <1>1, IdsKept DEF vars, finder, IdsInv, Linking
<1>2. CASE Embed \/ EmbeddingFails
  BY <1>2, IdsKept DEF Embed, EmbeddingFails, finder, IdsInv, Linking
<1>3. CASE Decide
  BY <1>3, IdsKept DEF Decide, IdsInv
<1>4. CASE NextPair
  <2>1. ids = <<>>
    BY <1>4 DEF NextPair, IdsInv
  <2> QED BY <1>4, <2>1, IdsKept DEF NextPair
<1>5. CASE Turn
  <2>1. /\ ids' = ids /\ stage' = stage /\ todo' = todo
        /\ stage \in {"findLeft", "findRight", "find"}
    BY <1>5 DEF Turn, Finding
  <2>2. /\ \A r \in Entities : parent[r] = r => parent'[r] = r
        /\ \A x, y : TogetherIn(parent, x, y) => TogetherIn(parent', x, y)
    BY <1>5, TurnKeeps
  <2>3. ids # <<>> \/ stage' = "find" => todo' = {} /\ stage' \notin {"findLeft", "findRight"}
    BY <2>1 DEF IdsInv, Linking
  <2> QED BY <2>1, <2>2, <2>3, IdsKept
<1>6. CASE LeftFound
  <2>1. ids = <<>>
    BY <1>6 DEF LeftFound, IdsInv, Linking
  <2> QED BY <1>6, <2>1, IdsKept DEF LeftFound
<1>7. CASE Link
  <2>1. ids = <<>> /\ ids' = ids /\ stage' = "next"
    BY <1>7 DEF Link, IdsInv, Linking
  <2>2. ids' = <<>> /\ DOMAIN ids' = {}
    BY <2>1
  <2>3. {ids'[k].id : k \in DOMAIN ids'} = 1 .. 0
    BY <2>2
  <2> QED BY <2>1, <2>2, <2>3, CountAssumption DEF IdsInv, Linking
<1>8. CASE NextEntity
  BY <1>8, IdsKept DEF NextEntity, Numbering, IdsInv
<1>10. CASE Number
  BY <1>10, NumberKeepsIds
<1>11. CASE Resolved
  BY <1>11, IdsKept DEF Resolved, finder, IdsInv
<1> QED BY <1>1, <1>2, <1>3, <1>4, <1>5, <1>6, <1>7, <1>8, <1>10, <1>11, TurnOfLoop
        DEF Next, Resolve
LEMMA DenseStep == ASSUME IdsInv, IdsInv', DenseInv, [Next]_vars PROVE DenseInv'
<1>1. CASE ids' = ids
  <2>1. ASSUME NEW k \in 0 .. Len(ids) PROVE \E n \in Nat : {ids'[j].id : j \in 1 .. k} = 1 .. n
    BY <1>1, ZenonT(60) DEF DenseInv
  <2> QED BY <1>1, <2>1 DEF DenseInv
<1>2. CASE Number
  <2>1. PICK e : ids' = Append(ids, e)
    BY <1>2 DEF Number
  <2>2. ids \in Seq([root : Entities, id : Nat]) /\ Len(ids) \in Nat
    BY DEF IdsInv
  <2>3. Len(ids') = Len(ids) + 1 /\ \A j \in 1 .. Len(ids) : ids'[j] = ids[j]
    BY <2>1, <2>2
  <2>4. ASSUME NEW k \in 0 .. Len(ids') PROVE \E n \in Nat : {ids'[j].id : j \in 1 .. k} = 1 .. n
    <3>1. CASE k \in 0 .. Len(ids)
      <4>1. {ids'[j].id : j \in 1 .. k} = {ids[j].id : j \in 1 .. k}
        <5>1. \A j \in 1 .. k : ids'[j].id = ids[j].id
          BY <2>2, <2>3, <3>1
        <5> QED BY <5>1
      <4> QED BY <3>1, <4>1 DEF DenseInv
    <3>2. CASE k = Len(ids')
      <4>1. DOMAIN ids' = 1 .. k
        BY <3>2 DEF IdsInv
      <4> QED BY <4>1 DEF IdsInv
    <3>3. k \in 0 .. Len(ids) \/ k = Len(ids')
      BY <2>2, <2>3
    <3> QED BY <3>1, <3>2, <3>3
  <2> QED BY <2>4 DEF DenseInv
<1>3. CASE UNCHANGED vars
  BY <1>1, <1>3 DEF vars
<1>4. CASE Embed \/ EmbeddingFails \/ Decide \/ NextPair \/ Halve \/ LeftFound \/ Link
           \/ NextEntity \/ HalveToNumber \/ Resolved
  BY <1>1, <1>4 DEF Embed, EmbeddingFails, Decide, NextPair, Halve, LeftFound, Link, NextEntity,
                    HalveToNumber, Resolved
<1> QED BY <1>2, <1>3, <1>4 DEF Next, Resolve

LEMMA DenseInit == Init => DenseInv
<1> SUFFICES ASSUME Init PROVE DenseInv
  OBVIOUS
<1>1. ids = <<>> /\ Len(ids) = 0
  BY DEF Init
<1>2. ASSUME NEW k \in 0 .. Len(ids) PROVE {ids[j].id : j \in 1 .. k} = 1 .. 0
  BY <1>1
<1> QED BY <1>2 DEF DenseInv

\* A response whose indexes are 0 .. Count - 1 carries each of them once.
LEMMA IndexesDiffer ==
  ASSUME NEW data \in Seq(Int), Accepted(data)
  PROVE  /\ data \in [Entities -> 0 .. Count - 1]
         /\ \A j, k \in Entities : data[j] = data[k] => j = k
         /\ \A n \in 0 .. Count - 1 : \E k \in Entities : data[k] = n
<1>1. DOMAIN data = Entities /\ {data[k] : k \in Entities} = 0 .. Count - 1
  BY DEF Accepted, Entities
<1>2. data \in [Entities -> 0 .. Count - 1]
  BY <1>1
<1>3. data \in Surjection(Entities, 0 .. Count - 1)
  BY <1>1, <1>2 DEF Surjection
<1>4. IsFiniteSet(Entities) /\ Cardinality(Entities) = Count
  BY FS_Interval, CountAssumption DEF Entities
<1>5. Cardinality(0 .. Count - 1) = Count
  BY FS_Interval, CountAssumption
<1>6. data \in Injection(Entities, 0 .. Count - 1)
  BY <1>3, <1>4, <1>5, FS_SurjSameCardinalityImpliesInj
<1>7. \A j, k \in Entities : data[j] = data[k] => j = k
  BY <1>6 DEF Injection, IsInjective, Entities
<1>8. \A n \in 0 .. Count - 1 : \E k \in Entities : data[k] = n
  BY <1>1
<1> QED BY <1>2, <1>7, <1>8

\* So as many items have a smaller index as the index says.
LEMMA SmallerIndexes ==
  ASSUME NEW data \in Seq(Int), Accepted(data), NEW k \in Entities
  PROVE  Cardinality({m \in Entities : data[m] < data[k]}) = data[k]
<1> DEFINE S == {m \in Entities : data[m] < data[k]}
           T == 0 .. data[k] - 1
           f == [m \in S |-> data[m]]
<1>1. /\ data \in [Entities -> 0 .. Count - 1]
      /\ \A j, l \in Entities : data[j] = data[l] => j = l
      /\ \A n \in 0 .. Count - 1 : \E l \in Entities : data[l] = n
  BY IndexesDiffer
<1>2. data[k] \in 0 .. Count - 1
  BY <1>1
<1>3. f \in [S -> T]
  BY <1>1, CountAssumption
<1>4. \A n \in T : \E m \in S : f[m] = n
  <2> SUFFICES ASSUME NEW n \in T PROVE \E m \in S : f[m] = n
    OBVIOUS
  <2>1. n \in 0 .. Count - 1 /\ n < data[k]
    BY <1>2, CountAssumption
  <2>2. PICK m \in Entities : data[m] = n
    BY <1>1, <2>1
  <2> QED BY <2>1, <2>2
<1>5. \A j, l \in S : f[j] = f[l] => j = l
  BY <1>1
<1>6. f \in Bijection(S, T)
  <2>1. f \in Injection(S, T)
    BY <1>3, <1>5 DEF Injection, IsInjective
  <2>2. f \in Surjection(S, T)
    BY <1>3, <1>4 DEF Surjection
  <2> QED BY <2>1, <2>2 DEF Bijection
<1>7. IsFiniteSet(S)
  <2>1. IsFiniteSet(Entities)
    BY FS_Interval, CountAssumption DEF Entities
  <2> QED BY <2>1, FS_Subset
<1>8. Cardinality(T) = Cardinality(S)
  BY <1>6, <1>7, FS_Bijection DEF ExistsBijection
<1>9. Cardinality(T) = data[k]
  <2>1. data[k] \in Nat
    BY <1>2, CountAssumption
  <2>2. 0 \in Int /\ data[k] - 1 \in Int
    BY <2>1
  <2>3. Cardinality(T) = IF 0 > data[k] - 1 THEN 0 ELSE data[k] - 1 - 0 + 1
    BY <2>2, FS_Interval
  <2> QED BY <2>1, <2>3
<1> QED BY <1>8, <1>9

\* Sorted by index, item i is the one whose index says i.
LEMMA SortedByIndex ==
  ASSUME NEW data \in Seq(Int), Accepted(data)
  PROVE  Assigned(data) = [i \in Entities |-> i]
<1> DEFINE smaller(k) == {m \in Entities : data[m] < data[k]}
           ranked(i) == CHOOSE k \in Entities : Cardinality(smaller(k)) = i - 1
<1>1. ASSUME NEW i \in Entities PROVE data[ranked(i)] + 1 = i
  <2>1. i - 1 \in 0 .. Count - 1
    BY CountAssumption DEF Entities
  <2>2. PICK k \in Entities : data[k] = i - 1
    BY <2>1, IndexesDiffer
  <2>3. Cardinality(smaller(k)) = i - 1
    BY <2>2, SmallerIndexes
  <2>4. ranked(i) \in Entities /\ Cardinality(smaller(ranked(i))) = i - 1
    BY <2>3
  <2>5. data[ranked(i)] = i - 1
    BY <2>4, SmallerIndexes
  <2>6. i \in Int
    BY DEF Entities
  <2> HIDE DEF ranked
  <2> QED BY <2>5, <2>6
<1> QED BY <1>1 DEF Assigned

LEMMA VectorsStep == ASSUME VectorsInv, [Next]_vars PROVE VectorsInv'
<1>1. CASE vectors' = vectors
  BY <1>1 DEF VectorsInv
<1>2. CASE Embed
  <2>1. PICK data \in Responses :
          IF Accepted(data) THEN vectors' = Assigned(data) ELSE UNCHANGED vectors
    BY <1>2 DEF Embed
  <2>2. data \in Seq(Int)
    BY ResponsesAssumption
  <2> QED BY <1>1, <2>1, <2>2, SortedByIndex DEF VectorsInv
<1>3. CASE UNCHANGED vars
  BY <1>1, <1>3 DEF vars
<1>4. CASE EmbeddingFails \/ Decide \/ NextPair \/ Halve \/ LeftFound \/ Link
           \/ NextEntity \/ HalveToNumber \/ Number \/ Resolved
  BY <1>1, <1>4 DEF EmbeddingFails, Decide, NextPair, Halve, LeftFound, Link, NextEntity,
                    HalveToNumber, Number, Resolved
<1> QED BY <1>2, <1>3, <1>4 DEF Next, Resolve
-----------------------------------------------------------------------------
\* The invariant of the whole run of the resolution: what the finder, the
\* pairs, the forest and the ids say of each other at every step.
THEOREM ResolutionInvariant == Spec => []ComponentsInv
<1>1. Init => ComponentsInv
  <2>1. Init => VectorsInv
    BY DEF Init, VectorsInv
  <2> QED BY <2>1, FinderInit, PairsInit, ForestInit, IdsInit, DenseInit DEF ComponentsInv
<1>2. ComponentsInv /\ [Next]_vars => ComponentsInv'
  BY FinderStep, PairsStep, ForestStep, IdsStep, DenseStep, VectorsStep DEF ComponentsInv
<1> QED BY <1>1, <1>2, PTL DEF Spec

\* Two entities have one id exactly when they have one root, and roots are
\* separated by a set closed under the decisions.
LEMMA NodesByRoots == ComponentsInv => NodesAreComponents
<1> SUFFICES ASSUME ComponentsInv, stage = "resolved", NEW x \in Entities, NEW y \in Entities
             PROVE  ids[x].id = ids[y].id <=> Connected(x, y, Merges)
  BY DEF NodesAreComponents, Merges
<1>1. merged = Merges /\ DOMAIN ids = Entities
  <2>1. merged = Merges /\ Len(ids) = Count
    BY DEF ComponentsInv, PairsInv, Linking
  <2>2. DOMAIN ids = 1 .. Len(ids)
    BY DEF ComponentsInv, IdsInv
  <2> QED BY <2>1, <2>2 DEF Entities
<1>2. \A S \in SUBSET Entities : BalancedIn(parent, S) <=> Closed(S, Merges)
  BY <1>1 DEF ComponentsInv, ForestInv, Balanced
<1> DEFINE r == ids[x].root
           q == ids[y].root
<1>3. /\ Root(r) /\ TogetherIn(parent, x, r)
      /\ Root(q) /\ TogetherIn(parent, y, q)
      /\ ids[x].id = ids[y].id <=> r = q
  BY <1>1 DEF ComponentsInv, IdsInv, Together
<1> HIDE DEF r, q
<1>4. ASSUME r = q PROVE Connected(x, y, Merges)
  BY <1>2, <1>3, <1>4 DEF Connected, TogetherIn
<1>5. ASSUME r # q PROVE ~Connected(x, y, Merges)
  <2>1. PICK S \in SUBSET Entities : BalancedIn(parent, S) /\ r \in S /\ q \notin S
    BY <1>3, <1>5, RootsApart DEF ComponentsInv, FinderInv, Root
  <2> QED BY <1>2, <1>3, <2>1 DEF Connected, TogetherIn
<1> QED BY <1>3, <1>4, <1>5

\* resolve_entities makes one node of two entities exactly when a chain of
\* MERGE decisions joins them (303-325), for every number of entities, every
\* order of the pairs and every shape the halved forest takes.
THEOREM NodesAlwaysComponents == Spec => []NodesAreComponents
BY ResolutionInvariant, NodesByRoots, PTL

\* What the text equates is one node (355-371), whatever the similarities,
\* the thresholds and the cut to nearest pairs.
THEOREM EquatedAlwaysTogether == Spec => []EquatedTogether
<1>1. ComponentsInv => EquatedTogether
  <2> SUFFICES ASSUME ComponentsInv, stage = "resolved", NEW p \in Pairs, Explicit(p)
               PROVE  SameNode(p)
    BY DEF EquatedTogether
  <2>1. p \in Merges
    BY DEF ComponentsInv, PairsInv, Merges, Decision
  <2>2. Connected(p[1], p[2], Merges)
    BY <2>1 DEF Connected, Closed
  <2>3. p[1] \in Entities /\ p[2] \in Entities
    BY PairsOfEntities
  <2> QED BY <2>2, <2>3, NodesByRoots DEF NodesAreComponents, SameNode, Merges
<1> QED BY <1>1, ResolutionInvariant, PTL

\* The id of an entity is one that an earlier entity has, or the next one.
LEMMA DenseInOrder == IdsInv /\ DenseInv => IdsInOrder
<1> SUFFICES ASSUME IdsInv, DenseInv, NEW k \in DOMAIN ids
             PROVE  LET earlier == {ids[j].id : j \in 1 .. k - 1} IN
                      ids[k].id \in earlier \cup {Cardinality(earlier) + 1}
  BY DEF IdsInOrder
<1> DEFINE earlier == {ids[j].id : j \in 1 .. k - 1}
<1>1. k \in 1 .. Len(ids) /\ Len(ids) \in Nat
  BY DEF IdsInv
<1>a. k - 1 \in 0 .. Len(ids) /\ k \in 0 .. Len(ids)
  BY <1>1
<1>2. PICK n \in Nat : earlier = 1 .. n
  BY <1>a DEF DenseInv
<1>3. PICK m \in Nat : {ids[j].id : j \in 1 .. k} = 1 .. m
  BY <1>a DEF DenseInv
<1>4. {ids[j].id : j \in 1 .. k} = earlier \cup {ids[k].id}
  <2>1. 1 .. k = (1 .. k - 1) \cup {k}
    BY <1>1
  <2> QED BY <2>1
<1>5. Cardinality(earlier) = n
  <2>1. Cardinality(1 .. n) = IF 1 > n THEN 0 ELSE n - 1 + 1
    BY FS_Interval
  <2>2. Cardinality(1 .. n) = n
    BY <2>1
  <2> HIDE DEF earlier
  <2> QED BY <1>2, <2>2
<1> HIDE DEF earlier
<1>6. ids[k].id \in (1 .. n) \cup {n + 1}
  <2>1. 1 .. m = (1 .. n) \cup {ids[k].id}
    BY <1>2, <1>3, <1>4
  <2>2. ids[k].id \in 1 .. m /\ \A x \in 1 .. m : x \in 1 .. n \/ x = ids[k].id
    BY <2>1
  <2>3. CASE ids[k].id > n + 1
    <3>1. n + 1 \in 1 .. m
      BY <2>2, <2>3
    <3> QED BY <2>2, <2>3, <3>1
  <2> QED BY <2>2, <2>3
<1>7. ids[k].id \in earlier \cup {Cardinality(earlier) + 1}
  BY <1>2, <1>5, <1>6
<1> QED BY <1>7 DEF earlier

\* The state invariant of the resolution: ids are given in the order of first
\* appearance (316-320), and a vector is compared for the entity it was computed
\* for, in whatever order the server answered (embedding_client.py:44-56).
THEOREM ResolutionAlwaysInv == Spec => []ResolutionInv
<1>1. ComponentsInv => ResolutionTypeOK
  BY DEF ComponentsInv, FinderInv, PairsInv, ResolutionTypeOK, Finding, Linking, Root
<1>2. ComponentsInv => VectorsOfTheirEntities
  <2>1. CASE vectors = <<>>
    BY <2>1 DEF VectorsOfTheirEntities
  <2>2. CASE vectors = [i \in Entities |-> i]
    BY <2>2 DEF VectorsOfTheirEntities
  <2> QED BY <2>1, <2>2 DEF ComponentsInv, VectorsInv
<1>3. ComponentsInv => ResolutionInv
  BY <1>1, <1>2, DenseInOrder DEF ComponentsInv, ResolutionInv
<1> QED BY <1>3, ResolutionInvariant, PTL
=============================================================================
