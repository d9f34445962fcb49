------------------------- MODULE RoDocumentProofs -------------------------
(***************************************************************************)
(* Theorems about RoDocument.                                              *)
(***************************************************************************)
EXTENDS RoDocument, FiniteSetTheorems, SequenceTheorems, WellFoundedInduction, TLAPS

-----------------------------------------------------------------------------
(***************************************************************************)
(* Induction without operator parameters, and sums.                        *)
(***************************************************************************)

\* A set of numbers that contains 0 and what follows its members.
LEMMA AllNumbers ==
  ASSUME NEW T \in SUBSET Nat, 0 \in T, \A n \in T : n + 1 \in T
  PROVE  T = Nat
<1>1. SUFFICES ASSUME Nat \ T # {} PROVE FALSE
  OBVIOUS
<1>2. PICK n \in Nat \ T : \A m \in Nat \ T : ~(<<m, n>> \in OpToRel(<, Nat))
  BY <1>1, NatLessThanWellFounded, WFMin
<1>3. \A m \in Nat \ T : ~(m < n)
  BY <1>2 DEF OpToRel
<1>4. n # 0 /\ n - 1 \in Nat OBVIOUS
<1>5. n - 1 \in T BY <1>3, <1>4
<1>6. QED BY <1>4, <1>5

\* The sum of f over its domain, taken element by element.
Pick(s) == CHOOSE x \in s : TRUE
SumStep(f, g, s) == IF s = {} THEN 0 ELSE f[Pick(s)] + g[s \ {Pick(s)}]
Adds(f, g, S) == \A s \in SUBSET S : g[s] = SumStep(f, g, s)

LEMMA PickOne ==
  ASSUME NEW S, IsFiniteSet(S), NEW s \in SUBSET S, s # {}
  PROVE  /\ Pick(s) \in s
         /\ s \ {Pick(s)} \in SUBSET S
         /\ IsFiniteSet(s) /\ IsFiniteSet(s \ {Pick(s)})
         /\ Cardinality(s) \in Nat \ {0}
         /\ Cardinality(s \ {Pick(s)}) = Cardinality(s) - 1
<1>1. Pick(s) \in s BY DEF Pick
<1>2. IsFiniteSet(s) BY FS_Subset
<1>3. /\ IsFiniteSet(s \ {Pick(s)})
      /\ Cardinality(s \ {Pick(s)}) = Cardinality(s) - 1
  BY <1>1, <1>2, FS_RemoveElement
<1>4. Cardinality(s) \in Nat /\ Cardinality(s \ {Pick(s)}) \in Nat
  BY <1>2, <1>3, FS_CardinalityType
<1>5. QED BY <1>1, <1>2, <1>3, <1>4

\* A property of the subsets of a finite set, proved from smaller to larger.
LEMMA SubsetInduction ==
  ASSUME NEW S, IsFiniteSet(S), NEW H \in SUBSET SUBSET S,
         {} \in H,
         \A s \in SUBSET S : s # {} /\ s \ {Pick(s)} \in H => s \in H
  PROVE  H = SUBSET S
<1> DEFINE T == {n \in Nat : \A s \in SUBSET S : Cardinality(s) = n => s \in H}
<1>1. 0 \in T
  <2>1. \A s \in SUBSET S : Cardinality(s) = 0 => s = {} BY FS_Subset, FS_EmptySet
  <2>2. QED BY <2>1
<1>2. ASSUME NEW n \in T PROVE n + 1 \in T
  <2>1. ASSUME NEW s \in SUBSET S, Cardinality(s) = n + 1 PROVE s \in H
    <3>1. s # {}
      <4>1. Cardinality({}) = 0 BY FS_EmptySet
      <4>2. n + 1 # 0 OBVIOUS
      <4>3. QED BY <2>1, <4>1, <4>2
    <3>2. Cardinality(s \ {Pick(s)}) = n /\ s \ {Pick(s)} \in SUBSET S BY <2>1, <3>1, PickOne
    <3>3. QED BY <3>1, <3>2
  <2>2. QED BY <2>1
<1>3. T = Nat
  <2>1. T \in SUBSET Nat OBVIOUS
  <2> HIDE DEF T
  <2>2. QED BY <1>1, <1>2, <2>1, AllNumbers
<1>4. ASSUME NEW s \in SUBSET S PROVE s \in H
  <2>1. Cardinality(s) \in Nat BY FS_Subset, FS_CardinalityType
  <2>2. QED BY <1>3, <2>1
<1>5. QED BY <1>4

LEMMA SumExists ==
  ASSUME NEW S, IsFiniteSet(S), NEW f \in [S -> Int]
  PROVE  \E g \in [SUBSET S -> Int] : Adds(f, g, S)
<1> DEFINE Below(n) == {s \in SUBSET S : Cardinality(s) <= n}
<1> DEFINE Good(n, g) == g \in [Below(n) -> Int] /\ \A s \in Below(n) : g[s] = SumStep(f, g, s)
<1> DEFINE T == {n \in Nat : \E g : Good(n, g)}
<1>1. 0 \in T
  <2>1. \A s \in Below(0) : s = {}
    <3>1. \A s \in SUBSET S : Cardinality(s) \in Nat BY FS_Subset, FS_CardinalityType
    <3>2. \A s \in SUBSET S : Cardinality(s) = 0 => s = {} BY FS_Subset, FS_EmptySet
    <3>3. QED BY <3>1, <3>2
  <2> DEFINE g == [s \in Below(0) |-> 0]
  <2>2. Good(0, g) BY <2>1 DEF SumStep
  <2>3. QED BY <2>2
<1>2. ASSUME NEW n \in T PROVE n + 1 \in T
  <2>1. PICK g : Good(n, g) OBVIOUS
  <2> DEFINE h == [s \in Below(n + 1) |-> SumStep(f, g, s)]
  <2>2. ASSUME NEW s \in Below(n + 1), s # {}
        PROVE  s \ {Pick(s)} \in Below(n) /\ Pick(s) \in S
    <3>1. s \in SUBSET S /\ Cardinality(s) <= n + 1 OBVIOUS
    <3>2. /\ Pick(s) \in s /\ s \ {Pick(s)} \in SUBSET S
          /\ Cardinality(s) \in Nat \ {0} /\ Cardinality(s \ {Pick(s)}) = Cardinality(s) - 1
      BY <2>2, <3>1, PickOne
    <3>3. QED BY <3>1, <3>2
  <2>3. h \in [Below(n + 1) -> Int]
    BY <2>1, <2>2 DEF SumStep
  <2>4. \A s \in Below(n) : s \in Below(n + 1)
    BY FS_Subset, FS_CardinalityType
  <2>5. \A s \in Below(n) : h[s] = g[s]
    BY <2>1, <2>4
  <2>6. \A s \in Below(n + 1) : h[s] = SumStep(f, h, s)
    BY <2>2, <2>4, <2>5 DEF SumStep
  <2>7. Good(n + 1, h) BY <2>3, <2>6
  <2> HIDE DEF Good, h
  <2>8. QED BY <2>7
<1>3. T = Nat
  <2>1. T \in SUBSET Nat OBVIOUS
  <2> HIDE DEF T
  <2>2. QED BY <1>1, <1>2, <2>1, AllNumbers
<1>4. Cardinality(S) \in Nat BY FS_CardinalityType
<1>5. Below(Cardinality(S)) = SUBSET S BY FS_Subset
<1>6. PICK g : Good(Cardinality(S), g) BY <1>3, <1>4
<1>7. QED BY <1>5, <1>6 DEF Adds

LEMMA SumUnique ==
  ASSUME NEW S, IsFiniteSet(S), NEW f, NEW g, NEW h,
         Adds(f, g, S), Adds(f, h, S)
  PROVE  \A s \in SUBSET S : g[s] = h[s]
<1> DEFINE H == {s \in SUBSET S : g[s] = h[s]}
<1>1. {} \in H BY DEF SumStep, Adds
<1>2. ASSUME NEW s \in SUBSET S, s # {}, s \ {Pick(s)} \in H PROVE s \in H
  BY <1>2 DEF SumStep, Adds
<1>3. H \in SUBSET SUBSET S OBVIOUS
<1>4. H = SUBSET S
  <2> HIDE DEF H
  <2>1. QED BY <1>1, <1>2, <1>3, SubsetInduction
<1>5. QED BY <1>4

\* SumFunction adds up its argument: the equation it is chosen by has a
\* solution.
LEMMA SumFacts ==
  ASSUME NEW S, IsFiniteSet(S), NEW f \in [S -> Int]
  PROVE  /\ \E g \in [SUBSET S -> Int] : Adds(f, g, S) /\ SumFunction(f) = g[S]
         /\ SumFunction(f) \in Int
<1> DEFINE Solves(g) ==
      g = [s \in SUBSET S |->
             IF s = {} THEN 0 ELSE f[CHOOSE x \in s : TRUE] + g[s \ {CHOOSE x \in s : TRUE}]]
<1> DEFINE h == CHOOSE g : Solves(g)
<1>1. SumFunction(f) = h[S]
  <2>1. DOMAIN f = S OBVIOUS
  <2>2. SumFunctionOnSet(f, S) = h[S]
    BY DEF SumFunctionOnSet, FoldFunctionOnSet, MapThenFoldSet
  <2> HIDE DEF h
  <2>3. QED BY <2>1, <2>2 DEF SumFunction
<1>2. PICK g \in [SUBSET S -> Int] : Adds(f, g, S)
  BY SumExists
<1>3. Solves(g) BY <1>2 DEF Adds, SumStep, Pick
<1>4. Solves(h)
  <2> HIDE DEF Solves
  <2>1. QED BY <1>3
<1> HIDE DEF h
<1>5. Adds(f, h, S)
  BY <1>4 DEF Adds, SumStep, Pick
<1>6. \A s \in SUBSET S : h[s] = g[s]
  <2> HIDE DEF Solves
  <2>1. QED BY <1>2, <1>5, SumUnique
<1>7. h \in [SUBSET S -> Int]
  <2>1. h = [s \in SUBSET S |-> h[s]] BY <1>4
  <2>2. QED BY <1>6, <2>1
<1>8. QED BY <1>1, <1>5, <1>7

LEMMA SumCompare ==
  ASSUME NEW S, IsFiniteSet(S), NEW f \in [S -> Int], NEW g \in [S -> Int],
         NEW a \in Int, NEW b \in Int, NEW c \in Nat,
         \A x \in S : a * f[x] - b * g[x] <= c /\ b * g[x] - a * f[x] <= c
  PROVE  /\ a * SumFunction(f) - b * SumFunction(g) <= c * Cardinality(S)
         /\ b * SumFunction(g) - a * SumFunction(f) <= c * Cardinality(S)
<1>sumF. PICK F : F \in [SUBSET S -> Int] /\ Adds(f, F, S) /\ SumFunction(f) = F[S]
  BY SumFacts, Zenon
<1>sumG. PICK G : G \in [SUBSET S -> Int] /\ Adds(g, G, S) /\ SumFunction(g) = G[S]
  BY SumFacts, Zenon
<1> DEFINE Close(s) == /\ a * F[s] - b * G[s] <= c * Cardinality(s)
                       /\ b * G[s] - a * F[s] <= c * Cardinality(s)
<1> DEFINE H == {s \in SUBSET S : Close(s)}
<1>1. /\ F \in [SUBSET S -> Int] /\ G \in [SUBSET S -> Int]
      /\ \A s \in SUBSET S : F[s] = SumStep(f, F, s) /\ G[s] = SumStep(g, G, s)
      /\ SumFunction(f) = F[S] /\ SumFunction(g) = G[S]
  BY <1>sumF, <1>sumG DEF Adds
<1>2. {} \in H
  <2>1. Cardinality({}) = 0 BY FS_EmptySet
  <2>2. F[{}] = 0 /\ G[{}] = 0 BY <1>1 DEF SumStep
  <2>3. QED BY <2>1, <2>2
<1>3. ASSUME NEW s \in SUBSET S, s # {}, s \ {Pick(s)} \in H PROVE s \in H
  <2> DEFINE x == Pick(s)
  <2> DEFINE r == s \ {Pick(s)}
  <2>1. /\ x \in S /\ r \in SUBSET S
        /\ Cardinality(s) \in Nat /\ Cardinality(r) \in Nat /\ Cardinality(r) + 1 = Cardinality(s)
    <3>1. /\ Pick(s) \in s /\ r \in SUBSET S
          /\ Cardinality(s) \in Nat \ {0} /\ Cardinality(r) = Cardinality(s) - 1
      BY <1>3, PickOne
    <3>2. Pick(s) \in S BY <3>1
    <3>3. Cardinality(r) \in Nat /\ Cardinality(r) + 1 = Cardinality(s) BY <3>1
    <3>4. QED BY <3>1, <3>2, <3>3
  <2>2. F[s] = f[x] + F[r] /\ G[s] = g[x] + G[r] BY <1>1, <1>3 DEF SumStep
  <2>3. f[x] \in Int /\ g[x] \in Int /\ F[r] \in Int /\ G[r] \in Int BY <1>1, <2>1
  <2>4. a * f[x] - b * g[x] <= c /\ b * g[x] - a * f[x] <= c BY <2>1
  <2>5. Close(r) BY <1>3
  <2> HIDE DEF x, r
  <2>6. a * (f[x] + F[r]) = a * f[x] + a * F[r] BY <2>3
  <2>7. b * (g[x] + G[r]) = b * g[x] + b * G[r] BY <2>3
  <2>8. c * Cardinality(s) = c * Cardinality(r) + c BY <2>1
  <2>9. /\ a * f[x] \in Int /\ a * F[r] \in Int /\ b * g[x] \in Int /\ b * G[r] \in Int
        /\ c * Cardinality(r) \in Int
    BY <2>1, <2>3
  <2>10. Close(s) BY <2>2, <2>4, <2>5, <2>6, <2>7, <2>8, <2>9
  <2>11. QED BY <2>10
<1>4. H \in SUBSET SUBSET S OBVIOUS
<1>5. H = SUBSET S
  <2> HIDE DEF H
  <2>1. QED BY <1>2, <1>3, <1>4, SubsetInduction
<1>6. Close(S) BY <1>5
<1>7. QED BY <1>1, <1>6

-----------------------------------------------------------------------------
(***************************************************************************)
(* Elements and the slots they are stored in.                              *)
(***************************************************************************)

LEMMA ElementFacts ==
  ASSUME RoAssumption, NEW e \in Elements
  PROVE  /\ e.idx \in Seq(Numerals) /\ Len(e.idx) \in 0 .. 2
         /\ DOMAIN e.idx = 1 .. Len(e.idx)
         /\ Indexed(e) <=> Len(e.idx) # 0
         /\ Slot(e).field = e.base
         /\ Slot(e).line \in Seq(Nat) /\ Len(Slot(e).line) = Len(e.idx)
         /\ \A i \in 1 .. Len(e.idx) : Slot(e).line[i] = ParsedInt[e.idx[i]]
         /\ Slot(e).line \in [1 .. Len(e.idx) -> Nat]
<1>1. PICK n \in 0 .. 2 : e.idx \in [1 .. n -> Numerals]
  BY DEF Elements
<1>2. n \in Nat /\ e.idx \in Seq(Numerals)
  BY <1>1, SeqDef
<1>3. Len(e.idx) = n /\ DOMAIN e.idx = 1 .. n
  BY <1>1, <1>2, LenProperties
<1>4. Indexed(e) <=> n # 0
  BY <1>2, <1>3, EmptySeq DEF Indexed
<1>5. Slot(e).line = [i \in 1 .. n |-> ParsedInt[e.idx[i]]] /\ Slot(e).field = e.base
  BY <1>3 DEF Slot
<1>6. Slot(e).line \in [1 .. n -> Nat]
  BY <1>1, <1>5 DEF RoAssumption
<1>7. Slot(e).line \in Seq(Nat) /\ Len(Slot(e).line) = n
  BY <1>2, <1>6, SeqDef, LenProperties
<1>8. QED BY <1>1, <1>2, <1>3, <1>4, <1>5, <1>6, <1>7

\* A line with one index, and one with two.
LEMMA LineForms ==
  ASSUME NEW line \in Seq(Nat)
  PROVE  /\ Len(line) = 0 => line = <<>>
         /\ Len(line) = 1 => line = <<line[1]>> /\ line[1] \in Nat
         /\ Len(line) = 2 => line = <<line[1], line[2]>> /\ line[1] \in Nat /\ line[2] \in Nat
<1>1. Len(line) \in Nat /\ \A i \in 1 .. Len(line) : line[i] \in Nat
  BY LenProperties, ElementOfSeq
<1>2. Len(line) = 0 => line = <<>> BY EmptySeq
<1>3. CASE Len(line) = 1
  <2>1. line[1] \in Nat BY <1>1, <1>3
  <2>2. <<line[1]>> \in Seq(Nat) /\ Len(<<line[1]>>) = 1 /\ <<line[1]>>[1] = line[1] BY <2>1
  <2>3. line = <<line[1]>> BY <1>3, <2>2, SeqEqual
  <2>4. QED BY <1>3, <2>1, <2>3
<1>4. CASE Len(line) = 2
  <2>1. line[1] \in Nat /\ line[2] \in Nat BY <1>1, <1>4
  <2>2. /\ <<line[1], line[2]>> \in Seq(Nat) /\ Len(<<line[1], line[2]>>) = 2
        /\ <<line[1], line[2]>>[1] = line[1] /\ <<line[1], line[2]>>[2] = line[2] BY <2>1
  <2>3. line = <<line[1], line[2]>> BY <1>4, <2>2, SeqEqual
  <2>4. QED BY <1>4, <2>1, <2>3
<1>5. QED BY <1>2, <1>3, <1>4

\* The classes of names that decide where an element goes.
LEMMA FieldClasses ==
  /\ LABOR_BASE_FIELDS \cap PART_BASE_FIELDS = {}
  /\ LINE_ITEM_BASE_FIELDS \cap PII_FIELDS = {} /\ LINE_ITEM_BASE_FIELDS \subseteq KNOWN_FIELDS
  /\ DETERMINISTIC_FIELDS \cap PII_FIELDS = {} /\ DETERMINISTIC_FIELDS \subseteq KNOWN_FIELDS
  /\ KNOWN_FIELDS \ (PII_FIELDS \cup DETERMINISTIC_FIELDS) \subseteq SEMANTIC_FIELDS
BY DEF LABOR_BASE_FIELDS, PART_BASE_FIELDS, LINE_ITEM_BASE_FIELDS, PII_FIELDS, KNOWN_FIELDS,
       DETERMINISTIC_FIELDS, SEMANTIC_FIELDS, IntFields, NumberFields, TotalFields

-----------------------------------------------------------------------------
(***************************************************************************)
(* The inductive invariant.                                                *)
(***************************************************************************)

\* The flat elements are read in order; if all are flat, none is missing.
LeavesOK ==
  /\ leaves \in Seq(Elements)
  /\ (\A i \in 1 .. read : Content[doc][i].form = "flat") =>
       Len(leaves) = read /\ \A i \in 1 .. read : leaves[i] = Content[doc][i]
  /\ \A i \in 1 .. Len(leaves) : leaves[i].form = "flat"

\* Nothing is routed before all is read, nothing is checked before all is routed.
PhaseOK ==
  /\ stage = "extract" => at = 0
  /\ stage \notin {"extract", "route", "refused"} => at = Len(leaves)

\* An element keeps the rules of its class.
PlacedOK(e) ==
  /\ ~ZeroIndex(e)
  /\ e.base \in PII_FIELDS => Len(e.idx) = 0
  /\ e.base \in KNOWN_FIELDS =>
       /\ Len(e.idx) = 0 => e.base \notin LINE_ITEM_BASE_FIELDS
       /\ Len(e.idx) = 1 => e.base \in LABOR_BASE_FIELDS
       /\ Len(e.idx) = 2 => e.base \in PART_BASE_FIELDS
  /\ e.base \in DETERMINISTIC_FIELDS \cap (IntFields \cup NumberFields) => Parsed(e) \in Int

\* Where the i-th leaf went.
KeptOK(i) ==
  LET e == leaves[i]
  IN /\ PlacedOK(e)
     /\ e.base \notin KNOWN_FIELDS => ElementName(e) \in unknown
     /\ e.base \in KNOWN_FIELDS /\ Len(e.idx) = 1 => Slot(e).line[1] \in labor
     /\ e.base \in KNOWN_FIELDS /\ Len(e.idx) = 2 => Slot(e).line \in parts
     /\ \/ e.base \notin KNOWN_FIELDS
        \/ e.base \in PII_FIELDS /\ e.base \in DOMAIN pii /\ pii[e.base] = e.text
        \/ /\ e.base \in DETERMINISTIC_FIELDS
           /\ Slot(e) \in DOMAIN det /\ det[Slot(e)] = Parsed(e)
        \/ \E j \in 1 .. Len(semantic) : semantic[j] = e
        \/ \E j \in i + 1 .. at : Slot(leaves[j]) = Slot(e)

\* Every slot, line and text comes from a leaf that was routed.
OriginOK ==
  /\ \A f \in DOMAIN pii : \E i \in 1 .. at : leaves[i].base = f /\ leaves[i].text = pii[f]
  /\ \A s \in DOMAIN det :
       \E i \in 1 .. at :
         /\ Slot(leaves[i]) = s /\ det[s] = Parsed(leaves[i])
         /\ \A j \in i + 1 .. at : Slot(leaves[j]) # s
  /\ \A l \in labor :
       \E i \in 1 .. at :
         leaves[i].base \in KNOWN_FIELDS /\ Len(leaves[i].idx) = 1 /\ Slot(leaves[i]).line[1] = l
  /\ \A p \in parts :
       \E i \in 1 .. at :
         leaves[i].base \in KNOWN_FIELDS /\ Len(leaves[i].idx) = 2 /\ Slot(leaves[i]).line = p
  /\ semantic \in Seq(Elements)
  /\ \A j \in 1 .. Len(semantic) :
       \E i \in 1 .. at :
         /\ leaves[i] = semantic[j]
         /\ leaves[i].base \in KNOWN_FIELDS \ (PII_FIELDS \cup DETERMINISTIC_FIELDS)
  /\ IsFiniteSet(labor) /\ IsFiniteSet(parts)
  /\ \A n \in unknown : \E i \in 1 .. at : leaves[i].base \notin KNOWN_FIELDS

\* At stage s, check number i was passed.
Behind(s, i) == s = "accepted" \/ \E j \in i + 1 .. 17 : s = Checks[j]
Passed(i) == Behind(stage, i)

\* What it has decided.
Decided(i) ==
  /\ i = 1 => unknown = {}
  /\ i = 5 => labor # {} /\ Contiguous(labor)
  /\ i = 6 => \A p \in parts : p[1] \in labor
  /\ i = 7 => \A l \in labor : Contiguous(PartIndices(l))
  /\ i = 9 => \A l \in labor : LaborPriced(l, TRUE)
  /\ i = 10 => \A p \in parts : PartPriced(p, TRUE)
  /\ i = 11 => TotalAgrees("LABOR_TOTAL", LaborComputed, TRUE)
  /\ i = 12 => TotalAgrees("PARTS_TOTAL", PartsComputed, TRUE)
  /\ i = 13 =>
       \A f \in {"SHOP_FEES", "ENVIRONMENTAL_FEES", "TAX_TOTAL", "DISCOUNT_TOTAL"} : Has(f, <<>>)
  /\ i = 14 => TotalAgrees("GRAND_TOTAL", GrandComputed, TRUE)

CheckedOK == \A i \in 1 .. 17 : Passed(i) => Decided(i)

RoInv ==
  /\ RoTypeOK /\ LeavesOK /\ PhaseOK
  /\ \A i \in 1 .. at : KeptOK(i)
  /\ OriginOK
  /\ CheckedOK
-----------------------------------------------------------------------------
LEMMA ChecksDiffer ==
  /\ DOMAIN Checks = 1 .. 17 /\ Len(Checks) = 17
  /\ \A i, j \in 1 .. 17 : Checks[i] = Checks[j] => i = j
  /\ \A i \in 1 .. 17 : Checks[i] \notin {"extract", "route", "accepted", "refused"}
<1>1. DOMAIN Checks = 1 .. 17 /\ Len(Checks) = 17 BY DEF Checks
<1>2. \A i, j \in 1 .. 17 : Checks[i] = Checks[j] => i = j BY DEF Checks
<1>3. \A i \in 1 .. 17 : Checks[i] \notin {"extract", "route", "accepted", "refused"} BY DEF Checks
<1>4. QED BY <1>1, <1>2, <1>3

LEMMA AfterNext ==
  ASSUME NEW i \in 1 .. 17
  PROVE  After(Checks[i]) = IF i = 17 THEN "accepted" ELSE Checks[i + 1]
<1>1. (CHOOSE j \in DOMAIN Checks : Checks[j] = Checks[i]) = i BY ChecksDiffer
<1>2. QED BY <1>1, ChecksDiffer DEF After

\* While elements are read or routed, and after a refusal, no check counts.
LEMMA NothingBehind ==
  ASSUME NEW s \in {"extract", "route", "refused"}
  PROVE  \A i \in 1 .. 17 : ~Behind(s, i)
BY ChecksDiffer DEF Behind

\* What check number i decides is kept by the checks after it.
LEMMA BehindNext ==
  ASSUME NEW i \in 1 .. 17, NEW k \in 1 .. 17, Behind(After(Checks[i]), k)
  PROVE  Behind(Checks[i], k) \/ k = i
BY ChecksDiffer, AfterNext DEF Behind

LEMMA InvInit == RoAssumption /\ RoInit => RoInv
<1> SUFFICES ASSUME RoAssumption, RoInit PROVE RoInv OBVIOUS
<1> USE DEF RoInit
<1>1. leaves \in Seq(Elements) /\ semantic \in Seq(Elements) /\ Len(leaves) = 0 /\ Len(semantic) = 0
  BY EmptySeq
<1>2. Content[doc] \in Seq(Elements) BY DEF RoAssumption
<1>3. Len(Content[doc]) \in Nat BY <1>2, LenProperties
<1>4. DOMAIN pii = {} /\ DOMAIN det = {} OBVIOUS
<1>5. RoTypeOK BY <1>1, <1>3, <1>4 DEF RoTypeOK, Stages
<1>6. LeavesOK /\ PhaseOK BY <1>1 DEF LeavesOK, PhaseOK
<1>7. OriginOK BY <1>1, <1>4, FS_EmptySet DEF OriginOK
<1>8. CheckedOK
  <2>1. stage \in {"extract", "route", "refused"} OBVIOUS
  <2> HIDE DEF RoInit
  <2>2. QED BY <2>1, NothingBehind DEF CheckedOK, Passed
<1>9. QED BY <1>5, <1>6, <1>7, <1>8 DEF RoInv

-----------------------------------------------------------------------------
(***************************************************************************)
(* The steps that read elements, and those that only move to a stage.      *)
(***************************************************************************)

\* Before the checks.
Early == stage \in {"extract", "route", "refused"}

LEMMA EarlyChecked ==
  ASSUME Early'
  PROVE  CheckedOK'
BY NothingBehind DEF CheckedOK, Passed, Early

LEMMA ContentFacts ==
  ASSUME RoAssumption, RoTypeOK
  PROVE  /\ Content[doc] \in Seq(Elements) /\ Len(Content[doc]) \in Nat
         /\ \A i \in 1 .. Len(Content[doc]) : Content[doc][i] \in Elements
<1>1. Content[doc] \in Seq(Elements) BY DEF RoAssumption, RoTypeOK
<1>2. QED BY <1>1, LenProperties, ElementOfSeq

LEMMA LeafFacts ==
  ASSUME RoInv
  PROVE  /\ leaves \in Seq(Elements) /\ Len(leaves) \in Nat /\ DOMAIN leaves = 1 .. Len(leaves)
         /\ \A i \in 1 .. Len(leaves) : leaves[i] \in Elements
         /\ at \in 0 .. Len(leaves)
         /\ semantic \in Seq(Elements) /\ Len(semantic) \in Nat /\ DOMAIN semantic = 1 .. Len(semantic)
         /\ \A i \in 1 .. Len(semantic) : semantic[i] \in Elements
<1>1. leaves \in Seq(Elements) /\ semantic \in Seq(Elements) /\ at \in 0 .. Len(leaves)
  BY DEF RoInv, RoTypeOK, LeavesOK, OriginOK
<1>2. QED BY <1>1, LenProperties, ElementOfSeq

LEMMA StepRead ==
  ASSUME RoAssumption, RoInv, ReadElement
  PROVE  RoInv'
<1> DEFINE e == Content[doc][read + 1]
<1>1. RoTypeOK /\ LeavesOK /\ PhaseOK /\ OriginOK BY DEF RoInv
<1>2. /\ read \in Nat /\ read < Len(Content[doc]) /\ read' = read + 1 /\ at = 0 /\ at' = 0
      /\ stage = "extract" /\ stage' = "extract"
  BY <1>1, ContentFacts DEF ReadElement, RoTypeOK, PhaseOK
<1>3. e \in Elements /\ Len(Content[doc]) \in Nat BY <1>1, <1>2, ContentFacts
<1>4. /\ UNCHANGED <<doc, seen, unknown, pii, det, labor, parts, semantic>>
      /\ leaves' = IF e.form = "flat" THEN Append(leaves, e) ELSE leaves
  BY DEF ReadElement, NextElement, payloads
<1>5. leaves \in Seq(Elements) /\ Len(leaves) \in Nat BY LeafFacts
<1>6. /\ Append(leaves, e) \in Seq(Elements) /\ Len(Append(leaves, e)) = Len(leaves) + 1
      /\ \A i \in 1 .. Len(leaves) : Append(leaves, e)[i] = leaves[i]
      /\ Append(leaves, e)[Len(leaves) + 1] = e
  BY <1>3, <1>5, AppendProperties
<1> HIDE DEF e
<1>7. leaves' \in Seq(Elements) /\ Len(leaves') \in Nat /\ Len(leaves') <= read'
  BY <1>1, <1>2, <1>4, <1>5, <1>6 DEF RoTypeOK
<1>8. RoTypeOK'
  BY <1>1, <1>2, <1>3, <1>4, <1>7 DEF RoTypeOK, Stages
<1>9. LeavesOK'
  <2>1. \A i \in 1 .. Len(leaves') : leaves'[i].form = "flat"
    BY <1>1, <1>4, <1>5, <1>6 DEF LeavesOK
  <2>2. ASSUME \A i \in 1 .. read' : Content'[doc'][i].form = "flat"
        PROVE  Len(leaves') = read' /\ \A i \in 1 .. read' : leaves'[i] = Content'[doc'][i]
    <3>1. e.form = "flat" /\ \A i \in 1 .. read : Content[doc][i].form = "flat"
      BY <2>2, <1>2, <1>4 DEF e
    <3>2. Len(leaves) = read /\ \A i \in 1 .. read : leaves[i] = Content[doc][i]
      BY <3>1, <1>1 DEF LeavesOK
    <3>3. QED BY <3>1, <3>2, <1>2, <1>4, <1>6 DEF e
  <2>3. QED BY <1>7, <2>1, <2>2 DEF LeavesOK
<1>10. PhaseOK' BY <1>2 DEF PhaseOK
<1>11. OriginOK' BY <1>1, <1>2, <1>4 DEF OriginOK
<1>12. CheckedOK' BY <1>2, EarlyChecked DEF Early
<1>13. QED BY <1>2, <1>8, <1>9, <1>10, <1>11, <1>12 DEF RoInv

LEMMA StageOnly ==
  ASSUME RoInv,
         UNCHANGED <<doc, read, leaves, at, seen, unknown, pii, det, labor, parts, semantic>>,
         stage' \in Stages, PhaseOK', CheckedOK'
  PROVE  RoInv'
<1>1. RoTypeOK /\ LeavesOK /\ OriginOK BY DEF RoInv
<1>2. RoTypeOK' BY <1>1 DEF RoTypeOK
<1>3. LeavesOK' BY <1>1 DEF LeavesOK
<1>4. OriginOK' BY <1>1 DEF OriginOK
<1>5. ASSUME NEW i \in 1 .. at PROVE KeptOK(i)'
  <2>1. KeptOK(i) BY DEF RoInv
  <2>2. QED BY <2>1 DEF KeptOK, PlacedOK, ZeroIndex, Parsed, ElementName, Slot
<1>6. QED BY <1>2, <1>3, <1>4, <1>5 DEF RoInv

LEMMA StepEarly ==
  ASSUME RoInv, RefuseNested \/ Extracted \/ RefuseElement
  PROVE  RoInv'
<1>1. UNCHANGED <<doc, read, leaves, at, seen, unknown, pii, det, labor, parts, semantic>>
  BY DEF RefuseNested, Extracted, RefuseElement, payloads
<1>2. stage' \in {"refused", "route"} BY DEF RefuseNested, Extracted, RefuseElement
<1>3. PhaseOK' BY <1>2 DEF PhaseOK
<1>4. CheckedOK' BY <1>2, EarlyChecked DEF Early
<1>5. QED BY <1>1, <1>2, <1>3, <1>4, StageOnly DEF Stages

LEMMA StepRouted ==
  ASSUME RoInv, Routed
  PROVE  RoInv'
<1>1. UNCHANGED <<doc, read, leaves, at, seen, unknown, pii, det, labor, parts, semantic>>
  BY DEF Routed, payloads
<1>2. stage' = Checks[1] /\ at = Len(leaves) BY DEF Routed
<1>3. stage' \in Stages /\ PhaseOK' BY <1>1, <1>2, ChecksDiffer DEF PhaseOK, Stages
<1>4. \A k \in 1 .. 17 : ~Behind(stage', k) BY <1>2, ChecksDiffer DEF Behind
<1>5. CheckedOK' BY <1>4 DEF CheckedOK, Passed
<1>6. QED BY <1>1, <1>3, <1>5, StageOnly

-----------------------------------------------------------------------------
(***************************************************************************)
(* The step that routes an element.                                        *)
(***************************************************************************)
IsSemantic(e) == e.base \in KNOWN_FIELDS \ (PII_FIELDS \cup DETERMINISTIC_FIELDS)

LEMMA NotMisplaced ==
  ASSUME RoAssumption, NEW e \in Elements, ~Misplaced(e)
  PROVE  PlacedOK(e)
<1>1. Indexed(e) <=> Len(e.idx) # 0 BY ElementFacts
<1>2. ~ZeroIndex(e) BY DEF Misplaced
<1>3. e.base \in PII_FIELDS => Len(e.idx) = 0 BY <1>1 DEF Misplaced
<1>4. e.base \in KNOWN_FIELDS =>
        /\ Len(e.idx) = 0 => e.base \notin LINE_ITEM_BASE_FIELDS
        /\ Len(e.idx) = 1 => e.base \in LABOR_BASE_FIELDS
        /\ Len(e.idx) = 2 => e.base \in PART_BASE_FIELDS
  <2>1. CASE e.base \in PII_FIELDS
    <3>1. e.base \notin LINE_ITEM_BASE_FIELDS BY <2>1, FieldClasses
    <3>2. Len(e.idx) = 0 BY <1>3, <2>1
    <3>3. QED BY <3>1, <3>2
  <2>2. CASE e.base \in KNOWN_FIELDS \ PII_FIELDS
    <3>1. /\ ~(Indexed(e) /\ e.base \notin LINE_ITEM_BASE_FIELDS)
          /\ ~(~Indexed(e) /\ e.base \in LINE_ITEM_BASE_FIELDS)
          /\ ~(Len(e.idx) = 1 /\ e.base \notin LABOR_BASE_FIELDS)
          /\ ~(Len(e.idx) = 2 /\ e.base \notin PART_BASE_FIELDS)
      BY <2>2, Zenon DEF Misplaced
    <3>2. QED BY <1>1, <3>1
  <2>3. QED BY <2>1, <2>2
<1>5. ASSUME e.base \in DETERMINISTIC_FIELDS, e.base \in IntFields \cup NumberFields
      PROVE  Parsed(e) \in Int
  <2>1. ~Unparsable(e) BY <1>5, FieldClasses DEF Misplaced
  <2>2. e.text \in Int \cup Words BY DEF Elements
  <2>3. CASE e.text \in Words BY <2>1, <2>3, <1>5 DEF Unparsable, Parsed
  <2>4. CASE e.text \in Int BY <2>4 DEF Parsed
  <2>5. QED BY <2>2, <2>3, <2>4
<1>6. QED BY <1>2, <1>3, <1>4, <1>5 DEF PlacedOK

\* What routing element e does to each payload.
LEMMA RouteFacts ==
  ASSUME RoAssumption, RoInv, RouteElement, NEW e, e = leaves[at + 1]
  PROVE  /\ at < Len(leaves) /\ e \in Elements /\ at' = at + 1
         /\ stage = "route" /\ UNCHANGED <<doc, read, leaves, stage>>
         /\ PlacedOK(e) /\ seen' = seen \cup {ElementName(e)}
         /\ DOMAIN pii' = IF e.base \in PII_FIELDS THEN DOMAIN pii \cup {e.base} ELSE DOMAIN pii
         /\ \A f \in DOMAIN pii' :
              pii'[f] = IF e.base \in PII_FIELDS /\ f = e.base THEN e.text ELSE pii[f]
         /\ DOMAIN det' = IF e.base \in DETERMINISTIC_FIELDS THEN DOMAIN det \cup {Slot(e)} ELSE DOMAIN det
         /\ \A s \in DOMAIN det' :
              det'[s] = IF e.base \in DETERMINISTIC_FIELDS /\ s = Slot(e) THEN Parsed(e) ELSE det[s]
         /\ unknown' = IF e.base \in KNOWN_FIELDS THEN unknown ELSE unknown \cup {ElementName(e)}
         /\ labor' = IF e.base \in KNOWN_FIELDS /\ Len(e.idx) = 1
                       THEN labor \cup {Slot(e).line[1]} ELSE labor
         /\ parts' = IF e.base \in KNOWN_FIELDS /\ Len(e.idx) = 2
                       THEN parts \cup {Slot(e).line} ELSE parts
         /\ semantic' = IF IsSemantic(e) THEN Append(semantic, e) ELSE semantic
<1>1. at < Len(leaves) /\ at' = at + 1 /\ stage = "route" /\ UNCHANGED <<doc, read, leaves, stage>>
  BY DEF RouteElement
<1>2. e \in Elements BY <1>1, LeafFacts
<1>3. ~Misplaced(e) /\ seen' = seen \cup {ElementName(e)} BY DEF RouteElement
<1>4. PlacedOK(e) BY <1>2, <1>3, NotMisplaced
<1>5. RoutePii(e) \/ RouteUnknown(e) \/ RouteField(e) BY DEF RouteElement
<1>6. PII_FIELDS \subseteq KNOWN_FIELDS BY DEF KNOWN_FIELDS
<1>7. CASE RoutePii(e)
  <2>1. /\ e.base \in PII_FIELDS /\ pii' = Put(pii, e.base, e.text)
        /\ UNCHANGED <<unknown, det, labor, parts, semantic>>
    BY <1>7 DEF RoutePii
  <2>2. /\ DOMAIN pii' = DOMAIN pii \cup {e.base}
        /\ \A f \in DOMAIN pii' : pii'[f] = IF f = e.base THEN e.text ELSE pii[f]
    BY <2>1 DEF Put
  <2>3. e.base \notin DETERMINISTIC_FIELDS /\ ~IsSemantic(e) /\ Len(e.idx) = 0
    BY <1>4, <2>1, FieldClasses DEF IsSemantic, PlacedOK
  <2>4. QED BY <1>1, <1>2, <1>3, <1>4, <1>6, <2>1, <2>2, <2>3
<1>8. CASE RouteUnknown(e)
  <2>1. /\ e.base \notin KNOWN_FIELDS /\ unknown' = unknown \cup {ElementName(e)}
        /\ UNCHANGED <<pii, det, labor, parts, semantic>>
    BY <1>8 DEF RouteUnknown, payloads
  <2>2. e.base \notin DETERMINISTIC_FIELDS /\ e.base \notin PII_FIELDS /\ ~IsSemantic(e)
    BY <1>6, <2>1, FieldClasses DEF IsSemantic
  <2>3. QED BY <1>1, <1>2, <1>3, <1>4, <2>1, <2>2
<1>9. CASE RouteField(e)
  <2>1. /\ e.base \in KNOWN_FIELDS /\ e.base \notin PII_FIELDS
        /\ labor' = IF Len(e.idx) = 1 THEN labor \cup {Slot(e).line[1]} ELSE labor
        /\ parts' = IF Len(e.idx) = 2 THEN parts \cup {Slot(e).line} ELSE parts
        /\ UNCHANGED <<unknown, pii>>
        /\ IF e.base \in DETERMINISTIC_FIELDS
           THEN det' = Put(det, Slot(e), Parsed(e)) /\ UNCHANGED semantic
           ELSE semantic' = Append(semantic, e) /\ UNCHANGED det
    BY <1>9 DEF RouteField
  <2>2. CASE e.base \in DETERMINISTIC_FIELDS
    <3>1. det' = Put(det, Slot(e), Parsed(e)) /\ semantic' = semantic BY <2>1, <2>2
    <3>2. /\ DOMAIN det' = DOMAIN det \cup {Slot(e)}
          /\ \A s \in DOMAIN det' : det'[s] = IF s = Slot(e) THEN Parsed(e) ELSE det[s]
      BY <3>1 DEF Put
    <3>3. ~IsSemantic(e) BY <2>2 DEF IsSemantic
    <3>4. QED BY <1>1, <1>2, <1>3, <1>4, <2>1, <2>2, <3>1, <3>2, <3>3
  <2>3. CASE e.base \notin DETERMINISTIC_FIELDS
    <3>1. semantic' = Append(semantic, e) /\ det' = det /\ IsSemantic(e)
      BY <2>1, <2>3 DEF IsSemantic
    <3>2. QED BY <1>1, <1>2, <1>3, <1>4, <2>1, <2>3, <3>1
  <2>4. QED BY <2>2, <2>3
<1>10. QED BY <1>5, <1>7, <1>8, <1>9

\* An element without a zero among its indices opens a line with a number.
LEMMA LineNumbers ==
  ASSUME RoAssumption, NEW e \in Elements, ~ZeroIndex(e)
  PROVE  /\ Len(e.idx) = 1 => Slot(e).line[1] \in Nat \ {0} /\ Slot(e).line = <<Slot(e).line[1]>>
         /\ Len(e.idx) = 2 => /\ Slot(e).line \in (Nat \ {0}) \X (Nat \ {0})
                              /\ Slot(e).line = <<Slot(e).line[1], Slot(e).line[2]>>
         /\ Len(e.idx) = 0 => Slot(e).line = <<>>
<1>1. /\ Slot(e).line \in Seq(Nat) /\ Len(Slot(e).line) = Len(e.idx)
      /\ Len(e.idx) \in 0 .. 2 /\ DOMAIN e.idx = 1 .. Len(e.idx)
      /\ \A i \in 1 .. Len(e.idx) : Slot(e).line[i] = ParsedInt[e.idx[i]]
  BY ElementFacts
<1>2. \A i \in 1 .. Len(e.idx) : Slot(e).line[i] # 0 BY <1>1 DEF ZeroIndex
<1>3. CASE Len(e.idx) = 1
  <2>1. Slot(e).line = <<Slot(e).line[1]>> /\ Slot(e).line[1] \in Nat BY <1>1, <1>3, LineForms
  <2>2. Slot(e).line[1] # 0 BY <1>2, <1>3
  <2>3. QED BY <1>3, <2>1, <2>2
<1>4. CASE Len(e.idx) = 2
  <2>1. /\ Slot(e).line = <<Slot(e).line[1], Slot(e).line[2]>>
        /\ Slot(e).line[1] \in Nat /\ Slot(e).line[2] \in Nat
    BY <1>1, <1>4, LineForms
  <2>2. Slot(e).line[1] # 0 /\ Slot(e).line[2] # 0 BY <1>2, <1>4
  <2> DEFINE a == Slot(e).line[1]
  <2> DEFINE b == Slot(e).line[2]
  <2>3. <<a, b>> \in (Nat \ {0}) \X (Nat \ {0}) BY <2>1, <2>2
  <2>4. QED BY <1>4, <2>1, <2>3
<1>5. CASE Len(e.idx) = 0 BY <1>1, <1>5, LineForms
<1>6. QED BY <1>1, <1>3, <1>4, <1>5

LEMMA RouteType ==
  ASSUME RoAssumption, RoInv, RouteElement
  PROVE  RoTypeOK'
<1> DEFINE e == leaves[at + 1]
<1>1. RoTypeOK BY DEF RoInv
<1>2. at \in Nat /\ Len(leaves) \in Nat /\ semantic \in Seq(Elements) BY LeafFacts
<1>3. /\ at < Len(leaves) /\ e \in Elements /\ at' = at + 1
      /\ stage = "route" /\ UNCHANGED <<doc, read, leaves, stage>>
      /\ PlacedOK(e) /\ seen' = seen \cup {ElementName(e)}
  BY RouteFacts
<1>4. seen' = {ElementName(leaves'[i]) : i \in 1 .. at'}
  <2>1. 1 .. at' = 1 .. at \cup {at + 1} BY <1>2, <1>3
  <2>2. seen = {ElementName(leaves[i]) : i \in 1 .. at} BY <1>1 DEF RoTypeOK
  <2>3. leaves' = leaves BY <1>3
  <2>4. seen' = {ElementName(leaves[i]) : i \in 1 .. at} \cup {ElementName(leaves[at + 1])}
    BY <1>3, <2>2
  <2>5. QED BY <2>1, <2>3, <2>4
<1>5. unknown' \subseteq seen'
  <2>1. unknown' \subseteq unknown \cup {ElementName(e)} BY RouteFacts
  <2>2. QED BY <1>1, <1>3, <2>1 DEF RoTypeOK
<1>6. DOMAIN pii' \subseteq PII_FIELDS
  <2>1. DOMAIN pii' = IF e.base \in PII_FIELDS THEN DOMAIN pii \cup {e.base} ELSE DOMAIN pii
    BY RouteFacts
  <2>2. QED BY <1>1, <2>1 DEF RoTypeOK
<1>7. \A s \in DOMAIN det' : s.field \in DETERMINISTIC_FIELDS
  <2>1. DOMAIN det' = IF e.base \in DETERMINISTIC_FIELDS THEN DOMAIN det \cup {Slot(e)} ELSE DOMAIN det
    BY RouteFacts
  <2>2. Slot(e).field = e.base BY <1>3, ElementFacts
  <2>3. QED BY <1>1, <2>1, <2>2 DEF RoTypeOK
<1>8. labor' \subseteq Nat \ {0} /\ parts' \subseteq (Nat \ {0}) \X (Nat \ {0})
  <2>1. /\ labor' = IF e.base \in KNOWN_FIELDS /\ Len(e.idx) = 1
                      THEN labor \cup {Slot(e).line[1]} ELSE labor
        /\ parts' = IF e.base \in KNOWN_FIELDS /\ Len(e.idx) = 2
                      THEN parts \cup {Slot(e).line} ELSE parts
    BY RouteFacts
  <2>2. /\ Len(e.idx) = 1 => Slot(e).line[1] \in Nat \ {0}
        /\ Len(e.idx) = 2 => Slot(e).line \in (Nat \ {0}) \X (Nat \ {0})
    BY <1>3, LineNumbers DEF PlacedOK
  <2>3. QED BY <1>1, <2>1, <2>2 DEF RoTypeOK
<1>9. Len(semantic') <= at'
  <2>1. semantic' = IF IsSemantic(e) THEN Append(semantic, e) ELSE semantic BY RouteFacts
  <2>2. Len(Append(semantic, e)) = Len(semantic) + 1 /\ Len(semantic) \in Nat
    BY <1>2, <1>3, AppendProperties, LenProperties
  <2>3. QED BY <1>1, <1>2, <1>3, <2>1, <2>2 DEF RoTypeOK
<1>10. /\ doc' \in Documents /\ read' \in 0 .. Len(Content'[doc']) /\ Len(leaves') <= read'
       /\ at' \in 0 .. Len(leaves') /\ stage' \in Stages'
  BY <1>1, <1>2, <1>3 DEF RoTypeOK, Stages
<1>11. QED BY <1>4, <1>5, <1>6, <1>7, <1>8, <1>9, <1>10 DEF RoTypeOK

LEMMA RouteKept ==
  ASSUME RoAssumption, RoInv, RouteElement
  PROVE  \A i \in 1 .. at' : KeptOK(i)'
<1> DEFINE n == at + 1
<1> DEFINE e == leaves[at + 1]
<1>1. /\ at < Len(leaves) /\ e \in Elements /\ at' = at + 1 /\ UNCHANGED leaves /\ PlacedOK(e)
  BY RouteFacts
<1>2. /\ DOMAIN pii' = IF e.base \in PII_FIELDS THEN DOMAIN pii \cup {e.base} ELSE DOMAIN pii
      /\ \A f \in DOMAIN pii' :
           pii'[f] = IF e.base \in PII_FIELDS /\ f = e.base THEN e.text ELSE pii[f]
  BY RouteFacts
<1>3. /\ DOMAIN det' = IF e.base \in DETERMINISTIC_FIELDS THEN DOMAIN det \cup {Slot(e)} ELSE DOMAIN det
      /\ \A s \in DOMAIN det' :
           det'[s] = IF e.base \in DETERMINISTIC_FIELDS /\ s = Slot(e) THEN Parsed(e) ELSE det[s]
  BY RouteFacts
<1>4. /\ unknown' = IF e.base \in KNOWN_FIELDS THEN unknown ELSE unknown \cup {ElementName(e)}
      /\ labor' = IF e.base \in KNOWN_FIELDS /\ Len(e.idx) = 1
                    THEN labor \cup {Slot(e).line[1]} ELSE labor
      /\ parts' = IF e.base \in KNOWN_FIELDS /\ Len(e.idx) = 2
                    THEN parts \cup {Slot(e).line} ELSE parts
  BY RouteFacts
<1>5. semantic' = IF IsSemantic(e) THEN Append(semantic, e) ELSE semantic BY RouteFacts
<1>6. /\ at \in Nat /\ semantic \in Seq(Elements) /\ Len(semantic) \in Nat
      /\ Append(semantic, e) \in Seq(Elements) /\ Len(Append(semantic, e)) = Len(semantic) + 1
      /\ \A j \in 1 .. Len(semantic) : Append(semantic, e)[j] = semantic[j]
      /\ Append(semantic, e)[Len(semantic) + 1] = e
  BY <1>1, LeafFacts, AppendProperties
<1>7. \A j \in 1 .. Len(semantic) : j \in 1 .. Len(semantic') /\ semantic'[j] = semantic[j]
  BY <1>5, <1>6
<1> HIDE DEF e
<1>8. ASSUME NEW i \in 1 .. at PROVE KeptOK(i)'
  <2> DEFINE d == leaves[i]
  <2>1. KeptOK(i) /\ d \in Elements BY <1>1, LeafFacts DEF RoInv
  <2>2. d = leaves'[i] BY <1>1
  <2>3. /\ PlacedOK(d) /\ (d.base \notin KNOWN_FIELDS => ElementName(d) \in unknown)
        /\ d.base \in KNOWN_FIELDS /\ Len(d.idx) = 1 => Slot(d).line[1] \in labor
        /\ d.base \in KNOWN_FIELDS /\ Len(d.idx) = 2 => Slot(d).line \in parts
    BY <2>1 DEF KeptOK
  <2>4. /\ d.base \notin KNOWN_FIELDS => ElementName(d) \in unknown'
        /\ d.base \in KNOWN_FIELDS /\ Len(d.idx) = 1 => Slot(d).line[1] \in labor'
        /\ d.base \in KNOWN_FIELDS /\ Len(d.idx) = 2 => Slot(d).line \in parts'
    BY <1>4, <2>3
  <2>5. ASSUME Slot(d) = Slot(e) PROVE \E j \in i + 1 .. at' : Slot(leaves'[j]) = Slot(d)
    <3>1. n \in i + 1 .. at' /\ leaves'[n] = e BY <1>1, <1>6 DEF e
    <3>2. QED BY <2>5, <3>1
  <2>6. \/ d.base \notin KNOWN_FIELDS
        \/ d.base \in PII_FIELDS /\ d.base \in DOMAIN pii' /\ pii'[d.base] = d.text
        \/ /\ d.base \in DETERMINISTIC_FIELDS
           /\ Slot(d) \in DOMAIN det' /\ det'[Slot(d)] = Parsed(d)
        \/ \E j \in 1 .. Len(semantic') : semantic'[j] = d
        \/ \E j \in i + 1 .. at' : Slot(leaves'[j]) = Slot(d)
    <3>1. CASE d.base \in PII_FIELDS /\ d.base \in DOMAIN pii /\ pii[d.base] = d.text
      <4>1. CASE e.base = d.base
        <5>1. Len(d.idx) = 0 /\ Len(e.idx) = 0 BY <1>1, <2>3, <3>1, <4>1 DEF PlacedOK
        <5>2. Slot(d).line = <<>> /\ Slot(e).line = <<>>
          BY <1>1, <2>1, <2>3, <5>1, LineNumbers DEF PlacedOK
        <5>3. Slot(d) = Slot(e) BY <4>1, <5>2 DEF Slot
        <5>4. QED BY <2>5, <5>3
      <4>2. CASE e.base # d.base BY <1>2, <3>1, <4>2
      <4>3. QED BY <4>1, <4>2
    <3>2. CASE d.base \in DETERMINISTIC_FIELDS /\ Slot(d) \in DOMAIN det /\ det[Slot(d)] = Parsed(d)
      <4>1. CASE Slot(d) = Slot(e) BY <2>5, <4>1
      <4>2. CASE Slot(d) # Slot(e) BY <1>3, <3>2, <4>2
      <4>3. QED BY <4>1, <4>2
    <3>3. CASE \E j \in 1 .. Len(semantic) : semantic[j] = d BY <1>7, <3>3
    <3>4. CASE \E j \in i + 1 .. at : Slot(leaves[j]) = Slot(d)
      <4>1. PICK j \in i + 1 .. at : Slot(leaves[j]) = Slot(d) BY <3>4
      <4>2. j \in i + 1 .. at' /\ leaves'[j] = leaves[j] BY <1>1, <1>6
      <4>3. QED BY <4>1, <4>2
    <3>5. CASE d.base \notin KNOWN_FIELDS BY <3>5
    <3>6. QED BY <2>1, <3>1, <3>2, <3>3, <3>4, <3>5 DEF KeptOK
  <2> HIDE DEF d
  <2>7. QED BY <2>2, <2>3, <2>4, <2>6 DEF KeptOK
<1>9. ASSUME NEW i \in 1 .. at', i \notin 1 .. at PROVE KeptOK(i)'
  <2>1. e = leaves'[i]
    <3>1. i = at + 1 BY <1>1, <1>6, <1>9
    <3>2. QED BY <1>1, <3>1 DEF e
  <2>2. /\ e.base \notin KNOWN_FIELDS => ElementName(e) \in unknown'
        /\ e.base \in KNOWN_FIELDS /\ Len(e.idx) = 1 => Slot(e).line[1] \in labor'
        /\ e.base \in KNOWN_FIELDS /\ Len(e.idx) = 2 => Slot(e).line \in parts'
    BY <1>4
  <2>3. \/ e.base \notin KNOWN_FIELDS
        \/ e.base \in PII_FIELDS /\ e.base \in DOMAIN pii' /\ pii'[e.base] = e.text
        \/ /\ e.base \in DETERMINISTIC_FIELDS
           /\ Slot(e) \in DOMAIN det' /\ det'[Slot(e)] = Parsed(e)
        \/ \E j \in 1 .. Len(semantic') : semantic'[j] = e
    <3>1. CASE e.base \in PII_FIELDS BY <1>2, <3>1
    <3>2. CASE e.base \in DETERMINISTIC_FIELDS BY <1>3, <3>2
    <3>3. CASE IsSemantic(e)
      <4>1. Len(semantic) + 1 \in 1 .. Len(semantic') /\ semantic'[Len(semantic) + 1] = e
        BY <1>5, <1>6, <3>3
      <4>2. QED BY <4>1
    <3>4. QED BY <3>1, <3>2, <3>3 DEF IsSemantic
  <2>4. QED BY <1>1, <2>1, <2>2, <2>3 DEF KeptOK
<1>10. QED BY <1>8, <1>9

LEMMA RouteOrigin ==
  ASSUME RoAssumption, RoInv, RouteElement
  PROVE  OriginOK'
<1> DEFINE e == leaves[at + 1]
<1>1. /\ at < Len(leaves) /\ e \in Elements /\ at' = at + 1 /\ UNCHANGED leaves /\ PlacedOK(e)
  BY RouteFacts
<1>2. OriginOK /\ at \in Nat /\ semantic \in Seq(Elements) BY LeafFacts DEF RoInv
<1>3. /\ at + 1 \in 1 .. at' /\ leaves'[at + 1] = e
      /\ \A i \in 1 .. at : i \in 1 .. at' /\ leaves'[i] = leaves[i]
      /\ \A i \in 1 .. at : \A j \in i + 1 .. at' : j = at + 1 \/ j \in i + 1 .. at
      /\ (at + 1) + 1 .. at' = {}
  BY <1>1, <1>2
<1> HIDE DEF e
<1>4. \A f \in DOMAIN pii' : \E i \in 1 .. at' : leaves'[i].base = f /\ leaves'[i].text = pii'[f]
  <2>1. /\ DOMAIN pii' = IF e.base \in PII_FIELDS THEN DOMAIN pii \cup {e.base} ELSE DOMAIN pii
        /\ \A f \in DOMAIN pii' :
             pii'[f] = IF e.base \in PII_FIELDS /\ f = e.base THEN e.text ELSE pii[f]
    BY RouteFacts DEF e
  <2>2. ASSUME NEW f \in DOMAIN pii'
        PROVE  \E i \in 1 .. at' : leaves'[i].base = f /\ leaves'[i].text = pii'[f]
    <3>1. CASE e.base \in PII_FIELDS /\ f = e.base BY <1>3, <2>1, <3>1
    <3>2. CASE ~(e.base \in PII_FIELDS /\ f = e.base)
      <4>1. f \in DOMAIN pii /\ pii'[f] = pii[f] BY <2>1, <3>2
      <4>2. PICK i \in 1 .. at : leaves[i].base = f /\ leaves[i].text = pii[f]
        BY <1>2, <4>1 DEF OriginOK
      <4>3. QED BY <1>3, <4>1, <4>2
    <3>3. QED BY <3>1, <3>2
  <2>3. QED BY <2>2
<1>5. \A s \in DOMAIN det' :
        \E i \in 1 .. at' :
          /\ Slot(leaves'[i]) = s /\ det'[s] = Parsed(leaves'[i])
          /\ \A j \in i + 1 .. at' : Slot(leaves'[j]) # s
  <2>1. /\ DOMAIN det' = IF e.base \in DETERMINISTIC_FIELDS THEN DOMAIN det \cup {Slot(e)} ELSE DOMAIN det
        /\ \A s \in DOMAIN det' :
             det'[s] = IF e.base \in DETERMINISTIC_FIELDS /\ s = Slot(e) THEN Parsed(e) ELSE det[s]
    BY RouteFacts DEF e
  <2>2. ASSUME NEW s \in DOMAIN det'
        PROVE  \E i \in 1 .. at' :
                 /\ Slot(leaves'[i]) = s /\ det'[s] = Parsed(leaves'[i])
                 /\ \A j \in i + 1 .. at' : Slot(leaves'[j]) # s
    <3>1. CASE e.base \in DETERMINISTIC_FIELDS /\ s = Slot(e) BY <1>3, <2>1, <3>1
    <3>2. CASE ~(e.base \in DETERMINISTIC_FIELDS /\ s = Slot(e))
      <4>1. s \in DOMAIN det /\ det'[s] = det[s] BY <2>1, <3>2
      <4>2. PICK i \in 1 .. at :
              /\ Slot(leaves[i]) = s /\ det[s] = Parsed(leaves[i])
              /\ \A j \in i + 1 .. at : Slot(leaves[j]) # s
        BY <1>2, <4>1 DEF OriginOK
      <4>3. s # Slot(e)
        <5>1. s.field \in DETERMINISTIC_FIELDS BY <4>1 DEF RoInv, RoTypeOK
        <5>2. Slot(e).field = e.base BY <1>1, ElementFacts
        <5>3. QED BY <3>2, <5>1, <5>2
      <4>4. \A j \in i + 1 .. at' : Slot(leaves'[j]) # s
        <5>1. SUFFICES ASSUME NEW j \in i + 1 .. at' PROVE Slot(leaves'[j]) # s OBVIOUS
        <5>2. CASE j = at + 1 BY <1>3, <4>3, <5>2
        <5>3. CASE j \in i + 1 .. at BY <1>1, <4>2, <5>3
        <5>4. QED BY <1>3, <5>2, <5>3
      <4>5. Slot(leaves'[i]) = s /\ det'[s] = Parsed(leaves'[i]) /\ i \in 1 .. at'
        BY <1>3, <4>1, <4>2
      <4>6. QED BY <4>4, <4>5
    <3>3. QED BY <3>1, <3>2
  <2>3. QED BY <2>2
<1>6. /\ labor' = IF e.base \in KNOWN_FIELDS /\ Len(e.idx) = 1
                    THEN labor \cup {Slot(e).line[1]} ELSE labor
      /\ parts' = IF e.base \in KNOWN_FIELDS /\ Len(e.idx) = 2
                    THEN parts \cup {Slot(e).line} ELSE parts
      /\ unknown' = IF e.base \in KNOWN_FIELDS THEN unknown ELSE unknown \cup {ElementName(e)}
      /\ semantic' = IF IsSemantic(e) THEN Append(semantic, e) ELSE semantic
  BY RouteFacts DEF e
<1>7. \A l \in labor' :
        \E i \in 1 .. at' :
          leaves'[i].base \in KNOWN_FIELDS /\ Len(leaves'[i].idx) = 1 /\ Slot(leaves'[i]).line[1] = l
  <2>1. ASSUME NEW l \in labor
        PROVE  \E i \in 1 .. at' :
                 leaves'[i].base \in KNOWN_FIELDS /\ Len(leaves'[i].idx) = 1 /\ Slot(leaves'[i]).line[1] = l
    <3>1. PICK i \in 1 .. at :
            leaves[i].base \in KNOWN_FIELDS /\ Len(leaves[i].idx) = 1 /\ Slot(leaves[i]).line[1] = l
      BY <1>2 DEF OriginOK
    <3>2. QED BY <1>3, <3>1
  <2>2. CASE e.base \in KNOWN_FIELDS /\ Len(e.idx) = 1
    <3>1. \A l \in labor' : l \in labor \/ l = Slot(leaves'[at + 1]).line[1] BY <1>3, <1>6, <2>2
    <3>2. leaves'[at + 1].base \in KNOWN_FIELDS /\ Len(leaves'[at + 1].idx) = 1 BY <1>3, <2>2
    <3>3. QED BY <1>3, <2>1, <3>1, <3>2
  <2>3. CASE ~(e.base \in KNOWN_FIELDS /\ Len(e.idx) = 1) BY <1>6, <2>1, <2>3
  <2>4. QED BY <2>2, <2>3
<1>8. \A p \in parts' :
        \E i \in 1 .. at' :
          leaves'[i].base \in KNOWN_FIELDS /\ Len(leaves'[i].idx) = 2 /\ Slot(leaves'[i]).line = p
  <2>1. ASSUME NEW p \in parts
        PROVE  \E i \in 1 .. at' :
                 leaves'[i].base \in KNOWN_FIELDS /\ Len(leaves'[i].idx) = 2 /\ Slot(leaves'[i]).line = p
    <3>1. PICK i \in 1 .. at :
            leaves[i].base \in KNOWN_FIELDS /\ Len(leaves[i].idx) = 2 /\ Slot(leaves[i]).line = p
      BY <1>2 DEF OriginOK
    <3>2. QED BY <1>3, <3>1
  <2>2. CASE e.base \in KNOWN_FIELDS /\ Len(e.idx) = 2
    <3>1. \A p \in parts' : p \in parts \/ p = Slot(leaves'[at + 1]).line BY <1>3, <1>6, <2>2
    <3>2. leaves'[at + 1].base \in KNOWN_FIELDS /\ Len(leaves'[at + 1].idx) = 2 BY <1>3, <2>2
    <3>3. QED BY <1>3, <2>1, <3>1, <3>2
  <2>3. CASE ~(e.base \in KNOWN_FIELDS /\ Len(e.idx) = 2) BY <1>6, <2>1, <2>3
  <2>4. QED BY <2>2, <2>3
<1>9. /\ Append(semantic, e) \in Seq(Elements) /\ Len(Append(semantic, e)) = Len(semantic) + 1
      /\ \A j \in 1 .. Len(semantic) : Append(semantic, e)[j] = semantic[j]
      /\ Append(semantic, e)[Len(semantic) + 1] = e
      /\ Len(semantic) \in Nat
  BY <1>1, <1>2, AppendProperties, LenProperties
<1>10. semantic' \in Seq(Elements) BY <1>2, <1>6, <1>9
<1>11. \A j \in 1 .. Len(semantic') : \E i \in 1 .. at' : leaves'[i] = semantic'[j] /\ IsSemantic(leaves'[i])
  <2>1. ASSUME NEW j \in 1 .. Len(semantic)
        PROVE  \E i \in 1 .. at' : leaves'[i] = semantic[j] /\ IsSemantic(leaves'[i])
    <3>1. PICK i \in 1 .. at : leaves[i] = semantic[j] /\ IsSemantic(leaves[i])
      BY <1>2 DEF OriginOK, IsSemantic
    <3>2. QED BY <1>3, <3>1
  <2>2. CASE IsSemantic(e)
    <3>1. \A j \in 1 .. Len(semantic') : j \in 1 .. Len(semantic) \/ j = Len(semantic) + 1
      BY <1>6, <1>9, <2>2
    <3>2. semantic'[Len(semantic) + 1] = e /\ \A j \in 1 .. Len(semantic) : semantic'[j] = semantic[j]
      BY <1>6, <1>9, <2>2
    <3>3. leaves'[at + 1] = e /\ IsSemantic(leaves'[at + 1]) BY <1>3, <2>2
    <3>4. QED BY <1>3, <2>1, <3>1, <3>2, <3>3
  <2>3. CASE ~IsSemantic(e) BY <1>6, <2>1, <2>3
  <2>4. QED BY <2>2, <2>3
<1>12. IsFiniteSet(labor') /\ IsFiniteSet(parts')
  <2>1. IsFiniteSet(labor) /\ IsFiniteSet(parts) BY <1>2 DEF OriginOK
  <2>2. IsFiniteSet(labor \cup {Slot(e).line[1]}) /\ IsFiniteSet(parts \cup {Slot(e).line})
    BY <2>1, FS_AddElement
  <2>3. QED BY <1>6, <2>1, <2>2
<1>13. \A m \in unknown' : \E i \in 1 .. at' : leaves'[i].base \notin KNOWN_FIELDS
  <2>1. CASE e.base \in KNOWN_FIELDS
    <3>1. unknown' = unknown BY <1>6, <2>1
    <3>2. ASSUME NEW m \in unknown' PROVE \E i \in 1 .. at' : leaves'[i].base \notin KNOWN_FIELDS
      <4>1. PICK i \in 1 .. at : leaves[i].base \notin KNOWN_FIELDS BY <1>2, <3>1 DEF OriginOK
      <4>2. QED BY <1>3, <4>1
    <3>3. QED BY <3>2
  <2>2. CASE e.base \notin KNOWN_FIELDS BY <1>3, <2>2
  <2>3. QED BY <2>1, <2>2
<1>14. QED BY <1>4, <1>5, <1>7, <1>8, <1>10, <1>11, <1>12, <1>13 DEF OriginOK, IsSemantic

LEMMA StepRoute ==
  ASSUME RoAssumption, RoInv, RouteElement
  PROVE  RoInv'
<1>1. stage = "route" /\ stage' = "route" /\ UNCHANGED <<doc, read, leaves>> BY RouteFacts
<1>2. LeavesOK' BY <1>1 DEF RoInv, LeavesOK
<1>3. PhaseOK' BY <1>1 DEF PhaseOK
<1>4. CheckedOK' BY <1>1, EarlyChecked DEF Early
<1>5. QED BY <1>2, <1>3, <1>4, RouteType, RouteKept, RouteOrigin DEF RoInv

-----------------------------------------------------------------------------
(***************************************************************************)
(* The checks.                                                             *)
(***************************************************************************)

\* Numbers are kept as numbers.
LEMMA NumbersKept ==
  ASSUME RoAssumption, RoInv, NEW s \in DOMAIN det, s.field \in NumberFields
  PROVE  det[s] \in Int
<1>1. PICK i \in 1 .. at : Slot(leaves[i]) = s /\ det[s] = Parsed(leaves[i])
  BY DEF RoInv, OriginOK
<1>2. leaves[i] \in Elements BY LeafFacts
<1>3. leaves[i].base = s.field BY <1>1, <1>2, ElementFacts
<1>4. leaves[i].base \in DETERMINISTIC_FIELDS /\ PlacedOK(leaves[i])
  BY <1>3 DEF RoInv, RoTypeOK, KeptOK
<1>5. Parsed(leaves[i]) \in Int BY <1>3, <1>4 DEF PlacedOK
<1>6. QED BY <1>1, <1>5

LEMMA AmountFields ==
  /\ {"ACTUAL_HOURS", "LABOR_RATE", "LABOR_EXTENDED_AMOUNT", "PART_QUANTITY", "PART_UNIT_PRICE",
      "PART_EXTENDED_PRICE"} \subseteq NumberFields
  /\ TotalFields \subseteq NumberFields
BY DEF NumberFields

\* What each check is, by its number.
LEMMA CheckNames ==
  /\ Checks[1] = "known" /\ Checks[2] = "screened" /\ Checks[3] = "header" /\ Checks[4] = "ro_number"
  /\ Checks[5] = "labor_indices" /\ Checks[6] = "part_parents" /\ Checks[7] = "part_indices"
  /\ Checks[8] = "part_descriptions" /\ Checks[9] = "labor_amounts" /\ Checks[10] = "part_amounts"
  /\ Checks[11] = "labor_total" /\ Checks[12] = "parts_total" /\ Checks[13] = "fees"
  /\ Checks[14] = "grand_total" /\ Checks[15] = "content" /\ Checks[16] = "deterministic_leak"
  /\ Checks[17] = "semantic_leak"
BY DEF Checks

LEMMA CheckPassed ==
  ASSUME NEW k \in 1 .. 17, stage = Checks[k], Passes(stage, TRUE)
  PROVE  Decided(k)
<1>3. ASSUME k = 1 PROVE unknown = {}
  <2>1. stage = "known" BY <1>3, CheckNames
  <2>2. QED BY <2>1 DEF Passes
<1>4. ASSUME k = 5 PROVE labor # {} /\ Contiguous(labor)
  <2>1. stage = "labor_indices" BY <1>4, CheckNames
  <2>2. QED BY <2>1 DEF Passes
<1>5. ASSUME k = 6 PROVE \A p \in parts : p[1] \in labor
  <2>1. stage = "part_parents" BY <1>5, CheckNames
  <2>2. QED BY <2>1 DEF Passes
<1>6. ASSUME k = 7 PROVE \A l \in labor : Contiguous(PartIndices(l))
  <2>1. stage = "part_indices" BY <1>6, CheckNames
  <2>2. QED BY <2>1 DEF Passes
<1>7. ASSUME k = 9 PROVE \A l \in labor : LaborPriced(l, TRUE)
  <2>1. stage = "labor_amounts" BY <1>7, CheckNames
  <2>2. QED BY <2>1 DEF Passes
<1>8. ASSUME k = 10 PROVE \A p \in parts : PartPriced(p, TRUE)
  <2>1. stage = "part_amounts" BY <1>8, CheckNames
  <2>2. QED BY <2>1 DEF Passes
<1>11. ASSUME k = 11 PROVE TotalAgrees("LABOR_TOTAL", LaborComputed, TRUE)
  <2>1. stage = "labor_total" BY <1>11, CheckNames
  <2>2. QED BY <2>1 DEF Passes
<1>12. ASSUME k = 12 PROVE TotalAgrees("PARTS_TOTAL", PartsComputed, TRUE)
  <2>1. stage = "parts_total" BY <1>12, CheckNames
  <2>2. QED BY <2>1 DEF Passes
<1>13. ASSUME k = 13
       PROVE  \A f \in {"SHOP_FEES", "ENVIRONMENTAL_FEES", "TAX_TOTAL", "DISCOUNT_TOTAL"} : Has(f, <<>>)
  <2>1. stage = "fees" BY <1>13, CheckNames
  <2>2. QED BY <2>1 DEF Passes
<1>14. ASSUME k = 14 PROVE TotalAgrees("GRAND_TOTAL", GrandComputed, TRUE)
  <2>1. stage = "grand_total" BY <1>14, CheckNames
  <2>2. QED BY <2>1 DEF Passes
<1>15. QED BY <1>3, <1>4, <1>5, <1>6, <1>7, <1>8, <1>11, <1>12, <1>13, <1>14 DEF Decided

\* What was decided stays decided.
LEMMA DecisionsStay ==
  ASSUME UNCHANGED <<unknown, det, labor, parts>>, NEW i \in 1 .. 17, Decided(i)
  PROVE  Decided(i)'
<1>1. /\ i = 1 => unknown' = {}
      /\ i = 5 => labor' # {} /\ Contiguous(labor')
      /\ i = 6 => \A p \in parts' : p[1] \in labor'
  BY DEF Decided
<1>2. i = 7 => \A l \in labor' : Contiguous(PartIndices(l))'
  BY DEF Decided, PartIndices
<1>3. /\ i = 9 => \A l \in labor' : LaborPriced(l, TRUE)'
      /\ i = 10 => \A p \in parts' : PartPriced(p, TRUE)'
  BY DEF Decided, LaborPriced, PartPriced, Has, Value
<1>4. LaborComputed' = LaborComputed /\ PartsComputed' = PartsComputed
  BY DEF LaborComputed, PartsComputed, Value
<1>5. GrandComputed' = GrandComputed BY <1>4 DEF GrandComputed, Value
<1>6. /\ i = 11 => TotalAgrees("LABOR_TOTAL", LaborComputed, TRUE)'
      /\ i = 12 => TotalAgrees("PARTS_TOTAL", PartsComputed, TRUE)'
      /\ i = 14 => TotalAgrees("GRAND_TOTAL", GrandComputed, TRUE)'
  BY <1>4, <1>5 DEF Decided, TotalAgrees, Has, Value
<1>7. i = 13 =>
        \A f \in {"SHOP_FEES", "ENVIRONMENTAL_FEES", "TAX_TOTAL", "DISCOUNT_TOTAL"} : Has(f, <<>>)'
  BY DEF Decided, Has
<1>8. QED BY <1>1, <1>2, <1>3, <1>6, <1>7 DEF Decided

LEMMA StepPass ==
  ASSUME RoAssumption, RoInv, Pass
  PROVE  RoInv'
<1>1. UNCHANGED <<doc, read, leaves, at, seen, unknown, pii, det, labor, parts, semantic>>
  BY DEF Pass, payloads
<1>2. PICK k \in 1 .. 17 : stage = Checks[k] BY ChecksDiffer DEF Pass
<1>3. stage' = After(Checks[k]) /\ Passes(stage, TRUE) BY <1>2 DEF Pass
<1>4. stage' \in Stages /\ PhaseOK'
  <2>1. stage' = "accepted" \/ \E j \in 1 .. 17 : stage' = Checks[j] BY <1>3, AfterNext
  <2>2. at = Len(leaves) BY <1>2, ChecksDiffer DEF RoInv, PhaseOK
  <2>3. QED BY <1>1, <2>1, <2>2, ChecksDiffer DEF PhaseOK, Stages
<1>5. CheckedOK'
  <2>1. Decided(k) BY <1>2, <1>3, CheckPassed
  <2>2. ASSUME NEW i \in 1 .. 17, Behind(stage', i) PROVE Decided(i)
    <3>1. Behind(stage, i) \/ i = k BY <1>2, <1>3, <2>2, BehindNext
    <3>2. Behind(stage, i) => Decided(i) BY DEF RoInv, CheckedOK, Passed
    <3>3. QED BY <2>1, <3>1, <3>2
  <2>3. ASSUME NEW i \in 1 .. 17, Decided(i) PROVE Decided(i)' BY <1>1, <2>3, DecisionsStay
  <2>4. QED BY <2>2, <2>3 DEF CheckedOK, Passed
<1>6. QED BY <1>1, <1>4, <1>5, StageOnly

LEMMA StepFail ==
  ASSUME RoInv, Fail
  PROVE  RoInv'
<1>1. UNCHANGED <<doc, read, leaves, at, seen, unknown, pii, det, labor, parts, semantic>>
  BY DEF Fail, payloads
<1>2. stage' = "refused" BY DEF Fail
<1>3. PhaseOK' BY <1>2 DEF PhaseOK
<1>4. CheckedOK' BY <1>2, EarlyChecked DEF Early
<1>5. QED BY <1>1, <1>2, <1>3, <1>4, StageOnly DEF Stages

-----------------------------------------------------------------------------
(***************************************************************************)
(* The invariant holds, and what follows for an accepted document.         *)
(***************************************************************************)
LEMMA InvStep ==
  ASSUME RoAssumption, RoInv, [RoNext]_roVars
  PROVE  RoInv'
<1>1. CASE ReadElement BY <1>1, StepRead
<1>2. CASE RefuseNested \/ Extracted \/ RefuseElement BY <1>2, StepEarly
<1>3. CASE RouteElement BY <1>3, StepRoute
<1>4. CASE Routed BY <1>4, StepRouted
<1>5. CASE Pass BY <1>5, StepPass
<1>6. CASE Fail BY <1>6, StepFail
<1>7. CASE UNCHANGED roVars
  <2>1. /\ UNCHANGED <<doc, read, leaves, at, seen, unknown, pii, det, labor, parts, semantic>>
        /\ stage' = stage
    BY <1>7 DEF roVars, payloads
  <2>2. stage' \in Stages /\ PhaseOK' BY <2>1 DEF RoInv, RoTypeOK, PhaseOK, Stages
  <2>3. ASSUME NEW i \in 1 .. 17, Decided(i) PROVE Decided(i)'
    BY <2>1, <2>3, DecisionsStay
  <2>4. CheckedOK' BY <2>1, <2>3 DEF RoInv, CheckedOK, Passed
  <2>5. QED BY <2>1, <2>2, <2>4, StageOnly
<1>8. QED BY <1>1, <1>2, <1>3, <1>4, <1>5, <1>6, <1>7 DEF RoNext

LEMMA InvHolds == RoSpec => []RoInv
<1>1. RoInit => RoInv BY InvInit, RoAssumption
<1>2. RoInv /\ [RoNext]_roVars => RoInv' BY InvStep, RoAssumption
<1>3. QED BY <1>1, <1>2, PTL DEF RoSpec

\* Types: the elements routed are those whose names were seen, the payloads
\* hold fields of their class, and lines have numbers of at least one
\* (routeXmlToPayloads).
THEOREM RoTypeCorrect == RoSpec => []RoTypeOK
<1>1. RoInv => RoTypeOK BY DEF RoInv
<1>2. QED BY <1>1, InvHolds, PTL

\* Every element the parser reads is kept, for documents of any length
\* (routeXmlToPayloads): a leaf stays where it was put until another spelling
\* of its name replaces it, and an accepted document has no unknown name.
THEOREM NothingGetsLost == RoSpec => []NothingIsLost
<1>1. RoInv => NothingIsLost
  <2> SUFFICES ASSUME RoInv, stage = "accepted", NEW i \in DOMAIN leaves
               PROVE  LET e == leaves[i]
                      IN \/ e.base \in PII_FIELDS /\ pii[e.base] = e.text
                         \/ /\ e.base \in DETERMINISTIC_FIELDS
                            /\ Slot(e) \in DOMAIN det /\ det[Slot(e)] = Parsed(e)
                         \/ /\ \E j \in DOMAIN semantic : semantic[j] = e
                            /\ Len(e.idx) = 1 => Slot(e).line[1] \in labor
                            /\ Len(e.idx) = 2 => Slot(e).line \in parts
                         \/ \E j \in i + 1 .. Len(leaves) : Slot(leaves[j]) = Slot(e)
    BY DEF NothingIsLost
  <2>1. /\ at = Len(leaves) /\ i \in 1 .. at /\ DOMAIN semantic = 1 .. Len(semantic)
    BY LeafFacts DEF RoInv, PhaseOK
  <2>2. unknown = {}
    <3>1. Passed(1) BY DEF Passed, Behind
    <3>2. Decided(1) BY <3>1 DEF RoInv, CheckedOK
    <3>3. QED BY <3>2 DEF Decided
  <2>3. KeptOK(i) BY <2>1 DEF RoInv
  <2>4. leaves[i].base \in KNOWN_FIELDS BY <2>2, <2>3 DEF KeptOK
  <2>5. QED BY <2>1, <2>3, <2>4 DEF KeptOK
<1>2. QED BY <1>1, InvHolds, PTL

\* A set of numbers from 1 that passes ensureContiguousIndices has no gap.
LEMMA NoGap ==
  ASSUME NEW S \in SUBSET (Nat \ {0}), Contiguous(S), NEW n \in S
  PROVE  1 .. n \subseteq S
<1> DEFINE T == {m \in S : m <= n}
<1>1. Cardinality(T) = n BY DEF Contiguous
<1>2. T \in SUBSET (1 .. n)
  <2>1. n \in Nat BY Zenon
  <2>2. \A m \in S : m \in Nat /\ m # 0 BY Zenon
  <2>3. \A m \in S : m <= n => m \in 1 .. n BY <2>1, <2>2
  <2>4. QED BY <2>3, Zenon
<1>3. IsFiniteSet(1 .. n) /\ Cardinality(1 .. n) = n BY FS_Interval
<1>4. T = 1 .. n
  <2> HIDE DEF T
  <2>1. QED BY <1>1, <1>2, <1>3, FS_Subset
<1>5. QED BY <1>4

\* Once all is routed and no name was unknown, the lines of the payload are
\* the lines of the document.
LEMMA LinesRouted ==
  ASSUME RoAssumption, RoInv, at = Len(leaves), \A i \in 1 .. Len(leaves) : leaves[i].base \in KNOWN_FIELDS
  PROVE  LaborLines = labor /\ PartLines = parts
<1>1. /\ Len(leaves) \in Nat /\ DOMAIN leaves = 1 .. Len(leaves)
      /\ \A i \in 1 .. Len(leaves) : leaves[i] \in Elements
  BY LeafFacts
<1>2. \A i \in 1 .. Len(leaves) : Len(Slot(leaves[i]).line) = Len(leaves[i].idx)
  BY <1>1, ElementFacts
<1>3. ASSUME NEW l \in LaborLines PROVE l \in labor
  <2>1. PICK i \in DOMAIN leaves : Len(Slot(leaves[i]).line) = 1 /\ l = Slot(leaves[i]).line[1]
    BY DEF LaborLines, Places
  <2>2. KeptOK(i) /\ Len(leaves[i].idx) = 1 BY <1>1, <1>2, <2>1 DEF RoInv
  <2>3. QED BY <1>1, <2>1, <2>2 DEF KeptOK
<1>4. ASSUME NEW p \in PartLines PROVE p \in parts
  <2>1. PICK i \in DOMAIN leaves : Len(Slot(leaves[i]).line) = 2 /\ p = Slot(leaves[i]).line
    BY DEF PartLines, Places
  <2>2. KeptOK(i) /\ Len(leaves[i].idx) = 2 BY <1>1, <1>2, <2>1 DEF RoInv
  <2>3. QED BY <1>1, <2>1, <2>2 DEF KeptOK
<1>5. ASSUME NEW l \in labor PROVE l \in LaborLines
  <2>1. PICK i \in 1 .. at : Len(leaves[i].idx) = 1 /\ Slot(leaves[i]).line[1] = l
    BY DEF RoInv, OriginOK
  <2>2. Slot(leaves[i]) \in {q \in Places : Len(q.line) = 1} BY <1>1, <1>2, <2>1 DEF Places
  <2>3. QED BY <2>1, <2>2 DEF LaborLines
<1>6. ASSUME NEW p \in parts PROVE p \in PartLines
  <2>1. PICK i \in 1 .. at : Len(leaves[i].idx) = 2 /\ Slot(leaves[i]).line = p
    BY DEF RoInv, OriginOK
  <2>2. Slot(leaves[i]) \in {q \in Places : Len(q.line) = 2} BY <1>1, <1>2, <2>1 DEF Places
  <2>3. QED BY <2>1, <2>2 DEF PartLines
<1>7. QED BY <1>3, <1>4, <1>5, <1>6

\* An accepted document.
LEMMA Accepted ==
  ASSUME RoAssumption, RoInv, stage = "accepted"
  PROVE  /\ at = Len(leaves) /\ \A i \in 1 .. 17 : Decided(i)
         /\ LaborLines = labor /\ PartLines = parts
<1>1. at = Len(leaves) BY DEF RoInv, PhaseOK
<1>2. \A i \in 1 .. 17 : Decided(i) BY DEF RoInv, CheckedOK, Passed, Behind
<1>3. unknown = {}
  <2>1. Decided(1) BY <1>2
  <2>2. QED BY <2>1 DEF Decided
<1>4. ASSUME NEW i \in 1 .. Len(leaves) PROVE leaves[i].base \in KNOWN_FIELDS
  <2>1. KeptOK(i) BY <1>1 DEF RoInv
  <2>2. QED BY <1>3, <2>1 DEF KeptOK
<1>5. QED BY <1>1, <1>2, <1>4, LinesRouted

\* The lines of an accepted document are numbered from 1 without a gap, and
\* so are the parts of each line, for any number of lines (validateLineItems).
THEOREM LinesStayDense == RoSpec => []LinesAreDense
<1>1. RoInv => LinesAreDense
  <2> SUFFICES ASSUME RoInv, stage = "accepted"
               PROVE  /\ LaborLines # {}
                      /\ \A l \in LaborLines : 1 .. l \subseteq LaborLines
                      /\ \A p \in PartLines :
                           p[1] \in LaborLines /\ \A m \in 1 .. p[2] : <<p[1], m>> \in PartLines
    BY DEF LinesAreDense
  <2>1. /\ Decided(5) /\ Decided(6) /\ Decided(7) /\ LaborLines = labor /\ PartLines = parts
    BY RoAssumption, Accepted
  <2>2. labor \subseteq Nat \ {0} /\ parts \subseteq (Nat \ {0}) \X (Nat \ {0})
    BY DEF RoInv, RoTypeOK
  <2>3. labor # {} /\ Contiguous(labor) BY <2>1 DEF Decided
  <2>4. \A l \in labor : 1 .. l \subseteq labor BY <2>2, <2>3, NoGap
  <2>5. ASSUME NEW p \in parts PROVE p[1] \in labor /\ \A m \in 1 .. p[2] : <<p[1], m>> \in parts
    <3>1. p[1] \in labor BY <2>1 DEF Decided
    <3>2. Contiguous(PartIndices(p[1])) BY <2>1, <3>1 DEF Decided
    <3>3. p[2] \in PartIndices(p[1]) BY DEF PartIndices
    <3>4. PartIndices(p[1]) \in SUBSET (Nat \ {0}) BY <2>2 DEF PartIndices
    <3>5. 1 .. p[2] \subseteq PartIndices(p[1]) BY <3>2, <3>3, <3>4, NoGap
    <3>6. \A m \in PartIndices(p[1]) : <<p[1], m>> \in parts BY <2>2 DEF PartIndices
    <3>7. QED BY <3>1, <3>5, <3>6
  <2>6. QED BY <2>1, <2>3, <2>4, <2>5
<1>2. QED BY <1>1, InvHolds, PTL

=============================================================================
