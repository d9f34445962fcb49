--------------------------- MODULE RoAmountProofs ---------------------------
(***************************************************************************)
(* Theorems about the amounts of RoDocument and about its refusals, on the *)
(* invariant of RoDocumentProofs.                                          *)
(***************************************************************************)
EXTENDS RoDocumentProofs

-----------------------------------------------------------------------------
(***************************************************************************)
(* What the payloads hold is what the elements say.                        *)
(***************************************************************************)

LEMMA MaxIs ==
  ASSUME NEW S \in SUBSET Int, NEW m \in S, \A n \in S : m >= n
  PROVE  Max(S) = m
<1>1. \A n \in S : (\A k \in S : n >= k) => n = m OBVIOUS
<1>2. QED BY <1>1 DEF Max

\* Once all is routed, the value of a slot is the text the elements give it.
LEMMA TextIsValue ==
  ASSUME RoAssumption, RoInv, at = Len(leaves), NEW field, NEW line, Has(field, line)
  PROVE  Text(field, line) = Value(field, line)
<1> DEFINE s == [field |-> field, line |-> line]
<1> DEFINE places == {i \in DOMAIN leaves : Slot(leaves[i]) = s}
<1>1. DOMAIN leaves = 1 .. Len(leaves) /\ Len(leaves) \in Nat BY LeafFacts
<1>2. s \in DOMAIN det BY DEF Has
<1> HIDE DEF s
<1>3. PICK i \in 1 .. at :
        /\ Slot(leaves[i]) = s /\ det[s] = Parsed(leaves[i])
        /\ \A j \in i + 1 .. at : Slot(leaves[j]) # s
  BY <1>2 DEF RoInv, OriginOK
<1>4. i \in places /\ places \in SUBSET Int BY <1>1, <1>3
<1>5. \A j \in places : i >= j BY <1>1, <1>3
<1>6. Max(places) = i
  <2> HIDE DEF places
  <2>1. QED BY <1>4, <1>5, MaxIs
<1>7. Text(field, line) = Parsed(leaves[Max(places)]) BY DEF Text, s
<1>8. QED BY <1>3, <1>6, <1>7 DEF Value, s

LEMMA ValueIsNumber ==
  ASSUME RoAssumption, RoInv, NEW field \in NumberFields, NEW line, Has(field, line)
  PROVE  Value(field, line) \in Int
<1> DEFINE s == [field |-> field, line |-> line]
<1>1. s \in DOMAIN det BY DEF Has
<1>2. s.field \in NumberFields OBVIOUS
<1> HIDE DEF s
<1>3. det[s] \in Int BY <1>1, <1>2, NumbersKept
<1>4. QED BY <1>3 DEF Value, s

-----------------------------------------------------------------------------
(***************************************************************************)
(* The amounts of a document whose lines are priced.                       *)
(***************************************************************************)

\* Each line's price is within `off` hundredths of a cent of its hours or its
\* quantity.
LaborWithin(off) ==
  \A l \in labor :
    /\ Has("ACTUAL_HOURS", <<l>>) /\ Has("LABOR_EXTENDED_AMOUNT", <<l>>)
    /\ 100 * Value("LABOR_EXTENDED_AMOUNT", <<l>>) - LABOR_RATE_FIXED * Value("ACTUAL_HOURS", <<l>>) <= off
    /\ LABOR_RATE_FIXED * Value("ACTUAL_HOURS", <<l>>) - 100 * Value("LABOR_EXTENDED_AMOUNT", <<l>>) <= off

PartsWithin(off) ==
  \A p \in parts :
    /\ Has("PART_QUANTITY", p) /\ Has("PART_UNIT_PRICE", p) /\ Has("PART_EXTENDED_PRICE", p)
    /\ 100 * Value("PART_EXTENDED_PRICE", p)
         - Value("PART_QUANTITY", p) * Value("PART_UNIT_PRICE", p) <= off
    /\ Value("PART_QUANTITY", p) * Value("PART_UNIT_PRICE", p)
         - 100 * Value("PART_EXTENDED_PRICE", p) <= off

LEMMA LaborAdds ==
  ASSUME RoAssumption, RoInv, at = Len(leaves), LaborLines = labor, NEW off \in Nat, LaborWithin(off)
  PROVE  /\ LaborComputed \in Int /\ Hours \in Int /\ Cardinality(LaborLines) \in Nat
         /\ 100 * LaborComputed - LABOR_RATE_FIXED * Hours <= off * Cardinality(LaborLines)
         /\ LABOR_RATE_FIXED * Hours - 100 * LaborComputed <= off * Cardinality(LaborLines)
<1> DEFINE f == [l \in labor |-> Value("LABOR_EXTENDED_AMOUNT", <<l>>)]
<1> DEFINE g == [l \in labor |-> Text("ACTUAL_HOURS", <<l>>)]
<1>1. IsFiniteSet(labor) /\ Cardinality(labor) \in Nat
  BY FS_CardinalityType DEF RoInv, OriginOK
<1>2. ASSUME NEW l \in labor
      PROVE  /\ f[l] \in Int /\ g[l] \in Int
             /\ Text("ACTUAL_HOURS", <<l>>) \in Int
             /\ 100 * f[l] - LABOR_RATE_FIXED * g[l] <= off /\ LABOR_RATE_FIXED * g[l] - 100 * f[l] <= off
  <2>1. /\ Has("ACTUAL_HOURS", <<l>>) /\ Has("LABOR_EXTENDED_AMOUNT", <<l>>)
        /\ 100 * Value("LABOR_EXTENDED_AMOUNT", <<l>>) - LABOR_RATE_FIXED * Value("ACTUAL_HOURS", <<l>>) <= off
        /\ LABOR_RATE_FIXED * Value("ACTUAL_HOURS", <<l>>) - 100 * Value("LABOR_EXTENDED_AMOUNT", <<l>>) <= off
    BY DEF LaborWithin
  <2>2. Value("ACTUAL_HOURS", <<l>>) \in Int /\ Value("LABOR_EXTENDED_AMOUNT", <<l>>) \in Int
    BY <2>1, ValueIsNumber, AmountFields
  <2>3. Text("ACTUAL_HOURS", <<l>>) = Value("ACTUAL_HOURS", <<l>>) BY <2>1, TextIsValue
  <2>4. f[l] = Value("LABOR_EXTENDED_AMOUNT", <<l>>) /\ g[l] = Value("ACTUAL_HOURS", <<l>>)
    BY <2>3
  <2>5. QED BY <2>1, <2>2, <2>3, <2>4
<1>3. Hours = SumFunction(g) BY DEF Hours
<1>4. LaborComputed = SumFunction(f) BY DEF LaborComputed
<1>5. f \in [labor -> Int] /\ g \in [labor -> Int] BY <1>2
<1> HIDE DEF f, g
<1>6. SumFunction(f) \in Int /\ SumFunction(g) \in Int BY <1>1, <1>5, SumFacts, Zenon
<1>7. /\ 100 * SumFunction(f) - LABOR_RATE_FIXED * SumFunction(g) <= off * Cardinality(labor)
      /\ LABOR_RATE_FIXED * SumFunction(g) - 100 * SumFunction(f) <= off * Cardinality(labor)
  <2>1. 100 \in Int /\ LABOR_RATE_FIXED \in Int BY DEF LABOR_RATE_FIXED
  <2>2. \A x \in labor : 100 * f[x] - LABOR_RATE_FIXED * g[x] <= off /\ LABOR_RATE_FIXED * g[x] - 100 * f[x] <= off
    BY <1>2
  <2>3. QED BY <1>1, <1>5, <2>1, <2>2, SumCompare, Zenon
<1>8. QED BY <1>1, <1>3, <1>4, <1>6, <1>7

LEMMA PartsAdd ==
  ASSUME RoAssumption, RoInv, at = Len(leaves), PartLines = parts, NEW off \in Nat, PartsWithin(off)
  PROVE  /\ PartsComputed \in Int /\ Goods \in Int /\ Cardinality(PartLines) \in Nat
         /\ 100 * PartsComputed - Goods <= off * Cardinality(PartLines)
         /\ Goods - 100 * PartsComputed <= off * Cardinality(PartLines)
<1> DEFINE f == [p \in parts |-> Value("PART_EXTENDED_PRICE", p)]
<1> DEFINE g == [p \in parts |-> Text("PART_QUANTITY", p) * Text("PART_UNIT_PRICE", p)]
<1>1. IsFiniteSet(parts) /\ Cardinality(parts) \in Nat
  BY FS_CardinalityType DEF RoInv, OriginOK
<1>2. ASSUME NEW p \in parts
      PROVE  /\ f[p] \in Int /\ g[p] \in Int
             /\ Text("PART_QUANTITY", p) * Text("PART_UNIT_PRICE", p) \in Int
             /\ 100 * f[p] - 1 * g[p] <= off /\ 1 * g[p] - 100 * f[p] <= off
  <2>1. /\ Has("PART_QUANTITY", p) /\ Has("PART_UNIT_PRICE", p) /\ Has("PART_EXTENDED_PRICE", p)
        /\ 100 * Value("PART_EXTENDED_PRICE", p)
             - Value("PART_QUANTITY", p) * Value("PART_UNIT_PRICE", p) <= off
        /\ Value("PART_QUANTITY", p) * Value("PART_UNIT_PRICE", p)
             - 100 * Value("PART_EXTENDED_PRICE", p) <= off
    BY DEF PartsWithin
  <2>2. /\ Value("PART_QUANTITY", p) \in Int /\ Value("PART_UNIT_PRICE", p) \in Int
        /\ Value("PART_EXTENDED_PRICE", p) \in Int
    BY <2>1, ValueIsNumber, AmountFields
  <2>3. /\ Text("PART_QUANTITY", p) = Value("PART_QUANTITY", p)
        /\ Text("PART_UNIT_PRICE", p) = Value("PART_UNIT_PRICE", p)
    BY <2>1, TextIsValue
  <2>4. /\ f[p] = Value("PART_EXTENDED_PRICE", p)
        /\ g[p] = Value("PART_QUANTITY", p) * Value("PART_UNIT_PRICE", p)
    BY <2>3
  <2>5. /\ 100 * f[p] - g[p] <= off /\ g[p] - 100 * f[p] <= off BY <2>1, <2>4
  <2>6. f[p] \in Int /\ g[p] \in Int BY <2>2, <2>4
  <2>7. 1 * g[p] = g[p] BY <2>6
  <2>8. Text("PART_QUANTITY", p) * Text("PART_UNIT_PRICE", p) \in Int BY <2>2, <2>3
  <2>9. QED BY <2>5, <2>6, <2>7, <2>8
<1>3. Goods = SumFunction(g) BY DEF Goods
<1>4. PartsComputed = SumFunction(f) BY DEF PartsComputed
<1>5. f \in [parts -> Int] /\ g \in [parts -> Int] BY <1>2
<1> HIDE DEF f, g
<1>6. SumFunction(f) \in Int /\ SumFunction(g) \in Int BY <1>1, <1>5, SumFacts, Zenon
<1>7. /\ 100 * SumFunction(f) - 1 * SumFunction(g) <= off * Cardinality(parts)
      /\ 1 * SumFunction(g) - 100 * SumFunction(f) <= off * Cardinality(parts)
  <2>1. 100 \in Int /\ 1 \in Int OBVIOUS
  <2>2. \A x \in parts : 100 * f[x] - 1 * g[x] <= off /\ 1 * g[x] - 100 * f[x] <= off
    BY <1>2
  <2>3. QED BY <1>1, <1>5, <2>1, <2>2, SumCompare, Zenon
<1>8. QED BY <1>1, <1>3, <1>4, <1>6, <1>7

LEMMA FeesAre ==
  ASSUME RoAssumption, RoInv, at = Len(leaves),
         \A f \in {"SHOP_FEES", "ENVIRONMENTAL_FEES", "TAX_TOTAL", "DISCOUNT_TOTAL"} : Has(f, <<>>)
  PROVE  /\ Fees = Value("SHOP_FEES", <<>>) + Value("ENVIRONMENTAL_FEES", <<>>)
                     + Value("TAX_TOTAL", <<>>) - Value("DISCOUNT_TOTAL", <<>>)
         /\ Value("SHOP_FEES", <<>>) \in Int /\ Value("ENVIRONMENTAL_FEES", <<>>) \in Int
         /\ Value("TAX_TOTAL", <<>>) \in Int /\ Value("DISCOUNT_TOTAL", <<>>) \in Int
<1>1. \A f \in {"SHOP_FEES", "ENVIRONMENTAL_FEES", "TAX_TOTAL", "DISCOUNT_TOTAL"} :
        Text(f, <<>>) = Value(f, <<>>)
  BY TextIsValue
<1>2. {"SHOP_FEES", "ENVIRONMENTAL_FEES", "TAX_TOTAL", "DISCOUNT_TOTAL"} \subseteq NumberFields
  BY DEF NumberFields, TotalFields
<1>3. \A f \in {"SHOP_FEES", "ENVIRONMENTAL_FEES", "TAX_TOTAL", "DISCOUNT_TOTAL"} :
        Value(f, <<>>) \in Int
  BY <1>2, ValueIsNumber
<1>4. QED BY <1>1, <1>3 DEF Fees

\* The tolerance, whichever way it goes.
LEMMA Tolerance ==
  ASSUME NEW d \in Int, NEW cent \in Nat, Reconciles(d, cent, TRUE)
  PROVE  d <= cent /\ -d <= cent
BY DEF Reconciles, Abs

\* The grand total of an accepted document is what its hours and its
\* quantities come to, up to a cent for each line and for the total, for any
\* number of lines (validateLineItems): the tolerances of the single checks
\* add up, and no amount escapes them.
THEOREM MoneyStaysRight == RoSpec => []MoneyAddsUp
<1>1. RoInv => MoneyAddsUp
  <2> SUFFICES ASSUME RoInv, stage = "accepted"
               PROVE  Abs(100 * Text("GRAND_TOTAL", <<>>)
                            - (100 * Fees + LABOR_RATE_FIXED * Hours + Goods))
                        <= 100 * (Cardinality(LaborLines) + Cardinality(PartLines) + 1)
    BY DEF MoneyAddsUp
  <2>1. /\ at = Len(leaves) /\ \A i \in 1 .. 17 : Decided(i)
        /\ LaborLines = labor /\ PartLines = parts
    BY RoAssumption, Accepted
  <2>2. \A l \in labor : LaborPriced(l, TRUE)
    <3>1. Decided(9) BY <2>1
    <3>2. QED BY <3>1 DEF Decided
  <2>3. \A p \in parts : PartPriced(p, TRUE)
    <3>1. Decided(10) BY <2>1
    <3>2. QED BY <3>1 DEF Decided
  <2>4. \A f \in {"SHOP_FEES", "ENVIRONMENTAL_FEES", "TAX_TOTAL", "DISCOUNT_TOTAL"} : Has(f, <<>>)
    <3>1. Decided(13) BY <2>1
    <3>2. QED BY <3>1 DEF Decided
  <2>5. TotalAgrees("GRAND_TOTAL", GrandComputed, TRUE)
    <3>1. Decided(14) BY <2>1
    <3>2. QED BY <3>1 DEF Decided
  <2>6. ASSUME NEW l \in labor
        PROVE  /\ Has("ACTUAL_HOURS", <<l>>) /\ Has("LABOR_EXTENDED_AMOUNT", <<l>>)
               /\ 100 * Value("LABOR_EXTENDED_AMOUNT", <<l>>) 
                    - LABOR_RATE_FIXED * Value("ACTUAL_HOURS", <<l>>) <= 100
               /\ LABOR_RATE_FIXED * Value("ACTUAL_HOURS", <<l>>)
                    - 100 * Value("LABOR_EXTENDED_AMOUNT", <<l>>) <= 100
    <3>1. LABOR_RATE_FIXED \div 100 = 275 BY DEF LABOR_RATE_FIXED
    <3>2. /\ Has("ACTUAL_HOURS", <<l>>) /\ Has("LABOR_EXTENDED_AMOUNT", <<l>>)
          /\ Reconciles(Value("LABOR_EXTENDED_AMOUNT", <<l>>) - Value("ACTUAL_HOURS", <<l>>) * 275, 1, TRUE)
      BY <2>2, <3>1 DEF LaborPriced
    <3> DEFINE a == Value("LABOR_EXTENDED_AMOUNT", <<l>>)
    <3> DEFINE b == Value("ACTUAL_HOURS", <<l>>)
    <3>3. a \in Int /\ b \in Int BY <3>2, RoAssumption, ValueIsNumber, AmountFields
    <3> HIDE DEF a, b
    <3>4. a - b * 275 <= 1 /\ -(a - b * 275) <= 1
      <4>1. Reconciles(a - b * 275, 1, TRUE) BY <3>2 DEF a, b
      <4>2. a - b * 275 \in Int /\ 1 \in Nat BY <3>3
      <4>3. QED BY <4>1, <4>2, Tolerance, Zenon
    <3>5. 100 * a - 27500 * b <= 100 /\ 27500 * b - 100 * a <= 100 BY <3>3, <3>4
    <3>6. QED BY <3>2, <3>5 DEF a, b, LABOR_RATE_FIXED
  <2>7. ASSUME NEW p \in parts
        PROVE  /\ Has("PART_QUANTITY", p) /\ Has("PART_UNIT_PRICE", p) /\ Has("PART_EXTENDED_PRICE", p)
               /\ 100 * Value("PART_EXTENDED_PRICE", p)
                    - Value("PART_QUANTITY", p) * Value("PART_UNIT_PRICE", p) <= 100
               /\ Value("PART_QUANTITY", p) * Value("PART_UNIT_PRICE", p)
                    - 100 * Value("PART_EXTENDED_PRICE", p) <= 100
    <3>1. /\ Has("PART_QUANTITY", p) /\ Has("PART_UNIT_PRICE", p) /\ Has("PART_EXTENDED_PRICE", p)
          /\ Reconciles(100 * Value("PART_EXTENDED_PRICE", p)
                          - Value("PART_QUANTITY", p) * Value("PART_UNIT_PRICE", p), 100, TRUE)
      BY <2>3 DEF PartPriced
    <3> DEFINE a == Value("PART_EXTENDED_PRICE", p)
    <3> DEFINE q == Value("PART_QUANTITY", p)
    <3> DEFINE u == Value("PART_UNIT_PRICE", p)
    <3>2. a \in Int /\ q \in Int /\ u \in Int BY <3>1, RoAssumption, ValueIsNumber, AmountFields
    <3> HIDE DEF a, q, u
    <3>3. q * u \in Int BY <3>2
    <3>4. 100 * a - q * u <= 100 /\ -(100 * a - q * u) <= 100
      <4>1. Reconciles(100 * a - q * u, 100, TRUE) BY <3>1 DEF a, q, u
      <4>2. 100 * a - q * u \in Int BY <3>2, <3>3
      <4>3. QED BY <4>1, <4>2, Tolerance
    <3>5. q * u - 100 * a <= 100 BY <3>2, <3>3, <3>4
    <3>6. QED BY <3>1, <3>4, <3>5 DEF a, q, u
  <2>8. /\ LaborComputed \in Int /\ Hours \in Int /\ Cardinality(LaborLines) \in Nat
        /\ 100 * LaborComputed - LABOR_RATE_FIXED * Hours <= 100 * Cardinality(LaborLines)
        /\ LABOR_RATE_FIXED * Hours - 100 * LaborComputed <= 100 * Cardinality(LaborLines)
    BY <2>1, <2>6, RoAssumption, LaborAdds DEF LaborWithin
  <2>9. /\ PartsComputed \in Int /\ Goods \in Int /\ Cardinality(PartLines) \in Nat
        /\ 100 * PartsComputed - Goods <= 100 * Cardinality(PartLines)
        /\ Goods - 100 * PartsComputed <= 100 * Cardinality(PartLines)
    BY <2>1, <2>7, RoAssumption, PartsAdd DEF PartsWithin
  <2>10. Fees \in Int /\ GrandComputed = LaborComputed + PartsComputed + Fees
    <3>1. /\ Fees = Value("SHOP_FEES", <<>>) + Value("ENVIRONMENTAL_FEES", <<>>)
                      + Value("TAX_TOTAL", <<>>) - Value("DISCOUNT_TOTAL", <<>>)
          /\ Value("SHOP_FEES", <<>>) \in Int /\ Value("ENVIRONMENTAL_FEES", <<>>) \in Int
          /\ Value("TAX_TOTAL", <<>>) \in Int /\ Value("DISCOUNT_TOTAL", <<>>) \in Int
      BY <2>1, <2>4, RoAssumption, FeesAre
    <3> DEFINE a == Value("SHOP_FEES", <<>>)
    <3> DEFINE b == Value("ENVIRONMENTAL_FEES", <<>>)
    <3> DEFINE c == Value("TAX_TOTAL", <<>>)
    <3> DEFINE d == Value("DISCOUNT_TOTAL", <<>>)
    <3>2. GrandComputed = LaborComputed + PartsComputed + a + b + c - d BY DEF GrandComputed
    <3>3. Fees = a + b + c - d /\ a \in Int /\ b \in Int /\ c \in Int /\ d \in Int BY <3>1
    <3> HIDE DEF a, b, c, d
    <3>4. QED BY <2>8, <2>9, <3>2, <3>3
  <2>11. /\ Text("GRAND_TOTAL", <<>>) \in Int
         /\ Text("GRAND_TOTAL", <<>>) - GrandComputed <= 1 /\ GrandComputed - Text("GRAND_TOTAL", <<>>) <= 1
    <3>1. Has("GRAND_TOTAL", <<>>) /\ Reconciles(Value("GRAND_TOTAL", <<>>) - GrandComputed, 1, TRUE)
      BY <2>5 DEF TotalAgrees
    <3>2. Value("GRAND_TOTAL", <<>>) \in Int
      BY <3>1, RoAssumption, ValueIsNumber DEF NumberFields, TotalFields
    <3>3. Text("GRAND_TOTAL", <<>>) = Value("GRAND_TOTAL", <<>>)
      BY <2>1, <3>1, RoAssumption, TextIsValue
    <3>4. GrandComputed \in Int BY <2>8, <2>9, <2>10
    <3>5. /\ Value("GRAND_TOTAL", <<>>) - GrandComputed <= 1
          /\ -(Value("GRAND_TOTAL", <<>>) - GrandComputed) <= 1
      <4>1. Value("GRAND_TOTAL", <<>>) - GrandComputed \in Int /\ 1 \in Nat BY <3>2, <3>4
      <4>2. QED BY <3>1, <4>1, Tolerance, Zenon
    <3>6. QED BY <3>2, <3>3, <3>4, <3>5
  <2>12. QED BY <2>8, <2>9, <2>10, <2>11 DEF Abs, LABOR_RATE_FIXED
<1>2. QED BY <1>1, InvHolds, PTL

-----------------------------------------------------------------------------
(***************************************************************************)
(* A well-formed document passes every step.                               *)
(***************************************************************************)

\* Only the document and its leaves decide whether it is well formed.
LEMMA WellFormedStays ==
  ASSUME UNCHANGED <<doc, leaves>>, WellFormed'
  PROVE  WellFormed
<1>1. leaves' = leaves /\ doc' = doc OBVIOUS
<1>2. Places' = Places BY <1>1 DEF Places, Slot
<1>3. LaborLines' = LaborLines /\ PartLines' = PartLines BY <1>2 DEF LaborLines, PartLines
<1>4. PlainElements BY <1>1 DEF WellFormed, PlainElements, Slot
<1>5. \A f, l : Text(f, l)' = Text(f, l) BY <1>1 DEF Text, Slot, Parsed
<1>6. Complete
  <2>1. Text("RO_NUMBER", <<>>)' = Text("RO_NUMBER", <<>>) BY <1>5
  <2>2. QED BY <1>2, <2>1 DEF WellFormed, Complete
<1>7. DenselyNumbered BY <1>3 DEF WellFormed, DenselyNumbered
<1>8. LaborAmounts BY <1>2, <1>3, <1>5 DEF WellFormed, LaborAmounts
<1>9. PartAmounts BY <1>2, <1>3, <1>5 DEF WellFormed, PartAmounts
<1>10. Hours' = Hours /\ Goods' = Goods /\ Fees' = Fees
  <2>1. Hours' = Hours BY <1>3, <1>5 DEF Hours
  <2>2. Goods' = Goods BY <1>3, <1>5 DEF Goods
  <2>3. Fees' = Fees BY <1>5 DEF Fees
  <2>4. QED BY <2>1, <2>2, <2>3
<1>11. TotalsAgree BY <1>5, <1>10 DEF WellFormed, TotalsAgree
<1>12. CustomerApart BY <1>1 DEF WellFormed, CustomerApart, TextsOf
<1>13. QED BY <1>4, <1>6, <1>7, <1>8, <1>9, <1>11, <1>12 DEF WellFormed

LEMMA PlainFacts ==
  ASSUME RoAssumption, RoInv, PlainElements, NEW i \in 1 .. Len(leaves)
  PROVE  LET e == leaves[i]
         IN /\ e \in Elements /\ e.base \in KNOWN_FIELDS
            /\ Len(e.idx) = (IF e.base \in LABOR_BASE_FIELDS THEN 1
                             ELSE IF e.base \in PART_BASE_FIELDS THEN 2 ELSE 0)
            /\ e.base \in IntFields \cup NumberFields => e.text \in Int
            /\ e.text # Empty /\ Parsed(e) = e.text
            /\ \A j \in 1 .. Len(leaves) : j # i => Slot(leaves[j]) # Slot(e)
<1>1. DOMAIN leaves = 1 .. Len(leaves) /\ leaves[i] \in Elements BY LeafFacts
<1>2. QED BY <1>1 DEF PlainElements, Parsed

\* Routing does not end at an element of a well-formed document.
LEMMA NoneMisplaced ==
  ASSUME RoAssumption, RoInv, WellFormed, at < Len(leaves)
  PROVE  ~Misplaced(leaves[at + 1])
<1> DEFINE e == leaves[at + 1]
<1>1. at \in Nat /\ Len(leaves) \in Nat /\ at + 1 \in 1 .. Len(leaves) /\ DOMAIN leaves = 1 .. Len(leaves)
  BY LeafFacts
<1>2. PlainElements /\ DenselyNumbered BY DEF WellFormed
<1>3. /\ e \in Elements /\ e.base \in KNOWN_FIELDS
      /\ Len(e.idx) = (IF e.base \in LABOR_BASE_FIELDS THEN 1
                       ELSE IF e.base \in PART_BASE_FIELDS THEN 2 ELSE 0)
      /\ e.base \in IntFields \cup NumberFields => e.text \in Int
      /\ \A j \in 1 .. Len(leaves) : j # at + 1 => Slot(leaves[j]) # Slot(e)
  BY <1>1, <1>2, PlainFacts
<1> HIDE DEF e
<1>4. ElementName(e) \notin seen
  <2>1. ASSUME NEW j \in 1 .. at, ElementName(leaves[j]) = ElementName(e) PROVE FALSE
    <3>1. leaves[j].base = e.base /\ leaves[j].idx = e.idx BY <2>1 DEF ElementName
    <3>2. Slot(leaves[j]) = Slot(e) BY <3>1 DEF Slot
    <3>3. j \in 1 .. Len(leaves) /\ j # at + 1 BY <1>1
    <3>4. QED BY <1>3, <3>2, <3>3
  <2>2. QED BY <2>1 DEF RoInv, RoTypeOK
<1>5. ~ZeroIndex(e)
  <2>1. /\ Slot(e).line \in Seq(Nat) /\ Len(Slot(e).line) = Len(e.idx)
        /\ Len(e.idx) \in 0 .. 2 /\ DOMAIN e.idx = 1 .. Len(e.idx)
        /\ \A i \in 1 .. Len(e.idx) : Slot(e).line[i] = ParsedInt[e.idx[i]]
    BY <1>3, ElementFacts
  <2>2. Slot(e) \in Places BY <1>1 DEF Places, e
  <2>3. \A l \in LaborLines : l # 0
    <3>1. LaborLines = 1 .. Max(LaborLines) BY <1>2 DEF DenselyNumbered
    <3>2. \A m : \A l \in 1 .. m : l # 0 OBVIOUS
    <3>3. QED BY <3>1, <3>2
  <2>4. CASE Len(e.idx) = 1
    <3>1. Slot(e).line[1] \in LaborLines BY <2>1, <2>2, <2>4 DEF LaborLines
    <3>2. QED BY <2>1, <2>3, <2>4, <3>1 DEF ZeroIndex
  <2>5. CASE Len(e.idx) = 2
    <3>1. Slot(e).line \in PartLines BY <2>1, <2>2, <2>5 DEF PartLines
    <3>2. Slot(e).line[1] \in LaborLines /\ Slot(e).line[2] > 0 BY <1>2, <3>1 DEF DenselyNumbered
    <3>3. Slot(e).line[1] # 0 /\ Slot(e).line[2] # 0 BY <2>3, <3>2
    <3>4. QED BY <2>1, <2>5, <3>3 DEF ZeroIndex
  <2>6. CASE Len(e.idx) = 0 BY <2>1, <2>6 DEF ZeroIndex
  <2>7. QED BY <2>1, <2>4, <2>5, <2>6
<1>6. Indexed(e) <=> Len(e.idx) # 0 BY <1>3, ElementFacts
<1>7. e.base \in PII_FIELDS => ~Indexed(e)
  <2>1. e.base \in PII_FIELDS => e.base \notin LABOR_BASE_FIELDS /\ e.base \notin PART_BASE_FIELDS
    BY FieldClasses DEF LINE_ITEM_BASE_FIELDS
  <2>2. QED BY <1>3, <1>6, <2>1
<1>8. /\ ~(Indexed(e) /\ e.base \notin LINE_ITEM_BASE_FIELDS)
      /\ ~(~Indexed(e) /\ e.base \in LINE_ITEM_BASE_FIELDS)
      /\ ~(Len(e.idx) = 1 /\ e.base \notin LABOR_BASE_FIELDS)
      /\ ~(Len(e.idx) = 2 /\ e.base \notin PART_BASE_FIELDS)
  BY <1>3, <1>6 DEF LINE_ITEM_BASE_FIELDS
<1>9. ~Unparsable(e)
  <2>1. e.text \in Words => e.text \notin Int BY DEF RoAssumption
  <2>2. QED BY <1>3, <2>1 DEF Unparsable
<1>10. ~Misplaced(e) BY <1>4, <1>5, <1>7, <1>8, <1>9, Zenon DEF Misplaced
<1>11. QED BY <1>10 DEF e

\* A well-formed document that is routed: where its elements are.
LEMMA Stored ==
  ASSUME RoAssumption, RoInv, PlainElements, at = Len(leaves),
         NEW field \in DETERMINISTIC_FIELDS, NEW line,
         [field |-> field, line |-> line] \in Places
  PROVE  /\ Has(field, line) /\ Value(field, line) = Text(field, line)
         /\ Value(field, line) # Empty
         /\ field \in NumberFields => Value(field, line) \in Int
<1> DEFINE s == [field |-> field, line |-> line]
<1>1. PICK i \in DOMAIN leaves : s = Slot(leaves[i]) BY DEF Places
<1>2. s.field = field OBVIOUS
<1> HIDE DEF s
<1>3. i \in 1 .. Len(leaves) /\ leaves[i] \in Elements
      /\ semantic \in Seq(Elements) /\ at \in Nat
  BY <1>1, LeafFacts
<1>4. leaves[i].base = field BY <1>1, <1>2, <1>3, ElementFacts
<1>5. /\ Parsed(leaves[i]) = leaves[i].text /\ leaves[i].text # Empty
      /\ \A j \in 1 .. Len(leaves) : j # i => Slot(leaves[j]) # s
  BY <1>1, <1>3, PlainFacts
<1>6. KeptOK(i) BY <1>3 DEF RoInv
<1>7. leaves[i].base \in KNOWN_FIELDS \ PII_FIELDS BY <1>4, FieldClasses
<1>8. \A j \in 1 .. Len(semantic) : semantic[j] # leaves[i]
  <2>1. ASSUME NEW j \in 1 .. Len(semantic), semantic[j] = leaves[i] PROVE FALSE
    <3>1. PICK k \in 1 .. at : leaves[k] = semantic[j] /\ leaves[k].base \notin DETERMINISTIC_FIELDS
      BY DEF RoInv, OriginOK
    <3>2. QED BY <1>4, <2>1, <3>1
  <2>2. QED BY <2>1
<1>9. \A j \in i + 1 .. at : Slot(leaves[j]) # s
  <2>1. \A j \in i + 1 .. at : j \in 1 .. Len(leaves) /\ j # i BY <1>3
  <2>2. QED BY <1>5, <2>1
<1>10. s \in DOMAIN det /\ det[s] = leaves[i].text
  BY <1>1, <1>5, <1>6, <1>7, <1>8, <1>9 DEF KeptOK
<1>11. Has(field, line) /\ Value(field, line) = leaves[i].text BY <1>10 DEF Has, Value, s
<1>12. Text(field, line) = Value(field, line) BY <1>11, TextIsValue
<1>13. field \in NumberFields => Value(field, line) \in Int BY <1>11, ValueIsNumber
<1>14. QED BY <1>5, <1>11, <1>12, <1>13

\* The customer's texts, and where the others come from.
LEMMA TextsKept ==
  ASSUME RoAssumption, RoInv, PlainElements, at = Len(leaves)
  PROVE  /\ \A f \in DOMAIN pii : pii[f] \in TextsOf(PII_FIELDS)
         /\ \A s \in DOMAIN det : det[s] \in TextsOf(KNOWN_FIELDS \ PII_FIELDS)
         /\ \A j \in 1 .. Len(semantic) :
              /\ semantic[j].text \in TextsOf(KNOWN_FIELDS \ PII_FIELDS)
              /\ semantic[j].base \notin PII_FIELDS
<1>1. /\ DOMAIN leaves = 1 .. Len(leaves) /\ \A i \in 1 .. Len(leaves) : leaves[i] \in Elements
  BY LeafFacts
<1>2. ASSUME NEW f \in DOMAIN pii PROVE pii[f] \in TextsOf(PII_FIELDS)
  <2>1. PICK i \in 1 .. at : leaves[i].base = f /\ leaves[i].text = pii[f] BY DEF RoInv, OriginOK
  <2>2. f \in PII_FIELDS BY DEF RoInv, RoTypeOK
  <2>3. QED BY <1>1, <2>1, <2>2 DEF TextsOf
<1>3. ASSUME NEW s \in DOMAIN det PROVE det[s] \in TextsOf(KNOWN_FIELDS \ PII_FIELDS)
  <2>1. PICK i \in 1 .. at : Slot(leaves[i]) = s /\ det[s] = Parsed(leaves[i])
    BY DEF RoInv, OriginOK
  <2>2. leaves[i].base = s.field /\ s.field \in DETERMINISTIC_FIELDS
    BY <1>1, <2>1, ElementFacts DEF RoInv, RoTypeOK
  <2>3. leaves[i].base \in KNOWN_FIELDS \ PII_FIELDS BY <2>2, FieldClasses
  <2>4. Parsed(leaves[i]) = leaves[i].text BY <2>1, PlainFacts
  <2>5. QED BY <1>1, <2>1, <2>3, <2>4 DEF TextsOf
<1>4. ASSUME NEW j \in 1 .. Len(semantic)
      PROVE  /\ semantic[j].text \in TextsOf(KNOWN_FIELDS \ PII_FIELDS)
             /\ semantic[j].base \notin PII_FIELDS
  <2>1. PICK i \in 1 .. at :
          /\ leaves[i] = semantic[j]
          /\ leaves[i].base \in KNOWN_FIELDS \ (PII_FIELDS \cup DETERMINISTIC_FIELDS)
    BY DEF RoInv, OriginOK
  <2>2. leaves[i].base \in KNOWN_FIELDS \ PII_FIELDS BY <2>1
  <2>3. QED BY <1>1, <2>1, <2>2 DEF TextsOf
<1>5. QED BY <1>2, <1>3, <1>4

\* A set that holds all numbers from 1 below each of its members passes
\* ensureContiguousIndices.
LEMMA DenseIsContiguous ==
  ASSUME NEW S \in SUBSET (Nat \ {0}), \A n \in S : 1 .. n \subseteq S
  PROVE  Contiguous(S)
<1>1. ASSUME NEW n \in S PROVE Cardinality({m \in S : m <= n}) = n
  <2>1. n \in Nat /\ \A m \in S : m \in Nat /\ m # 0 BY Zenon
  <2>2. \A m \in S : m <= n => m \in 1 .. n BY <2>1
  <2>3. \A m \in 1 .. n : m \in S /\ m <= n BY <2>1
  <2>4. {m \in S : m <= n} = 1 .. n BY <2>2, <2>3, Zenon
  <2>5. Cardinality(1 .. n) = n BY <2>1, FS_Interval
  <2>6. QED BY <2>4, <2>5
<1>2. QED BY <1>1 DEF Contiguous

\* A finite set of numbers has a largest one.
LEMMA MaxExists ==
  ASSUME NEW S \in SUBSET Int, IsFiniteSet(S), S # {}
  PROVE  Max(S) \in S /\ \A n \in S : Max(S) >= n
<1> DEFINE Bounded(s) == s = {} \/ \E m \in s : \A n \in s : m >= n
<1> DEFINE H == {s \in SUBSET S : Bounded(s)}
<1>1. {} \in H OBVIOUS
<1>2. ASSUME NEW s \in SUBSET S, s # {}, s \ {Pick(s)} \in H PROVE s \in H
  <2>1. Pick(s) \in s BY <1>2 DEF Pick
  <2>2. Pick(s) \in Int /\ \A n \in s : n \in Int BY <2>1
  <2>3. CASE s \ {Pick(s)} = {}
    <3>1. \A n \in s : n = Pick(s) BY <2>3
    <3>2. QED BY <2>1, <2>2, <3>1
  <2>4. CASE \E m \in s \ {Pick(s)} : \A n \in s \ {Pick(s)} : m >= n
    <3>1. PICK m \in s \ {Pick(s)} : \A n \in s \ {Pick(s)} : m >= n BY <2>4
    <3>2. CASE m >= Pick(s)
      <4>1. \A n \in s : m >= n BY <3>1, <3>2
      <4>2. QED BY <4>1
    <3>3. CASE ~(m >= Pick(s))
      <4>1. \A n \in s : Pick(s) >= n BY <2>2, <3>1, <3>3
      <4>2. QED BY <2>1, <4>1
    <3>4. QED BY <3>2, <3>3
  <2>5. QED BY <1>2, <2>3, <2>4
<1>3. H \in SUBSET SUBSET S OBVIOUS
<1>4. H = SUBSET S
  <2> HIDE DEF H
  <2>1. QED BY <1>1, <1>2, <1>3, SubsetInduction
<1>5. PICK m \in S : \A n \in S : m >= n BY <1>4
<1>6. Max(S) = m BY <1>5, MaxIs
<1>7. QED BY <1>5, <1>6

\* The checks that a well-formed document, once routed, comes to.
LinesRight ==
  /\ labor # {} /\ Contiguous(labor)
  /\ \A p \in parts : p[1] \in labor
  /\ \A l \in labor : Contiguous(PartIndices(l))

LEMMA KnownLines ==
  ASSUME RoAssumption, RoInv, WellFormed, at = Len(leaves)
  PROVE  LaborLines = labor /\ PartLines = parts
<1>1. PlainElements BY DEF WellFormed
<1>2. \A i \in 1 .. Len(leaves) : leaves[i].base \in KNOWN_FIELDS BY <1>1, PlainFacts
<1>3. QED BY <1>2, LinesRouted

LEMMA PassLines ==
  ASSUME RoAssumption, RoInv, WellFormed, at = Len(leaves)
  PROVE  LinesRight
<1>1. LaborLines = labor /\ PartLines = parts BY KnownLines
<1>2. /\ labor \in SUBSET (Nat \ {0}) /\ parts \in SUBSET ((Nat \ {0}) \X (Nat \ {0}))
      /\ IsFiniteSet(labor)
  BY DEF RoInv, RoTypeOK, OriginOK
<1>3. /\ labor # {} /\ labor = 1 .. Max(labor)
      /\ \A p \in parts : p[1] \in labor /\ \A m \in 1 .. p[2] : <<p[1], m>> \in parts
  BY <1>1 DEF WellFormed, DenselyNumbered
<1>4. Contiguous(labor)
  <2>1. labor \in SUBSET Int BY <1>2
  <2>2. Max(labor) \in labor BY <1>2, <1>3, <2>1, MaxExists
  <2>3. Max(labor) \in Nat BY <1>2, <2>2
  <2>4. \A k \in Nat : \A n \in 1 .. k : 1 .. n \subseteq 1 .. k OBVIOUS
  <2>5. \A n \in labor : 1 .. n \subseteq labor BY <1>3, <2>3, <2>4
  <2>6. QED BY <1>2, <2>5, DenseIsContiguous
<1>5. ASSUME NEW l \in labor PROVE Contiguous(PartIndices(l))
  <2>1. PartIndices(l) \in SUBSET (Nat \ {0}) BY <1>2 DEF PartIndices
  <2>2. ASSUME NEW n \in PartIndices(l) PROVE 1 .. n \subseteq PartIndices(l)
    <3>1. PICK p \in parts : p[1] = l /\ p[2] = n BY DEF PartIndices
    <3>2. \A m \in 1 .. n : <<l, m>> \in parts BY <1>3, <3>1
    <3>3. \A m \in 1 .. n : <<l, m>>[1] = l /\ <<l, m>>[2] = m OBVIOUS
    <3>4. QED BY <3>2, <3>3 DEF PartIndices
  <2>3. QED BY <2>1, <2>2, DenseIsContiguous
<1>6. QED BY <1>3, <1>4, <1>5 DEF LinesRight

LEMMA LineFieldsDeterministic ==
  /\ {"ACTUAL_HOURS", "LABOR_RATE", "LABOR_EXTENDED_AMOUNT", "PART_QUANTITY", "PART_UNIT_PRICE",
      "PART_EXTENDED_PRICE"} \subseteq DETERMINISTIC_FIELDS
  /\ TotalFields \subseteq DETERMINISTIC_FIELDS
  /\ {"RO_NUMBER", "RO_STATUS", "OPEN_TIMESTAMP"} \subseteq DETERMINISTIC_FIELDS
BY DEF DETERMINISTIC_FIELDS, NumberFields

LEMMA PassLabor ==
  ASSUME RoAssumption, RoInv, WellFormed, at = Len(leaves)
  PROVE  LaborWithin(0) /\ \A l \in labor : LaborPriced(l, FALSE)
<1>1. LaborLines = labor /\ PlainElements /\ LaborAmounts BY KnownLines DEF WellFormed
<1>2. ASSUME NEW l \in labor
      PROVE  /\ LaborPriced(l, FALSE)
             /\ Has("ACTUAL_HOURS", <<l>>) /\ Has("LABOR_EXTENDED_AMOUNT", <<l>>)
             /\ 100 * Value("LABOR_EXTENDED_AMOUNT", <<l>>) - LABOR_RATE_FIXED * Value("ACTUAL_HOURS", <<l>>) <= 0
             /\ LABOR_RATE_FIXED * Value("ACTUAL_HOURS", <<l>>) - 100 * Value("LABOR_EXTENDED_AMOUNT", <<l>>) <= 0
  <2> DEFINE h == Value("ACTUAL_HOURS", <<l>>)
  <2> DEFINE r == Value("LABOR_RATE", <<l>>)
  <2> DEFINE a == Value("LABOR_EXTENDED_AMOUNT", <<l>>)
  <2>1. \A f \in {"ACTUAL_HOURS", "LABOR_RATE", "LABOR_EXTENDED_AMOUNT"} :
          /\ Has(f, <<l>>) /\ Value(f, <<l>>) = Text(f, <<l>>) /\ Value(f, <<l>>) \in Int
    <3>1. \A f \in {"ACTUAL_HOURS", "LABOR_RATE", "LABOR_EXTENDED_AMOUNT"} :
            /\ [field |-> f, line |-> <<l>>] \in Places
            /\ f \in DETERMINISTIC_FIELDS /\ f \in NumberFields
      BY <1>1, LineFieldsDeterministic, AmountFields DEF LaborAmounts
    <3>2. QED BY <1>1, <3>1, Stored
  <2>2. /\ Text("ACTUAL_HOURS", <<l>>) \in 1 .. HOURS_MAX
        /\ Text("LABOR_RATE", <<l>>) = LABOR_RATE_FIXED
        /\ 100 * Text("LABOR_EXTENDED_AMOUNT", <<l>>) = Text("ACTUAL_HOURS", <<l>>) * LABOR_RATE_FIXED
    BY <1>1 DEF LaborAmounts
  <2>3. /\ h \in 1 .. HOURS_MAX /\ h \in Int /\ r = LABOR_RATE_FIXED /\ a \in Int
        /\ 100 * a = h * LABOR_RATE_FIXED
        /\ Has("ACTUAL_HOURS", <<l>>) /\ Has("LABOR_RATE", <<l>>) /\ Has("LABOR_EXTENDED_AMOUNT", <<l>>)
    BY <2>1, <2>2
  <2> HIDE DEF h, r, a
  <2>4. a - h * (LABOR_RATE_FIXED \div 100) = 0 /\ r - LABOR_RATE_FIXED = 0
    BY <2>3 DEF LABOR_RATE_FIXED
  <2>5. Reconciles(0, 1, FALSE) BY DEF Reconciles, Abs
  <2>6. LaborPriced(l, FALSE)
    <3>1. Reconciles(r - LABOR_RATE_FIXED, 1, FALSE) BY <2>4, <2>5
    <3>2. Reconciles(a - h * (LABOR_RATE_FIXED \div 100), 1, FALSE) BY <2>4, <2>5
    <3>3. QED BY <2>3, <3>1, <3>2 DEF LaborPriced, h, r, a
  <2>7. 100 * a - LABOR_RATE_FIXED * h <= 0 /\ LABOR_RATE_FIXED * h - 100 * a <= 0
    BY <2>3 DEF LABOR_RATE_FIXED
  <2>8. QED BY <2>3, <2>6, <2>7 DEF h, a
<1>3. QED BY <1>2 DEF LaborWithin

LEMMA PassParts ==
  ASSUME RoAssumption, RoInv, WellFormed, at = Len(leaves)
  PROVE  PartsWithin(0) /\ \A p \in parts : PartPriced(p, FALSE)
<1>1. PartLines = parts /\ PlainElements /\ PartAmounts BY KnownLines DEF WellFormed
<1>2. ASSUME NEW p \in parts
      PROVE  /\ PartPriced(p, FALSE)
             /\ Has("PART_QUANTITY", p) /\ Has("PART_UNIT_PRICE", p) /\ Has("PART_EXTENDED_PRICE", p)
             /\ 100 * Value("PART_EXTENDED_PRICE", p)
                  - Value("PART_QUANTITY", p) * Value("PART_UNIT_PRICE", p) <= 0
             /\ Value("PART_QUANTITY", p) * Value("PART_UNIT_PRICE", p)
                  - 100 * Value("PART_EXTENDED_PRICE", p) <= 0
  <2> DEFINE q == Value("PART_QUANTITY", p)
  <2> DEFINE u == Value("PART_UNIT_PRICE", p)
  <2> DEFINE a == Value("PART_EXTENDED_PRICE", p)
  <2>1. \A f \in {"PART_QUANTITY", "PART_UNIT_PRICE", "PART_EXTENDED_PRICE"} :
          /\ Has(f, p) /\ Value(f, p) = Text(f, p) /\ Value(f, p) \in Int
    <3>1. \A f \in {"PART_QUANTITY", "PART_UNIT_PRICE", "PART_EXTENDED_PRICE"} :
            /\ [field |-> f, line |-> p] \in Places
            /\ f \in DETERMINISTIC_FIELDS /\ f \in NumberFields
      BY <1>1, LineFieldsDeterministic, AmountFields DEF PartAmounts
    <3>2. QED BY <1>1, <3>1, Stored
  <2>2. 100 * Text("PART_EXTENDED_PRICE", p) = Text("PART_QUANTITY", p) * Text("PART_UNIT_PRICE", p)
    BY <1>1 DEF PartAmounts
  <2>3. /\ q \in Int /\ u \in Int /\ a \in Int /\ 100 * a = q * u
        /\ Has("PART_QUANTITY", p) /\ Has("PART_UNIT_PRICE", p) /\ Has("PART_EXTENDED_PRICE", p)
    BY <2>1, <2>2
  <2> HIDE DEF q, u, a
  <2>4. q * u \in Int BY <2>3
  <2>5. 100 * a - q * u = 0 /\ q * u - 100 * a = 0 BY <2>3, <2>4
  <2>6. Reconciles(0, 100, FALSE) BY DEF Reconciles, Abs
  <2>7. PartPriced(p, FALSE)
    <3>1. Reconciles(100 * a - q * u, 100, FALSE) BY <2>5, <2>6
    <3>2. QED BY <2>3, <3>1 DEF PartPriced, q, u, a
  <2>8. 100 * a - q * u <= 0 /\ q * u - 100 * a <= 0 BY <2>5
  <2>9. QED BY <2>3, <2>7, <2>8 DEF q, u, a
<1>3. QED BY <1>2 DEF PartsWithin

LEMMA PassTotals ==
  ASSUME RoAssumption, RoInv, WellFormed, at = Len(leaves)
  PROVE  /\ TotalAgrees("LABOR_TOTAL", LaborComputed, FALSE)
         /\ TotalAgrees("PARTS_TOTAL", PartsComputed, FALSE)
         /\ \A f \in {"SHOP_FEES", "ENVIRONMENTAL_FEES", "TAX_TOTAL", "DISCOUNT_TOTAL"} : Has(f, <<>>)
         /\ TotalAgrees("GRAND_TOTAL", GrandComputed, FALSE)
<1>1. PlainElements /\ Complete /\ TotalsAgree BY DEF WellFormed
<1>2. ASSUME NEW f \in TotalFields
      PROVE  Has(f, <<>>) /\ Value(f, <<>>) = Text(f, <<>>) /\ Value(f, <<>>) \in Int
  <2>1. [field |-> f, line |-> <<>>] \in Places BY <1>1 DEF Complete
  <2>2. f \in DETERMINISTIC_FIELDS /\ f \in NumberFields BY LineFieldsDeterministic, AmountFields
  <2>3. QED BY <1>1, <2>1, <2>2, Stored
<1>3. /\ LaborComputed \in Int /\ Hours \in Int /\ Cardinality(LaborLines) \in Nat
      /\ 100 * LaborComputed - LABOR_RATE_FIXED * Hours <= 0 * Cardinality(LaborLines)
      /\ LABOR_RATE_FIXED * Hours - 100 * LaborComputed <= 0 * Cardinality(LaborLines)
  <2>1. LaborLines = labor BY KnownLines
  <2>2. QED BY <2>1, PassLabor, LaborAdds
<1>4. /\ PartsComputed \in Int /\ Goods \in Int /\ Cardinality(PartLines) \in Nat
      /\ 100 * PartsComputed - Goods <= 0 * Cardinality(PartLines)
      /\ Goods - 100 * PartsComputed <= 0 * Cardinality(PartLines)
  <2>1. PartLines = parts BY KnownLines
  <2>2. QED BY <2>1, PassParts, PartsAdd
<1>5. 100 * LaborComputed = LABOR_RATE_FIXED * Hours BY <1>3 DEF LABOR_RATE_FIXED
<1>6. 100 * PartsComputed = Goods BY <1>4
<1>7. Reconciles(0, 1, FALSE) BY DEF Reconciles, Abs
<1>8. {"LABOR_TOTAL", "PARTS_TOTAL", "GRAND_TOTAL", "SHOP_FEES", "ENVIRONMENTAL_FEES", "TAX_TOTAL",
       "DISCOUNT_TOTAL"} \subseteq TotalFields
  BY DEF TotalFields
<1>9. /\ 100 * Text("LABOR_TOTAL", <<>>) = LABOR_RATE_FIXED * Hours
      /\ 100 * Text("PARTS_TOTAL", <<>>) = Goods
      /\ Text("GRAND_TOTAL", <<>>) = Text("LABOR_TOTAL", <<>>) + Text("PARTS_TOTAL", <<>>) + Fees
  BY <1>1 DEF TotalsAgree
<1>10. /\ Has("LABOR_TOTAL", <<>>) /\ Value("LABOR_TOTAL", <<>>) = LaborComputed
       /\ Text("LABOR_TOTAL", <<>>) = LaborComputed
  <2>1. /\ Has("LABOR_TOTAL", <<>>) /\ Value("LABOR_TOTAL", <<>>) = Text("LABOR_TOTAL", <<>>)
        /\ Value("LABOR_TOTAL", <<>>) \in Int
    BY <1>2, <1>8
  <2>2. Text("LABOR_TOTAL", <<>>) = LaborComputed BY <1>3, <1>5, <1>9, <2>1
  <2>3. QED BY <2>1, <2>2
<1>11. /\ Has("PARTS_TOTAL", <<>>) /\ Value("PARTS_TOTAL", <<>>) = PartsComputed
       /\ Text("PARTS_TOTAL", <<>>) = PartsComputed
  <2>1. /\ Has("PARTS_TOTAL", <<>>) /\ Value("PARTS_TOTAL", <<>>) = Text("PARTS_TOTAL", <<>>)
        /\ Value("PARTS_TOTAL", <<>>) \in Int
    BY <1>2, <1>8
  <2>2. Text("PARTS_TOTAL", <<>>) = PartsComputed BY <1>4, <1>6, <1>9, <2>1
  <2>3. QED BY <2>1, <2>2
<1>12. \A f \in {"SHOP_FEES", "ENVIRONMENTAL_FEES", "TAX_TOTAL", "DISCOUNT_TOTAL"} : Has(f, <<>>)
  BY <1>2, <1>8
<1>13. Has("GRAND_TOTAL", <<>>) /\ Value("GRAND_TOTAL", <<>>) = GrandComputed /\ GrandComputed \in Int
  <2>1. /\ Has("GRAND_TOTAL", <<>>) /\ Value("GRAND_TOTAL", <<>>) = Text("GRAND_TOTAL", <<>>)
        /\ Value("GRAND_TOTAL", <<>>) \in Int
    BY <1>2, <1>8
  <2>2. /\ Fees = Value("SHOP_FEES", <<>>) + Value("ENVIRONMENTAL_FEES", <<>>)
                    + Value("TAX_TOTAL", <<>>) - Value("DISCOUNT_TOTAL", <<>>)
        /\ Value("SHOP_FEES", <<>>) \in Int /\ Value("ENVIRONMENTAL_FEES", <<>>) \in Int
        /\ Value("TAX_TOTAL", <<>>) \in Int /\ Value("DISCOUNT_TOTAL", <<>>) \in Int
    BY <1>12, FeesAre
  <2>3. GrandComputed = LaborComputed + PartsComputed + Fees
    <3> DEFINE a == Value("SHOP_FEES", <<>>)
    <3> DEFINE b == Value("ENVIRONMENTAL_FEES", <<>>)
    <3> DEFINE c == Value("TAX_TOTAL", <<>>)
    <3> DEFINE d == Value("DISCOUNT_TOTAL", <<>>)
    <3>1. GrandComputed = LaborComputed + PartsComputed + a + b + c - d BY DEF GrandComputed
    <3>2. Fees = a + b + c - d /\ a \in Int /\ b \in Int /\ c \in Int /\ d \in Int BY <2>2
    <3> HIDE DEF a, b, c, d
    <3>3. QED BY <1>3, <1>4, <3>1, <3>2
  <2>4. QED BY <1>9, <1>10, <1>11, <2>1, <2>3
<1>14. TotalAgrees("LABOR_TOTAL", LaborComputed, FALSE)
  <2>1. Value("LABOR_TOTAL", <<>>) - LaborComputed = 0 BY <1>3, <1>10
  <2>2. QED BY <1>7, <1>10, <2>1 DEF TotalAgrees
<1>15. TotalAgrees("PARTS_TOTAL", PartsComputed, FALSE)
  <2>1. Value("PARTS_TOTAL", <<>>) - PartsComputed = 0 BY <1>4, <1>11
  <2>2. QED BY <1>7, <1>11, <2>1 DEF TotalAgrees
<1>16. TotalAgrees("GRAND_TOTAL", GrandComputed, FALSE)
  <2>1. Value("GRAND_TOTAL", <<>>) - GrandComputed = 0 BY <1>13
  <2>2. QED BY <1>7, <1>13, <2>1 DEF TotalAgrees
<1>17. QED BY <1>12, <1>14, <1>15, <1>16

\* The elements that are asked for by name.
LEMMA PassContent ==
  ASSUME RoAssumption, RoInv, WellFormed, at = Len(leaves)
  PROVE  /\ \A f \in {"RO_NUMBER", "RO_STATUS", "OPEN_TIMESTAMP"} : Filled(f)
         /\ RoNumberValid
         /\ "VIN" \in DOMAIN pii /\ pii["VIN"] # Empty
         /\ \E i \in DOMAIN semantic : semantic[i].base = "CUSTOMER_COMPLAINT"
<1>1. PlainElements /\ Complete BY DEF WellFormed
<1>2. ASSUME NEW f \in {"RO_NUMBER", "RO_STATUS", "OPEN_TIMESTAMP"}
      PROVE  Filled(f) /\ Value(f, <<>>) = Text(f, <<>>)
  <2>1. [field |-> f, line |-> <<>>] \in Places BY <1>1 DEF Complete
  <2>2. f \in DETERMINISTIC_FIELDS BY LineFieldsDeterministic
  <2>3. Has(f, <<>>) /\ Value(f, <<>>) = Text(f, <<>>) /\ Value(f, <<>>) # Empty
    BY <1>1, <2>1, <2>2, Stored
  <2>4. QED BY <2>3 DEF Filled
<1>3. RoNumberValid
  <2>1. Text("RO_NUMBER", <<>>) \in RO_NUMBERS BY <1>1 DEF Complete
  <2>2. Value("RO_NUMBER", <<>>) = Text("RO_NUMBER", <<>>) BY <1>2
  <2>3. QED BY <2>1, <2>2 DEF RoNumberValid
<1>4. /\ DOMAIN leaves = 1 .. Len(leaves) /\ \A i \in 1 .. Len(leaves) : leaves[i] \in Elements
      /\ at \in Nat /\ DOMAIN semantic = 1 .. Len(semantic)
  BY LeafFacts
<1>5. ASSUME NEW f \in {"VIN", "CUSTOMER_COMPLAINT"}
      PROVE  \E i \in 1 .. Len(leaves) :
               /\ leaves[i].base = f /\ leaves[i].text # Empty /\ KeptOK(i)
               /\ ~(\E j \in i + 1 .. at : Slot(leaves[j]) = Slot(leaves[i]))
  <2> DEFINE s == [field |-> f, line |-> <<>>]
  <2>1. s \in Places BY <1>1 DEF Complete
  <2>2. s.field = f OBVIOUS
  <2> HIDE DEF s
  <2>3. PICK i \in 1 .. Len(leaves) : Slot(leaves[i]) = s BY <1>4, <2>1 DEF Places
  <2>4. leaves[i].base = f BY <1>4, <2>2, <2>3, ElementFacts
  <2>5. leaves[i].text # Empty /\ \A j \in 1 .. Len(leaves) : j # i => Slot(leaves[j]) # Slot(leaves[i])
    BY <1>1, PlainFacts
  <2>6. \A j \in i + 1 .. at : j \in 1 .. Len(leaves) /\ j # i BY <1>4
  <2>7. KeptOK(i) BY DEF RoInv
  <2>8. QED BY <2>4, <2>5, <2>6, <2>7
<1>6. "VIN" \in PII_FIELDS BY DEF PII_FIELDS
<1>7. "CUSTOMER_COMPLAINT" \in KNOWN_FIELDS /\ "CUSTOMER_COMPLAINT" \notin PII_FIELDS
      /\ "CUSTOMER_COMPLAINT" \notin DETERMINISTIC_FIELDS
  BY DEF KNOWN_FIELDS, PII_FIELDS, DETERMINISTIC_FIELDS, SEMANTIC_FIELDS, LINE_ITEM_BASE_FIELDS,
         LABOR_BASE_FIELDS, PART_BASE_FIELDS, IntFields, NumberFields, TotalFields
<1>8. "VIN" \in DOMAIN pii /\ pii["VIN"] # Empty
  <2>1. PICK i \in 1 .. Len(leaves) :
          /\ leaves[i].base = "VIN" /\ leaves[i].text # Empty /\ KeptOK(i)
          /\ ~(\E j \in i + 1 .. at : Slot(leaves[j]) = Slot(leaves[i]))
    BY <1>5
  <2>2. leaves[i].base \in KNOWN_FIELDS /\ leaves[i].base \notin DETERMINISTIC_FIELDS
    BY <1>6, <2>1, FieldClasses DEF KNOWN_FIELDS
  <2>3. \A j \in 1 .. Len(semantic) : semantic[j] # leaves[i] BY <1>1, <1>6, <2>1, TextsKept
  <2>4. QED BY <2>1, <2>2, <2>3 DEF KeptOK
<1>9. \E i \in DOMAIN semantic : semantic[i].base = "CUSTOMER_COMPLAINT"
  <2>1. PICK i \in 1 .. Len(leaves) :
          /\ leaves[i].base = "CUSTOMER_COMPLAINT" /\ KeptOK(i)
          /\ ~(\E j \in i + 1 .. at : Slot(leaves[j]) = Slot(leaves[i]))
    BY <1>5
  <2>2. \E j \in 1 .. Len(semantic) : semantic[j] = leaves[i] BY <1>7, <2>1 DEF KeptOK
  <2>3. QED BY <1>4, <2>1, <2>2
<1>10. QED BY <1>2, <1>3, <1>8, <1>9

\* The searches for the customer's texts find nothing.
LEMMA PassLeaks ==
  ASSUME RoAssumption, RoInv, WellFormed, at = Len(leaves)
  PROVE  ~DeterministicLeak /\ ~SemanticLeak
<1>1. PlainElements /\ CustomerApart BY DEF WellFormed
<1>2. /\ \A f \in DOMAIN pii : pii[f] \in TextsOf(PII_FIELDS)
      /\ \A s \in DOMAIN det : det[s] \in TextsOf(KNOWN_FIELDS \ PII_FIELDS)
      /\ \A j \in 1 .. Len(semantic) : semantic[j].text \in TextsOf(KNOWN_FIELDS \ PII_FIELDS)
  BY <1>1, TextsKept
<1>3. CustomerTexts \subseteq TextsOf(PII_FIELDS) BY <1>2 DEF CustomerTexts
<1>4. DOMAIN semantic = 1 .. Len(semantic) BY LeafFacts
<1>5. /\ TextsOf(PII_FIELDS) \cap KeyWords = {}
      /\ TextsOf(PII_FIELDS) \cap TextsOf(KNOWN_FIELDS \ PII_FIELDS) = {}
  BY <1>1 DEF CustomerApart
<1>6. ~DeterministicLeak BY <1>2, <1>3, <1>5 DEF DeterministicLeak
<1>7. ~SemanticLeak BY <1>2, <1>3, <1>4, <1>5 DEF SemanticLeak
<1>8. QED BY <1>6, <1>7

\* Nothing of it is unknown, and no part has a text but no line.
LEMMA PassKnown ==
  ASSUME RoAssumption, RoInv, WellFormed, at = Len(leaves)
  PROVE  /\ unknown = {}
         /\ \A i \in DOMAIN semantic : semantic[i].base \notin PII_FIELDS
         /\ SemanticParts \subseteq parts
<1>1. PlainElements BY DEF WellFormed
<1>2. \A i \in 1 .. Len(leaves) : leaves[i].base \in KNOWN_FIELDS BY <1>1, PlainFacts
<1>3. unknown = {}
  <2>1. \A n \in unknown : \E i \in 1 .. at : leaves[i].base \notin KNOWN_FIELDS
    BY DEF RoInv, OriginOK
  <2>2. QED BY <1>2, <2>1
<1>4. DOMAIN semantic = 1 .. Len(semantic) BY LeafFacts
<1>5. \A i \in DOMAIN semantic : semantic[i].base \notin PII_FIELDS BY <1>1, <1>4, TextsKept
<1>6. ASSUME NEW j \in DOMAIN semantic, Len(semantic[j].idx) = 2
      PROVE  Slot(semantic[j]).line \in parts
  <2>1. PICK i \in 1 .. at : leaves[i] = semantic[j] BY <1>4 DEF RoInv, OriginOK
  <2>2. KeptOK(i) BY DEF RoInv
  <2>3. QED BY <1>2, <1>6, <2>1, <2>2 DEF KeptOK
<1>7. SemanticParts \subseteq parts BY <1>6 DEF SemanticParts
<1>8. QED BY <1>3, <1>5, <1>7

LEMMA AllChecksPass ==
  ASSUME RoAssumption, RoInv, WellFormed, at = Len(leaves), NEW k \in 1 .. 17
  PROVE  Passes(Checks[k], FALSE)
<1>1. CASE k \in {1, 2, 8}
  <2>1. Checks[k] \in {"known", "screened", "part_descriptions"} BY <1>1, CheckNames
  <2>2. QED BY <2>1, PassKnown DEF Passes
<1>2. CASE k \in {3, 4, 15}
  <2>1. Checks[k] \in {"header", "ro_number", "content"} BY <1>2, CheckNames
  <2>2. QED BY <2>1, PassContent DEF Passes
<1>3. CASE k \in {5, 6, 7}
  <2>1. Checks[k] \in {"labor_indices", "part_parents", "part_indices"} BY <1>3, CheckNames
  <2>2. LinesRight BY PassLines
  <2>3. QED BY <2>1, <2>2 DEF Passes, LinesRight
<1>4. CASE k \in {9, 10}
  <2>1. Checks[k] \in {"labor_amounts", "part_amounts"} BY <1>4, CheckNames
  <2>2. QED BY <2>1, PassLabor, PassParts DEF Passes
<1>5. CASE k \in {11, 12, 13, 14}
  <2>1. Checks[k] \in {"labor_total", "parts_total", "fees", "grand_total"} BY <1>5, CheckNames
  <2>2. QED BY <2>1, PassTotals DEF Passes
<1>6. CASE k \in {16, 17}
  <2>1. Checks[k] \in {"deterministic_leak", "semantic_leak"} BY <1>6, CheckNames
  <2>2. QED BY <2>1, PassLeaks DEF Passes
<1>7. k \in {1, 2, 8} \cup {3, 4, 15} \cup {5, 6, 7} \cup {9, 10} \cup {11, 12, 13, 14} \cup {16, 17}
  OBVIOUS
<1>8. QED BY <1>1, <1>2, <1>3, <1>4, <1>5, <1>6, <1>7, Zenon

\* A step that refuses a document.
LEMMA RefusingStep ==
  ASSUME RoAssumption, RoInv, RoNext, stage' = "refused"
  PROVE  UNCHANGED <<doc, leaves>> /\ ~WellFormed
<1>1. Len(Content[doc]) \in Nat /\ RoTypeOK /\ Len(leaves) \in Nat
  BY ContentFacts, LeafFacts DEF RoInv
<1>2. WellFormed => leaves = Content[doc] BY DEF WellFormed, PlainElements
<1>3. CASE RefuseNested
  <2>1. Len(leaves) <= read /\ read \in Nat /\ read < Len(Content[doc]) /\ UNCHANGED <<doc, leaves>>
    BY <1>1, <1>3 DEF RefuseNested, RoTypeOK
  <2>2. QED BY <1>1, <1>2, <2>1
<1>4. CASE Extracted
  <2>1. leaves = <<>> /\ Content[doc] # <<>> /\ UNCHANGED <<doc, leaves>> BY <1>4 DEF Extracted
  <2>2. QED BY <1>2, <2>1
<1>5. CASE RefuseElement
  <2>1. at < Len(leaves) /\ Misplaced(leaves[at + 1]) /\ UNCHANGED <<doc, leaves>>
    BY <1>5 DEF RefuseElement
  <2>2. QED BY <2>1, NoneMisplaced
<1>6. CASE Fail
  <2>1. PICK k \in 1 .. 17 : stage = Checks[k] BY <1>6, ChecksDiffer DEF Fail
  <2>2. ~Passes(Checks[k], FALSE) /\ UNCHANGED <<doc, leaves>> BY <1>6, <2>1 DEF Fail
  <2>3. at = Len(leaves) BY <2>1, ChecksDiffer DEF RoInv, PhaseOK
  <2>4. QED BY <2>2, <2>3, AllChecksPass
<1>7. CASE ReadElement \/ RouteElement BY <1>7 DEF ReadElement, RouteElement
<1>8. CASE Routed BY <1>8, ChecksDiffer DEF Routed
<1>9. CASE Pass
  <2>1. PICK k \in 1 .. 17 : stage = Checks[k] /\ stage' = After(Checks[k])
    BY <1>9, ChecksDiffer DEF Pass
  <2>2. QED BY <2>1, AfterNext, ChecksDiffer
<1>10. QED BY <1>3, <1>4, <1>5, <1>6, <1>7, <1>8, <1>9 DEF RoNext

\* A document that keeps the documented rules is never turned away, whatever
\* its length and its amounts (extractFlatFields, routeXmlToPayloads,
\* validateRoutedPayloads, runIngestPipeline): every error the code can raise
\* needs an element that breaks a rule.
THEOREM RefusalsAreJustified == RoSpec => []RefusalIsJustified
<1>1. RoInit => RefusalIsJustified BY DEF RoInit, RefusalIsJustified
<1>2. RoInv /\ RefusalIsJustified /\ [RoNext]_roVars => RefusalIsJustified'
  <2> SUFFICES ASSUME RoInv, RefusalIsJustified, [RoNext]_roVars, stage' = "refused", WellFormed'
               PROVE  FALSE
    BY DEF RefusalIsJustified
  <2>1. CASE RoNext
    <3>1. UNCHANGED <<doc, leaves>> /\ ~WellFormed BY <2>1, RefusingStep, RoAssumption
    <3>2. QED BY <3>1, WellFormedStays
  <2>2. CASE UNCHANGED roVars
    <3>1. UNCHANGED <<doc, leaves>> /\ stage = "refused" BY <2>2 DEF roVars
    <3>2. QED BY <3>1, WellFormedStays DEF RefusalIsJustified
  <2>3. QED BY <2>1, <2>2
<1>3. QED BY <1>1, <1>2, InvHolds, PTL DEF RoSpec

=============================================================================
