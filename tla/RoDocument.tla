---------------------------- MODULE RoDocument ----------------------------
(***************************************************************************)
(* One uploaded repair order on its way from XML to rows: its elements are *)
(* routed by name (routeXmlToPayloads), the payloads are validated         *)
(* (validateRoutedPayloads), and nothing of the customer may be left in    *)
(* what is not encrypted (runIngestPipeline).                              *)
(*                                                                         *)
(* Content[d] is the sequence of the innermost elements of document d.  An *)
(* element has a base name, up to two numerals that end the name, and a    *)
(* text: a number, in the unit of its field (cents, hundredths of an hour  *)
(* or of a quantity), or one of Words.                                     *)
(***************************************************************************)
EXTENDS Integers, Sequences, FiniteSets, FiniteSetsExt, Functions

CONSTANTS
  Documents,  \* documents that may be uploaded
  Content,    \* Content[d]: the elements of document d
  Numerals,   \* strings of digits in element names
  ParsedInt,  \* ParsedInt[n]: what parseInt makes of numeral n
  Words,      \* texts that are not numbers
  Empty,      \* the text of an empty element, one of Words
  KeyWords,   \* words that are part of a key of the payload's JSON
  Patterns    \* words that redactSemanticText replaces

Forms == {"flat", "nested", "loose"}

Elements ==
  [base : STRING, idx : UNION {[1 .. n -> Numerals] : n \in 0 .. 2}, text : Int \cup Words, form : Forms]

ASSUME RoAssumption ==
  /\ ParsedInt \in [Numerals -> Nat]
  /\ Words \cap Int = {}
  /\ Empty \in Words
  /\ KeyWords \subseteq Words /\ Patterns \subseteq Words
  /\ Content \in [Documents -> Seq(Elements)]

PII_FIELDS ==
  {"CUSTOMER_FIRST_NAME", "CUSTOMER_LAST_NAME", "CUSTOMER_PHONE", "CUSTOMER_EMAIL",
   "CUSTOMER_ADDRESS_LINE1", "CUSTOMER_ADDRESS_CITY", "CUSTOMER_ADDRESS_STATE",
   "CUSTOMER_ADDRESS_POSTAL", "VIN", "LICENSE_PLATE"}

LABOR_BASE_FIELDS ==
  {"LABOR_LINE_NUMBER", "OP_CODE", "OP_DESCRIPTION", "LABOR_TYPE", "SKILL_LEVEL",
   "FLAT_RATE_HOURS", "ACTUAL_HOURS", "LABOR_RATE", "LABOR_EXTENDED_AMOUNT",
   "TECHNICIAN_ID", "TECHNICIAN_NOTES"}

PART_BASE_FIELDS ==
  {"PART_LINE_NUMBER", "PART_NUMBER", "PART_DESCRIPTION", "PART_QUANTITY",
   "PART_UNIT_PRICE", "PART_EXTENDED_PRICE", "PART_SOURCE", "BACKORDER_FLAG"}

LINE_ITEM_BASE_FIELDS == LABOR_BASE_FIELDS \cup PART_BASE_FIELDS

SEMANTIC_FIELDS ==
  {"CUSTOMER_COMPLAINT", "ADDITIONAL_SYMPTOMS", "CUSTOMER_REQUESTS", "OP_DESCRIPTION",
   "TECHNICIAN_NOTES", "CAUSE", "CORRECTION", "PART_DESCRIPTION", "ADVISOR_NOTES",
   "INTERNAL_COMMENTS", "QC_NOTES"}

\* Fields that toInt and toNumber parse.
IntFields == {"VEHICLE_YEAR", "ODOMETER_IN", "ODOMETER_OUT", "LABOR_LINE_NUMBER", "PART_LINE_NUMBER"}
TotalFields ==
  {"LABOR_TOTAL", "PARTS_TOTAL", "SHOP_FEES", "ENVIRONMENTAL_FEES", "DISCOUNT_TOTAL",
   "TAX_TOTAL", "GRAND_TOTAL"}
NumberFields ==
  TotalFields \cup
  {"FLAT_RATE_HOURS", "ACTUAL_HOURS", "LABOR_RATE", "LABOR_EXTENDED_AMOUNT",
   "PART_QUANTITY", "PART_UNIT_PRICE", "PART_EXTENDED_PRICE"}

DETERMINISTIC_FIELDS ==
  (LINE_ITEM_BASE_FIELDS \ SEMANTIC_FIELDS) \cup IntFields \cup NumberFields \cup
  {"RO_NUMBER", "RO_STATUS", "OPEN_TIMESTAMP", "CLOSE_TIMESTAMP", "WRITEUP_TIMESTAMP",
   "PROMISED_TIMESTAMP", "ADVISOR_ID", "SERVICE_LANE", "DEPARTMENT_CODE", "WAITER_FLAG",
   "LOANER_FLAG", "WARRANTY_FLAG", "FLEET_FLAG", "INTERNAL_RO_FLAG", "CUSTOMER_TYPE",
   "PREFERRED_CONTACT_METHOD", "MARKETING_OPT_IN", "VEHICLE_MAKE", "VEHICLE_MODEL",
   "VEHICLE_TRIM", "VEHICLE_ENGINE", "VEHICLE_TRANSMISSION", "VEHICLE_DRIVETRAIN",
   "VEHICLE_COLOR", "VEHICLE_PRODUCTION_DATE", "PAYMENT_METHOD", "INVOICE_NUMBER",
   "CREATED_BY_SYSTEM", "INGEST_TIMESTAMP", "TENANT_ID", "SOURCE_SYSTEM"}

KNOWN_FIELDS == PII_FIELDS \cup DETERMINISTIC_FIELDS \cup SEMANTIC_FIELDS

VARIABLES
  doc,      \* the document
  read,     \* how many of its elements are extracted
  leaves,   \* the flat ones among these
  at,       \* how many of the leaves are routed
  stage,    \* "extract", "route", a member of Checks, "accepted" or "refused"
  seen,     \* element names met so far
  unknown,  \* those that no class knows
  pii,      \* piiPayload: text of each PII field met
  det,      \* deterministicPayload: text of each slot
  labor,    \* keys of laborLineMap
  parts,    \* keys of partLineMap
  semantic  \* semanticPayload: elements, in order

payloads == <<pii, det, labor, parts, semantic>>
roVars == <<doc, read, leaves, at, stage, seen, unknown, payloads>>

Checks ==
  <<"known", "screened", "header", "ro_number", "labor_indices", "part_parents",
    "part_indices", "part_descriptions", "labor_amounts", "part_amounts", "labor_total",
    "parts_total", "fees", "grand_total", "content", "deterministic_leak",
    "semantic_leak">>

\* The stage that follows check c.
After(c) ==
  LET i == CHOOSE j \in DOMAIN Checks : Checks[j] = c
  IN IF i = Len(Checks) THEN "accepted" ELSE Checks[i + 1]

ElementName(e) == <<e.base, e.idx>>

\* Where an element is stored: "1" and "01" name the same line.
Slot(e) == [field |-> e.base, line |-> [i \in DOMAIN e.idx |-> ParsedInt[e.idx[i]]]]

RoInit ==
  /\ doc \in Documents
  /\ read = 0 /\ leaves = <<>> /\ at = 0
  /\ stage = "extract"
  /\ seen = {} /\ unknown = {}
  /\ pii = <<>> /\ det = <<>>
  /\ labor = {} /\ parts = {}
  /\ semantic = <<>>

-----------------------------------------------------------------------------
(***************************************************************************)
(* extractFlatFields, one element at a time: those with plain tags are     *)
(* read; one with an element inside is an error; what does not match the   *)
(* pattern (attributes in the tag, a missing end tag) is passed over,      *)
(* unless nothing matches.                                                 *)
(***************************************************************************)
NextElement == Content[doc][read + 1]

ReadElement ==
  /\ stage = "extract" /\ read < Len(Content[doc])
  /\ NextElement.form # "nested"
  /\ leaves' = IF NextElement.form = "flat" THEN Append(leaves, NextElement) ELSE leaves
  /\ read' = read + 1
  /\ UNCHANGED <<doc, at, stage, seen, unknown, payloads>>

RefuseNested ==
  /\ stage = "extract" /\ read < Len(Content[doc])
  /\ NextElement.form = "nested"
  /\ stage' = "refused"
  /\ UNCHANGED <<doc, read, leaves, at, seen, unknown, payloads>>

Extracted ==
  /\ stage = "extract" /\ read = Len(Content[doc])
  /\ stage' = IF leaves = <<>> /\ Content[doc] # <<>> THEN "refused" ELSE "route"
  /\ UNCHANGED <<doc, read, leaves, at, seen, unknown, payloads>>

-----------------------------------------------------------------------------
(***************************************************************************)
(* routeXmlToPayloads, one element at a time.                              *)
(***************************************************************************)
Indexed(e) == e.idx # <<>>

\* Mistake: the second index is not looked at.
ZeroLine(e) == Indexed(e) /\ ParsedInt[e.idx[1]] = 0

ZeroIndex(e) == \E i \in DOMAIN e.idx : ParsedInt[e.idx[i]] = 0

\* toInt and toNumber: an empty text is no integer, but it is the number 0.
Unparsable(e) ==
  /\ e.text \in Words
  /\ \/ e.base \in IntFields
     \/ e.base \in NumberFields /\ e.text # Empty

Parsed(e) == IF e.base \in NumberFields /\ e.text = Empty THEN 0 ELSE e.text

\* The errors that end routing at element e.
Misplaced(e) ==
  \/ ElementName(e) \in seen
  \/ ZeroIndex(e)
  \/ e.base \in PII_FIELDS /\ Indexed(e)
  \/ e.base \in KNOWN_FIELDS \ PII_FIELDS /\
       \/ Indexed(e) /\ e.base \notin LINE_ITEM_BASE_FIELDS
       \/ ~Indexed(e) /\ e.base \in LINE_ITEM_BASE_FIELDS
       \/ Len(e.idx) = 1 /\ e.base \notin LABOR_BASE_FIELDS
       \/ Len(e.idx) = 2 /\ e.base \notin PART_BASE_FIELDS
       \/ e.base \in DETERMINISTIC_FIELDS /\ Unparsable(e)

\* A payload with value v at key k.
Put(f, k, v) == [x \in DOMAIN f \cup {k} |-> IF x = k THEN v ELSE f[x]]

RoutePii(e) ==
  /\ e.base \in PII_FIELDS
  /\ pii' = Put(pii, e.base, e.text)
  /\ UNCHANGED <<unknown, det, labor, parts, semantic>>

RouteUnknown(e) ==
  /\ e.base \notin KNOWN_FIELDS
  /\ unknown' = unknown \cup {ElementName(e)}
  /\ UNCHANGED payloads

\* Mistake: a semantic element does not open the line it belongs to.
RouteFieldLoosely(e) ==
  /\ e.base \in KNOWN_FIELDS \ PII_FIELDS
  /\ labor' = IF Len(e.idx) = 1 /\ e.base \in DETERMINISTIC_FIELDS
                THEN labor \cup {Slot(e).line[1]} ELSE labor
  /\ parts' = IF Len(e.idx) = 2 /\ e.base \in DETERMINISTIC_FIELDS
                THEN parts \cup {Slot(e).line} ELSE parts
  /\ IF e.base \in DETERMINISTIC_FIELDS
     THEN det' = Put(det, Slot(e), Parsed(e)) /\ UNCHANGED semantic
     ELSE semantic' = Append(semantic, e) /\ UNCHANGED det
  /\ UNCHANGED <<unknown, pii>>

\* A semantic element with an index opens its line too.
RouteField(e) ==
  /\ e.base \in KNOWN_FIELDS \ PII_FIELDS
  /\ labor' = IF Len(e.idx) = 1 THEN labor \cup {Slot(e).line[1]} ELSE labor
  /\ parts' = IF Len(e.idx) = 2 THEN parts \cup {Slot(e).line} ELSE parts
  /\ IF e.base \in DETERMINISTIC_FIELDS
     THEN det' = Put(det, Slot(e), Parsed(e)) /\ UNCHANGED semantic
     ELSE semantic' = Append(semantic, e) /\ UNCHANGED det
  /\ UNCHANGED <<unknown, pii>>

RouteElement ==
  /\ stage = "route" /\ at < Len(leaves)
  /\ LET e == leaves[at + 1]
     IN /\ ~Misplaced(e)
        /\ seen' = seen \cup {ElementName(e)}
        /\ RoutePii(e) \/ RouteUnknown(e) \/ RouteField(e)
  /\ at' = at + 1
  /\ UNCHANGED <<doc, read, leaves, stage>>

RefuseElement ==
  /\ stage = "route" /\ at < Len(leaves)
  /\ Misplaced(leaves[at + 1])
  /\ stage' = "refused"
  /\ UNCHANGED <<doc, read, leaves, at, seen, unknown, payloads>>

Routed ==
  /\ stage = "route" /\ at = Len(leaves)
  /\ stage' = Checks[1]
  /\ UNCHANGED <<doc, read, leaves, at, seen, unknown, payloads>>

-----------------------------------------------------------------------------
(***************************************************************************)
(* validateRoutedPayloads, and the two searches of runIngestPipeline for   *)
(* texts of the customer.  The amounts are floats: at a difference of      *)
(* exactly one cent the tolerance may hold or not, depending on how both   *)
(* numbers are rounded; `edge` says which.                                 *)
(***************************************************************************)
LABOR_RATE_FIXED == 27500  \* cents per hour
HOURS_MAX == 2000          \* hundredths of an hour

Abs(n) == IF n < 0 THEN -n ELSE n
Reconciles(difference, cent, edge) ==
  Abs(difference) < cent \/ (edge /\ Abs(difference) = cent)

Has(field, line) == [field |-> field, line |-> line] \in DOMAIN det
Value(field, line) == det[[field |-> field, line |-> line]]

\* Present and not the empty string.
Filled(field) == Has(field, <<>>) /\ Value(field, <<>>) # Empty

RO_NUMBERS == 6920000 .. 9999999
RoNumberValid == Value("RO_NUMBER", <<>>) \in RO_NUMBERS

\* Mistake: no two neighbours differ by more than one, wherever they start.
ContiguousAnywhere(indices) ==
  \A m, n \in indices : m < n => m + 1 \in indices

\* ensureContiguousIndices: in ascending order, the i-th index is i.
Contiguous(indices) ==
  \A n \in indices : Cardinality({m \in indices : m <= n}) = n

PartIndices(l) == {p[2] : p \in {q \in parts : q[1] = l}}

SemanticParts ==
  {Slot(semantic[i]).line : i \in {j \in DOMAIN semantic : Len(semantic[j].idx) = 2}}

\* Mistake: the longest job that is allowed is refused.
LaborPricedShort(l, edge) ==
  /\ Has("ACTUAL_HOURS", <<l>>) /\ Has("LABOR_RATE", <<l>>) /\ Has("LABOR_EXTENDED_AMOUNT", <<l>>)
  /\ Value("ACTUAL_HOURS", <<l>>) \in 1 .. HOURS_MAX - 1
  /\ Reconciles(Value("LABOR_RATE", <<l>>) - LABOR_RATE_FIXED, 1, edge)
  /\ Reconciles(Value("LABOR_EXTENDED_AMOUNT", <<l>>)
                  - Value("ACTUAL_HOURS", <<l>>) * (LABOR_RATE_FIXED \div 100), 1, edge)

LaborPriced(l, edge) ==
  /\ Has("ACTUAL_HOURS", <<l>>) /\ Has("LABOR_RATE", <<l>>) /\ Has("LABOR_EXTENDED_AMOUNT", <<l>>)
  /\ Value("ACTUAL_HOURS", <<l>>) \in 1 .. HOURS_MAX
  /\ Reconciles(Value("LABOR_RATE", <<l>>) - LABOR_RATE_FIXED, 1, edge)
  /\ Reconciles(Value("LABOR_EXTENDED_AMOUNT", <<l>>)
                  - Value("ACTUAL_HOURS", <<l>>) * (LABOR_RATE_FIXED \div 100), 1, edge)

\* Mistake: the extended price is taken as it stands.
PartPricedUnseen(p, edge) ==
  Has("PART_QUANTITY", p) /\ Has("PART_UNIT_PRICE", p) /\ Has("PART_EXTENDED_PRICE", p)

\* In hundredths of a cent, since the quantity has two decimals.
PartPriced(p, edge) ==
  /\ Has("PART_QUANTITY", p) /\ Has("PART_UNIT_PRICE", p) /\ Has("PART_EXTENDED_PRICE", p)
  /\ Reconciles(100 * Value("PART_EXTENDED_PRICE", p)
                  - Value("PART_QUANTITY", p) * Value("PART_UNIT_PRICE", p), 100, edge)

LaborComputed == SumFunction([l \in labor |-> Value("LABOR_EXTENDED_AMOUNT", <<l>>)])
PartsComputed == SumFunction([p \in parts |-> Value("PART_EXTENDED_PRICE", p)])
GrandComputed ==
  LaborComputed + PartsComputed + Value("SHOP_FEES", <<>>) + Value("ENVIRONMENTAL_FEES", <<>>)
    + Value("TAX_TOTAL", <<>>) - Value("DISCOUNT_TOTAL", <<>>)

\* The total of that name is there and agrees with what was computed.
TotalAgrees(field, computed, edge) ==
  Has(field, <<>>) /\ Reconciles(Value(field, <<>>) - computed, 1, edge)

\* flattenPiiValues: first and last name are one text, empty ones are left out.
Names == {"CUSTOMER_FIRST_NAME", "CUSTOMER_LAST_NAME"}
CustomerTexts ==
  LET filled == {f \in DOMAIN pii : pii[f] # Empty}
  IN {pii[f] : f \in IF Names \subseteq filled THEN filled \ Names ELSE filled}

\* The search goes through the JSON text of the payload, its keys included.
DeterministicLeak ==
  \/ CustomerTexts \cap {det[s] : s \in DOMAIN det} # {}
  \/ CustomerTexts \cap KeyWords # {}

SemanticLeak ==
  CustomerTexts \cap ({semantic[i].text : i \in DOMAIN semantic} \ Patterns) # {}

Passes(check, edge) ==
  CASE check = "known" -> unknown = {}
    [] check = "screened" -> \A i \in DOMAIN semantic : semantic[i].base \notin PII_FIELDS
    [] check = "header" -> \A f \in {"RO_NUMBER", "RO_STATUS", "OPEN_TIMESTAMP"} : Filled(f)
    [] check = "ro_number" -> RoNumberValid
    [] check = "labor_indices" -> labor # {} /\ Contiguous(labor)
    [] check = "part_parents" -> \A p \in parts : p[1] \in labor
    [] check = "part_indices" -> \A l \in labor : Contiguous(PartIndices(l))
    [] check = "part_descriptions" -> SemanticParts \subseteq parts
    [] check = "labor_amounts" -> \A l \in labor : LaborPriced(l, edge)
    [] check = "part_amounts" -> \A p \in parts : PartPriced(p, edge)
    [] check = "labor_total" -> TotalAgrees("LABOR_TOTAL", LaborComputed, edge)
    [] check = "parts_total" -> TotalAgrees("PARTS_TOTAL", PartsComputed, edge)
    [] check = "fees" ->
         \A f \in {"SHOP_FEES", "ENVIRONMENTAL_FEES", "TAX_TOTAL", "DISCOUNT_TOTAL"} : Has(f, <<>>)
    [] check = "grand_total" -> TotalAgrees("GRAND_TOTAL", GrandComputed, edge)
    [] check = "content" ->
         /\ "VIN" \in DOMAIN pii /\ pii["VIN"] # Empty
         /\ \E i \in DOMAIN semantic : semantic[i].base = "CUSTOMER_COMPLAINT"
    [] check = "deterministic_leak" -> ~DeterministicLeak
    [] check = "semantic_leak" -> ~SemanticLeak

Stages == {"extract", "route", "accepted", "refused"} \cup {Checks[i] : i \in DOMAIN Checks}

Pass ==
  /\ stage \in {Checks[i] : i \in DOMAIN Checks}
  /\ Passes(stage, TRUE)
  /\ stage' = After(stage)
  /\ UNCHANGED <<doc, read, leaves, at, seen, unknown, payloads>>

Fail ==
  /\ stage \in {Checks[i] : i \in DOMAIN Checks}
  /\ ~Passes(stage, FALSE)
  /\ stage' = "refused"
  /\ UNCHANGED <<doc, read, leaves, at, seen, unknown, payloads>>

RoNext ==
  \/ ReadElement \/ RefuseNested \/ Extracted
  \/ RouteElement \/ RefuseElement \/ Routed \/ Pass \/ Fail

RoSpec == RoInit /\ [][RoNext]_roVars

-----------------------------------------------------------------------------
RoTypeOK ==
  /\ doc \in Documents
  /\ read \in 0 .. Len(Content[doc])
  /\ Len(leaves) <= read
  /\ at \in 0 .. Len(leaves)
  /\ stage \in Stages
  /\ seen = {ElementName(leaves[i]) : i \in 1 .. at}
  /\ unknown \subseteq seen
  /\ DOMAIN pii \subseteq PII_FIELDS
  /\ \A s \in DOMAIN det : s.field \in DETERMINISTIC_FIELDS
  /\ labor \subseteq Nat \ {0}
  /\ parts \subseteq (Nat \ {0}) \X (Nat \ {0})
  /\ Len(semantic) <= at

(***************************************************************************)
(* What an accepted document is, told from its elements alone.             *)
(***************************************************************************)

\* The text of an element of the document, the last one if there are more
\* spellings of it, and 0 for an empty number.
Places == {Slot(leaves[i]) : i \in DOMAIN leaves}
Text(field, line) ==
  LET places == {i \in DOMAIN leaves : Slot(leaves[i]) = [field |-> field, line |-> line]}
  IN Parsed(leaves[Max(places)])
LaborLines == {s.line[1] : s \in {p \in Places : Len(p.line) = 1}}
PartLines == {s.line : s \in {p \in Places : Len(p.line) = 2}}

\* The lines of an accepted document are numbered from 1 without a gap, the
\* parts of each line too, and no part is left without its line
\* (validateLineItems; docs/03_SCHEMA_V2.md:38-40).
LinesAreDense ==
  stage = "accepted" =>
    /\ LaborLines # {}
    /\ \A l \in LaborLines : 1 .. l \subseteq LaborLines
    /\ \A p \in PartLines :
         p[1] \in LaborLines /\ \A m \in 1 .. p[2] : <<p[1], m>> \in PartLines

\* What its hours, its goods (in hundredths of a cent) and its fees come to.
Hours == SumFunction([l \in LaborLines |-> Text("ACTUAL_HOURS", <<l>>)])
Goods ==
  SumFunction([p \in PartLines |-> Text("PART_QUANTITY", p) * Text("PART_UNIT_PRICE", p)])
Fees ==
  Text("SHOP_FEES", <<>>) + Text("ENVIRONMENTAL_FEES", <<>>)
    + Text("TAX_TOTAL", <<>>) - Text("DISCOUNT_TOTAL", <<>>)

\* The grand total of an accepted document is what its hours and its
\* quantities come to.  Each line and the total may be off by the tolerance
\* of one cent, and these add up (validateLineItems).
MoneyAddsUp ==
  stage = "accepted" =>
    Abs(100 * Text("GRAND_TOTAL", <<>>) - (100 * Fees + LABOR_RATE_FIXED * Hours + Goods))
      <= 100 * (Cardinality(LaborLines) + Cardinality(PartLines) + 1)

\* Every element the parser reads is kept: in the vault, in a column of the
\* line that its index names, or as semantic text of a line that has a row.
\* Only another spelling of the same name may replace it.
NothingIsLost ==
  stage = "accepted" =>
    \A i \in DOMAIN leaves :
      LET e == leaves[i]
      IN \/ e.base \in PII_FIELDS /\ pii[e.base] = e.text
         \/ /\ e.base \in DETERMINISTIC_FIELDS
            /\ Slot(e) \in DOMAIN det /\ det[Slot(e)] = Parsed(e)
         \/ /\ \E j \in DOMAIN semantic : semantic[j] = e
            /\ Len(e.idx) = 1 => Slot(e).line[1] \in labor
            /\ Len(e.idx) = 2 => Slot(e).line \in parts
         \/ \E j \in i + 1 .. Len(leaves) : Slot(leaves[j]) = Slot(e)

\* Flat elements of known names, each once and with the index its class asks
\* for, and numbers where numbers belong.
PlainElements ==
  /\ leaves = Content[doc]
  /\ \A i, j \in DOMAIN leaves : i # j => Slot(leaves[i]) # Slot(leaves[j])
  /\ \A i \in DOMAIN leaves :
       LET e == leaves[i]
       IN /\ e.form = "flat" /\ e.base \in KNOWN_FIELDS
          /\ Len(e.idx) = (IF e.base \in LABOR_BASE_FIELDS THEN 1
                           ELSE IF e.base \in PART_BASE_FIELDS THEN 2 ELSE 0)
          /\ e.base \in IntFields \cup NumberFields => e.text \in Int
          /\ e.text # Empty

\* The elements that are asked for.
Complete ==
  /\ \A f \in TotalFields \cup {"RO_NUMBER", "RO_STATUS", "OPEN_TIMESTAMP", "VIN", "CUSTOMER_COMPLAINT"} :
       [field |-> f, line |-> <<>>] \in Places
  /\ Text("RO_NUMBER", <<>>) \in RO_NUMBERS

\* Dense lines.
DenselyNumbered ==
  /\ LaborLines # {} /\ LaborLines = 1 .. Max(LaborLines)
  /\ \A p \in PartLines :
       /\ p[2] > 0
       /\ p[1] \in LaborLines /\ \A m \in 1 .. p[2] : <<p[1], m>> \in PartLines

\* Amounts that agree to the cent.
LaborAmounts ==
  \A l \in LaborLines :
    /\ \A f \in {"ACTUAL_HOURS", "LABOR_RATE", "LABOR_EXTENDED_AMOUNT"} :
         [field |-> f, line |-> <<l>>] \in Places
    /\ Text("ACTUAL_HOURS", <<l>>) \in 1 .. HOURS_MAX
    /\ Text("LABOR_RATE", <<l>>) = LABOR_RATE_FIXED
    /\ 100 * Text("LABOR_EXTENDED_AMOUNT", <<l>>) = Text("ACTUAL_HOURS", <<l>>) * LABOR_RATE_FIXED

PartAmounts ==
  \A p \in PartLines :
    /\ \A f \in {"PART_QUANTITY", "PART_UNIT_PRICE", "PART_EXTENDED_PRICE"} :
         [field |-> f, line |-> p] \in Places
    /\ 100 * Text("PART_EXTENDED_PRICE", p) = Text("PART_QUANTITY", p) * Text("PART_UNIT_PRICE", p)

TotalsAgree ==
  /\ 100 * Text("LABOR_TOTAL", <<>>) = LABOR_RATE_FIXED * Hours
  /\ 100 * Text("PARTS_TOTAL", <<>>) = Goods
  /\ Text("GRAND_TOTAL", <<>>) = Text("LABOR_TOTAL", <<>>) + Text("PARTS_TOTAL", <<>>) + Fees

\* No text of the customer outside of the PII fields or among KeyWords.
TextsOf(fields) == {leaves[i].text : i \in {j \in DOMAIN leaves : leaves[j].base \in fields}}
CustomerApart ==
  TextsOf(PII_FIELDS) \cap (KeyWords \cup TextsOf(KNOWN_FIELDS \ PII_FIELDS)) = {}

\* What the documents promise to accept.
WellFormed ==
  /\ PlainElements /\ Complete /\ DenselyNumbered
  /\ LaborAmounts /\ PartAmounts /\ TotalsAgree /\ CustomerApart

\* A document that keeps the rules is never turned away.
RefusalIsJustified == stage = "refused" => ~WellFormed
=============================================================================
