------------------------- MODULE MCDocumentsAndJobs -------------------------
(***************************************************************************)
(* The document that is ingested, and the jobs around the ingest: the FTP  *)
(* watcher, the worker's counters and the rotation of keys.  None of them  *)
(* reads another's state, so that a behaviour is about one of them.        *)
(***************************************************************************)
EXTENDS RoDocument, FtpWatcher, WorkerMetrics, KeyRotation, TLC

CONSTANTS empty, word, indiana, phone, name

VARIABLE focus

MCParsedInt == [n \in {"0", "1", "01", "2", "3"} |->
  CASE n = "0" -> 0 [] n \in {"1", "01"} -> 1 [] n = "2" -> 2 [] OTHER -> 3]

Element(base, idx, text) == [base |-> base, idx |-> idx, text |-> text, form |-> "flat"]

\* The elements of a repair order that the checks ask for.
Header ==
  << Element("RO_NUMBER", <<>>, 6920000), Element("RO_STATUS", <<>>, word),
     Element("OPEN_TIMESTAMP", <<>>, word), Element("VIN", <<>>, name),
     Element("CUSTOMER_COMPLAINT", <<>>, word) >>

\* Hours in hundredths; every line is off by so many cents.
LaborLine(l, hours, off) ==
  << Element("ACTUAL_HOURS", <<l>>, hours), Element("LABOR_RATE", <<l>>, 27500),
     Element("LABOR_EXTENDED_AMOUNT", <<l>>, 275 * hours + off) >>

PartLine(l, p, unit, off) ==
  << Element("PART_QUANTITY", <<l, p>>, 200), Element("PART_UNIT_PRICE", <<l, p>>, unit),
     Element("PART_EXTENDED_PRICE", <<l, p>>, 2 * unit + off) >>

Totals(labors, partsTotal, grand) ==
  << Element("LABOR_TOTAL", <<>>, labors), Element("PARTS_TOTAL", <<>>, partsTotal),
     Element("SHOP_FEES", <<>>, 300), Element("ENVIRONMENTAL_FEES", <<>>, 200),
     Element("TAX_TOTAL", <<>>, 700), Element("DISCOUNT_TOTAL", <<>>, 400),
     Element("GRAND_TOTAL", <<>>, grand) >>

\* One labor line with one part; each of the five amounts is off by some
\* cents from what the ones before it add up to.
Priced(labor1, part1, laborTotal, partsTotal, grand) ==
  Header \o LaborLine("1", 150, labor1) \o PartLine("1", "1", 999, part1)
    \o Totals(41250 + labor1 + laborTotal, 1998 + part1 + partsTotal,
              44048 + labor1 + part1 + grand)

Plain == Priced(0, 0, 0, 0, 0)

\* Two labor lines and two parts, numbered in any way.
Numbered(l1, l2, p1, p2) ==
  LET sameLine == l1 = "1" /\ l2 = "01"
      samePart == p1 = <<"1", "1">> /\ p2 = <<"01", "1">>
      labors == IF sameLine THEN 27500 ELSE 577500
      goods == IF samePart THEN 100 ELSE 200
  IN Header \o LaborLine(l1, 2000, 0) \o LaborLine(l2, 100, 0)
       \o PartLine(p1[1], p1[2], 50, 0) \o PartLine(p2[1], p2[2], 50, 0)
       \o Totals(labors, goods, labors + goods + 800)

\* Other forms of an element of the plain document.
Changes(e) ==
  {[e EXCEPT !.text = t] : t \in {empty, word, indiana, 0, 2001}}
    \cup {[e EXCEPT !.form = f] : f \in {"nested", "loose"}}
    \cup {[e EXCEPT !.idx = i] : i \in {<<>>, <<"1">>, <<"2">>, <<"1", "1">>}}
    \cup {[e EXCEPT !.base = b] : b \in {"FUEL_LEVEL", "ODOMETER_IN"}}

\* Elements that may be added: optional ones, or ones that are there already.
More ==
  {Element(b, <<>>, t) : b \in {"CUSTOMER_FIRST_NAME", "CUSTOMER_LAST_NAME", "CUSTOMER_ADDRESS_STATE"},
                         t \in {word, indiana, name, phone}}
    \cup {Element("CUSTOMER_PHONE", <<>>, phone), Element("ADVISOR_NOTES", <<>>, phone),
          Element("ODOMETER_IN", <<>>, 500), Element("DISCOUNT_TOTAL", <<>>, 0),
          [Element("ADVISOR_ID", <<>>, word) EXCEPT !.form = "loose"]}
    \cup {Element("OP_DESCRIPTION", i, word) : i \in {<<>>, <<"1">>, <<"01">>, <<"2">>}}
    \cup {Element("PART_DESCRIPTION", i, word) : i \in {<<"1">>, <<"1", "1">>, <<"1", "2">>}}

MCDocuments ==
  {<<"nothing">>}
    \cup {"numbered"} \X {"0", "1", "2"} \X {"1", "01", "2", "3"}
            \X {<<"1", "1">>, <<"2", "1">>}
            \X {<<"1", "2">>, <<"1", "3">>, <<"2", "1">>, <<"3", "1">>, <<"01", "1">>, <<"1", "0">>}
    \cup UNION {{"changed"} \X {i} \X Changes(Plain[i]) : i \in DOMAIN Plain}
    \cup {"longer"} \X More \X More
    \cup UNION {{"both"} \X {i} \X Changes(Plain[i]) \X More : i \in DOMAIN Plain}
    \cup {"priced"} \X (-1 .. 1) \X (0 .. 2) \X (-1 .. 1) \X (0 .. 2) \X (-1 .. 2)

MCContent == [d \in MCDocuments |->
  CASE d[1] = "nothing" -> <<>>
    [] d[1] = "numbered" -> Numbered(d[2], d[3], d[4], d[5])
    [] d[1] = "changed" -> [Plain EXCEPT ![d[2]] = d[3]]
    [] d[1] = "both" -> Append([Plain EXCEPT ![d[2]] = d[3]], d[4])
    [] d[1] = "longer" -> Append(Append(Plain, d[2]), d[3])
    [] d[1] = "priced" -> Priced(d[2], d[3], d[4], d[5], d[6])]

-----------------------------------------------------------------------------
\* Two files of one tenant and day.
MCFolder == [p \in Paths |-> "today"]
MCOwner == [f \in {"today"} |-> "dealer"]

Interchangeable == Permutations(Scans) \cup Permutations(Batches)

Init ==
  /\ focus \in {"document", "watcher", "metrics", "rotation"}
  /\ RoInit /\ WatcherInit /\ MetricsInit /\ RotationInit
  /\ focus # "document" => doc = <<"nothing">>
  /\ focus # "watcher" => schema

Next ==
  /\ UNCHANGED focus
  /\ \/ focus = "document" /\ RoNext /\ UNCHANGED <<watcherVars, metricsVars, rotationVars>>
     \/ focus = "watcher" /\ WatcherNext /\ UNCHANGED <<roVars, metricsVars, rotationVars>>
     \/ focus = "metrics" /\ MetricsNext /\ UNCHANGED <<roVars, watcherVars, rotationVars>>
     \/ focus = "rotation" /\ RotationNext /\ UNCHANGED <<roVars, watcherVars, metricsVars>>

Spec == Init /\ [][Next]_<<focus, roVars, watcherVars, metricsVars, rotationVars>>

\* The types of the module that the behaviour is about.
DocumentsAndJobsTypeOK ==
  CASE focus = "document" -> RoTypeOK
    [] focus = "watcher" -> WatcherTypeOK
    [] focus = "metrics" -> MetricsTypeOK
    [] focus = "rotation" -> RotationTypeOK
=============================================================================
