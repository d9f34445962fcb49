-------------------------- MODULE MCIngestPipeline --------------------------
(***************************************************************************)
(* Small instances of IngestPipeline for TLC.                              *)
(***************************************************************************)
EXTENDS IngestPipeline

CONSTANTS first, again, revised, foreign    \* requests

\* "again" posts the file of "first" once more, "revised" is another file for
\* the same repair order, "foreign" is the first file in another tenant.
MCTenant == [r \in Requests |-> IF r = foreign THEN "B" ELSE "A"]

MCSha == [r \in Requests |-> IF r = revised THEN 2 ELSE 1]

MCRoNumber == [r \in Requests |-> 1]

\* The revised order names a second phone number of the customer.
MCHashes == [r \in Requests |-> IF r = revised THEN {"name", "phone"} ELSE {"name"}]

\* Files of the same customer about different repair orders.
MCVisits == [r \in Requests |-> IF r = first THEN 1 ELSE 2]
=============================================================================
