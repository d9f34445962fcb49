---------------------------- MODULE KeyRotation ----------------------------
(***************************************************************************)
(* Key rotation of the PII vault: gateways encrypt with the active key of  *)
(* the key ring they loaded (piiEncrypt.ts), the script pii_reencrypt.ts   *)
(* reads all rows at once and rewrites them one by one, without a          *)
(* transaction, and the operator adds and removes keys.                    *)
(*                                                                         *)
(* What the operator does is external: a key is removed only after a run   *)
(* of the script that ended well and was started when every gateway had    *)
(* been restarted with the new key.                                        *)
(***************************************************************************)
EXTENDS Naturals, FiniteSets

CONSTANTS
  Gateways,    \* gateway processes
  RepairOrders,
  OldKey, NewKey,
  MaxIngests,  \* ingests of one behaviour
  NoRing, NoVaultRow, NoWork

KeyRefs == {OldKey, NewKey}

ASSUME RotationAssumption ==
  /\ IsFiniteSet(RepairOrders)
  /\ OldKey # NewKey
  /\ MaxIngests \in Nat

VARIABLES
  config,    \* PII_ACTIVE_KEY and the key ring, as a new process gets them
  activeOf,  \* activeOf[g]: PII_ACTIVE_KEY of gateway g's environment
  ringOf,    \* ringOf[g]: cachedKeyRing of g, or NoRing
  work,      \* work[g]: an encrypted payload that is not stored yet, or NoWork
  vault,     \* vault[r]: row of repair order r: key, ingest, and whether it has hashes
  newest,    \* newest[r]: the ingest of r that was stored last
  ingests,   \* number of ingests
  script,    \* the script's state: rows to rewrite, key ring, and whether it may retire OldKey
  overtaken, \* repair orders stored while the script was running
  safe       \* a run of the script has ended after which OldKey may go

rotationVars ==
  <<config, activeOf, ringOf, work, vault, newest, ingests, script, overtaken, safe>>

NoScript == [rows |-> [r \in {} |-> NoVaultRow], running |-> FALSE, ring |-> NoRing,
             active |-> OldKey, late |-> FALSE]

RotationInit ==
  /\ config = [active |-> OldKey, ring |-> {OldKey}]
  /\ activeOf = [g \in Gateways |-> OldKey]
  /\ ringOf = [g \in Gateways |-> NoRing]
  /\ work = [g \in Gateways |-> NoWork]
  /\ vault = [r \in RepairOrders |-> NoVaultRow]
  /\ newest = [r \in RepairOrders |-> 0]
  /\ ingests = 0
  /\ script = NoScript
  /\ overtaken = {}
  /\ safe = FALSE

-----------------------------------------------------------------------------
\* getKeyRing: loaded at the first use, then kept.
LoadedRing(ring) == IF ring = NoRing THEN config.ring ELSE ring

\* encryptPiiPayload of an ingest; the active key has to be in the ring.
Encrypt(g, r) ==
  /\ work[g] = NoWork
  /\ ingests < MaxIngests
  /\ ringOf' = [ringOf EXCEPT ![g] = LoadedRing(@)]
  /\ activeOf[g] \in LoadedRing(ringOf[g])
  /\ ingests' = ingests + 1
  /\ work' = [work EXCEPT ![g] = [ro |-> r, key |-> activeOf[g], ingest |-> ingests + 1]]
  /\ UNCHANGED <<config, activeOf, vault, newest, script, overtaken, safe>>

\* writePiiVaultRecord and the COMMIT of the ingest.
StoreVaultRow(g) ==
  /\ work[g] # NoWork
  /\ LET w == work[g]
     IN /\ vault' = [vault EXCEPT ![w.ro] = [key |-> w.key, ingest |-> w.ingest, hashes |-> TRUE]]
        /\ newest' = [newest EXCEPT ![w.ro] = w.ingest]
        /\ overtaken' = IF script.running THEN overtaken \cup {w.ro} ELSE overtaken \ {w.ro}
  /\ work' = [work EXCEPT ![g] = NoWork]
  /\ UNCHANGED <<config, activeOf, ringOf, ingests, script, safe>>

\* The ingest fails, or its gateway restarts with what is configured now.
RestartGateway(g) ==
  /\ activeOf' = [activeOf EXCEPT ![g] = config.active]
  /\ ringOf' = [ringOf EXCEPT ![g] = NoRing]
  /\ work' = [work EXCEPT ![g] = NoWork]
  /\ UNCHANGED <<config, vault, newest, ingests, script, overtaken, safe>>

\* The SELECT of the script; customer_uuid is never missing.
ReadVault ==
  /\ ~script.running
  /\ script' = [rows |-> [r \in {q \in RepairOrders : vault[q] # NoVaultRow} |-> vault[r]],
                running |-> TRUE, ring |-> NoRing, active |-> config.active,
                late |-> config.active = NewKey /\ \A g \in Gateways : activeOf[g] = NewKey]
  /\ UNCHANGED <<config, activeOf, ringOf, work, vault, newest, ingests, overtaken, safe>>

Rest(r) == [script EXCEPT !.ring = LoadedRing(@), !.rows = [q \in DOMAIN @ \ {r} |-> @[q]]]

\* Mistake: rows that already have the active key are the only ones rewritten.
RewriteRowOfActive(r) ==
  /\ script.running /\ r \in DOMAIN script.rows
  /\ script' = Rest(r)
  /\ vault' = IF script.rows[r].key = script.active
                THEN [vault EXCEPT ![r] = [script.rows[r] EXCEPT !.hashes = FALSE]] ELSE vault
  /\ UNCHANGED <<config, activeOf, ringOf, work, newest, ingests, overtaken, safe>>

\* A row is decrypted, encrypted again and upserted as it was read, without
\* its hashes.
RewriteRow(r) ==
  /\ script.running /\ r \in DOMAIN script.rows
  /\ script.rows[r].key \in LoadedRing(script.ring) /\ script.active \in LoadedRing(script.ring)
  /\ script' = Rest(r)
  /\ vault' = [vault EXCEPT ![r] =
                 [key |-> script.active, ingest |-> script.rows[r].ingest, hashes |-> FALSE]]
  /\ UNCHANGED <<config, activeOf, ringOf, work, newest, ingests, overtaken, safe>>

ScriptEnds ==
  /\ script.running /\ DOMAIN script.rows = {}
  /\ script' = NoScript
  /\ safe' = (safe \/ script.late)
  /\ UNCHANGED <<config, activeOf, ringOf, work, vault, newest, ingests, overtaken>>

\* A key is missing, a statement fails, or the process dies.
ScriptFails ==
  /\ script.running
  /\ script' = NoScript
  /\ UNCHANGED <<config, activeOf, ringOf, work, vault, newest, ingests, overtaken, safe>>

AddKey ==
  /\ config.active = OldKey
  /\ config' = [active |-> NewKey, ring |-> KeyRefs]
  /\ UNCHANGED <<activeOf, ringOf, work, vault, newest, ingests, script, overtaken, safe>>

RemoveKey ==
  /\ safe /\ config.ring = KeyRefs
  /\ config' = [config EXCEPT !.ring = {NewKey}]
  /\ UNCHANGED <<activeOf, ringOf, work, vault, newest, ingests, script, overtaken, safe>>

RotationNext ==
  \/ \E g \in Gateways :
       (\E r \in RepairOrders : Encrypt(g, r)) \/ StoreVaultRow(g) \/ RestartGateway(g)
  \/ ReadVault \/ (\E r \in RepairOrders : RewriteRow(r)) \/ ScriptEnds \/ ScriptFails
  \/ AddKey \/ RemoveKey

RotationSpec == RotationInit /\ [][RotationNext]_rotationVars

-----------------------------------------------------------------------------
VaultRows == [key : KeyRefs, ingest : 1 .. MaxIngests, hashes : BOOLEAN]

RotationTypeOK ==
  /\ config \in [active : KeyRefs, ring : SUBSET KeyRefs]
  /\ activeOf \in [Gateways -> KeyRefs]
  /\ ringOf \in [Gateways -> (SUBSET KeyRefs) \cup {NoRing}]
  /\ work \in [Gateways ->
       [ro : RepairOrders, key : KeyRefs, ingest : 1 .. ingests] \cup {NoWork}]
  /\ vault \in [RepairOrders -> VaultRows \cup {NoVaultRow}]
  /\ newest \in [RepairOrders -> 0 .. MaxIngests]
  /\ ingests \in 0 .. MaxIngests
  /\ DOMAIN script.rows \subseteq RepairOrders
  /\ \A r \in DOMAIN script.rows : script.rows[r] \in VaultRows
  /\ overtaken \subseteq RepairOrders
  /\ safe \in BOOLEAN

\* Every row can be decrypted with the configured ring, also after OldKey is
\* gone; and it holds the payload of its newest ingest, unless that was stored
\* while the script was running (pii_reencrypt.ts:15-48, piiEncrypt.ts:54-57).
VaultIsCurrent ==
  \A r \in RepairOrders :
    vault[r] # NoVaultRow =>
      /\ vault[r].key \in config.ring
      /\ vault[r].ingest = newest[r] \/ r \in overtaken
=============================================================================
