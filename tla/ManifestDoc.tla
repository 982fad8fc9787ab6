----------------------------- MODULE ManifestDoc -----------------------------
(***************************************************************************)
(* manifest.json as a document: what Decode accepts, how it migrates the    *)
(* schemas of older releases, what doctor says of it, and what is written   *)
(* back (internal/manifest).  A document that may hold several things or    *)
(* none is a set of at most one element: Decode(d) = {} is an error.        *)
(***************************************************************************)
EXTENDS Integers, Sequences, FiniteSets

CONSTANT NoId  \* an absent activation id

CurrentSchemaVersion == 2
V2Fields == {"active_activation_id", "activations", "update_policy"}

\* A document: syntax is "none" when it is no JSON, "loose" when it has fields
\* no schema knows, or "strict"; schema is the number it carries, if any.
\* An entry: fields are those of schema 2 it spells out; sound stands for the
\* checks of single values (name, absolute clean path, tag, digests, repository,
\* times); evidence is what it records of the asset; legacy is the id, a hash of
\* the entry, that a migration gives its first event.
Evidence == {"asset_name", "asset_sha256", "checksum_asset", "checksum_verified"}

-----------------------------------------------------------------------------
(* Decoding, by the schema the document claims *)

\* Absent means zero; null and anything but a number are errors.
SchemaVersion(d) == IF d.schema = {} THEN 0 ELSE CHOOSE v \in d.schema : TRUE

\* Schemas 0 and 1: an unknown field is an error, so that no field of schema 2
\* is dropped by the migration.
DecodesLegacy(d) ==
  /\ SchemaVersion(d) \in {0, 1}
  /\ d.retention = "absent"
  /\ \A i \in DOMAIN d.entries : d.entries[i].fields = {}

\* Schema 2: everything is required.
DecodesV2(d) ==
  /\ SchemaVersion(d) = CurrentSchemaVersion
  /\ d.retention \in {"given", "negative"}
  /\ \A i \in DOMAIN d.entries : V2Fields \subseteq d.entries[i].fields

\* The history of an entry: ids are new, parents and reverted events earlier,
\* a tag never stands for two contents, and the last event is the active one.
ValidLineage(e) ==
  LET events == e.events
      Earlier(i) == {events[j].id : j \in 1..(i - 1)}
  IN /\ events # <<>> /\ e.active # NoId
     /\ \A i \in DOMAIN events :
          /\ events[i].id # NoId /\ events[i].id \notin Earlier(i)
          /\ events[i].parent \in Earlier(i) \union {NoId}
          /\ events[i].reverts \in Earlier(i) \union {NoId}
          /\ \A j \in DOMAIN events : events[j].tag = events[i].tag => events[j].sha = events[i].sha
     /\ LET last == events[Len(events)]
        IN last.id = e.active /\ last.tag = e.tag /\ last.sha = e.sha

CompleteEvidence(e) ==
  /\ "asset_name" \in e.evidence <=> "asset_sha256" \in e.evidence
  /\ "checksum_verified" \in e.evidence => Evidence \subseteq e.evidence
ChecksumHasAsset(e) == "checksum_asset" \in e.evidence => "asset_name" \in e.evidence
ValidEvidence(e) == CompleteEvidence(e) /\ ChecksumHasAsset(e)

ValidEntry(e) ==
  e.sound /\ ValidEvidence(e) /\ e.policy \in {"semver", "github-latest"} /\ ValidLineage(e)

\* Validate: the boundary shared by Load, Save and the journal's encoder.
Valid(m) ==
  /\ m.schema = CurrentSchemaVersion /\ m.retention = "given"
  /\ \A i \in DOMAIN m.entries : ValidEntry(m.entries[i])
  /\ \A i, j \in DOMAIN m.entries : i # j =>
       m.entries[i].name # m.entries[j].name /\ m.entries[i].path # m.entries[j].path

-----------------------------------------------------------------------------
(* Migration and encoding *)

\* The event a schema-1 entry is given: its id is a hash of the entry, its tag
\* and content are the current ones.
LegacyActivation(e) ==
  [id |-> e.legacy, parent |-> NoId, reverts |-> NoId, tag |-> e.tag, sha |-> e.sha]

MigrateEntry(e) ==
  [e EXCEPT !.fields = V2Fields, !.policy = "github-latest",
            !.events = <<LegacyActivation(e)>>, !.active = e.legacy]

Normalize(d) ==
  [schema |-> CurrentSchemaVersion,
   retention |-> IF DecodesLegacy(d) THEN "given" ELSE d.retention,
   entries |-> IF DecodesLegacy(d) THEN [i \in DOMAIN d.entries |-> MigrateEntry(d.entries[i])]
               ELSE d.entries]

Decode(d) ==
  IF d.syntax = "strict" /\ (DecodesLegacy(d) \/ DecodesV2(d)) /\ Valid(Normalize(d)) THEN {Normalize(d)} ELSE {}

\* Encoding writes the fields of schema 2 and, always, whether the checksum was
\* verified.
\* Mutant: the document keeps the schema it was read with.
EncodeBug(m) == [syntax |-> "strict", schema |-> {1}, retention |-> m.retention, entries |-> m.entries]

Encode(m) == [syntax |-> "strict", schema |-> {m.schema}, retention |-> m.retention, entries |-> m.entries]

\* Doctor's own reading: lenient first, so that a document Decode refuses is
\* still described, then Decode, then each entry once more.
DoctorFindings(d) ==
  IF d.syntax = "none" THEN {"MANIFEST_JSON_INVALID"}
  ELSE IF SchemaVersion(d) \notin 0..CurrentSchemaVersion THEN {"MANIFEST_SCHEMA_UNSUPPORTED"}
  ELSE (IF SchemaVersion(d) = 0 THEN {"MANIFEST_SCHEMA_IMPLICIT"} ELSE {})
       \union (IF Decode(d) = {} THEN {"MANIFEST_SEMANTIC_INVALID"} ELSE {})
       \union (IF \E i \in DOMAIN d.entries : ~d.entries[i].sound
               THEN {"MANIFEST_ENTRY_INVALID"} ELSE {})
       \union (IF \E i \in DOMAIN d.entries : ~CompleteEvidence(d.entries[i])
               THEN {"MANIFEST_ENTRY_EVIDENCE_INCOMPLETE"} ELSE {})
       \union (IF \E i \in DOMAIN d.entries : ~ChecksumHasAsset(d.entries[i])
               THEN {"MANIFEST_ENTRY_CHECKSUM_WITHOUT_ASSET"} ELSE {})
       \union (IF \E i, j \in DOMAIN d.entries : i # j /\ d.entries[i].name = d.entries[j].name
               THEN {"MANIFEST_DUPLICATE_NAME"} ELSE {})
       \union (IF \E i, j \in DOMAIN d.entries : i # j /\ d.entries[i].path = d.entries[j].path
               THEN {"MANIFEST_DUPLICATE_PATH"} ELSE {})
=============================================================================
