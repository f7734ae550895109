----------------------------- MODULE Operations -----------------------------
(***************************************************************************)
(* What runs around the canonical core: the review queue of a distillation *)
(* receipt, the migration of historical sessions, the capture of ChatGPT   *)
(* conversations and the provider's extraction of a source.  The four keep *)
(* separate tables, files and banks and call nothing of each other, so     *)
(* their behaviours commute: one deployment runs one of them.              *)
(***************************************************************************)
EXTENDS SemanticReview, HistoricalMigration, ContextCapture, ProviderExtraction

VARIABLE deployed  \* the part of the system that is at work

operationsVars == <<deployed, reviewVars, migrationVars, captureVars, extractionVars>>

OperationsInit ==
  /\ deployed \in {"review", "migration", "capture", "extraction"}
  /\ ReviewInit /\ MigrationInit /\ CaptureInit /\ ExtractionInit

OperationsNext ==
  \/ /\ deployed = "review" /\ ReviewNext
     /\ UNCHANGED <<deployed, migrationVars, captureVars, extractionVars>>
  \/ /\ deployed = "migration" /\ MigrationNext
     /\ UNCHANGED <<deployed, reviewVars, captureVars, extractionVars>>
  \/ /\ deployed = "capture" /\ CaptureNext
     /\ UNCHANGED <<deployed, reviewVars, migrationVars, extractionVars>>
  \/ /\ deployed = "extraction" /\ ExtractionNext
     /\ UNCHANGED <<deployed, reviewVars, migrationVars, captureVars>>

OperationsSpec == OperationsInit /\ [][OperationsNext]_operationsVars

(* Type invariant of the four. *)
OperationsTypeOK == ReviewTypeOK /\ MigrationTypeOK /\ CaptureTypeOK /\ ExtractionTypeOK
=============================================================================
