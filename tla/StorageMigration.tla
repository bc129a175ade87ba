-------------------------- MODULE StorageMigration --------------------------
(***************************************************************************)
(* The upgrade of a legacy Project (everything under .usdhub) to the       *)
(* Storage-v2 layout.  ManifestStore::read_validated runs it on any open   *)
(* that finds no canonical manifest, and recovers an interrupted one       *)
(* first.  Files are moved one rename at a time through a transaction      *)
(* directory with a journal; the rename that publishes the canonical       *)
(* manifest commits.  Before it the moves are undone, by the failed call   *)
(* or by the next open; after it they are finalized.                       *)
(*                                                                         *)
(* One process opens the Project at a time (the code takes no lock), and   *)
(* what a process wrote before it died is on the disk: every directory is  *)
(* synced before the manifest is published.  All files but one are moved   *)
(* into their place complete; the journal is created there and then        *)
(* written, and no open gets past one that was cut short.                  *)
(***************************************************************************)
EXTENDS Naturals

CONSTANTS Imports, LegacyScenes, Models,  \* the assets named by the manifest
          MaxFaults                       \* bound: crashes and I/O errors

ASSUME MigrationAssumption ==
  /\ Imports \cap LegacyScenes = {} /\ Imports \cap Models = {}
  /\ LegacyScenes \cap Models = {}
  /\ MaxFaults \in Nat

Assets      == Imports \cup LegacyScenes \cup Models
Directories == Imports \cup Models
Authored    == LegacyScenes \cup Models  \* those the migration writes a new layer for
SameKind(a, b) == (a \in Imports <=> b \in Imports) /\ (a \in Models <=> b \in Models)

VARIABLES
  place,      \* where the legacy content of an asset is
  layer,      \* where the migrated layer of an authored asset is
  wrapper,    \* the legacy wrapper in a Model directory: its name, the marker's, gone
  legacyManifest, canonicalManifest,
  journal,    \* migration.journal of the transaction directory: its phase, or torn
  step, then,   \* where read_validated is, and where it goes on after the transaction
  faults

files         == <<place, layer, wrapper, legacyManifest, canonicalManifest, journal>>
migrationVars == <<files, step, then, faults>>

MigrationTypeOK ==
  /\ place \in [Assets -> {"old", "backup", "final", "deleted"}]
  /\ layer \in [Assets -> {"none", "staged", "final", "deleted"}]
  /\ wrapper \in [Assets -> {"plain", "marked", "dropped"}]
  /\ legacyManifest \in BOOLEAN /\ canonicalManifest \in BOOLEAN
  /\ journal \in {"none", "torn", "prepared", "publishing"}
  /\ step \in {"closed", "planning", "journalling", "publishing", "undoing", "finalizing",
             "removing", "opened"}
  /\ then \in {"closed", "planning", "opened"}
  /\ faults \in 0..MaxFaults
  /\ \A a \in Imports : layer[a] = "none" /\ wrapper[a] = "plain"

MigrationInit ==
  /\ place = [a \in Assets |-> "old"]
  /\ layer = [a \in Assets |-> "none"]
  /\ wrapper = [a \in Assets |-> "plain"]
  /\ legacyManifest = TRUE /\ canonicalManifest = FALSE
  /\ journal = "none" /\ step = "closed" /\ then = "closed"
  /\ faults = 0

Goto(from, to) == step = from /\ step' = to

-----------------------------------------------------------------------------
(* read_validated and migrate_legacy_project                               *)

Legacy(a) == place[a] = "old" /\ layer[a] # "final" /\ wrapper[a] = "plain"

Published(a) ==
  /\ place[a] \in (IF a \in LegacyScenes THEN {"backup", "deleted"} ELSE {"final"})
  /\ a \in Authored => layer[a] = "final"
  /\ a \in Models => wrapper[a] # "plain"

BeginPlan ==
  /\ step' = "planning"
  /\ layer' = [a \in Assets |-> IF layer[a] = "final" THEN "final" ELSE "none"]

OpenIgnoringJournal ==        \* mutant: an interrupted transaction makes every open fail
  /\ step \in {"closed", "opened"} /\ journal = "none"
  /\ IF canonicalManifest THEN step' = "opened" /\ UNCHANGED layer
     ELSE legacyManifest /\ BeginPlan
  /\ UNCHANGED <<place, wrapper, legacyManifest, canonicalManifest, journal, then, faults>>

\* The journalled transaction is finalized if the canonical manifest is there,
\* whatever the phase it records, and undone if it is not. A journal that cannot be
\* decoded fails the open before anything is done.
Open ==
  /\ step \in {"closed", "opened"}
  /\ \/ /\ journal \in {"prepared", "publishing"}
        /\ step' = IF canonicalManifest THEN "finalizing" ELSE "undoing"
        /\ then' = IF canonicalManifest THEN "opened" ELSE "planning"
        /\ UNCHANGED layer
     \/ /\ journal = "none" /\ canonicalManifest
        /\ step' = "opened"
        /\ UNCHANGED <<then, layer>>
     \/ /\ journal = "none" /\ ~canonicalManifest /\ legacyManifest
        /\ BeginPlan
        /\ UNCHANGED then
  /\ UNCHANGED <<place, wrapper, legacyManifest, canonicalManifest, journal, faults>>

\* build_plan authors every migrated layer into the transaction directory.
StageLayer(a) ==
  /\ step = "planning"
  /\ a \in Authored /\ layer[a] = "none" /\ place[a] = "old"
  /\ layer' = [layer EXCEPT ![a] = "staged"]
  /\ UNCHANGED <<place, wrapper, legacyManifest, canonicalManifest, journal, step, then, faults>>

\* The journal is created on its final path, empty, ...
CreateJournal ==
  /\ Goto("planning", "journalling")
  /\ \A a \in Assets : place[a] = "old" /\ (a \in Authored => layer[a] = "staged")
  /\ journal' = "torn"
  /\ UNCHANGED <<place, layer, wrapper, legacyManifest, canonicalManifest, then, faults>>

\* ... and then it is written and synced.
WriteJournal ==
  /\ Goto("journalling", "publishing")
  /\ journal' = "prepared"
  /\ UNCHANGED <<place, layer, wrapper, legacyManifest, canonicalManifest, then, faults>>

-----------------------------------------------------------------------------
(* publish_plan: imports, then Scenes, then Models                         *)

MarkPublishing ==
  /\ step = "publishing" /\ journal = "prepared"
  /\ journal' = "publishing"
  /\ UNCHANGED <<place, layer, wrapper, legacyManifest, canonicalManifest, step, then, faults>>

\* One asset after the other; their order within a kind is the manifest's.
PublishTurn(a) ==
  /\ step = "publishing" /\ journal = "publishing" /\ ~Published(a)
  /\ \A b \in Assets \ {a} : Legacy(b) \/ Published(b)
  /\ a \notin Imports => \A b \in Imports : Published(b)
  /\ a \in Models => \A b \in LegacyScenes : Published(b)

Move(a, from, to) ==
  /\ place[a] = from
  /\ place' = [place EXCEPT ![a] = to]
  /\ UNCHANGED <<layer, wrapper, legacyManifest, canonicalManifest, journal, step, then, faults>>

BackUp(a) == PublishTurn(a) /\ Move(a, "old", "backup")

PublishDirectory(a) == a \in Directories /\ PublishTurn(a) /\ Move(a, "backup", "final")

MarkWrapper(a) ==
  /\ a \in Models /\ PublishTurn(a)
  /\ place[a] = "final" /\ wrapper[a] = "plain"
  /\ wrapper' = [wrapper EXCEPT ![a] = "marked"]
  /\ UNCHANGED <<place, layer, legacyManifest, canonicalManifest, journal, step, then, faults>>

\* The staged layer is renamed to the Scene's path or to the Model's wrapper.
PublishLayer(a) ==
  /\ PublishTurn(a) /\ layer[a] = "staged"
  /\ \/ a \in LegacyScenes /\ place[a] = "backup"
     \/ a \in Models /\ wrapper[a] = "marked"
  /\ layer' = [layer EXCEPT ![a] = "final"]
  /\ UNCHANGED <<place, wrapper, legacyManifest, canonicalManifest, journal, step, then, faults>>

CommitEarly ==                \* mutant: the manifest is published before the Models
  /\ Goto("publishing", "finalizing") /\ journal = "publishing"
  /\ \A a \in Imports \cup LegacyScenes : Published(a)
  /\ canonicalManifest' = TRUE
  /\ then' = "opened"
  /\ UNCHANGED <<place, layer, wrapper, legacyManifest, journal, faults>>

\* The canonical assets are validated and synced, then the manifest is renamed in.
WriteManifest ==
  /\ Goto("publishing", "finalizing") /\ journal = "publishing"
  /\ \A a \in Assets : Published(a)
  /\ canonicalManifest' = TRUE
  /\ then' = "opened"
  /\ UNCHANGED <<place, layer, wrapper, legacyManifest, journal, faults>>

-----------------------------------------------------------------------------
(* rollback_plan: imports, then Models, then Scenes                        *)

\* Within a kind the order is the reverse one: an asset half moved comes first.
UndoTurn(a) ==
  /\ step = "undoing" /\ ~Legacy(a)
  /\ a \notin Imports => \A b \in Imports : Legacy(b)
  /\ a \in LegacyScenes => \A b \in Models : Legacy(b)
  /\ \A b \in Assets \ {a} : SameKind(a, b) => Legacy(b) \/ Published(b)

RemoveLayer(a) ==
  /\ UndoTurn(a) /\ layer[a] = "final"
  /\ layer' = [layer EXCEPT ![a] = "deleted"]
  /\ UNCHANGED <<place, wrapper, legacyManifest, canonicalManifest, journal, step, then, faults>>

RestoreWrapper(a) ==
  /\ UndoTurn(a) /\ wrapper[a] = "marked" /\ layer[a] # "final"
  /\ wrapper' = [wrapper EXCEPT ![a] = "plain"]
  /\ UNCHANGED <<place, layer, legacyManifest, canonicalManifest, journal, step, then, faults>>

WithdrawDirectory(a) ==
  /\ UndoTurn(a) /\ a \in Directories
  /\ layer[a] # "final" /\ wrapper[a] = "plain"
  /\ Move(a, "final", "backup")

Restore(a) == UndoTurn(a) /\ layer[a] # "final" /\ Move(a, "backup", "old")

\* verify_rolled_back and the directory syncs come before the transaction is removed.
VerifyUndone ==
  /\ Goto("undoing", "removing")
  /\ ~canonicalManifest /\ \A a \in Assets : Legacy(a)
  /\ UNCHANGED <<files, then, faults>>

-----------------------------------------------------------------------------
(* finalize_committed_migration and remove_transaction_directory           *)

RemoveLegacyManifest ==
  /\ step = "finalizing" /\ \A a \in Assets : Published(a)
  /\ legacyManifest
  /\ legacyManifest' = FALSE
  /\ UNCHANGED <<place, layer, wrapper, canonicalManifest, journal, step, then, faults>>

RemoveMarker(a) ==
  /\ step = "finalizing" /\ ~legacyManifest
  /\ a \in Models /\ wrapper[a] = "marked"
  /\ wrapper' = [wrapper EXCEPT ![a] = "dropped"]
  /\ UNCHANGED <<place, layer, legacyManifest, canonicalManifest, journal, step, then, faults>>

FinalizeKeepingMarkers ==     \* mutant: only the legacy manifest is cleaned up
  /\ Goto("finalizing", "removing") /\ ~legacyManifest
  /\ UNCHANGED <<files, then, faults>>

Finalized ==
  /\ Goto("finalizing", "removing")
  /\ ~legacyManifest /\ \A a \in Models : wrapper[a] # "marked"
  /\ UNCHANGED <<files, then, faults>>

\* remove_dir_all deletes what is left in the transaction directory in any order.
RemoveFromTransaction ==
  /\ step = "removing"
  /\ \/ \E a \in Assets : /\ place[a] = "backup"
                          /\ place' = [place EXCEPT ![a] = "deleted"]
                          /\ UNCHANGED <<layer, journal>>
     \/ \E a \in Assets : /\ layer[a] = "staged"
                          /\ layer' = [layer EXCEPT ![a] = "deleted"]
                          /\ UNCHANGED <<place, journal>>
     \/ /\ journal # "none" /\ journal' = "none"
        /\ UNCHANGED <<place, layer>>
  /\ UNCHANGED <<wrapper, legacyManifest, canonicalManifest, step, then, faults>>

TransactionRemoved ==
  /\ step = "removing" /\ journal = "none"
  /\ \A a \in Assets : place[a] # "backup" /\ layer[a] # "staged"
  /\ IF then = "planning" THEN BeginPlan ELSE step' = then /\ UNCHANGED layer
  /\ UNCHANGED <<place, wrapper, legacyManifest, canonicalManifest, journal, then, faults>>

-----------------------------------------------------------------------------
(* Faults                                                                  *)

Fault == faults < MaxFaults /\ faults' = faults + 1

DropTransaction ==            \* mutant: a failed publication only removes its directory
  /\ Fault /\ Goto("publishing", "removing")
  /\ then' = "closed"
  /\ UNCHANGED files

\* An error of publish_plan undoes its moves; the open fails.
PublishFails ==
  /\ Fault /\ Goto("publishing", "undoing")
  /\ then' = "closed"
  /\ UNCHANGED files

\* A journal that could not be written, or not be synced, is removed with its directory;
\* whether that succeeds is not looked at.
JournalFails ==
  /\ Fault /\ Goto("journalling", "closed")
  /\ journal' \in {"none", "torn", "prepared"}
  /\ UNCHANGED <<place, layer, wrapper, legacyManifest, canonicalManifest, then>>

\* The process dies, or another step fails and read_validated returns the error: the
\* files stay as they are for the next open.
Stop ==
  /\ Fault /\ step \notin {"closed", "opened"} /\ step' = "closed"
  /\ UNCHANGED <<files, then>>

-----------------------------------------------------------------------------
MigrationStep ==
  \/ Open \/ CreateJournal \/ WriteJournal \/ MarkPublishing \/ WriteManifest \/ VerifyUndone
  \/ RemoveLegacyManifest \/ Finalized \/ RemoveFromTransaction \/ TransactionRemoved
  \/ \E a \in Assets :
       \/ StageLayer(a) \/ BackUp(a) \/ PublishDirectory(a) \/ MarkWrapper(a)
       \/ PublishLayer(a) \/ RemoveLayer(a) \/ RestoreWrapper(a)
       \/ WithdrawDirectory(a) \/ Restore(a) \/ RemoveMarker(a)

MigrationNext == MigrationStep \/ PublishFails \/ JournalFails \/ Stop

MigrationSafety == MigrationInit /\ [][MigrationNext]_migrationVars

\* Something opens the Project again after a failed open, and a call of
\* read_validated that nothing stops returns.
MigrationSpec == MigrationSafety /\ WF_migrationVars(MigrationStep)

-----------------------------------------------------------------------------
(* Properties                                                              *)

\* The legacy content of an asset is deleted only once its migrated form is committed
\* and in place: no crash, error or half-removed transaction loses one.
NothingLost ==
  \A a \in Assets :
    place[a] = "deleted" \/ wrapper[a] = "dropped" => canonicalManifest /\ Published(a)

\* The canonical manifest is the commit marker: while it is there every asset is
\* readable at its canonical path, and until it is there the legacy manifest is kept.
ManifestCommits ==
  IF canonicalManifest THEN \A a \in Assets : Published(a) ELSE legacyManifest

\* Outside a call and with no journal that the next open recovers from, the Project is
\* entirely legacy or entirely Storage v2, without a legacy manifest or marker left to be
\* taken for current. A torn journal leaves it as it was.
Settled ==
  journal \in {"none", "torn"} /\ step \in {"closed", "opened"} =>
    \/ ~canonicalManifest /\ (\A a \in Assets : Legacy(a))
    \/ /\ canonicalManifest /\ ~legacyManifest
       /\ \A a \in Assets : Published(a) /\ wrapper[a] # "marked"

\* A journal that was cut short while it was written: no open gets past it, and nothing
\* but the user removes it.
Blocked == journal = "torn" /\ step = "closed"

\* However often it is interrupted, the Project is opened in the end, and for good: by
\* every crash and error but one that cuts the writing of the journal short. That one
\* blocks the Project for good, and there is no other state that does.
FinallyUpgraded ==
  \/ <>[](canonicalManifest /\ journal = "none" /\ step = "opened")
  \/ <>[]Blocked
=============================================================================
