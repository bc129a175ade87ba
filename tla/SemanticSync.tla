---------------------------- MODULE SemanticSync ----------------------------
(***************************************************************************)
(* The semantic snapshot of the live stage. In PostUpdate one system       *)
(* brings it up to the batch of the frame: by a delta if it can, by a full *)
(* extraction otherwise. SemanticStore and RuntimeDelivery add to these    *)
(* steps what is fed with the snapshot.                                    *)
(***************************************************************************)
EXTENDS LiveFrame

Snapshots == [session : Nat, revision : Nat, rows : Rows]

ASSUME SyncAssumption == None \notin Snapshots

VARIABLES
  sync,            \* SemanticSyncState
  lost             \* a batch was given up since the last full extraction

syncVars == <<frameVars, sync, lost>>

SyncInit == FrameInit /\ sync = None /\ lost = FALSE

Update ==
  /\ \/ StartUpdate /\ UNCHANGED faults
     \/ DrainNotices \/ EndUpdate
  /\ UNCHANGED <<sync, lost>>

Change ==
  \/ Edit /\ UNCHANGED <<sync, lost>>
  \/ OpenStage /\ sync' = None /\ UNCHANGED lost

(***************************************************************************)
(* synchronize_live_stage.                                                 *)
(***************************************************************************)

SameSession == sync # None /\ sync.session = session

HasNewBatch == batch # None /\ batch.revision > sync.revision

UpToDate == stage = None \/ (SameSession /\ ~HasNewBatch)

OldRowsOfOthers ==               \* mutant: the prims of the batch are not read again
  [p \in Paths |-> IF p \in batch.named /\ stage[p] = None THEN None
                   ELSE sync.rows[p]]

\* The snapshot before, with the prims of the batch read again from the stage.
Refreshed ==
  [p \in Paths |-> IF p \in batch.named THEN stage[p] ELSE sync.rows[p]]

CanUseDelta == SameSession /\ Root \notin batch.named /\ Injective(Refreshed)

Synchronizes == phase = "PostUpdate" /\ phase' = "Project"

Advance(rows) ==
  /\ Synchronizes
  /\ sync' = [session |-> session, revision |-> revision, rows |-> rows]
  /\ UNCHANGED <<live, batch, edits>>

ByDelta ==
  /\ ~UpToDate /\ CanUseDelta /\ Advance(Refreshed)
  /\ UNCHANGED <<lost, faults>>

\* Also where the extraction of the delta fails.
BySnapshot ==
  /\ ~UpToDate /\ Advance(stage)
  /\ lost' = FALSE
  /\ IF CanUseDelta THEN Fault ELSE UNCHANGED faults

\* Nothing is extracted. Without a snapshot the next frame tries again; a
\* batch is gone by then, and deltas that follow do not make up for it.
ExtractionFails ==
  /\ Synchronizes /\ ~UpToDate /\ Fault
  /\ lost' = (lost \/ SameSession)
  /\ UNCHANGED <<live, batch, sync, edits>>

NothingToDo ==
  Synchronizes /\ UpToDate /\ UNCHANGED <<live, batch, sync, lost, edits, faults>>

(***************************************************************************)
(* Properties.                                                             *)
(***************************************************************************)

SyncTypeOK ==
  /\ FrameTypeOK
  /\ \/ sync = None
     \/ sync \in [session : 1 .. MaxSessions, revision : 0 .. MaxEdits, rows : Rows]
  /\ lost \in BOOLEAN

\* A snapshot patched by deltas is the one a full extraction would give: at the
\* revision of the stage, with no notice waiting, it shows every prim as it is,
\* unless a batch was given up because nothing could be extracted.
FollowsStage ==
  SameSession /\ sync.revision = revision /\ queue = {} /\ ~lost =>
    sync.rows = stage
=============================================================================
