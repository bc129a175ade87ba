------------------------- MODULE RecoveryCheckpoint -------------------------
(***************************************************************************)
(* Recovery checkpoints. In PostUpdate a system exports the stage of a     *)
(* frame that has a batch, and a worker thread writes the export and its   *)
(* metadata as two files of the session's directory, each replaced by a    *)
(* rename. The process may die between any two steps; the next one counts  *)
(* its sessions from one again, in the same directories.                   *)
(*                                                                         *)
(* A digest is the rows it was taken of. Temporary files, which nothing    *)
(* reads, are left out.                                                    *)
(***************************************************************************)
EXTENDS LiveFrame

CONSTANTS
  RecoveryCapacity, RecoveryResultCapacity,
  MaxCrashes       \* bound: deaths of the process

ASSUME RecoveryAssumption ==
  {RecoveryCapacity, RecoveryResultCapacity} \subseteq Nat \ {0} /\ MaxCrashes \in Nat

VARIABLES
  checkpoints, unread,  \* RecoveryRuntime
  writing,         \* the work of the worker, and how far it is
  disk,            \* the files of each session's directory
  exported,        \* every export that was submitted, by any process
  failed,          \* the exports of this process that were not written
  crashes

recovering == <<checkpoints, unread, writing>>
recoveryVars == <<frameVars, recovering, disk, exported, failed, crashes>>

Sessions == 1 .. MaxSessions

Exports == [session : Sessions, revision : Nat, rows : Rows]

NoFiles == [stage |-> None, metadata |-> None]

RecoveryInit ==
  /\ FrameInit
  /\ checkpoints = <<>> /\ unread = 0 /\ writing = None
  /\ disk = [s \in Sessions |-> NoFiles]
  /\ exported = {} /\ failed = {} /\ crashes = 0

(***************************************************************************)
(* The frames.                                                             *)
(***************************************************************************)

RecoveryStageChanges ==
  (Edit \/ OpenStage) /\ UNCHANGED <<recovering, disk, exported, failed, crashes>>

RecoveryUpdate ==
  /\ \/ StartUpdate /\ UNCHANGED faults
     \/ DrainNotices \/ EndUpdate
  /\ UNCHANGED <<recovering, disk, exported, failed, crashes>>

KeepOldest(work) ==              \* mutant: the newest finds no room
  checkpoints' = IF Len(checkpoints) >= RecoveryCapacity
                   THEN checkpoints ELSE Append(checkpoints, work)

\* Where the queue is full the oldest work makes room.
SubmitWork(work) ==
  checkpoints' = Append(IF Len(checkpoints) >= RecoveryCapacity
                          THEN Tail(checkpoints) ELSE checkpoints, work)

\* drain_recovery_results and checkpoint_recovery. The revision is that of the
\* batch, the stage and its session are those of the moment. The stage may not
\* be exported.
CheckpointRecovery ==
  /\ phase = "PostUpdate" /\ phase' = "Project"
  /\ unread' = 0
  /\ IF batch = None \/ stage = None
       THEN UNCHANGED <<checkpoints, exported, failed, faults>>
       ELSE LET export == [session |-> session, revision |-> batch.revision,
                           rows |-> stage]
            IN  \/ /\ SubmitWork(export) /\ exported' = exported \cup {export}
                   /\ UNCHANGED <<failed, faults>>
                \/ /\ Fault /\ failed' = failed \cup {export}
                   /\ UNCHANGED <<checkpoints, exported>>
  /\ UNCHANGED <<live, batch, edits, writing, disk, crashes>>

(***************************************************************************)
(* recovery_worker: write_checkpoint_bytes, then the result.               *)
(***************************************************************************)

TakeRecoveryWork ==
  /\ writing = None /\ checkpoints # <<>>
  /\ writing' = [work |-> Head(checkpoints), step |-> "stage"]
  /\ checkpoints' = Tail(checkpoints)
  /\ UNCHANGED <<frameVars, unread, disk, exported, failed, crashes>>

InstallStage ==
  /\ writing # None /\ writing.step = "stage"
  /\ writing' = [writing EXCEPT !.step = "metadata"]
  /\ disk' = [disk EXCEPT ![writing.work.session].stage = writing.work.rows]
  /\ UNCHANGED <<frameVars, checkpoints, unread, exported, failed, crashes>>

InstallMetadata ==
  /\ writing # None /\ writing.step = "metadata"
  /\ writing' = [writing EXCEPT !.step = "written"]
  /\ disk' = [disk EXCEPT ![writing.work.session].metadata =
                [revision |-> writing.work.revision, digest |-> writing.work.rows]]
  /\ UNCHANGED <<frameVars, checkpoints, unread, exported, failed, crashes>>

\* What was renamed before the failure stays.
WriteFails ==
  /\ writing # None /\ writing.step # "written" /\ Fault
  /\ writing' = [writing EXCEPT !.step = "written"]
  /\ failed' = failed \cup {writing.work}
  /\ UNCHANGED <<live, batch, phase, edits, checkpoints, unread, disk, exported,
                 crashes>>

\* The worker waits while the results are not taken.
SendRecoveryResult ==
  /\ writing # None /\ writing.step = "written" /\ unread < RecoveryResultCapacity
  /\ unread' = unread + 1 /\ writing' = None
  /\ UNCHANGED <<frameVars, checkpoints, disk, exported, failed, crashes>>

(***************************************************************************)
(* What survives.                                                          *)
(***************************************************************************)

Crash ==
  /\ crashes < MaxCrashes /\ crashes' = crashes + 1
  /\ stage' \in Opened /\ session' = 1 /\ revision' = 0 /\ queue' = {}
  /\ batch' = None /\ phase' = "Project"
  /\ checkpoints' = <<>> /\ unread' = 0 /\ writing' = None /\ failed' = {}
  /\ UNCHANGED <<disk, exported, edits, faults>>

Complete(files) == files.stage # None /\ files.metadata # None

InspectNothing(files) == Complete(files)     \* mutant: the digest is not compared

\* inspect: what restore opens.
Restorable(files) ==
  Complete(files) /\ files.metadata.digest = files.stage

(***************************************************************************)
(* The specification.                                                      *)
(***************************************************************************)

RecoveryFrame == RecoveryUpdate \/ CheckpointRecovery

RecoveryWorker ==
  TakeRecoveryWork \/ InstallStage \/ InstallMetadata \/ WriteFails \/ SendRecoveryResult

RecoveryNext == RecoveryFrame \/ RecoveryStageChanges \/ RecoveryWorker \/ Crash

RecoveryFairness == WF_recoveryVars(RecoveryFrame) /\ WF_recoveryVars(RecoveryWorker)

RecoverySpec == RecoveryInit /\ [][RecoveryNext]_recoveryVars /\ RecoveryFairness

(***************************************************************************)
(* Properties.                                                             *)
(***************************************************************************)

\* Every variable has its type, and no queue holds more than its capacity.
RecoveryTypeOK ==
  /\ FrameTypeOK
  /\ checkpoints \in Seq(Exports) /\ Len(checkpoints) <= RecoveryCapacity
  /\ unread \in 0 .. RecoveryResultCapacity
  /\ writing = None \/ writing \in [work : Exports, step : {"stage", "metadata", "written"}]
  /\ disk \in [Sessions -> [stage : Rows \cup {None},
                            metadata : [revision : Nat, digest : Rows] \cup {None}]]
  /\ exported \cup failed \subseteq Exports /\ crashes \in 0 .. MaxCrashes

\* Whenever the process died, a restored stage is a whole export of its session
\* and of the revision its metadata names: never the stage of one checkpoint
\* with the metadata of another.
RestoresAnExport ==
  \A s \in Sessions :
     Restorable(disk[s]) =>
        [session |-> s, revision |-> disk[s].metadata.revision,
         rows |-> disk[s].stage] \in exported

Checkpointed ==
  /\ Restorable(disk[session])
  /\ disk[session].metadata.revision = revision
  /\ disk[session].stage = stage

\* Once edits and crashes end, the checkpoint holds the stage as it is, under
\* its last revision: a full queue gives up none but older ones. An export or a
\* write that failed is not tried again.
LastIsCheckpointed ==
  <>[](stage = None \/ revision = 0 \/ failed # {} \/ Checkpointed)
=============================================================================
