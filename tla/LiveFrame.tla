------------------------------ MODULE LiveFrame ------------------------------
(***************************************************************************)
(* The live stage over the frames of the viewport: edits leave notices,    *)
(* one system drains them in Update as the batch of the frame, and the     *)
(* systems of PostUpdate work from that batch. SemanticSync and            *)
(* RecoveryCheckpoint add those systems.                                   *)
(*                                                                         *)
(* A stage is a row per prim path. An entity is its key: a prim whose      *)
(* values change gets another one, and no two prims share a key.           *)
(***************************************************************************)
EXTENDS Naturals, Sequences

CONSTANTS
  NumPaths,        \* prim paths, in the order of their names
  Keys, None,
  Opened,          \* the stages a file may compose
  MaxEdits,        \* bound: edits in a behaviour
  MaxSessions,     \* bound: stages opened in a process
  MaxFaults        \* bound: operations that fail

Paths == 1 .. NumPaths

Injective(rows) ==
  \A p, q \in Paths : rows[p] = rows[q] => p = q \/ rows[p] = None

Rows == {rows \in [Paths -> Keys \cup {None}] : Injective(rows)}

\* The path "/" of a notice that stands for the whole stage.
Root == 0

Batches == [revision : Nat, named : SUBSET (Paths \cup {Root})]

ASSUME FrameAssumption ==
  /\ NumPaths \in Nat /\ Opened \subseteq Rows
  /\ None \notin Keys /\ None \notin Rows /\ None \notin Batches
  /\ {MaxEdits, MaxFaults} \subseteq Nat /\ MaxSessions \in Nat \ {0}

VARIABLES
  stage, session, revision, \* LiveStage; the stage is None after a failed open
  queue, batch,    \* the notices not drained; those drained in this frame
  phase,           \* where the frame is
  edits, faults

live == <<stage, session, revision, queue>>
frameVars == <<live, batch, phase, edits, faults>>

Phases == {"Project", "Update", "Commands", "PostUpdate"}

FrameInit ==
  /\ stage \in Opened /\ session = 1 /\ revision = 0 /\ queue = {}
  /\ batch = None /\ phase = "Project"
  /\ edits = 0 /\ faults = 0

Fault == faults < MaxFaults /\ faults' = faults + 1

StartUpdate ==
  /\ phase = "Project" /\ phase' = "Update"
  /\ UNCHANGED <<live, batch, edits>>

\* Before the drain or after it; the notices name the prims that differ, or
\* stand for the whole stage.
Edit ==
  /\ phase \in {"Update", "Commands"} /\ stage # None /\ edits < MaxEdits
  /\ \E rows \in Rows \ {stage} :
        /\ stage' = rows
        /\ \/ queue' = queue \cup {p \in Paths : rows[p] # stage[p]}
           \/ queue' = {Root}
  /\ edits' = edits + 1
  /\ UNCHANGED <<session, revision, batch, phase, faults>>

\* An activation, or a hot reload, which may fail to open the file. A batch
\* that was drained stays.
OpenStage ==
  /\ phase \in {"Update", "Commands"} /\ session < MaxSessions
  /\ stage' \in Opened \cup {None}
  /\ session' = session + 1 /\ revision' = 0 /\ queue' = {}
  /\ UNCHANGED <<batch, phase, edits, faults>>

DrainNotices ==
  /\ phase = "Update" /\ phase' = "Commands"
  /\ queue' = {}
  /\ IF queue = {}
       THEN batch' = None /\ UNCHANGED revision
       ELSE /\ revision' = revision + 1
            /\ batch' = [revision |-> revision + 1, named |-> queue]
  /\ UNCHANGED <<stage, session, edits, faults>>

EndUpdate ==
  /\ phase = "Commands" /\ phase' = "PostUpdate"
  /\ UNCHANGED <<live, batch, edits, faults>>

FrameTypeOK ==
  /\ stage \in Rows \cup {None} /\ session \in 1 .. MaxSessions
  /\ revision \in 0 .. MaxEdits /\ queue \subseteq Paths \cup {Root}
  /\ batch = None \/ (batch \in Batches /\ batch.revision \in 1 .. MaxEdits)
  /\ phase \in Phases
  /\ edits \in 0 .. MaxEdits /\ faults \in 0 .. MaxFaults

\* A revision stands for an edit, and so do the notices that wait.
FrameCounts == revision + (IF queue = {} THEN 0 ELSE 1) <= edits
=============================================================================
