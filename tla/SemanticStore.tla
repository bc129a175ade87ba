--------------------------- MODULE SemanticStore ----------------------------
(***************************************************************************)
(* The rows of the semantic store, which a worker thread keeps: it applies *)
(* the snapshots and deltas that synchronize_live_stage puts in its        *)
(* mailbox, each in one transaction, and answers each with a response. No  *)
(* system reads the responses, nor asks the store anything: queries, which *)
(* only benchmarks and tests submit, are left out.                         *)
(***************************************************************************)
EXTENDS SemanticSync

CONSTANTS MailboxCapacity, ResponseCapacity

Commands ==
  [kind : {"snapshot"}, rows : Rows]
    \cup [kind : {"delta"}, rows : Rows, removed : SUBSET Paths]

ASSUME StoreAssumption ==
  /\ {MailboxCapacity, ResponseCapacity} \subseteq Nat \ {0}
  /\ None \notin Commands

VARIABLES
  mailbox,    \* SemanticMailbox
  hand,       \* the command the worker took
  store,      \* SemanticDatabase; failed: a command since the last snapshot was lost
  responses   \* those sent and the one the worker cannot send

storeVars == <<syncVars, mailbox, hand, store, responses>>

Absent == [p \in Paths |-> None]

StoreInit ==
  /\ SyncInit
  /\ mailbox = <<>> /\ hand = None /\ responses = 0
  /\ store = [rows |-> Absent, loaded |-> FALSE, failed |-> FALSE]

(***************************************************************************)
(* The frames.                                                             *)
(***************************************************************************)

Delta ==
  [kind |-> "delta",
   rows |-> [p \in Paths |-> IF p \in batch.named THEN stage[p] ELSE None],
   removed |-> {p \in batch.named : sync.rows[p] # None /\ stage[p] = None}]

AppendLatest(command, rows) ==   \* mutant: the delta takes the place of what waits
  mailbox' = IF Len(mailbox) >= MailboxCapacity
               THEN <<command>> ELSE Append(mailbox, command)

\* A full mailbox is emptied, and gets the complete snapshot.
SubmitToStore(command, rows) ==
  mailbox' = IF Len(mailbox) >= MailboxCapacity
               THEN <<[kind |-> "snapshot", rows |-> rows]>>
               ELSE Append(mailbox, command)

SynchronizeStore ==
  /\ \/ ByDelta /\ SubmitToStore(Delta, Refreshed)
     \/ BySnapshot /\ SubmitToStore([kind |-> "snapshot", rows |-> stage], stage)
     \/ (ExtractionFails \/ NothingToDo) /\ UNCHANGED mailbox
  /\ UNCHANGED <<hand, store, responses>>

StoreFrame ==
  \/ Update /\ UNCHANGED <<mailbox, hand, store, responses>>
  \/ SynchronizeStore

StoreStageChanges == Change /\ UNCHANGED <<mailbox, hand, store, responses>>

(***************************************************************************)
(* semantic_worker.                                                        *)
(***************************************************************************)

TakeCommand ==
  /\ hand = None /\ mailbox # <<>> /\ responses <= ResponseCapacity
  /\ hand' = Head(mailbox) /\ mailbox' = Tail(mailbox)
  /\ UNCHANGED <<syncVars, store, responses>>

Upserts(delta) == {p \in Paths : delta.rows[p] # None}

\* The row of the prim is deleted and inserted, prim after prim: an insertion
\* finds its key taken by a row that is not deleted yet.
KeyIsTaken(rows, delta) ==
  \E p \in Upserts(delta), q \in Paths \ delta.removed :
     /\ p # q /\ rows[q] = delta.rows[p]
     /\ ~(q \in Upserts(delta) /\ q < p)

ApplyDelta(rows, delta) ==
  [p \in Paths |-> IF p \in Upserts(delta) THEN delta.rows[p]
                   ELSE IF p \in delta.removed THEN None ELSE rows[p]]

Rejects(s, command) ==
  command.kind = "delta" /\ (~s.loaded \/ KeyIsTaken(s.rows, command))

\* A transaction that fails leaves the rows as they were.
Apply(s, command) ==
  IF Rejects(s, command) THEN [s EXCEPT !.failed = TRUE]
  ELSE IF command.kind = "delta"
    THEN [s EXCEPT !.rows = ApplyDelta(s.rows, command)]
    ELSE [rows |-> command.rows, loaded |-> TRUE, failed |-> FALSE]

\* The worker waits with its response where there are ResponseCapacity of
\* them: the one it cannot send is counted, and then no command is taken.
Execute ==
  /\ hand # None /\ hand' = None
  /\ responses' = responses + 1
  /\ \/ store' = Apply(store, hand) /\ UNCHANGED faults
     \/ store' = [store EXCEPT !.failed = TRUE] /\ Fault
  /\ UNCHANGED <<live, batch, phase, sync, lost, edits, mailbox>>

StoreWorker == TakeCommand \/ Execute

StoreNext == StoreFrame \/ StoreStageChanges \/ StoreWorker

StoreSpec == StoreInit /\ [][StoreNext]_storeVars

(***************************************************************************)
(* Properties.                                                             *)
(***************************************************************************)

\* Every variable has its type, and no queue holds more than its capacity.
StoreTypeOK ==
  /\ SyncTypeOK
  /\ mailbox \in Seq(Commands) /\ Len(mailbox) <= MailboxCapacity
  /\ hand \in Commands \cup {None}
  /\ store \in [rows : Rows, loaded : BOOLEAN, failed : BOOLEAN]
  /\ responses \in 0 .. ResponseCapacity + 1

\* The store once the commands are applied, one after the other.
Replayed(from, commands) ==
  LET after[i \in 0 .. Len(commands)] ==
        IF i = 0 THEN from ELSE Apply(after[i - 1], commands[i])
  IN  after[Len(commands)]

\* The rows of the store and the commands on their way to it make up the
\* snapshot, whatever a full mailbox threw away, unless a command failed.
StoreReplays ==
  sync # None =>
    LET taken == IF hand = None THEN store ELSE Apply(store, hand)
        final == Replayed(taken, mailbox)
    IN  final.failed \/ final.rows = sync.rows
=============================================================================
