------------------------- MODULE VBucketPersistence -------------------------
(* The way of one vbucket to its couchstore file: the flusher's batches    *)
(* (flushVBucket), the tasks that write the vbucket's state document       *)
(* (persistVBState, snapshotVBuckets), the KVStore's cached copy of that   *)
(* document, restarts, and the clients that wait for a seqno to be         *)
(* persisted.  A failover table is the number of its version, a mutation   *)
(* is its seqno; a checkpoint is the range and the item count that the     *)
(* persisted snapshot range depends on.  vb_mutexes[vbid], which flusher   *)
(* and tasks only ever try, is held while flush.pc is not "idle".          *)
EXTENDS SnapshotRanges

CONSTANTS
    MaxSeqno,       \* bound on the seqnos
    MaxTables,      \* bound on the versions of the failover table
    SeqnoModulus    \* 2^16 in the code: the width a persisted seqno is cut to

ASSUME PersistenceBounds ==
    /\ MaxSeqno \in Nat /\ MaxTables \in Nat
    /\ SeqnoModulus \in Nat \ {0}

VARIABLES
    vb,         \* state, failover table version and high seqno in memory
    chk,        \* the open checkpoint and the persistence cursor
    flush,      \* where flushVBucket is, and the batch in its hands
    rejected,   \* vb->rejectQueue is not empty
    cached,     \* cachedVBStates[vbid]
    disk,       \* the couchstore file: last document and state document
    persisted,  \* vbMap's persistence seqno and vb's persisted snapshot
    tables,     \* the failover table versions made so far
    persistTask, \* schedule_vbstate_persist[vbid]
    snapTask,   \* the shard's vbucket snapshot flag
    captured,   \* what a running snapshotVBuckets has read of the vbucket
    waiting,    \* seqno a client waits for, 0 when none does
    acked       \* highest seqno a client was told is persisted

(* Two history variables: what has happened that the properties except.    *)
VARIABLES
    metaBatch,  \* the flusher has drained a batch without mutations
    stateLapse  \* a state document was not written, or written too late

pvars == << vb, chk, flush, rejected, cached, disk, persisted, tables,
            persistTask, snapTask, captured, waiting, acked >>

vars == << pvars, metaBatch, stateLapse >>

Seqno == 0..MaxSeqno
Bound == 0..(MaxSeqno + 1)
SnapshotRange == [start : Bound, end : Bound]
States == {"active", "replica"}

(* vbucket_state: what the KVStore caches and saves in the state document. *)
VBState == [state : States, failovers : 0..MaxTables, high : Seqno, range : SnapshotRange]

NoState == [state |-> "none", failovers |-> 0, high |-> 0, range |-> [start |-> 0, end |-> 0]]

(* The type of the program's state; a cached state document always exists  *)
(* once the vbucket has been created (setVBucketState, createVBuckets).    *)
ProgramTypeOK ==
    /\ vb \in [state : States, failovers : 0..MaxTables, high : Seqno]
    /\ chk \in [start : Bound, end : Bound, items : BOOLEAN, here : BOOLEAN,
                before : Bound, seen : Seqno, meta : BOOLEAN]
    /\ flush \in [pc : {"idle", "drained", "ready", "committed"},
                  max : Seqno, range : SnapshotRange]
    /\ rejected \in BOOLEAN
    /\ cached \in VBState
    /\ disk \in VBState
    /\ persisted \in [seqno : Seqno, range : SnapshotRange]
    /\ tables \in 0..MaxTables
    /\ persistTask \in BOOLEAN /\ snapTask \in BOOLEAN
    /\ captured \in VBState \cup {NoState}
    /\ waiting \in Seqno /\ acked \in Seqno

(* Every variable has its type: no batch, cached state, document or range  *)
(* of flushVBucket and the state tasks leaves the seqnos and states.       *)
TypeOK == ProgramTypeOK /\ metaBatch \in BOOLEAN /\ stateLapse \in BOOLEAN

-----------------------------------------------------------------------------
(* The KVStore's cached state and the file.                                *)

StateOf(v, range) ==
    [state |-> v.state, failovers |-> v.failovers, high |-> v.high, range |-> range]

NeedsToBePersistedByState(old, new) == old.state # new.state

NeedsToBePersisted(old, new) ==
    old.state # new.state \/ old.failovers # new.failovers

SaveVBStateWithHigh(d, s) == s

(* setVBucketState of CouchKVStore: the state document is written, the     *)
(* documents stay as they are.                                             *)
SaveVBState(d, s) == [s EXCEPT !.high = d.high]

(* saveDocs: documents and the cached state document in one commit.        *)
SaveDocs(s, max) == [s EXCEPT !.high = max]

-----------------------------------------------------------------------------
(* Writes: front end (active) and stream (replica).                        *)

FrontEndWrite ==
    /\ vb.state = "active" /\ vb.high < MaxSeqno
    /\ vb' = [vb EXCEPT !.high = @ + 1]
    /\ chk' = [chk EXCEPT !.items = TRUE, !.end = vb.high + 1]
    /\ UNCHANGED << flush, rejected, cached, disk, persisted, tables, persistTask,
                    snapTask, captured, waiting, acked >>

(* checkOpenCheckpoint_UNLOCKED closes a checkpoint that has items.        *)
OpenCheckpoint ==
    /\ vb.state = "active" /\ chk.items
    /\ chk' = AddCheckpoint(chk, vb.high, vb.high, vb.high)
    /\ UNCHANGED << vb, flush, rejected, cached, disk, persisted, tables, persistTask,
                    snapTask, captured, waiting, acked >>

(* A snapshot marker after everything of the last one has arrived.         *)
SnapshotMarker(end, chkFlag) ==
    /\ vb.state = "replica" /\ vb.high < end
    /\ chk.items => vb.high = chk.end
    /\ chk' = IF chkFlag THEN CreateSnapshot(chk, vb.high, vb.high + 1, end)
                         ELSE [chk EXCEPT !.end = end]
    /\ UNCHANGED << vb, flush, rejected, cached, disk, persisted, tables, persistTask,
                    snapTask, captured, waiting, acked >>

StreamMutation(seqno) ==
    /\ vb.state = "replica" /\ vb.high < seqno /\ seqno <= chk.end /\ seqno <= MaxSeqno
    /\ vb' = [vb EXCEPT !.high = seqno]
    /\ chk' = [chk EXCEPT !.items = TRUE]
    /\ UNCHANGED << flush, rejected, cached, disk, persisted, tables, persistTask,
                    snapTask, captured, waiting, acked >>

-----------------------------------------------------------------------------
(* flushVBucket.  Between its steps front end, streams and state changes   *)
(* go on; the tasks that need vb_mutexes[vbid] do not.                     *)

(* Rejected items and everything the persistence cursor has left: the      *)
(* mutations of the batch are those above the last document of the file.   *)
FlushDrain ==
    /\ flush.pc = "idle"
    /\ rejected \/ Unread(chk, vb.high)
    /\ flush' = [pc |-> "drained",
                 max |-> IF disk.high < vb.high THEN vb.high ELSE 0,
                 range |-> [start |-> CursorStart(chk), end |-> chk.end]]
    /\ chk' = ReadAll(chk, vb.high)
    /\ rejected' = FALSE
    /\ UNCHANGED << vb, cached, disk, persisted, tables, persistTask, snapTask,
                    captured, waiting, acked >>

(* Under the state lock: the range of the batch is settled and the state   *)
(* document is put in the cache, and only there.                           *)
FlushState ==
    /\ flush.pc = "drained"
    /\ LET range == IF vb.state = "active" /\ flush.max > 0
                    THEN [start |-> flush.max, end |-> flush.max]
                    ELSE flush.range
       IN /\ flush' = [flush EXCEPT !.pc = "ready", !.range = range]
          /\ cached' = StateOf(vb, range)
    /\ UNCHANGED << vb, chk, rejected, disk, persisted, tables, persistTask, snapTask,
                    captured, waiting, acked >>

(* commit2couchstore: a batch without mutations writes nothing.            *)
FlushCommit ==
    /\ flush.pc = "ready"
    /\ flush' = [flush EXCEPT !.pc = "committed"]
    /\ \/ /\ flush.max = 0
          /\ UNCHANGED << disk, cached >>
       \/ /\ flush.max > 0
          /\ disk' = SaveDocs(cached, flush.max)
          /\ cached' = [cached EXCEPT !.high = flush.max]
    /\ UNCHANGED << vb, chk, rejected, persisted, tables, persistTask, snapTask,
                    captured, waiting, acked >>

(* saveDocs fails: every item of the batch goes to the reject queue.       *)
FlushCommitFails ==
    /\ flush.pc = "ready" /\ flush.max > 0
    /\ flush' = [flush EXCEPT !.pc = "committed"]
    /\ rejected' = TRUE
    /\ UNCHANGED << vb, chk, cached, disk, persisted, tables, persistTask, snapTask,
                    captured, waiting, acked >>

(* getLastPersistedSeqno is the high seqno of the cached state.            *)
LastPersistedSeqno(c, p) == IF c.high > 0 THEN c.high ELSE p

(* notifyOnPersistence(seqno): a waiter at or below it succeeds, one that  *)
(* has waited too long is told TMPFAIL, any other goes on waiting.         *)
NotifyOnPersistence(seqno) ==
    \/ /\ waiting > 0 /\ waiting <= seqno
       /\ acked' = IF acked < waiting THEN waiting ELSE acked
       /\ waiting' = 0
    \/ /\ waiting > seqno
       /\ waiting' \in {0, waiting}
       /\ UNCHANGED acked
    \/ waiting = 0 /\ UNCHANGED << waiting, acked >>

FlushFinishAnyway ==
    /\ flush.pc = "committed"
    /\ flush' = [flush EXCEPT !.pc = "idle"]
    /\ persisted' = [seqno |-> LastPersistedSeqno(cached, persisted.seqno),
                     range |-> flush.range]
    /\ NotifyOnPersistence(persisted'.seqno)
    /\ UNCHANGED << vb, chk, rejected, cached, disk, tables, persistTask, snapTask, captured >>

FlushFinish ==
    /\ flush.pc = "committed" /\ ~rejected
    /\ flush' = [flush EXCEPT !.pc = "idle"]
    /\ persisted' = [seqno |-> LastPersistedSeqno(cached, persisted.seqno),
                     range |-> flush.range]
    /\ NotifyOnPersistence(persisted'.seqno)
    /\ UNCHANGED << vb, chk, rejected, cached, disk, tables, persistTask, snapTask, captured >>

(* RETRY_FLUSH_VBUCKET                                                     *)
FlushRetry ==
    /\ flush.pc = "committed" /\ rejected
    /\ flush' = [flush EXCEPT !.pc = "idle"]
    /\ UNCHANGED << vb, chk, rejected, cached, disk, persisted, tables, persistTask,
                    snapTask, captured, waiting, acked >>

FlushNothingSilent == FALSE /\ UNCHANGED pvars

(* A visit that finds nothing to write still notifies.                     *)
FlushNothing ==
    /\ flush.pc = "idle" /\ ~rejected /\ ~Unread(chk, vb.high) /\ waiting > 0
    /\ NotifyOnPersistence(persisted.seqno)
    /\ UNCHANGED << vb, chk, flush, rejected, cached, disk, persisted, tables,
                    persistTask, snapTask, captured >>

-----------------------------------------------------------------------------
(* The tasks that write the state document.                                *)

(* snapshotVBucket(new) with an option that persists: the cache takes the  *)
(* new state, and the file does only if state or failovers differ from     *)
(* what the cache held.                                                    *)
SnapshotVBucket(new) ==
    /\ cached' = new
    /\ disk' = IF NeedsToBePersisted(cached, new) THEN SaveVBState(disk, new) ELSE disk

SnapshotVBucketFails(new) ==
    /\ NeedsToBePersisted(cached, new)
    /\ cached' = new
    /\ UNCHANGED disk

PersistVBState ==
    /\ persistTask /\ flush.pc = "idle"
    /\ persistTask' = FALSE
    /\ SnapshotVBucket(StateOf(vb, persisted.range))
    /\ UNCHANGED << vb, chk, flush, rejected, persisted, tables, snapTask, captured,
                    waiting, acked >>

(* The write fails and the task is scheduled again.                        *)
PersistVBStateFails ==
    /\ persistTask /\ flush.pc = "idle"
    /\ SnapshotVBucketFails(StateOf(vb, persisted.range))
    /\ UNCHANGED << vb, chk, flush, rejected, persisted, tables, persistTask, snapTask,
                    captured, waiting, acked >>

(* snapshotVBuckets reads the vbucket with no lock held ...                *)
SnapshotRead ==
    /\ snapTask /\ captured = NoState
    /\ snapTask' = FALSE
    /\ captured' = StateOf(vb, persisted.range)
    /\ UNCHANGED << vb, chk, flush, rejected, cached, disk, persisted, tables,
                    persistTask, waiting, acked >>

SnapshotWriteUnread ==
    /\ flush.pc = "idle"
    /\ captured' = NoState
    /\ SnapshotVBucket(captured)
    /\ UNCHANGED << vb, chk, flush, rejected, persisted, tables, persistTask, snapTask,
                    waiting, acked >>

(* ... and writes what it read later; a vbucket whose mutex is taken is    *)
(* left out.                                                               *)
SnapshotWrite ==
    /\ captured # NoState /\ flush.pc = "idle"
    /\ captured' = NoState
    /\ SnapshotVBucket(captured)
    /\ UNCHANGED << vb, chk, flush, rejected, persisted, tables, persistTask, snapTask,
                    waiting, acked >>

SnapshotWriteFails ==
    /\ captured # NoState /\ flush.pc = "idle"
    /\ captured' = NoState
    /\ SnapshotVBucketFails(captured)
    /\ snapTask' = TRUE
    /\ UNCHANGED << vb, chk, flush, rejected, persisted, tables, persistTask,
                    waiting, acked >>

SnapshotSkip ==
    /\ captured # NoState /\ flush.pc # "idle"
    /\ captured' = NoState
    /\ UNCHANGED << vb, chk, flush, rejected, cached, disk, persisted, tables,
                    persistTask, snapTask, waiting, acked >>

-----------------------------------------------------------------------------
(* State changes, restarts and clients.                                    *)

(* setVBucketState(active) without transfer: a new failover entry.         *)
Promote ==
    /\ vb.state = "replica" /\ tables < MaxTables
    /\ vb' = [vb EXCEPT !.state = "active", !.failovers = tables + 1]
    /\ tables' = tables + 1
    /\ chk' = ResetSnapshotRange(chk, vb.high)
    /\ persistTask' = TRUE
    /\ UNCHANGED << flush, rejected, cached, disk, persisted, snapTask, captured,
                    waiting, acked >>

Demote ==
    /\ vb.state = "active"
    /\ vb' = [vb EXCEPT !.state = "replica"]
    /\ persistTask' = TRUE
    /\ UNCHANGED << chk, flush, rejected, cached, disk, persisted, tables, snapTask,
                    captured, waiting, acked >>

(* streamAccepted: the producer's failover log replaces the replica's, and *)
(* a snapshot of the shard's vbuckets is scheduled.                        *)
ReplaceFailoverLog ==
    /\ vb.state = "replica" /\ tables < MaxTables
    /\ vb' = [vb EXCEPT !.failovers = tables + 1]
    /\ tables' = tables + 1
    /\ snapTask' = TRUE
    /\ UNCHANGED << chk, flush, rejected, cached, disk, persisted, persistTask, captured,
                    waiting, acked >>

(* The process dies and Warmup::createVBuckets builds the vbucket from the *)
(* file; an active vbucket gets a new failover entry; warmupCompleted      *)
(* schedules a snapshot.                                                   *)
Restart ==
    /\ disk.state = "active" => tables < MaxTables
    /\ LET fresh == IF disk.state = "active" THEN tables + 1 ELSE disk.failovers
       IN /\ vb' = [state |-> disk.state, failovers |-> fresh, high |-> disk.high]
          /\ tables' = IF disk.state = "active" THEN fresh ELSE tables
    /\ chk' = NewCheckpoints(disk.high, disk.range)
    /\ flush' = [pc |-> "idle", max |-> 0, range |-> disk.range]
    /\ cached' = disk
    /\ persisted' = [seqno |-> disk.high, range |-> disk.range]
    /\ rejected' = FALSE /\ persistTask' = FALSE /\ snapTask' = TRUE
    /\ captured' = NoState /\ waiting' = 0
    /\ UNCHANGED << disk, acked >>

(* handleSeqnoCmds: the persisted seqno is read into a 16-bit integer.     *)
SeqnoPersistence(seqno) ==
    /\ waiting = 0 /\ seqno <= vb.high
    /\ IF seqno <= persisted.seqno % SeqnoModulus
       THEN /\ acked' = IF acked < seqno THEN seqno ELSE acked
            /\ UNCHANGED waiting
       ELSE waiting' = seqno /\ UNCHANGED acked
    /\ UNCHANGED << vb, chk, flush, rejected, cached, disk, persisted, tables,
                    persistTask, snapTask, captured >>

-----------------------------------------------------------------------------
(* Specifications.  A vbucket whose file has just been created.            *)

Zero == [start |-> 0, end |-> 0]

Init ==
    /\ vb \in [state : States, failovers : {0}, high : {0}]
    /\ chk = NewCheckpoints(0, Zero)
    /\ flush = [pc |-> "idle", max |-> 0, range |-> Zero]
    /\ rejected = FALSE /\ persistTask = FALSE /\ snapTask = FALSE
    /\ cached = StateOf(vb, Zero) /\ disk = StateOf(vb, Zero)
    /\ persisted = [seqno |-> 0, range |-> Zero]
    /\ tables = 0 /\ captured = NoState /\ waiting = 0 /\ acked = 0
    /\ metaBatch = FALSE /\ stateLapse = FALSE

Writes ==
    \/ FrontEndWrite
    \/ \E seqno \in 1..MaxSeqno : StreamMutation(seqno)

FlusherAfterDrain ==
    FlushState \/ FlushCommit \/ FlushFinish \/ FlushRetry \/ FlushNothing

StateChanges == Promote \/ Demote \/ ReplaceFailoverLog

Clients == \E seqno \in 1..MaxSeqno : SeqnoPersistence(seqno)

(* Everything that opens a checkpoint, which leaves a meta item behind.    *)
Checkpoints ==
    \/ OpenCheckpoint
    \/ \E end \in 1..MaxSeqno, chkFlag \in BOOLEAN : SnapshotMarker(end, chkFlag)

StateTasks == PersistVBState \/ SnapshotRead

(* A write by snapshotVBuckets of what the vbucket still is.               *)
SnapshotWriteInTime ==
    /\ captured.state = vb.state /\ captured.failovers = vb.failovers
    /\ SnapshotWrite

(* The ways in which a state document is left unwritten or replaced by an  *)
(* older one.                                                              *)
StateLapse ==
    \/ /\ captured.state # vb.state \/ captured.failovers # vb.failovers
       /\ SnapshotWrite
    \/ SnapshotSkip \/ SnapshotWriteFails \/ PersistVBStateFails

NoteBatch == metaBatch' = (metaBatch \/ (flush'.pc = "drained" /\ flush'.max = 0))

(* Everything the code does.                                               *)
Next ==
    /\ \/ /\ \/ Writes \/ Checkpoints \/ StateChanges \/ Clients \/ Restart
             \/ FlushDrain \/ FlusherAfterDrain \/ FlushCommitFails
             \/ StateTasks \/ SnapshotWriteInTime
          /\ UNCHANGED stateLapse
       \/ StateLapse /\ stateLapse' = TRUE
    /\ NoteBatch

Spec == Init /\ [][Next]_vars

(* The flusher is a task that is never left out of the writer threads'     *)
(* queue, and polls while a client waits; a commit is fair by itself.      *)
Flusher ==
    FlushDrain \/ FlushState \/ FlushFinish \/ FlushRetry \/ FlushNothing

-----------------------------------------------------------------------------
(* Properties.                                                             *)

(* What a client was told is persisted is in the file, whatever crash      *)
(* follows, as long as every batch of the flusher had a mutation: the      *)
(* seqno that handleSeqnoCmds and notifyOnPersistence compare with is      *)
(* never ahead of the documents that commits have written.                 *)
AckedDurable == ~metaBatch => acked <= disk.high

(* The same whatever is in the batches: last_persisted_seqno, which        *)
(* flushVBucket takes from the cached state, is in the file.               *)
PersistedSeqnoInFile == persisted.seqno <= disk.high

(* Once flusher and tasks have nothing left to do, a restart brings the    *)
(* vbucket back in the state and with the failover table it has now: the   *)
(* change that setVBucketState or streamAccepted scheduled to be written   *)
(* has been written, by one of the paths that share the cached state,      *)
(* unless a batch without mutations or a lapse has spoilt the cached copy. *)
AllWritten ==
    /\ ~persistTask /\ ~snapTask /\ captured = NoState
    /\ flush.pc = "idle" /\ ~rejected /\ disk.high = vb.high

StateDurable ==
    AllWritten /\ ~metaBatch /\ ~stateLapse =>
        disk.state = vb.state /\ disk.failovers = vb.failovers

(* No document is ever taken back: a restart continues from a seqno that   *)
(* is no lower than an earlier one, and the flusher's next batch never     *)
(* lowers the last document of the file.                                   *)
DocumentsKept == [][disk'.high >= disk.high]_vars

=============================================================================
