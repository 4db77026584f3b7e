-------------------------- MODULE VBucketCheckpoints --------------------------
(***************************************************************************)
(* One vbucket's checkpoint manager among the threads that use it: front-  *)
(* end writers, the flusher of its shard, the checkpoint remover, DCP      *)
(* producers and TAP connections that read through cursors, the passive    *)
(* DCP stream that feeds a replica, and setVBucketState.                   *)
(*                                                                         *)
(* Each action is one critical section of queueLock; a handler that takes  *)
(* the lock several times is several actions, so that the other threads    *)
(* run in between: flushVBucket (drain, commit, itemsPersisted), the       *)
(* passive stream (mutation, then handleSnapshotEnd) and the promotion of  *)
(* a replica (VBucket::setState, then resetSnapshotRange).                 *)
(***************************************************************************)
EXTENDS CheckpointManager

CONSTANTS
    MaxSeqno,   \* bound on lastBySeqno
    MaxChkId,   \* bound on checkpoint ids
    MaxOffset   \* bound on the offset at which a TAP cursor steps back

ASSUME BoundsNatural == {MaxSeqno, MaxChkId, MaxOffset} \subseteq Nat

VARIABLES
    mgr,        \* the CheckpointManager
    vbState,    \* "active" or "replica"
    promoting,  \* between VBucket::setState(active) and resetSnapshotRange
    stream,     \* the passive stream's current snapshot, and whether its end
                \* has been reached but not yet handled
    backfill,   \* the vbucket's backfill queue, and isBackfillPhase
    flush,      \* how far flushVBucket is
    notified,   \* the flusher has been notified since it last drained
    thrown      \* queueDirty has thrown a logic_error

(* What the properties are stated with; the program has no such state.     *)
VARIABLES
    latest,     \* the newest seqno of each key, 0 if there is none
    seen,       \* the newest seqno of each key each cursor has returned
    base,       \* the seqno up to which a cursor need not return anything
    onDisk,     \* the newest committed seqno of each key
    byBackfill  \* the keys whose newest version came by backfill

vars == <<mgr, vbState, promoting, stream, backfill, flush, notified, thrown,
          latest, seen, base, onDisk, byBackfill>>

ghosts == <<latest, seen, base, onDisk, byBackfill>>

IsActive == vbState = "active"

NoItems == [k \in Keys |-> 0]

(* A stream that has asked for items from a seqno in a snapshot that       *)
(* starts at start, and has had no marker yet.                             *)
Requested(start) ==
    [start |-> start, end |-> 0, disk |-> FALSE, atEnd |-> FALSE, first |-> TRUE]

TypeOK ==
    /\ mgr.list \in Seq(Checkpoints)
    /\ DOMAIN mgr.cursors \subseteq CursorNames
    /\ \A n \in DOMAIN mgr.cursors : mgr.cursors[n] \in Cursors
    /\ mgr.numItems \in Int
    /\ mgr.lastBySeqno \in Nat
    /\ mgr.pre \in Nat
    /\ vbState \in {"active", "replica"}
    /\ promoting \in BOOLEAN
    /\ stream \in [start : Nat, end : Nat, disk : BOOLEAN, atEnd : BOOLEAN, first : BOOLEAN]
    /\ backfill \in [phase : BOOLEAN, queue : [Keys -> Nat]]
    /\ flush \in {"idle", "drained", "committed", "rejected"}
    /\ notified \in BOOLEAN
    /\ thrown \in BOOLEAN
    /\ latest \in [Keys -> Nat]
    /\ seen \in [CursorNames -> [Keys -> Nat]]
    /\ DOMAIN base = CursorNames
    /\ onDisk \in [Keys -> Nat]
    /\ byBackfill \subseteq Keys

InitWith(state) ==
    /\ mgr = FreshVBucket(state = "active")
    /\ vbState = state
    /\ promoting = FALSE
    /\ stream = Requested(0)
    /\ backfill = [phase |-> FALSE, queue |-> NoItems]
    /\ flush = "idle"
    /\ notified = TRUE
    /\ thrown = FALSE
    /\ latest = NoItems
    /\ seen = [n \in CursorNames |-> NoItems]
    /\ base = [n \in CursorNames |-> 0]
    /\ onDisk = NoItems
    /\ byBackfill = {}

(* notifyFlusher, which Checkpoint::queueDirty calls for a start or an end *)
(* item: a step that adds a checkpoint notifies.                           *)
NotifiedIf(b) == notified' = (notified \/ b)

AddsCheckpoint == Len(mgr'.list) > Len(mgr.list)

-----------------------------------------------------------------------------
(* Front-end writes on an active vbucket.                                  *)

FrontEndWrite(k, timeUp) ==
    /\ ~ thrown
    /\ IsActive
    /\ mgr.lastBySeqno < MaxSeqno
    /\ Back(mgr).id < MaxChkId
    /\ IF QueueDirtyThrows(mgr, TRUE, TRUE, 0, timeUp)
       THEN thrown' = TRUE /\ UNCHANGED <<mgr, notified, latest, byBackfill>>
       ELSE /\ mgr' = QueueDirty(mgr, TRUE, k, TRUE, 0, timeUp)
            /\ NotifiedIf(AddsCheckpoint
                            \/ QueueDirtyNotifies(mgr, TRUE, k, TRUE, 0, timeUp))
            /\ latest' = [latest EXCEPT ![k] = mgr'.lastBySeqno]
            /\ byBackfill' = byBackfill \ {k}
            /\ UNCHANGED thrown
    /\ UNCHANGED <<vbState, promoting, stream, backfill, flush, seen, base, onDisk>>

(* CREATE_CHECKPOINT                                                       *)
CreateCheckpointCommand ==
    /\ ~ thrown
    /\ IsActive
    /\ Back(mgr).id < MaxChkId
    /\ mgr' = CreateNewCheckpoint(mgr)
    /\ NotifiedIf(AddsCheckpoint)
    /\ UNCHANGED <<vbState, promoting, stream, backfill, flush, thrown, ghosts>>

-----------------------------------------------------------------------------
(* The passive DCP stream of a replica.                                    *)

(* DcpConsumer::addStream: a new stream, perhaps to another producer.      *)
AddStream ==
    LET info == GetSnapshotInfo(mgr)
    IN /\ ~ thrown
       /\ vbState = "replica"
       /\ ~ stream.atEnd
       /\ stream' = Requested(IF info.rangeEnd = info.start
                              THEN info.start ELSE info.rangeStart)
       /\ UNCHANGED <<mgr, vbState, promoting, backfill, flush, notified, thrown, ghosts>>

(* processMarker.  The first marker of a stream starts where the request   *)
(* did; a later one follows a complete snapshot, and starts at its first   *)
(* mutation.                                                               *)
MarkerFits(start) ==
    IF stream.first THEN start = stream.start
    ELSE mgr.lastBySeqno = stream.end /\ start > mgr.lastBySeqno

ProcessMarker(start, end, chk, disk) ==
    LET toBackfill == disk /\ mgr.lastBySeqno = 0
    IN /\ ~ thrown
       /\ vbState = "replica"
       /\ ~ stream.atEnd
       /\ MarkerFits(start)
       /\ end > mgr.lastBySeqno /\ end >= start
       /\ Back(mgr).id < MaxChkId
       /\ mgr' = IF toBackfill THEN SetBackfillPhase(mgr, start, end)
                 ELSE IF chk \/ GetOpenCheckpointId(mgr) = 0
                 THEN CreateSnapshot(mgr, start, end)
                 ELSE UpdateCurrentSnapshotEnd(mgr, end)
       /\ stream' = [start |-> start, end |-> end, disk |-> disk,
                     atEnd |-> FALSE, first |-> FALSE]
       /\ backfill' = [backfill EXCEPT !.phase = toBackfill]
       /\ NotifiedIf(AddsCheckpoint)
       /\ UNCHANGED <<vbState, promoting, flush, thrown, ghosts>>

(* processMutation: to the backfill queue during the backfill phase, else  *)
(* through queueDirty with the seqno of the message.                       *)
ProcessMutation(k, s) ==
    /\ ~ thrown
    /\ vbState = "replica"
    /\ ~ stream.atEnd
    /\ s > mgr.lastBySeqno
    /\ s \in stream.start .. stream.end
    /\ \/ /\ backfill.phase
          /\ mgr' = [mgr EXCEPT !.lastBySeqno = s]
          /\ backfill' = [backfill EXCEPT !.queue[k] = s]
          /\ notified' = TRUE
          /\ latest' = [latest EXCEPT ![k] = s]
          /\ byBackfill' = byBackfill \cup {k}
          /\ UNCHANGED thrown
       \/ /\ ~ backfill.phase
          /\ ~ QueueDirtyThrows(mgr, FALSE, FALSE, s, FALSE)
          /\ mgr' = QueueDirty(mgr, FALSE, k, FALSE, s, FALSE)
          /\ NotifiedIf(QueueDirtyNotifies(mgr, FALSE, k, FALSE, s, FALSE))
          /\ latest' = [latest EXCEPT ![k] = s]
          /\ byBackfill' = byBackfill \ {k}
          /\ UNCHANGED <<backfill, thrown>>
       \/ /\ ~ backfill.phase
          /\ QueueDirtyThrows(mgr, FALSE, FALSE, s, FALSE)
          /\ thrown' = TRUE
          /\ UNCHANGED <<mgr, backfill, notified, latest, byBackfill>>
    /\ stream' = [stream EXCEPT !.atEnd = (s = stream.end)]
    /\ UNCHANGED <<vbState, promoting, flush, seen, base, onDisk>>

(* handleSnapshotEnd: the end of a backfill opens checkpoint 1; above the  *)
(* high watermark every snapshot end opens a checkpoint.                   *)
HandleSnapshotEnd(memHigh) ==
    LET endsBackfill == stream.disk /\ backfill.phase
    IN /\ ~ thrown
       /\ stream.atEnd
       /\ GetOpenCheckpointId(mgr) < MaxChkId
       /\ mgr' = IF endsBackfill \/ memHigh
                 THEN CheckAndAddNewCheckpoint(mgr, GetOpenCheckpointId(mgr) + 1)
                 ELSE mgr
       /\ backfill' = [backfill EXCEPT !.phase = @ /\ ~ endsBackfill]
       /\ stream' = [stream EXCEPT !.atEnd = FALSE]
       /\ NotifiedIf(AddsCheckpoint)
       /\ UNCHANGED <<vbState, promoting, flush, thrown, ghosts>>

-----------------------------------------------------------------------------
(* Cursors of DCP streams and TAP connections.                             *)

(* What a cursor has returned after the items at the given positions.      *)
SeenAfter(f, positions) ==
    [k \in Keys |->
       LET S == {p \in positions : mgr.list[p[1]].toWrite[p[2]].key = k}
       IN IF S = {} THEN f[k]
          ELSE LET p == CHOOSE p \in S : \A q \in S :
                          q[1] < p[1] \/ (q[1] = p[1] /\ q[2] <= p[2])
               IN mgr.list[p[1]].toWrite[p[2]].seqno]

OthersUnchanged ==
    UNCHANGED <<vbState, promoting, stream, backfill, flush, notified, thrown,
                latest, onDisk, byBackfill>>

(* ActiveStream: scheduleBackfill_UNLOCKED and markDiskSnapshot register a *)
(* cursor at a seqno; a stream request is refused while the open id is 0.  *)
DcpRegister(n, startBySeqno) ==
    /\ ~ thrown
    /\ GetOpenCheckpointId(mgr) # 0
    /\ startBySeqno <= mgr.lastBySeqno
    /\ mgr' = RegisterCursorBySeqno(mgr, n, startBySeqno)
    /\ base' = [base EXCEPT ![n] = SeqnoAfterCursor(mgr', mgr'.cursors[n]) - 1]
    /\ seen' = [seen EXCEPT ![n] = NoItems]
    /\ OthersUnchanged

DcpGetAllItems(n) ==
    /\ ~ thrown
    /\ n \in DOMAIN mgr.cursors
    /\ mgr' = GetAllItemsForCursor(mgr, n)
    /\ seen' = [seen EXCEPT ![n] = SeenAfter(@, Unread(mgr, mgr.cursors[n]))]
    /\ UNCHANGED base
    /\ OthersUnchanged

TapRegister(n, id) ==
    LET stays == n \in DOMAIN mgr.cursors /\ mgr'.cursors[n] = mgr.cursors[n]
    IN /\ ~ thrown
       /\ mgr' = RegisterCursor(mgr, n, id, FALSE)
       /\ base' = [base EXCEPT ![n] =
                     IF stays THEN @ ELSE SeqnoAfterCursor(mgr', mgr'.cursors[n]) - 1]
       /\ seen' = [seen EXCEPT ![n] = IF stays THEN @ ELSE NoItems]
       /\ OthersUnchanged

TapNextItem(n) ==
    /\ ~ thrown
    /\ n \in DOMAIN mgr.cursors
    /\ Back(mgr).id # 0
    /\ HasNextItem(mgr, mgr.cursors[n])
    /\ mgr' = IncrCursor(mgr, n)
    /\ seen' = [seen EXCEPT ![n] =
                  SeenAfter(@, {<<mgr'.cursors[n].chk, mgr'.cursors[n].pos>>})]
    /\ UNCHANGED base
    /\ OthersUnchanged

(* A TAP producer that reads checkpoint_end before its acks steps back.    *)
TapDecrFromCheckpointEnd(n) ==
    /\ ~ thrown
    /\ n \in DOMAIN mgr.cursors
    /\ mgr.cursors[n].offset < MaxOffset
    /\ DecrCursorFromCheckpointEnd(mgr, n) # mgr
    /\ mgr' = DecrCursorFromCheckpointEnd(mgr, n)
    /\ UNCHANGED <<seen, base>>
    /\ OthersUnchanged

DropCursor(n) ==
    /\ ~ thrown
    /\ n \in DOMAIN mgr.cursors
    /\ mgr' = RemoveCursor(mgr, n)
    /\ seen' = [seen EXCEPT ![n] = NoItems]
    /\ base' = [base EXCEPT ![n] = 0]
    /\ OthersUnchanged

-----------------------------------------------------------------------------
(* flushVBucket, under the vbucket's vb_mutex: drain the backfill queue    *)
(* and the persistence cursor, commit, and itemsPersisted.  A batch that   *)
(* fails stays in the reject queue and goes first in the next flush.       *)

FlushDrainSkipsBackfill ==
    /\ ~ thrown
    /\ flush = "rejected" \/ (flush = "idle" /\ notified)
    /\ mgr' = GetAllItemsForCursor(mgr, Persistence)
    /\ seen' = [seen EXCEPT ![Persistence] =
                  SeenAfter(@, Unread(mgr, mgr.cursors[Persistence]))]
    /\ backfill' = [backfill EXCEPT !.queue = NoItems]
    /\ flush' = "drained"
    /\ notified' = FALSE
    /\ UNCHANGED <<vbState, promoting, stream, thrown, latest, base, onDisk, byBackfill>>

FlushDrain ==
    LET fromBackfill == [k \in Keys |-> IF backfill.queue[k] > 0 THEN backfill.queue[k]
                                        ELSE seen[Persistence][k]]
    IN /\ ~ thrown
       /\ flush = "rejected" \/ (flush = "idle" /\ notified)
       /\ mgr' = GetAllItemsForCursor(mgr, Persistence)
       /\ seen' = [seen EXCEPT ![Persistence] =
                     SeenAfter(fromBackfill, Unread(mgr, mgr.cursors[Persistence]))]
       /\ backfill' = [backfill EXCEPT !.queue = NoItems]
       /\ flush' = "drained"
       /\ notified' = FALSE
       /\ UNCHANGED <<vbState, promoting, stream, thrown, latest, base, onDisk, byBackfill>>

FlushCommit ==
    /\ ~ thrown
    /\ flush = "drained"
    /\ flush' = "committed"
    /\ onDisk' = seen[Persistence]
    /\ UNCHANGED <<mgr, vbState, promoting, stream, backfill, notified, thrown,
                   latest, seen, base, byBackfill>>

FlushRejectForgets ==
    /\ ~ thrown
    /\ flush = "drained"
    /\ flush' = "idle"
    /\ UNCHANGED <<mgr, vbState, promoting, stream, backfill, notified, thrown, ghosts>>

FlushReject ==
    /\ ~ thrown
    /\ flush = "drained"
    /\ flush' = "rejected"
    /\ UNCHANGED <<mgr, vbState, promoting, stream, backfill, notified, thrown, ghosts>>

FlushItemsPersisted ==
    /\ ~ thrown
    /\ flush = "committed"
    /\ flush' = "idle"
    /\ mgr' = ItemsPersisted(mgr)
    /\ UNCHANGED <<vbState, promoting, stream, backfill, notified, thrown, ghosts>>

(* The checkpoint remover (and the pagers, which call the same method).    *)
CheckpointRemover(timeUp, memHigh, enoughItems) ==
    /\ ~ thrown
    /\ mgr' = RemoveClosedUnrefCheckpoints(mgr, IsActive, timeUp, memHigh, enoughItems)
    /\ Back(mgr').id <= MaxChkId
    /\ NotifiedIf(Back(mgr').id # Back(mgr).id)
    /\ UNCHANGED <<vbState, promoting, stream, backfill, flush, thrown, ghosts>>

-----------------------------------------------------------------------------
(* setVBucketState and rollback.                                           *)

(* replica -> active: VBucket::setState, and the inbound stream is closed; *)
(* resetSnapshotRange follows in a later critical section.                 *)
PromoteSetStateAlwaysTwo ==
    /\ ~ thrown
    /\ vbState = "replica" /\ ~ promoting
    /\ mgr' = SetOpenCheckpointId(mgr, 2)
    /\ vbState' = "active"
    /\ promoting' = TRUE
    /\ stream' = Requested(0)
    /\ UNCHANGED <<backfill, flush, notified, thrown, ghosts>>

PromoteSetState ==
    /\ ~ thrown
    /\ vbState = "replica" /\ ~ promoting
    /\ mgr' = IF GetOpenCheckpointId(mgr) < 2 THEN SetOpenCheckpointId(mgr, 2) ELSE mgr
    /\ vbState' = "active"
    /\ promoting' = TRUE
    /\ stream' = Requested(0)
    /\ UNCHANGED <<backfill, flush, notified, thrown, ghosts>>

PromoteResetRange ==
    /\ ~ thrown
    /\ promoting
    /\ promoting' = FALSE
    /\ mgr' = ResetSnapshotRange(mgr)
    /\ UNCHANGED <<vbState, stream, backfill, flush, notified, thrown, ghosts>>

Demote ==
    /\ ~ thrown
    /\ IsActive /\ ~ promoting
    /\ vbState' = "replica"
    /\ UNCHANGED <<mgr, promoting, stream, backfill, flush, notified, thrown, ghosts>>

(* Rollback of a replica to a seqno other than 0, under vb_mutex: the disk *)
(* loses what is newer, and CheckpointManager::clear restarts the          *)
(* checkpoints there.  The disk queues are empty here: neither the reject  *)
(* queue nor the backfill queue is cleared by a rollback.                  *)
Rollback(seqno, restored) ==
    /\ ~ thrown
    /\ vbState = "replica"
    /\ stream.first
    /\ flush = "idle"
    /\ backfill.queue = NoItems
    /\ seqno \in 1 .. mgr.lastBySeqno
    /\ \A k \in Keys : restored[k] <= seqno
                         /\ (onDisk[k] <= seqno => restored[k] = onDisk[k])
    /\ mgr' = Clear(mgr, FALSE, seqno)
    /\ onDisk' = restored
    /\ latest' = restored
    /\ seen' = [n \in CursorNames |-> IF n = Persistence THEN restored ELSE NoItems]
    /\ base' = [n \in CursorNames |-> seqno]
    /\ stream' = Requested(seqno)
    /\ notified' = TRUE
    /\ byBackfill' = {}
    /\ UNCHANGED <<vbState, promoting, backfill, flush, thrown>>

-----------------------------------------------------------------------------
(* Specifications.                                                         *)

CursorNext ==
    \/ \E n \in DcpCursors, s \in 0 .. MaxSeqno : DcpRegister(n, s)
    \/ \E n \in DcpCursors : DcpGetAllItems(n)
    \/ \E n \in DcpCursors \cup TapCursors : DropCursor(n)

TapNext ==
    \/ \E n \in TapCursors, id \in 0 .. MaxChkId : TapRegister(n, id)
    \/ \E n \in TapCursors : TapNextItem(n)
    \/ \E n \in TapCursors : TapDecrFromCheckpointEnd(n)

FlusherNext == FlushDrain \/ FlushCommit \/ FlushReject \/ FlushItemsPersisted

RemoverNext ==
    \E timeUp, memHigh, enoughItems \in BOOLEAN :
        CheckpointRemover(timeUp, memHigh, enoughItems)

FrontEndNext ==
    \/ \E k \in Keys, timeUp \in BOOLEAN : FrontEndWrite(k, timeUp)
    \/ CreateCheckpointCommand

StreamNext ==
    \/ \E start \in 0 .. MaxSeqno, end \in 1 .. MaxSeqno, chk, disk \in BOOLEAN :
          ProcessMarker(start, end, chk, disk)
    \/ \E k \in Keys, s \in 1 .. MaxSeqno : ProcessMutation(k, s)
    \/ \E memHigh \in BOOLEAN : HandleSnapshotEnd(memHigh)

RollbackNext ==
    \E seqno \in 1 .. MaxSeqno, restored \in [Keys -> 0 .. MaxSeqno] :
        Rollback(seqno, restored)

(* An active vbucket: DCP and TAP cursors, no change of state.             *)
ActiveNext == FrontEndNext \/ CursorNext \/ TapNext \/ FlusherNext \/ RemoverNext

ActiveSpec == InitWith("active") /\ [][ActiveNext]_vars

(* An active vbucket whose DCP clients stay connected.  The flusher and    *)
(* the remover are tasks that reschedule themselves, a commit that is      *)
(* retried for ever succeeds, and the clients keep reading.                *)
ReaderNext(n) ==
    \/ n \notin DOMAIN mgr.cursors /\ \E s \in 0 .. MaxSeqno : DcpRegister(n, s)
    \/ DcpGetAllItems(n)

LiveNext ==
    \/ FrontEndNext \/ FlusherNext \/ RemoverNext
    \/ \E n \in DcpCursors : ReaderNext(n)

LiveSpec ==
    /\ InitWith("active") /\ [][LiveNext]_vars
    /\ WF_vars(FlushDrain \/ FlushItemsPersisted)
    /\ SF_vars(FlushCommit)
    /\ WF_vars(\E timeUp \in BOOLEAN : CheckpointRemover(timeUp, FALSE, FALSE))
    /\ \A n \in DcpCursors : WF_vars(DcpGetAllItems(n))

(* A replica that is promoted once, in the middle of its stream.           *)
PromoteNext == PromoteSetState \/ PromoteResetRange

PromotionNext ==
    PromoteNext \/ FrontEndNext \/ StreamNext \/ CursorNext \/ FlusherNext \/ RemoverNext

(* A vbucket that starts as a replica, is fed by one producer after        *)
(* another, rolled back, promoted and demoted.                             *)
FailoverNext == PromotionNext \/ Demote \/ AddStream \/ RollbackNext

FailoverSpec == InitWith("replica") /\ [][FailoverNext]_vars

-----------------------------------------------------------------------------
(* Properties.                                                             *)

(* No iterator dangles: after every removal, erase and splice each         *)
(* registered cursor stands on an existing item of an existing checkpoint, *)
(* its name is registered on exactly that checkpoint, and the persistence  *)
(* cursor is always registered.                                            *)
CursorsInList ==
    /\ Persistence \in DOMAIN mgr.cursors
    /\ \A n \in DOMAIN mgr.cursors :
         /\ mgr.cursors[n].chk \in DOMAIN mgr.list
         /\ mgr.cursors[n].pos \in DOMAIN mgr.list[mgr.cursors[n].chk].toWrite
         /\ \A i \in DOMAIN mgr.list :
              n \in mgr.list[i].names <=> i = mgr.cursors[n].chk

(* The shape of the list: only the last checkpoint may be open, every      *)
(* checkpoint is dummy, start, mutations and (closed) end, ids and the     *)
(* seqnos of mutations grow along the list, and a mutation lies in the     *)
(* snapshot range its checkpoint announces.                                *)
WellFormed ==
    /\ mgr.list # <<>>
    /\ \A i \in DOMAIN mgr.list :
         LET c == mgr.list[i]
         IN /\ c.state = "open" => i = Len(mgr.list)
            /\ Len(c.toWrite) >= 2
            /\ c.toWrite[1].op = "empty"
            /\ \A j \in DOMAIN c.toWrite :
                 /\ c.toWrite[j].op = "start" <=> j = 2
                 /\ c.toWrite[j].op = "end" <=> (j = Len(c.toWrite) /\ c.state = "closed")
            /\ \A j \in MutationPositions(c) :
                 /\ c.toWrite[j].seqno \in c.snapStart .. c.snapEnd
                 /\ c.toWrite[j].seqno <= mgr.lastBySeqno
                 /\ \A h \in MutationPositions(c) :
                      h < j => /\ c.toWrite[h].seqno < c.toWrite[j].seqno
                               /\ c.toWrite[h].key # c.toWrite[j].key
            /\ i > 1 =>
                 /\ mgr.list[i - 1].id < c.id
                 /\ \A h \in MutationPositions(mgr.list[i - 1]), j \in MutationPositions(c) :
                      mgr.list[i - 1].toWrite[h].seqno < c.toWrite[j].seqno

(* The mutations a cursor has yet to return.                               *)
Ahead(n) ==
    {p \in Unread(mgr, mgr.cursors[n]) : mgr.list[p[1]].toWrite[p[2]].op = "mutation"}

InCheckpoints(k, s) ==
    \E i \in DOMAIN mgr.list : \E j \in MutationPositions(mgr.list[i]) :
        mgr.list[i].toWrite[j] = Mutation(k, s)

(* No cursor misses a mutation: whatever dedup, new checkpoints, removal   *)
(* and drops do, the newest version of each key is, for each cursor it is  *)
(* owed to, either returned already or still ahead of the cursor.  A       *)
(* cursor is owed everything from the seqno its registration returned.     *)
(* Persistence also gets the vbucket's backfill queue, which bypasses      *)
(* every other cursor.                                                     *)
NoItemLost ==
    \A n \in DOMAIN mgr.cursors, k \in Keys :
        latest[k] > base[n] =>
            \/ seen[n][k] = latest[k]
            \/ \E p \in Ahead(n) :
                 mgr.list[p[1]].toWrite[p[2]] = Mutation(k, latest[k])
            \/ IF n = Persistence THEN backfill.queue[k] = latest[k]
               ELSE k \in byBackfill

(* Disk and memory overlap: a mutation that is not yet committed is still  *)
(* in a checkpoint (or came by backfill), even when the flusher has        *)
(* drained it, so a stream that backfills from disk and then reads its     *)
(* cursor finds every seqno.  It is what pCursorPreCheckpointId is for.    *)
UnpersistedInMemory ==
    \A k \in Keys \ byBackfill :
        onDisk[k] < latest[k] => InCheckpoints(k, latest[k])

(* No lost wakeup: when the persistence cursor has a mutation ahead, the   *)
(* flusher has been notified since its last drain, although queueDirty     *)
(* does not notify for an item that replaces one (EXISTING_ITEM).          *)
FlusherNotified ==
    Ahead(Persistence) # {} => notified \/ flush = "rejected"

(* getNumItemsForCursor is the number of mutations between the cursor and  *)
(* the end of the last checkpoint, and numItems the number of items of     *)
(* all checkpoints, their dummies left out.                                *)
RemainingCount(n) == GetNumItemsForCursor(mgr, n) = Cardinality(Ahead(n))

CountsExact ==
    /\ \A n \in DOMAIN mgr.cursors \ TapCursors : RemainingCount(n)
    /\ mgr.numItems = Cardinality(UNION {{i} \X (2 .. Len(mgr.list[i].toWrite)) :
                                           i \in DOMAIN mgr.list})

(* queueDirty throws neither of its logic_errors: the item's seqno is in   *)
(* the snapshot range of the open checkpoint.                              *)
QueueDirtyNeverThrows == ~ thrown

(* Every accepted write, or a newer one of its key, becomes durable, even  *)
(* if batches fail and are retried.                                        *)
WritesBecomeDurable ==
    \A k \in Keys : (onDisk[k] < latest[k]) ~> (onDisk[k] = latest[k])

(* Memory is reclaimed: closed checkpoints that every cursor has read and  *)
(* the flusher has persisted do not stay.                                  *)
CheckpointsReclaimed ==
    (Len(mgr.list) > 1) ~> (Len(mgr.list) = 1 \/ Back(mgr).id = MaxChkId)

=============================================================================
