----------------------------- MODULE DcpProducer -----------------------------
(***************************************************************************)
(* A DCP producer connection with one active stream on one vbucket         *)
(* (dcp/producer.cc, dcp/stream.cc, dcp/backfill.cc,                       *)
(* dcp/backfill-manager.cc), and the threads that meet in it:              *)
(*                                                                         *)
(*   the connection's thread      step, stream requests, acknowledgements  *)
(*   the checkpoint processor     ActiveStreamCheckpointProcessorTask      *)
(*   the backfill manager task    DCPBackfill create, scan and complete    *)
(*   front-end writers            queueDirty and notifySeqnoAvailable      *)
(*   the flusher, the checkpoint remover and its cursor dropper            *)
(*                                                                         *)
(* The stream reads the vbucket's CheckpointManager through the cursor     *)
(* named after the connection.  What streamMutex protects is one step;     *)
(* next() that returns nothing is two, for notifySeqnoAvailable does not   *)
(* take the lock.                                                          *)
(*                                                                         *)
(* The vbucket is active until it is marked dead: the merging of a backfill*)
(* with a replica's incomplete snapshot is left out.  The paused flag of   *)
(* the connection is left out as well: the ConnManager task wakes every    *)
(* paused connection each second, so it only delays a step.                *)
(*                                                                         *)
(* A message counts as one byte in the buffer log, a document as ItemSize  *)
(* bytes in the backfill buffer.                                           *)
(***************************************************************************)
EXTENDS CheckpointManager, FiniteSetsExt

CONSTANTS
    Stream,         \* the stream's cursor, named after the connection
    NoMessage,      \* the NULL that next() returns
    MaxSeqno,       \* bound on the vbucket's high seqno
    Scenarios,      \* what is on disk at the start, the writes and the requests
    ItemSize,       \* Item::size()
    BackfillMaxBytes, \* dcp_backfill_byte_limit
    LogMaxBytes     \* connection_buffer_size

ASSUME StreamIsACursor == Stream \in DcpCursors

ASSUME SizesPositive ==
    {ItemSize, BackfillMaxBytes, LogMaxBytes, MaxSeqno} \subseteq Nat \ {0}

VARIABLES
    p,      \* the producer, its stream and the vbucket's checkpoint manager
    conn,   \* what the connection's thread is doing
    log,    \* BufferLog::bytesSent
    vb,     \* the vbucket: dead, takeoverBackedUp, persistenceSeqno
    disk,   \* the newest committed seqno of each key
    flush   \* flushVBucket: the items drained, and how far it is

(* What the properties are stated with; the program has no such state.     *)
VARIABLES
    latest,   \* the newest seqno of each key
    sent,     \* what the connection has received from the current stream
    requests, \* how many streams have been requested
    limits    \* the scenario; never changes

vars == <<p, conn, log, vb, disk, flush, latest, sent, requests, limits>>

NoItems == [k \in Keys |-> 0]

Infinity == MaxSeqno + 1    \* dcpMaxSeqno

-----------------------------------------------------------------------------
(* Messages, and the states of a stream.                                   *)

Marker(start, end, ack) == [op |-> "marker", start |-> start, end |-> end, ack |-> ack]
StreamEnd == [op |-> "streamEnd"]
SetVBucketState(state) == [op |-> "setVBucketState", state |-> state]

States == {"none", "pending", "backfilling", "memory", "takeoverSend", "takeoverWait", "dead"}

ValidTransitions ==
    ({"pending", "backfilling", "memory", "takeoverSend", "takeoverWait"} \X {"dead"})
      \cup {<<"pending", "backfilling">>, <<"backfilling", "memory">>,
            <<"backfilling", "takeoverSend">>, <<"memory", "backfilling">>,
            <<"takeoverSend", "takeoverWait">>, <<"takeoverWait", "takeoverSend">>}

NoStream ==
    [state |-> "none", flags |-> "", end |-> 0, snapStart |-> 0, readyQ |-> << >>,
     lastRead |-> 0, lastSent |-> 0, firstMarker |-> FALSE, itemsReady |-> FALSE,
     pendingBackfill |-> FALSE, running |-> FALSE, extracting |-> FALSE,
     takeover |-> "pending", waitForSnapshot |-> 0, buffered |-> 0]

(* transitionState's check; the work of the new state follows below.       *)
Transition(w, state) ==
    IF <<w.s.state, state>> \in ValidTransitions
    THEN [w EXCEPT !.s.state = state]
    ELSE [w EXCEPT !.thrown = TRUE]

Throw(w) == [w EXCEPT !.thrown = TRUE]

Push(w, message) == [w EXCEPT !.s.readyQ = Append(@, message)]

(* itemsReady.compare_exchange_strong and notifyStreamReady.               *)
Notify(w) == IF w.s.itemsReady THEN w
             ELSE [w EXCEPT !.s.itemsReady = TRUE, !.ready = TRUE]

-----------------------------------------------------------------------------
(* BackfillManager: the buffer of backfilled items not yet sent.           *)

BytesSent(w, bytes) ==
    LET left == w.buffer.bytesRead - bytes
        clear == /\ w.buffer.full
                 /\ BackfillMaxBytes - left >= w.buffer.nextReadSize
                 /\ left < (BackfillMaxBytes * 3) \div 4
    IN IF bytes > w.buffer.bytesRead THEN Throw(w)
       ELSE [w EXCEPT !.buffer =
               [bytesRead |-> left,
                full |-> w.buffer.full /\ ~ clear,
                nextReadSize |-> IF clear THEN 0 ELSE w.buffer.nextReadSize]]

FitsBuffer(w) ==
    w.buffer.bytesRead = 0 \/ w.buffer.bytesRead + ItemSize <= BackfillMaxBytes

-----------------------------------------------------------------------------
(* ActiveStream under streamMutex: ending, scheduling, changing state.     *)

TransitionDead(w) ==
    [Transition(w, "dead") EXCEPT !.mgr = RemoveCursor(@, Stream)]

ClearBackfillKeepsBytes(w) == [w EXCEPT !.s.readyQ = << >>, !.s.buffered = 0]

(* endStream: backfilled items that were not sent leave the buffer.        *)
ClearBackfill(w) ==
    [BytesSent([w EXCEPT !.s.readyQ = << >>], w.s.buffered) EXCEPT !.s.buffered = 0]

EndStream(w, reason) ==
    IF w.s.state = "dead" THEN w
    ELSE LET c == IF w.s.state = "backfilling" THEN ClearBackfill(w) ELSE w
             d == [TransitionDead(c) EXCEPT !.s.pendingBackfill = FALSE]
         IN IF reason = "disconnected" THEN d ELSE Push(d, StreamEnd)

(* ActiveStreamCheckpointProcessorTask::schedule.  The queue holds one     *)
(* stream of the vbucket: "own", or "old" for one since replaced.          *)
Schedule(w) ==
    [w EXCEPT !.task.queue = IF @ = "none" THEN "own" ELSE @,
              !.task.notified = TRUE,
              !.task.awake = @ \/ ~ w.task.notified]

(* nextCheckpointItem, and what it returns.                                *)
HasCheckpointItems(w) ==
    Stream \in DOMAIN w.mgr.cursors /\ GetNumItemsForCursor(w.mgr, Stream) > 0

NextCheckpointItem(w) == IF HasCheckpointItems(w) THEN Schedule(w) ELSE w


MoreFromCheckpoints(w) == HasCheckpointItems(w) \/ w.s.extracting

ToInMemory(w) ==
    LET m == Transition(w, "memory")
    IN IF w.s.lastSent >= w.s.end THEN Notify(EndStream(m, "ok"))
       ELSE NextCheckpointItem(m)

ToTakeoverSend(w) == NextCheckpointItem(Transition(w, "takeoverSend"))

(* scheduleBackfill_UNLOCKED: the range to read from disk, which is empty  *)
(* if the cursor follows on from what the stream has read.                 *)
ScheduleBackfill(w, reschedule) ==
    LET fromDisk == w.s.flags = "diskonly" \/ reschedule
        mgr == IF fromDisk THEN w.mgr
               ELSE RegisterCursorBySeqno(w.mgr, Stream, w.s.lastRead)
        curChkSeqno == SeqnoAfterCursor(mgr, mgr.cursors[Stream])
        start == w.s.lastRead + 1
        end == IF reschedule THEN vb.persistenceSeqno
               ELSE IF fromDisk \/ curChkSeqno > w.s.end THEN w.s.end
               ELSE curChkSeqno - 1
        wanted == IF fromDisk THEN start <= end
                  ELSE /\ start < curChkSeqno
                       /\ start <= end
                       /\ curChkSeqno = GetLowSeqno(mgr.list[1])
        r == [w EXCEPT !.mgr = mgr]
        throws == IF fromDisk THEN w.s.lastRead > w.mgr.lastBySeqno
                  ELSE w.s.lastRead > curChkSeqno
    IN IF w.s.running THEN w
       ELSE IF throws THEN Throw(r)
       ELSE IF wanted
       THEN [r EXCEPT !.backfills = Append(@, [state |-> "init", start |-> start, end |-> end,
                                               docs |-> {}, own |-> TRUE]),
                      !.s.running = TRUE]
       ELSE [(IF w.s.flags = "diskonly" THEN EndStream(r, "ok")
              ELSE IF w.s.flags = "takeover" THEN ToTakeoverSend(r)
              ELSE ToInMemory(r)) EXCEPT !.s.itemsReady = TRUE]

ToBackfilling(w, reschedule) ==
    ScheduleBackfill(Transition(w, "backfilling"), reschedule)

-----------------------------------------------------------------------------
(* next(): the response of each phase, and the producer after it.          *)

Result(w, message) == [w |-> w, message |-> message]

NextQueuedItem(w) ==
    IF w.s.readyQ = << >> THEN Result(w, NoMessage)
    ELSE LET m == Head(w.s.readyQ)
         IN Result([w EXCEPT !.s.readyQ = Tail(@),
                             !.s.lastSent = IF m.op = "mutation" THEN m.seqno ELSE @], m)

(* What backfillPhase does once nothing is left to read or to send.        *)
AfterBackfill(w) ==
    IF w.s.lastRead >= w.s.end THEN EndStream(w, "ok")
    ELSE IF w.s.flags = "takeover" THEN ToTakeoverSend(w)
    ELSE IF w.s.flags = "diskonly" THEN EndStream(w, "ok")
    ELSE ToInMemory(w)

BackfillPhaseCreditsMarkers(w) ==
    LET r == NextQueuedItem(w)
        a == IF r.message # NoMessage THEN BytesSent(r.w, ItemSize) ELSE r.w
    IN IF a.s.running \/ a.s.readyQ # << >> THEN Result(a, r.message)
       ELSE Result(AfterBackfill(a), r.message)

BackfillPhase(w) ==
    LET r == NextQueuedItem(w)
        a == IF r.message # NoMessage /\ r.message.op = "mutation"
             THEN [BytesSent(r.w, ItemSize) EXCEPT !.s.buffered = @ - ItemSize]
             ELSE r.w
        done == ~ a.s.running /\ a.s.readyQ = << >>
        b == AfterBackfill(a)
    IN IF ~ done THEN Result(a, r.message)
       ELSE IF r.message = NoMessage THEN NextQueuedItem(b)
       ELSE Result(b, r.message)

InMemoryPhase(w) ==
    IF w.s.lastSent >= w.s.end THEN NextQueuedItem(EndStream(w, "ok"))
    ELSE IF w.s.readyQ # << >> THEN NextQueuedItem(w)
    ELSE IF w.s.pendingBackfill
    THEN Result([ToBackfilling(w, TRUE) EXCEPT !.s.pendingBackfill = FALSE], NoMessage)
    ELSE Result(NextCheckpointItem(w), NoMessage)

TakeoverSendPhase(w) ==
    IF w.s.readyQ # << >> THEN NextQueuedItem(w)
    ELSE IF MoreFromCheckpoints(w) THEN Result(NextCheckpointItem(w), NoMessage)
    ELSE IF w.s.waitForSnapshot # 0 THEN Result(w, NoMessage)
    ELSE Result(Transition(w, "takeoverWait"), SetVBucketState(w.s.takeover))

NextPhase(w) ==
    CASE w.s.state = "backfilling"  -> BackfillPhase(w)
      [] w.s.state = "memory"       -> InMemoryPhase(w)
      [] w.s.state = "takeoverSend" -> TakeoverSendPhase(w)
      [] OTHER                      -> NextQueuedItem(w)

(* takeoverSendPhase has found nothing left to send before its set-state   *)
(* message.                                                                *)
HandsOver(w) ==
    w.s.state = "takeoverSend" /\ NextPhase(w).message # NoMessage
      /\ NextPhase(w).message.op = "setVBucketState"

-----------------------------------------------------------------------------
(* The connection's thread.                                                *)

LogFull == log >= LogMaxBytes

HasStream == p.s.state # "none"

(* What the consumer has after a message: the newest version of each key,  *)
(* the snapshot it is in, the acknowledgements it owes, the takeover state *)
(* it was sent.                                                            *)
Received(f, m) ==
    CASE m.op = "mutation" ->
           [f EXCEPT !.items[m.key] = m.seqno,
                     !.owed = IF f.marker.ack /\ m.seqno = f.marker.end THEN @ + 1 ELSE @]
      [] m.op = "marker" -> [f EXCEPT !.marker = m]
      [] m.op = "setVBucketState" -> [f EXCEPT !.state = m.state, !.stateAck = TRUE]
      [] OTHER -> [f EXCEPT !.ended = TRUE]

NothingSent(start) ==
    [items |-> NoItems, start |-> start, marker |-> Marker(0, 0, FALSE), owed |-> 0,
     state |-> "", stateAck |-> FALSE, ended |-> FALSE]

(* DcpProducer::step: getNextItem takes the vbucket off the ready queue    *)
(* and puts it back if the stream had a message.  Whether a takeover has   *)
(* run for dcp_takeover_max_time is a choice.                              *)
Step(late) ==
    LET r == NextPhase([p EXCEPT !.ready = FALSE])
        slow == late /\ p.s.state = "takeoverSend"
    IN /\ conn = "idle"
       /\ HasStream /\ p.ready /\ ~ LogFull
       /\ late => slow
       /\ vb' = [vb EXCEPT !.backedUp = IF HandsOver(p) THEN FALSE ELSE @ \/ slow]
       /\ IF r.message = NoMessage
          THEN p' = r.w /\ conn' = "next" /\ UNCHANGED <<log, sent>>
          ELSE /\ p' = [r.w EXCEPT !.s.itemsReady = TRUE, !.ready = TRUE]
               /\ log' = log + 1
               /\ sent' = Received(sent, r.message)
               /\ UNCHANGED conn
       /\ UNCHANGED <<disk, flush, latest, requests, limits>>

(* The end of a next() that has no message: itemsReady.store(false).       *)
StepReturns ==
    /\ conn = "next"
    /\ p' = [p EXCEPT !.s.itemsReady = FALSE]
    /\ conn' = "idle"
    /\ UNCHANGED <<log, vb, disk, flush, latest, sent, requests, limits>>

(* streamRequest for a start seqno the failover table accepts: only a dead *)
(* stream is replaced.  Tasks that still hold it now hold an old stream.   *)
Replaced(w) ==
    [w EXCEPT !.task.queue = IF @ = "own" THEN "old" ELSE @,
              !.task.cur = IF @ = "own" THEN "old" ELSE @,
              !.backfills = [i \in DOMAIN @ |-> [@[i] EXCEPT !.own = FALSE]]]

EndSeqno(request) ==
    CASE request.flags = "diskonly" -> vb.persistenceSeqno
      [] request.flags = "takeover" -> Infinity
      [] OTHER -> request.end

StreamRequest(request, start) ==
    LET end == EndSeqno(request)
        w == [Replaced(p) EXCEPT !.ready = TRUE,
                !.s = [NoStream EXCEPT !.state = "pending", !.flags = request.flags,
                                       !.end = end, !.snapStart = start,
                                       !.lastRead = start, !.lastSent = start]]
    IN /\ conn = "idle"
       /\ requests < limits.streams
       /\ p.s.state \in {"none", "dead"}
       /\ ~ vb.dead
       /\ start <= end /\ start <= p.mgr.lastBySeqno
       /\ p' = IF start >= end
               THEN [EndStream(w, "ok") EXCEPT !.s.itemsReady = TRUE]
               ELSE ToBackfilling(w, FALSE)
       /\ sent' = NothingSent(start)
       /\ requests' = requests + 1
       /\ UNCHANGED <<conn, log, vb, disk, flush, latest, limits>>

(* closeStream: the stream leaves the map before it is set dead, so that   *)
(* its stream-end message is never sent.                                   *)
CloseStream ==
    /\ conn = "idle"
    /\ HasStream
    /\ p' = [Replaced(EndStream(p, "closed")) EXCEPT !.s = NoStream]
    /\ sent' = NothingSent(0)
    /\ UNCHANGED <<conn, log, vb, disk, flush, latest, requests, limits>>

(* bufferAcknowledgement                                                   *)
BufferAcknowledgement ==
    /\ conn = "idle"
    /\ log > 0
    /\ log' = log - 1
    /\ UNCHANGED <<p, conn, vb, disk, flush, latest, sent, requests, limits>>

(* snapshotMarkerAckReceived                                               *)
SnapshotMarkerAck ==
    LET w == [p EXCEPT !.s.waitForSnapshot = @ - 1]
    IN /\ conn = "idle"
       /\ sent.owed > 0
       /\ p' = IF w.s.waitForSnapshot = 0 THEN Notify(w) ELSE w
       /\ sent' = [sent EXCEPT !.owed = @ - 1]
       /\ UNCHANGED <<conn, log, vb, disk, flush, latest, requests, limits>>

(* setVBucketStateAckRecieved; after the first acknowledgement the vbucket *)
(* is marked dead when streamMutex has been released.                      *)
SetVBucketStateAck ==
    LET first == p.s.takeover = "pending"
    IN /\ conn = "idle"
       /\ sent.stateAck
       /\ sent' = [sent EXCEPT !.stateAck = FALSE]
       /\ IF p.s.state # "takeoverWait" THEN UNCHANGED <<p, conn>>
          ELSE IF first
          THEN p' = ToTakeoverSend([p EXCEPT !.s.takeover = "active"]) /\ conn' = "marking"
          ELSE p' = Notify(EndStream(p, "ok")) /\ UNCHANGED conn
       /\ UNCHANGED <<log, vb, disk, flush, latest, requests, limits>>

MarkVBucketDeadUnnotified ==
    /\ conn = "marking"
    /\ vb' = [vb EXCEPT !.dead = TRUE]
    /\ conn' = "idle"
    /\ UNCHANGED <<p, log, disk, flush, latest, sent, requests, limits>>

MarkVBucketDead ==
    /\ conn = "marking"
    /\ vb' = [vb EXCEPT !.dead = TRUE]
    /\ p' = Notify(p)
    /\ conn' = "idle"
    /\ UNCHANGED <<log, disk, flush, latest, sent, requests, limits>>

(* setDisconnect: the connection is gone, its tasks still run.             *)
Disconnect ==
    /\ conn = "idle"
    /\ HasStream
    /\ conn' = "gone"
    /\ p' = EndStream(p, "disconnected")
    /\ UNCHANGED <<log, vb, disk, flush, latest, sent, requests, limits>>

(* vbucketStateChanged, after another thread's setVBucketState.            *)
LockFree == conn # "next"

VBucketStateChanged ==
    /\ LockFree
    /\ ~ vb.dead
    /\ vb' = [vb EXCEPT !.dead = TRUE]
    /\ p' = IF HasStream THEN Notify(EndStream(p, "state")) ELSE p
    /\ UNCHANGED <<conn, log, disk, flush, latest, sent, requests, limits>>

-----------------------------------------------------------------------------
(* The checkpoint processor task, step by step: run() puts itself to sleep *)
(* and clears the flag before it looks at the queue.                       *)

OnlyProducer == UNCHANGED <<conn, log, vb, disk, flush, latest, sent, requests, limits>>

TaskRun ==
    /\ p.task.pc = "idle" /\ p.task.awake
    /\ p' = [p EXCEPT !.task.awake = FALSE, !.task.pc = "started"]
    /\ OnlyProducer

TaskClearNotified ==
    /\ p.task.pc = "started"
    /\ p' = [p EXCEPT !.task.notified = FALSE, !.task.pc = "pop"]
    /\ OnlyProducer

TaskPop ==
    /\ p.task.pc = "pop"
    /\ p' = [p EXCEPT !.task.queue = "none",
                      !.task.cur = p.task.queue,
                      !.task.pc = IF p.task.queue = "none" THEN "finish" ELSE "extract"]
    /\ OnlyProducer

(* getOutstandingItems.  What the cursor has not read, as the mutations of *)
(* each checkpoint; items that are only checkpoint starts and ends are     *)
(* skipped by taking the next ones.                                        *)
UnreadOf(m, i) ==
    LET first == IF i = m.cursors[Stream].chk THEN m.cursors[Stream].pos + 1 ELSE 2
    IN SelectSeq(SubSeq(m.list[i].toWrite, first, Len(m.list[i].toWrite)),
                 LAMBDA item : item.op = "mutation")

UnreadSnapshots(m) ==
    SelectSeq([j \in 1 .. Len(m.list) - m.cursors[Stream].chk + 1 |->
                 UnreadOf(m, m.cursors[Stream].chk + j - 1)],
              LAMBDA group : group # << >>)

NothingUnread(m) ==
    Stream \notin DOMAIN m.cursors \/ Unread(m, m.cursors[Stream]) = {}

Extracting(w, b) == IF w.task.cur = "own" THEN [w EXCEPT !.s.extracting = b] ELSE w

TaskExtract ==
    LET groups == UnreadSnapshots(p.mgr)
        w == Extracting(p, TRUE)
    IN /\ p.task.pc = "extract"
       /\ p' = IF NothingUnread(p.mgr) THEN [w EXCEPT !.task.pc = "done"]
               ELSE [w EXCEPT !.mgr = GetAllItemsForCursor(@, Stream),
                              !.task.groups = groups,
                              !.task.pc = IF groups = << >> THEN "extract" ELSE "snapshot"]
       /\ OnlyProducer

SnapshotUnmarked(w, items) ==
    IF w.s.state \in {"none", "dead", "backfilling"} THEN w
    ELSE [w EXCEPT !.s.lastRead = items[Len(items)].seqno, !.s.readyQ = @ \o items]

SnapshotUncounted(w, items) ==
    IF w.s.state \in {"none", "dead", "backfilling"} THEN w
    ELSE [w EXCEPT !.s.lastRead = items[Len(items)].seqno,
                   !.s.firstMarker = TRUE,
                   !.s.readyQ = @ \o << Marker(0, items[Len(items)].seqno,
                                              w.s.state = "takeoverSend") >> \o items]

(* snapshot(): a marker and the items of one checkpoint, unless the stream *)
(* has ended or gone back to backfill in the meantime.                     *)
Snapshot(w, items) ==
    LET first == Head(items).seqno
        last == items[Len(items)].seqno
        takeover == w.s.state = "takeoverSend"
        start == IF w.s.firstMarker THEN first ELSE MinOf(w.s.snapStart, first)
    IN IF w.s.state \in {"none", "dead", "backfilling"} THEN w
       ELSE [w EXCEPT !.s.lastRead = last,
                      !.s.firstMarker = TRUE,
                      !.s.waitForSnapshot = IF takeover THEN @ + 1 ELSE @,
                      !.s.readyQ = @ \o << Marker(start, last, takeover) >> \o items]

TaskSnapshot ==
    LET w == IF p.task.cur = "own" THEN Snapshot(p, Head(p.task.groups)) ELSE p
        rest == Tail(p.task.groups)
    IN /\ p.task.pc = "snapshot"
       /\ LockFree
       /\ p' = [w EXCEPT !.task.groups = rest,
                         !.task.pc = IF rest = << >> THEN "done" ELSE "snapshot"]
       /\ OnlyProducer

TaskDone ==
    /\ p.task.pc = "done"
    /\ p' = [Extracting(p, FALSE) EXCEPT !.ready = TRUE, !.task.cur = "none", !.task.pc = "pop"]
    /\ OnlyProducer

TaskFinish ==
    /\ p.task.pc = "finish"
    /\ p' = [p EXCEPT !.task.awake = @ \/ p.task.notified \/ p.task.queue # "none",
                      !.task.notified = FALSE,
                      !.task.pc = "idle"]
    /\ OnlyProducer

-----------------------------------------------------------------------------
(* The backfill manager's task.  Each document scanned is a step: the scan *)
(* buffer only decides when a scan yields to another backfill.             *)

RemoveBackfill(w, i) == [w EXCEPT !.backfills = RemovePosition(@, i)]

Backfilling(w, i) == w.backfills[i].own /\ w.s.state = "backfilling"

StreamActive(w, i) == w.backfills[i].own /\ w.s.state # "dead"

(* DCPBackfill::create once the range is persisted, and markDiskSnapshot:  *)
(* the scan sees the file as it is now, up to its last seqno.              *)
MarkDiskSnapshotFromStart(w, start, end) ==
    LET r == IF w.s.flags = "diskonly" THEN w
             ELSE [w EXCEPT !.mgr = RegisterCursorBySeqno(@, Stream, start)]
    IN Notify([Push(r, Marker(MinOf(w.s.snapStart, start), end, FALSE))
                 EXCEPT !.s.firstMarker = TRUE])

MarkDiskSnapshot(w, start, end) ==
    LET r == IF w.s.flags = "diskonly" THEN w
             ELSE [w EXCEPT !.mgr = RegisterCursorBySeqno(@, Stream, end)]
    IN Notify([Push(r, Marker(MinOf(w.s.snapStart, start), end, FALSE))
                 EXCEPT !.s.firstMarker = TRUE])

BackfillCreate(i) ==
    LET b == p.backfills[i]
        docs == {Mutation(k, disk[k]) : k \in {k \in Keys : disk[k] >= b.start}}
        w == [p EXCEPT !.backfills[i] = [b EXCEPT !.state = "scanning", !.docs = docs]]
    IN /\ LockFree
       /\ b.state = "init"
       /\ ~ p.buffer.full
       /\ vb.persistenceSeqno >= b.end
       /\ p' = IF Backfilling(p, i)
               THEN MarkDiskSnapshot(w, b.start, Max({disk[k] : k \in Keys}))
               ELSE w
       /\ OnlyProducer

(* backfillReceived for the next document: while the buffer has no room    *)
(* the scan stays where it is.                                             *)
BackfillReceived(w, doc) ==
    Notify([Push(w, doc) EXCEPT !.s.lastRead = doc.seqno,
                                !.s.buffered = @ + ItemSize,
                                !.buffer.bytesRead = @ + ItemSize])


BackfillScan(i) ==
    LET b == p.backfills[i]
        doc == CHOOSE d \in b.docs : \A e \in b.docs : d.seqno <= e.seqno
        w == [p EXCEPT !.backfills[i].docs = @ \ {doc}]
    IN /\ LockFree
       /\ b.state = "scanning" /\ b.docs # {}
       /\ StreamActive(p, i)
       /\ ~ p.buffer.full
       /\ p' = IF ~ Backfilling(p, i) THEN w
               ELSE IF FitsBuffer(p) THEN BackfillReceived(w, doc)
               ELSE [p EXCEPT !.buffer.full = TRUE, !.buffer.nextReadSize = ItemSize]
       /\ OnlyProducer

(* complete, at the end of a scan or because the stream is dead; a full    *)
(* buffer only lets dead backfills go.                                     *)
CompleteBackfillUnnotified(w) == [w EXCEPT !.s.running = FALSE]

CompleteBackfill(w) ==
    LET r == [w EXCEPT !.s.running = FALSE]
        again == w.s.state = "backfilling" /\ w.s.pendingBackfill
        a == IF again
             THEN [ScheduleBackfill(r, TRUE) EXCEPT !.s.pendingBackfill = FALSE]
             ELSE r
    IN Notify([a EXCEPT !.s.running = FALSE])

BackfillComplete(i) ==
    LET b == p.backfills[i]
        dead == ~ StreamActive(p, i)
    IN /\ LockFree
       /\ \/ b.state = "scanning" /\ ~ p.buffer.full /\ (b.docs = {} \/ dead)
          \/ dead /\ p.buffer.full
       /\ p' = IF b.own THEN CompleteBackfill(RemoveBackfill(p, i))
               ELSE RemoveBackfill(p, i)
       /\ OnlyProducer

-----------------------------------------------------------------------------
(* The other threads of the vbucket.                                       *)

(* A write, with notifySeqnoAvailable, which takes no lock.                *)
NotifySeqnoAvailable(w) ==
    IF w.s.state \in {"none", "dead"} THEN w ELSE Notify(w)

Write(k) ==
    /\ ~ vb.dead /\ ~ vb.backedUp
    /\ p.mgr.lastBySeqno < limits.maxSeqno
    /\ p' = NotifySeqnoAvailable(
              [p EXCEPT !.mgr = QueueDirty(@, TRUE, k, TRUE, 0, FALSE)])
    /\ latest' = [latest EXCEPT ![k] = p'.mgr.lastBySeqno]
    /\ UNCHANGED <<conn, log, vb, disk, flush, sent, requests, limits>>

(* flushVBucket: drain, commit, itemsPersisted.                            *)
Drained(m) ==
    [k \in Keys |->
       LET S == {q \in Unread(m, m.cursors[Persistence]) :
                   m.list[q[1]].toWrite[q[2]].key = k}
       IN Max({0} \cup {m.list[q[1]].toWrite[q[2]].seqno : q \in S})]

FlushDrain ==
    /\ flush.pc = "idle"
    /\ Unread(p.mgr, p.mgr.cursors[Persistence]) # {}
    /\ flush' = [pc |-> "drained", items |-> Drained(p.mgr)]
    /\ p' = [p EXCEPT !.mgr = GetAllItemsForCursor(@, Persistence)]
    /\ UNCHANGED <<conn, log, vb, disk, latest, sent, requests, limits>>

FlushCommit ==
    /\ flush.pc = "drained"
    /\ flush' = [pc |-> "committed", items |-> NoItems]
    /\ disk' = [k \in Keys |-> MaxOf(disk[k], flush.items[k])]
    /\ vb' = [vb EXCEPT !.persistenceSeqno = Max({disk'[k] : k \in Keys})]
    /\ UNCHANGED <<p, conn, log, latest, sent, requests, limits>>

FlushEnd ==
    /\ flush.pc = "committed"
    /\ flush' = [flush EXCEPT !.pc = "idle"]
    /\ p' = [p EXCEPT !.mgr = ItemsPersisted(@)]
    /\ UNCHANGED <<conn, log, vb, disk, latest, sent, requests, limits>>

RemoveCheckpoints ==
    /\ ~ vb.dead
    /\ p' = [p EXCEPT !.mgr = RemoveClosedUnrefCheckpoints(@, TRUE, FALSE, FALSE, FALSE)]
    /\ p' # p
    /\ OnlyProducer

(* getListOfCursorsToDrop: the cursors of the oldest checkpoint, or of the *)
(* oldest two, that the persistence cursor has left.                       *)
CursorsToDrop(m) ==
    LET n == IF Len(m.list) = 1 THEN 0 ELSE IF Len(m.list) <= 3 THEN 1 ELSE 2
    IN UNION {m.list[i].names : i \in {i \in 1 .. n : \A j \in 1 .. i :
                                          Persistence \notin m.list[j].names}}

(* cursorDroppingIfNeeded above the upper mark, and handleSlowStream.      *)
HandleSlowStream ==
    LET dropped == [p EXCEPT !.mgr = RemoveCursor(@, Stream), !.s.pendingBackfill = TRUE]
    IN /\ LockFree
       /\ Stream \in CursorsToDrop(p.mgr)
       /\ CASE p.s.state = "backfilling" ->
                 p' = IF p.s.running THEN dropped ELSE ScheduleBackfill(p, TRUE)
            [] p.s.state = "memory" -> p' = dropped
            [] OTHER -> FALSE
       /\ OnlyProducer

-----------------------------------------------------------------------------
(* A vbucket after warmup, that holds what is on disk.                     *)
Warmed(seqno) == SetOpenCheckpointId(NewManager(1, seqno, seqno, seqno), 2)

Init ==
    /\ limits \in Scenarios
    /\ disk = limits.disk
    /\ p = [s |-> NoStream, ready |-> FALSE, thrown |-> FALSE,
            mgr |-> Warmed(Max({disk[k] : k \in Keys})),
            buffer |-> [bytesRead |-> 0, full |-> FALSE, nextReadSize |-> 0],
            backfills |-> << >>,
            task |-> [pc |-> "idle", awake |-> FALSE, notified |-> FALSE,
                      queue |-> "none", cur |-> "none", groups |-> << >>]]
    /\ conn = "idle"
    /\ log = 0
    /\ vb = [dead |-> FALSE, backedUp |-> FALSE, persistenceSeqno |-> Max({disk[k] : k \in Keys})]
    /\ flush = [pc |-> "idle", items |-> NoItems]
    /\ latest = disk
    /\ sent = NothingSent(0)
    /\ requests = 0

ConnectionNext ==
    \/ \E late \in BOOLEAN : Step(late)
    \/ StepReturns
    \/ BufferAcknowledgement
    \/ SnapshotMarkerAck
    \/ SetVBucketStateAck
    \/ MarkVBucketDead

TaskNext ==
    \/ TaskRun \/ TaskClearNotified \/ TaskPop \/ TaskExtract
    \/ TaskSnapshot \/ TaskDone \/ TaskFinish

BackfillNext ==
    \E i \in DOMAIN p.backfills : BackfillCreate(i) \/ BackfillScan(i) \/ BackfillComplete(i)

VBucketNext ==
    \/ \E k \in limits.keys : Write(k)
    \/ FlushDrain \/ FlushCommit \/ FlushEnd
    \/ RemoveCheckpoints

(* What ends a stream from outside.                                        *)
ClosingNext == CloseStream \/ Disconnect \/ VBucketStateChanged

RequestNext ==
    \E request \in limits.requests, start \in limits.starts : StreamRequest(request, start)

(* The tasks have let go of a stream that has ended.                       *)
Settled == p.task.queue = "none" /\ p.task.cur = "none"

Next ==
    \/ Settled /\ RequestNext
    \/ ConnectionNext \/ TaskNext \/ BackfillNext \/ VBucketNext
    \/ limits.closed /\ ClosingNext

DropNext == Next \/ HandleSlowStream

(* The executor pool runs a task that is awake, memcached steps a          *)
(* connection that has something to send, and the consumer answers.        *)
Fairness ==
    /\ WF_vars(Step(FALSE)) /\ WF_vars(StepReturns) /\ WF_vars(MarkVBucketDead)
    /\ WF_vars(BufferAcknowledgement)
    /\ WF_vars(SnapshotMarkerAck) /\ WF_vars(SetVBucketStateAck)
    /\ WF_vars(TaskNext)
    /\ WF_vars(BackfillNext)
    /\ WF_vars(FlushDrain) /\ WF_vars(FlushCommit) /\ WF_vars(FlushEnd)

Spec == Init /\ [][Next]_vars /\ Fairness
DropSpec == Init /\ [][DropNext]_vars
DropLiveSpec == DropSpec /\ Fairness

-----------------------------------------------------------------------------
(* Properties.                                                             *)

StreamType ==
    [state : States, flags : {"", "takeover", "diskonly"}, end : Nat, snapStart : Nat,
     readyQ : Seq([op : {"mutation"}, key : Keys, seqno : Nat]
                    \cup [op : {"marker"}, start : Nat, end : Nat, ack : BOOLEAN]
                    \cup {StreamEnd}),
     lastRead : Nat, lastSent : Nat, firstMarker : BOOLEAN, itemsReady : BOOLEAN,
     pendingBackfill : BOOLEAN, running : BOOLEAN, extracting : BOOLEAN,
     takeover : {"pending", "active"}, waitForSnapshot : Nat, buffered : Nat]

(* The producer's state stays within its types; a counter of               *)
(* snapshotMarkerAckReceived or of the backfill buffer that went below     *)
(* zero would leave them.                                                  *)
TypeOK ==
    /\ p.s \in StreamType
    /\ p.ready \in BOOLEAN
    /\ p.buffer \in [bytesRead : Nat, full : BOOLEAN, nextReadSize : Nat]
    /\ \A i \in DOMAIN p.backfills :
         p.backfills[i] \in [state : {"init", "scanning"}, start : Nat, end : Nat,
                             docs : SUBSET [op : {"mutation"}, key : Keys, seqno : Nat],
                             own : BOOLEAN]
    /\ p.task.pc \in {"idle", "started", "pop", "extract", "snapshot", "done", "finish"}
    /\ {p.task.queue, p.task.cur} \subseteq {"none", "own", "old"}
    /\ conn \in {"idle", "next", "marking", "gone"}
    /\ log \in 0 .. LogMaxBytes

(* transitionState, scheduleBackfill_UNLOCKED and BackfillManager's        *)
(* bytesSent never throw.                                                  *)
NeverThrows == ~ p.thrown

(* The messages of the stream, sent and queued, are in order: the seqnos   *)
(* of mutations increase, and each lies in the snapshot of the marker that *)
(* precedes it (nextQueuedItem, snapshot, markDiskSnapshot).               *)
Queued(op) == {i \in DOMAIN p.s.readyQ : p.s.readyQ[i].op = op}

MarkerBefore(i) ==
    LET S == {j \in Queued("marker") : j < i}
    IN IF S = {} THEN sent.marker ELSE p.s.readyQ[Max(S)]

MessagesInOrder ==
    \A i \in Queued("mutation") :
        LET seqno == p.s.readyQ[i].seqno
        IN /\ seqno > p.s.lastSent
           /\ seqno \in MarkerBefore(i).start .. MarkerBefore(i).end
           /\ \A j \in Queued("mutation") : j < i => p.s.readyQ[j].seqno < seqno


(* The backfill buffer holds exactly the items that the stream has         *)
(* backfilled and not sent; nothing of it is left when the stream leaves   *)
(* the backfill phase, so that a full buffer always drains.                *)
BufferAccounted ==
    /\ p.buffer.bytesRead = p.s.buffered
    /\ p.s.state # "backfilling" => p.buffer.bytesRead = 0
    /\ p.s.state = "backfilling" =>
         p.s.buffered = ItemSize * Cardinality(Queued("mutation"))


(* The phases of a stream end.  It leaves the backfill phase, whatever the *)
(* order of its backfill task, the consumer's acknowledgements and the     *)
(* wakeups of the connection; and a takeover that has begun to hand over   *)
(* does so, whatever the order of acknowledgements, snapshots and the      *)
(* marking of the vbucket, unless the stream is closed.                    *)
PhasesEnd ==
    /\ (p.s.state = "backfilling") ~> (p.s.state # "backfilling")
    /\ (p.s.state = "takeoverWait") ~> (p.s.state \in {"none", "dead"})

==============================================================================
