-------------------------- MODULE CheckpointManager --------------------------
(***************************************************************************)
(* The checkpoint manager of one vbucket (checkpoint.cc, checkpoint.h):    *)
(* the list of in-memory checkpoints, and the cursors that persistence,    *)
(* DCP streams and TAP connections keep in it.                             *)
(*                                                                         *)
(* Every method of the class runs under queueLock, so each is one atomic   *)
(* operator on the manager's state, a record:                              *)
(*                                                                         *)
(*   list      checkpointList, oldest first                                *)
(*   cursors   connCursors: name -> position                               *)
(*   numItems  the manager's own count of queued items                     *)
(*   lastBySeqno                                                           *)
(*   pre       pCursorPreCheckpointId                                      *)
(*                                                                         *)
(* Left out: lastClosedChkBySeqno, which nothing reads, and the            *)
(* bookkeeping of collapsed checkpoints, which only TAP consumers reach.   *)
(*                                                                         *)
(* A C++ list iterator is an index: a cursor's currentCheckpoint is an     *)
(* index into the list and its currentPos an index into toWrite.           *)
(***************************************************************************)
EXTENDS Integers, Sequences, FiniteSets

CONSTANTS
    Keys,               \* document keys
    NoKey,              \* the key of a meta item
    Persistence,        \* pCursorName
    DcpCursors,         \* cursors registered by seqno, that skip checkpoint_end
    TapCursors,         \* cursors registered by id, that must send it
    CheckpointMaxItems, \* chk_max_items
    MaxCheckpoints,     \* max_checkpoints
    KeepClosed          \* keep_closed_chks

ASSUME CursorNamesDistinct ==
    /\ Persistence \notin DcpCursors \cup TapCursors
    /\ DcpCursors \cap TapCursors = {}

ASSUME CursorsFinite == IsFiniteSet(DcpCursors) /\ IsFiniteSet(TapCursors)

ASSUME NoKeyIsNoKey == NoKey \notin Keys

ASSUME LimitsPositive ==
    /\ CheckpointMaxItems \in Nat \ {0}
    /\ MaxCheckpoints \in Nat \ {0}
    /\ KeepClosed \in BOOLEAN

CursorNames == {Persistence} \cup DcpCursors \cup TapCursors

Ops == {"empty", "start", "end", "mutation"}

Items == [op : Ops, key : Keys \cup {NoKey}, seqno : Nat]

Checkpoints == [id : Nat, state : {"open", "closed"}, snapStart : Nat, snapEnd : Nat,
                toWrite : Seq(Items), names : SUBSET CursorNames]

Cursors == [chk : Nat, pos : Nat, offset : Int]

-----------------------------------------------------------------------------
(* Items and single checkpoints.                                           *)

(* createCheckpointItem: the dummy and the end item carry lastBySeqno, the *)
(* start item the seqno that follows it.                                   *)
CreateCheckpointItem(op, lastBySeqno) ==
    [op |-> op, key |-> NoKey,
     seqno |-> IF op = "start" THEN lastBySeqno + 1 ELSE lastBySeqno]

Mutation(key, seqno) == [op |-> "mutation", key |-> key, seqno |-> seqno]

MutationPositions(c) ==
    {j \in DOMAIN c.toWrite : c.toWrite[j].op = "mutation"}

(* Checkpoint::getNumItems: the mutations of a checkpoint, its meta items  *)
(* left out.                                                               *)
NumItems(c) == Cardinality(MutationPositions(c))

GetLowSeqno(c)  == c.toWrite[2].seqno
GetHighSeqno(c) == c.toWrite[Len(c.toWrite)].seqno

(* keyIndex.find(key): the position of the key's mutation, if any.         *)
KeyIndex(c, key) == {j \in MutationPositions(c) : c.toWrite[j].key = key}

(* list::erase of position d.                                              *)
RemovePosition(s, d) ==
    [j \in 1 .. Len(s) - 1 |-> IF j < d THEN s[j] ELSE s[j + 1]]

DecrOffset(offset, decr) == IF offset >= decr THEN offset - decr ELSE 0

Back(m) == m.list[Len(m.list)]

SetBack(m, c) == [m EXCEPT !.list[Len(m.list)] = c]

(* The items of the first n checkpoints as the code counts them:           *)
(* getNumItems() + 2 for each.                                             *)
ItemsInFirst(list, n) ==
    Cardinality(UNION {{i} \X MutationPositions(list[i]) : i \in 1 .. n}) + 2 * n

-----------------------------------------------------------------------------
(* Checkpoint::queueDirty on the open (last) checkpoint.                   *)

(* The key is already in the checkpoint at position d.  A cursor at or     *)
(* past d moves left by one, for d is erased below it; its offset follows  *)
(* only if the cursor stands on a mutation not older than the erased one.  *)
CursorAfterEraseOffByOne(c, d, cur) ==
    LET item == c.toWrite[cur.pos]
        passed == item.op = "mutation" /\ c.toWrite[d].seqno <= item.seqno
    IN [cur EXCEPT !.offset = IF passed THEN DecrOffset(@, 1) ELSE @,
                   !.pos    = IF @ > d THEN @ - 1 ELSE @]

CursorAfterErase(c, d, cur) ==
    LET item == c.toWrite[cur.pos]
        passed == item.op = "mutation" /\ c.toWrite[d].seqno <= item.seqno
    IN [cur EXCEPT !.offset = IF passed THEN DecrOffset(@, 1) ELSE @,
                   !.pos    = IF @ >= d THEN @ - 1 ELSE @]

(* The queue_dirty_t of the call: PERSIST_AGAIN when the persistence       *)
(* cursor had already passed the erased item.                              *)
QueueDirtyResultNeverAgain(m, item) ==
    IF item.op # "mutation" \/ KeyIndex(Back(m), item.key) = {} THEN "NEW_ITEM"
    ELSE "EXISTING_ITEM"

QueueDirtyResult(m, item) ==
    LET c == Back(m)
        cur == m.cursors[Persistence]
        old == KeyIndex(c, item.key)
        here == c.toWrite[cur.pos]
    IN IF item.op # "mutation" \/ old = {} THEN "NEW_ITEM"
       ELSE IF /\ cur.chk = Len(m.list)
               /\ here.op = "mutation"
               /\ \E d \in old : c.toWrite[d].seqno <= here.seqno
            THEN "PERSIST_AGAIN"
            ELSE "EXISTING_ITEM"

CheckpointQueueDirtyKeepsOld(m, item) ==
    SetBack(m, [Back(m) EXCEPT !.toWrite = Append(@, item)])

CheckpointQueueDirty(m, item) ==
    LET c == Back(m)
        old == KeyIndex(c, item.key)
        d == CHOOSE j \in old : TRUE
    IN IF item.op # "mutation" \/ old = {}
       THEN SetBack(m, [c EXCEPT !.toWrite = Append(@, item)])
       ELSE [SetBack(m, [c EXCEPT !.toWrite = RemovePosition(Append(@, item), d)])
               EXCEPT !.cursors =
                 [n \in DOMAIN m.cursors |->
                    IF m.cursors[n].chk = Len(m.list)
                    THEN CursorAfterErase(c, d, m.cursors[n])
                    ELSE m.cursors[n]]]

-----------------------------------------------------------------------------
(* Opening and closing checkpoints.                                        *)

(* closeOpenCheckpoint_UNLOCKED                                            *)
CloseOpenCheckpointUncounted(m) ==
    IF Back(m).state = "closed" THEN m
    ELSE SetBack(m, [Back(m) EXCEPT !.state = "closed",
                       !.toWrite = Append(@, CreateCheckpointItem("end", m.lastBySeqno))])

CloseOpenCheckpoint(m) ==
    IF Back(m).state = "closed" THEN m
    ELSE LET endItem == CreateCheckpointItem("end", m.lastBySeqno)
             c == [Back(m) EXCEPT !.toWrite = Append(@, endItem), !.state = "closed"]
         IN [SetBack(m, c) EXCEPT !.numItems = @ + 1]

NewCheckpoint(id, snapStart, snapEnd, lastBySeqno) ==
    [id |-> id, state |-> "open", snapStart |-> snapStart, snapEnd |-> snapEnd,
     toWrite |-> << CreateCheckpointItem("empty", lastBySeqno),
                    CreateCheckpointItem("start", lastBySeqno) >>,
     names |-> {}]

(* Whether a cursor steps into the checkpoint that is being added: it has  *)
(* read everything of a closed checkpoint, where a cursor that need not    *)
(* send checkpoint_end may skip it.                                        *)
SkipsEnd(c, n, cur) ==
    /\ n \notin TapCursors
    /\ cur.pos + 1 = Len(c.toWrite)
    /\ c.toWrite[cur.pos + 1].op = "end"

EntersNext(c, n, cur) ==
    c.state = "closed" /\ (cur.pos = Len(c.toWrite) \/ SkipsEnd(c, n, cur))

CursorAfterAdd(list, n, cur) ==
    LET c == list[cur.chk]
    IN IF EntersNext(c, n, cur)
       THEN [chk |-> cur.chk + 1, pos |-> 1,
             offset |-> IF SkipsEnd(c, n, cur) THEN cur.offset + 1 ELSE cur.offset]
       ELSE cur

(* removeCursorName on the old checkpoint and registerCursorName on the    *)
(* new one, for every cursor that moves from before to after.              *)
MoveNamesForgotten(list, before, after) == list

MoveNames(list, before, after) ==
    [i \in DOMAIN list |->
       [list[i] EXCEPT !.names =
          (@ \ {n \in DOMAIN before : before[n].chk = i /\ after[n].chk # i})
             \cup {n \in DOMAIN before : before[n].chk # i /\ after[n].chk = i}]]

(* addNewCheckpoint_UNLOCKED on a list that is not empty.                  *)
AddNewCheckpointWithSnapshot(m, id, snapStart, snapEnd) ==
    LET closed == CloseOpenCheckpoint(m)
        list == Append(closed.list,
                       NewCheckpoint(id, snapStart, snapEnd, m.lastBySeqno))
        cursors == [n \in DOMAIN m.cursors |-> CursorAfterAdd(list, n, m.cursors[n])]
    IN [closed EXCEPT !.list = MoveNames(list, m.cursors, cursors),
                      !.cursors = cursors,
                      !.numItems = @ + 1]

AddNewCheckpoint(m, id) ==
    AddNewCheckpointWithSnapshot(m, id, m.lastBySeqno, m.lastBySeqno)

Registered(chk, pos, offset) == [chk |-> chk, pos |-> pos, offset |-> offset]

(* The CheckpointManager constructor: one open checkpoint, with the        *)
(* persistence cursor at its beginning.                                    *)
NewManager(id, lastBySeqno, snapStart, snapEnd) ==
    [list |-> << [NewCheckpoint(id, snapStart, snapEnd, lastBySeqno)
                    EXCEPT !.names = {Persistence}] >>,
     cursors |-> [n \in {Persistence} |-> Registered(1, 1, 0)],
     numItems |-> 1,
     lastBySeqno |-> lastBySeqno,
     pre |-> 0]

(* checkOpenCheckpoint_UNLOCKED; timeUp: the open checkpoint is older than *)
(* chk_period.                                                             *)
NeedsNewCheckpoint(m, force, timeUp) ==
    \/ force
    \/ NumItems(Back(m)) >= CheckpointMaxItems
    \/ NumItems(Back(m)) > 0 /\ timeUp

CheckOpenCheckpoint(m, force, timeUp) ==
    IF NeedsNewCheckpoint(m, force, timeUp)
    THEN AddNewCheckpoint(m, Back(m).id + 1)
    ELSE m

CanCreateNewCheckpoint(m) ==
    \/ Len(m.list) < MaxCheckpoints
    \/ Len(m.list) = MaxCheckpoints /\ m.list[1].names = {}

(* getOpenCheckpointId_UNLOCKED                                            *)
GetOpenCheckpointId(m) == IF Back(m).state = "open" THEN Back(m).id ELSE Back(m).id + 1

(* setOpenCheckpointId_UNLOCKED: leaving id 0, the backfill phase, moves   *)
(* the start item and the snapshot range up to lastBySeqno.                *)
SetOpenCheckpointId(m, id) ==
    LET c == Back(m)
    IN SetBack(m,
         IF c.id = 0
         THEN [c EXCEPT !.id = id,
                        !.toWrite[2].seqno = m.lastBySeqno + 1,
                        !.snapStart = m.lastBySeqno,
                        !.snapEnd = m.lastBySeqno]
         ELSE [c EXCEPT !.id = id])

-----------------------------------------------------------------------------
(* Cursors: registration, removal and movement.                            *)

DropName(list, n) == [i \in DOMAIN list |-> [list[i] EXCEPT !.names = @ \ {n}]]

(* removeCursor_UNLOCKED                                                   *)
RemoveCursor(m, n) ==
    IF n \notin DOMAIN m.cursors THEN m
    ELSE [m EXCEPT !.list = DropName(@, n),
                   !.cursors = [x \in DOMAIN @ \ {n} |-> @[x]]]

(* connCursors[n] = cursor, and registerCursorName on its checkpoint.      *)
PutCursor(m, n, cur) ==
    [m EXCEPT !.list[cur.chk].names = @ \cup {n},
              !.cursors = [x \in DOMAIN @ \cup {n} |-> IF x = n THEN cur ELSE @[x]]]

(* registerCursorBySeqno: the first checkpoint that ends at or after the   *)
(* seqno, and in it the last item not newer than the seqno; the dummy item *)
(* if the checkpoint only starts after it.                                 *)
CheckpointsFrom(m, startBySeqno) ==
    {i \in DOMAIN m.list : startBySeqno <= GetHighSeqno(m.list[i])
                             \/ startBySeqno < GetLowSeqno(m.list[i])}

PositionOf(c, startBySeqno) ==
    IF startBySeqno < GetLowSeqno(c) THEN 1
    ELSE CHOOSE j \in DOMAIN c.toWrite :
           /\ \A x \in 2 .. j : c.toWrite[x].seqno <= startBySeqno
           /\ j = Len(c.toWrite) \/ startBySeqno < c.toWrite[j + 1].seqno

CursorBySeqno(m, startBySeqno) ==
    LET S == CheckpointsFrom(m, startBySeqno)
        i == CHOOSE x \in S : \A y \in S : x <= y
        j == PositionOf(m.list[i], startBySeqno)
    IN Registered(i, j, ItemsInFirst(m.list, i - 1) + j - 1)

RegisterCursorBySeqno(m, n, startBySeqno) ==
    LET r == RemoveCursor(m, n)
    IN IF CheckpointsFrom(m, startBySeqno) = {} THEN r
       ELSE PutCursor(r, n, CursorBySeqno(m, startBySeqno))

(* CursorRegResult.first: the seqno of the next item the cursor will see.  *)
SeqnoAfterCursor(m, cur) ==
    LET c == m.list[cur.chk]
    IN IF cur.pos = Len(c.toWrite) THEN GetHighSeqno(c) + 1
       ELSE c.toWrite[cur.pos + 1].seqno

(* registerCursor_UNLOCKED: the checkpoint with the given id, or else the  *)
(* first one persistence has not left behind.                              *)
RegisterCursor(m, n, id, alwaysFromBeginning) ==
    LET found == {i \in DOMAIN m.list : m.list[i].id = id}
        live == {i \in DOMAIN m.list : m.pre < m.list[i].id \/ m.pre = 0}
        S == IF found # {} THEN found ELSE live
        i == CHOOSE x \in S : \A y \in S : x <= y
        dropped == IF n \in DOMAIN m.cursors
                   THEN [m EXCEPT !.list[m.cursors[n].chk].names = @ \ {n}]
                   ELSE m
        stay == /\ found # {} /\ ~ alwaysFromBeginning /\ n \in DOMAIN m.cursors
                /\ m.list[m.cursors[n].chk].id = id
        cur == IF stay THEN [m.cursors[n] EXCEPT !.chk = i]
               ELSE Registered(i, 1, ItemsInFirst(m.list, i - 1))
    IN PutCursor(dropped, n, cur)

(* incrCursor: one item forward, into the next checkpoint if this one is   *)
(* closed and exhausted; the cursor's state is unchanged if there is none. *)
HasNextItem(m, cur) ==
    cur.pos < Len(m.list[cur.chk].toWrite) \/ cur.chk < Len(m.list)

IncrCursor(m, n) ==
    LET cur == m.cursors[n]
        to == IF cur.pos < Len(m.list[cur.chk].toWrite)
              THEN Registered(cur.chk, cur.pos + 1, cur.offset + 1)
              ELSE Registered(cur.chk + 1, 2, cur.offset + 1)
        cursors == [m.cursors EXCEPT ![n] = to]
    IN IF ~ HasNextItem(m, cur) THEN m
       ELSE [m EXCEPT !.list = MoveNames(@, m.cursors, cursors),
                      !.cursors = cursors]

(* The positions a cursor has not read: the rest of its checkpoint and the *)
(* later ones, without their dummy items.                                  *)
Unread(m, cur) ==
    {p \in UNION {{i} \X (2 .. Len(m.list[i].toWrite)) : i \in DOMAIN m.list} :
       p[1] > cur.chk \/ (p[1] = cur.chk /\ p[2] > cur.pos)}

(* getAllItemsForCursor: the cursor ends on the last item of the last      *)
(* checkpoint; Range is the snapshot range it returns.                     *)
GetAllItemsForCursor(m, n) ==
    LET cur == m.cursors[n]
        cursors == [m.cursors EXCEPT ![n] =
                      Registered(Len(m.list), Len(Back(m).toWrite),
                                 cur.offset + Cardinality(Unread(m, cur)))]
    IN [m EXCEPT !.list = MoveNames(@, m.cursors, cursors),
                 !.cursors = cursors]

RangeForCursor(m, n) ==
    [start |-> m.list[m.cursors[n].chk].snapStart, end |-> Back(m).snapEnd]

(* decrCursorFromCheckpointEnd                                             *)
DecrCursorFromCheckpointEnd(m, n) ==
    IF /\ n \in DOMAIN m.cursors
       /\ m.list[m.cursors[n].chk].toWrite[m.cursors[n].pos].op = "end"
    THEN [m EXCEPT !.cursors[n].pos = @ - 1]
    ELSE m

-----------------------------------------------------------------------------
(* queueDirty.  genSeqno: the active vbucket assigns the next seqno; a     *)
(* replica takes the seqno it was sent.                                    *)

(* The checkpoint the item goes to: a new one if the open one is full or   *)
(* old, or if the last one is closed.                                      *)
WithOpenCheckpoint(m, isActive, timeUp) ==
    LET checked == IF isActive /\ CanCreateNewCheckpoint(m)
                   THEN CheckOpenCheckpoint(m, FALSE, timeUp)
                   ELSE m
    IN IF Back(checked).state = "open" \/ ~ isActive
       THEN checked
       ELSE AddNewCheckpoint(checked, Back(checked).id + 1)

WithSeqnoOnly(m, genSeqno, seqno) ==
    [m EXCEPT !.lastBySeqno = IF genSeqno THEN @ + 1 ELSE seqno]

WithSeqno(m, genSeqno, seqno) ==
    IF genSeqno
    THEN [SetBack(m, [Back(m) EXCEPT !.snapEnd = m.lastBySeqno + 1])
            EXCEPT !.lastBySeqno = @ + 1]
    ELSE [m EXCEPT !.lastBySeqno = seqno]

(* The two logic_errors of queueDirty: the last checkpoint is closed on a  *)
(* vbucket that is not active, or the seqno is outside the snapshot.       *)
InSnapshotRange(m) == m.lastBySeqno \in Back(m).snapStart .. Back(m).snapEnd

QueueDirtyThrows(m, isActive, genSeqno, seqno, timeUp) ==
    LET o == WithOpenCheckpoint(m, isActive, timeUp)
    IN Back(o).state = "closed" \/ ~ InSnapshotRange(WithSeqno(o, genSeqno, seqno))

QueueDirty(m, isActive, key, genSeqno, seqno, timeUp) ==
    LET w == WithSeqno(WithOpenCheckpoint(m, isActive, timeUp), genSeqno, seqno)
        item == Mutation(key, w.lastBySeqno)
        q == CheckpointQueueDirty(w, item)
    IN IF QueueDirtyResult(w, item) = "NEW_ITEM"
       THEN [q EXCEPT !.numItems = @ + 1]
       ELSE q

(* What queueDirty returns, on which its caller notifies the flusher.      *)
QueueDirtyNotifies(m, isActive, key, genSeqno, seqno, timeUp) ==
    LET w == WithSeqno(WithOpenCheckpoint(m, isActive, timeUp), genSeqno, seqno)
    IN QueueDirtyResult(w, Mutation(key, w.lastBySeqno)) # "EXISTING_ITEM"

-----------------------------------------------------------------------------
(* removeClosedUnrefCheckpoints.                                           *)

(* isCheckpointCreationForHighMemUsage; enoughItems: the open checkpoint   *)
(* holds MIN_CHECKPOINT_ITEMS items or every item of the hash table.       *)
AllCursorsInOpenCheckpoint(m) ==
    Cardinality(DOMAIN m.cursors) + 1 = Cardinality(Back(m).names)

IsCheckpointCreationForHighMemUsage(m, memHigh, enoughItems) ==
    memHigh /\ AllCursorsInOpenCheckpoint(m) /\ enoughItems

(* removeInvalidCursorsOnCheckpoint: only the names of cursors that stand  *)
(* on the checkpoint stay.                                                 *)
ValidNames(m, i) ==
    {n \in m.list[i].names \cap DOMAIN m.cursors : m.cursors[n].chk = i}

(* How many checkpoints the scan collects: those before the first one that *)
(* has a cursor or that persistence has not passed; with keep_closed_chks, *)
(* only until max_checkpoints remain.                                      *)
UnreferencedByCursors(m, i) == ValidNames(m, i) = {} /\ i < Len(m.list)

Unreferenced(m, i) == ValidNames(m, i) = {} /\ m.list[i].id <= m.pre

MinOf(a, b) == IF a <= b THEN a ELSE b
MaxOf(a, b) == IF a >= b THEN a ELSE b

UnreferencedPrefix(m) ==
    CHOOSE k \in 0 .. Len(m.list) :
        /\ \A i \in 1 .. k : Unreferenced(m, i)
        /\ k = Len(m.list) \/ ~ Unreferenced(m, k + 1)

NumCheckpointsRemoved(m) ==
    IF KeepClosed
    THEN MinOf(UnreferencedPrefix(m), MaxOf(1, Len(m.list) - MaxCheckpoints))
    ELSE UnreferencedPrefix(m)

(* The scan drops invalid names on every checkpoint it visits: those it    *)
(* collects and, unless keep_closed_chks ended it, the one after them.     *)
Visited(m, k) ==
    IF KeepClosed /\ k > 0 /\ Len(m.list) - k <= MaxCheckpoints THEN k ELSE k + 1

NamesChecked(m, k) ==
    [i \in DOMAIN m.list |->
       IF i <= Visited(m, k)
       THEN [m.list[i] EXCEPT !.names = ValidNames(m, i)]
       ELSE m.list[i]]

CursorAfterDrop(cur, k, total) ==
    Registered(cur.chk - k, cur.pos, DecrOffset(cur.offset, total))

DropPrefix(m, k) ==
    LET total == ItemsInFirst(m.list, k)
    IN [m EXCEPT !.list = SubSeq(NamesChecked(m, k), k + 1, Len(m.list)),
                 !.numItems = @ - total,
                 !.cursors = [n \in DOMAIN @ |-> CursorAfterDrop(@[n], k, total)]]

RemoveClosedUnrefCheckpoints(m, isActive, timeUp, memHigh, enoughItems) ==
    LET force == IsCheckpointCreationForHighMemUsage(m, memHigh, enoughItems)
        checked == IF isActive /\ CanCreateNewCheckpoint(m)
                   THEN CheckOpenCheckpoint(m, force, timeUp)
                   ELSE m
    IN IF KeepClosed /\ ~ memHigh /\ Len(checked.list) <= MaxCheckpoints
       THEN checked
       ELSE DropPrefix(checked, NumCheckpointsRemoved(checked))

-----------------------------------------------------------------------------
(* Snapshots, backfill, persistence and reset.                             *)

(* itemsPersisted                                                          *)
ItemsPersistedUnderflow(m) ==
    [m EXCEPT !.pre = m.list[m.cursors[Persistence].chk].id - 1]

ItemsPersistedNever(m) == m

ItemsPersisted(m) ==
    LET id == m.list[m.cursors[Persistence].chk].id
    IN [m EXCEPT !.pre = IF id > 0 THEN id - 1 ELSE 0]

(* resetCursors(bool): every cursor, or every one but persistence, to the  *)
(* beginning of the first checkpoint.                                      *)
ResetCursorsKeepOffset(m, resetPersistenceCursor) ==
    LET S == DOMAIN m.cursors \ (IF resetPersistenceCursor THEN {} ELSE {Persistence})
    IN [m EXCEPT !.cursors = [n \in DOMAIN @ |->
                                IF n \in S THEN Registered(1, 1, @[n].offset) ELSE @[n]],
                 !.list[1].names = @ \cup S]

ResetCursors(m, resetPersistenceCursor) ==
    LET S == DOMAIN m.cursors \ (IF resetPersistenceCursor THEN {} ELSE {Persistence})
        id == m.list[1].id
    IN [m EXCEPT !.cursors = [n \in DOMAIN @ |->
                                IF n \in S THEN Registered(1, 1, 0) ELSE @[n]],
                 !.list[1].names = @ \cup S,
                 !.pre = IF ~ resetPersistenceCursor THEN @
                         ELSE IF id > 0 THEN id - 1 ELSE 0]

(* clear_UNLOCKED                                                          *)
ClearKeepsCursors(m, isActive, seqno) ==
    [m EXCEPT !.list = << NewCheckpoint(IF isActive THEN 1 ELSE 0, seqno, seqno, seqno) >>,
              !.numItems = 1, !.lastBySeqno = seqno, !.pre = 0]

Clear(m, isActive, seqno) ==
    LET id == IF isActive THEN 1 ELSE 0
        fresh == [m EXCEPT !.list = << NewCheckpoint(id, seqno, seqno, seqno) >>,
                           !.numItems = 1, !.lastBySeqno = seqno, !.pre = 0]
    IN ResetCursors(fresh, TRUE)

(* setBackfillPhase                                                        *)
SetSnapshotRange(m, start, end) ==
    SetBack(m, [Back(m) EXCEPT !.snapStart = start, !.snapEnd = end])

SetBackfillPhase(m, start, end) ==
    SetSnapshotRange(SetOpenCheckpointId(m, 0), start, end)

(* createSnapshot                                                          *)
CreateSnapshot(m, start, end) ==
    LET c == Back(m)
    IN IF c.state = "open" /\ NumItems(c) = 0
       THEN SetSnapshotRange(IF c.id = 0
                             THEN ResetCursors(SetOpenCheckpointId(m, 1), FALSE)
                             ELSE m,
                             start, end)
       ELSE AddNewCheckpointWithSnapshot(m, c.id + 1, start, end)

(* updateCurrentSnapshotEnd                                                *)
UpdateCurrentSnapshotEnd(m, end) == SetBack(m, [Back(m) EXCEPT !.snapEnd = end])

(* resetSnapshotRange                                                      *)
ResetSnapshotRange(m) ==
    IF Back(m).state = "open" /\ NumItems(Back(m)) = 0
    THEN SetSnapshotRange(m, m.lastBySeqno + 1, m.lastBySeqno + 1)
    ELSE UpdateCurrentSnapshotEnd(m, m.lastBySeqno)

(* getSnapshotInfo                                                         *)
GetSnapshotInfo(m) ==
    LET c == Back(m)
        inside == ~ (NumItems(c) = 0 /\ m.lastBySeqno < c.snapStart)
    IN [start |-> m.lastBySeqno,
        rangeStart |-> IF inside THEN c.snapStart ELSE m.lastBySeqno,
        rangeEnd |-> IF inside THEN c.snapEnd ELSE m.lastBySeqno]

(* checkAndAddNewCheckpoint for an id above every checkpoint's, the only   *)
(* ids DCP passes; lower ids collapse the list and come from TAP.          *)
CheckAndAddNewCheckpoint(m, id) ==
    LET c == Back(m)
        here == c.names \ {Persistence}
    IN IF id = 0 THEN m
       ELSE IF c.id = 0 THEN ResetCursors(SetOpenCheckpointId(m, id), FALSE)
       ELSE IF c.state = "open" /\ NumItems(c) = 0
       THEN [SetOpenCheckpointId(m, id)
               EXCEPT !.cursors = [n \in DOMAIN @ |-> IF n \in here
                                     THEN [@[n] EXCEPT !.pos = 1] ELSE @[n]]]
       ELSE AddNewCheckpoint(m, id)

(* createNewCheckpoint                                                     *)
CreateNewCheckpoint(m) ==
    IF NumItems(Back(m)) > 0 THEN AddNewCheckpoint(m, Back(m).id + 1) ELSE m

(* resetVBucket: a new vbucket in the same state takes over the cursors.   *)
(* setVBucketState gives an active vbucket checkpoint id 2, others id 0.   *)
FreshVBucket(isActive) ==
    SetOpenCheckpointId(NewManager(1, 0, 0, 0), IF isActive THEN 2 ELSE 0)

-----------------------------------------------------------------------------
(* getNumItemsForCursor_UNLOCKED, and the meta items it discounts          *)
(* (getNumOfMetaItemsFromCursor): of the cursor's own checkpoint those     *)
(* after its position, of the later ones all.                              *)
MetaItemsAhead(m, cur) ==
    {p \in (DOMAIN m.list) \X {"start", "end"} :
       LET c == m.list[p[1]]
       IN /\ p[1] >= cur.chk
          /\ p[2] = "end" => c.state = "closed"
          /\ p[1] = cur.chk =>
               /\ cur.pos < Len(c.toWrite)
               /\ p[2] = "start" => c.toWrite[cur.pos + 1].op = "start"}

GetNumItemsForCursor(m, n) ==
    LET passed == m.cursors[n].offset + Cardinality(MetaItemsAhead(m, m.cursors[n]))
    IN IF m.numItems > passed THEN m.numItems - passed ELSE 0

=============================================================================
