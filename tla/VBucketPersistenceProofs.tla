---------------------- MODULE VBucketPersistenceProofs ----------------------
(* What VBucketPersistence promises for any number of seqnos and failover  *)
(* tables: type correctness of everything the code does, and, as long as   *)
(* every batch has a mutation, that no acknowledged seqno can be lost.     *)
EXTENDS VBucketPersistence, TLAPS

-----------------------------------------------------------------------------
(* The operators on checkpoints and state documents keep their types.      *)

ChkType == [start : Bound, end : Bound, items : BOOLEAN, here : BOOLEAN,
            before : Bound, seen : Seqno, meta : BOOLEAN]

VBType == [state : States, failovers : 0..MaxTables, high : Seqno]

(* Seqnos, and the seqno after the last one, are within the bound of the snapshot
   ranges. *)
LEMMA SeqnoInBound == Seqno \subseteq Bound /\ (\A s \in Seqno : s + 1 \in Bound) /\ 0 \in Bound
  BY PersistenceBounds DEF Seqno, Bound

(* createSnapshot, addNewCheckpoint and resetSnapshotRange keep the type of the open
   checkpoint and of the position of the persistence cursor. *)
LEMMA CheckpointTypes ==
    ASSUME NEW c \in ChkType, NEW high \in Seqno, NEW start \in Bound, NEW end \in Bound
    PROVE  /\ CursorStart(c) \in Bound
           /\ AddCheckpoint(c, high, start, end) \in ChkType
           /\ CreateSnapshot(c, high, start, end) \in ChkType
           /\ ResetSnapshotRange(c, high) \in ChkType
  <1>1. CursorStart(c) \in Bound
    BY DEF CursorStart, ChkType
  <1>2. CursorAtEnd(c, high) \in BOOLEAN
    BY DEF CursorAtEnd, ChkType
  <1>3. AddCheckpoint(c, high, start, end) \in ChkType
    <2> DEFINE b == IF CursorAtEnd(c, high) THEN 0 ELSE CursorStart(c)
               h == CursorAtEnd(c, high)
    <2>1. b \in Bound
      BY <1>1, SeqnoInBound
    <2>2. AddCheckpoint(c, high, start, end)
             = [c EXCEPT !.start = start, !.end = end, !.items = FALSE, !.meta = TRUE,
                         !.here = h, !.before = b]
      BY DEF AddCheckpoint
    <2> HIDE DEF b, h
    <2>3. h \in BOOLEAN
      BY <1>2 DEF h
    <2> QED
      BY <2>1, <2>2, <2>3, Zenon DEF ChkType
  <1>4. CreateSnapshot(c, high, start, end) \in ChkType
    BY <1>3 DEF CreateSnapshot, ChkType
  <1>5. ResetSnapshotRange(c, high) \in ChkType
    BY SeqnoInBound DEF ResetSnapshotRange, ChkType
  <1> QED
    BY <1>1, <1>3, <1>4, <1>5

(* A state document read from a well-typed vbucket is well typed, and so   *)
(* is what is saved of it.                                                 *)
LEMMA StateTypes ==
    ASSUME NEW v \in VBType, NEW range \in SnapshotRange,
           NEW s \in VBState, NEW d \in VBState, NEW max \in Seqno
    PROVE  /\ StateOf(v, range) \in VBState
           /\ SaveVBState(d, s) \in VBState
           /\ SaveDocs(s, max) \in VBState
  BY DEF StateOf, SaveVBState, SaveDocs, VBState, VBType

(* Taking the type of every variable apart, with the records named.        *)
LEMMA TypeParts ==
    ASSUME ProgramTypeOK
    PROVE  /\ vb \in VBType /\ chk \in ChkType
           /\ vb.state \in States /\ vb.failovers \in 0..MaxTables /\ vb.high \in Seqno
           /\ flush.pc \in {"idle", "drained", "ready", "committed"}
           /\ flush.max \in Seqno /\ flush.range \in SnapshotRange
           /\ persisted.seqno \in Seqno /\ persisted.range \in SnapshotRange
           /\ chk.start \in Bound /\ chk.end \in Bound
           /\ disk.state \in States /\ disk.failovers \in 0..MaxTables
           /\ disk.high \in Seqno /\ disk.range \in SnapshotRange
           /\ cached.high \in Seqno
           /\ disk \in VBState /\ cached \in VBState
  BY DEF ProgramTypeOK, VBType, ChkType, VBState

-----------------------------------------------------------------------------
(* Type correctness, one lemma per group of actions.                       *)

LEMMA WritesType == ProgramTypeOK /\ (Writes \/ Checkpoints) => ProgramTypeOK'
  <1> SUFFICES ASSUME ProgramTypeOK, Writes \/ Checkpoints PROVE ProgramTypeOK'
    OBVIOUS
  <1>p. vb \in VBType /\ chk \in ChkType /\ vb.high \in Seqno
    BY TypeParts
  <1>1. CASE FrontEndWrite
    <2>1. vb.high + 1 \in Seqno
      BY <1>1, <1>p, PersistenceBounds DEF FrontEndWrite, Seqno
    <2>2. vb' \in VBType
      BY <1>1, <1>p, <2>1 DEF FrontEndWrite, VBType
    <2>3. chk' \in ChkType
      BY <1>1, <1>p, <2>1, SeqnoInBound, Zenon DEF FrontEndWrite, ChkType
    <2> QED
      BY <1>1, <2>2, <2>3 DEF FrontEndWrite, ProgramTypeOK, VBType, ChkType
  <1>2. ASSUME NEW seqno \in 1..MaxSeqno, StreamMutation(seqno) PROVE ProgramTypeOK'
    <2>1. vb' \in VBType
      BY <1>2, <1>p DEF StreamMutation, VBType, Seqno
    <2>2. chk' \in ChkType
      BY <1>2, <1>p, Zenon DEF StreamMutation, ChkType
    <2> QED
      BY <1>2, <2>1, <2>2 DEF StreamMutation, ProgramTypeOK, VBType, ChkType
  <1>3. CASE OpenCheckpoint
    <2>1. chk' \in ChkType
      BY <1>3, <1>p, CheckpointTypes, SeqnoInBound DEF OpenCheckpoint
    <2> QED
      BY <1>3, <2>1 DEF OpenCheckpoint, ProgramTypeOK, ChkType
  <1>4. ASSUME NEW end \in 1..MaxSeqno, NEW f \in BOOLEAN, SnapshotMarker(end, f)
        PROVE  ProgramTypeOK'
    <2>a. end \in Bound
      BY PersistenceBounds DEF Bound
    <2>1. end \in Bound /\ vb.high + 1 \in Bound
      BY <1>p, <2>a, SeqnoInBound
    <2>2. CreateSnapshot(chk, vb.high, vb.high + 1, end) \in ChkType
      BY <1>p, <2>1, CheckpointTypes
    <2>3. [chk EXCEPT !.end = end] \in ChkType
      BY <1>p, <2>1, Zenon DEF ChkType
    <2>4. chk' \in ChkType
      BY <1>4, <2>2, <2>3 DEF SnapshotMarker
    <2> QED
      BY <1>4, <2>4 DEF SnapshotMarker, ProgramTypeOK, ChkType
  <1> QED
    BY <1>1, <1>2, <1>3, <1>4 DEF Writes, Checkpoints

(* notifyOnPersistence keeps the type of the waiting and acknowledged seqnos. *)
LEMMA NotifyType ==
    ASSUME ProgramTypeOK, NEW s \in Seqno, NotifyOnPersistence(s)
    PROVE  waiting' \in Seqno /\ acked' \in Seqno
  BY PersistenceBounds DEF ProgramTypeOK, NotifyOnPersistence, Seqno

(* Every step of flushVBucket, a failed commit included, keeps the type invariant. *)
LEMMA FlusherType == ProgramTypeOK /\ (FlushDrain \/ FlusherAfterDrain \/ FlushCommitFails) => ProgramTypeOK'
  <1> SUFFICES ASSUME ProgramTypeOK, FlushDrain \/ FlusherAfterDrain \/ FlushCommitFails
               PROVE  ProgramTypeOK'
    OBVIOUS
  <1> DEFINE FlushType == [pc : {"idle", "drained", "ready", "committed"},
                           max : Seqno, range : SnapshotRange]
  <1>p. /\ vb \in VBType /\ chk \in ChkType /\ vb.high \in Seqno /\ chk.end \in Bound
        /\ flush \in FlushType /\ flush.max \in Seqno /\ flush.range \in SnapshotRange
        /\ cached \in VBState /\ disk \in VBState /\ cached.high \in Seqno
        /\ persisted.seqno \in Seqno
    BY TypeParts DEF ProgramTypeOK
  <1>1. CASE FlushDrain
    <2> DEFINE m == IF disk.high < vb.high THEN vb.high ELSE 0
               r == [start |-> CursorStart(chk), end |-> chk.end]
    <2>1. m \in Seqno
      BY <1>p, PersistenceBounds DEF Seqno
    <2>2. r \in SnapshotRange
      BY <1>p, CheckpointTypes, SeqnoInBound DEF SnapshotRange
    <2>3. flush' = [pc |-> "drained", max |-> m, range |-> r]
      BY <1>1 DEF FlushDrain, ReadAll
    <2> HIDE DEF m, r
    <2>4. flush' \in FlushType
      BY <2>1, <2>2, <2>3
    <2>5. chk' \in ChkType
      BY <1>1, <1>p, SeqnoInBound, Zenon DEF FlushDrain, ReadAll, ChkType
    <2> QED
      BY <1>1, <2>4, <2>5 DEF FlushDrain, ReadAll, ProgramTypeOK, ChkType
  <1>2. CASE FlushState
    <2> DEFINE r == IF vb.state = "active" /\ flush.max > 0
                    THEN [start |-> flush.max, end |-> flush.max]
                    ELSE flush.range
    <2>1. r \in SnapshotRange
      BY <1>p, SeqnoInBound DEF SnapshotRange
    <2>2. flush' = [flush EXCEPT !.pc = "ready", !.range = r] /\ cached' = StateOf(vb, r)
      BY <1>2 DEF FlushState
    <2> HIDE DEF r
    <2>3. flush' \in FlushType /\ cached' \in VBState
      BY <1>p, <2>1, <2>2, StateTypes
    <2> QED
      BY <1>2, <2>3 DEF FlushState, ProgramTypeOK
  <1>3. CASE FlushCommit
    <2>1. flush' \in FlushType
      BY <1>3, <1>p DEF FlushCommit
    <2>2. [cached EXCEPT !.high = flush.max] \in VBState
      BY <1>p DEF VBState
    <2>3. SaveDocs(cached, flush.max) \in VBState
      BY <1>p DEF SaveDocs, VBState
    <2>4. disk' \in VBState /\ cached' \in VBState
      BY <1>3, <1>p, <2>2, <2>3 DEF FlushCommit
    <2> QED
      BY <1>3, <2>1, <2>4 DEF FlushCommit, ProgramTypeOK
  <1>4. CASE FlushFinish
    <2>1. flush' \in FlushType
      BY <1>4, <1>p DEF FlushFinish
    <2>2. LastPersistedSeqno(cached, persisted.seqno) \in Seqno
      BY <1>p DEF LastPersistedSeqno
    <2>3. /\ persisted' \in [seqno : Seqno, range : SnapshotRange]
          /\ persisted'.seqno \in Seqno
      BY <1>4, <1>p, <2>2 DEF FlushFinish
    <2>4. waiting' \in Seqno /\ acked' \in Seqno
      BY <1>4, <2>3, NotifyType DEF FlushFinish
    <2> QED
      BY <1>4, <2>1, <2>3, <2>4 DEF FlushFinish, ProgramTypeOK
  <1>5. CASE FlushRetry
    <2>1. flush' \in FlushType
      BY <1>5, <1>p DEF FlushRetry
    <2> QED
      BY <1>5, <2>1 DEF FlushRetry, ProgramTypeOK
  <1>6. CASE FlushNothing
    <2>1. waiting' \in Seqno /\ acked' \in Seqno
      BY <1>6, <1>p, NotifyType DEF FlushNothing
    <2> QED
      BY <1>6, <2>1 DEF FlushNothing, ProgramTypeOK
  <1>7. CASE FlushCommitFails
    <2>1. flush' \in FlushType
      BY <1>7, <1>p DEF FlushCommitFails
    <2>2. rejected' \in BOOLEAN
      BY <1>7, Zenon DEF FlushCommitFails
    <2> QED
      BY <1>7, <2>1, <2>2 DEF FlushCommitFails, ProgramTypeOK
  <1> QED
    BY <1>1, <1>2, <1>3, <1>4, <1>5, <1>6, <1>7 DEF FlusherAfterDrain

(* CouchKVStore::snapshotVBucket leaves vbstate documents in the cache and in the
   file, whether or not the write succeeds. *)
LEMMA SnapshotVBucketType ==
    ASSUME ProgramTypeOK, NEW new \in VBState,
           SnapshotVBucket(new) \/ SnapshotVBucketFails(new)
    PROVE  cached' \in VBState /\ disk' \in VBState
  BY TypeParts, StateTypes DEF SnapshotVBucket, SnapshotVBucketFails, SaveVBState, VBState

(* The two tasks that persist vbucket state keep the type invariant. *)
LEMMA TasksType ==
    ProgramTypeOK /\ (StateTasks \/ SnapshotWrite \/ SnapshotSkip \/ PersistVBStateFails \/ SnapshotWriteFails)
      => ProgramTypeOK'
  <1> SUFFICES ASSUME ProgramTypeOK,
                      StateTasks \/ SnapshotWrite \/ SnapshotSkip \/ PersistVBStateFails \/ SnapshotWriteFails
               PROVE  ProgramTypeOK'
    OBVIOUS
  <1>p. StateOf(vb, persisted.range) \in VBState
    BY TypeParts, StateTypes
  <1>1. CASE PersistVBState
    <2>1. cached' \in VBState /\ disk' \in VBState
      BY <1>1, <1>p, SnapshotVBucketType DEF PersistVBState
    <2>2. persistTask' \in BOOLEAN
      BY <1>1, Zenon DEF PersistVBState
    <2> QED
      BY <1>1, <2>1, <2>2 DEF PersistVBState, ProgramTypeOK
  <1>2. CASE PersistVBStateFails
    <2>1. cached' \in VBState /\ disk' \in VBState
      BY <1>2, <1>p, SnapshotVBucketType DEF PersistVBStateFails
    <2> QED
      BY <1>2, <2>1 DEF PersistVBStateFails, ProgramTypeOK
  <1>3. CASE SnapshotRead
    <2>1. snapTask' \in BOOLEAN
      BY <1>3, Zenon DEF SnapshotRead
    <2>2. captured' \in VBState
      BY <1>3, <1>p DEF SnapshotRead
    <2> QED
      BY <1>3, <2>1, <2>2 DEF SnapshotRead, ProgramTypeOK
  <1>4. CASE SnapshotWrite
    <2>0. captured \in VBState
      BY <1>4 DEF SnapshotWrite, ProgramTypeOK
    <2>1. cached' \in VBState /\ disk' \in VBState
      BY <1>4, <2>0, SnapshotVBucketType DEF SnapshotWrite
    <2> QED
      BY <1>4, <2>1 DEF SnapshotWrite, ProgramTypeOK
  <1>5. CASE SnapshotWriteFails
    <2>0. captured \in VBState
      BY <1>5 DEF SnapshotWriteFails, ProgramTypeOK
    <2>1. cached' \in VBState /\ disk' \in VBState
      BY <1>5, <2>0, SnapshotVBucketType DEF SnapshotWriteFails
    <2>2. snapTask' \in BOOLEAN
      BY <1>5, Zenon DEF SnapshotWriteFails
    <2> QED
      BY <1>5, <2>1, <2>2 DEF SnapshotWriteFails, ProgramTypeOK
  <1>6. CASE SnapshotSkip
    BY <1>6 DEF SnapshotSkip, ProgramTypeOK
  <1> QED
    BY <1>1, <1>2, <1>3, <1>4, <1>5, <1>6 DEF StateTasks

(* setVBucketState, replaceFailoverLog, a restart and a seqno-persistence request
   keep the type invariant. *)
LEMMA ChangesType == ProgramTypeOK /\ (StateChanges \/ Restart \/ Clients) => ProgramTypeOK'
  <1> SUFFICES ASSUME ProgramTypeOK, StateChanges \/ Restart \/ Clients PROVE ProgramTypeOK'
    OBVIOUS
  <1>p. /\ vb \in VBType /\ chk \in ChkType /\ vb.high \in Seqno
        /\ tables \in 0..MaxTables
        /\ disk.state \in States /\ disk.failovers \in 0..MaxTables
        /\ disk.high \in Seqno /\ disk.range \in SnapshotRange /\ disk \in VBState
    BY TypeParts DEF ProgramTypeOK
  <1>s. "active" \in States /\ "replica" \in States
    BY DEF States
  <1>t. ASSUME tables < MaxTables PROVE tables + 1 \in 0..MaxTables
    BY <1>t, <1>p, PersistenceBounds
  <1>1. CASE Promote
    <2>1. tables + 1 \in 0..MaxTables
      BY <1>1, <1>t DEF Promote
    <2>2. vb' \in VBType /\ tables' \in 0..MaxTables
      BY <1>1, <1>p, <1>s, <2>1 DEF Promote, VBType
    <2>3. chk' \in ChkType
      BY <1>1, <1>p, CheckpointTypes, SeqnoInBound DEF Promote
    <2>4. persistTask' \in BOOLEAN
      BY <1>1, Zenon DEF Promote
    <2> QED
      BY <1>1, <2>2, <2>3, <2>4 DEF Promote, ProgramTypeOK, VBType, ChkType
  <1>2. CASE Demote
    <2>1. vb' \in VBType
      BY <1>2, <1>p, <1>s DEF Demote, VBType
    <2>2. persistTask' \in BOOLEAN
      BY <1>2, Zenon DEF Demote
    <2> QED
      BY <1>2, <2>1, <2>2 DEF Demote, ProgramTypeOK, VBType
  <1>3. CASE ReplaceFailoverLog
    <2>1. tables + 1 \in 0..MaxTables
      BY <1>3, <1>t DEF ReplaceFailoverLog
    <2>2. vb' \in VBType /\ tables' \in 0..MaxTables
      BY <1>3, <1>p, <2>1 DEF ReplaceFailoverLog, VBType
    <2>3. snapTask' \in BOOLEAN
      BY <1>3, Zenon DEF ReplaceFailoverLog
    <2> QED
      BY <1>3, <2>2, <2>3 DEF ReplaceFailoverLog, ProgramTypeOK, VBType
  <1>4. CASE Restart
    <2> DEFINE f == IF disk.state = "active" THEN tables + 1 ELSE disk.failovers
    <2>1. f \in 0..MaxTables
      BY <1>4, <1>p, <1>t DEF Restart
    <2>2. /\ vb' = [state |-> disk.state, failovers |-> f, high |-> disk.high]
          /\ tables' = IF disk.state = "active" THEN f ELSE tables
      BY <1>4 DEF Restart
    <2> HIDE DEF f
    <2>3. vb' \in VBType /\ tables' \in 0..MaxTables
      BY <1>p, <2>1, <2>2 DEF VBType
    <2>4. disk.range.start \in Bound /\ disk.range.end \in Bound
      BY <1>p DEF SnapshotRange
    <2>5. NewCheckpoints(disk.high, disk.range) \in ChkType
      BY <1>p, <2>4, SeqnoInBound, Zenon DEF NewCheckpoints, ChkType
    <2>6. chk' \in ChkType
      BY <1>4, <2>5 DEF Restart
    <2>7. 0 \in Seqno
      BY PersistenceBounds DEF Seqno
    <2>8. /\ flush' \in [pc : {"idle", "drained", "ready", "committed"},
                         max : Seqno, range : SnapshotRange]
          /\ persisted' \in [seqno : Seqno, range : SnapshotRange]
          /\ cached' \in VBState /\ disk' \in VBState
          /\ waiting' \in Seqno /\ acked' \in Seqno
          /\ captured' \in VBState \cup {NoState}
      BY <1>4, <1>p, <2>7 DEF Restart, ProgramTypeOK
    <2>9. rejected' \in BOOLEAN /\ persistTask' \in BOOLEAN /\ snapTask' \in BOOLEAN
      BY <1>4, Zenon DEF Restart
    <2> QED
      BY <2>3, <2>6, <2>8, <2>9 DEF ProgramTypeOK, VBType, ChkType
  <1>5. ASSUME NEW seqno \in 1..MaxSeqno, SeqnoPersistence(seqno) PROVE ProgramTypeOK'
    <2>1. waiting' \in Seqno /\ acked' \in Seqno
      BY <1>5 DEF SeqnoPersistence, ProgramTypeOK, Seqno
    <2> QED
      BY <1>5, <2>1 DEF SeqnoPersistence, ProgramTypeOK
  <1> QED
    BY <1>1, <1>2, <1>3, <1>4, <1>5 DEF StateChanges, Clients

(* A new vbucket satisfies the type invariant. *)
LEMMA InitType == Init => ProgramTypeOK
  <1> SUFFICES ASSUME Init PROVE ProgramTypeOK
    OBVIOUS
  <1>1. 0 \in Seqno /\ 0 \in Bound /\ 0 \in 0..MaxTables
    BY PersistenceBounds DEF Seqno, Bound
  <1>2. vb \in VBType /\ Zero \in SnapshotRange
    BY <1>1 DEF Init, VBType, Zero, SnapshotRange
  <1>3. StateOf(vb, Zero) \in VBState
    BY <1>2 DEF StateOf, VBState, VBType
  <1>4. NewCheckpoints(0, Zero) \in ChkType
    BY <1>1, Zenon DEF NewCheckpoints, Zero, ChkType
  <1>5. /\ flush \in [pc : {"idle", "drained", "ready", "committed"},
                      max : Seqno, range : SnapshotRange]
        /\ persisted \in [seqno : Seqno, range : SnapshotRange]
        /\ tables \in 0..MaxTables /\ waiting \in Seqno /\ acked \in Seqno
        /\ captured \in VBState \cup {NoState}
        /\ cached \in VBState /\ disk \in VBState /\ chk \in ChkType
    BY <1>1, <1>2, <1>3, <1>4 DEF Init
  <1>6. rejected \in BOOLEAN /\ persistTask \in BOOLEAN /\ snapTask \in BOOLEAN
    BY Zenon DEF Init
  <1> QED
    BY <1>2, <1>5, <1>6 DEF ProgramTypeOK, VBType, ChkType

(* Every step keeps the type of the program's state. *)
LEMMA NextType == ProgramTypeOK /\ [Next]_vars => ProgramTypeOK'
  <1> SUFFICES ASSUME ProgramTypeOK, [Next]_vars PROVE ProgramTypeOK'
    OBVIOUS
  <1>1. CASE UNCHANGED vars
    BY <1>1 DEF vars, pvars, ProgramTypeOK
  <1>2. CASE SnapshotWrite \/ SnapshotSkip \/ SnapshotWriteFails \/ PersistVBStateFails
    BY <1>2, TasksType
  <1> QED
    BY <1>1, <1>2, WritesType, FlusherType, TasksType, ChangesType
       DEF Next, StateLapse, SnapshotWriteInTime

(* Whatever front end, streams, flusher, state tasks, failing writes and   *)
(* restarts do, the vbucket, its cached state and its file keep their      *)
(* types; in particular every range stays within one of the high seqno.    *)
THEOREM PersistenceTypeOK == Spec => []TypeOK
  <1>1. Init => TypeOK
    <2>1. ASSUME Init PROVE metaBatch \in BOOLEAN /\ stateLapse \in BOOLEAN
      BY <2>1, Zenon DEF Init
    <2> QED
      BY <2>1, InitType DEF TypeOK
  <1>2. TypeOK /\ [Next]_vars => TypeOK'
    <2>1. ASSUME TypeOK, [Next]_vars PROVE metaBatch' \in BOOLEAN /\ stateLapse' \in BOOLEAN
      BY <2>1, Zenon DEF TypeOK, Next, NoteBatch, vars
    <2> QED
      BY <2>1, NextType DEF TypeOK
  <1> QED
    BY <1>1, <1>2, PTL DEF Spec

-----------------------------------------------------------------------------
(* Acknowledged seqnos.                                                    *)

(* What makes AckedDurable inductive: the persisted seqno clients are      *)
(* compared with is in the file, because a batch always has a mutation and *)
(* a commit that succeeded has left its seqno in the cached state, which   *)
(* nobody else writes while the flusher holds the vbucket's mutex.         *)
AckInv ==
    /\ disk.high <= vb.high
    /\ persisted.seqno <= disk.high
    /\ acked <= disk.high
    /\ flush.pc # "idle" =>
         /\ flush.max > 0 /\ flush.max <= vb.high /\ disk.high <= flush.max
    /\ flush.pc = "committed" /\ ~rejected => cached.high = disk.high

(* Truncating a persisted seqno to the width of the variable it is stored in never
   raises it. *)
LEMMA ModuloBelow ==
    ASSUME NEW n \in Nat, NEW m \in Nat \ {0}
    PROVE  n % m <= n
  OBVIOUS

(* Every step after which the flusher has still drained no batch without mutations
   keeps the acknowledgement invariant. *)
LEMMA AckStep == ProgramTypeOK /\ AckInv /\ [Next]_vars /\ ~metaBatch' => AckInv'
  <1> SUFFICES ASSUME ProgramTypeOK, AckInv, [Next]_vars, ~metaBatch' PROVE AckInv'
    OBVIOUS
  <1>n. /\ vb.high \in Nat /\ disk.high \in Nat /\ persisted.seqno \in Nat
        /\ cached.high \in Nat /\ flush.max \in Nat /\ acked \in Nat /\ waiting \in Nat
        /\ MaxSeqno \in Nat
    BY TypeParts, PersistenceBounds DEF ProgramTypeOK, Seqno
  <1>t. /\ vb \in VBType /\ cached \in VBState /\ disk \in VBState
        /\ flush \in [pc : {"idle", "drained", "ready", "committed"},
                      max : Seqno, range : SnapshotRange]
    BY TypeParts DEF ProgramTypeOK
  <1>1. CASE UNCHANGED vars
    BY <1>1 DEF vars, pvars, AckInv
  <1>2. CASE FrontEndWrite
    BY <1>2, <1>n, <1>t DEF FrontEndWrite, AckInv, VBType
  <1>3. ASSUME NEW seqno \in 1..MaxSeqno, StreamMutation(seqno) PROVE AckInv'
    BY <1>3, <1>n, <1>t DEF StreamMutation, AckInv, VBType
  <1>4. CASE OpenCheckpoint
    BY <1>4 DEF OpenCheckpoint, AckInv
  <1>5. ASSUME NEW end \in 1..MaxSeqno, NEW f \in BOOLEAN, SnapshotMarker(end, f)
        PROVE  AckInv'
    BY <1>5 DEF SnapshotMarker, AckInv
  <1>6. ASSUME FlushDrain, NoteBatch PROVE AckInv'
    <2>1. /\ flush'.pc = "drained"
          /\ flush'.max = IF disk.high < vb.high THEN vb.high ELSE 0
      BY <1>6 DEF FlushDrain
    <2>2. flush'.max # 0
      BY <1>6, <2>1 DEF NoteBatch
    <2> QED
      BY <1>6, <1>n, <2>1, <2>2 DEF FlushDrain, AckInv
  <1>7. CASE FlushState
    <2>1. flush'.pc = "ready" /\ flush'.max = flush.max
      BY <1>7, <1>t DEF FlushState
    <2> QED
      BY <1>7, <1>n, <2>1 DEF FlushState, AckInv
  <1>8. CASE FlushCommit
    <2>1. flush'.pc = "committed" /\ flush'.max = flush.max
      BY <1>8, <1>t DEF FlushCommit
    <2>2. flush.max > 0
      BY <1>8 DEF AckInv, FlushCommit
    <2>3. disk'.high = flush.max /\ cached'.high = flush.max
      BY <1>8, <1>n, <1>t, <2>2 DEF FlushCommit, SaveDocs, VBState
    <2> QED
      BY <1>8, <1>n, <2>1, <2>2, <2>3 DEF FlushCommit, AckInv
  <1>9. CASE FlushCommitFails
    <2>1. flush'.pc = "committed" /\ flush'.max = flush.max
      BY <1>9, <1>t DEF FlushCommitFails
    <2> QED
      BY <1>9, <1>n, <2>1 DEF FlushCommitFails, AckInv
  <1>10. CASE FlushFinish
    <2>1. flush'.pc = "idle" /\ cached.high = disk.high
      BY <1>10, <1>t DEF FlushFinish, AckInv
    <2>2. persisted'.seqno = LastPersistedSeqno(cached, persisted.seqno)
      BY <1>10 DEF FlushFinish
    <2>3. persisted'.seqno <= disk.high /\ persisted'.seqno \in Nat
      BY <1>n, <2>1, <2>2 DEF LastPersistedSeqno, AckInv
    <2>4. acked' <= disk.high
      BY <1>10, <1>n, <2>3 DEF FlushFinish, NotifyOnPersistence, AckInv
    <2> QED
      BY <1>10, <2>1, <2>3, <2>4 DEF FlushFinish, AckInv
  <1>11. CASE FlushRetry
    <2>1. flush'.pc = "idle"
      BY <1>11, <1>t DEF FlushRetry
    <2> QED
      BY <1>11, <2>1 DEF FlushRetry, AckInv
  <1>12. CASE FlushNothing
    <2>1. acked' <= disk.high
      BY <1>12, <1>n DEF FlushNothing, NotifyOnPersistence, AckInv
    <2> QED
      BY <1>12, <2>1 DEF FlushNothing, AckInv
  <1>13. ASSUME NEW new \in VBState, flush.pc = "idle", SnapshotVBucket(new) \/ SnapshotVBucketFails(new)
         PROVE  disk'.high = disk.high
    BY <1>13, <1>t DEF SnapshotVBucket, SnapshotVBucketFails, SaveVBState, VBState
  <1>14. CASE PersistVBState \/ PersistVBStateFails
    <2>1. StateOf(vb, persisted.range) \in VBState
      BY TypeParts, StateTypes
    <2>2. disk'.high = disk.high
      BY <1>14, <1>13, <2>1 DEF PersistVBState, PersistVBStateFails
    <2> QED
      BY <1>14, <2>2 DEF PersistVBState, PersistVBStateFails, AckInv
  <1>15. CASE SnapshotWrite \/ SnapshotWriteFails
    <2>1. captured \in VBState
      BY <1>15 DEF SnapshotWrite, SnapshotWriteFails, ProgramTypeOK
    <2>2. disk'.high = disk.high
      BY <1>15, <1>13, <2>1 DEF SnapshotWrite, SnapshotWriteFails
    <2> QED
      BY <1>15, <2>2 DEF SnapshotWrite, SnapshotWriteFails, AckInv
  <1>16. CASE SnapshotRead \/ SnapshotSkip
    BY <1>16 DEF SnapshotRead, SnapshotSkip, AckInv
  <1>17. CASE Promote
    <2>1. vb'.high = vb.high
      BY <1>17, <1>t DEF Promote, VBType
    <2> QED
      BY <1>17, <2>1 DEF Promote, AckInv
  <1>18. CASE Demote
    <2>1. vb'.high = vb.high
      BY <1>18, <1>t DEF Demote, VBType
    <2> QED
      BY <1>18, <2>1 DEF Demote, AckInv
  <1>19. CASE ReplaceFailoverLog
    <2>1. vb'.high = vb.high
      BY <1>19, <1>t DEF ReplaceFailoverLog, VBType
    <2> QED
      BY <1>19, <2>1 DEF ReplaceFailoverLog, AckInv
  <1>20. CASE Restart
    <2>1. /\ vb'.high = disk.high /\ persisted'.seqno = disk.high
          /\ flush'.pc = "idle" /\ UNCHANGED << disk, acked >>
      BY <1>20 DEF Restart
    <2> QED
      BY <1>n, <2>1 DEF AckInv
  <1>21. ASSUME NEW seqno \in 1..MaxSeqno, SeqnoPersistence(seqno) PROVE AckInv'
    <2>1. persisted.seqno % SeqnoModulus <= persisted.seqno
      BY <1>n, ModuloBelow, PersistenceBounds
    <2>2. persisted.seqno % SeqnoModulus \in Int
      BY <1>n, PersistenceBounds
    <2>3. acked' <= disk.high
      BY <1>21, <1>n, <2>1, <2>2 DEF SeqnoPersistence, AckInv
    <2> QED
      BY <1>21, <2>3 DEF SeqnoPersistence, AckInv
  <1> QED
    BY <1>1, <1>2, <1>3, <1>4, <1>5, <1>6, <1>7, <1>8, <1>9, <1>10, <1>11, <1>12, <1>14,
       <1>15, <1>16, <1>17, <1>18, <1>19, <1>20, <1>21
       DEF Next, Writes, Checkpoints, StateChanges, Clients, FlusherAfterDrain,
           StateTasks, SnapshotWriteInTime, StateLapse

(* A batch without mutations is never forgotten. *)
LEMMA MetaBatchStays == [Next]_vars /\ ~metaBatch' => ~metaBatch
  BY Zenon DEF Next, NoteBatch, vars

(* No seqno that handleSeqnoCmds or notifyOnPersistence has acknowledged   *)
(* is missing from the file, for any number of seqnos, failing commits,    *)
(* restarts and concurrent writers of the state document, as long as the   *)
(* flusher's batches hold mutations.                                       *)
THEOREM AckedSeqnosAreDurable == Spec => []AckedDurable
  <1> DEFINE Inv == ProgramTypeOK /\ (~metaBatch => AckInv)
  <1>1. Init => Inv
    <2>1. ASSUME Init PROVE AckInv
      BY <2>1 DEF Init, AckInv, StateOf
    <2> QED
      BY <2>1, InitType
  <1>2. Inv /\ [Next]_vars => Inv'
    BY NextType, AckStep, MetaBatchStays
  <1>3. Inv => AckedDurable
    BY DEF AckInv, AckedDurable
  <1> QED
    BY <1>1, <1>2, <1>3, PTL DEF Spec

-----------------------------------------------------------------------------
(* The documents of the file.                                              *)

(* What makes DocumentsKept inductive, whatever is in the batches: a batch *)
(* with mutations reaches at least as far as the file, which never reaches *)
(* further than memory.                                                    *)
DocInv ==
    /\ disk.high <= vb.high
    /\ flush.pc # "idle" =>
         flush.max <= vb.high /\ (flush.max > 0 => disk.high <= flush.max)

(* A step leaves the documents of the file alone, or it is a commit with its batch. *)
LEMMA DiskSteps ==
    ASSUME ProgramTypeOK, [Next]_vars
    PROVE  \/ disk'.high = disk.high
           \/ FlushCommit /\ flush.max > 0 /\ disk'.high = flush.max
  <1>n. disk \in VBState /\ cached \in VBState /\ flush.max \in Nat
    BY TypeParts, PersistenceBounds DEF Seqno
  <1>1. CASE FlushCommit
    BY <1>1, <1>n, TypeParts DEF FlushCommit, SaveDocs, VBState
  <1>2. ASSUME NEW new, SnapshotVBucket(new), new \in VBState PROVE disk'.high = disk.high
    BY <1>2, <1>n DEF SnapshotVBucket, SaveVBState, VBState
  <1>3. CASE PersistVBState
    <2>1. StateOf(vb, persisted.range) \in VBState
      BY TypeParts, StateTypes
    <2> QED
      BY <1>2, <1>3, <2>1 DEF PersistVBState
  <1>4. CASE SnapshotWrite
    <2>1. captured \in VBState
      BY <1>4 DEF SnapshotWrite, ProgramTypeOK
    <2> QED
      BY <1>2, <1>4, <2>1 DEF SnapshotWrite
  <1>5. CASE disk' = disk
    BY <1>5
  <1> QED
    BY <1>1, <1>3, <1>4, <1>5
       DEF Next, Writes, Checkpoints, StateChanges, Clients, FlusherAfterDrain,
           StateTasks, SnapshotWriteInTime, StateLapse, FrontEndWrite, StreamMutation,
           OpenCheckpoint, SnapshotMarker, FlushDrain, FlushState, FlushCommitFails,
           FlushFinish, FlushRetry, FlushNothing, SnapshotRead, SnapshotSkip,
           PersistVBStateFails, SnapshotWriteFails, SnapshotVBucketFails, Promote, Demote,
           ReplaceFailoverLog, Restart, SeqnoPersistence, vars, pvars

(* A step lowers the high seqno of memory only when it restarts from the file. *)
LEMMA HighSteps ==
    ASSUME ProgramTypeOK, [Next]_vars
    PROVE  vb'.high >= vb.high \/ Restart
  <1>t. vb \in VBType /\ vb.high \in Nat
    BY TypeParts, PersistenceBounds DEF Seqno
  <1>1. CASE FrontEndWrite
    BY <1>1, <1>t DEF FrontEndWrite, VBType
  <1>2. ASSUME NEW seqno \in 1..MaxSeqno, StreamMutation(seqno) PROVE vb'.high >= vb.high
    BY <1>2, <1>t DEF StreamMutation, VBType
  <1>3. CASE StateChanges
    <2>1. vb'.high = vb.high
      BY <1>3, <1>t DEF StateChanges, Promote, Demote, ReplaceFailoverLog, VBType
    <2> QED
      BY <1>t, <2>1
  <1>4. CASE vb' = vb
    BY <1>4, <1>t
  <1> QED
    BY <1>1, <1>2, <1>3, <1>4
       DEF Next, Writes, Checkpoints, Clients, FlusherAfterDrain, StateTasks,
           SnapshotWriteInTime, StateLapse, OpenCheckpoint, SnapshotMarker, FlushDrain,
           FlushState, FlushCommit, FlushCommitFails, FlushFinish, FlushRetry, FlushNothing,
           PersistVBState, SnapshotRead, SnapshotWrite, SnapshotSkip,
           PersistVBStateFails, SnapshotWriteFails, SeqnoPersistence, vars, pvars

(* The batch in the flusher's hands is made by FlushDrain and keeps its last seqno until
   flushVBucket returns. *)
LEMMA BatchSteps ==
    ASSUME ProgramTypeOK, [Next]_vars, flush'.pc # "idle"
    PROVE  \/ FlushDrain
           \/ flush.pc # "idle" /\ flush'.max = flush.max /\ ~Restart
  <1>t. flush \in [pc : {"idle", "drained", "ready", "committed"},
                   max : Seqno, range : SnapshotRange]
    BY DEF ProgramTypeOK
  <1>1. CASE FlushState \/ FlushCommit \/ FlushCommitFails
    <2>1. flush.pc # "idle" /\ flush'.max = flush.max
      BY <1>1, <1>t DEF FlushState, FlushCommit, FlushCommitFails
    <2>2. ~Restart
      BY <1>1, <1>t DEF FlushState, FlushCommit, FlushCommitFails, Restart
    <2> QED
      BY <2>1, <2>2
  <1>2. CASE FlushFinish \/ FlushRetry \/ Restart
    BY <1>2, <1>t DEF FlushFinish, FlushRetry, Restart
  <1>3. CASE flush' = flush /\ ~Restart
    BY <1>3
  <1> QED
    BY <1>1, <1>2, <1>3
       DEF Next, Writes, Checkpoints, StateChanges, Clients, FlusherAfterDrain,
           StateTasks, SnapshotWriteInTime, StateLapse, FrontEndWrite, StreamMutation,
           OpenCheckpoint, SnapshotMarker, FlushNothing, PersistVBState, SnapshotRead,
           SnapshotWrite, SnapshotSkip, PersistVBStateFails, SnapshotWriteFails,
           Promote, Demote, ReplaceFailoverLog, SeqnoPersistence, vars, pvars

(* Every step keeps the invariant of the documents. *)
LEMMA DocStep == ProgramTypeOK /\ DocInv /\ [Next]_vars => DocInv'
  <1> SUFFICES ASSUME ProgramTypeOK, DocInv, [Next]_vars PROVE DocInv'
    OBVIOUS
  <1>n. vb.high \in Nat /\ disk.high \in Nat /\ flush.max \in Nat
    BY TypeParts, PersistenceBounds DEF Seqno
  <1>m. vb'.high \in Nat /\ disk'.high \in Nat /\ flush'.max \in Nat
    <2>1. ProgramTypeOK'
      BY NextType
    <2> QED
      BY <2>1, PersistenceBounds DEF ProgramTypeOK, VBState, Seqno
  <1>1. CASE Restart
    <2>1. vb'.high = disk.high /\ disk' = disk /\ flush'.pc = "idle"
      BY <1>1 DEF Restart
    <2> QED
      BY <1>n, <2>1 DEF DocInv
  <1>2. CASE ~Restart
    <2>1. vb'.high >= vb.high
      BY <1>2, HighSteps
    <2>2. CASE FlushCommit /\ flush.max > 0 /\ disk'.high = flush.max
      <3>1. flush.pc # "idle" /\ flush'.max = flush.max
        BY <2>2, TypeParts DEF FlushCommit, ProgramTypeOK
      <3> QED
        BY <1>n, <1>m, <2>1, <2>2, <3>1 DEF DocInv
    <2>3. CASE disk'.high = disk.high
      <3>1. disk'.high <= vb'.high
        BY <1>n, <1>m, <2>1, <2>3 DEF DocInv
      <3>2. ASSUME FlushDrain
            PROVE  flush'.max <= vb'.high /\ (flush'.max > 0 => disk'.high <= flush'.max)
        BY <1>n, <2>3, <3>2 DEF FlushDrain
      <3>3. ASSUME flush.pc # "idle", flush'.max = flush.max
            PROVE  flush'.max <= vb'.high /\ (flush'.max > 0 => disk'.high <= flush'.max)
        BY <1>n, <1>m, <2>1, <2>3, <3>3 DEF DocInv
      <3> QED
        BY <3>1, <3>2, <3>3, BatchSteps DEF DocInv
    <2> QED
      BY <2>2, <2>3, DiskSteps
  <1> QED
    BY <1>1, <1>2

(* No step lowers the last document of the file: neither a state document  *)
(* that is written late, nor a batch that was rejected and comes again,    *)
(* nor a batch without mutations.                                          *)
THEOREM DocumentsAreKept == Spec => DocumentsKept
  <1>1. Init => ProgramTypeOK /\ DocInv
    <2>1. ASSUME Init PROVE DocInv
      BY <2>1 DEF Init, DocInv, StateOf
    <2> QED
      BY <2>1, InitType
  <1>2. ProgramTypeOK /\ DocInv /\ [Next]_vars => (ProgramTypeOK /\ DocInv)'
    BY NextType, DocStep
  <1>3. ProgramTypeOK /\ DocInv /\ [Next]_vars => [disk'.high >= disk.high]_vars
    <2> SUFFICES ASSUME ProgramTypeOK, DocInv, [Next]_vars
                 PROVE  disk'.high >= disk.high
      OBVIOUS
    <2>n. disk.high \in Nat /\ flush.max \in Nat
      BY TypeParts, PersistenceBounds DEF Seqno
    <2>1. ASSUME FlushCommit, flush.max > 0 PROVE flush.max >= disk.high
      BY <2>1, <2>n DEF FlushCommit, DocInv
    <2> QED
      BY <2>n, <2>1, DiskSteps
  <1> QED
    BY <1>1, <1>2, <1>3, PTL DEF Spec, DocumentsKept

-----------------------------------------------------------------------------
(* The state document.                                                     *)

Agree(a, b) == a.state = b.state /\ a.failovers = b.failovers

(* What makes StateDurable inductive: while no task is scheduled the       *)
(* cached state is the vbucket's, and unless a batch is under way or was   *)
(* rejected the file agrees with the cached state, which is what           *)
(* needsToBePersisted relies on.                                           *)
StateInv ==
    /\ persistTask \/ snapTask \/ captured # NoState \/ Agree(cached, vb)
    /\ flush.pc \in {"idle", "committed"} /\ ~rejected => Agree(disk, cached)
    /\ flush.pc # "idle" => flush.max > 0

(* After snapshotVBucket succeeds the cache agrees with memory, and the file with the
   cache unless a commit was refused. *)
LEMMA SnapshotAgrees ==
    ASSUME ProgramTypeOK, StateInv, flush.pc = "idle",
           NEW new \in VBState, Agree(new, vb), SnapshotVBucket(new)
    PROVE  Agree(cached', vb) /\ (~rejected => Agree(disk', cached'))
  <1>1. Agree(cached', vb)
    BY DEF SnapshotVBucket, Agree
  <1>2. ASSUME ~rejected PROVE Agree(disk', cached')
    <2>1. Agree(disk, cached)
      BY <1>2 DEF StateInv
    <2>2. CASE NeedsToBePersisted(cached, new)
      BY <2>2 DEF SnapshotVBucket, SaveVBState, VBState, Agree
    <2>3. CASE ~NeedsToBePersisted(cached, new)
      BY <2>1, <2>3 DEF SnapshotVBucket, NeedsToBePersisted, Agree
    <2> QED
      BY <2>2, <2>3
  <1> QED
    BY <1>1, <1>2

(* Every step before the first lapse and the first batch without mutations keeps the
   invariant that relates memory, cache, file and scheduled tasks. *)
LEMMA StateStep ==
    ProgramTypeOK /\ StateInv /\ [Next]_vars /\ ~metaBatch' /\ ~stateLapse' => StateInv'
  <1> SUFFICES ASSUME ProgramTypeOK, StateInv, [Next]_vars, ~metaBatch', ~stateLapse'
               PROVE  StateInv'
    OBVIOUS
  <1>t. /\ vb \in VBType /\ cached \in VBState /\ disk \in VBState
        /\ flush \in [pc : {"idle", "drained", "ready", "committed"},
                      max : Seqno, range : SnapshotRange]
        /\ disk.high \in Nat /\ vb.high \in Nat /\ flush.max \in Nat
    BY TypeParts, PersistenceBounds DEF ProgramTypeOK, Seqno
  <1>1. CASE UNCHANGED vars
    BY <1>1 DEF vars, pvars, StateInv, Agree
  <1>2. CASE FrontEndWrite
    BY <1>2, <1>t DEF FrontEndWrite, StateInv, Agree, VBType
  <1>3. ASSUME NEW seqno \in 1..MaxSeqno, StreamMutation(seqno) PROVE StateInv'
    BY <1>3, <1>t DEF StreamMutation, StateInv, Agree, VBType
  <1>4. CASE OpenCheckpoint
    BY <1>4 DEF OpenCheckpoint, StateInv, Agree
  <1>5. ASSUME NEW end \in 1..MaxSeqno, NEW f \in BOOLEAN, SnapshotMarker(end, f)
        PROVE  StateInv'
    BY <1>5 DEF SnapshotMarker, StateInv, Agree
  <1>6. ASSUME FlushDrain, NoteBatch PROVE StateInv'
    <2>1. /\ flush'.pc = "drained"
          /\ flush'.max = IF disk.high < vb.high THEN vb.high ELSE 0
      BY <1>6 DEF FlushDrain
    <2>2. flush'.max # 0
      BY <1>6, <2>1 DEF NoteBatch
    <2>3. flush'.max > 0
      BY <1>t, <2>1, <2>2
    <2> QED
      BY <1>6, <2>1, <2>3 DEF FlushDrain, StateInv, Agree
  <1>7. CASE FlushState
    <2>1. flush'.pc = "ready" /\ flush'.max = flush.max /\ Agree(cached', vb)
      BY <1>7, <1>t DEF FlushState, StateOf, Agree
    <2> QED
      BY <1>7, <2>1 DEF FlushState, StateInv, Agree
  <1>8. CASE FlushCommit
    <2>1. flush'.pc = "committed" /\ flush'.max = flush.max /\ flush.max > 0
      BY <1>8, <1>t DEF FlushCommit, StateInv
    <2>2. Agree(cached', cached) /\ Agree(disk', cached')
      BY <1>8, <1>t, <2>1 DEF FlushCommit, SaveDocs, VBState, Agree
    <2> QED
      BY <1>8, <2>1, <2>2 DEF FlushCommit, StateInv, Agree
  <1>9. CASE FlushCommitFails
    <2>1. flush'.pc = "committed" /\ flush'.max = flush.max
      BY <1>9, <1>t DEF FlushCommitFails
    <2> QED
      BY <1>9, <2>1 DEF FlushCommitFails, StateInv, Agree
  <1>10. CASE FlushFinish \/ FlushRetry
    <2>1. flush'.pc = "idle" /\ flush.pc = "committed"
      BY <1>10, <1>t DEF FlushFinish, FlushRetry
    <2> QED
      BY <1>10, <2>1 DEF FlushFinish, FlushRetry, StateInv, Agree
  <1>11. CASE FlushNothing
    BY <1>11 DEF FlushNothing, StateInv, Agree
  <1>12. CASE PersistVBState
    <2>1. StateOf(vb, persisted.range) \in VBState /\ Agree(StateOf(vb, persisted.range), vb)
      BY TypeParts, StateTypes DEF StateOf, Agree
    <2>2. Agree(cached', vb) /\ (~rejected => Agree(disk', cached'))
      BY <1>12, <2>1, SnapshotAgrees DEF PersistVBState
    <2> QED
      BY <1>12, <2>2 DEF PersistVBState, StateInv, Agree
  <1>13. CASE SnapshotWriteInTime
    <2>1. captured \in VBState /\ Agree(captured, vb)
      BY <1>13 DEF SnapshotWriteInTime, SnapshotWrite, ProgramTypeOK, Agree
    <2>2. Agree(cached', vb) /\ (~rejected => Agree(disk', cached'))
      BY <1>13, <2>1, SnapshotAgrees DEF SnapshotWriteInTime, SnapshotWrite
    <2> QED
      BY <1>13, <2>2 DEF SnapshotWriteInTime, SnapshotWrite, StateInv, Agree
  <1>14. CASE SnapshotRead
    <2>1. captured' # NoState
      BY <1>14, <1>t DEF SnapshotRead, StateOf, NoState, VBType, States
    <2> QED
      BY <1>14, <2>1 DEF SnapshotRead, StateInv, Agree
  <1>15. CASE Promote \/ Demote \/ ReplaceFailoverLog
    BY <1>15 DEF Promote, Demote, ReplaceFailoverLog, StateInv, Agree
  <1>16. CASE Restart
    <2>1. cached' = disk /\ disk' = disk /\ snapTask' /\ flush'.pc = "idle"
      BY <1>16 DEF Restart
    <2> QED
      BY <2>1 DEF StateInv, Agree
  <1>17. ASSUME NEW seqno \in 1..MaxSeqno, SeqnoPersistence(seqno) PROVE StateInv'
    BY <1>17 DEF SeqnoPersistence, StateInv, Agree
  <1>18. CASE stateLapse' = TRUE
    BY <1>18
  <1> QED
    BY <1>1, <1>2, <1>3, <1>4, <1>5, <1>6, <1>7, <1>8, <1>9, <1>10, <1>11, <1>12, <1>13,
       <1>14, <1>15, <1>16, <1>17, <1>18
       DEF Next, Writes, Checkpoints, StateChanges, Clients, FlusherAfterDrain, StateTasks

(* A lapse is never forgotten. *)
LEMMA StateLapseStays == [Next]_vars /\ ~stateLapse' => ~stateLapse
  BY Zenon DEF Next, vars

(* Once flusher and tasks are done, the file has the state and the         *)
(* failover table of the vbucket, for any number of state changes, new     *)
(* failover logs, rejected batches and restarts, as long as batches hold   *)
(* mutations and no state document failed to be written, was left out or   *)
(* was out of date when it was written.                                    *)
THEOREM StateReachesFile == Spec => []StateDurable
  <1> DEFINE Inv == ProgramTypeOK /\ (~metaBatch /\ ~stateLapse => StateInv)
  <1>1. Init => Inv
    <2>1. ASSUME Init PROVE StateInv
      BY <2>1 DEF Init, StateInv, StateOf, Agree
    <2> QED
      BY <2>1, InitType
  <1>2. Inv /\ [Next]_vars => Inv'
    BY NextType, StateStep, MetaBatchStays, StateLapseStays
  <1>3. Inv => StateDurable
    BY DEF StateInv, StateDurable, AllWritten, Agree
  <1> QED
    BY <1>1, <1>2, <1>3, PTL DEF Spec

=============================================================================
