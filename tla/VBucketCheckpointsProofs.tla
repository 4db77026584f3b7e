----------------------- MODULE VBucketCheckpointsProofs -----------------------
(***************************************************************************)
(* Type correctness and CursorsInList of a vbucket's checkpoints, for any  *)
(* number of keys, cursors, checkpoints and seqnos.                        *)
(***************************************************************************)
EXTENDS VBucketCheckpoints, CheckpointManagerProofs

(* The part of TypeOK that is not about the manager.                       *)
RestOK ==
    /\ vbState \in {"active", "replica"}
    /\ promoting \in BOOLEAN
    /\ stream \in [start : Nat, end : Nat, disk : BOOLEAN, atEnd : BOOLEAN, first : BOOLEAN]
    /\ backfill \in [phase : BOOLEAN, queue : [Keys -> Nat]]
    /\ flush \in {"idle", "drained", "committed", "rejected"}
    /\ notified \in BOOLEAN
    /\ thrown \in BOOLEAN
    /\ latest \in [Keys -> Nat]
    /\ seen \in [CursorNames -> [Keys -> Nat]]
    /\ DOMAIN base = CursorNames
    /\ onDisk \in [Keys -> Nat]
    /\ byBackfill \subseteq Keys

(* The inductive invariant.  Beyond CursorsInList it says that a closed    *)
(* checkpoint is never the last one, that a list with the backfill id 0 or *)
(* without a seqno is one checkpoint, and that such a list holds no        *)
(* mutation: it is why resetCursors, which puts every cursor in the first  *)
(* checkpoint and erases no name elsewhere, leaves no name behind.         *)
IInv == Sound(mgr) /\ RestOK

(* The manager's invariant implies the manager's part of TypeOK.           *)
LEMMA SoundTyped ==
    ASSUME NEW m, Sound(m)
    PROVE  /\ m.list \in Seq(Checkpoints)
           /\ DOMAIN m.cursors \subseteq CursorNames
           /\ \A n \in DOMAIN m.cursors : m.cursors[n] \in Cursors
           /\ m.numItems \in Int
           /\ m.lastBySeqno \in Nat
           /\ m.pre \in Nat
  BY DEF Sound, IsManager, IsList, IsCursors

(* The inductive invariant implies TypeOK.                                 *)
LEMMA IInvTyped ==
    ASSUME IInv
    PROVE  TypeOK
  BY SoundTyped DEF IInv, RestOK, TypeOK

(* The inductive invariant implies that no cursor dangles.                 *)
LEMMA IInvCursors ==
    ASSUME IInv
    PROVE  CursorsInList
  <1>1. /\ IsList(mgr.list) /\ IsCursors(mgr.cursors) /\ Standing(mgr.list, mgr.cursors)
        /\ DOMAIN mgr.list = 1 .. Len(mgr.list)
    BY MgrParts DEF IInv, Sound
  <1>2. Persistence \in DOMAIN mgr.cursors
    BY <1>1 DEF IsCursors
  <1>3. ASSUME NEW n \in DOMAIN mgr.cursors
        PROVE  /\ mgr.cursors[n].chk \in DOMAIN mgr.list
               /\ mgr.cursors[n].pos \in DOMAIN mgr.list[mgr.cursors[n].chk].toWrite
               /\ \A i \in DOMAIN mgr.list :
                    n \in mgr.list[i].names <=> i = mgr.cursors[n].chk
    <2>1. /\ mgr.cursors[n].chk \in 1 .. Len(mgr.list)
          /\ mgr.cursors[n].pos \in 1 .. Len(mgr.list[mgr.cursors[n].chk].toWrite)
      BY <1>1 DEF Standing
    <2>2. DOMAIN mgr.list[mgr.cursors[n].chk].toWrite
            = 1 .. Len(mgr.list[mgr.cursors[n].chk].toWrite)
      BY <1>1, <2>1, ListFacts
    <2>3. \A i \in 1 .. Len(mgr.list) : n \in mgr.list[i].names <=> i = mgr.cursors[n].chk
      BY <1>1 DEF Standing
    <2> QED
      BY <1>1, <2>1, <2>2, <2>3
  <1> QED
    BY <1>2, <1>3 DEF CursorsInList

-----------------------------------------------------------------------------
(* Initial states.                                                         *)
LEMMA InitIInv ==
    ASSUME NEW state, state \in {"active", "replica"}, InitWith(state)
    PROVE  IInv
  <1>1. Sound(mgr)
    BY FreshVBucketSound DEF InitWith
  <1>2. RestOK
    BY DEF InitWith, RestOK, NoItems, Requested, CursorNames
  <1> QED
    BY <1>1, <1>2 DEF IInv

(* The front end.                                                          *)
LEMMA FrontEndWriteIInv ==
    ASSUME NEW k, NEW timeUp, IInv, k \in Keys, FrontEndWrite(k, timeUp)
    PROVE  IInv'
  <1>1. CASE mgr' = mgr /\ latest' = latest /\ byBackfill' = byBackfill
             /\ thrown' = TRUE /\ notified' = notified
    BY <1>1 DEF FrontEndWrite, IInv, RestOK
  <1>2. CASE /\ mgr' = QueueDirty(mgr, TRUE, k, TRUE, 0, timeUp)
             /\ notified' \in BOOLEAN
             /\ latest' = [latest EXCEPT ![k] = mgr'.lastBySeqno]
             /\ byBackfill' = byBackfill \ {k}
             /\ UNCHANGED thrown
    <2> DEFINE zero == 0
               yes == TRUE
    <2>1. /\ mgr' = QueueDirty(mgr, yes, k, yes, zero, timeUp)
          /\ zero \in Nat /\ (yes \/ zero # 0)
      BY <1>2
    <2> HIDE DEF zero, yes
    <2>2. Sound(mgr')
      <3>1. Sound(mgr)
        BY DEF IInv
      <3> QED
        BY <2>1, <3>1, QueueDirtySound
    <2>3. mgr'.lastBySeqno \in Nat
      BY <2>2, SoundTyped
    <2>4. latest' \in [Keys -> Nat]
      BY <1>2, <2>3 DEF IInv, RestOK
    <2>5. RestOK'
      BY <1>2, <2>4 DEF FrontEndWrite, IInv, RestOK
    <2> QED
      BY <2>2, <2>5 DEF IInv
  <1> QED
    BY <1>1, <1>2 DEF FrontEndWrite, NotifiedIf

(* The CREATE_CHECKPOINT command.                                          *)
LEMMA CreateCheckpointIInv ==
    ASSUME IInv, CreateCheckpointCommand
    PROVE  IInv'
  <1>1. Sound(mgr')
    BY CreateNewCheckpointSound DEF CreateCheckpointCommand, IInv
  <1>2. RestOK'
    BY DEF CreateCheckpointCommand, IInv, RestOK, NotifiedIf, ghosts
  <1> QED
    BY <1>1, <1>2 DEF IInv

-----------------------------------------------------------------------------
(* What a cursor has returned is a seqno of a checkpoint item.             *)

(* A bounded set of naturals has a greatest element.                       *)
LEMMA GreatestNat ==
    ASSUME NEW S, NEW b, S \subseteq Nat, S # {}, b \in Nat, \A x \in S : x <= b
    PROVE  \E x \in S : \A y \in S : y <= x
  <1> DEFINE T == {b - x : x \in S}
  <1>1. T \subseteq Nat /\ T # {}
    <2>1. \A x \in S : b - x \in Nat
      OBVIOUS
    <2>2. T \subseteq Nat
      BY <2>1
    <2>3. PICK x \in S : TRUE
      OBVIOUS
    <2>4. b - x \in T
      OBVIOUS
    <2> HIDE DEF T
    <2> QED
      BY <2>2, <2>4
  <1>2. PICK t \in T : \A y \in T : t <= y
    BY <1>1, LeastNat
  <1>3. PICK x \in S : t = b - x
    OBVIOUS
  <1>4. \A y \in S : b - x <= b - y
    BY <1>2, <1>3
  <1> QED
    BY <1>4

(* A set of positions of a list has a last one.                            *)
LEMMA LastPosition ==
    ASSUME NEW l, NEW S, IsList(l), S # {},
           \A p \in S : p \in Nat \X Nat /\ p[1] \in 1 .. Len(l) /\ p[2] \in 1 .. Len(l[p[1]].toWrite)
    PROVE  \E p \in S : \A q \in S : q[1] < p[1] \/ (q[1] = p[1] /\ q[2] <= p[2])
  <1> DEFINE A == {p[1] : p \in S}
  <1>1. Len(l) \in Nat /\ \A i \in 1 .. Len(l) : Len(l[i].toWrite) \in Nat
    BY ListFacts
  <1>2. A \subseteq Nat /\ A # {} /\ \A x \in A : x <= Len(l)
    BY <1>1
  <1>3. PICK i \in A : \A y \in A : y <= i
    BY <1>1, <1>2, GreatestNat
  <1> DEFINE B == {p[2] : p \in {p \in S : p[1] = i}}
  <1>4. i \in 1 .. Len(l) /\ i \in Nat
    BY <1>1
  <1>5. B \subseteq Nat /\ B # {} /\ \A x \in B : x <= Len(l[i].toWrite)
    BY <1>1, <1>4
  <1>6. PICK j \in B : \A y \in B : y <= j
    BY <1>1, <1>4, <1>5, GreatestNat
  <1>7. PICK p \in S : p[1] = i /\ p[2] = j
    BY <1>6
  <1>8. ASSUME NEW q \in S
        PROVE  q[1] < p[1] \/ (q[1] = p[1] /\ q[2] <= p[2])
    <2>1. q[1] <= i /\ q[1] \in Nat
      BY <1>3
    <2>2. q[1] = i => q[2] <= j
      BY <1>6
    <2> QED
      BY <1>4, <1>7, <2>1, <2>2
  <1> QED
    BY <1>8

(* Reading items at positions of the list leaves seqnos as what a cursor   *)
(* has seen.                                                               *)
LEMMA SeenAfterType ==
    ASSUME NEW f, NEW P, IsList(mgr.list), f \in [Keys -> Nat],
           \A p \in P : /\ p \in Nat \X Nat /\ p[1] \in 1 .. Len(mgr.list)
                        /\ p[2] \in 1 .. Len(mgr.list[p[1]].toWrite)
    PROVE  SeenAfter(f, P) \in [Keys -> Nat]
  <1> DEFINE S(k) == {p \in P : mgr.list[p[1]].toWrite[p[2]].key = k}
             last(k) == CHOOSE p \in S(k) : \A q \in S(k) :
                          q[1] < p[1] \/ (q[1] = p[1] /\ q[2] <= p[2])
             v(k) == IF S(k) = {} THEN f[k] ELSE mgr.list[last(k)[1]].toWrite[last(k)[2]].seqno
  <1>1. ASSUME NEW k \in Keys PROVE v(k) \in Nat
    <2>1. CASE S(k) = {}
      BY <2>1
    <2>2. CASE S(k) # {}
      <3> DEFINE T == S(k)
                 p == last(k)
      <3>1. \A q \in T : /\ q \in Nat \X Nat /\ q[1] \in 1 .. Len(mgr.list)
                         /\ q[2] \in 1 .. Len(mgr.list[q[1]].toWrite)
        OBVIOUS
      <3>2. T # {} /\ p = CHOOSE x \in T : \A q \in T :
                            q[1] < x[1] \/ (q[1] = x[1] /\ q[2] <= x[2])
        BY <2>2
      <3>3. v(k) = mgr.list[p[1]].toWrite[p[2]].seqno
        BY <2>2
      <3> HIDE DEF T, p, v
      <3>4. \E x \in T : \A q \in T : q[1] < x[1] \/ (q[1] = x[1] /\ q[2] <= x[2])
        BY <3>1, <3>2, LastPosition
      <3>5. p \in T
        BY <3>2, <3>4
      <3>6. p[1] \in 1 .. Len(mgr.list) /\ p[2] \in 1 .. Len(mgr.list[p[1]].toWrite)
        BY <3>1, <3>5
      <3>7. mgr.list[p[1]].toWrite \in Seq(Items)
        BY <3>6, ListFacts
      <3>8. mgr.list[p[1]].toWrite[p[2]] \in Items
        BY <3>6, <3>7
      <3> QED
        BY <3>3, <3>8 DEF Items
    <2> QED
      BY <2>1, <2>2
  <1>2. SeenAfter(f, P) = [k \in Keys |-> v(k)]
    BY Zenon DEF SeenAfter
  <1> HIDE DEF v
  <1> QED
    BY <1>1, <1>2

(* The positions a cursor has not read are positions of the list.          *)
LEMMA UnreadPositions ==
    ASSUME NEW m, NEW cur, NEW P, P = Unread(m, cur), IsManager(m)
    PROVE  \A p \in P : /\ p \in Nat \X Nat /\ p[1] \in 1 .. Len(m.list)
                        /\ p[2] \in 1 .. Len(m.list[p[1]].toWrite)
  <1> SUFFICES ASSUME NEW p \in P
               PROVE  /\ p \in Nat \X Nat /\ p[1] \in 1 .. Len(m.list)
                      /\ p[2] \in 1 .. Len(m.list[p[1]].toWrite)
    OBVIOUS
  <1>1. IsList(m.list) /\ DOMAIN m.list = 1 .. Len(m.list) /\ Len(m.list) \in Nat
    BY MgrParts
  <1>2. PICK i \in DOMAIN m.list : p \in {i} \X (2 .. Len(m.list[i].toWrite))
    BY DEF Unread
  <1>3. Len(m.list[i].toWrite) \in Nat /\ i \in 1 .. Len(m.list)
    BY <1>1, ListFacts
  <1>4. p[1] = i /\ p[2] \in 2 .. Len(m.list[i].toWrite) /\ p \in {i} \X (2 .. Len(m.list[i].toWrite))
    BY <1>2
  <1>5. p \in Nat \X Nat
    BY <1>1, <1>3, <1>4
  <1> QED
    BY <1>3, <1>4, <1>5

-----------------------------------------------------------------------------
(* Cursors.                                                                *)

(* A step that moves, adds or removes a cursor other than persistence.     *)
LEMMA CursorStepIInv ==
    ASSUME IInv, IsManager(mgr'), SameBack(mgr, mgr'), OthersUnchanged,
           seen' \in [CursorNames -> [Keys -> Nat]], DOMAIN base' = CursorNames
    PROVE  IInv'
  <1>1. Sound(mgr')
    BY SameBackSound DEF IInv
  <1>2. RestOK'
    BY DEF IInv, RestOK, OthersUnchanged
  <1> QED
    BY <1>1, <1>2 DEF IInv

(* Persistence is not the cursor of a stream or a TAP connection.          *)
LEMMA NotPersistence ==
    ASSUME NEW n, n \in DcpCursors \cup TapCursors
    PROVE  n \in CursorNames /\ n # Persistence
  BY CursorNamesDistinct DEF CursorNames

(* registerCursorBySeqno for a DCP stream.                                 *)
LEMMA DcpRegisterIInv ==
    ASSUME NEW n, NEW s, IInv, n \in DcpCursors, s \in Nat, DcpRegister(n, s)
    PROVE  IInv'
  <1>1. n \in CursorNames /\ n # Persistence
    BY NotPersistence
  <1>2. IsManager(mgr)
    BY DEF IInv, Sound
  <1>3. IsManager(mgr') /\ SameBack(mgr, mgr')
    BY <1>1, <1>2, RegisterBySeqnoKeeps DEF DcpRegister
  <1>4. seen' \in [CursorNames -> [Keys -> Nat]]
    BY <1>1 DEF DcpRegister, IInv, RestOK, NoItems
  <1>5. DOMAIN base' = CursorNames /\ OthersUnchanged
    BY DEF DcpRegister, IInv, RestOK
  <1> QED
    BY <1>3, <1>4, <1>5, CursorStepIInv

(* getAllItemsForCursor for a DCP stream.                                  *)
LEMMA DcpGetAllItemsIInv ==
    ASSUME NEW n, IInv, n \in DcpCursors, DcpGetAllItems(n)
    PROVE  IInv'
  <1> DEFINE P == Unread(mgr, mgr.cursors[n])
             f == seen[n]
  <1>1. n \in CursorNames
    BY NotPersistence
  <1>2. IsManager(mgr) /\ IsList(mgr.list) /\ n \in DOMAIN mgr.cursors
    BY MgrParts DEF IInv, Sound, DcpGetAllItems
  <1>3. IsManager(mgr') /\ SameBack(mgr, mgr')
    BY <1>2, GetAllItemsKeeps DEF DcpGetAllItems
  <1>4. f \in [Keys -> Nat]
    BY <1>1 DEF IInv, RestOK
  <1>5. \A p \in P : /\ p \in Nat \X Nat /\ p[1] \in 1 .. Len(mgr.list)
                     /\ p[2] \in 1 .. Len(mgr.list[p[1]].toWrite)
    BY <1>2, UnreadPositions
  <1>6. seen' = [seen EXCEPT ![n] = SeenAfter(f, P)]
    BY DEF DcpGetAllItems
  <1> HIDE DEF f, P
  <1>7. SeenAfter(f, P) \in [Keys -> Nat]
    BY <1>2, <1>4, <1>5, SeenAfterType
  <1>8. seen' \in [CursorNames -> [Keys -> Nat]]
    BY <1>1, <1>6, <1>7 DEF IInv, RestOK
  <1>9. DOMAIN base' = CursorNames /\ OthersUnchanged
    BY DEF DcpGetAllItems, IInv, RestOK
  <1> QED
    BY <1>3, <1>8, <1>9, CursorStepIInv

(* removeCursor, when a stream ends or the cursor dropper runs.            *)
LEMMA DropCursorIInv ==
    ASSUME NEW n, IInv, n \in DcpCursors \cup TapCursors, DropCursor(n)
    PROVE  IInv'
  <1>1. n \in CursorNames /\ n # Persistence
    BY NotPersistence
  <1>2. IsManager(mgr)
    BY DEF IInv, Sound
  <1>3. IsManager(mgr') /\ SameBack(mgr, mgr')
    BY <1>1, <1>2, RemoveCursorKeeps DEF DropCursor
  <1>4. seen' \in [CursorNames -> [Keys -> Nat]]
    BY <1>1 DEF DropCursor, IInv, RestOK, NoItems
  <1>5. DOMAIN base' = CursorNames /\ OthersUnchanged
    BY DEF DropCursor, IInv, RestOK
  <1> QED
    BY <1>3, <1>4, <1>5, CursorStepIInv

-----------------------------------------------------------------------------
(* The flusher.                                                            *)

(* A drain returns seqnos of items and of the backfill queue.              *)
LEMMA FlushDrainIInv ==
    ASSUME IInv, FlushDrain
    PROVE  IInv'
  <1> DEFINE P == Unread(mgr, mgr.cursors[Persistence])
             f == [k \in Keys |-> IF backfill.queue[k] > 0 THEN backfill.queue[k]
                                  ELSE seen[Persistence][k]]
  <1>1. Persistence \in CursorNames
    BY DEF CursorNames
  <1>2. IsManager(mgr) /\ IsList(mgr.list) /\ Persistence \in DOMAIN mgr.cursors
    <2>1. IsManager(mgr)
      BY DEF IInv, Sound
    <2>2. IsCursors(mgr.cursors) /\ IsList(mgr.list)
      BY <2>1, MgrParts
    <2> QED
      BY <2>1, <2>2 DEF IsCursors
  <1>3. IsManager(mgr') /\ SameBack(mgr, mgr')
    BY <1>2, GetAllItemsKeeps DEF FlushDrain
  <1>4. Sound(mgr')
    BY <1>3, SameBackSound DEF IInv
  <1>5. f \in [Keys -> Nat]
    BY <1>1 DEF IInv, RestOK
  <1>6. \A p \in P : /\ p \in Nat \X Nat /\ p[1] \in 1 .. Len(mgr.list)
                     /\ p[2] \in 1 .. Len(mgr.list[p[1]].toWrite)
    BY <1>2, UnreadPositions
  <1>7. seen' = [seen EXCEPT ![Persistence] = SeenAfter(f, P)]
    BY DEF FlushDrain
  <1> HIDE DEF f, P
  <1>8. SeenAfter(f, P) \in [Keys -> Nat]
    BY <1>2, <1>5, <1>6, SeenAfterType
  <1>9. seen' \in [CursorNames -> [Keys -> Nat]]
    BY <1>1, <1>7, <1>8 DEF IInv, RestOK
  <1>10. backfill' \in [phase : BOOLEAN, queue : [Keys -> Nat]]
    BY DEF FlushDrain, IInv, RestOK, NoItems
  <1>11. RestOK'
    BY <1>9, <1>10 DEF FlushDrain, IInv, RestOK
  <1> QED
    BY <1>4, <1>11 DEF IInv

(* A commit, successful or not, and itemsPersisted.                        *)
LEMMA FlushStepIInv ==
    ASSUME IInv, FlushCommit \/ FlushReject \/ FlushItemsPersisted
    PROVE  IInv'
  <1>1. CASE FlushCommit
    <2>1. onDisk' \in [Keys -> Nat]
      BY <1>1 DEF FlushCommit, IInv, RestOK, CursorNames
    <2>2. RestOK'
      BY <1>1, <2>1 DEF FlushCommit, IInv, RestOK
    <2> QED
      BY <1>1, <2>2 DEF FlushCommit, IInv
  <1>2. CASE FlushReject
    BY <1>2 DEF FlushReject, IInv, RestOK, ghosts
  <1>3. CASE FlushItemsPersisted
    <2>1. Sound(mgr')
      BY <1>3, ItemsPersistedSound DEF FlushItemsPersisted, IInv
    <2>2. RestOK'
      BY <1>3 DEF FlushItemsPersisted, IInv, RestOK, ghosts
    <2> QED
      BY <2>1, <2>2 DEF IInv
  <1> QED
    BY <1>1, <1>2, <1>3

(* The checkpoint remover.                                                 *)
LEMMA RemoverIInv ==
    ASSUME NEW timeUp, NEW memHigh, NEW enough, IInv,
           CheckpointRemover(timeUp, memHigh, enough)
    PROVE  IInv'
  <1>1. Sound(mgr')
    <2>1. Sound(mgr)
      BY DEF IInv
    <2> QED
      BY <2>1, RemoverSound DEF CheckpointRemover
  <1>2. RestOK'
    BY DEF CheckpointRemover, IInv, RestOK, NotifiedIf, ghosts
  <1> QED
    BY <1>1, <1>2 DEF IInv

-----------------------------------------------------------------------------
(* The passive stream.                                                     *)

(* A new stream starts at seqnos of the manager.                           *)
LEMMA AddStreamIInv ==
    ASSUME IInv, AddStream
    PROVE  IInv'
  <1>1. IsManager(mgr)
    BY DEF IInv, Sound
  <1>2. mgr.lastBySeqno \in Nat /\ Back(mgr).snapStart \in Nat
    <2>1. Shaped(Back(mgr)) /\ mgr.lastBySeqno \in Nat
      BY <1>1, BackShaped, MgrParts
    <2> QED
      BY <2>1, ShapedParts
  <1>3. PICK x \in Nat : stream' = Requested(x)
    BY <1>2 DEF AddStream, GetSnapshotInfo
  <1>4. RestOK'
    BY <1>3, SMTT(40) DEF AddStream, IInv, RestOK, Requested, ghosts
  <1> QED
    BY <1>4 DEF AddStream, IInv

(* A marker opens the backfill phase, a snapshot, or extends the current   *)
(* one.                                                                    *)
LEMMA ProcessMarkerIInv ==
    ASSUME NEW s, NEW e, NEW chk, NEW disk, IInv, s \in Nat, e \in Nat,
           disk \in BOOLEAN, ProcessMarker(s, e, chk, disk)
    PROVE  IInv'
  <1> DEFINE toBackfill == disk /\ mgr.lastBySeqno = 0
  <1>1. Sound(mgr)
    BY DEF IInv
  <1>2. \/ mgr' = SetBackfillPhase(mgr, s, e) /\ mgr.lastBySeqno = 0
        \/ mgr' = CreateSnapshot(mgr, s, e)
        \/ mgr' = UpdateCurrentSnapshotEnd(mgr, e)
    BY DEF ProcessMarker
  <1>3. Sound(mgr')
    BY <1>1, <1>2, SetBackfillPhaseSound, CreateSnapshotSound, UpdateEndSound
  <1>4. stream' \in [start : Nat, end : Nat, disk : BOOLEAN, atEnd : BOOLEAN, first : BOOLEAN]
    BY DEF ProcessMarker
  <1>5. backfill' \in [phase : BOOLEAN, queue : [Keys -> Nat]]
    <2>1. backfill' = [backfill EXCEPT !.phase = toBackfill] /\ toBackfill \in BOOLEAN
      BY DEF ProcessMarker
    <2> HIDE DEF toBackfill
    <2> QED
      BY <2>1 DEF IInv, RestOK
  <1>6. RestOK'
    BY <1>4, <1>5 DEF ProcessMarker, IInv, RestOK, NotifiedIf, ghosts
  <1> QED
    BY <1>3, <1>6 DEF IInv

(* A mutation goes to the backfill queue, through queueDirty, or throws.   *)
LEMMA ProcessMutationIInv ==
    ASSUME NEW k, NEW s, IInv, k \in Keys, s \in Nat, s # 0, ProcessMutation(k, s)
    PROVE  IInv'
  <1> DEFINE no == FALSE
  <1>1. Sound(mgr)
    BY DEF IInv
  <1>2. Sound(mgr')
    <2>1. CASE mgr' = [mgr EXCEPT !.lastBySeqno = s]
      <3>1. mgr' = WithSeqno(mgr, no, s)
        BY <2>1 DEF WithSeqno
      <3> HIDE DEF no
      <3> QED
        BY <1>1, <3>1, WithSeqnoSound
    <2>2. CASE mgr' = QueueDirty(mgr, FALSE, k, FALSE, s, FALSE)
      <3>1. mgr' = QueueDirty(mgr, no, k, no, s, no)
        BY <2>2
      <3> HIDE DEF no
      <3> QED
        BY <1>1, <3>1, QueueDirtySound
    <2>3. CASE mgr' = mgr
      BY <1>1, <2>3
    <2> QED
      BY <2>1, <2>2, <2>3 DEF ProcessMutation
  <1>3. /\ latest' \in [Keys -> Nat] /\ byBackfill' \subseteq Keys
        /\ notified' \in BOOLEAN /\ thrown' \in BOOLEAN
    <2>1. latest' = [latest EXCEPT ![k] = s] \/ latest' = latest
      BY DEF ProcessMutation
    <2>2. byBackfill' \in {byBackfill \cup {k}, byBackfill \ {k}, byBackfill}
      BY DEF ProcessMutation
    <2>3. notified' \in BOOLEAN
      BY Zenon DEF ProcessMutation, IInv, RestOK, NotifiedIf
    <2>4. thrown' \in BOOLEAN
      BY Zenon DEF ProcessMutation, IInv, RestOK
    <2> QED
      BY <2>1, <2>2, <2>3, <2>4 DEF IInv, RestOK
  <1>4. backfill' \in [phase : BOOLEAN, queue : [Keys -> Nat]]
    <2>1. backfill' = [backfill EXCEPT !.queue[k] = s] \/ backfill' = backfill
      BY DEF ProcessMutation
    <2> QED
      BY <2>1 DEF IInv, RestOK
  <1>5. stream' \in [start : Nat, end : Nat, disk : BOOLEAN, atEnd : BOOLEAN, first : BOOLEAN]
    <2> DEFINE b == s = stream.end
    <2>1. stream' = [stream EXCEPT !.atEnd = b] /\ b \in BOOLEAN
      BY DEF ProcessMutation
    <2> HIDE DEF b
    <2> QED
      BY <2>1 DEF IInv, RestOK
  <1>6. RestOK'
    BY <1>3, <1>4, <1>5 DEF ProcessMutation, IInv, RestOK
  <1> QED
    BY <1>2, <1>6 DEF IInv

(* The end of a snapshot may open a checkpoint.                            *)
LEMMA HandleSnapshotEndIInv ==
    ASSUME NEW memHigh, IInv, HandleSnapshotEnd(memHigh)
    PROVE  IInv'
  <1> DEFINE id == GetOpenCheckpointId(mgr) + 1
             stays == backfill.phase /\ ~ (stream.disk /\ backfill.phase)
             no == FALSE
  <1>1. Sound(mgr) /\ IsManager(mgr)
    BY DEF IInv, Sound
  <1>2. id \in Nat
    <2>1. Shaped(Back(mgr))
      BY <1>1, BackShaped
    <2>2. Back(mgr).id \in Nat
      BY <2>1, ShapedParts
    <2> QED
      BY <2>2 DEF GetOpenCheckpointId
  <1>3. mgr' = CheckAndAddNewCheckpoint(mgr, id) \/ mgr' = mgr
    BY DEF HandleSnapshotEnd
  <1>4. backfill' = [backfill EXCEPT !.phase = stays] /\ stays \in BOOLEAN
    BY DEF HandleSnapshotEnd, IInv, RestOK
  <1>5. stream' = [stream EXCEPT !.atEnd = no] /\ no \in BOOLEAN
    BY DEF HandleSnapshotEnd
  <1> HIDE DEF id, stays, no
  <1>6. Sound(mgr')
    BY <1>1, <1>2, <1>3, CheckAndAddSound
  <1>7. backfill' \in [phase : BOOLEAN, queue : [Keys -> Nat]]
    BY <1>4 DEF IInv, RestOK
  <1>8. stream' \in [start : Nat, end : Nat, disk : BOOLEAN, atEnd : BOOLEAN, first : BOOLEAN]
    BY <1>5 DEF IInv, RestOK
  <1>9. RestOK'
    BY <1>7, <1>8 DEF HandleSnapshotEnd, IInv, RestOK, NotifiedIf, ghosts
  <1> QED
    BY <1>6, <1>9 DEF IInv

-----------------------------------------------------------------------------
(* setVBucketState and rollback.                                           *)

(* Both halves of a promotion, and a demotion.                             *)
LEMMA StateChangeIInv ==
    ASSUME IInv, PromoteSetState \/ PromoteResetRange \/ Demote
    PROVE  IInv'
  <1>1. Sound(mgr) /\ IsManager(mgr)
    BY DEF IInv, Sound
  <1>2. CASE PromoteSetState
    <2> DEFINE two == 2
    <2>1. mgr' = SetOpenCheckpointId(mgr, two) \/ mgr' = mgr
      BY <1>2 DEF PromoteSetState
    <2>2. two \in Nat /\ two # 0
      OBVIOUS
    <2> HIDE DEF two
    <2>3. ASSUME mgr' = SetOpenCheckpointId(mgr, two)
          PROVE  Sound(mgr')
      <3>1. IsManager(mgr') /\ SameMutations(mgr, mgr') /\ Back(mgr').id = two
        BY <1>1, <2>2, <2>3, SetOpenIdKeeps
      <3> QED
        BY <1>1, <2>2, <3>1, SameMutationsSound
    <2>4. Sound(mgr')
      BY <1>1, <2>1, <2>3
    <2>5. RestOK'
      BY <1>2 DEF PromoteSetState, IInv, RestOK, Requested, ghosts
    <2> QED
      BY <2>4, <2>5 DEF IInv
  <1>3. CASE PromoteResetRange
    <2>1. Sound(mgr')
      BY <1>1, <1>3, ResetSnapshotRangeSound DEF PromoteResetRange
    <2>2. RestOK'
      BY <1>3 DEF PromoteResetRange, IInv, RestOK, ghosts
    <2> QED
      BY <2>1, <2>2 DEF IInv
  <1>4. CASE Demote
    BY <1>4 DEF Demote, IInv, RestOK, ghosts
  <1> QED
    BY <1>2, <1>3, <1>4

(* CheckpointManager::clear puts every cursor in the one checkpoint.       *)
LEMMA RollbackIInv ==
    ASSUME NEW seqno, NEW restored, IInv, seqno \in Nat, restored \in [Keys -> Nat],
           Rollback(seqno, restored)
    PROVE  IInv'
  <1> DEFINE no == FALSE
  <1>1. mgr' = Clear(mgr, no, seqno)
    BY DEF Rollback
  <1> HIDE DEF no
  <1>2. Sound(mgr')
    <2>1. Sound(mgr)
      BY DEF IInv
    <2> QED
      BY <1>1, <2>1, ClearSound
  <1>3. RestOK'
    BY DEF Rollback, IInv, RestOK, Requested, NoItems
  <1> QED
    BY <1>2, <1>3 DEF IInv

-----------------------------------------------------------------------------
(* The next-state relations.                                               *)

(* A stuttering step.                                                      *)
LEMMA StutterIInv ==
    ASSUME IInv, UNCHANGED vars
    PROVE  IInv'
  BY DEF IInv, RestOK, vars

(* Front-end writers and the CREATE_CHECKPOINT command.                    *)
LEMMA FrontEndNextIInv ==
    ASSUME IInv, FrontEndNext
    PROVE  IInv'
  BY FrontEndWriteIInv, CreateCheckpointIInv DEF FrontEndNext

(* Cursors that come, read and go.                                         *)
LEMMA CursorNextIInv ==
    ASSUME IInv, CursorNext
    PROVE  IInv'
  <1>1. \A s \in 0 .. MaxSeqno : s \in Nat
    BY BoundsNatural
  <1> QED
    BY <1>1, DcpRegisterIInv, DcpGetAllItemsIInv, DropCursorIInv DEF CursorNext

(* The flusher.                                                            *)
LEMMA FlusherNextIInv ==
    ASSUME IInv, FlusherNext
    PROVE  IInv'
  BY FlushDrainIInv, FlushStepIInv DEF FlusherNext

(* The checkpoint remover.                                                 *)
LEMMA RemoverNextIInv ==
    ASSUME IInv, RemoverNext
    PROVE  IInv'
  BY RemoverIInv DEF RemoverNext

(* The messages of a passive stream.                                       *)
LEMMA StreamNextIInv ==
    ASSUME IInv, StreamNext
    PROVE  IInv'
  <1>1. \A s \in 0 .. MaxSeqno : s \in Nat
    BY BoundsNatural
  <1>2. \A s \in 1 .. MaxSeqno : s \in Nat /\ s # 0
    BY BoundsNatural
  <1>3. CASE \E s \in 0 .. MaxSeqno, e \in 1 .. MaxSeqno, chk, disk \in BOOLEAN :
                ProcessMarker(s, e, chk, disk)
    BY <1>1, <1>2, <1>3, ProcessMarkerIInv
  <1>4. CASE \E k \in Keys, s \in 1 .. MaxSeqno : ProcessMutation(k, s)
    BY <1>2, <1>4, ProcessMutationIInv
  <1>5. CASE \E memHigh \in BOOLEAN : HandleSnapshotEnd(memHigh)
    BY <1>5, HandleSnapshotEndIInv
  <1> QED
    BY <1>3, <1>4, <1>5 DEF StreamNext

(* A rollback to any seqno.                                                *)
LEMMA RollbackNextIInv ==
    ASSUME IInv, RollbackNext
    PROVE  IInv'
  <1>1. \A s \in 1 .. MaxSeqno : s \in Nat
    BY BoundsNatural
  <1>2. \A f \in [Keys -> 0 .. MaxSeqno] : f \in [Keys -> Nat]
    BY BoundsNatural
  <1> QED
    BY <1>1, <1>2, RollbackIInv DEF RollbackNext

(* A step of an active vbucket read over DCP.                              *)
LEMMA LiveNextIInv ==
    ASSUME IInv, [LiveNext]_vars
    PROVE  IInv'
  <1>1. \A s \in 0 .. MaxSeqno : s \in Nat
    BY BoundsNatural
  <1>2. ASSUME NEW n \in DcpCursors, ReaderNext(n)
        PROVE  IInv'
    BY <1>1, <1>2, DcpRegisterIInv, DcpGetAllItemsIInv DEF ReaderNext
  <1> QED
    BY <1>2, FrontEndNextIInv, FlusherNextIInv, RemoverNextIInv, StutterIInv DEF LiveNext

(* A step of a replica that is promoted.                                   *)
LEMMA PromotionNextIInv ==
    ASSUME IInv, [PromotionNext]_vars
    PROVE  IInv'
  BY StateChangeIInv, FrontEndNextIInv, StreamNextIInv, CursorNextIInv, FlusherNextIInv,
     RemoverNextIInv, StutterIInv DEF PromotionNext, PromoteNext

(* A step of a vbucket that is promoted, demoted and rolled back.          *)
LEMMA FailoverNextIInv ==
    ASSUME IInv, [FailoverNext]_vars
    PROVE  IInv'
  BY PromotionNextIInv, StateChangeIInv, AddStreamIInv, RollbackNextIInv, StutterIInv
     DEF FailoverNext

-----------------------------------------------------------------------------
(* Theorems.                                                               *)

(* An active vbucket read over DCP: the manager's records, cursors and the *)
(* flusher's state keep their types, whatever the limits.                  *)
THEOREM LiveTypeOK == LiveSpec => []TypeOK
  <1>1. InitWith("active") => IInv
    BY InitIInv
  <1>2. IInv /\ [LiveNext]_vars => IInv'
    BY LiveNextIInv
  <1>3. IInv => TypeOK
    BY IInvTyped
  <1> QED
    BY <1>1, <1>2, <1>3, PTL DEF LiveSpec

(* And no cursor of it ever dangles: each stands on an item of a           *)
(* checkpoint of the list, the only one its name is registered on.         *)
THEOREM LiveCursorsInList == LiveSpec => []CursorsInList
  <1>1. InitWith("active") => IInv
    BY InitIInv
  <1>2. IInv /\ [LiveNext]_vars => IInv'
    BY LiveNextIInv
  <1>3. IInv => CursorsInList
    BY IInvCursors
  <1> QED
    BY <1>1, <1>2, <1>3, PTL DEF LiveSpec

(* The same of a vbucket that a passive stream feeds, with markers,        *)
(* backfill, snapshot ends and rollback, and that setVBucketState promotes *)
(* and demotes, with writers and streams between the two halves of a       *)
(* promotion.                                                              *)
THEOREM FailoverTypeOK == FailoverSpec => []TypeOK
  <1>1. InitWith("replica") => IInv
    BY InitIInv
  <1>2. IInv /\ [FailoverNext]_vars => IInv'
    BY FailoverNextIInv
  <1>3. IInv => TypeOK
    BY IInvTyped
  <1> QED
    BY <1>1, <1>2, <1>3, PTL DEF FailoverSpec

(* No cursor dangles across promotions and demotions.                      *)
THEOREM FailoverCursorsInList == FailoverSpec => []CursorsInList
  <1>1. InitWith("replica") => IInv
    BY InitIInv
  <1>2. IInv /\ [FailoverNext]_vars => IInv'
    BY FailoverNextIInv
  <1>3. IInv => CursorsInList
    BY IInvCursors
  <1> QED
    BY <1>1, <1>2, <1>3, PTL DEF FailoverSpec

(* The check for high memory usage of removeClosedUnrefCheckpoints is      *)
(* never true: isCheckpointCreationForHighMemUsage asks for one name more  *)
(* on the open checkpoint than there are cursors.                          *)
THEOREM HighMemoryCheckNeverTrue == FailoverSpec => []~ AllCursorsInOpenCheckpoint(mgr)
  <1>1. InitWith("replica") => IInv
    BY InitIInv
  <1>2. IInv /\ [FailoverNext]_vars => IInv'
    BY FailoverNextIInv
  <1>3. IInv => ~ AllCursorsInOpenCheckpoint(mgr)
    BY NeverAllCursorsInOpen DEF IInv, Sound
  <1> QED
    BY <1>1, <1>2, <1>3, PTL DEF FailoverSpec

=============================================================================
