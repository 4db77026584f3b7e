----------------------- MODULE CheckpointManagerProofs -----------------------
(***************************************************************************)
(* What every method of the checkpoint manager preserves: the list holds   *)
(* well-shaped checkpoints, and every cursor stands on an item of the      *)
(* checkpoint that carries its name.                                       *)
(***************************************************************************)
EXTENDS CheckpointManager, TLAPS, FiniteSetTheorems, WellFoundedInduction

Shaped(c) ==
    /\ c \in Checkpoints
    /\ Len(c.toWrite) >= 2
    /\ c.toWrite[1].op = "empty"

IsList(list) ==
    /\ list \in Seq(Checkpoints)
    /\ Len(list) >= 1
    /\ \A i \in 1 .. Len(list) : Shaped(list[i])

IsCursors(cursors) ==
    /\ cursors \in [DOMAIN cursors -> Cursors]
    /\ DOMAIN cursors \subseteq CursorNames
    /\ Persistence \in DOMAIN cursors

(* The cursors stand in the list, and the names of a checkpoint are those  *)
(* of the cursors on it.                                                   *)
Standing(list, cursors) ==
    /\ \A n \in DOMAIN cursors :
         /\ cursors[n].chk \in 1 .. Len(list)
         /\ cursors[n].pos \in 1 .. Len(list[cursors[n].chk].toWrite)
    /\ \A i \in 1 .. Len(list) : list[i].names = {n \in DOMAIN cursors : cursors[n].chk = i}

IsManager(m) ==
    /\ m = [list |-> m.list, cursors |-> m.cursors, numItems |-> m.numItems,
            lastBySeqno |-> m.lastBySeqno, pre |-> m.pre]
    /\ m.numItems \in Int
    /\ m.lastBySeqno \in Nat
    /\ m.pre \in Nat
    /\ IsList(m.list)
    /\ IsCursors(m.cursors)
    /\ Standing(m.list, m.cursors)

-----------------------------------------------------------------------------
(* A function on 1 .. n is a sequence.                                     *)
LEMMA FunctionIsSequence ==
    ASSUME NEW S, NEW n, NEW f, n \in Nat, f \in [1 .. n -> S]
    PROVE  f \in Seq(S) /\ Len(f) = n /\ DOMAIN f = 1 .. n
  OBVIOUS

(* The length of a list and the types of its checkpoints.                 *)
LEMMA ListFacts ==
    ASSUME NEW list, IsList(list)
    PROVE  /\ Len(list) \in Nat
           /\ DOMAIN list = 1 .. Len(list)
           /\ Len(list) \in 1 .. Len(list)
           /\ \A i \in 1 .. Len(list) : /\ list[i] \in Checkpoints
                                       /\ list[i].toWrite \in Seq(Items)
                                       /\ Len(list[i].toWrite) \in Nat
                                       /\ Len(list[i].toWrite) >= 2
                                       /\ DOMAIN list[i].toWrite = 1 .. Len(list[i].toWrite)
  <1>1. Len(list) \in Nat /\ DOMAIN list = 1 .. Len(list) /\ Len(list) \in 1 .. Len(list)
    BY DEF IsList
  <1>2. ASSUME NEW i \in 1 .. Len(list)
        PROVE  /\ list[i] \in Checkpoints
               /\ list[i].toWrite \in Seq(Items)
               /\ Len(list[i].toWrite) \in Nat
               /\ Len(list[i].toWrite) >= 2
               /\ DOMAIN list[i].toWrite = 1 .. Len(list[i].toWrite)
    <2>1. list[i] \in Checkpoints /\ Len(list[i].toWrite) >= 2
      BY DEF IsList, Shaped
    <2>2. list[i].toWrite \in Seq(Items)
      BY <2>1 DEF Checkpoints
    <2> QED
      BY <2>1, <2>2
  <1> QED
    BY <1>1, <1>2

(* Checkpoints with the same names and not fewer items hold the cursors.   *)
LEMMA StandingKept ==
    ASSUME NEW l, NEW r, NEW cs,
           IsList(l), IsList(r), IsCursors(cs), Standing(l, cs), Len(r) = Len(l),
           \A i \in 1 .. Len(l) : r[i].names = l[i].names
                                 /\ Len(r[i].toWrite) >= Len(l[i].toWrite)
    PROVE  Standing(r, cs)
  <1>1. \A i \in 1 .. Len(l) : Len(r[i].toWrite) \in Nat /\ Len(l[i].toWrite) \in Nat
    BY ListFacts
  <1>2. ASSUME NEW n \in DOMAIN cs
        PROVE  cs[n].chk \in 1 .. Len(r) /\ cs[n].pos \in 1 .. Len(r[cs[n].chk].toWrite)
    <2>1. cs[n].chk \in 1 .. Len(l) /\ cs[n].pos \in 1 .. Len(l[cs[n].chk].toWrite)
      BY DEF Standing
    <2> QED
      BY <2>1, <1>1
  <1>3. \A i \in 1 .. Len(r) : r[i].names = {n \in DOMAIN cs : cs[n].chk = i}
    BY DEF Standing
  <1> QED
    BY <1>2, <1>3 DEF Standing

(* A manager put together from sound parts.                                *)
Record(list, cursors, numItems, lastBySeqno, pre) ==
    [list |-> list, cursors |-> cursors, numItems |-> numItems,
     lastBySeqno |-> lastBySeqno, pre |-> pre]

(* A manager is made of a list, cursors that stand in it, and counters.    *)
LEMMA RecordIsManager ==
    ASSUME NEW l, NEW cs, NEW k, NEW s, NEW p,
           IsList(l), IsCursors(cs), Standing(l, cs), k \in Int, s \in Nat, p \in Nat
    PROVE  IsManager(Record(l, cs, k, s, p))
  BY DEF Record, IsManager

(* The fields of a manager written by its parts.                           *)
LEMMA RecordFields ==
    ASSUME NEW l, NEW cs, NEW k, NEW s, NEW p, NEW r, r = Record(l, cs, k, s, p)
    PROVE  /\ r.list = l /\ r.cursors = cs /\ r.numItems = k
           /\ r.lastBySeqno = s /\ r.pre = p
  BY DEF Record

(* Replacing the list of a manager, which trimming and addNewCheckpoint    *)
(* do.                                                                     *)
LEMMA MgrList ==
    ASSUME NEW m, NEW x, IsManager(m)
    PROVE  [m EXCEPT !.list = x] = Record(x, m.cursors, m.numItems, m.lastBySeqno, m.pre)
  BY DEF IsManager, Record

(* Replacing the cursors of a manager, which every move of a cursor does.  *)
LEMMA MgrCursors ==
    ASSUME NEW m, NEW x, IsManager(m)
    PROVE  [m EXCEPT !.cursors = x] = Record(m.list, x, m.numItems, m.lastBySeqno, m.pre)
  BY DEF IsManager, Record

(* Replacing numItems, the manager's own count.                            *)
LEMMA MgrNumItems ==
    ASSUME NEW m, NEW x, IsManager(m)
    PROVE  [m EXCEPT !.numItems = x] = Record(m.list, m.cursors, x, m.lastBySeqno, m.pre)
  BY DEF IsManager, Record

(* Replacing lastBySeqno, which queueDirty does.                           *)
LEMMA MgrLastBySeqno ==
    ASSUME NEW m, NEW x, IsManager(m)
    PROVE  [m EXCEPT !.lastBySeqno = x] = Record(m.list, m.cursors, m.numItems, x, m.pre)
  BY DEF IsManager, Record

(* Replacing pCursorPreCheckpointId, which itemsPersisted does.            *)
LEMMA MgrPre ==
    ASSUME NEW m, NEW x, IsManager(m)
    PROVE  [m EXCEPT !.pre = x] = Record(m.list, m.cursors, m.numItems, m.lastBySeqno, x)
  BY DEF IsManager, Record

(* Replacing list and cursors together, as a move of names and cursors     *)
(* does.                                                                   *)
LEMMA MgrListCursors ==
    ASSUME NEW m, NEW x, NEW y, IsManager(m)
    PROVE  [m EXCEPT !.list = x, !.cursors = y] =
             Record(x, y, m.numItems, m.lastBySeqno, m.pre)
  <1> DEFINE d == [m EXCEPT !.list = x]
  <1>1. [m EXCEPT !.list = x, !.cursors = y] = [d EXCEPT !.cursors = y]
    BY DEF IsManager
  <1>2. d = Record(x, m.cursors, m.numItems, m.lastBySeqno, m.pre)
    BY DEF IsManager, Record
  <1> HIDE DEF d
  <1>3. [d EXCEPT !.cursors = y] = Record(x, y, m.numItems, m.lastBySeqno, m.pre)
    BY <1>2 DEF Record
  <1> QED
    BY <1>1, <1>3

(* The parts of a manager.                                                 *)
LEMMA MgrParts ==
    ASSUME NEW m, IsManager(m)
    PROVE  /\ IsList(m.list) /\ IsCursors(m.cursors) /\ Standing(m.list, m.cursors)
           /\ m.numItems \in Int /\ m.lastBySeqno \in Nat /\ m.pre \in Nat
           /\ DOMAIN m.list = 1 .. Len(m.list) /\ Len(m.list) \in Nat
           /\ Len(m.list) \in 1 .. Len(m.list)
  BY ListFacts DEF IsManager

(* Replacing one checkpoint of a list.                                     *)
LEMMA ReplaceInList ==
    ASSUME NEW l, NEW j, NEW c, IsList(l), j \in 1 .. Len(l), Shaped(c)
    PROVE  LET r == [l EXCEPT ![j] = c]
           IN /\ IsList(r)
              /\ Len(r) = Len(l)
              /\ \A i \in 1 .. Len(l) : r[i] = IF i = j THEN c ELSE l[i]
  <1> DEFINE r == [l EXCEPT ![j] = c]
  <1>1. l \in Seq(Checkpoints) /\ c \in Checkpoints
    BY DEF IsList, Shaped
  <1>2. r \in Seq(Checkpoints) /\ Len(r) = Len(l)
    BY <1>1
  <1>3. \A i \in 1 .. Len(l) : r[i] = IF i = j THEN c ELSE l[i]
    BY <1>1
  <1>4. \A i \in 1 .. Len(l) : Shaped(r[i])
    BY <1>3 DEF IsList
  <1> QED
    BY <1>2, <1>3, <1>4 DEF IsList

(* Replacing the last checkpoint by one with the same names and not fewer  *)
(* items keeps every cursor in place.                                      *)
LEMMA SetBackKeeps ==
    ASSUME NEW m, NEW c,
           IsManager(m), Shaped(c), c.names = Back(m).names,
           Len(c.toWrite) >= Len(Back(m).toWrite)
    PROVE  /\ IsManager(SetBack(m, c))
           /\ Len(SetBack(m, c).list) = Len(m.list)
           /\ Back(SetBack(m, c)) = c
           /\ \A i \in 1 .. Len(m.list) :
                SetBack(m, c).list[i] = IF i = Len(m.list) THEN c ELSE m.list[i]
           /\ SetBack(m, c) = Record([m.list EXCEPT ![Len(m.list)] = c], m.cursors,
                                     m.numItems, m.lastBySeqno, m.pre)
  <1> DEFINE l == [m.list EXCEPT ![Len(m.list)] = c]
  <1>1. SetBack(m, c) = Record(l, m.cursors, m.numItems, m.lastBySeqno, m.pre)
    BY DEF SetBack, Record, IsManager
  <1>2. IsList(m.list) /\ Len(m.list) \in 1 .. Len(m.list)
    BY ListFacts DEF IsManager
  <1>3. /\ IsList(l) /\ Len(l) = Len(m.list)
        /\ \A i \in 1 .. Len(m.list) : l[i] = IF i = Len(m.list) THEN c ELSE m.list[i]
    BY <1>2, ReplaceInList
  <1>4. \A i \in 1 .. Len(m.list) : l[i].names = m.list[i].names
                                  /\ Len(l[i].toWrite) >= Len(m.list[i].toWrite)
    BY <1>2, <1>3, ListFacts DEF Back
  <1>5. IsCursors(m.cursors) /\ Standing(m.list, m.cursors)
    BY DEF IsManager
  <1>6. Standing(l, m.cursors)
    BY <1>2, <1>3, <1>4, <1>5, StandingKept
  <1>7. IsManager(SetBack(m, c))
    BY <1>1, <1>3, <1>5, <1>6, RecordIsManager DEF IsManager
  <1>8. SetBack(m, c).list = l
    BY <1>1 DEF Record
  <1> QED
    BY <1>1, <1>2, <1>3, <1>7, <1>8 DEF Back

(* A checkpoint by its parts.                                              *)
Chk(id, state, s, e, w, names) ==
    [id |-> id, state |-> state, snapStart |-> s, snapEnd |-> e, toWrite |-> w, names |-> names]

(* The parts of a checkpoint of the expected shape, and their types.       *)
LEMMA ShapedParts ==
    ASSUME NEW c, Shaped(c)
    PROVE  /\ c = Chk(c.id, c.state, c.snapStart, c.snapEnd, c.toWrite, c.names)
           /\ c.id \in Nat /\ c.state \in {"open", "closed"}
           /\ c.snapStart \in Nat /\ c.snapEnd \in Nat
           /\ c.toWrite \in Seq(Items) /\ c.names \in SUBSET CursorNames
           /\ Len(c.toWrite) \in Nat /\ Len(c.toWrite) >= 2
           /\ c.toWrite[1].op = "empty"
  <1>1. c \in Checkpoints
    BY DEF Shaped
  <1>2. c.toWrite \in Seq(Items)
    BY <1>1 DEF Checkpoints
  <1> QED
    BY <1>1, <1>2 DEF Shaped, Checkpoints, Chk

(* A checkpoint put together from parts of the right type has that shape.  *)
LEMMA PartsShaped ==
    ASSUME NEW id, NEW state, NEW s, NEW e, NEW w, NEW names,
           id \in Nat, state \in {"open", "closed"}, s \in Nat, e \in Nat,
           w \in Seq(Items), names \in SUBSET CursorNames, Len(w) >= 2,
           w[1].op = "empty"
    PROVE  Shaped(Chk(id, state, s, e, w, names))
  BY DEF Shaped, Checkpoints, Chk

(* The fields of a checkpoint written by its parts.                        *)
LEMMA ChkFields ==
    ASSUME NEW id, NEW state, NEW s, NEW e, NEW w, NEW names
    PROVE  /\ Chk(id, state, s, e, w, names).id = id
           /\ Chk(id, state, s, e, w, names).state = state
           /\ Chk(id, state, s, e, w, names).snapStart = s
           /\ Chk(id, state, s, e, w, names).snapEnd = e
           /\ Chk(id, state, s, e, w, names).toWrite = w
           /\ Chk(id, state, s, e, w, names).names = names
  BY DEF Chk

(* Checkpoint::setId.                                                      *)
LEMMA ExceptId ==
    ASSUME NEW c, NEW x, Shaped(c)
    PROVE  [c EXCEPT !.id = x] = Chk(x, c.state, c.snapStart, c.snapEnd, c.toWrite, c.names)
  BY ShapedParts DEF Chk

(* registerCursorName and removeCursorName.                                *)
LEMMA ExceptNames ==
    ASSUME NEW c, NEW x, Shaped(c)
    PROVE  [c EXCEPT !.names = x] = Chk(c.id, c.state, c.snapStart, c.snapEnd, c.toWrite, x)
  BY ShapedParts DEF Chk

(* Appending to, or erasing from, toWrite.                                 *)
LEMMA ExceptItems ==
    ASSUME NEW c, NEW x, Shaped(c)
    PROVE  [c EXCEPT !.toWrite = x] = Chk(c.id, c.state, c.snapStart, c.snapEnd, x, c.names)
  BY ShapedParts DEF Chk

(* Checkpoint::setSnapshotEndSeqno.                                        *)
LEMMA ExceptEnd ==
    ASSUME NEW c, NEW x, Shaped(c)
    PROVE  [c EXCEPT !.snapEnd = x] = Chk(c.id, c.state, c.snapStart, x, c.toWrite, c.names)
  BY ShapedParts DEF Chk

(* Setting both ends of the snapshot range.                                *)
LEMMA ExceptRange ==
    ASSUME NEW c, NEW x, NEW y, Shaped(c)
    PROVE  [c EXCEPT !.snapStart = x, !.snapEnd = y] = Chk(c.id, c.state, x, y, c.toWrite, c.names)
  <1> DEFINE d == [c EXCEPT !.snapStart = x]
  <1>1. c = Chk(c.id, c.state, c.snapStart, c.snapEnd, c.toWrite, c.names)
    BY ShapedParts
  <1>2. [c EXCEPT !.snapStart = x, !.snapEnd = y] = [d EXCEPT !.snapEnd = y]
    BY <1>1 DEF Chk
  <1>3. d = Chk(c.id, c.state, x, c.snapEnd, c.toWrite, c.names)
    BY <1>1 DEF Chk
  <1> HIDE DEF d
  <1>4. [d EXCEPT !.snapEnd = y] = Chk(c.id, c.state, x, y, c.toWrite, c.names)
    BY <1>3 DEF Chk
  <1> QED
    BY <1>2, <1>4

(* closeOpenCheckpoint: the end item is appended and the state set.        *)
LEMMA ExceptClosed ==
    ASSUME NEW c, NEW x, NEW y, Shaped(c)
    PROVE  [c EXCEPT !.toWrite = x, !.state = y] = Chk(c.id, y, c.snapStart, c.snapEnd, x, c.names)
  <1> DEFINE d == [c EXCEPT !.toWrite = x]
  <1>1. c = Chk(c.id, c.state, c.snapStart, c.snapEnd, c.toWrite, c.names)
    BY ShapedParts
  <1>2. [c EXCEPT !.toWrite = x, !.state = y] = [d EXCEPT !.state = y]
    BY <1>1 DEF Chk
  <1>3. d = Chk(c.id, c.state, c.snapStart, c.snapEnd, x, c.names)
    BY <1>1 DEF Chk
  <1> HIDE DEF d
  <1>4. [d EXCEPT !.state = y] = Chk(c.id, y, c.snapStart, c.snapEnd, x, c.names)
    BY <1>3 DEF Chk
  <1> QED
    BY <1>2, <1>4

(* The back of a manager is a checkpoint.                                  *)
LEMMA BackShaped ==
    ASSUME NEW m, IsManager(m)
    PROVE  Shaped(Back(m)) /\ Len(m.list) \in Nat /\ Len(m.list) >= 1
  BY ListFacts DEF IsManager, IsList, Back

(* Appending an item to a checkpoint.                                      *)
LEMMA AppendItem ==
    ASSUME NEW w, NEW item,
           w \in Seq(Items), Len(w) >= 2, w[1].op = "empty", item \in Items
    PROVE  /\ Append(w, item) \in Seq(Items)
           /\ Len(Append(w, item)) = Len(w) + 1
           /\ Append(w, item)[1].op = "empty"
           /\ \A j \in 1 .. Len(w) : Append(w, item)[j] = w[j]
           /\ Append(w, item)[Len(w) + 1] = item
  OBVIOUS

(* Names follow the cursors that move.                                     *)
LEMMA MoveNamesFollow ==
    ASSUME NEW l, NEW before, NEW after, NEW r,
           IsList(l), IsCursors(before), IsCursors(after), DOMAIN after = DOMAIN before,
           \A i \in 1 .. Len(l) : l[i].names = {n \in DOMAIN before : before[n].chk = i},
           r = MoveNames(l, before, after)
    PROVE  /\ IsList(r) /\ Len(r) = Len(l)
           /\ \A i \in 1 .. Len(l) :
                /\ r[i].names = {n \in DOMAIN after : after[n].chk = i}
                /\ r[i].toWrite = l[i].toWrite
                /\ r[i].id = l[i].id /\ r[i].state = l[i].state
  <1> DEFINE new(i) == (l[i].names \ {n \in DOMAIN before : before[n].chk = i /\ after[n].chk # i})
                          \cup {n \in DOMAIN before : before[n].chk # i /\ after[n].chk = i}
  <1>1. DOMAIN l = 1 .. Len(l) /\ Len(l) \in Nat
    BY ListFacts
  <1>2. r = [i \in 1 .. Len(l) |-> [l[i] EXCEPT !.names = new(i)]]
    BY <1>1, Zenon DEF MoveNames
  <1>3. ASSUME NEW i \in 1 .. Len(l)
        PROVE  /\ Shaped(r[i])
               /\ r[i].names = {n \in DOMAIN after : after[n].chk = i}
               /\ r[i].toWrite = l[i].toWrite
               /\ r[i].id = l[i].id /\ r[i].state = l[i].state
    <2>1. new(i) = {n \in DOMAIN after : after[n].chk = i}
      OBVIOUS
    <2>2. new(i) \in SUBSET CursorNames
      BY <2>1 DEF IsCursors
    <2> DEFINE N == new(i)
    <2>3. r[i] = [l[i] EXCEPT !.names = N]
      BY <1>2
    <2>4. Shaped(l[i])
      BY DEF IsList
    <2> HIDE DEF N
    <2>5. r[i] = Chk(l[i].id, l[i].state, l[i].snapStart, l[i].snapEnd, l[i].toWrite, N)
      BY <2>3, <2>4, ShapedParts DEF Chk
    <2>6. Shaped(r[i])
      BY <2>2, <2>4, <2>5, ShapedParts, PartsShaped DEF N
    <2>7. /\ r[i].names = N /\ r[i].toWrite = l[i].toWrite
          /\ r[i].id = l[i].id /\ r[i].state = l[i].state
      BY ONLY <2>5, ChkFields
    <2> QED
      BY <2>1, <2>6, <2>7, Zenon DEF N
  <1>4. r \in Seq(Checkpoints) /\ Len(r) = Len(l)
    <2>1. \A i \in 1 .. Len(l) : r[i] \in Checkpoints
      BY <1>3 DEF Shaped
    <2>2. r \in [1 .. Len(l) -> Checkpoints]
      BY <1>2, <2>1
    <2> QED
      BY <1>1, <2>2, FunctionIsSequence
  <1> QED
    BY <1>1, <1>3, <1>4 DEF IsList

(* createCheckpointItem makes an item.                                     *)
LEMMA CheckpointItem ==
    ASSUME NEW op, NEW s, op \in Ops, s \in Nat
    PROVE  CreateCheckpointItem(op, s) \in Items
  BY DEF CreateCheckpointItem, Items, Ops

(* closeOpenCheckpoint keeps the cursors.                                  *)
LEMMA CloseKeeps ==
    ASSUME NEW m, IsManager(m)
    PROVE  LET r == CloseOpenCheckpoint(m)
           IN /\ IsManager(r) /\ Len(r.list) = Len(m.list)
              /\ r.cursors = m.cursors /\ r.lastBySeqno = m.lastBySeqno /\ r.pre = m.pre
              /\ \A i \in 1 .. Len(m.list) : r.list[i].id = m.list[i].id
  <1> DEFINE endItem == CreateCheckpointItem("end", m.lastBySeqno)
             b == Back(m)
             c == [b EXCEPT !.toWrite = Append(@, endItem), !.state = "closed"]
             r == CloseOpenCheckpoint(m)
  <1>1. CASE Back(m).state = "closed"
    BY <1>1 DEF CloseOpenCheckpoint
  <1>2. CASE Back(m).state = "open"
    <2>1. Shaped(b) /\ m.lastBySeqno \in Nat
      BY BackShaped DEF IsManager
    <2>2. endItem \in Items
      BY <2>1, CheckpointItem DEF Ops
    <2> HIDE DEF endItem, b
    <2> DEFINE w == Append(b.toWrite, endItem)
    <2>w. w \in Seq(Items) /\ Len(w) = Len(b.toWrite) + 1 /\ w[1].op = "empty"
      BY <2>1, <2>2, ShapedParts, AppendItem
    <2> HIDE DEF w
    <2>3. c = Chk(b.id, "closed", b.snapStart, b.snapEnd, w, b.names)
      <3>1. c = [b EXCEPT !.toWrite = w, !.state = "closed"]
        BY DEF w
      <3> HIDE DEF c
      <3> QED
        BY <2>1, <3>1, ExceptClosed, Zenon
    <2>4. Shaped(c) /\ c.names = b.names /\ Len(c.toWrite) >= Len(b.toWrite) /\ c.id = b.id
      BY <2>1, <2>w, <2>3, ShapedParts, PartsShaped, ChkFields
    <2> DEFINE q == SetBack(m, c)
    <2> HIDE DEF c
    <2>5. /\ IsManager(q) /\ Len(q.list) = Len(m.list) /\ Back(q) = c
          /\ \A i \in 1 .. Len(m.list) : q.list[i] = IF i = Len(m.list) THEN c ELSE m.list[i]
          /\ q = Record([m.list EXCEPT ![Len(m.list)] = c], m.cursors,
                        m.numItems, m.lastBySeqno, m.pre)
      BY <2>4, SetBackKeeps DEF b
    <2>6. q.cursors = m.cursors /\ q.lastBySeqno = m.lastBySeqno /\ q.pre = m.pre
      BY <2>5 DEF Record
    <2>7. r = [q EXCEPT !.numItems = @ + 1]
      BY <1>2 DEF CloseOpenCheckpoint, c, b, endItem
    <2> HIDE DEF q, r
    <2> DEFINE k == q.numItems + 1
    <2>k. k \in Int
      BY <2>5 DEF IsManager
    <2>8. r = [q EXCEPT !.numItems = k]
      BY <2>7
    <2> HIDE DEF k
    <2>8a. r = Record(q.list, q.cursors, k, q.lastBySeqno, q.pre)
      BY <2>5, <2>8 DEF IsManager, Record
    <2>q. /\ IsList(q.list) /\ IsCursors(q.cursors) /\ Standing(q.list, q.cursors)
          /\ q.lastBySeqno \in Nat /\ q.pre \in Nat
      BY <2>5 DEF IsManager
    <2>9. IsManager(r)
      BY <2>q, <2>k, <2>8a, RecordIsManager
    <2>10. r.list = q.list /\ r.cursors = m.cursors /\ r.lastBySeqno = m.lastBySeqno /\ r.pre = m.pre
      BY <2>6, <2>8a DEF Record
    <2> QED
      BY <2>4, <2>5, <2>9, <2>10 DEF r, b, Back
  <1>3. Back(m).state \in {"open", "closed"}
    BY BackShaped, ShapedParts
  <1> QED
    BY <1>1, <1>2, <1>3

(* A new checkpoint is open, holds its dummy and start items, and has no   *)
(* cursor.                                                                 *)
LEMMA NewCheckpointShaped ==
    ASSUME NEW id, NEW s, NEW e, NEW last, NEW c,
           c = NewCheckpoint(id, s, e, last), id \in Nat, s \in Nat, e \in Nat, last \in Nat
    PROVE  Shaped(c) /\ c.names = {} /\ c.state = "open" /\ c.id = id
  <1> DEFINE a == CreateCheckpointItem("empty", last)
             b == CreateCheckpointItem("start", last)
             w == << a, b >>
  <1>1. a \in Items /\ b \in Items
    BY CheckpointItem DEF Ops
  <1>2. a.op = "empty" /\ b.op = "start"
    BY DEF CreateCheckpointItem
  <1> HIDE DEF a, b
  <1>3. w \in Seq(Items) /\ Len(w) = 2 /\ w[1].op = "empty"
    BY <1>1, <1>2
  <1>4. c = Chk(id, "open", s, e, w, {})
    BY DEF NewCheckpoint, a, b, Chk
  <1> HIDE DEF w
  <1>5. Shaped(c)
    <2>1. {} \in SUBSET CursorNames /\ "open" \in {"open", "closed"} /\ Len(w) >= 2
      BY <1>3
    <2> QED
      BY <1>3, <1>4, <2>1, PartsShaped
  <1> QED
    BY <1>3, <1>4, <1>5, ChkFields

(* The same checkpoint with other names.                                   *)
LEMMA NamesShaped ==
    ASSUME NEW c, NEW names, Shaped(c), names \in SUBSET CursorNames
    PROVE  LET d == [c EXCEPT !.names = names]
           IN /\ Shaped(d) /\ d.names = names /\ d.state = c.state /\ d.id = c.id
              /\ d.toWrite = c.toWrite
  <1> DEFINE d == [c EXCEPT !.names = names]
  <1>1. d = Chk(c.id, c.state, c.snapStart, c.snapEnd, c.toWrite, names)
    BY ExceptNames, Zenon
  <1> HIDE DEF d
  <1>2. Shaped(d)
    BY <1>1, ShapedParts, PartsShaped
  <1> QED
    BY <1>1, <1>2, ChkFields DEF d

(* A cursor after addNewCheckpoint.                                        *)
LEMMA CursorAfterAddType ==
    ASSUME NEW list, NEW n, NEW cur, cur \in Cursors
    PROVE  LET a == CursorAfterAdd(list, n, cur)
           IN /\ a \in Cursors
              /\ \/ a = cur
                 \/ a.chk = cur.chk + 1 /\ a.pos = 1
  <1> DEFINE c == list[cur.chk]
             o == IF SkipsEnd(c, n, cur) THEN cur.offset + 1 ELSE cur.offset
  <1>1. o \in Int /\ cur.chk + 1 \in Nat
    BY DEF Cursors
  <1> HIDE DEF o
  <1>2. [chk |-> cur.chk + 1, pos |-> 1, offset |-> o] \in Cursors
    BY <1>1 DEF Cursors
  <1>3. CursorAfterAdd(list, n, cur) = IF EntersNext(c, n, cur)
                                       THEN [chk |-> cur.chk + 1, pos |-> 1, offset |-> o]
                                       ELSE cur
    BY DEF CursorAfterAdd, o
  <1> QED
    BY <1>2, <1>3

(* addNewCheckpoint: the list grows by an open checkpoint.                 *)
LEMMA AddNewCheckpointKeeps ==
    ASSUME NEW m, NEW id, NEW s, NEW e, NEW r,
           r = AddNewCheckpointWithSnapshot(m, id, s, e), IsManager(m), id \in Nat, s \in Nat, e \in Nat
    PROVE  /\ IsManager(r)
           /\ Len(r.list) = Len(m.list) + 1
           /\ Back(r).state = "open" /\ Back(r).id = id
           /\ r.lastBySeqno = m.lastBySeqno /\ r.pre = m.pre
  <1> DEFINE closed == CloseOpenCheckpoint(m)
             c == NewCheckpoint(id, s, e, m.lastBySeqno)
             list == Append(closed.list, c)
             cs == [n \in DOMAIN m.cursors |-> CursorAfterAdd(list, n, m.cursors[n])]
             l == MoveNames(list, m.cursors, cs)
             k == closed.numItems + 1
  <1>1. /\ IsManager(closed) /\ Len(closed.list) = Len(m.list)
        /\ closed.cursors = m.cursors /\ closed.lastBySeqno = m.lastBySeqno /\ closed.pre = m.pre
    BY CloseKeeps
  <1>2. Shaped(c) /\ c.names = {} /\ c.state = "open" /\ c.id = id
    <2>1. m.lastBySeqno \in Nat
      BY DEF IsManager
    <2>2. c = NewCheckpoint(id, s, e, m.lastBySeqno)
      OBVIOUS
    <2> HIDE DEF c
    <2> QED
      BY <2>1, <2>2, NewCheckpointShaped
  <1>3. r = [closed EXCEPT !.list = l, !.cursors = cs, !.numItems = k]
    BY DEF AddNewCheckpointWithSnapshot
  <1>4. r = Record(l, cs, k, m.lastBySeqno, m.pre)
    <2> HIDE DEF closed, l, cs, k
    <2> DEFINE d == [closed EXCEPT !.list = l]
               f == [d EXCEPT !.cursors = cs]
    <2>1. r = [f EXCEPT !.numItems = k]
      BY <1>1, <1>3 DEF IsManager
    <2>2. closed = Record(closed.list, m.cursors, closed.numItems, m.lastBySeqno, m.pre)
      BY <1>1 DEF IsManager, Record
    <2>3. d = Record(l, m.cursors, closed.numItems, m.lastBySeqno, m.pre)
      BY <2>2 DEF Record
    <2> HIDE DEF d
    <2>4. f = Record(l, cs, closed.numItems, m.lastBySeqno, m.pre)
      BY <2>3 DEF Record
    <2> HIDE DEF f
    <2> QED
      BY <2>1, <2>4 DEF Record
  <1> HIDE DEF closed, c
  <1>5. /\ IsList(list) /\ Len(list) = Len(m.list) + 1 /\ Len(m.list) \in Nat
        /\ \A i \in 1 .. Len(m.list) : list[i] = closed.list[i]
        /\ list[Len(m.list) + 1] = c
    <2>1. IsList(closed.list) /\ Len(m.list) \in Nat
      BY <1>1, BackShaped DEF IsManager
    <2>2. closed.list \in Seq(Checkpoints) /\ c \in Checkpoints
      BY <1>2, <2>1 DEF IsList, Shaped
    <2>3. /\ list \in Seq(Checkpoints) /\ Len(list) = Len(m.list) + 1
          /\ \A i \in 1 .. Len(m.list) : list[i] = closed.list[i]
          /\ list[Len(m.list) + 1] = c
      BY <1>1, <2>1, <2>2
    <2> HIDE DEF list
    <2>4. \A i \in 1 .. Len(list) : Shaped(list[i])
      BY <1>1, <1>2, <2>1, <2>3 DEF IsList
    <2> QED
      BY <2>1, <2>3, <2>4 DEF IsList
  <1> HIDE DEF list
  <1>6. /\ IsCursors(m.cursors)
        /\ \A n \in DOMAIN m.cursors :
             /\ m.cursors[n].chk \in 1 .. Len(m.list)
             /\ m.cursors[n].pos \in 1 .. Len(list[m.cursors[n].chk].toWrite)
        /\ \A i \in 1 .. Len(m.list) : list[i].names = {n \in DOMAIN m.cursors : m.cursors[n].chk = i}
    BY <1>1, <1>5, SMTT(40) DEF IsManager, Standing
  <1>7. IsCursors(cs) /\ DOMAIN cs = DOMAIN m.cursors
    <2>1. \A n \in DOMAIN m.cursors : m.cursors[n] \in Cursors
      BY <1>6 DEF IsCursors
    <2>2. \A n \in DOMAIN m.cursors : CursorAfterAdd(list, n, m.cursors[n]) \in Cursors
      BY <2>1, CursorAfterAddType
    <2> QED
      BY <1>6, <2>2 DEF IsCursors
  <1>8. \A i \in 1 .. Len(list) : list[i].names = {n \in DOMAIN m.cursors : m.cursors[n].chk = i}
    <2>1. {n \in DOMAIN m.cursors : m.cursors[n].chk = Len(m.list) + 1} = {}
      BY <1>5, <1>6
    <2> QED
      BY <1>2, <1>5, <1>6, <2>1
  <1>9. /\ IsList(l) /\ Len(l) = Len(list)
        /\ \A i \in 1 .. Len(list) :
             /\ l[i].names = {n \in DOMAIN cs : cs[n].chk = i}
             /\ l[i].toWrite = list[i].toWrite
             /\ l[i].id = list[i].id /\ l[i].state = list[i].state
    <2> HIDE DEF cs
    <2> QED
      BY <1>5, <1>6, <1>7, <1>8, MoveNamesFollow
  <1>10. Standing(l, cs)
    <2>1. ASSUME NEW n \in DOMAIN cs
          PROVE  cs[n].chk \in 1 .. Len(l) /\ cs[n].pos \in 1 .. Len(l[cs[n].chk].toWrite)
      <3>1. cs[n] = CursorAfterAdd(list, n, m.cursors[n]) /\ m.cursors[n] \in Cursors
            /\ n \in DOMAIN m.cursors
        BY <1>7, <1>6 DEF IsCursors
      <3>2. cs[n] = m.cursors[n] \/ (cs[n].chk = m.cursors[n].chk + 1 /\ cs[n].pos = 1)
        BY <3>1, CursorAfterAddType
      <3> HIDE DEF cs, l
      <3>3. cs[n].chk \in 1 .. Len(list)
        BY <1>5, <1>6, <3>1, <3>2
      <3>4. Len(list[cs[n].chk].toWrite) >= 2 /\ Len(list[cs[n].chk].toWrite) \in Nat
        BY <1>5, <3>3, ListFacts
      <3>5. cs[n].pos \in 1 .. Len(list[cs[n].chk].toWrite)
        BY <1>6, <3>1, <3>2, <3>4
      <3> QED
        BY <1>9, <3>3, <3>5
    <2> QED
      BY <1>9, <2>1 DEF Standing
  <1>11. k \in Int /\ m.lastBySeqno \in Nat /\ m.pre \in Nat
    BY <1>1 DEF IsManager
  <1> HIDE DEF l, cs, k
  <1>12. IsManager(r)
    BY <1>4, <1>7, <1>9, <1>10, <1>11, RecordIsManager
  <1>13. r.list = l /\ r.lastBySeqno = m.lastBySeqno /\ r.pre = m.pre
    BY <1>4 DEF Record
  <1>14. l[Len(l)].state = "open" /\ l[Len(l)].id = id
    BY <1>2, <1>5, <1>9
  <1> QED
    BY <1>5, <1>9, <1>12, <1>13, <1>14 DEF Back

(* What the flags of the open checkpoint are worth: a list that is still   *)
(* in its backfill phase (id 0), or has seen no seqno, is one checkpoint.  *)
Sound(m) ==
    /\ IsManager(m)
    /\ Back(m).state = "open"
    /\ Back(m).id = 0 => Len(m.list) = 1
    /\ m.lastBySeqno = 0 => Len(m.list) = 1 /\ MutationPositions(Back(m)) = {}

(* A step that leaves the last checkpoint and the length alone.            *)
SameBack(m, r) ==
    /\ r.lastBySeqno = m.lastBySeqno
    /\ Len(r.list) = Len(m.list)
    /\ Back(r).id = Back(m).id
    /\ Back(r).state = Back(m).state
    /\ Back(r).toWrite = Back(m).toWrite

(* A step on the cursors that leaves lastBySeqno and the last checkpoint   *)
(* as they were keeps the invariant of the manager.                        *)
LEMMA SameBackSound ==
    ASSUME NEW m, NEW r, Sound(m), IsManager(r), SameBack(m, r)
    PROVE  Sound(r)
  BY DEF Sound, SameBack, MutationPositions

(* Checkpoints of a list under other names.                                *)
LEMMA RenamedList ==
    ASSUME NEW l, NEW f, NEW r,
           IsList(l), f \in [1 .. Len(l) -> SUBSET CursorNames],
           r = [i \in 1 .. Len(l) |-> [l[i] EXCEPT !.names = f[i]]]
    PROVE  /\ IsList(r) /\ Len(r) = Len(l)
           /\ \A i \in 1 .. Len(l) :
                /\ r[i].names = f[i]
                /\ r[i].toWrite = l[i].toWrite
                /\ r[i].id = l[i].id /\ r[i].state = l[i].state
  <1>1. DOMAIN l = 1 .. Len(l) /\ Len(l) \in Nat
    BY ListFacts
  <1>3. ASSUME NEW i \in 1 .. Len(l)
        PROVE  /\ Shaped(r[i]) /\ r[i].names = f[i]
               /\ r[i].toWrite = l[i].toWrite
               /\ r[i].id = l[i].id /\ r[i].state = l[i].state
    <2> DEFINE N == f[i]
    <2>2. N \in SUBSET CursorNames
      OBVIOUS
    <2>3. r[i] = [l[i] EXCEPT !.names = N]
      OBVIOUS
    <2>4. Shaped(l[i])
      BY DEF IsList
    <2> HIDE DEF N
    <2>5. r[i] = Chk(l[i].id, l[i].state, l[i].snapStart, l[i].snapEnd, l[i].toWrite, N)
      BY <2>3, <2>4, ShapedParts DEF Chk
    <2>6. Shaped(r[i])
      BY <2>2, <2>4, <2>5, ShapedParts, PartsShaped
    <2> QED
      BY <2>5, <2>6, ChkFields DEF N
  <1>4. r \in Seq(Checkpoints) /\ Len(r) = Len(l)
    <2>1. \A i \in 1 .. Len(l) : r[i] \in Checkpoints
      BY <1>3 DEF Shaped
    <2>2. r \in [1 .. Len(l) -> Checkpoints]
      BY <2>1
    <2> QED
      BY <1>1, <2>2, FunctionIsSequence
  <1>5. \A i \in 1 .. Len(r) : Shaped(r[i])
    BY <1>3, <1>4
  <1> QED
    BY <1>1, <1>3, <1>4, <1>5 DEF IsList

(* removeCursor of a cursor other than persistence.                        *)
LEMMA RemoveCursorKeeps ==
    ASSUME NEW m, NEW n, NEW r, IsManager(m), n # Persistence, r = RemoveCursor(m, n)
    PROVE  /\ IsManager(r) /\ SameBack(m, r) /\ r.pre = m.pre
           /\ DOMAIN r.cursors = DOMAIN m.cursors \ {n}
           /\ \A i \in 1 .. Len(m.list) : r.list[i].toWrite = m.list[i].toWrite
  <1>1. CASE n \notin DOMAIN m.cursors
    BY <1>1 DEF RemoveCursor, SameBack
  <1>2. CASE n \in DOMAIN m.cursors
    <2> DEFINE l == DropName(m.list, n)
               cs == [x \in DOMAIN m.cursors \ {n} |-> m.cursors[x]]
               f == [i \in 1 .. Len(m.list) |-> m.list[i].names \ {n}]
    <2>1. /\ IsList(m.list) /\ IsCursors(m.cursors) /\ Standing(m.list, m.cursors)
          /\ m.numItems \in Int /\ m.lastBySeqno \in Nat /\ m.pre \in Nat
          /\ DOMAIN m.list = 1 .. Len(m.list) /\ Len(m.list) \in 1 .. Len(m.list)
      BY ListFacts DEF IsManager
    <2>2. r = [m EXCEPT !.list = l, !.cursors = cs]
      BY <1>2 DEF RemoveCursor
    <2>3. r = Record(l, cs, m.numItems, m.lastBySeqno, m.pre)
      BY <2>2, MgrListCursors, Zenon
    <2>4. f \in [1 .. Len(m.list) -> SUBSET CursorNames]
      BY <2>1, ListFacts DEF Checkpoints
    <2>5. l = [i \in 1 .. Len(m.list) |-> [m.list[i] EXCEPT !.names = f[i]]]
      BY <2>1 DEF DropName
    <2> HIDE DEF l, f
    <2>6. /\ IsList(l) /\ Len(l) = Len(m.list)
          /\ \A i \in 1 .. Len(m.list) :
                /\ l[i].names = f[i]
                /\ l[i].toWrite = m.list[i].toWrite
                /\ l[i].id = m.list[i].id /\ l[i].state = m.list[i].state
      BY <2>1, <2>4, <2>5, RenamedList
    <2>7. IsCursors(cs)
      BY <2>1 DEF IsCursors
    <2>8. Standing(l, cs)
      <3>1. \A x \in DOMAIN cs : cs[x] = m.cursors[x] /\ x \in DOMAIN m.cursors /\ x # n
        OBVIOUS
      <3>2. \A i \in 1 .. Len(m.list) : l[i].names = {x \in DOMAIN cs : cs[x].chk = i}
        <4>1. \A i \in 1 .. Len(m.list) :
                m.list[i].names \ {n} = {x \in DOMAIN cs : cs[x].chk = i}
          BY <2>1 DEF Standing
        <4> QED
          BY <2>6, <4>1 DEF f
      <3> HIDE DEF cs
      <3>3. \A x \in DOMAIN cs : /\ cs[x].chk \in 1 .. Len(m.list)
                               /\ cs[x].pos \in 1 .. Len(m.list[cs[x].chk].toWrite)
        BY <2>1, <3>1 DEF Standing
      <3> QED
        BY <2>6, <3>2, <3>3 DEF Standing
    <2>c. DOMAIN cs = DOMAIN m.cursors \ {n}
      OBVIOUS
    <2> HIDE DEF cs
    <2>9. IsManager(r)
      BY <2>1, <2>3, <2>6, <2>7, <2>8, RecordIsManager
    <2>10. r.list = l /\ r.cursors = cs /\ r.lastBySeqno = m.lastBySeqno /\ r.pre = m.pre
      BY <2>3 DEF Record
    <2> QED
      BY <2>1, <2>6, <2>9, <2>10, <2>c DEF SameBack, Back
  <1> QED
    BY <1>1, <1>2

(* A cursor that stays on its checkpoint's list but moves within the list: *)
(* names follow, and the rest of the manager stays.                        *)
LEMMA MovedCursors ==
    ASSUME NEW m, NEW cs, NEW l, NEW r,
           IsManager(m), IsCursors(cs), DOMAIN cs = DOMAIN m.cursors,
           \A n \in DOMAIN cs : /\ cs[n].chk \in 1 .. Len(m.list)
                                /\ cs[n].pos \in 1 .. Len(m.list[cs[n].chk].toWrite),
           l = MoveNames(m.list, m.cursors, cs),
           r = Record(l, cs, m.numItems, m.lastBySeqno, m.pre)
    PROVE  IsManager(r) /\ SameBack(m, r) /\ r.pre = m.pre /\ r.cursors = cs
  <1>1. /\ IsList(m.list) /\ IsCursors(m.cursors) /\ Standing(m.list, m.cursors)
        /\ m.numItems \in Int /\ m.lastBySeqno \in Nat /\ m.pre \in Nat
        /\ Len(m.list) \in 1 .. Len(m.list)
    BY ListFacts DEF IsManager
  <1>2. r = Record(l, cs, m.numItems, m.lastBySeqno, m.pre)
    OBVIOUS
  <1>3. \A i \in 1 .. Len(m.list) : m.list[i].names = {n \in DOMAIN m.cursors : m.cursors[n].chk = i}
    BY <1>1 DEF Standing
  <1>4. /\ IsList(l) /\ Len(l) = Len(m.list)
        /\ \A i \in 1 .. Len(m.list) :
             /\ l[i].names = {n \in DOMAIN cs : cs[n].chk = i}
             /\ l[i].toWrite = m.list[i].toWrite
             /\ l[i].id = m.list[i].id /\ l[i].state = m.list[i].state
    BY <1>1, <1>3, MoveNamesFollow
  <1>5. Standing(l, cs)
    BY <1>4 DEF Standing
  <1>6. IsManager(r)
    BY <1>1, <1>2, <1>4, <1>5, RecordIsManager
  <1>7. r.list = l /\ r.cursors = cs /\ r.lastBySeqno = m.lastBySeqno /\ r.pre = m.pre
    BY <1>2, RecordFields
  <1> QED
    BY <1>1, <1>4, <1>6, <1>7 DEF SameBack, Back

(* The unread positions are finitely many.                                 *)
LEMMA UnreadFinite ==
    ASSUME NEW m, NEW cur, IsManager(m)
    PROVE  Cardinality(Unread(m, cur)) \in Nat
  <1> DEFINE F(i) == {i} \X (2 .. Len(m.list[i].toWrite))
             S == {F(i) : i \in DOMAIN m.list}
  <1>1. /\ DOMAIN m.list = 1 .. Len(m.list) /\ Len(m.list) \in Nat
        /\ \A i \in 1 .. Len(m.list) : Len(m.list[i].toWrite) \in Nat
    BY ListFacts DEF IsManager
  <1>2. IsFiniteSet(DOMAIN m.list)
    BY <1>1, FS_Interval
  <1>3. IsFiniteSet(S)
    <2> DEFINE g == [i \in DOMAIN m.list |-> F(i)]
    <2>1. g \in Surjection(DOMAIN m.list, S)
      BY DEF Surjection
    <2> QED
      BY <1>2, <2>1, FS_Surjection
  <1>4. \A x \in S : IsFiniteSet(x)
    <2>1. ASSUME NEW i \in DOMAIN m.list PROVE IsFiniteSet(F(i))
      <3>1. IsFiniteSet({i})
        BY FS_Singleton
      <3>2. IsFiniteSet(2 .. Len(m.list[i].toWrite))
        <4>1. \A a, b \in Int : IsFiniteSet(a .. b)
          BY FS_Interval
        <4> QED
          BY <1>1, <4>1
      <3> QED
        BY <3>1, <3>2, FS_Product
    <2> QED
      BY <2>1
  <1>5. IsFiniteSet(UNION S)
    BY <1>3, <1>4, FS_UNION
  <1>6. Unread(m, cur) \subseteq UNION S
    BY DEF Unread
  <1> QED
    BY <1>5, <1>6, FS_Subset, FS_CardinalityType

(* A cursor record by its parts.                                           *)
LEMMA RegisteredCursor ==
    ASSUME NEW a, NEW b, NEW o, a \in Nat, b \in Nat, o \in Int
    PROVE  /\ Registered(a, b, o) \in Cursors
           /\ Registered(a, b, o).chk = a /\ Registered(a, b, o).pos = b
  BY DEF Registered, Cursors

(* One cursor moves to a position of the list.                             *)
LEMMA MoveOneCursor ==
    ASSUME NEW m, NEW n, NEW to, NEW cs, NEW l, NEW r,
           IsManager(m), n \in DOMAIN m.cursors, to \in Cursors,
           to.chk \in 1 .. Len(m.list), to.pos \in 1 .. Len(m.list[to.chk].toWrite),
           cs \in [DOMAIN m.cursors -> Cursors], cs[n] = to,
           \A x \in DOMAIN m.cursors : x # n => cs[x] = m.cursors[x],
           l = MoveNames(m.list, m.cursors, cs),
           r = Record(l, cs, m.numItems, m.lastBySeqno, m.pre)
    PROVE  IsManager(r) /\ SameBack(m, r) /\ r.pre = m.pre /\ r.cursors = cs
  <1>2. IsCursors(m.cursors) /\ Standing(m.list, m.cursors)
    BY DEF IsManager
  <1>3. DOMAIN cs = DOMAIN m.cursors
    OBVIOUS
  <1>4. IsCursors(cs)
    BY <1>2, <1>3 DEF IsCursors
  <1>5. ASSUME NEW x \in DOMAIN cs
        PROVE  cs[x].chk \in 1 .. Len(m.list) /\ cs[x].pos \in 1 .. Len(m.list[cs[x].chk].toWrite)
    <2>1. CASE x = n
      BY <1>3, <2>1
    <2>2. CASE x # n
      BY <1>2, <1>3, <2>2 DEF Standing
    <2> QED
      BY <2>1, <2>2
  <1> QED
    BY <1>3, <1>4, <1>5, MovedCursors

(* incrCursor                                                              *)
LEMMA IncrCursorKeeps ==
    ASSUME NEW m, NEW n, NEW r,
           IsManager(m), n \in DOMAIN m.cursors, r = IncrCursor(m, n)
    PROVE  IsManager(r) /\ SameBack(m, r) /\ r.pre = m.pre
  <1> DEFINE cur == m.cursors[n]
             to == IF cur.pos < Len(m.list[cur.chk].toWrite)
                   THEN Registered(cur.chk, cur.pos + 1, cur.offset + 1)
                   ELSE Registered(cur.chk + 1, 2, cur.offset + 1)
             cs == [m.cursors EXCEPT ![n] = to]
             l == MoveNames(m.list, m.cursors, cs)
  <1>1. CASE ~ HasNextItem(m, cur)
    BY <1>1 DEF IncrCursor, SameBack
  <1>2. CASE HasNextItem(m, cur)
    <2>1. cur \in Cursors /\ cur.chk \in 1 .. Len(m.list)
          /\ cur.pos \in 1 .. Len(m.list[cur.chk].toWrite)
      BY DEF IsManager, IsCursors, Standing
    <2>2. cur.chk \in Nat /\ cur.pos \in Nat /\ cur.offset \in Int
      BY <2>1 DEF Cursors
    <2>3. /\ IsList(m.list) /\ Len(m.list) \in Nat
          /\ \A i \in 1 .. Len(m.list) : Len(m.list[i].toWrite) \in Nat
                                         /\ Len(m.list[i].toWrite) >= 2
      BY ListFacts DEF IsManager
    <2>4. to \in Cursors /\ to.chk \in 1 .. Len(m.list) /\ to.pos \in 1 .. Len(m.list[to.chk].toWrite)
      <3>1. CASE cur.pos < Len(m.list[cur.chk].toWrite)
        <4>1. /\ to = Registered(cur.chk, cur.pos + 1, cur.offset + 1)
              /\ cur.pos + 1 \in Nat /\ cur.offset + 1 \in Int
          BY <2>2, <3>1
        <4> HIDE DEF to
        <4>2. to \in Cursors /\ to.chk = cur.chk /\ to.pos = cur.pos + 1
          BY <2>2, <4>1, RegisteredCursor
        <4>3. cur.pos + 1 \in 1 .. Len(m.list[cur.chk].toWrite)
          <5> DEFINE w == Len(m.list[cur.chk].toWrite)
          <5>1. w \in Nat
            BY <2>1, <2>3
          <5> HIDE DEF w, cur
          <5> QED
            BY <2>2, <3>1, <5>1 DEF w
        <4> QED
          BY <2>1, <4>2, <4>3
      <3>2. CASE ~ cur.pos < Len(m.list[cur.chk].toWrite)
        <4>1. /\ to = Registered(cur.chk + 1, 2, cur.offset + 1)
              /\ cur.chk + 1 \in Nat /\ cur.offset + 1 \in Int /\ 2 \in Nat
          BY <2>2, <3>2
        <4> HIDE DEF to
        <4>2. to \in Cursors /\ to.chk = cur.chk + 1 /\ to.pos = 2
          BY <4>1, RegisteredCursor
        <4>3. cur.chk + 1 \in 1 .. Len(m.list)
          <5>1. cur.chk < Len(m.list)
            BY ONLY <1>2, <3>2, Zenon DEF HasNextItem
          <5>2. Len(m.list) \in Nat
            BY <2>3
          <5> HIDE DEF cur
          <5> QED
            BY ONLY <2>2, <5>1, <5>2
        <4> QED
          BY <2>3, <4>2, <4>3
      <3> QED
        BY <3>1, <3>2
    <2>5. r = [m EXCEPT !.list = l, !.cursors = cs]
      BY <1>2 DEF IncrCursor
    <2> HIDE DEF to
    <2>6. r = Record(l, cs, m.numItems, m.lastBySeqno, m.pre)
      BY <2>5, MgrListCursors, Zenon
    <2>7. /\ cs \in [DOMAIN m.cursors -> Cursors] /\ cs[n] = to
          /\ \A x \in DOMAIN m.cursors : x # n => cs[x] = m.cursors[x]
      BY <2>4 DEF IsManager, IsCursors
    <2>8. l = MoveNames(m.list, m.cursors, cs)
      OBVIOUS
    <2> HIDE DEF cs, l
    <2> QED
      BY <2>4, <2>6, <2>7, <2>8, MoveOneCursor
  <1> QED
    BY <1>1, <1>2

(* A non-empty set of natural numbers has a least member.                  *)
LEMMA LeastNat ==
    ASSUME NEW S, S \subseteq Nat, S # {}
    PROVE  \E x \in S : \A y \in S : x <= y
  <1>1. IsWellFoundedOn(OpToRel(<, Nat), Nat)
    BY NatLessThanWellFounded
  <1>2. PICK x \in S : \A y \in S : ~ (<<y, x>> \in OpToRel(<, Nat))
    BY <1>1, WFMin
  <1>3. \A y \in S : ~ (y < x)
    BY <1>2 DEF OpToRel
  <1> QED
    BY <1>3

(* getAllItemsForCursor                                                    *)
LEMMA GetAllItemsKeeps ==
    ASSUME NEW m, NEW n, NEW r,
           IsManager(m), n \in DOMAIN m.cursors, r = GetAllItemsForCursor(m, n)
    PROVE  IsManager(r) /\ SameBack(m, r) /\ r.pre = m.pre
  <1> DEFINE o == m.cursors[n].offset + Cardinality(Unread(m, m.cursors[n]))
             to == Registered(Len(m.list), Len(Back(m).toWrite), o)
             cs == [m.cursors EXCEPT ![n] = to]
             l == MoveNames(m.list, m.cursors, cs)
  <1>1. r = [m EXCEPT !.list = l, !.cursors = cs]
    BY DEF GetAllItemsForCursor
  <1>2. o \in Int
    <2>1. m.cursors[n].offset \in Int
      BY DEF IsManager, IsCursors, Cursors
    <2> QED
      BY <2>1, UnreadFinite
  <1> HIDE DEF o
  <1>3. /\ Len(m.list) \in Nat /\ Len(m.list) \in 1 .. Len(m.list)
        /\ Len(Back(m).toWrite) \in Nat /\ Len(Back(m).toWrite) >= 2
    BY ListFacts DEF IsManager, Back
  <1>4. to \in Cursors /\ to.chk = Len(m.list) /\ to.pos = Len(Back(m).toWrite)
    BY <1>2, <1>3, RegisteredCursor
  <1> HIDE DEF to
  <1>5. to.chk \in 1 .. Len(m.list) /\ to.pos \in 1 .. Len(m.list[to.chk].toWrite)
    BY <1>3, <1>4 DEF Back
  <1>6. r = Record(l, cs, m.numItems, m.lastBySeqno, m.pre)
    BY <1>1, MgrListCursors, Zenon
  <1>7. /\ cs \in [DOMAIN m.cursors -> Cursors] /\ cs[n] = to
        /\ \A x \in DOMAIN m.cursors : x # n => cs[x] = m.cursors[x]
    BY <1>4 DEF IsManager, IsCursors
  <1>8. l = MoveNames(m.list, m.cursors, cs)
    OBVIOUS
  <1> HIDE DEF cs, l
  <1> QED
    BY <1>4, <1>5, <1>6, <1>7, <1>8, MoveOneCursor, SMTT(60)

(* decrCursorFromCheckpointEnd: the dummy item is never an end item.       *)
LEMMA DecrCursorKeeps ==
    ASSUME NEW m, NEW n, NEW r, IsManager(m), r = DecrCursorFromCheckpointEnd(m, n)
    PROVE  IsManager(r) /\ SameBack(m, r) /\ r.pre = m.pre
  <1> DEFINE cur == m.cursors[n]
             to == [cur EXCEPT !.pos = cur.pos - 1]
             cs == [m.cursors EXCEPT ![n] = to]
  <1>1. CASE ~ (n \in DOMAIN m.cursors /\ m.list[cur.chk].toWrite[cur.pos].op = "end")
    BY <1>1 DEF DecrCursorFromCheckpointEnd, SameBack
  <1>2. CASE n \in DOMAIN m.cursors /\ m.list[cur.chk].toWrite[cur.pos].op = "end"
    <2>1. /\ IsList(m.list) /\ IsCursors(m.cursors) /\ Standing(m.list, m.cursors)
          /\ m.numItems \in Int /\ m.lastBySeqno \in Nat /\ m.pre \in Nat
      BY MgrParts
    <2>2. r = [m EXCEPT !.cursors = cs]
      BY <1>2 DEF DecrCursorFromCheckpointEnd
    <2>3. /\ cur \in Cursors /\ cur.chk \in 1 .. Len(m.list)
          /\ cur.pos \in 1 .. Len(m.list[cur.chk].toWrite)
      BY <1>2, <2>1 DEF IsCursors, Standing
    <2>4. m.list[cur.chk].toWrite[1].op = "empty" /\ Len(m.list[cur.chk].toWrite) \in Nat
      BY <2>1, <2>3, ListFacts DEF IsList, Shaped
    <2> HIDE DEF cur
    <2>5. cur.pos \in Nat /\ cur.pos # 1 /\ cur.pos # 0
      <3>1. cur.pos # 1
        BY <1>2, <2>4
      <3> QED
        BY <2>3, <2>4, <3>1
    <2>6. to \in Cursors /\ to.chk = cur.chk /\ to.pos = cur.pos - 1
      BY <2>3, <2>5 DEF Cursors
    <2>7. to.pos \in 1 .. Len(m.list[cur.chk].toWrite)
      BY <2>3, <2>4, <2>5, <2>6, SMTT(60)
    <2> HIDE DEF to
    <2>8. IsCursors(cs) /\ DOMAIN cs = DOMAIN m.cursors
      BY <2>1, <2>6 DEF IsCursors
    <2>9. \A x \in DOMAIN cs : cs[x].chk = m.cursors[x].chk
                               /\ (cs[x].pos = m.cursors[x].pos \/ (x = n /\ cs[x].pos = to.pos))
      BY <2>1, <2>6 DEF IsCursors, cur
    <2>10. r = Record(m.list, cs, m.numItems, m.lastBySeqno, m.pre)
      BY <2>2, MgrCursors, Zenon
    <2> HIDE DEF cs
    <2>11. Standing(m.list, cs)
      <3>1. ASSUME NEW x \in DOMAIN cs
            PROVE  cs[x].chk \in 1 .. Len(m.list) /\ cs[x].pos \in 1 .. Len(m.list[cs[x].chk].toWrite)
        <4>1. /\ m.cursors[x].chk \in 1 .. Len(m.list)
              /\ m.cursors[x].pos \in 1 .. Len(m.list[m.cursors[x].chk].toWrite)
          BY <2>1, <2>8 DEF Standing
        <4> QED
          BY <2>7, <2>9, <4>1 DEF cur
      <3>2. \A i \in 1 .. Len(m.list) : m.list[i].names = {x \in DOMAIN cs : cs[x].chk = i}
        <4>1. \A i \in 1 .. Len(m.list) :
                {x \in DOMAIN m.cursors : m.cursors[x].chk = i} = {x \in DOMAIN cs : cs[x].chk = i}
          BY <2>8, <2>9
        <4> QED
          BY <2>1, <4>1 DEF Standing
      <3> QED
        BY <3>1, <3>2 DEF Standing
    <2>12. IsManager(r)
      BY <2>1, <2>8, <2>10, <2>11, RecordIsManager
    <2>13. r.list = m.list /\ r.lastBySeqno = m.lastBySeqno /\ r.pre = m.pre
      BY <2>10, RecordFields
    <2> QED
      BY <2>12, <2>13 DEF SameBack, Back
  <1> QED
    BY <1>1, <1>2

(* A cursor is put on a list that does not have it.                        *)
LEMMA PutCursorKeeps ==
    ASSUME NEW m, NEW n, NEW cur, NEW r,
           IsManager(m), n \in CursorNames, n \notin DOMAIN m.cursors, cur \in Cursors,
           cur.chk \in 1 .. Len(m.list), cur.pos \in 1 .. Len(m.list[cur.chk].toWrite),
           r = PutCursor(m, n, cur)
    PROVE  IsManager(r) /\ SameBack(m, r) /\ r.pre = m.pre /\ n \in DOMAIN r.cursors
           /\ r.cursors[n] = cur
  <1> DEFINE a == cur.chk
             N == m.list[a].names \cup {n}
             c == [m.list[a] EXCEPT !.names = N]
             l == [m.list EXCEPT ![a] = c]
             cs == [x \in DOMAIN m.cursors \cup {n} |-> IF x = n THEN cur ELSE m.cursors[x]]
  <1>1. /\ IsList(m.list) /\ IsCursors(m.cursors) /\ Standing(m.list, m.cursors)
        /\ m.numItems \in Int /\ m.lastBySeqno \in Nat /\ m.pre \in Nat
        /\ DOMAIN m.list = 1 .. Len(m.list) /\ Len(m.list) \in Nat
        /\ Len(m.list) \in 1 .. Len(m.list)
    BY MgrParts
  <1>2. r = [m EXCEPT !.list = l, !.cursors = cs]
    BY DEF PutCursor
  <1>3. Shaped(m.list[a]) /\ N \in SUBSET CursorNames
    BY <1>1, ListFacts DEF IsList, Checkpoints
  <1>4. Shaped(c) /\ c.names = N /\ c.state = m.list[a].state /\ c.id = m.list[a].id
        /\ c.toWrite = m.list[a].toWrite
    <2> HIDE DEF N, a
    <2> QED
      BY <1>3, NamesShaped, Zenon
  <1>5. r = Record(l, cs, m.numItems, m.lastBySeqno, m.pre)
    <2> HIDE DEF l, cs
    <2> QED
      BY <1>2, MgrListCursors, Zenon
  <1> HIDE DEF c
  <1>6. /\ IsList(l) /\ Len(l) = Len(m.list)
        /\ \A i \in 1 .. Len(m.list) : l[i] = IF i = a THEN c ELSE m.list[i]
    BY <1>1, <1>4, ReplaceInList
  <1>7. IsCursors(cs)
    BY <1>1 DEF IsCursors
  <1>8. DOMAIN cs = DOMAIN m.cursors \cup {n} /\ cs[n] = cur
        /\ \A x \in DOMAIN m.cursors : cs[x] = m.cursors[x]
    OBVIOUS
  <1> HIDE DEF l, cs
  <1>9. \A i \in 1 .. Len(m.list) : l[i].toWrite = m.list[i].toWrite
                                    /\ l[i].id = m.list[i].id /\ l[i].state = m.list[i].state
    BY <1>4, <1>6
  <1>10. Standing(l, cs)
    <2>1. ASSUME NEW x \in DOMAIN cs
          PROVE  cs[x].chk \in 1 .. Len(l) /\ cs[x].pos \in 1 .. Len(l[cs[x].chk].toWrite)
      <3>1. CASE x = n
        BY <1>6, <1>8, <1>9, <3>1
      <3>2. CASE x # n
        <4>1. x \in DOMAIN m.cursors /\ cs[x] = m.cursors[x]
          BY <1>8, <3>2
        <4>2. /\ m.cursors[x].chk \in 1 .. Len(m.list)
              /\ m.cursors[x].pos \in 1 .. Len(m.list[m.cursors[x].chk].toWrite)
          BY <1>1, <4>1 DEF Standing
        <4> QED
          BY <1>6, <1>9, <4>1, <4>2
      <3> QED
        BY <3>1, <3>2
    <2>2. ASSUME NEW i \in 1 .. Len(l)
          PROVE  l[i].names = {x \in DOMAIN cs : cs[x].chk = i}
      <3>1. m.list[i].names = {x \in DOMAIN m.cursors : m.cursors[x].chk = i}
        BY <1>1, <1>6 DEF Standing
      <3>2. CASE i = a
        <4>1. l[i].names = m.list[i].names \cup {n}
          BY <1>4, <1>6, <3>2
        <4> QED
          BY <1>8, <3>1, <3>2, <4>1
      <3>3. CASE i # a
        <4>1. l[i].names = m.list[i].names
          BY <1>6, <3>3
        <4> QED
          BY <1>8, <3>1, <3>3, <4>1
      <3> QED
        BY <3>2, <3>3
    <2> QED
      BY <2>1, <2>2 DEF Standing
  <1>11. IsManager(r)
    BY <1>1, <1>5, <1>6, <1>7, <1>10, RecordIsManager
  <1>12. r.list = l /\ r.cursors = cs /\ r.lastBySeqno = m.lastBySeqno /\ r.pre = m.pre
    BY <1>5, RecordFields
  <1> QED
    BY <1>1, <1>6, <1>8, <1>9, <1>11, <1>12 DEF SameBack, Back

(* The items of a prefix of the list are finitely many.                    *)
LEMMA ItemsInFirstType ==
    ASSUME NEW l, NEW k, IsList(l), k \in 0 .. Len(l)
    PROVE  ItemsInFirst(l, k) \in Nat
  <1> DEFINE F(i) == {i} \X MutationPositions(l[i])
             S == {F(i) : i \in 1 .. k}
  <1>0. \A a, b \in Int : IsFiniteSet(a .. b)
    BY FS_Interval
  <1>1. /\ k \in Nat
        /\ \A i \in 1 .. k : /\ Len(l[i].toWrite) \in Nat
                             /\ DOMAIN l[i].toWrite = 1 .. Len(l[i].toWrite)
    BY ListFacts
  <1>2. IsFiniteSet(1 .. k)
    BY <1>0, <1>1
  <1>3. IsFiniteSet(S)
    <2> DEFINE g == [i \in 1 .. k |-> F(i)]
    <2>1. g \in Surjection(1 .. k, S)
      BY DEF Surjection
    <2> QED
      BY <1>2, <2>1, FS_Surjection
  <1>4. \A x \in S : IsFiniteSet(x)
    <2>1. ASSUME NEW i \in 1 .. k PROVE IsFiniteSet(F(i))
      <3>1. IsFiniteSet({i})
        BY FS_Singleton
      <3>2. IsFiniteSet(DOMAIN l[i].toWrite)
        BY <1>0, <1>1
      <3>3. IsFiniteSet(MutationPositions(l[i]))
        BY <3>2, FS_Subset DEF MutationPositions
      <3> QED
        BY <3>1, <3>3, FS_Product
    <2> QED
      BY <2>1
  <1>5. Cardinality(UNION S) \in Nat
    BY <1>3, <1>4, FS_UNION, FS_CardinalityType
  <1> QED
    BY <1>1, <1>5 DEF ItemsInFirst

(* registerCursorBySeqno finds a position of the checkpoint.               *)
LEMMA PositionOfInside ==
    ASSUME NEW c, NEW s, Shaped(c), s \in Nat
    PROVE  PositionOf(c, s) \in 1 .. Len(c.toWrite)
  <1> DEFINE w == c.toWrite
             P(j) == /\ \A x \in 2 .. j : w[x].seqno <= s
                     /\ j = Len(w) \/ s < w[j + 1].seqno
  <1>1. w \in Seq(Items) /\ Len(w) \in Nat /\ Len(w) >= 2 /\ DOMAIN w = 1 .. Len(w)
    BY ShapedParts
  <1>2. \A j \in 1 .. Len(w) : w[j].seqno \in Nat
    <2>1. \A j \in 1 .. Len(w) : w[j] \in Items
      BY <1>1
    <2>2. \A x \in Items : x.seqno \in Nat
      BY DEF Items
    <2> QED
      BY <2>1, <2>2
  <1>3. CASE s < GetLowSeqno(c)
    BY <1>1, <1>3 DEF PositionOf
  <1>4. CASE ~ (s < GetLowSeqno(c))
    <2> DEFINE T == {j \in 1 .. Len(w) : j = Len(w) \/ s < w[j + 1].seqno}
    <2>1. Len(w) \in T /\ T \subseteq Nat
      BY <1>1
    <2>2. PICK j \in T : \A y \in T : j <= y
      BY <2>1, LeastNat
    <2>3. \A x \in 2 .. j : w[x].seqno <= s
      <3> SUFFICES ASSUME NEW x \in 2 .. j PROVE w[x].seqno <= s
        OBVIOUS
      <3>1. j \in 1 .. Len(w) /\ x \in 2 .. Len(w) /\ x - 1 \in 1 .. Len(w) /\ x - 1 < j
        BY <1>1
      <3>2. x - 1 \notin T
        <4> HIDE DEF T
        <4> QED
          BY <1>1, <2>2, <3>1
      <3>3. ~ (s < w[x - 1 + 1].seqno) /\ x - 1 + 1 = x
        BY <3>1, <3>2
      <3> QED
        BY <1>2, <3>1, <3>3
    <2>4. j \in DOMAIN w /\ P(j)
      BY <1>1, <2>3
    <2>5. PositionOf(c, s) = CHOOSE y \in DOMAIN w : P(y)
      BY <1>4 DEF PositionOf
    <2> HIDE DEF P
    <2>6. PositionOf(c, s) \in DOMAIN w
      BY <2>4, <2>5
    <2> QED
      BY <1>1, <2>6
  <1> QED
    BY <1>3, <1>4

(* The position registerCursorBySeqno finds is one of the list.            *)
LEMMA CursorBySeqnoInside ==
    ASSUME NEW m, NEW s, NEW cur,
           IsManager(m), s \in Nat, CheckpointsFrom(m, s) # {},
           cur = CursorBySeqno(m, s)
    PROVE  /\ cur \in Cursors
           /\ cur.chk \in 1 .. Len(m.list)
           /\ cur.pos \in 1 .. Len(m.list[cur.chk].toWrite)
  <1> DEFINE S == CheckpointsFrom(m, s)
             i == CHOOSE x \in S : \A y \in S : x <= y
             j == PositionOf(m.list[i], s)
             o == ItemsInFirst(m.list, i - 1) + j - 1
  <1>1. /\ IsList(m.list) /\ DOMAIN m.list = 1 .. Len(m.list) /\ Len(m.list) \in Nat
    BY MgrParts
  <1>2. S \subseteq 1 .. Len(m.list) /\ S \subseteq Nat
    BY <1>1 DEF CheckpointsFrom
  <1>3. i \in 1 .. Len(m.list)
    <2>1. \E x \in S : \A y \in S : x <= y
      BY <1>2, LeastNat
    <2> HIDE DEF S
    <2>2. i \in S
      BY <2>1
    <2> QED
      BY <1>2, <2>2
  <1> HIDE DEF i
  <1>4. Shaped(m.list[i])
    BY <1>1, <1>3 DEF IsList
  <1>5. j \in 1 .. Len(m.list[i].toWrite) /\ Len(m.list[i].toWrite) \in Nat
    BY <1>4, PositionOfInside, ShapedParts
  <1> HIDE DEF j
  <1>6. i \in Nat /\ j \in Nat /\ o \in Int
    <2>1. i - 1 \in 0 .. Len(m.list)
      BY <1>1, <1>3
    <2>2. ItemsInFirst(m.list, i - 1) \in Nat
      BY <1>1, <2>1, ItemsInFirstType
    <2> QED
      BY <1>1, <1>3, <1>5, <2>2
  <1>7. cur = Registered(i, j, o)
    BY DEF CursorBySeqno, i, j
  <1> HIDE DEF o
  <1>8. cur \in Cursors /\ cur.chk = i /\ cur.pos = j
    <2>1. /\ Registered(i, j, o) \in Cursors
          /\ Registered(i, j, o).chk = i /\ Registered(i, j, o).pos = j
      BY <1>6, RegisteredCursor
    <2> QED
      BY <1>7, <2>1
  <1> QED
    BY <1>3, <1>5, <1>8

(* registerCursorBySeqno                                                   *)
LEMMA RegisterBySeqnoKeeps ==
    ASSUME NEW m, NEW n, NEW s, NEW r,
           IsManager(m), n \in CursorNames, n # Persistence, s \in Nat,
           r = RegisterCursorBySeqno(m, n, s)
    PROVE  IsManager(r) /\ SameBack(m, r) /\ r.pre = m.pre
  <1> DEFINE q == RemoveCursor(m, n)
             cur == CursorBySeqno(m, s)
  <1>1. /\ IsManager(q) /\ SameBack(m, q) /\ q.pre = m.pre
        /\ DOMAIN q.cursors = DOMAIN m.cursors \ {n}
        /\ \A i \in 1 .. Len(m.list) : q.list[i].toWrite = m.list[i].toWrite
    BY RemoveCursorKeeps
  <1>2. CASE CheckpointsFrom(m, s) = {}
    BY <1>1, <1>2 DEF RegisterCursorBySeqno
  <1>3. CASE CheckpointsFrom(m, s) # {}
    <2>1. r = PutCursor(q, n, cur)
      BY <1>3 DEF RegisterCursorBySeqno
    <2>2. /\ cur \in Cursors /\ cur.chk \in 1 .. Len(m.list)
          /\ cur.pos \in 1 .. Len(m.list[cur.chk].toWrite)
      BY <1>3, CursorBySeqnoInside
    <2> HIDE DEF q, cur
    <2>3. /\ cur.chk \in 1 .. Len(q.list) /\ cur.pos \in 1 .. Len(q.list[cur.chk].toWrite)
          /\ n \notin DOMAIN q.cursors
      BY <1>1, <2>2 DEF SameBack
    <2>4. IsManager(r) /\ SameBack(q, r) /\ r.pre = q.pre
      BY <1>1, <2>1, <2>2, <2>3, PutCursorKeeps
    <2> QED
      BY <1>1, <2>4 DEF SameBack
  <1> QED
    BY <1>2, <1>3

(* A step that may change the id, the range and the start item of the last *)
(* checkpoint, but not which of its items are mutations.                   *)
SameMutations(m, r) ==
    /\ r.lastBySeqno = m.lastBySeqno
    /\ Len(r.list) = Len(m.list)
    /\ Back(r).state = Back(m).state
    /\ MutationPositions(Back(r)) = MutationPositions(Back(m))
    /\ r.cursors = m.cursors
    /\ r.pre = m.pre

(* Replacing the last checkpoint by one of the same shape.                 *)
LEMMA SetBackSame ==
    ASSUME NEW m, NEW c, NEW r,
           IsManager(m), Shaped(c), c.names = Back(m).names,
           Len(c.toWrite) = Len(Back(m).toWrite), c.state = Back(m).state,
           MutationPositions(c) = MutationPositions(Back(m)), r = SetBack(m, c)
    PROVE  IsManager(r) /\ SameMutations(m, r) /\ Back(r) = c
  <1>1. Len(c.toWrite) >= Len(Back(m).toWrite)
    BY BackShaped, ShapedParts
  <1>2. /\ IsManager(r) /\ Len(r.list) = Len(m.list) /\ Back(r) = c
        /\ r = Record([m.list EXCEPT ![Len(m.list)] = c], m.cursors,
                      m.numItems, m.lastBySeqno, m.pre)
    BY <1>1, SetBackKeeps
  <1>3. r.cursors = m.cursors /\ r.lastBySeqno = m.lastBySeqno /\ r.pre = m.pre
    BY <1>2, RecordFields
  <1> QED
    BY <1>2, <1>3 DEF SameMutations

(* The snapshot range of the open checkpoint.                              *)
LEMMA SetSnapshotRangeKeeps ==
    ASSUME NEW m, NEW s, NEW e, NEW r,
           IsManager(m), s \in Nat, e \in Nat, r = SetSnapshotRange(m, s, e)
    PROVE  IsManager(r) /\ SameMutations(m, r) /\ Back(r).id = Back(m).id
  <1> DEFINE b == Back(m)
             c == [b EXCEPT !.snapStart = s, !.snapEnd = e]
  <1>1. Shaped(b)
    BY BackShaped
  <1>2. r = SetBack(m, c)
    BY DEF SetSnapshotRange
  <1> HIDE DEF b
  <1>3. c = Chk(b.id, b.state, s, e, b.toWrite, b.names)
    BY <1>1, ExceptRange, Zenon
  <1> HIDE DEF c
  <1>4. /\ Shaped(c) /\ c.names = b.names /\ c.toWrite = b.toWrite
        /\ c.state = b.state /\ c.id = b.id
    BY <1>1, <1>3, ShapedParts, PartsShaped, ChkFields
  <1>5. MutationPositions(c) = MutationPositions(b)
    BY <1>4 DEF MutationPositions
  <1> QED
    BY <1>2, <1>4, <1>5, SetBackSame DEF b

(* updateCurrentSnapshotEnd                                                *)
LEMMA UpdateEndKeeps ==
    ASSUME NEW m, NEW e, NEW r,
           IsManager(m), e \in Nat, r = UpdateCurrentSnapshotEnd(m, e)
    PROVE  IsManager(r) /\ SameMutations(m, r) /\ Back(r).id = Back(m).id
  <1> DEFINE b == Back(m)
             c == [b EXCEPT !.snapEnd = e]
  <1>1. Shaped(b)
    BY BackShaped
  <1>2. r = SetBack(m, c)
    BY DEF UpdateCurrentSnapshotEnd
  <1> HIDE DEF b
  <1>3. c = Chk(b.id, b.state, b.snapStart, e, b.toWrite, b.names)
    BY <1>1, ExceptEnd, Zenon
  <1> HIDE DEF c
  <1>4. /\ Shaped(c) /\ c.names = b.names /\ c.toWrite = b.toWrite
        /\ c.state = b.state /\ c.id = b.id
    BY <1>1, <1>3, ShapedParts, PartsShaped, ChkFields
  <1>5. MutationPositions(c) = MutationPositions(b)
    BY <1>4 DEF MutationPositions
  <1> QED
    BY <1>2, <1>4, <1>5, SetBackSame DEF b

(* setOpenCheckpointId                                                     *)
LEMMA SetOpenIdKeeps ==
    ASSUME NEW m, NEW id, NEW r,
           IsManager(m), id \in Nat, r = SetOpenCheckpointId(m, id)
    PROVE  IsManager(r) /\ SameMutations(m, r) /\ Back(r).id = id
  <1> DEFINE b == Back(m)
  <1>1. Shaped(b) /\ m.lastBySeqno \in Nat
    BY BackShaped DEF IsManager
  <1>2. CASE b.id # 0
    <2> DEFINE c == [b EXCEPT !.id = id]
    <2>1. r = SetBack(m, c)
      BY <1>2 DEF SetOpenCheckpointId
    <2> HIDE DEF b
    <2>2. c = Chk(id, b.state, b.snapStart, b.snapEnd, b.toWrite, b.names)
      BY <1>1, ExceptId, Zenon
    <2> HIDE DEF c
    <2>3. /\ Shaped(c) /\ c.names = b.names /\ c.toWrite = b.toWrite
          /\ c.state = b.state /\ c.id = id
      <3>1. Shaped(c)
        BY <1>1, <2>2, ShapedParts, PartsShaped
      <3> QED
        BY <2>2, <3>1, ChkFields
    <2>4. MutationPositions(c) = MutationPositions(b)
      BY <2>3 DEF MutationPositions
    <2> QED
      BY <2>1, <2>3, <2>4, SetBackSame DEF b
  <1>3. CASE b.id = 0
    <2> DEFINE s == m.lastBySeqno
               it == [b.toWrite[2] EXCEPT !.seqno = s + 1]
               w == [b.toWrite EXCEPT ![2] = it]
               c == [b EXCEPT !.id = id, !.toWrite = w, !.snapStart = s, !.snapEnd = s]
    <2>1. r = SetBack(m, [b EXCEPT !.id = id, !.toWrite[2].seqno = m.lastBySeqno + 1,
                                   !.snapStart = m.lastBySeqno, !.snapEnd = m.lastBySeqno])
      BY <1>3 DEF SetOpenCheckpointId
    <2>2. r = SetBack(m, c)
      BY <2>1
    <2>3. b.toWrite \in Seq(Items) /\ Len(b.toWrite) \in Nat /\ Len(b.toWrite) >= 2
          /\ b.toWrite[1].op = "empty"
      BY <1>1, ShapedParts
    <2> HIDE DEF b
    <2>4. it \in Items /\ it.op = b.toWrite[2].op
      <3>1. b.toWrite[2] \in Items
        BY <2>3
      <3> QED
        BY <1>1, <3>1 DEF Items
    <2> HIDE DEF it
    <2>5. /\ w \in Seq(Items) /\ Len(w) = Len(b.toWrite) /\ w[1].op = "empty"
          /\ \A j \in 1 .. Len(w) : w[j].op = b.toWrite[j].op
      BY <2>3, <2>4
    <2> HIDE DEF w
    <2>6. c = Chk(id, b.state, s, s, w, b.names)
      <3> DEFINE c1 == [b EXCEPT !.id = id]
                 c2 == [c1 EXCEPT !.toWrite = w]
      <3>1. c = [c2 EXCEPT !.snapStart = s, !.snapEnd = s]
        BY <1>1, ShapedParts DEF Chk
      <3>2. c1 = Chk(id, b.state, b.snapStart, b.snapEnd, b.toWrite, b.names)
        BY <1>1, ExceptId, Zenon
      <3> HIDE DEF c1
      <3>3. c2 = Chk(id, b.state, b.snapStart, b.snapEnd, w, b.names)
        BY <3>2 DEF Chk
      <3> HIDE DEF c2
      <3>4. Shaped(c2)
        BY <1>1, <2>3, <2>5, <3>3, ShapedParts, PartsShaped
      <3>5. [c2 EXCEPT !.snapStart = s, !.snapEnd = s] =
              Chk(c2.id, c2.state, s, s, c2.toWrite, c2.names)
        BY <3>4, ExceptRange, Zenon
      <3> QED
        BY <3>1, <3>3, <3>5, ChkFields
    <2> HIDE DEF c
    <2>7. /\ Shaped(c) /\ c.names = b.names /\ c.toWrite = w
          /\ c.state = b.state /\ c.id = id
      <3>1. /\ b.state \in {"open", "closed"} /\ b.names \in SUBSET CursorNames
            /\ s \in Nat /\ Len(w) >= 2
        BY <1>1, <2>3, <2>5, ShapedParts
      <3> HIDE DEF s
      <3>2. Shaped(c)
        BY <2>5, <2>6, <3>1, PartsShaped
      <3> QED
        BY <2>6, <3>2, ChkFields
    <2>8. MutationPositions(c) = MutationPositions(b)
      BY <2>3, <2>5, <2>7 DEF MutationPositions
    <2> QED
      BY <2>2, <2>5, <2>7, <2>8, SetBackSame DEF b
  <1> QED
    BY <1>2, <1>3

-----------------------------------------------------------------------------
(* Opening checkpoints preserves soundness.                                *)

(* addNewCheckpoint_UNLOCKED keeps the invariant of the manager.           *)
LEMMA AddNewSound ==
    ASSUME NEW m, NEW id, NEW s, NEW e, NEW r,
           Sound(m), m.lastBySeqno # 0, id \in Nat, id # 0, s \in Nat, e \in Nat,
           r = AddNewCheckpointWithSnapshot(m, id, s, e)
    PROVE  Sound(r) /\ r.lastBySeqno = m.lastBySeqno
  <1>0. IsManager(m)
    BY DEF Sound
  <1>1. /\ IsManager(r) /\ Back(r).state = "open" /\ Back(r).id = id
        /\ r.lastBySeqno = m.lastBySeqno
    BY <1>0, AddNewCheckpointKeeps
  <1> QED
    BY <1>1 DEF Sound

(* So does adding the checkpoint with the next id.                         *)
LEMMA AddNextSound ==
    ASSUME NEW m, NEW r,
           Sound(m), m.lastBySeqno # 0, r = AddNewCheckpoint(m, Back(m).id + 1)
    PROVE  Sound(r) /\ r.lastBySeqno = m.lastBySeqno
  <1>1. Back(m).id \in Nat /\ m.lastBySeqno \in Nat
    BY BackShaped, ShapedParts DEF Sound, IsManager
  <1>2. Back(m).id + 1 \in Nat /\ Back(m).id + 1 # 0
    BY <1>1
  <1>3. r = AddNewCheckpointWithSnapshot(m, Back(m).id + 1, m.lastBySeqno, m.lastBySeqno)
    BY DEF AddNewCheckpoint
  <1> QED
    BY <1>1, <1>2, <1>3, AddNewSound

(* A checkpoint that holds an item is not the first of an empty vbucket.   *)
LEMMA HasItems ==
    ASSUME NEW m, Sound(m), NumItems(Back(m)) # 0
    PROVE  m.lastBySeqno # 0
  BY FS_EmptySet DEF Sound, NumItems

(* The open checkpoint holds a finite number of mutations.                 *)
LEMMA NumItemsType ==
    ASSUME NEW m, IsManager(m)
    PROVE  NumItems(Back(m)) \in Nat
  <1>0. \A b \in Nat : IsFiniteSet(1 .. b)
    BY FS_Interval
  <1>1. /\ Len(Back(m).toWrite) \in Nat
        /\ DOMAIN Back(m).toWrite = 1 .. Len(Back(m).toWrite)
    BY BackShaped, ShapedParts
  <1>2. IsFiniteSet(DOMAIN Back(m).toWrite)
    BY <1>0, <1>1
  <1>3. IsFiniteSet(MutationPositions(Back(m)))
    BY <1>2, FS_Subset DEF MutationPositions
  <1> QED
    BY <1>3, FS_CardinalityType DEF NumItems

(* checkOpenCheckpoint                                                     *)
LEMMA CheckOpenSound ==
    ASSUME NEW m, NEW force, NEW timeUp, NEW r,
           Sound(m), NeedsNewCheckpoint(m, force, timeUp) => m.lastBySeqno # 0,
           r = CheckOpenCheckpoint(m, force, timeUp)
    PROVE  Sound(r) /\ r.lastBySeqno = m.lastBySeqno
  <1>1. CASE NeedsNewCheckpoint(m, force, timeUp)
    <2>1. r = AddNewCheckpoint(m, Back(m).id + 1)
      BY <1>1 DEF CheckOpenCheckpoint
    <2> QED
      BY <1>1, <2>1, AddNextSound
  <1>2. CASE ~ NeedsNewCheckpoint(m, force, timeUp)
    BY <1>2 DEF CheckOpenCheckpoint
  <1> QED
    BY <1>1, <1>2

(* checkOpenCheckpoint_UNLOCKED adds a checkpoint, when not forced to,     *)
(* only after the first seqno.                                             *)
LEMMA NeedsNewHasItems ==
    ASSUME NEW m, NEW timeUp, Sound(m), NeedsNewCheckpoint(m, FALSE, timeUp)
    PROVE  m.lastBySeqno # 0
  <1>1. NumItems(Back(m)) \in Nat
    BY NumItemsType DEF Sound
  <1>2. NumItems(Back(m)) # 0
    BY <1>1, LimitsPositive DEF NeedsNewCheckpoint
  <1> QED
    BY <1>2, HasItems

(* The checkpoint a mutation goes to.                                      *)
LEMMA WithOpenSound ==
    ASSUME NEW m, NEW isActive, NEW timeUp, NEW r,
           Sound(m), r = WithOpenCheckpoint(m, isActive, timeUp)
    PROVE  Sound(r) /\ r.lastBySeqno = m.lastBySeqno
  <1> DEFINE q == IF isActive /\ CanCreateNewCheckpoint(m)
                  THEN CheckOpenCheckpoint(m, FALSE, timeUp)
                  ELSE m
  <1>1. Sound(q) /\ q.lastBySeqno = m.lastBySeqno
    <2>1. CASE isActive /\ CanCreateNewCheckpoint(m)
      <3>1. q = CheckOpenCheckpoint(m, FALSE, timeUp)
        BY <2>1
      <3>2. NeedsNewCheckpoint(m, FALSE, timeUp) => m.lastBySeqno # 0
        BY NeedsNewHasItems
      <3> HIDE DEF q
      <3> QED
        BY <3>1, <3>2, CheckOpenSound, ZenonT(60)
    <2>2. CASE ~ (isActive /\ CanCreateNewCheckpoint(m))
      BY <2>2
    <2> QED
      BY <2>1, <2>2
  <1>2. r = q
    BY <1>1 DEF WithOpenCheckpoint, Sound
  <1> QED
    BY <1>1, <1>2

(* The seqno of an item: the next one, or the one a replica was sent.      *)
LEMMA WithSeqnoSound ==
    ASSUME NEW m, NEW g, NEW s, NEW r, r = WithSeqno(m, g, s),
           Sound(m), s \in Nat, g \/ s # 0
    PROVE  Sound(r) /\ r.lastBySeqno # 0
  <1>1. IsManager(m) /\ m.lastBySeqno \in Nat
    BY MgrParts DEF Sound
  <1>2. CASE g
    <2> DEFINE x == m.lastBySeqno + 1
               q == UpdateCurrentSnapshotEnd(m, x)
    <2>1. x \in Nat /\ x # 0
      BY <1>1
    <2> HIDE DEF x
    <2>2. IsManager(q) /\ SameMutations(m, q) /\ Back(q).id = Back(m).id
      BY <1>1, <2>1, UpdateEndKeeps
    <2>3. r = [q EXCEPT !.lastBySeqno = @ + 1]
      BY <1>2 DEF WithSeqno, UpdateCurrentSnapshotEnd, x
    <2> HIDE DEF q
    <2>4. r = [q EXCEPT !.lastBySeqno = x]
      BY <2>2, <2>3 DEF SameMutations, x
    <2>5. r = Record(q.list, q.cursors, q.numItems, x, q.pre)
      BY <2>2, <2>4, MgrLastBySeqno, Zenon
    <2>6. IsManager(r)
      BY <2>1, <2>2, <2>5, MgrParts, RecordIsManager
    <2>7. r.list = q.list /\ r.lastBySeqno = x
      BY <2>5, RecordFields
    <2> QED
      BY <2>1, <2>2, <2>6, <2>7 DEF Sound, SameMutations, Back
  <1>3. CASE ~ g
    <2>1. r = [m EXCEPT !.lastBySeqno = s]
      BY <1>3 DEF WithSeqno
    <2>2. r = Record(m.list, m.cursors, m.numItems, s, m.pre)
      BY <1>1, <2>1, MgrLastBySeqno, Zenon
    <2>3. IsManager(r)
      BY <1>1, <2>2, MgrParts, RecordIsManager
    <2>4. r.list = m.list /\ r.lastBySeqno = s
      BY <2>2, RecordFields
    <2> QED
      BY <1>3, <2>3, <2>4 DEF Sound, Back
  <1> QED
    BY <1>2, <1>3

(* list::erase after push_back.                                            *)
LEMMA EraseItem ==
    ASSUME NEW w, NEW item, NEW d, NEW r, r = RemovePosition(Append(w, item), d),
           w \in Seq(Items), Len(w) >= 2, w[1].op = "empty", item \in Items,
           d \in 2 .. Len(w)
    PROVE  r \in Seq(Items) /\ Len(r) = Len(w) /\ r[1].op = "empty"
  <1> DEFINE a == Append(w, item)
  <1>1. /\ a \in Seq(Items) /\ Len(a) = Len(w) + 1 /\ a[1].op = "empty" /\ Len(w) \in Nat
    BY AppendItem
  <1> HIDE DEF a
  <1>2. r = [j \in 1 .. Len(w) |-> IF j < d THEN a[j] ELSE a[j + 1]]
    BY <1>1 DEF RemovePosition, a
  <1>3. \A j \in 1 .. Len(w) : a[j] \in Items /\ a[j + 1] \in Items
    BY <1>1
  <1>4. r \in [1 .. Len(w) -> Items]
    BY <1>2, <1>3
  <1>5. r \in Seq(Items) /\ Len(r) = Len(w)
    BY <1>1, <1>4, FunctionIsSequence
  <1>6. r[1] = a[1]
    BY <1>1, <1>2
  <1> QED
    BY <1>1, <1>5, <1>6

(* A cursor on the open checkpoint, after the erase.                       *)
LEMMA EraseCursor ==
    ASSUME NEW c, NEW d, NEW cur, NEW r, r = CursorAfterErase(c, d, cur),
           Shaped(c), d \in 2 .. Len(c.toWrite), cur \in Cursors,
           cur.pos \in 1 .. Len(c.toWrite)
    PROVE  r \in Cursors /\ r.chk = cur.chk /\ r.pos \in 1 .. Len(c.toWrite)
  <1> DEFINE passed == /\ c.toWrite[cur.pos].op = "mutation"
                       /\ c.toWrite[d].seqno <= c.toWrite[cur.pos].seqno
             o == IF passed THEN DecrOffset(cur.offset, 1) ELSE cur.offset
             p == IF cur.pos >= d THEN cur.pos - 1 ELSE cur.pos
  <1>1. cur.chk \in Nat /\ cur.pos \in Nat /\ cur.offset \in Int
    BY DEF Cursors
  <1>2. Len(c.toWrite) \in Nat
    BY ShapedParts
  <1>3. p \in Nat /\ p \in 1 .. Len(c.toWrite)
    BY <1>1, <1>2
  <1>4. o \in Int
    BY <1>1 DEF DecrOffset
  <1>5. r = [cur EXCEPT !.offset = o, !.pos = p]
    BY DEF CursorAfterErase, Cursors
  <1> HIDE DEF o, p
  <1>6. r = Registered(cur.chk, p, o)
    BY <1>5 DEF Registered, Cursors
  <1>7. r \in Cursors /\ r.chk = cur.chk /\ r.pos = p
    BY <1>1, <1>3, <1>4, <1>6, RegisteredCursor
  <1> QED
    BY <1>3, <1>7

(* Cursors that stay on their checkpoints.                                 *)
LEMMA StandingSameChk ==
    ASSUME NEW l, NEW cs, NEW ds,
           Standing(l, cs), DOMAIN ds = DOMAIN cs,
           \A x \in DOMAIN cs : /\ ds[x].chk = cs[x].chk
                                /\ ds[x].pos \in 1 .. Len(l[cs[x].chk].toWrite)
    PROVE  Standing(l, ds)
  <1>1. \A x \in DOMAIN ds : /\ ds[x].chk \in 1 .. Len(l)
                             /\ ds[x].pos \in 1 .. Len(l[ds[x].chk].toWrite)
    BY DEF Standing
  <1>2. \A i \in 1 .. Len(l) :
          {x \in DOMAIN cs : cs[x].chk = i} = {x \in DOMAIN ds : ds[x].chk = i}
    OBVIOUS
  <1>3. \A i \in 1 .. Len(l) : l[i].names = {x \in DOMAIN ds : ds[x].chk = i}
    BY <1>2 DEF Standing
  <1> QED
    BY <1>1, <1>3 DEF Standing

(* Checkpoint::queueDirty, with or without an older version of the key.    *)
LEMMA CheckpointQueueDirtyKeeps ==
    ASSUME NEW m, NEW item, NEW r, r = CheckpointQueueDirty(m, item),
           IsManager(m), item \in Items, item.op = "mutation"
    PROVE  /\ IsManager(r) /\ Len(r.list) = Len(m.list)
           /\ Back(r).state = Back(m).state /\ Back(r).id = Back(m).id
           /\ r.lastBySeqno = m.lastBySeqno /\ r.pre = m.pre
  <1> DEFINE b == Back(m)
             old == KeyIndex(b, item.key)
             d == CHOOSE j \in old : TRUE
  <1>1. Shaped(b)
    BY BackShaped
  <1>2. /\ b.toWrite \in Seq(Items) /\ Len(b.toWrite) \in Nat /\ Len(b.toWrite) >= 2
        /\ b.toWrite[1].op = "empty" /\ DOMAIN b.toWrite = 1 .. Len(b.toWrite)
    BY <1>1, ShapedParts
  <1>3. CASE old = {}
    <2> DEFINE w == Append(b.toWrite, item)
               c == [b EXCEPT !.toWrite = w]
    <2>1. r = SetBack(m, c)
      BY <1>3 DEF CheckpointQueueDirty
    <2>2. w \in Seq(Items) /\ Len(w) = Len(b.toWrite) + 1 /\ w[1].op = "empty"
      BY <1>2, AppendItem
    <2> HIDE DEF b, w
    <2>3. c = Chk(b.id, b.state, b.snapStart, b.snapEnd, w, b.names)
      BY <1>1, ExceptItems, Zenon
    <2> HIDE DEF c
    <2>4. /\ Shaped(c) /\ c.names = b.names /\ Len(c.toWrite) >= Len(b.toWrite)
          /\ c.id = b.id /\ c.state = b.state
      BY <1>1, <1>2, <2>2, <2>3, ShapedParts, PartsShaped, ChkFields
    <2>4a. c.names = Back(m).names /\ Len(c.toWrite) >= Len(Back(m).toWrite)
      BY <2>4 DEF b
    <2>5. /\ IsManager(r) /\ Len(r.list) = Len(m.list) /\ Back(r) = c
          /\ r = Record([m.list EXCEPT ![Len(m.list)] = c], m.cursors,
                        m.numItems, m.lastBySeqno, m.pre)
      <3> DEFINE q == SetBack(m, c)
      <3>1. /\ IsManager(q) /\ Len(q.list) = Len(m.list) /\ Back(q) = c
            /\ q = Record([m.list EXCEPT ![Len(m.list)] = c], m.cursors,
                          m.numItems, m.lastBySeqno, m.pre)
        BY <2>4, <2>4a, SetBackKeeps
      <3> QED
        BY <2>1, <3>1
    <2>6. r.lastBySeqno = m.lastBySeqno /\ r.pre = m.pre
      BY <2>5, RecordFields
    <2> QED
      BY <2>4, <2>5, <2>6 DEF b
  <1>4. CASE old # {}
    <2>1. d \in old
      BY <1>4
    <2> HIDE DEF d
    <2>2. d \in 2 .. Len(b.toWrite)
      <3> HIDE DEF b
      <3>1. d \in DOMAIN b.toWrite /\ b.toWrite[d].op = "mutation"
        BY <2>1 DEF KeyIndex, MutationPositions
      <3>2. d # 1
        BY <1>2, <3>1
      <3> QED
        BY <1>2, <3>1, <3>2
    <2> DEFINE w == RemovePosition(Append(b.toWrite, item), d)
               c == [b EXCEPT !.toWrite = w]
               q == SetBack(m, c)
               cs == [n \in DOMAIN m.cursors |->
                        IF m.cursors[n].chk = Len(m.list)
                        THEN CursorAfterErase(b, d, m.cursors[n])
                        ELSE m.cursors[n]]
    <2>3. r = [q EXCEPT !.cursors = cs]
      BY <1>4 DEF CheckpointQueueDirty, d
    <2> HIDE DEF b
    <2>4. w \in Seq(Items) /\ Len(w) = Len(b.toWrite) /\ w[1].op = "empty"
      BY <1>2, <2>2, EraseItem
    <2> HIDE DEF w
    <2>5. c = Chk(b.id, b.state, b.snapStart, b.snapEnd, w, b.names)
      BY <1>1, ExceptItems, Zenon
    <2> HIDE DEF c
    <2>6. /\ Shaped(c) /\ c.names = b.names /\ c.toWrite = w
          /\ c.id = b.id /\ c.state = b.state
      BY <1>1, <1>2, <2>4, <2>5, ShapedParts, PartsShaped, ChkFields
    <2>6a. c.names = Back(m).names /\ Len(c.toWrite) >= Len(Back(m).toWrite)
      BY <1>2, <2>4, <2>6 DEF b
    <2>7. /\ IsManager(q) /\ Len(q.list) = Len(m.list) /\ Back(q) = c
          /\ \A i \in 1 .. Len(m.list) : q.list[i] = IF i = Len(m.list) THEN c ELSE m.list[i]
          /\ q = Record([m.list EXCEPT ![Len(m.list)] = c], m.cursors,
                        m.numItems, m.lastBySeqno, m.pre)
      BY <2>6, <2>6a, SetBackKeeps
    <2>8. q.cursors = m.cursors /\ q.lastBySeqno = m.lastBySeqno /\ q.pre = m.pre
      BY <2>7, RecordFields
    <2> HIDE DEF q
    <2>9. r = Record(q.list, cs, q.numItems, q.lastBySeqno, q.pre)
      BY <2>3, <2>7, MgrCursors, Zenon
    <2>10. /\ IsCursors(m.cursors) /\ Standing(m.list, m.cursors)
           /\ Len(m.list) \in 1 .. Len(m.list)
      BY MgrParts
    <2>11. ASSUME NEW n \in DOMAIN m.cursors
           PROVE  /\ cs[n] \in Cursors /\ cs[n].chk = m.cursors[n].chk
                  /\ cs[n].pos \in 1 .. Len(q.list[m.cursors[n].chk].toWrite)
      <3>1. /\ m.cursors[n] \in Cursors /\ m.cursors[n].chk \in 1 .. Len(m.list)
            /\ m.cursors[n].pos \in 1 .. Len(m.list[m.cursors[n].chk].toWrite)
        BY <2>10 DEF IsCursors, Standing
      <3>2. CASE m.cursors[n].chk = Len(m.list)
        <4>1. cs[n] = CursorAfterErase(b, d, m.cursors[n])
          BY <3>2
        <4>2. m.cursors[n].pos \in 1 .. Len(b.toWrite)
          BY <3>1, <3>2 DEF b, Back
        <4> HIDE DEF cs
        <4>3. cs[n] \in Cursors /\ cs[n].chk = m.cursors[n].chk /\ cs[n].pos \in 1 .. Len(b.toWrite)
          BY <1>1, <2>2, <3>1, <4>1, <4>2, EraseCursor
        <4>4. Len(q.list[m.cursors[n].chk].toWrite) = Len(b.toWrite)
          BY <2>4, <2>6, <2>7, <2>10, <3>2
        <4> QED
          BY <4>3, <4>4
      <3>3. CASE m.cursors[n].chk # Len(m.list)
        <4>1. cs[n] = m.cursors[n]
          BY <3>3
        <4>2. q.list[m.cursors[n].chk] = m.list[m.cursors[n].chk]
          BY <2>7, <3>1, <3>3
        <4> HIDE DEF cs
        <4> QED
          BY <3>1, <4>1, <4>2
      <3> QED
        BY <3>2, <3>3
    <2>12. DOMAIN cs = DOMAIN m.cursors /\ cs \in [DOMAIN cs -> Cursors]
      BY <2>11
    <2> HIDE DEF cs
    <2>13. IsCursors(cs)
      BY <2>10, <2>12 DEF IsCursors
    <2>14. Standing(q.list, cs)
      <3>1. Standing(q.list, m.cursors)
        BY <2>7, <2>8, MgrParts
      <3>2. \A n \in DOMAIN m.cursors : /\ cs[n].chk = m.cursors[n].chk
                                        /\ cs[n].pos \in 1 .. Len(q.list[m.cursors[n].chk].toWrite)
        BY <2>11
      <3> QED
        BY <2>12, <3>1, <3>2, StandingSameChk
    <2>15. IsManager(r)
      BY <2>7, <2>9, <2>13, <2>14, MgrParts, RecordIsManager
    <2>16. r.list = q.list /\ r.lastBySeqno = m.lastBySeqno /\ r.pre = m.pre
      BY <2>8, <2>9, RecordFields
    <2> QED
      BY <2>6, <2>7, <2>15, <2>16 DEF Back, b
  <1> QED
    BY <1>3, <1>4

(* A manager whose count changes.                                          *)
LEMMA CountKeeps ==
    ASSUME NEW m, NEW k, NEW r, r = [m EXCEPT !.numItems = k], IsManager(m), k \in Int
    PROVE  IsManager(r) /\ SameBack(m, r) /\ r.pre = m.pre
  <1>1. r = Record(m.list, m.cursors, k, m.lastBySeqno, m.pre)
    BY MgrNumItems, Zenon
  <1>2. IsManager(r)
    BY <1>1, MgrParts, RecordIsManager
  <1>3. r.list = m.list /\ r.lastBySeqno = m.lastBySeqno /\ r.pre = m.pre
    BY <1>1, RecordFields
  <1> QED
    BY <1>2, <1>3 DEF SameBack, Back

(* queueDirty: the active vbucket chooses the seqno, a replica is sent one.*)
LEMMA QueueDirtySound ==
    ASSUME NEW m, NEW isActive, NEW key, NEW g, NEW s, NEW timeUp, NEW r,
           r = QueueDirty(m, isActive, key, g, s, timeUp),
           Sound(m), key \in Keys, s \in Nat, g \/ s # 0
    PROVE  Sound(r) /\ r.lastBySeqno # 0
  <1> DEFINE o == WithOpenCheckpoint(m, isActive, timeUp)
             w == WithSeqno(o, g, s)
             item == Mutation(key, w.lastBySeqno)
             q == CheckpointQueueDirty(w, item)
             p == [q EXCEPT !.numItems = @ + 1]
  <1>1. r = p \/ r = q
    BY DEF QueueDirty
  <1>2. Sound(o)
    BY WithOpenSound
  <1> HIDE DEF o
  <1>3. Sound(w) /\ w.lastBySeqno # 0
    BY <1>2, WithSeqnoSound
  <1> HIDE DEF w
  <1>4. IsManager(w) /\ w.lastBySeqno \in Nat
    BY <1>3, MgrParts DEF Sound
  <1>5. item \in Items /\ item.op = "mutation"
    BY <1>4 DEF Mutation, Items, Ops
  <1> HIDE DEF item
  <1>6. /\ IsManager(q) /\ Len(q.list) = Len(w.list) /\ Back(q).state = Back(w).state
        /\ Back(q).id = Back(w).id /\ q.lastBySeqno = w.lastBySeqno
    BY <1>4, <1>5, CheckpointQueueDirtyKeeps
  <1>7. Sound(q)
    BY <1>3, <1>6 DEF Sound
  <1> HIDE DEF q
  <1>8. Sound(p) /\ p.lastBySeqno = q.lastBySeqno
    <2> DEFINE k == q.numItems + 1
    <2>1. k \in Int
      BY <1>6, MgrParts
    <2>2. p = [q EXCEPT !.numItems = k]
      OBVIOUS
    <2> HIDE DEF p, k
    <2>3. IsManager(p) /\ SameBack(q, p)
      BY <1>6, <2>1, <2>2, CountKeeps
    <2> QED
      BY <1>7, <2>3, SameBackSound DEF SameBack
  <1> HIDE DEF p
  <1> QED
    BY <1>1, <1>3, <1>6, <1>7, <1>8

(* itemsPersisted                                                          *)
LEMMA PreKeeps ==
    ASSUME NEW m, NEW x, NEW r, r = [m EXCEPT !.pre = x], IsManager(m), x \in Nat
    PROVE  IsManager(r) /\ SameBack(m, r)
  <1>1. r = Record(m.list, m.cursors, m.numItems, m.lastBySeqno, x)
    BY MgrPre, Zenon
  <1>2. IsManager(r)
    BY <1>1, MgrParts, RecordIsManager
  <1>3. r.list = m.list /\ r.lastBySeqno = m.lastBySeqno
    BY <1>1, RecordFields
  <1> QED
    BY <1>2, <1>3 DEF SameBack, Back

(* itemsPersisted keeps the invariant of the manager.                      *)
LEMMA ItemsPersistedSound ==
    ASSUME NEW m, NEW r, r = ItemsPersisted(m), Sound(m)
    PROVE  Sound(r)
  <1> DEFINE id == m.list[m.cursors[Persistence].chk].id
             x == IF id > 0 THEN id - 1 ELSE 0
  <1>0. IsManager(m)
    BY DEF Sound
  <1>1. id \in Nat
    <2>1. m.cursors[Persistence].chk \in 1 .. Len(m.list) /\ IsList(m.list)
      BY <1>0, MgrParts DEF IsCursors, Standing
    <2>2. Shaped(m.list[m.cursors[Persistence].chk])
      BY <2>1 DEF IsList
    <2> QED
      BY <2>2, ShapedParts
  <1>2. x \in Nat
    BY <1>1
  <1>3. r = [m EXCEPT !.pre = x]
    BY DEF ItemsPersisted
  <1> HIDE DEF x
  <1>4. IsManager(r) /\ SameBack(m, r)
    BY <1>0, <1>2, <1>3, PreKeeps
  <1> QED
    BY <1>4, SameBackSound

(* isCheckpointCreationForHighMemUsage compares the number of names on the *)
(* open checkpoint with one more than the number of cursors: it never      *)
(* holds, for the persistence cursor is itself one of the cursors.         *)
LEMMA NeverAllCursorsInOpen ==
    ASSUME NEW m, IsManager(m)
    PROVE  ~ AllCursorsInOpenCheckpoint(m)
  <1>1. IsFiniteSet(CursorNames)
    <2>1. IsFiniteSet({Persistence})
      BY FS_Singleton
    <2>2. IsFiniteSet({Persistence} \cup DcpCursors)
      BY <2>1, CursorsFinite, FS_Union
    <2> QED
      BY <2>2, CursorsFinite, FS_Union DEF CursorNames
  <1>2. /\ DOMAIN m.cursors \subseteq CursorNames
        /\ Back(m).names = {n \in DOMAIN m.cursors : m.cursors[n].chk = Len(m.list)}
    BY MgrParts DEF IsCursors, Standing, Back
  <1>3. IsFiniteSet(DOMAIN m.cursors)
    BY <1>1, <1>2, FS_Subset
  <1>4. Back(m).names \in SUBSET DOMAIN m.cursors
    BY <1>2
  <1>5. /\ IsFiniteSet(Back(m).names)
        /\ Cardinality(Back(m).names) <= Cardinality(DOMAIN m.cursors)
    BY <1>3, <1>4, FS_Subset
  <1>6. Cardinality(Back(m).names) \in Nat /\ Cardinality(DOMAIN m.cursors) \in Nat
    BY <1>3, <1>5, FS_CardinalityType
  <1> QED
    BY <1>5, <1>6 DEF AllCursorsInOpenCheckpoint

(* The prefix the remover collects ends before the first checkpoint that   *)
(* has a cursor.                                                           *)
LEMMA PrefixBeforeCursors ==
    ASSUME NEW m, NEW k, k = UnreferencedPrefix(m), IsManager(m)
    PROVE  k \in Nat /\ \A n \in DOMAIN m.cursors : k < m.cursors[n].chk
  <1> DEFINE L == Len(m.list)
             P(x) == /\ \A i \in 1 .. x : Unreferenced(m, i)
                     /\ x = L \/ ~ Unreferenced(m, x + 1)
             T == {x \in 0 .. L : x = L \/ ~ Unreferenced(m, x + 1)}
  <1>1. L \in Nat /\ IsCursors(m.cursors) /\ Standing(m.list, m.cursors)
    BY MgrParts
  <1>2. L \in T /\ T \subseteq Nat
    BY <1>1
  <1>3. PICK j \in T : \A y \in T : j <= y
    BY <1>2, LeastNat
  <1>4. j \in 0 .. L /\ P(j)
    <2>1. j \in 0 .. L /\ j \in Nat /\ (j = L \/ ~ Unreferenced(m, j + 1))
      BY <1>1
    <2>2. ASSUME NEW i \in 1 .. j PROVE Unreferenced(m, i)
      <3>1. i - 1 \in 0 .. L /\ i - 1 # L /\ i - 1 < j
        BY <1>1, <2>1
      <3>2. i - 1 \notin T
        <4> HIDE DEF T
        <4> QED
          BY <1>2, <1>3, <2>1, <3>1
      <3>3. Unreferenced(m, i - 1 + 1) /\ i - 1 + 1 = i
        BY <3>1, <3>2
      <3> QED
        BY <3>3
    <2> QED
      BY <2>1, <2>2
  <1>5. k \in 0 .. L /\ P(k)
    <2>1. k = CHOOSE x \in 0 .. L : P(x)
      BY DEF UnreferencedPrefix
    <2> HIDE DEF P
    <2> QED
      BY <1>4, <2>1
  <1>6. ASSUME NEW n \in DOMAIN m.cursors PROVE k < m.cursors[n].chk
    <2> DEFINE i == m.cursors[n].chk
    <2>1. i \in 1 .. L /\ n \in m.list[i].names
      BY <1>1 DEF Standing
    <2>2. n \in ValidNames(m, i)
      BY <2>1 DEF ValidNames
    <2>3. ~ Unreferenced(m, i)
      BY <2>2 DEF Unreferenced
    <2> HIDE DEF i
    <2>4. i \notin 1 .. k
      BY <1>5, <2>3
    <2> QED
      BY <1>1, <1>5, <2>1, <2>4 DEF i
  <1> QED
    BY <1>1, <1>5, <1>6

(* A suffix of a list.                                                     *)
Suffix(l, k) == SubSeq(l, k + 1, Len(l))

(* The items of a list that has lost its first k checkpoints.              *)
LEMMA SuffixAt ==
    ASSUME NEW l, NEW k, NEW i, IsList(l), k \in Nat, k < Len(l), i \in 1 .. Len(l) - k
    PROVE  Suffix(l, k)[i] = l[i + k]
  <1>1. l \in Seq(Checkpoints) /\ Len(l) \in Nat /\ k + 1 \in 1 .. Len(l) + 1
    BY DEF IsList
  <1> QED
    BY <1>1 DEF Suffix

(* A list that has lost its first k checkpoints, but not all, is a list.   *)
LEMMA SuffixIsList ==
    ASSUME NEW l, NEW k, IsList(l), k \in Nat, k < Len(l)
    PROVE  IsList(Suffix(l, k)) /\ Len(Suffix(l, k)) = Len(l) - k
  <1> DEFINE r == Suffix(l, k)
  <1>1. l \in Seq(Checkpoints) /\ Len(l) \in Nat /\ k + 1 \in 1 .. Len(l) + 1
    BY DEF IsList
  <1>2. r \in Seq(Checkpoints) /\ Len(r) = Len(l) - k
    BY <1>1 DEF Suffix
  <1>3. ASSUME NEW i \in 1 .. Len(r) PROVE Shaped(r[i])
    <2>1. i \in 1 .. Len(l) - k /\ i + k \in 1 .. Len(l)
      BY <1>1, <1>2
    <2>2. r[i] = l[i + k]
      BY <2>1, SuffixAt
    <2> QED
      BY <2>1, <2>2 DEF IsList
  <1> HIDE DEF r
  <1>4. IsList(r)
    BY <1>1, <1>2, <1>3 DEF IsList
  <1> QED
    BY <1>2, <1>4 DEF r

(* removeInvalidCursorsOnCheckpoint finds nothing to remove.               *)
LEMMA NamesAreValid ==
    ASSUME NEW m, NEW i, IsManager(m), i \in 1 .. Len(m.list)
    PROVE  [m.list[i] EXCEPT !.names = ValidNames(m, i)] = m.list[i]
  <1>1. m.list[i].names = {n \in DOMAIN m.cursors : m.cursors[n].chk = i}
    BY MgrParts DEF Standing
  <1>2. ValidNames(m, i) = m.list[i].names
    BY <1>1 DEF ValidNames
  <1>3. Shaped(m.list[i])
    BY MgrParts DEF IsList
  <1> DEFINE c == m.list[i]
  <1>4. [c EXCEPT !.names = c.names] = c
    BY <1>3, ShapedParts DEF Chk
  <1> QED
    BY <1>2, <1>4

(* The checkpoints before every cursor go, and the cursors' indices with   *)
(* them.                                                                   *)
LEMMA DropPrefixSound ==
    ASSUME NEW m, NEW k, NEW r, r = DropPrefix(m, k),
           Sound(m), k \in Nat, \A n \in DOMAIN m.cursors : k < m.cursors[n].chk
    PROVE  Sound(r)
  <1> DEFINE l == Suffix(m.list, k)
             total == ItemsInFirst(m.list, k)
             cs == [n \in DOMAIN m.cursors |-> CursorAfterDrop(m.cursors[n], k, total)]
             u == m.numItems - total
  <1>1. IsManager(m)
    BY DEF Sound
  <1>2. /\ IsList(m.list) /\ IsCursors(m.cursors) /\ Standing(m.list, m.cursors)
        /\ m.numItems \in Int /\ m.lastBySeqno \in Nat /\ m.pre \in Nat
        /\ DOMAIN m.list = 1 .. Len(m.list) /\ Len(m.list) \in Nat
    BY <1>1, MgrParts
  <1>3. k < Len(m.list)
    <2>1. k < m.cursors[Persistence].chk /\ m.cursors[Persistence].chk \in 1 .. Len(m.list)
      BY <1>2 DEF IsCursors, Standing
    <2> QED
      BY <1>2, <2>1
  <1>4. total \in Nat /\ u \in Int
    <2>1. k \in 0 .. Len(m.list)
      BY <1>2, <1>3
    <2> QED
      BY <1>2, <2>1, ItemsInFirstType
  <1> HIDE DEF total
  <1>5. r = [m EXCEPT !.list = l, !.numItems = u, !.cursors = cs]
    <2> DEFINE f == NamesChecked(m, k)
    <2>1. f = m.list
      <3>1. f = [i \in DOMAIN m.list |-> f[i]]
        BY DEF NamesChecked
      <3>2. \A i \in DOMAIN m.list : f[i] = m.list[i]
        BY <1>1, <1>2, NamesAreValid DEF NamesChecked
      <3>3. m.list = [i \in DOMAIN m.list |-> m.list[i]]
        BY <1>2 DEF IsList
      <3> HIDE DEF f
      <3> QED
        BY <3>1, <3>2, <3>3
    <2>2. r = [m EXCEPT !.list = SubSeq(f, k + 1, Len(m.list)), !.numItems = u, !.cursors = cs]
      BY DEF DropPrefix, total
    <2> HIDE DEF f
    <2> QED
      BY <2>1, <2>2 DEF Suffix
  <1> HIDE DEF u
  <1>6. r = Record(l, cs, u, m.lastBySeqno, m.pre)
    <2> HIDE DEF l, cs
    <2> DEFINE d == [m EXCEPT !.list = l]
               f == [d EXCEPT !.numItems = u]
    <2>1. r = [f EXCEPT !.cursors = cs]
      BY <1>1, <1>5 DEF IsManager
    <2>2. d = Record(l, m.cursors, m.numItems, m.lastBySeqno, m.pre)
      BY <1>1, MgrList, Zenon
    <2> HIDE DEF d
    <2>3. f = Record(l, m.cursors, u, m.lastBySeqno, m.pre)
      BY <2>2 DEF Record
    <2> HIDE DEF f
    <2> QED
      BY <2>1, <2>3 DEF Record
  <1>7. /\ IsList(l) /\ Len(l) = Len(m.list) - k
        /\ \A i \in 1 .. Len(l) : l[i] = m.list[i + k]
    <2>1. IsList(l) /\ Len(l) = Len(m.list) - k
      BY <1>2, <1>3, SuffixIsList
    <2>2. ASSUME NEW i \in 1 .. Len(l) PROVE l[i] = m.list[i + k]
      <3>1. i \in 1 .. Len(m.list) - k
        BY <2>1
      <3> QED
        BY <1>2, <1>3, <3>1, SuffixAt
    <2> QED
      BY <2>1, <2>2
  <1> HIDE DEF l
  <1>8. ASSUME NEW n \in DOMAIN m.cursors
        PROVE  /\ cs[n] \in Cursors /\ cs[n].chk = m.cursors[n].chk - k
               /\ cs[n].pos = m.cursors[n].pos
    <2> DEFINE cur == m.cursors[n]
               o == DecrOffset(cur.offset, total)
               i == cur.chk - k
    <2>1. cur \in Cursors /\ k < cur.chk
      BY <1>2 DEF IsCursors
    <2>2. cur.chk \in Nat /\ cur.pos \in Nat /\ cur.offset \in Int
      BY <2>1 DEF Cursors
    <2>3. o \in Int /\ i \in Nat
      BY <1>4, <2>1, <2>2 DEF DecrOffset
    <2>5. cs[n] = Registered(i, cur.pos, o)
      BY DEF CursorAfterDrop
    <2> HIDE DEF cur, o, i, cs
    <2>6. cs[n] \in Cursors /\ cs[n].chk = i /\ cs[n].pos = cur.pos
      BY <2>2, <2>3, <2>5, RegisteredCursor
    <2> QED
      BY <2>6 DEF i, cur
  <1>9. DOMAIN cs = DOMAIN m.cursors /\ cs \in [DOMAIN cs -> Cursors]
    BY <1>8
  <1> HIDE DEF cs
  <1>10. IsCursors(cs)
    BY <1>2, <1>9 DEF IsCursors
  <1>11. Standing(l, cs)
    <2>1. ASSUME NEW n \in DOMAIN cs
          PROVE  cs[n].chk \in 1 .. Len(l) /\ cs[n].pos \in 1 .. Len(l[cs[n].chk].toWrite)
      <3>1. /\ m.cursors[n].chk \in 1 .. Len(m.list) /\ k < m.cursors[n].chk
            /\ m.cursors[n].pos \in 1 .. Len(m.list[m.cursors[n].chk].toWrite)
        BY <1>2, <1>9 DEF Standing
      <3>2. cs[n].chk \in 1 .. Len(l) /\ cs[n].chk + k = m.cursors[n].chk
        <4> DEFINE a == m.cursors[n].chk
                   b == Len(m.list)
                   c == cs[n].chk
                   d == Len(l)
        <4>1. a \in Nat /\ b \in Nat /\ k < a /\ a <= b
          BY <1>2, <3>1, SMTT(40)
        <4>2. c = a - k /\ d = b - k
          BY <1>7, <1>8, <1>9
        <4> HIDE DEF a, b, c, d
        <4>3. c \in 1 .. d /\ c + k = a
          BY <4>1, <4>2
        <4> QED
          BY <4>3 DEF a, c, d
      <3> QED
        BY <1>7, <1>8, <1>9, <3>1, <3>2
    <2>2. ASSUME NEW i \in 1 .. Len(l)
          PROVE  l[i].names = {n \in DOMAIN cs : cs[n].chk = i}
      <3>1. i + k \in 1 .. Len(m.list) /\ i \in Nat
        BY <1>2, <1>3, <1>7
      <3>2. l[i].names = {n \in DOMAIN m.cursors : m.cursors[n].chk = i + k}
        BY <1>2, <1>7, <3>1 DEF Standing
      <3>3. \A n \in DOMAIN m.cursors : m.cursors[n].chk = i + k <=> cs[n].chk = i
        <4>1. \A n \in DOMAIN m.cursors : m.cursors[n].chk \in Nat
          BY <1>2 DEF IsCursors, Cursors
        <4> QED
          BY <1>8, <3>1, <4>1
      <3> QED
        BY <1>9, <3>2, <3>3
    <2> QED
      BY <2>1, <2>2 DEF Standing
  <1>12. IsManager(r)
    BY <1>2, <1>4, <1>6, <1>7, <1>10, <1>11, RecordIsManager
  <1>13. r.list = l /\ r.lastBySeqno = m.lastBySeqno
    BY <1>6, RecordFields
  <1>14. Back(r) = Back(m) /\ (Len(m.list) = 1 => Len(r.list) = 1)
    <2>1. Len(l) \in 1 .. Len(l) /\ Len(l) + k = Len(m.list)
      BY <1>2, <1>3, <1>7
    <2> QED
      BY <1>2, <1>3, <1>7, <1>13, <2>1 DEF Back
  <1> QED
    BY <1>12, <1>13, <1>14 DEF Sound

-----------------------------------------------------------------------------
(* resetCursors on a list of one checkpoint.  The cursors need not stand   *)
(* in it, as in clear, which replaces the list under them.                 *)
LEMMA ResetCursorsKeeps ==
    ASSUME NEW m, NEW b, NEW r, r = ResetCursors(m, b),
           m = Record(m.list, m.cursors, m.numItems, m.lastBySeqno, m.pre),
           IsList(m.list), Len(m.list) = 1, IsCursors(m.cursors),
           m.numItems \in Int, m.lastBySeqno \in Nat, m.pre \in Nat,
           m.list[1].names \subseteq DOMAIN m.cursors,
           \/ b
           \/ /\ Persistence \in m.list[1].names
              /\ m.cursors[Persistence].chk = 1
              /\ m.cursors[Persistence].pos \in 1 .. Len(m.list[1].toWrite)
    PROVE  IsManager(r) /\ SameBack(m, r)
  <1> DEFINE S == DOMAIN m.cursors \ (IF b THEN {} ELSE {Persistence})
             id == m.list[1].id
             p == IF ~ b THEN m.pre ELSE IF id > 0 THEN id - 1 ELSE 0
             N == m.list[1].names \cup S
             c == [m.list[1] EXCEPT !.names = N]
             l == [m.list EXCEPT ![1] = c]
             cs == [n \in DOMAIN m.cursors |->
                      IF n \in S THEN Registered(1, 1, 0) ELSE m.cursors[n]]
  <1>1. Shaped(m.list[1])
    BY DEF IsList
  <1>2. id \in Nat /\ Len(m.list[1].toWrite) \in Nat /\ Len(m.list[1].toWrite) >= 2
    BY <1>1, ShapedParts
  <1>3. p \in Nat
    BY <1>2
  <1>4. N = DOMAIN m.cursors /\ N \in SUBSET CursorNames
    BY DEF IsCursors
  <1>5. r = [m EXCEPT !.cursors = cs, !.list = l, !.pre = p]
    BY DEF ResetCursors, Record
  <1>6. /\ Shaped(c) /\ c.names = N /\ c.state = m.list[1].state /\ c.id = m.list[1].id
        /\ c.toWrite = m.list[1].toWrite
    <2> DEFINE e == m.list[1]
    <2>1. Shaped(e) /\ N \in SUBSET CursorNames /\ c = [e EXCEPT !.names = N]
      BY <1>1, <1>4
    <2> HIDE DEF N, e, c
    <2>2. c = Chk(e.id, e.state, e.snapStart, e.snapEnd, e.toWrite, N)
      BY <2>1, ExceptNames, Zenon
    <2>3. /\ e.id \in Nat /\ e.state \in {"open", "closed"} /\ e.snapStart \in Nat
          /\ e.snapEnd \in Nat /\ e.toWrite \in Seq(Items) /\ Len(e.toWrite) >= 2
          /\ e.toWrite[1].op = "empty"
      BY <2>1, ShapedParts
    <2>4. Shaped(c)
      BY <2>1, <2>2, <2>3, PartsShaped
    <2>5. c.names = N /\ c.state = e.state /\ c.id = e.id /\ c.toWrite = e.toWrite
      BY ONLY <2>2, ChkFields
    <2> QED
      BY <2>4, <2>5, Zenon DEF e
  <1> HIDE DEF c, p
  <1>7. IsList(l) /\ Len(l) = 1 /\ l[1] = c
    <2>1. m.list \in Seq(Checkpoints) /\ c \in Checkpoints
      BY <1>6 DEF IsList, Shaped
    <2>1a. DOMAIN m.list = 1 .. 1
      BY <2>1
    <2>1b. l \in [1 .. 1 -> Checkpoints] /\ l[1] = c
      BY <2>1, <2>1a
    <2> HIDE DEF l
    <2> DEFINE one == 1
    <2>1c. one \in Nat /\ l \in [1 .. one -> Checkpoints]
      BY <2>1b
    <2> HIDE DEF one
    <2>1d. l \in Seq(Checkpoints) /\ Len(l) = one
      BY <2>1c, FunctionIsSequence
    <2>2. l \in Seq(Checkpoints) /\ Len(l) = 1 /\ l[1] = c
      BY <2>1b, <2>1d DEF one
    <2>3. \A i \in 1 .. Len(l) : Shaped(l[i])
      BY <1>6, <2>2
    <2> QED
      BY <2>2, <2>3 DEF IsList
  <1>8. Registered(1, 1, 0) \in Cursors /\ Registered(1, 1, 0).chk = 1 /\ Registered(1, 1, 0).pos = 1
    BY RegisteredCursor
  <1>9. \A n \in DOMAIN m.cursors : cs[n] = Registered(1, 1, 0)
                                    \/ (~ b /\ n = Persistence /\ cs[n] = m.cursors[n])
    BY DEF IsCursors
  <1>10. IsCursors(cs) /\ DOMAIN cs = DOMAIN m.cursors
    BY <1>8 DEF IsCursors
  <1>11. r = Record(l, cs, m.numItems, m.lastBySeqno, p)
    <2> HIDE DEF l, cs
    <2> DEFINE d == [m EXCEPT !.cursors = cs]
               f == [d EXCEPT !.list = l]
    <2>1. r = [f EXCEPT !.pre = p]
      BY <1>5 DEF Record
    <2>2. d = Record(m.list, cs, m.numItems, m.lastBySeqno, m.pre)
      BY DEF Record
    <2> HIDE DEF d
    <2>3. f = Record(l, cs, m.numItems, m.lastBySeqno, m.pre)
      BY <2>2 DEF Record
    <2> HIDE DEF f
    <2> QED
      BY <2>1, <2>3 DEF Record
  <1> HIDE DEF l, cs
  <1>12. \A n \in DOMAIN cs : cs[n].chk = 1 /\ cs[n].pos \in 1 .. Len(c.toWrite)
    <2> SUFFICES ASSUME NEW n \in DOMAIN cs
                 PROVE  cs[n].chk = 1 /\ cs[n].pos \in 1 .. Len(c.toWrite)
      OBVIOUS
    <2>1. CASE cs[n] = Registered(1, 1, 0)
      BY <1>2, <1>6, <1>8, <2>1, SMTT(40)
    <2>2. CASE ~ b /\ n = Persistence /\ cs[n] = m.cursors[n]
      BY <1>6, <2>2
    <2> QED
      BY <1>9, <1>10, <2>1, <2>2
  <1>13. Standing(l, cs)
    <2>1. \A n \in DOMAIN cs : cs[n].chk \in 1 .. Len(l)
                               /\ cs[n].pos \in 1 .. Len(l[cs[n].chk].toWrite)
      BY <1>7, <1>12
    <2>2. \A i \in 1 .. Len(l) : i = 1
      BY <1>7
    <2>3. l[1].names = {n \in DOMAIN cs : cs[n].chk = 1}
      BY <1>4, <1>6, <1>7, <1>10, <1>12
    <2>4. \A i \in 1 .. Len(l) : l[i].names = {n \in DOMAIN cs : cs[n].chk = i}
      BY <2>2, <2>3
    <2> QED
      BY <2>1, <2>4 DEF Standing
  <1>14. IsManager(r)
    BY <1>3, <1>7, <1>10, <1>11, <1>13, RecordIsManager
  <1>15. r.list = l /\ r.lastBySeqno = m.lastBySeqno
    BY <1>11, RecordFields
  <1> QED
    BY <1>6, <1>7, <1>14, <1>15 DEF SameBack, Back

(* resetCursors(false) while the manager has one checkpoint.               *)
LEMMA ResetOthersKeeps ==
    ASSUME NEW m, NEW r, r = ResetCursors(m, FALSE), IsManager(m), Len(m.list) = 1
    PROVE  IsManager(r) /\ SameBack(m, r)
  <1>1. /\ IsList(m.list) /\ IsCursors(m.cursors) /\ Standing(m.list, m.cursors)
        /\ m.numItems \in Int /\ m.lastBySeqno \in Nat /\ m.pre \in Nat
    BY MgrParts
  <1>2. m = Record(m.list, m.cursors, m.numItems, m.lastBySeqno, m.pre)
    BY DEF IsManager, Record
  <1>3. m.list[1].names = {n \in DOMAIN m.cursors : m.cursors[n].chk = 1}
    BY <1>1 DEF Standing
  <1>4. /\ Persistence \in DOMAIN m.cursors /\ m.cursors[Persistence].chk = 1
        /\ m.cursors[Persistence].pos \in 1 .. Len(m.list[1].toWrite)
    BY <1>1 DEF IsCursors, Standing
  <1>5. m.list[1].names \subseteq DOMAIN m.cursors /\ Persistence \in m.list[1].names
    BY <1>3, <1>4
  <1> QED
    BY <1>1, <1>2, <1>4, <1>5, ResetCursorsKeeps

(* removeClosedUnrefCheckpoints                                            *)
LEMMA RemoverSound ==
    ASSUME NEW m, NEW isActive, NEW timeUp, NEW memHigh, NEW enough, NEW r,
           r = RemoveClosedUnrefCheckpoints(m, isActive, timeUp, memHigh, enough),
           Sound(m)
    PROVE  Sound(r) /\ r.lastBySeqno = m.lastBySeqno
  <1> DEFINE force == IsCheckpointCreationForHighMemUsage(m, memHigh, enough)
             o == CheckOpenCheckpoint(m, force, timeUp)
             q == IF isActive /\ CanCreateNewCheckpoint(m) THEN o ELSE m
             k == NumCheckpointsRemoved(q)
  <1>1. IsManager(m)
    BY DEF Sound
  <1>2. Sound(o) /\ o.lastBySeqno = m.lastBySeqno
    <2>1. ~ AllCursorsInOpenCheckpoint(m)
      BY <1>1, NeverAllCursorsInOpen
    <2>2. NeedsNewCheckpoint(m, force, timeUp) => NeedsNewCheckpoint(m, FALSE, timeUp)
      BY <2>1 DEF NeedsNewCheckpoint, IsCheckpointCreationForHighMemUsage
    <2>3. NeedsNewCheckpoint(m, force, timeUp) => m.lastBySeqno # 0
      BY <2>2, NeedsNewHasItems
    <2> HIDE DEF force
    <2> QED
      BY <2>3, CheckOpenSound
  <1> HIDE DEF o
  <1>3. Sound(q) /\ q.lastBySeqno = m.lastBySeqno
    BY <1>2
  <1>4. r = q \/ r = DropPrefix(q, k)
    BY DEF RemoveClosedUnrefCheckpoints, o
  <1> HIDE DEF q
  <1>5. IsManager(q)
    BY <1>3 DEF Sound
  <1> DEFINE u == UnreferencedPrefix(q)
  <1>6. u \in Nat /\ \A n \in DOMAIN q.cursors : u < q.cursors[n].chk
    BY <1>5, PrefixBeforeCursors
  <1>7. Len(q.list) \in Nat /\ \A n \in DOMAIN q.cursors : q.cursors[n].chk \in Nat
    BY <1>5, MgrParts DEF IsCursors, Cursors
  <1>8. k \in Nat /\ k <= u
    <2> HIDE DEF u
    <2>1. k = u \/ k = MinOf(u, MaxOf(1, Len(q.list) - MaxCheckpoints))
      BY DEF NumCheckpointsRemoved, u
    <2>2. MaxOf(1, Len(q.list) - MaxCheckpoints) \in Nat
      BY <1>7, LimitsPositive DEF MaxOf
    <2> QED
      BY <1>6, <2>1, <2>2 DEF MinOf
  <1> HIDE DEF k, u
  <1>9. \A n \in DOMAIN q.cursors : k < q.cursors[n].chk
    BY <1>6, <1>7, <1>8
  <1>10. Sound(DropPrefix(q, k)) /\ DropPrefix(q, k).lastBySeqno = q.lastBySeqno
    <2>1. Sound(DropPrefix(q, k))
      BY <1>3, <1>8, <1>9, DropPrefixSound
    <2>2. DropPrefix(q, k).lastBySeqno = q.lastBySeqno
      BY <1>5 DEF DropPrefix, IsManager
    <2> QED
      BY <2>1, <2>2
  <1> QED
    BY <1>3, <1>4, <1>10

(* A step that keeps the mutations and sets the id of the last checkpoint. *)
LEMMA SameMutationsSound ==
    ASSUME NEW m, NEW r, Sound(m), IsManager(r), SameMutations(m, r),
           Back(r).id # 0 \/ Back(r).id = Back(m).id \/ m.lastBySeqno = 0
    PROVE  Sound(r)
  BY DEF Sound, SameMutations

(* setOpenCheckpointId, then resetCursors(false): the end of the backfill  *)
(* phase, in which the list is one checkpoint.                             *)
LEMMA LeaveBackfillSound ==
    ASSUME NEW m, NEW id, NEW r, r = ResetCursors(SetOpenCheckpointId(m, id), FALSE),
           Sound(m), id \in Nat, id # 0, Back(m).id = 0
    PROVE  Sound(r) /\ r.lastBySeqno = m.lastBySeqno /\ Back(r).id = id
  <1> DEFINE q == SetOpenCheckpointId(m, id)
  <1>1. IsManager(m) /\ Len(m.list) = 1
    BY DEF Sound
  <1>2. IsManager(q) /\ SameMutations(m, q) /\ Back(q).id = id
    BY <1>1, SetOpenIdKeeps
  <1> HIDE DEF q
  <1>3. Sound(q) /\ Len(q.list) = 1
    BY <1>1, <1>2, SameMutationsSound DEF SameMutations
  <1>4. IsManager(r) /\ SameBack(q, r)
    <2>1. r = ResetCursors(q, FALSE)
      BY DEF q
    <2> QED
      BY <1>2, <1>3, <2>1, ResetOthersKeeps
  <1>5. Sound(r)
    BY <1>3, <1>4, SameBackSound
  <1> QED
    BY <1>2, <1>4, <1>5 DEF SameBack, SameMutations

(* setBackfillPhase, which a disk snapshot enters on an empty vbucket.     *)
LEMMA SetBackfillPhaseSound ==
    ASSUME NEW m, NEW s, NEW e, NEW r, r = SetBackfillPhase(m, s, e),
           Sound(m), m.lastBySeqno = 0, s \in Nat, e \in Nat
    PROVE  Sound(r) /\ r.lastBySeqno = m.lastBySeqno
  <1> DEFINE q == SetOpenCheckpointId(m, 0)
  <1>1. IsManager(m)
    BY DEF Sound
  <1>2. IsManager(q) /\ SameMutations(m, q)
    <2>1. 0 \in Nat
      OBVIOUS
    <2> QED
      BY <1>1, <2>1, SetOpenIdKeeps
  <1>3. r = SetSnapshotRange(q, s, e)
    BY DEF SetBackfillPhase
  <1> HIDE DEF q
  <1>4. IsManager(r) /\ SameMutations(q, r)
    BY <1>2, <1>3, SetSnapshotRangeKeeps
  <1>5. SameMutations(m, r)
    BY <1>2, <1>4 DEF SameMutations
  <1> QED
    BY <1>4, <1>5, SameMutationsSound DEF SameMutations

(* updateCurrentSnapshotEnd                                                *)
LEMMA UpdateEndSound ==
    ASSUME NEW m, NEW e, NEW r, r = UpdateCurrentSnapshotEnd(m, e), Sound(m), e \in Nat
    PROVE  Sound(r) /\ r.lastBySeqno = m.lastBySeqno
  <1>1. IsManager(m)
    BY DEF Sound
  <1>2. IsManager(r) /\ SameMutations(m, r) /\ Back(r).id = Back(m).id
    BY <1>1, UpdateEndKeeps
  <1> QED
    BY <1>2, SameMutationsSound DEF SameMutations

(* setSnapshotRange keeps the invariant of the manager.                    *)
LEMMA SetRangeSound ==
    ASSUME NEW m, NEW s, NEW e, NEW r, r = SetSnapshotRange(m, s, e),
           Sound(m), s \in Nat, e \in Nat
    PROVE  Sound(r) /\ r.lastBySeqno = m.lastBySeqno
  <1>1. IsManager(m)
    BY DEF Sound
  <1>2. IsManager(r) /\ SameMutations(m, r) /\ Back(r).id = Back(m).id
    BY <1>1, SetSnapshotRangeKeeps
  <1> QED
    BY <1>2, SameMutationsSound DEF SameMutations

(* createSnapshot                                                          *)
LEMMA CreateSnapshotSound ==
    ASSUME NEW m, NEW s, NEW e, NEW r, r = CreateSnapshot(m, s, e),
           Sound(m), s \in Nat, e \in Nat
    PROVE  Sound(r) /\ r.lastBySeqno = m.lastBySeqno
  <1> DEFINE c == Back(m)
             q == IF c.id = 0 THEN ResetCursors(SetOpenCheckpointId(m, 1), FALSE) ELSE m
  <1>1. CASE c.state = "open" /\ NumItems(c) = 0
    <2>1. r = SetSnapshotRange(q, s, e)
      BY <1>1 DEF CreateSnapshot
    <2>2. Sound(q) /\ q.lastBySeqno = m.lastBySeqno
      <3>1. CASE c.id = 0
        <4> DEFINE one == 1
        <4>1. q = ResetCursors(SetOpenCheckpointId(m, one), FALSE) /\ one \in Nat /\ one # 0
          BY <3>1
        <4> HIDE DEF one, q
        <4> QED
          BY <3>1, <4>1, LeaveBackfillSound
      <3>2. CASE c.id # 0
        BY <3>2
      <3> QED
        BY <3>1, <3>2
    <2> HIDE DEF q
    <2> QED
      BY <2>1, <2>2, SetRangeSound
  <1>2. CASE ~ (c.state = "open" /\ NumItems(c) = 0)
    <2> DEFINE id == c.id + 1
    <2>1. r = AddNewCheckpointWithSnapshot(m, id, s, e)
      BY <1>2 DEF CreateSnapshot
    <2>2. id \in Nat /\ id # 0
      BY BackShaped, ShapedParts DEF Sound
    <2>3. m.lastBySeqno # 0
      BY <1>2, HasItems DEF Sound
    <2> HIDE DEF id
    <2> QED
      BY <2>1, <2>2, <2>3, AddNewSound
  <1> QED
    BY <1>1, <1>2

(* resetSnapshotRange                                                      *)
LEMMA ResetSnapshotRangeSound ==
    ASSUME NEW m, NEW r, r = ResetSnapshotRange(m), Sound(m)
    PROVE  Sound(r) /\ r.lastBySeqno = m.lastBySeqno
  <1> DEFINE x == m.lastBySeqno + 1
             y == m.lastBySeqno
  <1>1. x \in Nat /\ y \in Nat
    BY MgrParts DEF Sound
  <1>2. r = SetSnapshotRange(m, x, x) \/ r = UpdateCurrentSnapshotEnd(m, y)
    BY DEF ResetSnapshotRange
  <1> HIDE DEF x
  <1>3. CASE r = SetSnapshotRange(m, x, x)
    BY <1>1, <1>3, SetRangeSound
  <1>4. CASE r = UpdateCurrentSnapshotEnd(m, y)
    BY <1>1, <1>4, UpdateEndSound
  <1> QED
    BY <1>2, <1>3, <1>4

(* createNewCheckpoint                                                     *)
LEMMA CreateNewCheckpointSound ==
    ASSUME NEW m, NEW r, r = CreateNewCheckpoint(m), Sound(m)
    PROVE  Sound(r) /\ r.lastBySeqno = m.lastBySeqno
  <1>1. CASE NumItems(Back(m)) > 0
    <2>1. r = AddNewCheckpoint(m, Back(m).id + 1)
      BY <1>1 DEF CreateNewCheckpoint
    <2>2. m.lastBySeqno # 0
      BY <1>1, HasItems
    <2> QED
      BY <2>1, <2>2, AddNextSound
  <1>2. CASE ~ (NumItems(Back(m)) > 0)
    BY <1>2 DEF CreateNewCheckpoint
  <1> QED
    BY <1>1, <1>2

(* checkAndAddNewCheckpoint                                                *)
LEMMA CheckAndAddSound ==
    ASSUME NEW m, NEW id, NEW r, r = CheckAndAddNewCheckpoint(m, id),
           Sound(m), id \in Nat
    PROVE  Sound(r) /\ r.lastBySeqno = m.lastBySeqno
  <1> DEFINE c == Back(m)
             here == c.names \ {Persistence}
             q == SetOpenCheckpointId(m, id)
             cs == [n \in DOMAIN q.cursors |-> IF n \in here
                      THEN [q.cursors[n] EXCEPT !.pos = 1] ELSE q.cursors[n]]
  <1>1. IsManager(m)
    BY DEF Sound
  <1>2. CASE id = 0
    BY <1>2 DEF CheckAndAddNewCheckpoint
  <1>3. CASE id # 0 /\ c.id = 0
    <2>1. r = ResetCursors(SetOpenCheckpointId(m, id), FALSE)
      BY <1>3 DEF CheckAndAddNewCheckpoint
    <2> QED
      BY <1>3, <2>1, LeaveBackfillSound
  <1>4. CASE id # 0 /\ c.id # 0 /\ c.state = "open" /\ NumItems(c) = 0
    <2>1. r = [q EXCEPT !.cursors = cs]
      BY <1>4 DEF CheckAndAddNewCheckpoint
    <2>2. IsManager(q) /\ SameMutations(m, q) /\ Back(q).id = id
      BY <1>1, SetOpenIdKeeps
    <2> HIDE DEF q, here
    <2>3. Sound(q)
      BY <1>4, <2>2, SameMutationsSound
    <2>4. /\ IsList(q.list) /\ IsCursors(q.cursors) /\ Standing(q.list, q.cursors)
          /\ q.numItems \in Int /\ q.lastBySeqno \in Nat /\ q.pre \in Nat
      BY <2>2, MgrParts
    <2>5. ASSUME NEW n \in DOMAIN q.cursors
          PROVE  /\ cs[n] \in Cursors /\ cs[n].chk = q.cursors[n].chk
                 /\ cs[n].pos \in 1 .. Len(q.list[q.cursors[n].chk].toWrite)
      <3> DEFINE cur == q.cursors[n]
      <3>1. /\ cur \in Cursors /\ cur.chk \in 1 .. Len(q.list)
            /\ cur.pos \in 1 .. Len(q.list[cur.chk].toWrite)
        BY <2>4 DEF IsCursors, Standing
      <3>2. Len(q.list[cur.chk].toWrite) \in Nat /\ Len(q.list[cur.chk].toWrite) >= 2
        BY <2>4, <3>1, ListFacts
      <3>3. cs[n] = [cur EXCEPT !.pos = 1] \/ cs[n] = cur
        OBVIOUS
      <3> HIDE DEF cs, cur
      <3>4. CASE cs[n] = [cur EXCEPT !.pos = 1]
        <4>1. cs[n] = Registered(cur.chk, 1, cur.offset) /\ cur.chk \in Nat /\ cur.offset \in Int
          BY <3>1, <3>4 DEF Registered, Cursors
        <4>2. cs[n] \in Cursors /\ cs[n].chk = cur.chk /\ cs[n].pos = 1
          BY <4>1, SMTT(40) DEF Registered, Cursors
        <4> QED
          BY <3>2, <4>2, SMTT(40) DEF cur
      <3>5. CASE cs[n] = cur
        BY <3>1, <3>5 DEF cur
      <3> QED
        BY <3>3, <3>4, <3>5
    <2>6. DOMAIN cs = DOMAIN q.cursors /\ cs \in [DOMAIN cs -> Cursors]
      BY <2>5
    <2> HIDE DEF cs
    <2>7. IsCursors(cs)
      BY <2>4, <2>6 DEF IsCursors
    <2>8. Standing(q.list, cs)
      <3>1. \A n \in DOMAIN q.cursors :
              /\ cs[n].chk = q.cursors[n].chk
              /\ cs[n].pos \in 1 .. Len(q.list[q.cursors[n].chk].toWrite)
        BY <2>5
      <3> QED
        BY <2>4, <2>6, <3>1, StandingSameChk
    <2>9. r = Record(q.list, cs, q.numItems, q.lastBySeqno, q.pre)
      BY <2>1, <2>2, MgrCursors, Zenon
    <2>10. IsManager(r)
      BY <2>4, <2>7, <2>8, <2>9, RecordIsManager
    <2>11. r.list = q.list /\ r.lastBySeqno = q.lastBySeqno
      BY <2>9, RecordFields
    <2>12. SameBack(q, r)
      BY <2>11 DEF SameBack, Back
    <2> QED
      BY <2>2, <2>3, <2>10, <2>12, SameBackSound DEF SameBack, SameMutations
  <1>5. CASE id # 0 /\ c.id # 0 /\ ~ (c.state = "open" /\ NumItems(c) = 0)
    <2>1. r = AddNewCheckpointWithSnapshot(m, id, m.lastBySeqno, m.lastBySeqno)
      BY <1>5 DEF CheckAndAddNewCheckpoint, AddNewCheckpoint
    <2>2. m.lastBySeqno # 0 /\ m.lastBySeqno \in Nat
      BY <1>1, <1>5, HasItems, MgrParts DEF Sound
    <2> QED
      BY <1>5, <2>1, <2>2, AddNewSound
  <1> QED
    BY <1>2, <1>3, <1>4, <1>5

(* A new checkpoint holds no mutation.                                     *)
LEMMA NewCheckpointEmpty ==
    ASSUME NEW id, NEW s, NEW e, NEW last, NEW c, c = NewCheckpoint(id, s, e, last)
    PROVE  MutationPositions(c) = {}
  <1> DEFINE a == CreateCheckpointItem("empty", last)
             b == CreateCheckpointItem("start", last)
  <1>1. a.op = "empty" /\ b.op = "start"
    BY DEF CreateCheckpointItem
  <1>2. c.toWrite = << a, b >>
    BY DEF NewCheckpoint
  <1> HIDE DEF a, b
  <1>3. DOMAIN c.toWrite = 1 .. 2 /\ c.toWrite[1] = a /\ c.toWrite[2] = b
    BY <1>2
  <1>4. \A j \in 1 .. 2 : j = 1 \/ j = 2
    OBVIOUS
  <1>5. \A j \in DOMAIN c.toWrite : c.toWrite[j].op # "mutation"
    BY <1>1, <1>3, <1>4
  <1> QED
    BY <1>5 DEF MutationPositions

(* A list of one checkpoint.                                               *)
LEMMA SingletonList ==
    ASSUME NEW c, NEW l, l = << c >>, Shaped(c)
    PROVE  IsList(l) /\ Len(l) = 1 /\ l[1] = c
  <1>1. c \in Checkpoints
    BY DEF Shaped
  <1>2. l \in Seq(Checkpoints) /\ Len(l) = 1 /\ l[1] = c
    BY <1>1
  <1>3. \A i \in 1 .. Len(l) : Shaped(l[i])
    BY <1>2
  <1> QED
    BY <1>2, <1>3 DEF IsList

(* clear: a new list, and every cursor at its beginning.                   *)
LEMMA ClearSound ==
    ASSUME NEW m, NEW isActive, NEW s, NEW r, r = Clear(m, isActive, s),
           Sound(m), s \in Nat
    PROVE  Sound(r) /\ r.lastBySeqno = s
  <1> DEFINE id == IF isActive THEN 1 ELSE 0
             c == NewCheckpoint(id, s, s, s)
             l == << c >>
             q == [m EXCEPT !.list = l, !.numItems = 1, !.lastBySeqno = s, !.pre = 0]
  <1>1. IsManager(m) /\ IsCursors(m.cursors)
    BY MgrParts DEF Sound
  <1>2. r = ResetCursors(q, TRUE)
    BY DEF Clear
  <1>3. id \in Nat
    OBVIOUS
  <1> HIDE DEF id
  <1>4. Shaped(c) /\ c.names = {} /\ c.state = "open" /\ MutationPositions(c) = {}
    <2>1. c = NewCheckpoint(id, s, s, s)
      OBVIOUS
    <2> HIDE DEF c
    <2> QED
      BY <1>3, <2>1, NewCheckpointShaped, NewCheckpointEmpty
  <1> HIDE DEF c
  <1>5. IsList(l) /\ Len(l) = 1 /\ l[1] = c
    BY <1>4, SingletonList
  <1> HIDE DEF l
  <1>6. q = Record(l, m.cursors, 1, s, 0)
    <2> DEFINE d == [m EXCEPT !.list = l]
               f == [d EXCEPT !.numItems = 1]
               g == [f EXCEPT !.lastBySeqno = s]
    <2>1. q = [g EXCEPT !.pre = 0]
      BY <1>1 DEF IsManager
    <2>2. d = Record(l, m.cursors, m.numItems, m.lastBySeqno, m.pre)
      BY <1>1, MgrList, Zenon
    <2> HIDE DEF d
    <2>3. f = Record(l, m.cursors, 1, m.lastBySeqno, m.pre)
      BY <2>2 DEF Record
    <2> HIDE DEF f
    <2>4. g = Record(l, m.cursors, 1, s, m.pre)
      BY <2>3 DEF Record
    <2> HIDE DEF g
    <2> QED
      BY <2>1, <2>4 DEF Record
  <1> HIDE DEF q
  <1>7. q.list = l /\ q.cursors = m.cursors /\ q.numItems = 1 /\ q.lastBySeqno = s /\ q.pre = 0
    BY <1>6, RecordFields
  <1>8. /\ q = Record(q.list, q.cursors, q.numItems, q.lastBySeqno, q.pre)
        /\ IsList(q.list) /\ Len(q.list) = 1 /\ IsCursors(q.cursors)
        /\ q.numItems \in Int /\ q.lastBySeqno \in Nat /\ q.pre \in Nat
        /\ q.list[1].names \subseteq DOMAIN q.cursors
    BY <1>1, <1>4, <1>5, <1>6, <1>7, SMTT(40)
  <1>9. IsManager(r) /\ SameBack(q, r)
    BY <1>2, <1>8, ResetCursorsKeeps
  <1>10. Back(q) = c
    BY <1>5, <1>7 DEF Back
  <1> QED
    BY <1>4, <1>5, <1>7, <1>9, <1>10, SMTT(60) DEF Sound, SameBack, MutationPositions

(* The constructor, and the id setVBucketState then gives.                 *)
LEMMA FreshVBucketSound ==
    ASSUME NEW isActive, NEW r, r = FreshVBucket(isActive)
    PROVE  Sound(r) /\ r.lastBySeqno = 0
  <1> DEFINE b == NewCheckpoint(1, 0, 0, 0)
             c == [b EXCEPT !.names = {Persistence}]
             l == << c >>
             cs == [n \in {Persistence} |-> Registered(1, 1, 0)]
             m == NewManager(1, 0, 0, 0)
             id == IF isActive THEN 2 ELSE 0
  <1>1. Shaped(b) /\ b.state = "open" /\ b.id = 1 /\ MutationPositions(b) = {}
    <2> DEFINE one == 1
               zero == 0
    <2>1. b = NewCheckpoint(one, zero, zero, zero) /\ one \in Nat /\ zero \in Nat
      OBVIOUS
    <2> HIDE DEF b, one, zero
    <2> QED
      BY <2>1, NewCheckpointShaped, NewCheckpointEmpty DEF one
  <1> HIDE DEF b
  <1>2. /\ Shaped(c) /\ c.names = {Persistence} /\ c.state = "open" /\ c.id = 1
        /\ c.toWrite = b.toWrite
    <2> DEFINE N == {Persistence}
    <2>1. N \in SUBSET CursorNames /\ c = [b EXCEPT !.names = N]
      BY DEF CursorNames
    <2> HIDE DEF N, c
    <2>2. c = Chk(b.id, b.state, b.snapStart, b.snapEnd, b.toWrite, N)
      BY <1>1, <2>1, ExceptNames, Zenon
    <2>3. Shaped(c)
      BY <1>1, <2>1, <2>2, ShapedParts, PartsShaped
    <2>4. c.names = N /\ c.state = b.state /\ c.id = b.id /\ c.toWrite = b.toWrite
      BY ONLY <2>2, ChkFields
    <2> QED
      BY <1>1, <2>3, <2>4, Zenon DEF N
  <1> HIDE DEF c
  <1>3. IsList(l) /\ Len(l) = 1 /\ l[1] = c
    BY <1>2, SingletonList
  <1>4. Registered(1, 1, 0) \in Cursors /\ Registered(1, 1, 0).chk = 1 /\ Registered(1, 1, 0).pos = 1
    BY RegisteredCursor
  <1>5. DOMAIN cs = {Persistence} /\ cs[Persistence] = Registered(1, 1, 0)
    OBVIOUS
  <1>6. IsCursors(cs)
    BY <1>4 DEF IsCursors, CursorNames
  <1>7. m = Record(l, cs, 1, 0, 0)
    BY DEF NewManager, Record, b, c
  <1> HIDE DEF l, cs, m
  <1>8. Standing(l, cs)
    <2>1. Len(c.toWrite) \in Nat /\ Len(c.toWrite) >= 2
      BY <1>2, ShapedParts
    <2>2. \A n \in DOMAIN cs : cs[n].chk \in 1 .. Len(l)
                               /\ cs[n].pos \in 1 .. Len(l[cs[n].chk].toWrite)
      BY <1>3, <1>4, <1>5, <2>1
    <2>3. l[1].names = {n \in DOMAIN cs : cs[n].chk = 1}
      BY <1>2, <1>3, <1>4, <1>5
    <2>4. \A i \in 1 .. Len(l) : i = 1
      BY <1>3
    <2>5. \A i \in 1 .. Len(l) : l[i].names = {n \in DOMAIN cs : cs[n].chk = i}
      BY <2>3, <2>4
    <2> QED
      BY <2>2, <2>5 DEF Standing
  <1>9. IsManager(m)
    BY <1>3, <1>6, <1>7, <1>8, RecordIsManager
  <1>10. m.list = l /\ m.lastBySeqno = 0
    BY <1>7, RecordFields
  <1>11. Sound(m)
    BY <1>1, <1>2, <1>3, <1>9, <1>10 DEF Sound, Back, MutationPositions
  <1>12. r = SetOpenCheckpointId(m, id) /\ id \in Nat
    BY DEF FreshVBucket, m
  <1> HIDE DEF id
  <1>13. IsManager(r) /\ SameMutations(m, r)
    BY <1>9, <1>12, SetOpenIdKeeps
  <1> QED
    BY <1>10, <1>11, <1>13, SameMutationsSound DEF SameMutations

=============================================================================
