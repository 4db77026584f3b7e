--------------------------- MODULE SnapshotRanges ---------------------------
(***************************************************************************)
(* The open checkpoint of a vbucket and the persistence cursor, reduced to *)
(* what decides the snapshot range of a batch of the flusher: the range of *)
(* the open checkpoint, whether it has items, whether the cursor is in it  *)
(* (or the start of the range of the checkpoint where it is), the last     *)
(* seqno the cursor has read, and whether it has a meta item to read.      *)
(***************************************************************************)
EXTENDS Integers

CursorStart(c) == IF c.here THEN c.start ELSE c.before

CursorAtEnd(c, high) == c.here /\ c.seen = high /\ ~c.meta

Unread(c, high) == c.meta \/ c.seen < high

(* getAllItemsForCursor for the persistence cursor.                        *)
ReadAll(c, high) == [c EXCEPT !.seen = high, !.meta = FALSE, !.here = TRUE, !.before = 0]

(* addNewCheckpoint_UNLOCKED: a cursor that has read everything steps into *)
(* the new checkpoint, any other stays in the one it reads.                *)
AddCheckpoint(c, high, start, end) ==
    [c EXCEPT !.start = start, !.end = end, !.items = FALSE, !.meta = TRUE,
              !.here = CursorAtEnd(c, high),
              !.before = IF CursorAtEnd(c, high) THEN 0 ELSE CursorStart(c)]

(* createSnapshot                                                          *)
CreateSnapshot(c, high, start, end) ==
    IF c.items
    THEN AddCheckpoint(c, high, start, end)
    ELSE [c EXCEPT !.start = start, !.end = end]

(* resetSnapshotRange                                                      *)
ResetSnapshotRange(c, high) ==
    IF c.items
    THEN [c EXCEPT !.end = high]
    ELSE [c EXCEPT !.start = high + 1, !.end = high + 1]

(* getSnapshotInfo: an empty open checkpoint that starts past the high     *)
(* seqno stands for nothing that was received.                             *)
SnapshotInfo(c, high) ==
    IF ~c.items /\ high < c.start
    THEN [start |-> high, end |-> high]
    ELSE [start |-> c.start, end |-> c.end]

(* The vbucket the constructor makes around a high seqno and a range.      *)
NewCheckpoints(high, range) ==
    [start |-> range.start, end |-> range.end, items |-> FALSE, here |-> TRUE,
     before |-> 0, seen |-> high, meta |-> TRUE]

(* The type of the record.                                                 *)
OpenCheckpoints ==
    [start : Nat, end : Nat, items : BOOLEAN, here : BOOLEAN, before : Nat,
     seen : Nat, meta : BOOLEAN]

=============================================================================
