---------------------------- MODULE FailoverTable ----------------------------
(***************************************************************************)
(* The class FailoverTable: the branches of a vbucket's history that its   *)
(* node has been on, newest first.  An entry holds the uuid of a branch    *)
(* and the seqno at which the branch begins.  Each method runs under the   *)
(* table's lock and is an operator here.                                   *)
(***************************************************************************)
EXTENDS Integers, Sequences

CONSTANT MaxEntries   \* max_failover_entries

ASSUME MaxEntriesPositive == MaxEntries \in Nat \ {0}

Entry(uuid, seqno) == [uuid |-> uuid, seqno |-> seqno]

Entries == [uuid : Nat, seqno : Nat]

Above(t, seqno) == {i \in DOMAIN t : t[i].seqno > seqno}

LatestUUID(t) == t[1].uuid

Smaller(a, b) == IF a < b THEN a ELSE b

-----------------------------------------------------------------------------
(* createEntry.  Its loop erases the entries above the seqno; erase        *)
(* returns the next entry, which the ++itr of the loop skips, so that of   *)
(* neighbours above the seqno every other one stays.                       *)
Erased(t, seqno) ==
    {i \in Above(t, seqno) :
        \E first \in 1 .. i :
            /\ first .. i \subseteq Above(t, seqno)
            /\ first - 1 \notin Above(t, seqno)
            /\ (i - first) % 2 = 0}

ErasePass(t, seqno) ==
    LET kept[i \in 0 .. Len(t)] ==
            IF i = 0 THEN << >>
            ELSE IF i \in Erased(t, seqno) THEN kept[i - 1] ELSE Append(kept[i - 1], t[i])
    IN kept[Len(t)]

(* When the last entry is erased, ++itr goes from end() to begin() (the    *)
(* list is circular) and the loop runs over what is left.                  *)
EraseLoop(t, seqno) ==
    LET after[n \in 0 .. Len(t)] ==
            IF n = 0 THEN [table |-> t, again |-> TRUE]
            ELSE LET s == after[n - 1]
                 IN IF s.again
                    THEN [table |-> ErasePass(s.table, seqno),
                          again |-> Len(s.table) \in Erased(s.table, seqno)]
                    ELSE s
    IN after[Len(t)].table

Capped(t) == SubSeq(t, 1, Smaller(Len(t), MaxEntries))

CreateEntryNoErase(t, uuid, seqno) == Capped(<< Entry(uuid, seqno) >> \o t)

CreateEntryUncapped(t, uuid, seqno) == << Entry(uuid, seqno) >> \o EraseLoop(t, seqno)

CreateEntry(t, uuid, seqno) ==
    Capped(<< Entry(uuid, seqno) >> \o EraseLoop(t, seqno))

(* The table of a new vbucket.                                             *)
NewTable(uuid) == << Entry(uuid, 0) >>

(* pruneEntries throws when nothing would be left, or for seqno 0.         *)
PruneThrows(t, seqno) == seqno = 0 \/ Above(t, seqno) = DOMAIN t

PruneEntries(t, seqno) ==
    LET Below(e) == e.seqno <= seqno
    IN SelectSeq(t, Below)

-----------------------------------------------------------------------------
(* needsRollback.  req is a stream request: start, snapStart, snapEnd and  *)
(* uuid.                                                                   *)

AdjustSnapshotRange(req) ==
    IF req.start = req.snapEnd THEN [req EXCEPT !.snapStart = req.start]
    ELSE IF req.start = req.snapStart THEN [req EXCEPT !.snapEnd = req.start]
    ELSE req

(* The search starts at the oldest entry.                                  *)
Matching(t, uuid) == {i \in DOMAIN t : t[i].uuid = uuid}

Oldest(S) == CHOOSE i \in S : \A j \in S : j <= i

UpperAlwaysHigh(t, uuid, high) == high

(* Where the branch of uuid ends in this table: at the next newer entry,   *)
(* or at the high seqno.                                                   *)
Upper(t, uuid, high) ==
    LET i == Oldest(Matching(t, uuid))
    IN IF i > 1 THEN t[i - 1].seqno ELSE high

NeedsRollback(t, req, high, purge) ==
    LET r == AdjustSnapshotRange(req)
    IN /\ req.start # 0
       /\ \/ r.snapStart < purge
          \/ Matching(t, req.uuid) # {} => r.snapEnd > Upper(t, req.uuid, high)

RollbackSeqno(t, req, high, purge) ==
    LET r == AdjustSnapshotRange(req)
    IN IF r.snapStart < purge \/ Matching(t, req.uuid) = {} THEN 0
       ELSE Smaller(Upper(t, req.uuid, high), r.snapStart)

(* getLastSeqnoForUUID: where a branch that is not the latest one ended.   *)
LastSeqnoForUUID(t, uuid) ==
    LET S == Matching(t, uuid)
        i == CHOOSE i \in S : \A j \in S : i <= j
    IN IF S = {} \/ i = 1 THEN -1 ELSE t[i - 1].seqno
=============================================================================
