------------------------- MODULE FailoverTableProofs -------------------------
(* What needsRollback answers, for every table and every stream request.   *)
EXTENDS FailoverTable, WellFoundedInduction, TLAPS

(* A stream request as streamRequest lets it through: with its start       *)
(* within its snapshot.                                                    *)
Requests == {r \in [start : Nat, snapStart : Nat, snapEnd : Nat, uuid : Nat] :
                 r.snapStart <= r.start /\ r.start <= r.snapEnd}

(* The request of a consumer that stands at a seqno between snapshots.     *)
RequestAt(seqno, uuid) ==
    [start |-> seqno, snapStart |-> seqno, snapEnd |-> seqno, uuid |-> uuid]

(* A nonempty set of positions in a table has a last one.                  *)
LEMMA LastPosition ==
    ASSUME NEW n \in Nat, NEW S, S \subseteq 1 .. n, S # {}
    PROVE  \E i \in S : \A j \in S : j <= i
  <1> DEFINE T == {n - i : i \in S}
             R == OpToRel(<, Nat)
  <1>1. T \subseteq Nat /\ T # {}
    <2>1. \A i \in S : n - i \in Nat
      OBVIOUS
    <2>2. PICK i \in S : TRUE
      OBVIOUS
    <2>3. n - i \in T
      BY <2>2
    <2> QED
      BY <2>1, <2>3
  <1>2. \A x, y \in Nat : x < y => << x, y >> \in R
    BY DEF OpToRel
  <1>3. IsWellFoundedOn(R, Nat)
    BY NatLessThanWellFounded
  <1> HIDE DEF R, T
  <1>4. PICK x \in T : \A y \in T : ~ (<< y, x >> \in R)
    BY <1>1, <1>3, WFMin
  <1>5. PICK i \in S : x = n - i
    BY DEF T
  <1>6. ASSUME NEW j \in S
        PROVE  j <= i
    <2>1. n - j \in T /\ ~ (n - j < x)
      BY <1>1, <1>2, <1>4 DEF T
    <2> QED
      BY <1>5, <2>1
  <1> QED
    BY <1>6

(* The entry that the search for a uuid finds.                             *)
LEMMA OldestMatches ==
    ASSUME NEW t \in Seq(Entries), NEW uuid, Matching(t, uuid) # {}
    PROVE  Oldest(Matching(t, uuid)) \in 1 .. Len(t)
  <1> DEFINE M == Matching(t, uuid)
  <1>1. M \subseteq 1 .. Len(t) /\ Len(t) \in Nat
    BY DEF Matching
  <1> HIDE DEF M
  <1>2. \E i \in M : \A j \in M : j <= i
    BY <1>1, LastPosition DEF M
  <1>3. Oldest(M) \in M
    BY <1>2 DEF Oldest
  <1> QED
    BY <1>1, <1>3 DEF M

(* The end of a branch is a seqno.                                         *)
LEMMA UpperIsSeqno ==
    ASSUME NEW t \in Seq(Entries), NEW uuid, NEW high \in Nat, Matching(t, uuid) # {}
    PROVE  Upper(t, uuid, high) \in Nat
  <1> DEFINE i == Oldest(Matching(t, uuid))
  <1>1. i \in 1 .. Len(t) /\ Len(t) \in Nat
    BY OldestMatches
  <1> HIDE DEF i
  <1>2. i > 1 => t[i - 1] \in Entries
    BY <1>1
  <1>3. i > 1 => t[i - 1].seqno \in Nat
    BY <1>2 DEF Entries
  <1>4. Upper(t, uuid, high) = IF i > 1 THEN t[i - 1].seqno ELSE high
    BY DEF Upper, i
  <1> QED
    BY <1>3, <1>4

(* adjustSnapshotRange keeps the start within the snapshot.                *)
LEMMA AdjustKeepsStart ==
    ASSUME NEW req \in Requests
    PROVE  /\ AdjustSnapshotRange(req) \in Requests
           /\ AdjustSnapshotRange(req).start = req.start
           /\ AdjustSnapshotRange(req).snapStart = req.start
                 \/ AdjustSnapshotRange(req).snapEnd = req.start
                 \/ AdjustSnapshotRange(req).snapStart < req.start
           /\ AdjustSnapshotRange(req).snapStart = req.start
                 => AdjustSnapshotRange(req).snapEnd = req.start
  BY DEF Requests, AdjustSnapshotRange

(* Every rollback that needsRollback asks for takes the consumer strictly  *)
(* below the seqno it stands at, so the exchange of stream requests and    *)
(* rollbacks of a consumer ends.                                           *)
THEOREM RollbackMakesProgress ==
    ASSUME NEW t \in Seq(Entries), NEW req \in Requests,
           NEW high \in Nat, NEW purge \in Nat,
           NeedsRollback(t, req, high, purge)
    PROVE  RollbackSeqno(t, req, high, purge) \in 0 .. req.start - 1
  <1> DEFINE r == AdjustSnapshotRange(req)
             u == Upper(t, req.uuid, high)
  <1>1. /\ r.start = req.start /\ req.start \in Nat /\ r.snapStart \in Nat
        /\ r.snapEnd \in Nat /\ r.snapStart <= req.start
        /\ r.snapStart = req.start => r.snapEnd = req.start
    BY AdjustKeepsStart DEF Requests
  <1>2. req.start # 0
    BY DEF NeedsRollback
  <1>3. CASE r.snapStart < purge \/ Matching(t, req.uuid) = {}
    BY <1>1, <1>2, <1>3 DEF RollbackSeqno
  <1>4. CASE ~ (r.snapStart < purge \/ Matching(t, req.uuid) = {})
    <2>1. u \in Nat
      BY <1>4, UpperIsSeqno
    <2>2. r.snapEnd > u
      BY <1>4 DEF NeedsRollback
    <2>3. RollbackSeqno(t, req, high, purge) = Smaller(u, r.snapStart)
      BY <1>4 DEF RollbackSeqno
    <2> HIDE DEF r, u
    <2> QED
      BY <1>1, <2>1, <2>2, <2>3 DEF Smaller
  <1> QED
    BY <1>3, <1>4

(* A consumer that rolls back as far as it was told, or further, and asks  *)
(* again between two snapshots is accepted: unless tombstones above that   *)
(* point were purged, one rollback is enough.                              *)
THEOREM RolledBackIsAccepted ==
    ASSUME NEW t \in Seq(Entries), NEW req \in Requests,
           NEW high \in Nat, NEW purge \in Nat, NEW s \in Nat,
           Matching(t, req.uuid) # {}, s = 0 \/ purge <= s,
           s <= RollbackSeqno(t, req, high, purge)
    PROVE  ~ NeedsRollback(t, RequestAt(s, req.uuid), high, purge)
  <1> DEFINE r == AdjustSnapshotRange(req)
             u == Upper(t, req.uuid, high)
             q == RequestAt(s, req.uuid)
  <1>1. u \in Nat
    BY UpperIsSeqno
  <1>2. r.snapStart \in Nat
    BY AdjustKeepsStart DEF Requests
  <1>3. AdjustSnapshotRange(q) = q /\ q.start = s /\ q.snapStart = s /\ q.snapEnd = s
        /\ q.uuid = req.uuid
    BY DEF AdjustSnapshotRange, RequestAt
  <1>4. s = 0 \/ s <= u
    <2>1. RollbackSeqno(t, req, high, purge) \in {0, Smaller(u, r.snapStart)}
      BY DEF RollbackSeqno
    <2> HIDE DEF u, r
    <2> QED
      BY <1>1, <1>2, <2>1 DEF Smaller
  <1> HIDE DEF q, r
  <1>5. NeedsRollback(t, q, high, purge) => s # 0 /\ (s < purge \/ s > u)
    BY <1>3 DEF NeedsRollback
  <1> HIDE DEF u
  <1> QED
    BY <1>1, <1>4, <1>5 DEF q

=============================================================================
