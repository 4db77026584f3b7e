-------------------------- MODULE ReplicatedVBucket --------------------------
(***************************************************************************)
(* A vbucket on several nodes: one is active at a time, the others are     *)
(* replicas that DCP streams feed.  Nodes are promoted, demoted and        *)
(* restarted; failover tables decide what a replica must roll back before  *)
(* it follows another node.                                                *)
(*                                                                         *)
(* Documents are reduced to the version of each key: the seqno and the     *)
(* uuid of the branch it was written on; the keys are a few of the many    *)
(* that a vbucket has.  A file is the stack of headers that a rollback can *)
(* rewind to, one for each batch with documents.  The state document is    *)
(* taken to be written when state or table change (VBucketPersistence      *)
(* models the tasks that do it), and a batch is committed in one step.     *)
(***************************************************************************)
EXTENDS FailoverTable, SnapshotRanges, FiniteSets

CONSTANTS
    Nodes,
    Keys,
    Nobody,     \* no node
    Scenarios   \* the bounds to explore: nodes, keys, seqnos, uuids and faults

ASSUME ReplicatedBounds ==
    /\ Scenarios \subseteq [nodes : Nat, keys : Nat, seqnos : Nat, branches : Nat, faults : Nat]
    /\ Nobody \notin Nodes

VARIABLES
    vb,       \* what each node has in memory
    file,     \* the headers of each node's file, newest last
    stream,   \* each node's passive stream
    branches, \* the last uuid that was generated
    faults,   \* crashes and lost connections so far
    limits    \* the scenario, its nodes and keys; never changes

rvars == << vb, file, stream, branches, faults, limits >>

NoDoc == [seqno |-> 0, uuid |-> 0]

NoStream == [from |-> Nobody, rollback |-> FALSE, target |-> 0,
             snapStart |-> 0, first |-> TRUE, pos |-> 0, items |-> << >>]

SnapRange(start, end) == [start |-> start, end |-> end]

Top(n) == file[n][Len(file[n])]

ActiveNodes == {n \in Nodes : vb[n].state = "active"}

BranchPointEnd(range, persisted) == range.end

BranchPointPersisted(range, persisted) == persisted

(* The seqno of a new branch: the end of the persisted snapshot if all of  *)
(* it is persisted, else its start.                                        *)
BranchPoint(range, persisted) ==
    IF range.end = persisted THEN range.end ELSE range.start

-----------------------------------------------------------------------------
(* A vbucket that setVBucketState creates (uuid 0: one that no other node  *)
(* has in its table); a header of its file.                                *)

NewVBucket(state, uuid) ==
    [state |-> state, docs |-> [k \in Keys |-> NoDoc], high |-> 0,
     table |-> NewTable(uuid), chk |-> NewCheckpoints(0, SnapRange(0, 0)),
     fresh |-> state # "active", range |-> SnapRange(0, 0), persisted |-> 0]

Header(v) ==
    [docs |-> v.docs, high |-> v.high, range |-> v.range]

Init ==
    \E s \in Scenarios, N \in SUBSET Nodes, K \in SUBSET Keys, a \in Nodes :
        /\ Cardinality(N) = s.nodes /\ Cardinality(K) = s.keys /\ a \in N
        /\ limits = [max |-> s, nodes |-> N, keys |-> K]
        /\ vb = [n \in Nodes |-> IF n = a THEN NewVBucket("active", 1)
                                          ELSE NewVBucket("replica", 0)]
        /\ file = [n \in Nodes |-> << Header(vb[n]) >>]
        /\ stream = [n \in Nodes |-> NoStream]
        /\ branches = 1 /\ faults = 0

-----------------------------------------------------------------------------
(* The active node.                                                        *)

(* A write that queueDirty gives the next seqno.                           *)
Write(n, k) ==
    LET v == vb[n]
        s == v.high + 1
    IN /\ v.state = "active" /\ v.high < limits.max.seqnos
       /\ vb' = [vb EXCEPT ![n].docs[k] = [seqno |-> s, uuid |-> LatestUUID(v.table)],
                           ![n].high = s,
                           ![n].chk = [v.chk EXCEPT !.items = TRUE, !.end = s]]
       /\ UNCHANGED << file, stream, branches, faults, limits >>

-----------------------------------------------------------------------------
(* Persistence, on any node.                                               *)

(* A batch of the flusher.  One without documents is not written, but its  *)
(* range becomes the persisted snapshot.                                   *)
FlushRange(n) ==
    IF vb[n].state = "active" /\ Top(n).high < vb[n].high
    THEN SnapRange(vb[n].high, vb[n].high)
    ELSE SnapRange(CursorStart(vb[n].chk), vb[n].chk.end)

Flush(n) ==
    LET v == [vb[n] EXCEPT !.range = FlushRange(n),
                           !.persisted = IF vb[n].high > 0 THEN vb[n].high ELSE @,
                           !.chk = ReadAll(vb[n].chk, vb[n].high)]
    IN /\ Unread(vb[n].chk, vb[n].high)
       /\ vb' = [vb EXCEPT ![n] = v]
       /\ file' = IF Top(n).high < v.high
                  THEN [file EXCEPT ![n] = Append(@, Header(v))]
                  ELSE file
       /\ UNCHANGED << stream, branches, faults, limits >>

-----------------------------------------------------------------------------
(* setVBucketState, called by the cluster manager: never two active nodes. *)

(* The streams that n feeds are closed; rollback tasks stay.               *)
Demote(n) ==
    /\ vb[n].state = "active"
    /\ vb' = [vb EXCEPT ![n].state = "replica"]
    /\ stream' = [m \in Nodes |-> IF stream[m].from = n /\ ~ stream[m].rollback
                                  THEN NoStream ELSE stream[m]]
    /\ UNCHANGED << file, branches, faults, limits >>

(* Without transfer: the passive stream is closed and a branch begins.  A  *)
(* rollback task of the stream is not cancelled.                           *)
Promote(n) ==
    LET v == vb[n]
    IN /\ v.state = "replica" /\ ActiveNodes = {} /\ branches < limits.max.branches
       /\ branches' = branches + 1
       /\ vb' = [vb EXCEPT ![n].state = "active", ![n].fresh = FALSE,
                           ![n].chk = ResetSnapshotRange(v.chk, v.high),
                           ![n].table = CreateEntry(v.table, branches + 1,
                                                    BranchPoint(v.range, v.persisted))]
       /\ stream' = [stream EXCEPT ![n] = IF @.rollback THEN @ ELSE NoStream]
       /\ UNCHANGED << file, faults, limits >>

-----------------------------------------------------------------------------
(* The passive stream of a replica.                                        *)

(* addStream and reconnectStream.                                          *)
Request(v) ==
    LET info == SnapshotInfo(v.chk, v.high)
    IN [start |-> v.high, uuid |-> LatestUUID(v.table), snapEnd |-> info.end,
        snapStart |-> IF info.end = v.high THEN v.high ELSE info.start]

(* The producer's streamRequest and the consumer's handleResponse: the     *)
(* failover log of the producer replaces the consumer's, or a rollback     *)
(* task is scheduled.                                                      *)
AddStream(n, p) ==
    LET req == Request(vb[n])
    IN /\ vb[n].state = "replica" /\ vb[p].state = "active" /\ stream[n] = NoStream
       /\ ~ vb[p].fresh
       /\ req.snapStart <= req.start /\ req.start <= req.snapEnd
       /\ \/ /\ NeedsRollback(vb[p].table, req, vb[p].high, 0)
             /\ stream' = [stream EXCEPT ![n] =
                   [NoStream EXCEPT !.from = p, !.rollback = TRUE,
                       !.target = RollbackSeqno(vb[p].table, req, vb[p].high, 0)]]
             /\ UNCHANGED vb
          \/ /\ ~ NeedsRollback(vb[p].table, req, vb[p].high, 0)
             /\ stream' = [stream EXCEPT ![n] =
                   [NoStream EXCEPT !.from = p, !.snapStart = req.snapStart,
                       !.pos = req.start]]
             /\ vb' = [vb EXCEPT ![n].table = vb[p].table]
       /\ UNCHANGED << file, branches, faults, limits >>

(* The documents of p above a seqno, in order.                             *)
ItemsAbove(p, pos) ==
    LET K == {k \in Keys : vb[p].docs[k].seqno > pos}
        Order(i) == CHOOSE k \in K :
            Cardinality({j \in K : vb[p].docs[j].seqno < vb[p].docs[k].seqno}) = i - 1
    IN [i \in 1 .. Cardinality(K) |->
          [key |-> Order(i), doc |-> vb[p].docs[Order(i)]]]

(* A snapshot of everything the consumer does not have, one version of     *)
(* each key, and its marker.  chkFlag: it begins a checkpoint of p.        *)
SnapshotMarker(n, chkFlag) ==
    LET s == stream[n]
        items == ItemsAbove(s.from, s.pos)
        begin == items[1].doc.seqno
        start == IF s.first THEN Smaller(s.snapStart, begin) ELSE begin
        end == items[Len(items)].doc.seqno
        c == vb[n].chk
    IN /\ s.from # Nobody /\ ~ s.rollback /\ s.items = << >>
       /\ vb[s.from].high > s.pos
       /\ vb' = [vb EXCEPT ![n].fresh = FALSE,
                           ![n].chk = IF chkFlag \/ vb[n].fresh
                                      THEN CreateSnapshot(c, vb[n].high, start, end)
                                      ELSE [c EXCEPT !.end = end]]
       /\ stream' = [stream EXCEPT ![n].items = items, ![n].first = FALSE, ![n].pos = end]
       /\ UNCHANGED << file, branches, faults, limits >>

(* queueDirty throws if the seqno is not in the range of the checkpoint.   *)
StreamMutation(n) ==
    LET i == stream[n].items[1]
    IN /\ stream[n].items # << >>
       /\ i.doc.seqno \in vb[n].chk.start .. vb[n].chk.end
       /\ vb' = [vb EXCEPT ![n].docs[i.key] = i.doc, ![n].high = i.doc.seqno,
                           ![n].chk.items = TRUE]
       /\ stream' = [stream EXCEPT ![n].items = Tail(@)]
       /\ UNCHANGED << file, branches, faults, limits >>

(* The connection is lost.                                                 *)
Disconnect(n) ==
    /\ stream[n].from # Nobody
    /\ faults < limits.max.faults /\ faults' = faults + 1
    /\ stream' = [stream EXCEPT ![n] = NoStream]
    /\ UNCHANGED << vb, file, branches, limits >>

-----------------------------------------------------------------------------
(* RollbackTask: the file is rewound to the last header that is not above  *)
(* the seqno of the producer.  If there is none, if half of the documents  *)
(* would change (the keys here are a few of many: a choice), or if a file  *)
(* operation fails, the vbucket is created anew.  Neither looks at the     *)
(* vbucket's state.                                                        *)

Headers(n, seqno) == {i \in DOMAIN file[n] : file[n][i].high <= seqno}

RewindTo(n, seqno) == CHOOSE i \in Headers(n, seqno) : \A j \in Headers(n, seqno) : j <= i

(* In memory only those keys change that the file has above the header.    *)
RestoredDocs(n, h) ==
    [k \in Keys |-> IF Top(n).docs[k].seqno > h.high THEN h.docs[k] ELSE vb[n].docs[k]]

RolledBack(n, h) ==
    [vb[n] EXCEPT !.docs = RestoredDocs(n, h), !.high = h.high,
                  !.table = PruneEntries(@, h.high),
                  !.chk = NewCheckpoints(h.high, SnapRange(h.high, h.high)),
                  !.fresh = vb[n].state # "active", !.range = h.range]

RollbackSucceeds(n) ==
    LET t == stream[n].target
        i == RewindTo(n, t)
    IN /\ stream[n].rollback /\ t > 0
       /\ Headers(n, t) # {} /\ file[n][i].high > 0
       /\ ~ PruneThrows(vb[n].table, file[n][i].high)
       /\ vb' = [vb EXCEPT ![n] = RolledBack(n, file[n][i])]
       /\ file' = [file EXCEPT ![n] = SubSeq(@, 1, i)]
       /\ stream' = [stream EXCEPT ![n] = NoStream]
       /\ UNCHANGED << branches, faults, limits >>

(* resetVBucket: the new vbucket has the state of the old one.  On a      *)
(* vbucket that was promoted since the rollback was asked for, the new one *)
(* is active and begins a history of its own.                              *)
ResetTo(n, v) ==
    /\ stream[n].rollback
    /\ vb' = [vb EXCEPT ![n] = v]
    /\ file' = [file EXCEPT ![n] = << Header(v) >>]
    /\ stream' = [stream EXCEPT ![n] = NoStream]
    /\ UNCHANGED << faults, limits >>

ResetVBucket(n) ==
    /\ vb[n].state = "replica"
    /\ ResetTo(n, NewVBucket("replica", 0))
    /\ UNCHANGED branches

ResetActive(n) ==
    /\ vb[n].state = "active" /\ branches < limits.max.branches
    /\ ResetTo(n, NewVBucket("active", branches + 1))
    /\ branches' = branches + 1

-----------------------------------------------------------------------------
(* The process dies; Warmup::createVBuckets builds the vbucket from the    *)
(* last header, and an active one begins a branch.  The cluster manager    *)
(* makes it a replica if there is an active node by then.                  *)
Restart(n) ==
    LET h == Top(n)
        wasActive == vb[n].state = "active"
        table == IF wasActive
                 THEN CreateEntry(vb[n].table, branches + 1, BranchPoint(h.range, h.high))
                 ELSE vb[n].table
    IN /\ faults < limits.max.faults /\ faults' = faults + 1
       /\ wasActive => branches < limits.max.branches
       /\ branches' = IF wasActive THEN branches + 1 ELSE branches
       /\ vb' = [vb EXCEPT ![n] =
                   [state |-> vb[n].state,
                    docs |-> h.docs, high |-> h.high, table |-> table,
                    chk |-> NewCheckpoints(h.high, h.range), fresh |-> FALSE,
                    range |-> h.range, persisted |-> h.high]]
       /\ stream' = [m \in Nodes |-> IF m = n \/ stream[m].from = n THEN NoStream
                                     ELSE stream[m]]
       /\ UNCHANGED << file, limits >>

-----------------------------------------------------------------------------
(* The specification: every interleaving.                                  *)

ClientNext == \E n \in limits.nodes, k \in limits.keys : Write(n, k)

StreamNext == \E n \in limits.nodes :
    \/ \E p \in limits.nodes : AddStream(n, p)
    \/ \E chkFlag \in BOOLEAN : SnapshotMarker(n, chkFlag)
    \/ StreamMutation(n)
    \/ Disconnect(n)

Next ==
    \/ ClientNext
    \/ StreamNext
    \/ \E n \in limits.nodes : Flush(n) \/ Demote(n) \/ Promote(n)
    \/ \E n \in limits.nodes : RollbackSucceeds(n) \/ ResetVBucket(n) \/ ResetActive(n)
    \/ \E n \in limits.nodes : Restart(n)

Spec == Init /\ [][Next]_rvars

(* The interleavings in which createEntry erases all the branches it left, *)
(* no batch without documents is drained between a marker and the first    *)
(* item of its snapshot, and a rollback finds everything flushed, rewinds  *)
(* to the end of a snapshot and is not overtaken by a promotion.           *)
ErasesAll(t, seqno) == EraseLoop(t, seqno) = PruneEntries(t, seqno)

Settled(n) == Top(n).high = vb[n].high

SettledNext ==
    \/ ClientNext
    \/ StreamNext
    \/ \E n \in limits.nodes :
         \/ Flush(n) /\ (vb[n].chk.items \/ vb[n].chk.start <= vb[n].high)
         \/ Demote(n)
         \/ /\ Promote(n)
            /\ ErasesAll(vb[n].table, BranchPoint(vb[n].range, vb[n].persisted))
            /\ ~ stream[n].rollback
         \/ /\ RollbackSucceeds(n) /\ Settled(n)
            /\ vb'[n].range.end = vb'[n].high
         \/ ResetVBucket(n)
         \/ /\ Restart(n)
            /\ vb[n].state = "active" =>
                 ErasesAll(vb[n].table, BranchPoint(Top(n).range, Top(n).high))

SettledSpec == Init /\ [][SettledNext]_rvars

-----------------------------------------------------------------------------
(* Properties.                                                             *)

(* The type of a vbucket; its table is never empty and never too long.     *)
TypeOK ==
    /\ vb \in [Nodes -> [state : {"active", "replica"}, docs : [Keys -> [seqno : Nat, uuid : Nat]],
                         high : Nat, table : Seq(Entries), chk : OpenCheckpoints,
                         fresh : BOOLEAN, range : [start : Nat, end : Nat], persisted : Nat]]
    /\ \A n \in Nodes : Len(vb[n].table) \in 1 .. MaxEntries
    /\ Cardinality(ActiveNodes) <= 1

(* A replica whose stream request was accepted without rollback and that   *)
(* has received everything has the documents of the node that feeds it:    *)
(* needsRollback says that their histories are the same.                   *)
InSync ==
    \A n \in Nodes :
        LET s == stream[n]
        IN (s.from # Nobody /\ ~ s.rollback /\ s.items = << >> /\ s.pos = vb[s.from].high)
           => vb[n].docs = vb[s.from].docs

(* A client that asks the active node (observe_seqno) about a write of     *)
(* another branch learns the seqno where that branch ended.  A write at or *)
(* below it that some node still has is not lost: the active node has it   *)
(* or a newer version.                                                     *)
ObserveTellsLoss ==
    \A a \in ActiveNodes, n \in Nodes, k \in Keys :
        LET d == vb[n].docs[k]
        IN LastSeqnoForUUID(vb[a].table, d.uuid) >= d.seqno
           => vb[a].docs[k].seqno >= d.seqno

(* No branch of an active node's table begins above its high seqno: what   *)
(* createEntry gets from the persisted snapshot has been written.          *)
BranchesBegun ==
    \A a \in ActiveNodes : Above(vb[a].table, vb[a].high) = {}

=============================================================================
