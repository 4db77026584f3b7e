------------------------------ MODULE Documents ------------------------------
(***************************************************************************)
(* The documents of one active vbucket, and everything that touches them   *)
(* (ep.cc, bgfetcher.cc, item_pager.cc, and the handlers of ep_engine.cc   *)
(* that call them):                                                        *)
(*                                                                         *)
(*   clients            the operations of the EventuallyPersistentStore;   *)
(*                      one that needs the disk blocks, and runs again     *)
(*                      from the start when it is notified                 *)
(*   the flusher        drains the newest queued version of each key,      *)
(*                      commits, and runs a PersistenceCallback per key    *)
(*   the BgFetcher      takes the pending fetches, reads the disk, and     *)
(*                      completes the fetches one by one                   *)
(*   the pagers         evict clean items, collect expired ones and delete *)
(*                      what they collected                                *)
(*   the compactor      expires documents on disk, drops tombstones and    *)
(*                      rebuilds the bloom filter                          *)
(*                                                                         *)
(* What an operation does under a key's bucket lock is one step.  The      *)
(* vbucket's checkpoints appear as the newest version of a key that the    *)
(* flusher has not taken (VBucketPersistence has the queue itself).  A     *)
(* bloom filter is the set of the keys added to it; a key that was not     *)
(* added may be answered either way where falsePositives says so.          *)
(***************************************************************************)
EXTENDS HashTable, FiniteSets, Sequences, SequencesExt, FiniteSetsExt

CONSTANTS
    Keys,
    Clients,
    Scenarios   \* the eviction policy, the operations and the bounds of a run

VARIABLES
    ht,       \* the hash table: a StoredValue for each key, or NoValue
    ct,       \* its counters
    maxCas,   \* VBucket::max_cas
    queue,    \* the newest version of each key that waits for the flusher
    reject,   \* the rejectQueue: versions whose write failed
    flush,    \* flushVBucket: its progress, and the versions it writes
    disk,     \* the newest committed version of each key, tombstones included
    filter,   \* the bloom filter main, and temp that a compaction builds
    bg,       \* pendingBGFetches: the fetches asked for, by key
    fetcher,  \* BgFetcher: its progress, and the fetches it has taken
    pager,    \* the keys a PagingVisitor has collected
    compact,  \* compactInternal: its progress, and the keys it has still to visit
    client,   \* what each client does
    now,      \* the clock
    fails,    \* how many commits and reads have failed
    thrown    \* an exception or an abort

(* What the properties are stated with; the program has no such state.     *)
VARIABLES
    reply,    \* the reply given in the last step, if any
    limits    \* the scenario; never changes

vars == <<ht, ct, maxCas, queue, reject, flush, disk, filter, bg, fetcher, pager,
          compact, client, now, fails, thrown, reply, limits>>

Nothing == [k \in Keys |-> NoValue]
Idle == [pc |-> "idle", items |-> Nothing]
NoOp == [op |-> "none"]

(* nextHLCCas is a clock: what remote clusters wrote may be older.         *)
FirstCas == 10

-----------------------------------------------------------------------------
(* A step on one key: what the step may read and change.                   *)

World(k, mem, maybe) ==
    [v |-> ht[k], ct |-> ct, cas |-> maxCas, q |-> queue[k], bg |-> bg[k],
     filter |-> filter, thrown |-> thrown,
     now |-> now, full |-> limits.full, mem |-> mem, maybe |-> maybe]

Update(k, w) ==
    /\ ht' = [ht EXCEPT ![k] = w.v]
    /\ ct' = w.ct
    /\ maxCas' = w.cas
    /\ queue' = [queue EXCEPT ![k] = w.q]
    /\ bg' = [bg EXCEPT ![k] = w.bg]
    /\ filter' = w.filter
    /\ thrown' = w.thrown

(* maybeKeyExistsInFilter: what the filter may answer.                     *)
MaybeKeyExists(k) ==
    IF filter.main = NoValue \/ k \in filter.main THEN {TRUE}
    ELSE {FALSE} \cup limits.falsePositives

AddToFilter(w, k) ==
    [w EXCEPT !.filter.main = IF @ = NoValue THEN @ ELSE @ \cup {k},
              !.filter.temp = IF @ = NoValue THEN @ ELSE @ \cup {k}]

(* queueDirty: the version goes to the open checkpoint.                    *)
QueueDirty(w, setConflictMode) ==
    LET v == [w.v EXCEPT !.state = "live",
                         !.mode = IF setConflictMode /\ limits.timeSync THEN "lww" ELSE @]
    IN [w EXCEPT !.v = v, !.q = ToItem(v)]

(* setCas(nextHLCCas) and queueDirty.                                      *)
QueueNew(w) ==
    QueueDirty([w EXCEPT !.v.cas = w.cas + 1, !.cas = @ + 1], TRUE)

(* Mutant: only the first fetch of a key is remembered.                    *)
BgFetchOnce(w, c, meta) ==
    IF w.bg # << >> THEN w ELSE [w EXCEPT !.bg = Append(@, [client |-> c, meta |-> meta])]

(* bgFetch.                                                                *)
BgFetch(w, c, meta) == [w EXCEPT !.bg = Append(@, [client |-> c, meta |-> meta])]

(* fetchValidValue: an expired item is deleted before anyone sees it.      *)
ExpireItem(w) == QueueNew(UnlockedSoftDelete(w, 0, NoValue).w)
NeedsExpiry(w) == /\ w.v # NoValue
                  /\ ~ w.v.del
                  /\ ~ IsTemp(w.v)
                  /\ IsExpired(w.v, w.now)
FetchValidValue(w) == IF NeedsExpiry(w) THEN ExpireItem(w) ELSE w

-----------------------------------------------------------------------------
(* The operations.  Each returns the new world and what it answers; a read *)
(* returns the version it saw.                                             *)

NoVersion == [cas |-> 0, value |-> 0]
Answer(w, ret) == [w |-> w, ret |-> ret, read |-> NoVersion]
Found(w, cas) == [w |-> w, ret |-> "SUCCESS", read |-> [cas |-> cas, value |-> w.v.value]]

(* bgFetch, with addTempItemForBgFetch when there is no item to wait on.   *)
WaitForFetch(w, c, meta) ==
    IF w.v # NoValue THEN Answer(BgFetch(w, c, meta), "EWOULDBLOCK")
    ELSE LET r == UnlockedAddTempItem(w) IN
         IF r.rv = "ADD_NOMEM" THEN Answer(w, "ENOMEM")
         ELSE Answer(BgFetch(r.w, c, meta), "EWOULDBLOCK")

(* A key that is not in the table: under VALUE_ONLY there is no document;  *)
(* under FULL_EVICTION the disk may have one.                              *)
NotInTable(w, c, meta) ==
    IF w.full /\ w.maybe THEN WaitForFetch(w, c, meta) ELSE Answer(w, "KEY_ENOENT")

ClientItem(w, o) == [value |-> w.cas + 1, cas |-> 0, rev |-> 0, exp |-> o.exp,
                     del |-> FALSE, mode |-> "rev"]

Set(w, c, o) ==
    LET r == UnlockedSet(w, ClientItem(w, o), o.cas, TRUE, FALSE, w.maybe)
    IN CASE r.rv = "NOMEM" -> Answer(w, "ENOMEM")
         [] r.rv \in {"INVALID_CAS", "IS_LOCKED"} -> Answer(r.w, "KEY_EEXISTS")
         [] r.rv = "NOT_FOUND" -> Answer(r.w, "KEY_ENOENT")
         [] r.rv = "NEED_BG_FETCH" -> WaitForFetch(w, c, TRUE)
         [] OTHER -> Answer(QueueNew(r.w), "SUCCESS")

Add(w, c, o) ==
    LET r == UnlockedAdd(w, ClientItem(w, o), w.maybe)
    IN CASE r.rv = "ADD_NOMEM" -> Answer(w, "ENOMEM")
         [] r.rv = "ADD_EXISTS" -> Answer(w, "NOT_STORED")
         [] r.rv \in {"ADD_TMP_AND_BG_FETCH", "ADD_BG_FETCH"} -> WaitForFetch(w, c, TRUE)
         [] OTHER -> Answer(QueueNew(r.w), "SUCCESS")

(* Mutant: replace does not look at the lock.                              *)
ReplaceIgnoresLock(w, c, o) ==
    LET v == w.v
        r == UnlockedSet([w EXCEPT !.v = Unlock(v)], ClientItem(w, o), 0, TRUE, FALSE, TRUE)
    IN IF v = NoValue THEN NotInTable(w, c, FALSE)
       ELSE IF v.del \/ IsTempGone(v) THEN Answer(w, "KEY_ENOENT")
       ELSE IF w.full /\ IsTempInitial(v) THEN WaitForFetch(w, c, TRUE)
       ELSE Answer(QueueNew(r.w), "SUCCESS")

(* replace looks at the deleted flag and at temporary items only: it stores*)
(* over a document that has expired and is still in memory.                *)
Replace(w, c, o) ==
    LET v == w.v
        r == UnlockedSet(w, ClientItem(w, o), 0, TRUE, FALSE, TRUE)
    IN IF v = NoValue THEN NotInTable(w, c, FALSE)
       ELSE IF v.del \/ IsTempGone(v) THEN Answer(w, "KEY_ENOENT")
       ELSE IF w.full /\ IsTempInitial(v) THEN WaitForFetch(w, c, TRUE)
       ELSE CASE r.rv = "NOMEM" -> Answer(w, "ENOMEM")
              [] r.rv = "IS_LOCKED" -> Answer(w, "KEY_EEXISTS")
              [] OTHER -> Answer(QueueNew(r.w), "SUCCESS")

(* HIDE_LOCKED_CAS: the version of a locked document is not shown.         *)
ShownCas(v, time) == IF IsLocked(v, time) THEN 0 ELSE v.cas

(* getInternal.  A temporary item whose fetch found nothing is removed.    *)
Get(w0, c, o) ==
    LET w == FetchValidValue(w0)
        v == w.v
    IN IF v = NoValue THEN NotInTable(w, c, FALSE)
       ELSE IF v.del THEN Answer(w, "KEY_ENOENT")
       ELSE IF IsTempGone(v) THEN Answer(UnlockedDel(w), "KEY_ENOENT")
       ELSE IF ~ IsResident(v) THEN WaitForFetch(w, c, FALSE)
       ELSE Found(w, ShownCas(v, w.now))

(* getAndUpdateTtl.                                                        *)
Touch(w0, c, o) ==
    LET w == FetchValidValue(w0)
        v == w.v
        dirty == [w EXCEPT !.v.dirty = TRUE, !.v.exp = o.exp, !.v.rev = @ + 1]
    IN IF v = NoValue THEN NotInTable(w, c, FALSE)
       ELSE IF v.del \/ IsTempGone(v) THEN Answer(w, "KEY_ENOENT")
       ELSE IF ~ IsResident(v) THEN WaitForFetch(w, c, FALSE)
       ELSE IF IsLocked(v, w.now) THEN Answer(w, "KEY_EEXISTS")
       ELSE IF v.exp = o.exp THEN Found(w, v.cas)
       ELSE LET u == QueueNew(dirty) IN Found(u, u.v.cas)

(* getLocked: the lock changes the cas and is not queued.                  *)
GetLocked(w0, c, o) ==
    LET w == FetchValidValue(w0)
        v == w.v
        u == [w EXCEPT !.v.lock = w.now, !.v.cas = w.cas + 1, !.cas = @ + 1]
    IN IF v = NoValue THEN NotInTable(w, c, FALSE)
       ELSE IF v.del \/ IsTempGone(v) THEN Answer(w, "KEY_ENOENT")
       ELSE IF IsLocked(v, w.now) THEN Answer(w, "TMPFAIL")
       ELSE IF ~ IsResident(v) THEN WaitForFetch(w, c, FALSE)
       ELSE Found(u, u.v.cas)

UnlockKey(w0, c, o) ==
    LET w == FetchValidValue(w0)
        v == w.v
    IN IF v = NoValue THEN Answer(w, IF w.full THEN "TMPFAIL" ELSE "KEY_ENOENT")
       ELSE IF v.del \/ IsTempGone(v) THEN Answer(w, "KEY_ENOENT")
       ELSE IF IsLocked(v, w.now) /\ v.cas = o.cas
       THEN Answer([w EXCEPT !.v = Unlock(v)], "SUCCESS")
       ELSE Answer(w, "TMPFAIL")

GetMetaData(w, c, o) ==
    LET v == w.v
    IN IF v = NoValue
       THEN IF w.maybe THEN WaitForFetch(w, c, TRUE) ELSE Answer(w, "KEY_ENOENT")
       ELSE IF IsTempInitial(v) THEN WaitForFetch(w, c, TRUE)
       ELSE IF v.state = "non_existent_key" THEN Answer(w, "KEY_ENOENT")
       ELSE IF IsTemp(v) \/ v.del \/ IsExpired(v, w.now) THEN Answer(w, "DELETED")
       ELSE Answer(w, "EXISTS")

(* getKeyStats, and what observe makes of it.                              *)
Observe(w0, c, o) ==
    LET w == FetchValidValue(w0)
        v == w.v
    IN IF v = NoValue THEN NotInTable(w, c, TRUE)
       ELSE IF IsTempGone(v) THEN Answer(w, "KEY_ENOENT")
       ELSE IF w.full /\ IsTempInitial(v) THEN WaitForFetch(w, c, TRUE)
       ELSE IF v.del THEN Answer(w, "LOGICALLY_DELETED")
       ELSE Answer(w, IF v.dirty THEN "NOT_PERSISTED" ELSE "PERSISTED")

(* deleteItem, not forced.                                                 *)
DeleteItem(w, c, o) ==
    LET v == w.v
        r == UnlockedSoftDelete(w, o.cas, NoValue)
    IN IF v = NoValue THEN NotInTable(w, c, TRUE)
       ELSE IF v.del \/ IsTemp(v)
       THEN IF w.full /\ IsTempInitial(v) THEN WaitForFetch(w, c, TRUE)
            ELSE Answer(IF w.full /\ IsTemp(v) THEN UnlockedDel(w) ELSE w, "KEY_ENOENT")
       ELSE CASE r.rv = "INVALID_CAS" -> Answer(w, "KEY_EEXISTS")
              [] r.rv = "IS_LOCKED" -> Answer(w, "TMPFAIL")
              [] r.rv = "NOT_FOUND" -> Answer(QueueNew(r.w), "KEY_ENOENT")
              [] r.rv = "NEED_BG_FETCH" -> Answer([w EXCEPT !.thrown = TRUE], "ABORT")
              [] OTHER -> Answer(QueueNew(r.w), "SUCCESS")

(* ConflictResolution: the remote version wins if it is greater in the     *)
(* order of the fields; equal versions leave the local one.                *)
Greater(first, second, v, meta, deletion) ==
    \/ v.state = "non_existent_key"
    \/ v[first] < meta[first]
    \/ v[first] = meta[first] /\ v[second] < meta[second]
    \/ v[first] = meta[first] /\ v[second] = meta[second] /\ ~ deletion /\ v.exp < meta.exp

ResolveLww(v, meta, deletion) == Greater("cas", "rev", v, meta, deletion)
ResolveRevSeqno(v, meta, deletion) == Greater("rev", "cas", v, meta, deletion)

Resolve(v, meta, deletion) ==
    IF limits.timeSync /\ v.mode = "lww" /\ meta.mode = "lww"
    THEN ResolveLww(v, meta, deletion)
    ELSE ResolveRevSeqno(v, meta, deletion)

SetMaxCas(w) == [w EXCEPT !.cas = IF w.v.cas > @ THEN w.v.cas ELSE @]

RemoteItem(meta) == [value |-> meta.value, cas |-> meta.cas, rev |-> meta.rev,
                     exp |-> meta.exp, del |-> FALSE, mode |-> meta.mode]

SetWithMeta(w, c, o) ==
    LET v == w.v
        r == UnlockedSet(w, RemoteItem(o.meta), o.cas, TRUE, TRUE, v # NoValue)
    IN IF v = NoValue /\ w.maybe THEN WaitForFetch(w, c, TRUE)
       ELSE IF v # NoValue /\ IsTempInitial(v) THEN WaitForFetch(w, c, TRUE)
       ELSE IF v # NoValue /\ ~ Resolve(v, o.meta, FALSE) THEN Answer(w, "KEY_EEXISTS")
       ELSE CASE r.rv = "NOMEM" -> Answer(w, "ENOMEM")
              [] r.rv \in {"INVALID_CAS", "IS_LOCKED"} -> Answer(r.w, "KEY_EEXISTS")
              [] r.rv = "NOT_FOUND" -> Answer(r.w, "KEY_ENOENT")
              [] r.rv = "NEED_BG_FETCH" -> WaitForFetch(w, c, TRUE)
              [] OTHER -> Answer(QueueDirty(SetMaxCas(r.w), FALSE), "SUCCESS")

(* deleteWithMeta writes its tombstone even when there is no document.     *)
DeleteWithMeta(w0, c, o) ==
    LET none == w0.v = NoValue
        w == IF none
             THEN [UnlockedAddTempItem(w0).w EXCEPT !.v.state = "deleted_key"]
             ELSE w0
        r == UnlockedSoftDelete(w, o.cas, o.meta)
    IN IF none /\ w0.maybe THEN WaitForFetch(w0, c, TRUE)
       ELSE IF none /\ ~ w0.mem THEN Answer(w0, "ENOMEM")
       ELSE IF ~ none /\ IsTempInitial(w0.v) THEN WaitForFetch(w0, c, TRUE)
       ELSE IF ~ none /\ ~ Resolve(w0.v, o.meta, TRUE) THEN Answer(w0, "KEY_EEXISTS")
       ELSE CASE r.rv = "INVALID_CAS" -> Answer(r.w, "KEY_EEXISTS")
              [] r.rv = "IS_LOCKED" -> Answer(r.w, "TMPFAIL")
              [] OTHER -> Answer(QueueDirty(SetMaxCas([r.w EXCEPT !.v.mode = o.meta.mode]),
                                            FALSE), "SUCCESS")

-----------------------------------------------------------------------------
(* append and arithmetic: a get, then a store of what they made of it.     *)

Continue(r, o) == [w |-> r.w, ret |-> "CONTINUE", read |-> r.read, next |-> o]

Renamed(r, from, to) == IF r.ret = from THEN [r EXCEPT !.ret = to] ELSE r


(* A store that finds another version starts again from the get, unless    *)
(* the document was locked.                                                *)
AppendTo(w, c, o) ==
    IF o.step = "get"
    THEN LET r == Get(w, c, o)
             locked == r.read.cas = 0
         IN IF r.ret # "SUCCESS" THEN Renamed(r, "KEY_ENOENT", "NOT_STORED")
            ELSE IF o.cas = 0 /\ locked THEN Answer(r.w, "TMPFAIL")
            ELSE IF o.cas # 0 /\ ~ locked /\ o.cas # r.read.cas THEN Answer(r.w, "KEY_EEXISTS")
            ELSE Continue(r, [o EXCEPT !.step = "store", !.locked = locked,
                                       !.base = IF locked THEN o.cas ELSE r.read.cas])
    ELSE LET r == Set(w, c, [o EXCEPT !.cas = o.base])
         IN IF r.ret = "KEY_EEXISTS" /\ ~ o.locked THEN Continue(r, [o EXCEPT !.step = "get"])
            ELSE Renamed(Renamed(r, "KEY_EEXISTS", "TMPFAIL"), "KEY_ENOENT", "NOT_STORED")

Arithmetic(w, c, o) ==
    IF o.step = "get"
    THEN LET r == Get(w, c, o)
         IN IF r.ret = "SUCCESS"
            THEN IF r.read.cas = 0 THEN Answer(r.w, "TMPFAIL")
                 ELSE Continue(r, [o EXCEPT !.step = "store", !.base = r.read.cas])
            ELSE IF r.ret = "KEY_ENOENT" THEN Continue(r, [o EXCEPT !.step = "create"])
            ELSE r
    ELSE LET r == IF o.step = "store" THEN Set(w, c, [o EXCEPT !.cas = o.base])
                  ELSE Add(w, c, o)
         IN IF r.ret \in {"KEY_EEXISTS", "NOT_STORED"}
            THEN Continue(r, [o EXCEPT !.step = "get"])
            ELSE r

-----------------------------------------------------------------------------
(* A client asks for an operation, or runs one again when it is notified.  *)

CasOps == {"set", "delete", "append", "unlock"}
ExpOps == {"set", "add", "touch"}
MetaOps == {"setWithMeta", "deleteWithMeta"}

(* A client knows the versions it has read; it may also name none.         *)
CasOf(c, name, k) ==
    IF name \notin CasOps THEN {0}
    ELSE (IF name = "unlock" THEN {} ELSE {0}) \cup ({client[c].seen[k].cas} \ {0})

Requests(c, name) ==
    UNION {{[op |-> name, key |-> k, cas |-> cas, exp |-> exp, meta |-> meta,
             step |-> "get", base |-> 0, locked |-> FALSE] :
                cas \in CasOf(c, name, k),
                exp \in IF name \in ExpOps THEN limits.exps ELSE {0},
                meta \in IF name \in MetaOps THEN limits.metas ELSE {NoValue}} : k \in Keys}

Attempts(c, name) ==
    CASE client[c].pc = "idle" ->
           IF client[c].left > 0 /\ name \in limits.ops THEN Requests(c, name) ELSE {}
      [] client[c].pc \in {"retry", "running"} ->
           IF client[c].op.op = name THEN {client[c].op} ELSE {}
      [] OTHER -> {}

Reply(c, o, ret, read) == [client |-> c, op |-> o.op, key |-> o.key, cas |-> o.cas,
                           ret |-> ret, read |-> read]

(* What the operation leaves behind: the client waits for a fetch, goes on *)
(* to the second half of the operation, or has its answer.                 *)
Attempt(c, o, r) ==
    LET begin == IF client[c].pc = "idle" THEN client[c].left - 1 ELSE client[c].left
        seen == IF r.read.cas = 0 THEN client[c].seen
                ELSE [client[c].seen EXCEPT ![o.key] = r.read]
        done == r.ret \notin {"EWOULDBLOCK", "CONTINUE"}
    IN /\ Update(o.key, r.w)
       /\ client' = [client EXCEPT ![c] =
            [pc |-> CASE r.ret = "EWOULDBLOCK" -> "blocked"
                      [] r.ret = "CONTINUE" -> "running"
                      [] OTHER -> "idle",
             op |-> CASE r.ret = "EWOULDBLOCK" -> [o EXCEPT !.step = "get"]
                      [] r.ret = "CONTINUE" -> r.next
                      [] OTHER -> NoOp,
             left |-> begin, seen |-> seen]]
       /\ reply' = IF done THEN Reply(c, o, r.ret, r.read) ELSE NoValue
       /\ UNCHANGED <<reject, flush, disk, fetcher, pager, compact, now, fails, limits>>

Operation(c, name, Op(_, _, _)) ==
    \E o \in Attempts(c, name) : \E mem \in limits.mem : \E maybe \in MaybeKeyExists(o.key) :
        Attempt(c, o, Op(World(o.key, mem, maybe), c, o))

DoSet(c) == Operation(c, "set", Set)
DoAdd(c) == Operation(c, "add", Add)
DoReplace(c) == Operation(c, "replace", Replace)
DoGet(c) == Operation(c, "get", Get)
DoTouch(c) == Operation(c, "touch", Touch)
DoGetLocked(c) == Operation(c, "getl", GetLocked)
DoUnlock(c) == Operation(c, "unlock", UnlockKey)
DoDelete(c) == Operation(c, "delete", DeleteItem)
DoGetMeta(c) == Operation(c, "getMeta", GetMetaData)
DoObserve(c) == Operation(c, "observe", Observe)
DoSetWithMeta(c) == Operation(c, "setWithMeta", SetWithMeta)
DoDeleteWithMeta(c) == Operation(c, "deleteWithMeta", DeleteWithMeta)
DoAppend(c) == Operation(c, "append", AppendTo)
DoArithmetic(c) == Operation(c, "incr", Arithmetic)

-----------------------------------------------------------------------------
(* The flusher.  It holds the vbucket's lock from the drain to the last    *)
(* callback, which keeps compaction out.                                   *)

Quiet == reply' = NoValue

(* The versions to write: of each key the newest one, rejected or queued.  *)
FlushDrain ==
    LET items == [k \in Keys |-> IF queue[k] # NoValue THEN queue[k] ELSE reject[k]]
    IN /\ flush.pc = "idle" /\ compact.pc = "idle"
       /\ items # Nothing
       /\ flush' = [pc |-> "drained", items |-> items]
       /\ queue' = Nothing /\ reject' = Nothing
       /\ Quiet
       /\ UNCHANGED <<ht, ct, maxCas, disk, filter, bg, fetcher, pager, compact, client,
                      now, fails, thrown, limits>>

(* A fetch that has read a key and is not complete.                        *)
ReadNotComplete(k) ==
    fetcher.pc = "read" /\ \E i \in DOMAIN fetcher.items : fetcher.items[i].key = k

FlushCommit ==
    /\ flush.pc = "drained"
    /\ limits.overtake \/ \A k \in Keys : flush.items[k] # NoValue => ~ ReadNotComplete(k)
    /\ disk' = [k \in Keys |-> IF flush.items[k] # NoValue THEN flush.items[k] ELSE disk[k]]
    /\ flush' = [flush EXCEPT !.pc = "committed"]
    /\ Quiet
    /\ UNCHANGED <<ht, ct, maxCas, queue, reject, filter, bg, fetcher, pager, compact, client,
                   now, fails, thrown, limits>>

FlushFail ==
    /\ flush.pc = "drained"
    /\ fails < limits.maxFails
    /\ fails' = fails + 1
    /\ flush' = [flush EXCEPT !.pc = "failed"]
    /\ Quiet
    /\ UNCHANGED <<ht, ct, maxCas, queue, reject, disk, filter, bg, fetcher, pager, compact,
                   client, now, thrown, limits>>

(* Mutant: the callback does not compare the versions.                     *)
SetPersistedAnyVersion(w0, itm) ==
    LET w == FetchValidValue(w0)
    IN IF w.v # NoValue THEN [w EXCEPT !.v.dirty = FALSE] ELSE w

(* A set was written: the item is clean if it is still the version written.*)
SetPersisted(w0, itm) ==
    LET w == FetchValidValue(w0)
    IN IF w.v # NoValue /\ w.v.cas = itm.cas THEN [w EXCEPT !.v.dirty = FALSE] ELSE w

(* A tombstone was written: the item leaves the table, unless it changed.  *)
DeletePersisted(w0, k, itm) ==
    LET w == FetchValidValue(w0)
    IN IF w.v # NoValue /\ w.v.del /\ w.v.rev = itm.rev
       THEN IF CanDel(w) THEN AddToFilter(UnlockedDel(w), k) ELSE [w EXCEPT !.thrown = TRUE]
       ELSE w

PersistenceCallback(k) ==
    LET itm == flush.items[k]
        w == World(k, TRUE, TRUE)
    IN /\ flush.pc = "committed" /\ itm # NoValue
       /\ Update(k, IF itm.del THEN DeletePersisted(w, k, itm) ELSE SetPersisted(w, itm))
       /\ flush' = [flush EXCEPT !.items[k] = NoValue]
       /\ Quiet
       /\ UNCHANGED <<reject, disk, fetcher, pager, compact, client, now, fails, limits>>

Redirty(k) ==
    LET w == World(k, TRUE, TRUE)
    IN /\ flush.pc = "failed" /\ flush.items[k] # NoValue
       /\ Update(k, IF w.v = NoValue THEN w ELSE [w EXCEPT !.v.dirty = TRUE])
       /\ reject' = [reject EXCEPT ![k] = flush.items[k]]
       /\ flush' = [flush EXCEPT !.items[k] = NoValue]
       /\ Quiet
       /\ UNCHANGED <<disk, fetcher, pager, compact, client, now, fails, limits>>

DocsOnDisk == {k \in Keys : disk[k] # NoValue /\ ~ disk[k].del}

(* commit ends: under FULL_EVICTION the total is what the store counts.    *)
FlushEnd ==
    /\ flush.pc \in {"committed", "failed"} /\ flush.items = Nothing
    /\ flush' = Idle
    /\ ct' = IF limits.full THEN [ct EXCEPT !.total = Cardinality(DocsOnDisk)] ELSE ct
    /\ Quiet
    /\ UNCHANGED <<ht, maxCas, queue, reject, disk, filter, bg, fetcher, pager, compact, client,
                   now, fails, thrown, limits>>

-----------------------------------------------------------------------------
(* The BgFetcher.                                                          *)

(* Mutant: the metadata is enough if one waiter asks for it only.          *)
FetchesMetaForOne(k) ==
    LET metaOnly == \E i \in DOMAIN bg[k] : bg[k][i].meta
    IN [i \in DOMAIN bg[k] |->
          [key |-> k, client |-> bg[k][i].client, meta |-> bg[k][i].meta,
           metaOnly |-> metaOnly, status |-> "none", item |-> NoValue]]

(* getBGFetchItems: the metadata is enough if every waiter asks for it only*)
Fetches(k) ==
    LET metaOnly == \A i \in DOMAIN bg[k] : bg[k][i].meta
    IN [i \in DOMAIN bg[k] |->
          [key |-> k, client |-> bg[k][i].client, meta |-> bg[k][i].meta,
           metaOnly |-> metaOnly, status |-> "none", item |-> NoValue]]

BgTake ==
    /\ fetcher.pc = "idle"
    /\ \E k \in Keys : bg[k] # << >>
    /\ fetcher' = [pc |-> "taken",
                   items |-> FlattenSeq([i \in 1..Cardinality(Keys) |->
                                           Fetches(SetToSeq(Keys)[i])])]
    /\ bg' = [k \in Keys |-> << >>]
    /\ Quiet
    /\ UNCHANGED <<ht, ct, maxCas, queue, reject, flush, disk, filter, pager, compact, client,
                   now, fails, thrown, limits>>

(* getMulti and fetchDoc: a tombstone is found by a metadata fetch only.   *)
ReadFromDisk(f) ==
    LET d == disk[f.key]
    IN IF d = NoValue \/ (d.del /\ ~ f.metaOnly) THEN [f EXCEPT !.status = "KEY_ENOENT"]
       ELSE [f EXCEPT !.status = "SUCCESS",
                      !.item = IF f.metaOnly THEN [d EXCEPT !.value = 0] ELSE d]

BgRead ==
    /\ fetcher.pc = "taken"
    /\ fetcher' = [pc |-> "read", items |-> [i \in DOMAIN fetcher.items |->
                                               ReadFromDisk(fetcher.items[i])]]
    /\ Quiet
    /\ UNCHANGED <<ht, ct, maxCas, queue, reject, flush, disk, filter, bg, pager, compact,
                   client, now, fails, thrown, limits>>

BgReadFails ==
    /\ fetcher.pc = "taken"
    /\ fails < limits.maxFails
    /\ fails' = fails + 1
    /\ fetcher' = [pc |-> "read", items |-> [i \in DOMAIN fetcher.items |->
                     [fetcher.items[i] EXCEPT !.status = "NOT_MY_VBUCKET"]]]
    /\ Quiet
    /\ UNCHANGED <<ht, ct, maxCas, queue, reject, flush, disk, filter, bg, pager, compact,
                   client, now, thrown, limits>>

(* completeBGFetchForSingleItem: the new world, and the waiter's status.   *)
CompleteMeta(w, f) ==
    LET restored == w.v # NoValue /\ (~ IsTempInitial(w.v) \/ f.status # "NOT_MY_VBUCKET")
    IN [w |-> IF restored THEN UnlockedRestoreMeta(w, f.status, f.item) ELSE w,
        status |-> IF restored \/ f.status = "KEY_ENOENT" THEN "SUCCESS" ELSE f.status]

Requeue(w, itm) == IF w.v.exp # itm.exp /\ w.v.cas = itm.cas THEN QueueDirty(w, TRUE) ELSE w

CompleteValue(w, f) ==
    LET v == w.v
    IN IF v # NoValue /\ IsResident(v) THEN [w |-> w, status |-> "SUCCESS"]
       ELSE IF v # NoValue /\ v.del THEN [w |-> w, status |-> "KEY_ENOENT"]
       ELSE IF v = NoValue THEN [w |-> w, status |-> f.status]
       ELSE CASE f.status = "SUCCESS" ->
                   LET u == UnlockedRestoreValue(w, f.item)
                   IN [w |-> IF IsResident(u.v) THEN Requeue(u, f.item)
                             ELSE [u EXCEPT !.thrown = TRUE],
                       status |-> "SUCCESS"]
              [] f.status = "KEY_ENOENT" ->
                   [w |-> [w EXCEPT !.v.state = "non_existent_key"],
                    status |-> IF w.full THEN "SUCCESS" ELSE "KEY_ENOENT"]
              [] OTHER -> [w |-> w, status |-> "TMPFAIL"]

BgComplete ==
    /\ fetcher.pc = "read"
    /\ LET f == Head(fetcher.items)
           rest == Tail(fetcher.items)
           w == FetchValidValue(World(f.key, TRUE, TRUE))
           r == IF f.meta THEN CompleteMeta(w, f) ELSE CompleteValue(w, f)
           c == f.client
       IN /\ Update(f.key, r.w)
          /\ fetcher' = [pc |-> IF rest = << >> THEN "idle" ELSE "read", items |-> rest]
          /\ client' = [client EXCEPT ![c].pc = IF r.status = "SUCCESS" THEN "retry" ELSE "idle",
                                      ![c].op = IF r.status = "SUCCESS" THEN @ ELSE NoOp]
          /\ reply' = IF r.status = "SUCCESS" THEN NoValue
                      ELSE Reply(c, client[c].op, r.status, NoVersion)
    /\ UNCHANGED <<reject, flush, disk, pager, compact, now, fails, limits>>

-----------------------------------------------------------------------------
(* Eviction and expiry.                                                    *)

(* Mutant: the filter does not learn of the ejected item.                  *)
EjectWithoutFilter(w, k) == UnlockedEjectItem(w)

(* An ejected item of FULL_EVICTION goes to the filter.                    *)
Eject(w, k) ==
    LET u == UnlockedEjectItem(w) IN IF w.full /\ u # w THEN AddToFilter(u, k) ELSE u

Collectable(w) ==
    IsTempGone(w.v) \/ (IsExpired(w.v, w.now) /\ ~ w.v.del)

(* PagingVisitor::visit: the pager of expired items only collects.         *)
PagerCollect(k) ==
    /\ limits.pager
    /\ ht[k] # NoValue /\ k \notin pager
    /\ Collectable(World(k, TRUE, TRUE))
    /\ pager' = pager \cup {k}
    /\ Quiet
    /\ UNCHANGED <<ht, ct, maxCas, queue, reject, flush, disk, filter, bg, fetcher, compact,
                   client, now, fails, thrown, limits>>

(* PagingVisitor::doEviction: which items are referenced is left open.  A  *)
(* temporary item that is evicted stays counted as one; maxTemp bounds it. *)
PagerEvict(k) ==
    LET w == World(k, TRUE, TRUE)
    IN /\ limits.evict
       /\ ht[k] # NoValue /\ ~ Collectable(w) /\ EligibleForEviction(w)
       /\ IsTemp(ht[k]) => ct.temp < limits.maxTemp
       /\ Update(k, Eject(w, k))
       /\ Quiet
       /\ UNCHANGED <<reject, flush, disk, fetcher, pager, compact, client, now, fails, limits>>

(* evictKey, the command: it leaves what is not resident alone.            *)
EvictKey(k) ==
    LET w == FetchValidValue(World(k, TRUE, TRUE))
    IN /\ limits.evict
       /\ w.v # NoValue /\ ~ w.v.del /\ IsResident(w.v)
       /\ Update(k, Eject(w, k))
       /\ Quiet
       /\ UNCHANGED <<reject, flush, disk, fetcher, pager, compact, client, now, fails, limits>>

(* A key that is not in the table may be on disk: a tombstone for it is    *)
(* queued, with the revision that the caller knows.                        *)
DeleteFromDisk(w, rev) ==
    LET t == UnlockedAddTempItem(w)
        v == [t.w EXCEPT !.v.state = "deleted_key", !.v.rev = rev]
    IN IF ~ (w.full /\ w.maybe) \/ t.rv = "ADD_NOMEM" THEN w ELSE ExpireItem(v)

DeleteExpiredItem(w, rev) ==
    IF w.v = NoValue THEN DeleteFromDisk(w, rev)
    ELSE IF IsTempGone(w.v)
    THEN IF CanDel(w) THEN UnlockedDel(w) ELSE [w EXCEPT !.thrown = TRUE]
    ELSE IF IsExpired(w.v, w.now) /\ ~ w.v.del THEN ExpireItem(w)
    ELSE w

(* PagingVisitor::update, for one of the keys collected.                   *)
PagerDelete(k) ==
    /\ k \in pager
    /\ \E maybe \in MaybeKeyExists(k) : Update(k, DeleteExpiredItem(World(k, TRUE, maybe), 0))
    /\ pager' = pager \ {k}
    /\ Quiet
    /\ UNCHANGED <<reject, flush, disk, fetcher, compact, client, now, fails, limits>>

Tick ==
    /\ now < limits.clock
    /\ now' = now + 1
    /\ Quiet
    /\ UNCHANGED <<ht, ct, maxCas, queue, reject, flush, disk, filter, bg, fetcher, pager,
                   compact, client, fails, thrown, limits>>

-----------------------------------------------------------------------------
(* Compaction.                                                             *)

CompactStart ==
    /\ compact.pc = "idle" /\ compact.left > 0
    /\ flush.pc = "idle"
    /\ compact' = [pc |-> "running", left |-> compact.left - 1,
                   visited |-> {}, dropped |-> {}]
    /\ Quiet
    /\ UNCHANGED <<ht, ct, maxCas, queue, reject, flush, disk, filter, bg, fetcher, pager,
                   client, now, fails, thrown, limits>>

(* isResidentRatioUnderThreshold, with the default threshold of a tenth.   *)
RatioUnderThreshold(c) ==
    LET resident == IF c.total > c.nonRes THEN c.total - c.nonRes ELSE 0
    IN c.total > 0 /\ 10 * resident <= c.total

(* BloomFilterCallback: which keys the new filter must know.               *)
BloomFilterCallbackFor(w, k, deleted) ==
    LET temp == IF w.filter.temp = NoValue THEN {} ELSE w.filter.temp
        metaResident == w.v # NoValue /\ ~ IsTemp(w.v)
        add == IF w.full THEN RatioUnderThreshold(w.ct) \/ deleted \/ ~ metaResident
               ELSE deleted
    IN [w EXCEPT !.filter.temp = IF add THEN temp \cup {k} ELSE temp]

(* time_purge_hook for a document.  A tombstone is dropped if it is old    *)
(* enough and not the last of the file; either may be so.                  *)
CompactVisit(k) ==
    LET d == disk[k]
        seen == [compact EXCEPT !.visited = @ \cup {k}]
    IN /\ compact.pc = "running" /\ k \notin compact.visited /\ d # NoValue
       /\ \/ /\ d.del /\ limits.purge
             /\ compact' = [seen EXCEPT !.dropped = @ \cup {k}]
             /\ UNCHANGED <<ht, ct, maxCas, queue, bg, filter, thrown>>
          \/ \E maybe \in MaybeKeyExists(k) :
                LET w == World(k, TRUE, maybe)
                    u == IF ~ d.del /\ IsExpired(d, now) THEN DeleteExpiredItem(w, d.rev) ELSE w
                IN /\ Update(k, BloomFilterCallbackFor(u, k, d.del))
                   /\ compact' = seen
       /\ Quiet
       /\ UNCHANGED <<reject, flush, disk, fetcher, pager, client, now, fails, limits>>

(* compactInternal: the new file, and the new filter; none after a failure.*)
(* A compaction that visited nothing leaves the filter alone.              *)
CompactEnd ==
    LET end == [compact EXCEPT !.pc = "idle", !.visited = {}, !.dropped = {}]
        untouched == compact.visited = {}
    IN /\ compact.pc = "running"
       /\ \/ /\ \A k \in Keys : disk[k] # NoValue => k \in compact.visited
             /\ disk' = [k \in Keys |-> IF k \in compact.dropped THEN NoValue ELSE disk[k]]
             /\ filter' = IF untouched THEN filter ELSE [main |-> filter.temp, temp |-> NoValue]
             /\ UNCHANGED fails
          \/ /\ fails < limits.maxFails /\ fails' = fails + 1
             /\ filter' = IF untouched THEN filter ELSE [main |-> NoValue, temp |-> NoValue]
             /\ UNCHANGED disk
       /\ compact' = end
       /\ Quiet
       /\ UNCHANGED <<ht, ct, maxCas, queue, reject, flush, bg, fetcher, pager, client, now,
                      thrown, limits>>

-----------------------------------------------------------------------------

Init ==
    /\ limits \in Scenarios
    /\ ht = Nothing /\ queue = Nothing /\ reject = Nothing /\ disk = Nothing
    /\ ct = NoCounters /\ maxCas = FirstCas
    /\ flush = Idle
    /\ filter = [main |-> {}, temp |-> NoValue]
    /\ bg = [k \in Keys |-> << >>]
    /\ fetcher = [pc |-> "idle", items |-> << >>]
    /\ pager = {}
    /\ compact = [pc |-> "idle", left |-> limits.compactions, visited |-> {}, dropped |-> {}]
    /\ client = [c \in Clients |-> [pc |-> "idle", op |-> NoOp, left |-> limits.left[c],
                                    seen |-> [k \in Keys |-> NoVersion]]]
    /\ now = 1 /\ fails = 0 /\ thrown = FALSE /\ reply = NoValue

ClientNext(c) ==
    \/ DoSet(c) \/ DoAdd(c) \/ DoReplace(c) \/ DoGet(c) \/ DoTouch(c)
    \/ DoGetLocked(c) \/ DoUnlock(c) \/ DoDelete(c) \/ DoGetMeta(c) \/ DoObserve(c)
    \/ DoSetWithMeta(c) \/ DoDeleteWithMeta(c) \/ DoAppend(c) \/ DoArithmetic(c)

Fetcher == BgTake \/ BgRead \/ BgReadFails \/ BgComplete

Flusher ==
    \/ FlushDrain \/ FlushCommit \/ FlushFail \/ FlushEnd
    \/ \E k \in Keys : PersistenceCallback(k) \/ Redirty(k)

Next ==
    \/ \E c \in Clients : ClientNext(c)
    \/ Fetcher
    \/ Flusher
    \/ \E k \in Keys : PagerCollect(k) \/ PagerEvict(k) \/ EvictKey(k) \/ PagerDelete(k)
    \/ \E k \in Keys : CompactVisit(k)
    \/ CompactStart \/ CompactEnd
    \/ Tick

Spec == Init /\ [][Next]_vars

-----------------------------------------------------------------------------
(* The document of a key: what a client would find, wherever it is kept.   *)

InFlush(k) == flush.pc # "committed" /\ flush.items[k] # NoValue

Stored(k) == CASE queue[k] # NoValue -> queue[k]
               [] queue[k] = NoValue /\ InFlush(k) -> flush.items[k]
               [] queue[k] = NoValue /\ ~ InFlush(k) /\ reject[k] # NoValue -> reject[k]
               [] OTHER -> disk[k]

InTable(k) == ht[k] # NoValue /\ ~ IsTemp(ht[k])

(* The newest version of a key, a tombstone included.                      *)
Newest(k) ==
    IF ~ InTable(k) THEN Stored(k)
    ELSE IF NotResidentLive(ht[k])
    THEN [ToItem(ht[k]) EXCEPT !.value = IF Stored(k) = NoValue THEN 0 ELSE Stored(k).value]
    ELSE ToItem(ht[k])

Exists(k) == Newest(k) # NoValue /\ ~ Newest(k).del

KV == INSTANCE KeyValueStore WITH
        doc <- [k \in Keys |-> IF Exists(k) /\ ~ IsExpired(Newest(k), now)
                               THEN Newest(k).value ELSE 0],
        expired <- {k \in Keys : Exists(k) /\ IsExpired(Newest(k), now)},
        seen <- [c \in Clients |-> [k \in Keys |-> client[c].seen[k].value]]


-----------------------------------------------------------------------------
(* Properties.                                                             *)

Items == [value : Nat, cas : Nat, rev : Nat, exp : Nat, del : BOOLEAN, mode : {"rev", "lww"}]

StoredValues ==
    [state : TempStates \cup {"live"}, value : Nat, cas : Nat, rev : Nat, exp : Nat,
     dirty : BOOLEAN, del : BOOLEAN, lock : Nat, mode : {"rev", "lww"}]

(* Every entry is one of the kinds the table knows, the filters hold keys, *)
(* and a client that waits is known to the fetcher.                        *)
TypeOK ==
    /\ \A k \in Keys : /\ ht[k] \in StoredValues \cup {NoValue}
                        /\ {queue[k], reject[k], disk[k], flush.items[k]} \subseteq Items \cup {NoValue}
    /\ \A n \in {"items", "nonRes", "total", "maxDelRev"} : ct[n] \in Nat
    /\ {filter.main, filter.temp} \subseteq SUBSET Keys \cup {NoValue}
    /\ \A c \in Clients :
         (client[c].pc = "blocked")
           <=> \/ \E k \in Keys : \E i \in DOMAIN bg[k] : bg[k][i].client = c
               \/ \E i \in DOMAIN fetcher.items : fetcher.items[i].client = c

(* No exception is thrown and no abort reached: deleteItem never meets the *)
(* fetch it has ruled out, a value restored is resident, and the pager and *)
(* the PersistenceCallback can delete the item they mean to.               *)
NeverThrows == ~ thrown

(* A key on disk that is not in the table, and that the filter is asked    *)
(* about, is in the bloom filter, if there is one: maybeKeyExistsInFilter  *)
(* answering false means that there is nothing to fetch.                   *)
FilterCoversDisk ==
    \A k \in Keys :
        (/\ disk[k] # NoValue /\ ht[k] = NoValue
         /\ limits.full \/ disk[k].del
         /\ filter.main # NoValue) => k \in filter.main

(* Under VALUE_ONLY the counters of the table count its entries.  The      *)
(* number of non-resident items is not too small: it stays too large after *)
(* an add over an expired item that was not resident.                      *)
CountersExact ==
    ~ limits.full =>
        /\ ct.items = Cardinality({k \in Keys : InTable(k)})
        /\ ct.temp = Cardinality({k \in Keys : ht[k] # NoValue /\ IsTemp(ht[k])})
        /\ ct.nonRes >= Cardinality({k \in Keys : ht[k] # NoValue /\ NotResidentLive(ht[k])})

(* An observe that answers persisted is right: the document that the table *)
(* holds is the one on disk.                                               *)
PersistedMeansOnDisk ==
    (reply # NoValue /\ reply.ret = "PERSISTED") =>
        LET d == disk[reply.key]
            v == ht[reply.key]
        IN d # NoValue /\ ~ d.del /\ d.exp = v.exp /\ v.value \in {0, d.value}


(* While a document is locked, only an operation that names the lock's cas *)
(* changes it, or its expiry does.                                         *)
LockHolds ==
    [][\A k \in Keys :
        (InTable(k) /\ IsLocked(ht[k], now) /\ Exists(k) /\ Exists(k)'
           /\ Newest(k)'.value # Newest(k).value)
          => (reply' # NoValue /\ reply'.key = k /\ reply'.cas = ht[k].cas)]_vars

=============================================================================
