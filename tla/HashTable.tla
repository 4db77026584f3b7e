------------------------------ MODULE HashTable ------------------------------
(***************************************************************************)
(* One key of a vbucket's hash table (hash_table.cc, stored-value.cc), as  *)
(* an operation sees it while it holds the key's bucket lock: the          *)
(* StoredValue, or NoValue when the key is not in the table, with the      *)
(* counters of the table.                                                  *)
(*                                                                         *)
(* The operators take and return a record w: the StoredValue v, the        *)
(* counters ct, the time now, the eviction policy full (FULL_EVICTION or   *)
(* VALUE_ONLY) and mem, whether hasAvailableSpace answers true.  A value is*)
(* the number of the write it comes from; 0 is no value in memory.         *)
(*                                                                         *)
(* The chain of a bucket is left out: unlocked_ejectItem tests the chain's *)
(* head for being temporary where it means the item, and the two are the   *)
(* same item in a chain of one.                                            *)
(***************************************************************************)
EXTENDS Integers

CONSTANT NoValue

(* StoredValue: the special bySeqno values make an item temporary.         *)
TempStates == {"temp_init", "deleted_key", "non_existent_key"}
IsTemp(v) == v.state \in TempStates
IsTempInitial(v) == v.state = "temp_init"
IsTempGone(v) == v.state \in {"deleted_key", "non_existent_key"}
IsResident(v) == v.value # 0

IsExpired(v, now) == v.exp # 0 /\ v.exp < now
IsLocked(v, now) == v.lock # 0 /\ now <= v.lock
Unlock(v) == [v EXCEPT !.lock = 0]

NotResidentLive(v) == ~ IsResident(v) /\ ~ v.del /\ ~ IsTemp(v)

EligibleForEviction(w) ==
    LET v == w.v IN ~ v.dirty /\ ~ v.del /\ (w.full \/ IsResident(v))

(* StoredValue::StoredValue of an item.                                    *)
NewStoredValue(itm, state, rev, dirty) ==
    [state |-> state, value |-> itm.value, cas |-> itm.cas, rev |-> rev,
     exp |-> itm.exp, dirty |-> dirty, del |-> FALSE, lock |-> 0, mode |-> itm.mode]

TempItem == [value |-> 0, cas |-> 0, rev |-> 0, exp |-> 0, del |-> FALSE, mode |-> "rev"]

(* toItem.                                                                 *)
ToItem(v) == [value |-> v.value, cas |-> v.cas, rev |-> v.rev, exp |-> v.exp,
              del |-> v.del, mode |-> v.mode]

Result(w, rv) == [w |-> w, rv |-> rv]

-----------------------------------------------------------------------------
(* The counters.  The decr functions leave a counter that is 0 alone; the  *)
(* number of temporary items is decremented without a test.                *)

NoCounters == [items |-> 0, temp |-> 0, nonRes |-> 0, total |-> 0, maxDelRev |-> 0]

Decr(n) == IF n = 0 THEN 0 ELSE n - 1

DecrNonResident(w) == [w EXCEPT !.ct.nonRes = Decr(@)]

(* A non-resident live item that gets a value or is deleted.               *)
CountResident(w) == IF NotResidentLive(w.v) THEN DecrNonResident(w) ELSE w

(* Mutant: the item is counted twice, as a temporary one too.              *)
CountRegularTwice(w) ==
    IF IsTemp(w.v)
    THEN [w EXCEPT !.ct.items = @ + 1, !.ct.total = @ + 1]
    ELSE w

(* A temporary item that becomes a regular one.                            *)
CountRegular(w) ==
    IF IsTemp(w.v)
    THEN [w EXCEPT !.ct.temp = @ - 1, !.ct.items = @ + 1, !.ct.total = @ + 1]
    ELSE w

UpdateMaxDeletedRevSeqno(w, rev) ==
    [w EXCEPT !.ct.maxDelRev = IF rev > @ THEN rev ELSE @]

-----------------------------------------------------------------------------
(* unlocked_set, unlocked_add, unlocked_softDelete, unlocked_del.          *)

(* setValue: preserve keeps the item's revision, else it grows by one.     *)
SetValue(w, itm, preserve) ==
    [w EXCEPT !.v.state = "live", !.v.value = itm.value, !.v.cas = itm.cas,
              !.v.exp = itm.exp, !.v.del = FALSE, !.v.dirty = TRUE,
              !.v.rev = IF preserve THEN itm.rev ELSE @ + 1, !.v.mode = itm.mode]

NewItem(w, itm, rev) ==
    [w EXCEPT !.v = NewStoredValue(itm, "live", rev, TRUE),
              !.ct.items = @ + 1, !.ct.total = @ + 1]

UnlockedSet(w, itm, cas, allowExisting, hasMeta, maybe) ==
    LET v == w.v
        expired == v # NoValue /\ IsExpired(v, w.now) /\ ~ hasMeta
        u == IF expired THEN [w EXCEPT !.v = Unlock(v)] ELSE w
        locked == IsLocked(u.v, w.now)
    IN CASE ~ w.mem -> Result(w, "NOMEM")
         [] w.mem /\ cas # 0 /\ w.full /\ maybe /\ (v = NoValue \/ IsTempInitial(v)) ->
              Result(w, "NEED_BG_FETCH")
         [] OTHER ->
              IF v = NoValue
              THEN IF cas # 0 THEN Result(w, "NOT_FOUND")
                   ELSE Result(NewItem(w, itm, IF hasMeta THEN itm.rev
                                               ELSE w.ct.maxDelRev + 1), "WAS_CLEAN")
              ELSE IF expired /\ cas # 0 THEN Result(u, "NOT_FOUND")
              ELSE IF ~ allowExisting /\ ~ IsTemp(v) THEN Result(u, "INVALID_CAS")
              ELSE IF locked /\ cas # v.cas THEN Result(u, "IS_LOCKED")
              ELSE IF ~ locked /\ cas # 0 /\ cas # v.cas
              THEN Result(u, IF IsTempGone(v) THEN "NOT_FOUND" ELSE "INVALID_CAS")
              ELSE Result(SetValue(CountRegular(CountResident(
                              IF locked THEN [u EXCEPT !.v = Unlock(v)] ELSE u)),
                              itm, hasMeta), "WAS_CLEAN")

UnlockedAdd(w, itm, maybe) ==
    LET v == w.v
        exists == v # NoValue /\ ~ v.del /\ ~ IsExpired(v, w.now) /\ ~ IsTemp(v)
        rev == IF v.state = "deleted_key" THEN v.rev + 1 ELSE w.ct.maxDelRev + 1
    IN IF exists THEN Result(w, "ADD_EXISTS")
       ELSE IF ~ w.mem THEN Result(w, "ADD_NOMEM")
       ELSE IF v = NoValue
       THEN IF w.full /\ maybe THEN Result(w, "ADD_TMP_AND_BG_FETCH")
            ELSE Result(NewItem(w, itm, w.ct.maxDelRev + 1), "ADD_SUCCESS")
       ELSE IF IsTempInitial(v) /\ w.full /\ maybe THEN Result(w, "ADD_BG_FETCH")
       ELSE IF IsTemp(v)
       THEN Result(SetValue(CountRegular(w), [itm EXCEPT !.rev = rev], TRUE), "ADD_SUCCESS")
       ELSE Result(SetValue(w, itm, FALSE), "ADD_UNDEL")

UnlockedAddTempItem(w) ==
    IF w.mem
    THEN Result([w EXCEPT !.v = NewStoredValue(TempItem, "temp_init", w.ct.maxDelRev, FALSE),
                          !.ct.temp = @ + 1], "ADD_BG_FETCH")
    ELSE Result(w, "ADD_NOMEM")

(* StoredValue::del: the value goes, the entry stays, marked deleted.      *)
Del(w) == [w EXCEPT !.v.value = 0, !.v.del = TRUE, !.v.dirty = TRUE]

SoftDeleted(w, rev) == UpdateMaxDeletedRevSeqno(Del([w EXCEPT !.v.rev = rev]), rev)

(* meta is the remote metadata of deleteWithMeta, or NoValue.              *)
UnlockedSoftDelete(w, cas, meta) ==
    LET v == w.v
        useMeta == meta # NoValue
        rev == IF useMeta THEN meta.rev ELSE v.rev + 1
        locked == IsLocked(v, w.now)
        u == CountRegular(CountResident([w EXCEPT !.v = Unlock(v)]))
    IN IF w.full /\ (v = NoValue \/ IsTempInitial(v)) THEN Result(w, "NEED_BG_FETCH")
       ELSE IF v = NoValue THEN Result(w, "NOT_FOUND")
       ELSE IF IsExpired(v, w.now) /\ ~ useMeta
       THEN Result(SoftDeleted(CountResident(w), rev), "NOT_FOUND")
       ELSE IF locked /\ cas # v.cas THEN Result(w, "IS_LOCKED")
       ELSE IF cas # 0 /\ cas # v.cas THEN Result(w, "INVALID_CAS")
       ELSE Result(SoftDeleted(
                IF useMeta THEN [u EXCEPT !.v.cas = meta.cas, !.v.exp = meta.exp] ELSE u,
                rev), "WAS_CLEAN")

(* unlocked_del fails on a live item that is locked.                       *)
CanDel(w) == w.v # NoValue /\ (w.v.del \/ ~ IsLocked(w.v, w.now))
UnlockedDel(w) ==
    IF ~ CanDel(w) THEN w
    ELSE IF IsTemp(w.v) THEN [w EXCEPT !.v = NoValue, !.ct.temp = @ - 1]
    ELSE [w EXCEPT !.v = NoValue, !.ct.items = Decr(@), !.ct.total = Decr(@)]

-----------------------------------------------------------------------------
(* Ejection, and what a background fetch puts back.                        *)


UnlockedEjectItem(w) ==
    IF ~ EligibleForEviction(w) THEN w
    ELSE IF ~ w.full THEN [w EXCEPT !.v.value = 0, !.ct.nonRes = @ + 1]
    ELSE UpdateMaxDeletedRevSeqno(
           [CountResident(w) EXCEPT !.v = NoValue, !.ct.items = Decr(@)], w.v.rev)

UnlockedRestoreValue(w, itm) ==
    LET v == w.v IN
    IF IsResident(v) \/ v.del THEN w
    ELSE IF IsTempInitial(v)
    THEN [w EXCEPT !.v = [NewStoredValue(itm, "live", itm.rev, v.dirty) EXCEPT !.lock = v.lock],
                   !.ct.temp = @ - 1, !.ct.items = @ + 1]
    ELSE DecrNonResident([w EXCEPT !.v.value = itm.value, !.v.mode = itm.mode])

RestoredMeta(v, itm, state) ==
    [v EXCEPT !.state = state, !.cas = itm.cas, !.exp = itm.exp, !.rev = itm.rev,
              !.mode = itm.mode]

(* status is what the store answered: SUCCESS with itm, or KEY_ENOENT.     *)
UnlockedRestoreMeta(w, status, itm) ==
    LET v == w.v IN
    IF ~ IsTempInitial(v) THEN w
    ELSE IF status = "KEY_ENOENT" THEN [w EXCEPT !.v.state = "non_existent_key"]
    ELSE IF itm.del THEN [w EXCEPT !.v = RestoredMeta(v, itm, "deleted_key")]
    ELSE [w EXCEPT !.v = RestoredMeta(v, itm, "live"), !.ct.temp = @ - 1,
                   !.ct.items = @ + 1, !.ct.nonRes = @ + 1]

=============================================================================
