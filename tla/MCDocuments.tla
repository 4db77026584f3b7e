----------------------------- MODULE MCDocuments -----------------------------
(***************************************************************************)
(* One key and two clients.  Each scenario is an eviction policy with the  *)
(* operations that meet each other; c1 runs two of them and c2 one.        *)
(***************************************************************************)
EXTENDS Documents, TLC

CONSTANTS k1, c1, c2

MCKeys == {k1}
MCClients == {c1, c2}

Base == [full |-> FALSE, ops |-> {}, left |-> (c1 :> 2 @@ c2 :> 1), exps |-> {0},
         metas |-> {}, mem |-> {TRUE}, falsePositives |-> {}, timeSync |-> FALSE,
         overtake |-> FALSE, evict |-> TRUE, pager |-> FALSE, clock |-> 1,
         compactions |-> 0, purge |-> FALSE, maxFails |-> 0, maxTemp |-> 2]

(* A version of a remote cluster; local versions have a cas from FirstCas. *)
Meta(cas, rev, mode) ==
    [value |-> 50 + cas, cas |-> cas, rev |-> rev, exp |-> 0, mode |-> mode]
Remote == {Meta(5, 2, "rev"), Meta(30, 2, "rev")}

(* VALUE_ONLY.                                                             *)
ValueLocks == [Base EXCEPT !.ops = {"set", "get", "delete", "getl", "unlock"},
                           !.exps = {0, 1}, !.clock = 2]
ValueExpiry == [Base EXCEPT !.ops = {"set", "delete", "add", "observe"}, !.exps = {0, 1},
                            !.clock = 2, !.pager = TRUE, !.compactions = 1, !.purge = TRUE,
                            !.maxFails = 1]
ValueRemote == [Base EXCEPT !.ops = {"set", "delete", "setWithMeta", "deleteWithMeta", "getMeta"},
                            !.metas = Remote, !.falsePositives = {TRUE}]
ValueTimeSync == [Base EXCEPT !.ops = {"set", "setWithMeta", "deleteWithMeta"},
                              !.metas = {Meta(5, 2, "lww"), Meta(30, 1, "lww")},
                              !.timeSync = TRUE]
ValueReadModify == [Base EXCEPT !.ops = {"append", "incr", "set", "get"}]

(* FULL_EVICTION.                                                          *)
FullBasic == [Base EXCEPT !.full = TRUE, !.ops = {"set", "get", "delete", "add"},
                          !.mem = BOOLEAN, !.falsePositives = {TRUE}]
FullExpiry == [Base EXCEPT !.full = TRUE, !.ops = {"set", "getl", "touch", "replace"},
                           !.exps = {0, 1}, !.clock = 2]
FullRemote == [Base EXCEPT !.full = TRUE, !.metas = Remote,
                           !.ops = {"set", "delete", "setWithMeta", "deleteWithMeta", "getMeta"}]
FullReadModify == [Base EXCEPT !.full = TRUE, !.ops = {"append", "incr", "set", "delete"}]
FullCompaction == [Base EXCEPT !.full = TRUE, !.ops = {"set", "get", "delete"}, !.exps = {0, 1},
                               !.clock = 2, !.compactions = 1, !.purge = TRUE]
FullFailures == [Base EXCEPT !.full = TRUE, !.ops = {"set", "delete", "observe"}, !.maxFails = 1]

MCScenarios == {ValueLocks, ValueExpiry, ValueRemote, ValueTimeSync, ValueReadModify,
                FullBasic, FullExpiry, FullRemote, FullReadModify, FullCompaction, FullFailures}

=============================================================================
