---------------------------- MODULE MCDcpConsumer ----------------------------
(***************************************************************************)
(* Instances of DcpConsumer.  Each scenario is one kind of trouble.        *)
(***************************************************************************)
EXTENDS DcpConsumer

CONSTANTS c1, c2, v1, v2

Base ==
    [conns |-> {c1}, vbs |-> {v1}, streams |-> 1, seqnos |-> 2, snap |-> 2, batch |-> 1,
     throttled |-> FALSE, toggles |-> 0, fails |-> 0, rollbacks |-> 0, admins |-> {},
     drops |-> 0, closes |-> FALSE, takeover |-> FALSE, hangs |-> FALSE, live |-> FALSE,
     policy |-> "static", min |-> 2, max |-> 2, quota |-> 2, threshold |-> 2,
     noops |-> 0, controls |-> 0, manager |-> FALSE, settled |-> TRUE,
     reopen |-> "any"]

TwoVBuckets == [Base EXCEPT !.vbs = {v1, v2}, !.streams = 2, !.seqnos = 1, !.fails = 1,
                            !.min = 1]

RollingBack == [Base EXCEPT !.seqnos = 1, !.closes = TRUE, !.rollbacks = 1, !.streams = 2]

Replacing == [Base EXCEPT !.conns = {c1, c2}, !.min = 1, !.max = 1, !.seqnos = 1, !.fails = 1,
                          !.reopen = "buffered"]

Closing == [Base EXCEPT !.conns = {c1, c2}, !.closes = TRUE, !.seqnos = 0]

Sharing == [Base EXCEPT !.conns = {c1, c2}, !.manager = TRUE, !.drops = 2, !.streams = 0,
                        !.policy = "dynamic", !.quota = 3, !.max = 3, !.threshold = 4]

Splitting == [Sharing EXCEPT !.policy = "aggressive", !.quota = 4, !.max = 3, !.min = 1]

FailingOver == [Base EXCEPT !.fails = 1, !.seqnos = 1, !.admins = {"failover"}]

Demoting == [Base EXCEPT !.admins = {"failover", "demote"}, !.seqnos = 1, !.streams = 2]

Deleting == [FailingOver EXCEPT !.admins = {"delete"}]

TakingOver == [Base EXCEPT !.takeover = TRUE, !.toggles = 1]

Hanging == [Base EXCEPT !.manager = TRUE, !.hangs = TRUE, !.live = TRUE, !.seqnos = 1, !.fails = 1]

Arriving == [Base EXCEPT !.manager = TRUE, !.live = TRUE, !.throttled = TRUE,
                         !.noops = 1, !.controls = 1]

Retrying == [Base EXCEPT !.manager = TRUE, !.live = TRUE, !.fails = 1]

ConsumerScenarios ==
    {TwoVBuckets, RollingBack, Replacing, Closing, Sharing, Splitting, FailingOver, Demoting,
     Deleting, TakingOver, Hanging, Arriving, Retrying}
=============================================================================
