------------------------ MODULE MCVBucketPersistence ------------------------
(* VBucketPersistence for TLC.  The initial state chooses one of a few     *)
(* scenarios, each with bounds and with the lapses it lets happen; every   *)
(* step is a step of VBucketPersistence.                                   *)
EXTENDS VBucketPersistence

VARIABLE limits    \* the scenario, which never changes

(* Late and failing writes of the state document, with two seqnos or with  *)
(* a change of the failover table; two seqnos or two new failover tables,  *)
(* with restarts; batches without mutations, with a flusher that never     *)
(* stops.                                                                  *)
Scenario(s, t, allowed) ==
    [seqnos |-> s, tables |-> t, meta |-> "meta" \in allowed,
     lapse |-> "lapse" \in allowed, clients |-> "clients" \in allowed,
     live |-> "live" \in allowed]

Scenarios ==
    {Scenario(2, 0, {"lapse", "clients"}), Scenario(1, 1, {"lapse", "clients"}),
     Scenario(2, 1, {}), Scenario(1, 2, {"clients"}),
     Scenario(3, 0, {"meta", "clients", "live"})}

WithinLimits ==
    /\ vb'.high <= limits.seqnos /\ (chk'.end <= limits.seqnos \/ chk'.start = chk'.end)
    /\ tables' <= limits.tables
    /\ metaBatch' => limits.meta
    /\ stateLapse' => limits.lapse
    /\ waiting' > 0 \/ acked' > 0 => limits.clients
    /\ limits.live => ~persistTask' /\ ~snapTask'

MCInit == Init /\ limits \in Scenarios

MCNext == Next /\ WithinLimits /\ UNCHANGED limits

mcvars == << vars, limits >>

Live(A) ==
    limits.live /\ A /\ UNCHANGED stateLapse /\ NoteBatch /\ WithinLimits /\ UNCHANGED limits

MCSpec ==
    /\ MCInit /\ [][MCNext]_mcvars
    /\ WF_mcvars(Live(Flusher)) /\ SF_mcvars(Live(FlushCommit))

(* A client that waits for a seqno to be persisted is answered, although   *)
(* commits may fail for a while, also when flushVBucket finds nothing to   *)
(* write for the vbucket and although the persisted seqno that             *)
(* handleSeqnoCmds compares with is cut to a few bits.                     *)
WaiterAnswered == limits.live /\ waiting > 0 ~> waiting = 0

=============================================================================
