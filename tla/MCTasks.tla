------------------------------ MODULE MCTasks ------------------------------
(* Bounded instances of BackgroundTasks.                                   *)
EXTENDS BackgroundTasks, TLC

MCThreads == {"e1", "e2"}
MCTasks == {1, 2}
MCBuckets == {"b1", "b2"}
MCReaders == {"r1", "r2"}

Base == [owner |-> (1 :> "b1" @@ 2 :> "b1"),
         kind |-> (1 :> "generic" @@ 2 :> "generic"),
         hiPrio |-> {"b1"}, threads |-> MCThreads, regs |-> ("b1" :> 1 @@ "b2" :> 0),
         freq |-> 2, maxWorkers |-> 1, atCapacity |-> TRUE, blocks |-> {2},
         wts |-> {"due"}, snoozes |-> {"later"}, unregister |-> TRUE,
         live |-> FALSE, calls |-> 0, mutations |-> 0, readers |-> {}, creating |-> FALSE,
         fetchSleep |-> "later", admin |-> {}, stopIn |-> {"running"}]

\* one bucket, two tasks, two threads, one of which may work at a time
OneBucket == [Base EXCEPT !.unregister = FALSE, !.calls = 1, !.snoozes = {}]

\* the same until it is unregistered
LastBucket == [Base EXCEPT !.snoozes = {}, !.blocks = {}]

\* a low and a high priority bucket that compete for the workers
TwoQueues ==
    [Base EXCEPT !.owner = (1 :> "b1" @@ 2 :> "b2"), !.unregister = FALSE,
                 !.regs = ("b1" :> 1 @@ "b2" :> 1), !.blocks = {}, !.snoozes = {}]

\* the same two on one thread, unregistered and registered again
Again ==
    [TwoQueues EXCEPT !.threads = {"e1"}, !.unregister = TRUE,
                      !.regs = ("b1" :> 1 @@ "b2" :> 2),
                      !.snoozes = {"never"}]

\* a writer, the flusher and its stop
Flushing ==
    [Base EXCEPT !.kind = (1 :> "flusher" @@ 2 :> "generic"), !.unregister = FALSE,
                 !.owner = (1 :> "b1" @@ 2 :> "b2"), !.threads = {"e1"},
                 !.mutations = 2, !.admin = {"stop"}, !.live = TRUE]

\* two readers and the background fetcher
Fetching ==
    [Flushing EXCEPT !.kind = (1 :> "fetcher" @@ 2 :> "generic"),
                     !.readers = MCReaders, !.live = FALSE, !.admin = {},
                     !.mutations = 0]

\* a reader of a vbucket whose file is being created
Creating == [Fetching EXCEPT !.readers = {"r1"}, !.creating = TRUE, !.live = TRUE]

\* pause and resume
Pausing == [Flushing EXCEPT !.admin = {"pause", "resume"}, !.live = FALSE,
                            !.mutations = 1]

\* one thread and a bucket with two tasks, until it is unregistered
Stopping ==
    [Base EXCEPT !.threads = {"e1"}, !.blocks = {}, !.live = TRUE,
                 !.atCapacity = FALSE, !.snoozes = {"never"}]

\* one thread, two buckets that stay
Sharing ==
    [TwoQueues EXCEPT !.threads = {"e1"}, !.live = TRUE, !.snoozes = {"later"}]

MCScenarios == {OneBucket, LastBucket, TwoQueues, Again, Pausing, Flushing, Fetching, Creating,
                Stopping, Sharing}

\* the instance of MCFlusherStall.cfg
MCPauseScenarios == {[Pausing EXCEPT !.live = TRUE]}
=============================================================================
