--------------------------- MODULE BackgroundTasks ---------------------------
(***************************************************************************)
(* Tasks that run on the ExecutorPool: the flusher (flusher.cc), which     *)
(* sleeps between passes and is woken by mutations, paused, resumed and    *)
(* stopped by other threads; the background fetcher (bgfetcher.cc), whose  *)
(* pendingFetch flag and double check before sleeping are also those of    *)
(* ConnNotifier and of the DCP consumer's Processer; and a generic task    *)
(* that snoozes, repeats or ends as it likes.                              *)
(***************************************************************************)
EXTENDS ExecutorPool

VARIABLES
    flusher,   \* Flusher: its members and the place in step()
    admin,     \* the thread that pauses, resumes or stops the flusher
    writer,    \* a front-end thread that queues a mutation and notifies
    fetcher,   \* BgFetcher: pendingFetch, pendingVbs, the vbucket's fetches
    reader,    \* front-end threads that queue a fetch and notify
    calls      \* calls to wake() and cancel() still allowed

taskVars == <<flusher, admin, writer, fetcher, reader, calls>>
vars == <<poolVars, taskVars>>

CONSTANT Readers

BInit ==
    /\ Init
    /\ flusher = [state |-> "initializing", pending |-> FALSE, lp |-> FALSE,
                  dirty |-> FALSE, pc |-> "idle", seen |-> "initializing"]
    /\ admin = [op |-> "none", pc |-> "idle"]
    /\ writer = [pc |-> "idle", left |-> limits.mutations]
    /\ fetcher = [pending |-> FALSE, vbs |-> FALSE, items |-> {}, pc |-> "idle",
                  got |-> FALSE, creating |-> limits.creating]
    /\ reader = [r \in Readers |-> IF r \in limits.readers THEN "idle" ELSE "done"]
    /\ calls = limits.calls

Is(t, kind) == limits.kind[t] = kind
TaskOf(kind) == {t \in Tasks : Is(t, kind)}
Running(th, kind) == thread[th].pc \in {"running", "ran"} /\ Is(thread[th].cur, kind)

\* the task, for the callers that hold its id
FlusherTask == CHOOSE t \in Tasks : Is(t, "flusher")
FetcherTask == CHOOSE t \in Tasks : Is(t, "fetcher")

\* ExecutorPool::wake(taskId): nothing when the id is not located
WakeTask(t) ==
    IF locator[t] # NoOne
    THEN Wake(t)
    ELSE tmutex = NoOne /\ UNCHANGED poolVars

\* a step of a task's run() that snoozes the task and does not leave run()
SnoozeIn(th, wt) ==
    /\ task' = [task EXCEPT ![thread[th].cur] = SnoozeTask(@, wt)]
    /\ UNCHANGED <<limits, thread, queue, qlock, locator, numReady, curWorkers,
                   isSet, bucket, tmutex, spare, error>>

\* a step of a task's run() that returns
Return(th, again) ==
    /\ EndRun(th, again)
    /\ UNCHANGED <<limits, queue, qlock, task, locator, numReady, isSet, bucket,
                   tmutex, spare, error>>

-----------------------------------------------------------------------------
(* A generic task.                                                         *)

GenericSnooze(th, wt) ==
    /\ Running(th, "generic") /\ At(th, "running")
    /\ task' = [task EXCEPT ![thread[th].cur] = SnoozeTask(@, wt)]
    /\ thread' = [thread EXCEPT ![th].pc = "ran"]
    /\ UNCHANGED <<limits, queue, qlock, locator, numReady, curWorkers, isSet,
                   bucket, tmutex, spare, error, taskVars>>

GenericReturn(th, again) ==
    /\ Running(th, "generic")
    /\ Return(th, again)
    /\ UNCHANGED taskVars

\* wake() and cancel() from another thread
WakeCall(t) ==
    /\ calls > 0 /\ Is(t, "generic")
    /\ Wake(t)
    /\ calls' = calls - 1
    /\ UNCHANGED <<flusher, admin, writer, fetcher, reader>>

CancelCall(t) ==
    /\ calls > 0 /\ Is(t, "generic")
    /\ Cancel(t)
    /\ calls' = calls - 1
    /\ UNCHANGED <<flusher, admin, writer, fetcher, reader>>

-----------------------------------------------------------------------------
(* Flusher.                                                                *)

\* validTransition
ValidTransition(from, to) ==
    \/ to = "stopping" /\ from # "stopped"
    \/ <<from, to>> \in {<<"initializing", "running">>, <<"running", "pausing">>,
                         <<"pausing", "paused">>, <<"pausing", "running">>,
                         <<"paused", "running">>, <<"stopping", "stopped">>}

AtStep(pc) == flusher.pc = pc

\* step(): the load of _state, and the branch it selects
StepStart(th) ==
    /\ Running(th, "flusher") /\ AtStep("idle")
    /\ flusher' = [flusher EXCEPT !.seen = flusher.state,
         !.pc = CASE flusher.state = "initializing" -> "toRunning"
                  [] flusher.state \in {"pausing", "paused"} -> "pause"
                  [] flusher.state = "running" -> "flush"
                  [] flusher.state = "stopping" -> "complete"
                  [] flusher.state = "stopped" -> "end"]
    /\ UNCHANGED <<poolVars, admin, writer, fetcher, reader, calls>>

\* initialize(): validTransition and the store are two accesses
Initialize(th) ==
    /\ Running(th, "flusher") /\ flusher.pc \in {"toRunning", "setRunning"}
    /\ IF AtStep("toRunning") /\ ValidTransition(flusher.state, "running")
       THEN /\ flusher' = [flusher EXCEPT !.pc = "setRunning"]
            /\ UNCHANGED poolVars
       ELSE /\ flusher' = [flusher EXCEPT !.pc = "idle",
                 !.state = IF AtStep("setRunning") THEN "running" ELSE @]
            /\ Return(th, TRUE)
    /\ UNCHANGED <<admin, writer, fetcher, reader, calls>>

\* the paused and pausing branch
PauseStep(th) ==
    /\ Running(th, "flusher") /\ flusher.pc \in {"pause", "setPaused"}
    /\ flusher' = [flusher EXCEPT
         !.pc = IF AtStep("pause") /\ flusher.state = "pausing"
                THEN "setPaused" ELSE "forever",
         !.state = IF AtStep("setPaused") THEN "paused" ELSE @]
    /\ UNCHANGED <<poolVars, admin, writer, fetcher, reader, calls>>

SnoozeForever(th) ==
    /\ Running(th, "flusher") /\ AtStep("forever")
    /\ SnoozeIn(th, "never")
    /\ flusher' = [flusher EXCEPT !.pc = "again"]
    /\ UNCHANGED <<admin, writer, fetcher, reader, calls>>

TakesNoList(th) ==
    /\ Running(th, "flusher") /\ AtStep("flush")
    /\ flusher' = [flusher EXCEPT !.pc = "flushVBucket", !.pending = FALSE]
    /\ UNCHANGED <<poolVars, admin, writer, fetcher, reader, calls>>

\* flushVB(): an empty list is refilled when pendingMutation was set
TakePending(th) ==
    /\ Running(th, "flusher") /\ AtStep("flush")
    /\ flusher' = [flusher EXCEPT !.pc = "flushVBucket",
         !.lp = @ \/ flusher.pending,
         !.pending = IF flusher.lp THEN @ ELSE FALSE]
    /\ UNCHANGED <<poolVars, admin, writer, fetcher, reader, calls>>

\* flushVB(): one vbucket of the list
FlushVBucket(th) ==
    /\ Running(th, "flusher") /\ AtStep("flushVBucket")
    /\ flusher' = [flusher EXCEPT
         !.dirty = IF flusher.lp THEN FALSE ELSE @,
         !.lp = FALSE,
         !.pc = IF flusher.seen = "stopping" THEN "complete" ELSE "compute"]
    /\ UNCHANGED <<poolVars, admin, writer, fetcher, reader, calls>>

CanSnoozeInverted == ~flusher.lp /\ flusher.pending

\* computeMinSleepTime(), with canSnooze()
CanSnooze == ~flusher.lp /\ ~flusher.pending

ComputeMinSleepTime(th) ==
    /\ Running(th, "flusher") /\ AtStep("compute")
    /\ flusher' = [flusher EXCEPT !.pc =
         IF flusher.state = "running" /\ CanSnooze THEN "snooze" ELSE "again"]
    /\ UNCHANGED <<poolVars, admin, writer, fetcher, reader, calls>>

SnoozeAWhile(th) ==
    /\ Running(th, "flusher") /\ AtStep("snooze")
    /\ SnoozeIn(th, "later")
    /\ flusher' = [flusher EXCEPT !.pc = "again"]
    /\ UNCHANGED <<admin, writer, fetcher, reader, calls>>

FlusherRunsOnce(th) ==
    /\ Running(th, "flusher") /\ AtStep("again")
    /\ Return(th, FALSE)
    /\ flusher' = [flusher EXCEPT !.pc = "idle"]
    /\ UNCHANGED <<admin, writer, fetcher, reader, calls>>

StepAgain(th) ==
    /\ Running(th, "flusher") /\ AtStep("again")
    /\ Return(th, TRUE)
    /\ flusher' = [flusher EXCEPT !.pc = "idle"]
    /\ UNCHANGED <<admin, writer, fetcher, reader, calls>>

\* completeFlush() and the last transition
CompleteFlush(th) ==
    /\ Running(th, "flusher") /\ AtStep("complete")
    /\ \/ /\ ~CanSnooze
          /\ flusher' = [flusher EXCEPT !.pc = "flush"]
          /\ UNCHANGED poolVars
       \/ /\ CanSnooze
          /\ flusher' = [flusher EXCEPT !.pc = "end",
               !.state = IF ValidTransition(@, "stopped") THEN "stopped" ELSE @]
          /\ UNCHANGED poolVars
    /\ UNCHANGED <<admin, writer, fetcher, reader, calls>>

StepEnd(th) ==
    /\ Running(th, "flusher") /\ AtStep("end")
    /\ Return(th, FALSE)
    /\ flusher' = [flusher EXCEPT !.pc = "idle"]
    /\ UNCHANGED <<admin, writer, fetcher, reader, calls>>

\* a mutation queued by a front-end thread, then notifyFlushEvent()
QueueMutation ==
    /\ writer.pc = "idle" /\ writer.left > 0
    /\ flusher' = [flusher EXCEPT !.dirty = TRUE]
    /\ writer' = [pc |-> "notify", left |-> writer.left - 1]
    /\ UNCHANGED <<poolVars, admin, fetcher, reader, calls>>

NotifyFlushEvent ==
    /\ writer.pc = "notify"
    /\ writer' = [writer EXCEPT !.pc = IF flusher.pending THEN "idle" ELSE "wake"]
    /\ flusher' = [flusher EXCEPT !.pending = TRUE]
    /\ UNCHANGED <<poolVars, admin, fetcher, reader, calls>>

WakeFlusher ==
    /\ writer.pc = "wake"
    /\ WakeTask(FlusherTask)
    /\ writer' = [writer EXCEPT !.pc = "idle"]
    /\ UNCHANGED <<flusher, admin, fetcher, reader, calls>>

\* pause(), resume(), stop(): validTransition, the store, the wake
Target(op) ==
    CASE op = "pause" -> "pausing" [] op = "resume" -> "running" [] op = "stop" -> "stopping"

AdminCall(op) ==
    /\ admin.pc = "idle" /\ op \in limits.admin
    /\ ValidTransition(flusher.state, Target(op))
    /\ op = "stop" => flusher.state \in limits.stopIn
    /\ admin' = [op |-> op, pc |-> "store"]
    /\ UNCHANGED <<poolVars, flusher, writer, fetcher, reader, calls>>

AdminStore ==
    /\ admin.pc = "store"
    /\ flusher' = [flusher EXCEPT !.state = Target(admin.op)]
    /\ admin' = [admin EXCEPT !.pc = IF admin.op = "pause" THEN "idle" ELSE "wake"]
    /\ UNCHANGED <<poolVars, writer, fetcher, reader, calls>>

\* the wake of resume() and stop(); wait() repeats it until the flusher stops
AdminWake ==
    /\ admin.pc = "wake"
    /\ WakeTask(FlusherTask)
    /\ admin' = [admin EXCEPT !.pc =
         CASE admin.op # "stop" -> "idle"
           [] admin.op = "stop" ->
                IF flusher.state = "stopped" \/ locator[FlusherTask] = NoOne
                THEN "done" ELSE "wake"]
    /\ UNCHANGED <<flusher, writer, fetcher, reader, calls>>

-----------------------------------------------------------------------------
(* BgFetcher.                                                              *)

AtFetch(pc) == fetcher.pc = pc

\* run(): pendingFetch is cleared before pendingVbs is taken
ClearPending(th) ==
    /\ Running(th, "fetcher") /\ AtFetch("idle")
    /\ fetcher' = [fetcher EXCEPT !.pending = FALSE, !.pc = "take"]
    /\ UNCHANGED <<poolVars, flusher, admin, writer, reader, calls>>

TakeVBuckets(th) ==
    /\ Running(th, "fetcher") /\ AtFetch("take")
    /\ fetcher' = [fetcher EXCEPT !.got = fetcher.vbs, !.vbs = FALSE,
         !.pc = IF fetcher.vbs THEN "fetch" ELSE "check"]
    /\ UNCHANGED <<poolVars, flusher, admin, writer, reader, calls>>

\* a vbucket whose file is being created is put back, the others are fetched
FetchVBucket(th) ==
    /\ Running(th, "fetcher") /\ AtFetch("fetch")
    /\ fetcher' = IF fetcher.creating
                  THEN [fetcher EXCEPT !.vbs = TRUE, !.pc = "requeue"]
                  ELSE [fetcher EXCEPT !.items = {}, !.pc = "check", !.got = FALSE]
    /\ UNCHANGED <<poolVars, flusher, admin, writer, reader, calls>>

Requeue(th) ==
    /\ Running(th, "fetcher") /\ AtFetch("requeue")
    /\ fetcher' = [fetcher EXCEPT !.pending = TRUE, !.pc = "check", !.got = FALSE]
    /\ UNCHANGED <<poolVars, flusher, admin, writer, reader, calls>>

CheckPending(th) ==
    /\ Running(th, "fetcher") /\ AtFetch("check")
    /\ fetcher' = [fetcher EXCEPT !.pc = IF fetcher.pending THEN "again" ELSE "snooze"]
    /\ UNCHANGED <<poolVars, flusher, admin, writer, reader, calls>>

SnoozeFetcher(th) ==
    /\ Running(th, "fetcher") /\ AtFetch("snooze")
    /\ SnoozeIn(th, limits.fetchSleep)
    /\ fetcher' = [fetcher EXCEPT !.pc = "recheck"]
    /\ UNCHANGED <<flusher, admin, writer, reader, calls>>

RecheckNever(th) ==
    /\ Running(th, "fetcher") /\ AtFetch("recheck")
    /\ UNCHANGED poolVars
    /\ fetcher' = [fetcher EXCEPT !.pc = "again"]
    /\ UNCHANGED <<flusher, admin, writer, reader, calls>>

\* a request that came just before the snooze
Recheck(th) ==
    /\ Running(th, "fetcher") /\ AtFetch("recheck")
    /\ IF fetcher.pending THEN SnoozeIn(th, "due") ELSE UNCHANGED poolVars
    /\ fetcher' = [fetcher EXCEPT !.pc = "again"]
    /\ UNCHANGED <<flusher, admin, writer, reader, calls>>

FetcherRunsOnce(th) ==
    /\ Running(th, "fetcher") /\ AtFetch("again")
    /\ Return(th, FALSE)
    /\ fetcher' = [fetcher EXCEPT !.pc = "idle"]
    /\ UNCHANGED <<flusher, admin, writer, reader, calls>>

FetcherAgain(th) ==
    /\ Running(th, "fetcher") /\ AtFetch("again")
    /\ Return(th, TRUE)
    /\ fetcher' = [fetcher EXCEPT !.pc = "idle"]
    /\ UNCHANGED <<flusher, admin, writer, reader, calls>>

\* a reader: VBucket::queueBGFetchItem, addPendingVB, notifyBGEvent
QueueFetch(r) ==
    /\ \/ /\ reader[r] = "idle"
          /\ fetcher' = [fetcher EXCEPT !.items = @ \cup {r}]
          /\ reader' = [reader EXCEPT ![r] = "vb"]
       \/ /\ reader[r] = "vb"
          /\ fetcher' = [fetcher EXCEPT !.vbs = TRUE]
          /\ reader' = [reader EXCEPT ![r] = "flag"]
       \/ /\ reader[r] = "flag"
          /\ fetcher' = [fetcher EXCEPT !.pending = TRUE]
          /\ reader' = [reader EXCEPT ![r] = IF fetcher.pending THEN "done"
                                                                ELSE "wake"]
    /\ UNCHANGED <<poolVars, flusher, admin, writer, calls>>

WakeFetcher(r) ==
    /\ reader[r] = "wake"
    /\ WakeTask(FetcherTask)
    /\ reader' = [reader EXCEPT ![r] = "done"]
    /\ UNCHANGED <<flusher, admin, writer, fetcher, calls>>

\* the flusher's first commit creates the vbucket's file
FileCreated ==
    /\ fetcher.creating
    /\ fetcher' = [fetcher EXCEPT !.creating = FALSE]
    /\ UNCHANGED <<poolVars, flusher, admin, writer, reader, calls>>

-----------------------------------------------------------------------------
TaskBody(th) ==
    \/ GenericReturn(th, FALSE)
    \/ \E wt \in limits.snoozes : GenericSnooze(th, wt)
    \/ GenericReturn(th, TRUE)
    \/ StepStart(th) \/ Initialize(th) \/ PauseStep(th) \/ SnoozeForever(th)
    \/ TakePending(th) \/ FlushVBucket(th) \/ ComputeMinSleepTime(th)
    \/ SnoozeAWhile(th) \/ StepAgain(th) \/ CompleteFlush(th) \/ StepEnd(th)
    \/ ClearPending(th) \/ TakeVBuckets(th) \/ FetchVBucket(th) \/ Requeue(th)
    \/ CheckPending(th) \/ SnoozeFetcher(th) \/ Recheck(th) \/ FetcherAgain(th)

Callers ==
    \/ QueueMutation \/ NotifyFlushEvent \/ WakeFlusher
    \/ AdminStore \/ AdminWake
    \/ \E r \in Readers : QueueFetch(r) \/ WakeFetcher(r)

Next ==
    \/ \E th \in Threads : ThreadStep(th) /\ UNCHANGED taskVars
    \/ \E th \in Threads : TaskBody(th)
    \/ SleepQDoWake /\ UNCHANGED taskVars
    \/ \E t \in Tasks, wt \in limits.wts :
         Schedule(t, wt) /\ UNCHANGED taskVars
    \/ \E t \in Tasks : WakeCall(t) \/ CancelCall(t)
    \/ \E b \in Buckets :
         \/ RegisterTaskable(b) /\ UNCHANGED taskVars
         \/ /\ bucket[b].pc = "in" /\ limits.unregister
            /\ StopPass(b) /\ UNCHANGED taskVars
         \/ UnregisterStep(b) /\ UNCHANGED taskVars
    \/ \E t \in Tasks : TimePasses(t) /\ UNCHANGED taskVars
    \/ Callers
    \/ FileCreated
    \/ \E op \in {"pause", "resume", "stop"} : AdminCall(op)

Spec == BInit /\ [][Next]_vars

\* Threads run while they have something to do (a sleep is a timed wait), tasks
\* return, time passes, and a caller that has begun finishes.  A mutex that is
\* free again and again is obtained at last.  Only the scenarios marked live
\* assume this.
Fairness ==
    /\ \A th \in Threads :
         SF_vars(limits.live /\ (TaskBody(th) \/ (ThreadStep(th) /\ UNCHANGED taskVars)))
    /\ WF_vars(limits.live /\ UNCHANGED taskVars
                 /\ (SleepQDoWake \/ \E t \in Tasks : TimePasses(t)))
    /\ SF_vars(limits.live /\ UNCHANGED taskVars /\ \E b \in Buckets : UnregisterStep(b))
    /\ SF_vars(limits.live /\ (Callers \/ FileCreated))

LiveSpec == Spec /\ Fairness

-----------------------------------------------------------------------------
(* Properties.                                                             *)

FetchInHand == fetcher.got \/ \E r \in Readers : reader[r] \in {"vb", "flag", "wake"}

\* A queued fetch is never forgotten and its fetcher never sleeps on it: while the
\* vbucket has queued fetches, the vbucket is in pendingVbs, in the hands of
\* BgFetcher::run, or a reader is about to put it there; and when it is in
\* pendingVbs, pendingFetch is set or about to be, and a fetcher task that waits
\* for a later time is about to be woken.
FetchNotForgotten ==
    /\ fetcher.items # {} => fetcher.vbs \/ FetchInHand
    /\ fetcher.vbs /\ ~FetchInHand /\ fetcher.pc = "idle" => fetcher.pending
    /\ \A t \in TaskOf("fetcher") :
         (fetcher.pending /\ fetcher.pc = "idle" /\ locator[t] # NoOne
            /\ task[t].wt # "due")
           => \E r \in Readers : reader[r] = "wake"

\* notifyFlushEvent sets pendingMutation before a flusher can overlook it: dirty
\* items imply the flag, the vbucket on the flusher's list, or a writer that is
\* about to set the flag; a stopped flusher has left nothing that was queued
\* before (Flusher::completeFlush).
MutationNotForgotten ==
    flusher.dirty => flusher.pending \/ flusher.lp \/ writer.pc = "notify"

\* Work is done.  Every queued fetch is served, even when pendingVbs is put back
\* because the vbucket's file does not exist yet (BgFetcher::run); a mutation
\* queued while the flusher runs is flushed, although a wake-up that falls between
\* computeMinSleepTime() and snooze() is lost: the flusher then sleeps its time out
\* (Flusher::step); and a due task of a registered bucket is run (or erased)
\* whatever the other tasks of the pool do, the low priority ones included
\* (ExecutorPool::_nextTask).
WorkServed ==
    /\ limits.live /\ fetcher.items # {} /\ (\E t \in TaskOf("fetcher") : locator[t] # NoOne)
         ~> fetcher.items = {}
    /\ limits.live /\ flusher.dirty /\ flusher.state = "running"
         ~> ~flusher.dirty \/ flusher.state # "running"
    /\ \A t \in Tasks :
         limits.live /\ locator[t] # NoOne /\ task[t].wt = "due" ~>
           HeldBy(t) # {} \/ locator[t] = NoOne


\* What flusher.h says of notifyFlushEvent: "By setting pendingMutation to true we
\* are guaranteeing that the given flusher will iterate the entire vbuckets under
\* its shard".  It is false of a flusher that is resumed while its task is in the
\* paused branch of step(): the task then snoozes for ever, the flag stays set, and
\* no later notifyFlushEvent wakes it because the flag is set already.
PendingMutationIterates ==
    limits.live /\ flusher.pending /\ flusher.state = "running"
                /\ (\E t \in TaskOf("flusher") : locator[t] # NoOne) ~>
      ~flusher.pending \/ flusher.state \in {"pausing", "paused"}

=============================================================================
