---------------------------- MODULE ExecutorPool ----------------------------
(***************************************************************************)
(* The global thread pool (executorpool.cc, taskqueue.cc,                  *)
(* executorthread.cc) that runs every background task of every bucket.     *)
(* One task type is modelled; the types share nothing but the code.  A     *)
(* type has a high and a low priority queue, the threads that poll them,   *)
(* and two counters: ready tasks and busy workers.                         *)
(*                                                                         *)
(* Time is abstract.  A wake-up time is "due", "later" or "never", and     *)
(* TimePasses makes a later one due.  Each action is one critical section  *)
(* of a queue mutex or of the pool's tMutex, or one atomic access.         *)
(***************************************************************************)
EXTENDS Integers, FiniteSets, Sequences, SequencesExt

CONSTANTS
    Threads,      \* the ExecutorThreads of this task type
    Tasks,        \* task ids; a smaller id is preferred, 1, 2, ...
    Buckets,      \* the Taskables
    Scenarios     \* bounded instances, one of which Init chooses

VARIABLES
    limits,       \* the chosen scenario; never changes
    thread,       \* ExecutorThread and its place in run()
    queue,        \* TaskQueue: future, ready, pending
    qlock,        \* the thread that holds a queue's mutex across two steps
    task,         \* GlobalTask: state and waketime
    locator,      \* taskLocator: the queue of each scheduled task
    numReady,     \* numReadyTasks
    curWorkers,   \* curWorkers
    isSet,        \* isHiPrioQset, isLowPrioQset
    bucket,       \* progress of each Taskable
    tmutex,       \* holder of tMutex between two steps
    spare,        \* numToWake a caller still owes to the sleep queue
    error         \* an exception of the pool

poolVars == <<limits, thread, queue, qlock, task, locator, numReady,
              curWorkers, isSet, bucket, tmutex, spare, error>>

Queues == {"hp", "lp"}
NoOne == "-"
WakeTimes == {"due", "later", "never"}

NoThread ==
    [pc |-> "none", state |-> "dead", q |-> "hp", next |-> "loop", q2 |-> "hp",
     cur |-> 0, worker |-> FALSE, wt |-> "never", tick |-> 1, notified |-> FALSE,
     toWake |-> 0]

EmptyQueue == [future |-> {}, ready |-> {}, pending |-> <<>>]

FreshTask == [state |-> "fresh", wt |-> "never"]

Init ==
    /\ limits \in Scenarios
    /\ thread = [th \in Threads |-> NoThread]
    /\ queue = [q \in Queues |-> EmptyQueue]
    /\ qlock = [q \in Queues |-> NoOne]
    /\ task = [t \in Tasks |-> FreshTask]
    /\ locator = [t \in Tasks |-> NoOne]
    /\ numReady = 0
    /\ curWorkers = 0
    /\ isSet = [q \in Queues |-> FALSE]
    /\ bucket = [b \in Buckets |-> [pc |-> "out", todo |-> {},
                                    regs |-> limits.regs[b]]]
    /\ tmutex = NoOne
    /\ spare = 0
    /\ error = FALSE

TypeOK ==
    /\ thread \in [Threads ->
         [pc : {"none", "loop", "poll2", "sleep", "asleep", "try",
                "got", "running", "ran", "resched", "erase", "dead"},
          state : {"running", "sleeping", "shutdown", "dead"},
          q : Queues, q2 : Queues, next : {"poll2", "sleep", "loop"},
          cur : Tasks \cup {0}, worker : BOOLEAN, wt : WakeTimes,
          tick : 1 .. limits.freq, notified : BOOLEAN, toWake : Nat]]
    /\ queue \in [Queues -> [future : SUBSET Tasks, ready : SUBSET Tasks,
                             pending : Seq(Tasks)]]
    /\ qlock \in [Queues -> Threads \cup {NoOne}]
    /\ task \in [Tasks -> [state : {"fresh", "running", "snoozed", "dead"},
                           wt : WakeTimes]]
    /\ locator \in [Tasks -> Queues \cup {NoOne}]
    /\ numReady \in Nat /\ curWorkers \in Nat /\ spare \in Nat
    /\ isSet \in [Queues -> BOOLEAN]
    /\ tmutex \in {NoOne, "caller"} \cup Buckets
    /\ error \in BOOLEAN

-----------------------------------------------------------------------------
(* Helpers of the queues.                                                  *)

\* ExecutorPool::getSleepQ
SleepQ == IF isSet["hp"] THEN "hp" ELSE "lp"

\* ExecutorPool::_getTaskQueue: by priority only once the threads are at the
\* global limit
TaskQueueOf(b) ==
    CASE ~limits.atCapacity -> SleepQ
      [] limits.atCapacity  -> IF b \in limits.hiPrio THEN "hp" ELSE "lp"

\* CompareByPriority
Top(S) == CHOOSE t \in S : \A u \in S : t <= u

IsDead(t) == task[t].state = "dead"

Due(q) == {t \in queue[q].future : task[t].wt = "due"}

Earliest(S) ==
    CASE \E t \in S : task[t].wt = "due"   -> "due"
      [] /\ \A t \in S : task[t].wt # "due"
         /\ \E t \in S : task[t].wt = "later" -> "later"
      [] \A t \in S : task[t].wt = "never" -> "never"

MinWake(a, b) ==
    CASE "due" \in {a, b} -> "due"
      [] "due" \notin {a, b} /\ "later" \in {a, b} -> "later"
      [] a = "never" /\ b = "never" -> "never"

Sleepers(thr, q) == {th \in Threads : thr[th].pc = "asleep" /\ thr[th].q = q}

Notified(thr, S) ==
    [th \in Threads |-> IF th \in S THEN [thr[th] EXCEPT !.notified = TRUE]
                                    ELSE thr[th]]

\* TaskQueue::_doWake_UNLOCKED: the threads after it, and what is left of
\* numToWake; a signal goes to some thread that still waits
DoWake(thr, q, n) ==
    LET S == Sleepers(thr, q)
        waiting == {th \in S : ~thr[th].notified}
    IN IF S = {} \/ n = 0 THEN {[thr |-> thr, left |-> n]}
       ELSE IF n >= Cardinality(S)
            THEN {[thr |-> Notified(thr, S), left |-> n - Cardinality(S)]}
            ELSE {[thr |-> Notified(thr, W), left |-> 0] :
                    W \in {W \in SUBSET waiting :
                             \/ Cardinality(W) = n
                             \/ W = waiting /\ Cardinality(waiting) < n}}

Free(q) == qlock[q] = NoOne

-----------------------------------------------------------------------------
(* A thread: ExecutorThread::run and ExecutorPool::_nextTask.              *)

At(th, pc) == thread[th].pc = pc

\* TaskQueue::_popReadyTask and lessWork, which throws on a zero counter
PopReady(q, ready, pending, future, count) ==
    /\ queue' = [queue EXCEPT ![q] = [future |-> future,
                                      ready |-> ready \ {Top(ready)},
                                      pending |-> pending]]
    /\ numReady' = IF count = 0 THEN 0 ELSE count - 1
    /\ error' = (error \/ count = 0)

\* a fetch that found nothing: the second queue, the sleep queue, or the top
\* of the loop
Leave(thr, th) ==
    [thr EXCEPT ![th].pc = thr[th].next, ![th].next = "loop", ![th].q2 = "hp",
                ![th].q = IF thr[th].next = "poll2" THEN thr[th].q2 ELSE "hp"]

\* TaskQueue::_fetchNextTask from _moveReadyTasks(t.now) to tryNewWork's
\* increment; moved are the tasks that t.now finds due, and thr the threads
\* after a sleep; the thread goes to next when there is nothing to take
Fetch(th, q, moved, thr, next) ==
    LET future == queue[q].future \ moved
        ready == queue[q].ready \cup moved
        count == numReady + Cardinality(moved)
        toWake == IF moved = {} THEN 0 ELSE Cardinality(moved) - 1
        seen == [thr EXCEPT ![th].wt = MinWake(@, Earliest(future)),
                            ![th].q = q, ![th].next = next]
        got == [seen EXCEPT ![th].pc = "got", ![th].cur = Top(ready),
                            ![th].next = "loop", ![th].q2 = "hp"]
    IN \/ /\ ready # {} /\ IsDead(Top(ready))
          /\ PopReady(q, ready, queue[q].pending, future, count)
          /\ \E r \in DoWake(got, q, toWake) : thread' = r.thr
          /\ UNCHANGED <<qlock, curWorkers>>
       \/ /\ \/ ready # {} /\ ~IsDead(Top(ready))
             \/ ready = {} /\ queue[q].pending # <<>>
          /\ queue' = [queue EXCEPT ![q].future = future, ![q].ready = ready]
          /\ numReady' = count
          /\ curWorkers' = curWorkers + 1
          /\ qlock' = [qlock EXCEPT ![q] = th]
          /\ thread' = [seen EXCEPT ![th].pc = "try", ![th].toWake = toWake]
          /\ UNCHANGED error
       \/ /\ ready = {} /\ queue[q].pending = <<>>
          /\ thread' = Leave(seen, th)
          /\ UNCHANGED <<queue, qlock, numReady, curWorkers, error>>

NoLowTurn(th) == thread[th].tick

\* run()'s tick, which tells only when two queues exist
Tick(th) ==
    IF At(th, "loop") /\ isSet["hp"] /\ isSet["lp"]
    THEN IF thread[th].tick = limits.freq THEN 1 ELSE thread[th].tick + 1
    ELSE thread[th].tick

\* fetchNextTask(t, false); only an empty ready queue is refilled.  t.now may be
\* older than the poll: it then finds what it would have found before the last
\* TimePasses
Poll(th, q, q2, next) ==
    /\ Free(q)
    /\ Fetch(th, q, IF queue[q].ready = {} THEN Due(q) ELSE {},
             [thread EXCEPT ![th].q2 = q2, ![th].tick = Tick(th)], next)

\* run()'s loop up to the first queue that _nextTask polls; every freq-th
\* time that is the low priority one
Loop(th) ==
    /\ At(th, "loop")
    /\ LET low == thread[th].tick = limits.freq
           first == IF low THEN IF isSet["lp"] THEN "lp" ELSE "hp"
                           ELSE IF isSet["hp"] THEN "hp" ELSE "lp"
           other == IF low THEN IF isSet["hp"] THEN "hp" ELSE first
                           ELSE IF isSet["lp"] THEN "lp" ELSE first
       IN IF thread[th].state = "running"
          THEN Poll(th, first, other, IF first # other THEN "poll2" ELSE "sleep")
          ELSE /\ thread' = [thread EXCEPT ![th] = [NoThread EXCEPT !.pc = "dead"]]
               /\ UNCHANGED <<queue, qlock, numReady, curWorkers, error>>
    /\ UNCHANGED <<limits, task, locator, isSet, bucket, tmutex, spare>>

\* the other queue, while the thread is still running
PollNext(th) ==
    /\ At(th, "poll2")
    /\ IF thread[th].state = "running"
       THEN Poll(th, thread[th].q, "hp", "sleep")
       ELSE /\ thread' = [thread EXCEPT ![th].pc = "loop"]
            /\ UNCHANGED <<queue, qlock, numReady, curWorkers, error>>
    /\ UNCHANGED <<limits, task, locator, isSet, bucket, tmutex, spare>>

HasCapacityOffByOne == curWorkers - 1 <= limits.maxWorkers

\* tryNewWork's comparison, after its increment
HasCapacity == curWorkers <= limits.maxWorkers

\* the rest of _fetchNextTask: tryNewWork's comparison decides between taking
\* a task (with _checkPendingQueue first) and parking the ready one
TryNewWork(th) ==
    LET q == thread[th].q
        Q == queue[q]
        first == IF Q.pending = <<>> THEN {} ELSE {Head(Q.pending)}
    IN /\ At(th, "try")
       /\ qlock' = [qlock EXCEPT ![q] = NoOne]
       /\ \/ /\ HasCapacity
             /\ PopReady(q, Q.ready \cup first,
                         IF first = {} THEN <<>> ELSE Tail(Q.pending), Q.future,
                         numReady + Cardinality(first))
             /\ \E r \in DoWake(thread, q, thread[th].toWake) :
                  thread' = [r.thr EXCEPT ![th].pc = "got", ![th].worker = TRUE,
                               ![th].toWake = 0, ![th].cur = Top(Q.ready \cup first),
                               ![th].next = "loop", ![th].q2 = "hp"]
             /\ UNCHANGED curWorkers
          \/ /\ ~HasCapacity
             /\ curWorkers' = curWorkers - 1
             /\ IF Q.ready # {}
                THEN PopReady(q, Q.ready, Append(Q.pending, Top(Q.ready)),
                              Q.future, numReady)
                ELSE UNCHANGED <<queue, numReady, error>>
             /\ \E r \in DoWake([thread EXCEPT ![th].toWake = 0], q,
                                IF thread[th].toWake = 0 THEN 0
                                ELSE thread[th].toWake - 1) :
                  thread' = Leave(r.thr, th)
       /\ UNCHANGED <<limits, task, locator, isSet, bucket, tmutex, spare>>

\* fetchNextTask(t, true) and _doSleep: sleep when nothing is due and nothing
\* is ready, atomically under the sleep queue's mutex
Sleep(th) ==
    /\ At(th, "sleep")
    /\ Free(SleepQ)
    /\ \/ /\ thread[th].wt # "due" /\ numReady = 0
          /\ thread' = IF thread[th].state = "running"
                       THEN [thread EXCEPT ![th].pc = "asleep", ![th].q = SleepQ,
                               ![th].wt = "never", ![th].state = "sleeping", ![th].notified = FALSE]
                       ELSE [thread EXCEPT ![th].pc = "loop"]
          /\ UNCHANGED <<queue, qlock, numReady, curWorkers, error>>
       \/ /\ thread[th].wt # "never" \/ numReady > 0
          /\ Fetch(th, SleepQ,
                   IF queue[SleepQ].ready = {} THEN Due(SleepQ) ELSE {},
                   [thread EXCEPT ![th].wt = "never"], "loop")
    /\ UNCHANGED <<limits, task, locator, isSet, bucket, tmutex, spare>>

\* the end of the wait, signalled or after MIN_SLEEP_TIME at most
WakeUp(th) ==
    /\ At(th, "asleep")
    /\ Free(thread[th].q)
    /\ IF thread[th].state = "sleeping"
       THEN LET q == thread[th].q
            IN Fetch(th, q, IF queue[q].ready = {} THEN Due(q) ELSE {},
                     [thread EXCEPT ![th].state = "running", ![th].wt = "never",
                        ![th].pc = "loop", ![th].notified = FALSE], "loop")
       ELSE /\ thread' = [thread EXCEPT ![th].pc = "loop", ![th].notified = FALSE]
            /\ UNCHANGED <<queue, qlock, numReady, curWorkers, error>>
    /\ UNCHANGED <<limits, task, locator, isSet, bucket, tmutex, spare>>

DoneWorkAlways(th) == curWorkers' = curWorkers - 1

\* ExecutorPool::doneWork
DoneWork(th) ==
    curWorkers' = IF thread[th].worker THEN curWorkers - 1 ELSE curWorkers

\* run(): the isdead() test, and setState before the task's own run()
StartRun(th) ==
    LET t == thread[th].cur
    IN /\ At(th, "got")
       /\ \/ /\ IsDead(t)
             /\ DoneWork(th)
             /\ thread' = [thread EXCEPT ![th].pc = "erase", ![th].worker = FALSE]
             /\ UNCHANGED task
          \/ /\ ~IsDead(t)
             /\ thread' = [thread EXCEPT ![th].pc = "running"]
             /\ task' = [task EXCEPT ![t].state = "running"]
             /\ UNCHANGED curWorkers
       /\ UNCHANGED <<limits, queue, qlock, locator, numReady, isSet, bucket,
                      tmutex, spare, error>>

\* GlobalTask::snooze
SnoozeTask(tk, wt) ==
    [tk EXCEPT !.wt = wt,
               !.state = IF @ = "running" /\ wt # "due" THEN "snoozed" ELSE @]

\* the task's run() has returned: doneWork, then cancel or reschedule
EndRun(th, again) ==
    LET t == thread[th].cur
    IN /\ thread[th].pc \in {"running", "ran"}
       /\ DoneWork(th)
       /\ thread' = [thread EXCEPT ![th].worker = FALSE,
                       ![th].pc = IF ~again \/ IsDead(t) THEN "erase"
                                  ELSE "resched"]

\* TaskQueue::_reschedule
Reschedule(th) ==
    LET t == thread[th].cur
    IN /\ At(th, "resched")
       /\ Free(thread[th].q)
       /\ queue' = [queue EXCEPT ![thread[th].q].future = @ \cup {t}]
       /\ thread' = [thread EXCEPT ![th].pc = "loop", ![th].cur = 0]
       /\ UNCHANGED <<limits, qlock, task, locator, numReady, curWorkers, isSet,
                      bucket, tmutex, spare, error>>

\* ExecutorPool::_cancel(taskId, true)
Erase(th) ==
    LET t == thread[th].cur
    IN /\ At(th, "erase")
       /\ tmutex = NoOne
       /\ task' = [task EXCEPT ![t] = [state |-> "dead", wt |-> "never"]]
       /\ locator' = [locator EXCEPT ![t] = NoOne]
       /\ thread' = [thread EXCEPT ![th].pc = "loop", ![th].cur = 0]
       /\ UNCHANGED <<limits, queue, qlock, numReady, curWorkers, isSet, bucket,
                      tmutex, spare, error>>

-----------------------------------------------------------------------------
(* The pool's own operations, under tMutex.                                *)

OweNothing(q, left, holder) == spare' = 0 /\ tmutex' = holder

\* the sleep queue is signalled after the queue's own mutex is released, with
\* tMutex still held by the caller
Owe(q, left, holder) ==
    IF q # SleepQ /\ left > 0
    THEN spare' = left /\ tmutex' = IF holder = NoOne THEN "caller" ELSE holder
    ELSE spare' = 0 /\ tmutex' = holder

SleepQDoWake ==
    /\ spare > 0
    /\ Free(SleepQ)
    /\ \E r \in DoWake(thread, SleepQ, spare) : thread' = r.thr
    /\ spare' = 0
    /\ tmutex' = IF tmutex = "caller" THEN NoOne ELSE tmutex
    /\ UNCHANGED <<limits, queue, qlock, task, locator, numReady, curWorkers,
                   isSet, bucket, error>>

\* ExecutorPool::_schedule, TaskQueue::_schedule
Schedule(t, wt) ==
    LET b == limits.owner[t]
        q == TaskQueueOf(b)
    IN /\ tmutex = NoOne /\ Free(q)
       /\ task[t].state = "fresh"
       /\ \A u \in Tasks : u < t => task[u].state # "fresh"
       /\ \/ bucket[b].pc = "in"
          \/ \E th \in Threads : /\ thread[th].pc = "running"
                                 /\ limits.owner[thread[th].cur] = b
       /\ task' = [task EXCEPT ![t] = [state |-> "running", wt |-> wt]]
       /\ locator' = [locator EXCEPT ![t] = q]
       /\ queue' = [queue EXCEPT ![q].future = @ \cup {t}]
       /\ \E r \in DoWake(thread, q, 1) :
            thread' = r.thr /\ Owe(q, r.left, NoOne)
       /\ UNCHANGED <<limits, qlock, numReady, curWorkers, isSet, bucket, error>>

KeepsPending(pending, unparked) == pending

\* _wake takes the task, and the dead ones, out of the pending list
StillPending(pending, unparked) ==
    SelectSeq(pending, LAMBDA u : u \notin unparked)

\* TaskQueue::_wake: re-sorts the future queue, takes the task and the dead
\* ones out of the pending queue, and makes everything due or dead ready
WakeInQueue(t, cancel, holder) ==
    LET q == locator[t]
        Q == queue[q]
        after == [task EXCEPT ![t].wt = "due",
                    ![t].state = CASE cancel -> "dead"
                                   [] ~cancel /\ @ = "snoozed" -> "running"
                                   [] ~cancel /\ @ # "snoozed" -> @]
        unparked == {u \in ToSet(Q.pending) : u = t \/ after[u].state = "dead"}
        sorted == Q.future \cup unparked
        woken == {u \in sorted : after[u].wt = "due" \/ after[u].state = "dead"}
    IN /\ Free(q)
       /\ task' = after
       /\ queue' = [queue EXCEPT ![q] =
            [future |-> sorted \ woken, ready |-> Q.ready \cup woken,
             pending |-> StillPending(Q.pending, unparked)]]
       /\ numReady' = numReady + Cardinality(woken)
       /\ \E r \in DoWake(thread, q, Cardinality(woken)) :
            thread' = r.thr /\ Owe(q, r.left, holder)

\* ExecutorPool::_wake, and _cancel(taskId, false) from outside the pool
Wake(t) ==
    /\ tmutex = NoOne /\ locator[t] # NoOne
    /\ WakeInQueue(t, FALSE, NoOne)
    /\ UNCHANGED <<limits, qlock, locator, curWorkers, isSet, bucket, error>>

Cancel(t) ==
    /\ tmutex = NoOne /\ locator[t] # NoOne
    /\ WakeInQueue(t, TRUE, NoOne)
    /\ UNCHANGED <<limits, qlock, locator, curWorkers, isSet, bucket, error>>

\* ExecutorPool::_registerTaskable and _startWorkers
RegisterTaskable(b) ==
    /\ bucket[b].pc = "out" /\ bucket[b].regs > 0
    /\ tmutex = NoOne
    /\ bucket' = [bucket EXCEPT ![b].pc = "in", ![b].regs = @ - 1]
    /\ isSet' = [isSet EXCEPT ![IF b \in limits.hiPrio THEN "hp" ELSE "lp"] = TRUE]
    /\ thread' = IF \E th \in Threads : thread[th].pc # "none" THEN thread
                 ELSE [th \in Threads |->
                         IF th \in limits.threads
                         THEN [NoThread EXCEPT !.pc = "loop", !.state = "running"]
                         ELSE NoThread]
    /\ UNCHANGED <<limits, queue, qlock, task, locator, numReady, curWorkers,
                   tmutex, spare, error>>


\* the located tasks of a bucket, running ones included
TasksOf(b) == {t \in Tasks : limits.owner[t] = b /\ locator[t] # NoOne}

\* _stopTaskGroup: one pass over the located tasks of the bucket, with tMutex
\* held, then a wait that releases it, until a pass finds none
StopPass(b) ==
    /\ bucket[b].pc \in {"in", "wait"}
    /\ tmutex = NoOne
    /\ LET tasks == TasksOf(b)
       IN IF tasks = {}
          THEN /\ bucket' = [bucket EXCEPT ![b].pc = "stopped"]
               /\ UNCHANGED tmutex
          ELSE /\ bucket' = [bucket EXCEPT ![b].pc = "visit", ![b].todo = tasks]
               /\ tmutex' = b
    /\ UNCHANGED <<limits, thread, queue, qlock, task, locator, numReady,
                   curWorkers, isSet, spare, error>>


\* cancel (unless the task blocks the shutdown) and wake
StopTask(b) ==
    /\ bucket[b].pc = "visit" /\ bucket[b].todo # {} /\ spare = 0
    /\ LET t == Top(bucket[b].todo)
       IN /\ bucket' = [bucket EXCEPT ![b].todo = @ \ {t}]
          /\ WakeInQueue(t, IsDead(t) \/ t \notin limits.blocks, b)
    /\ UNCHANGED <<limits, qlock, locator, curWorkers, isSet, error>>

StopWait(b) ==
    /\ bucket[b].pc = "visit" /\ bucket[b].todo = {} /\ spare = 0
    /\ bucket' = [bucket EXCEPT ![b].pc = "wait"]
    /\ tmutex' = NoOne
    /\ UNCHANGED <<limits, thread, queue, qlock, task, locator, numReady,
                   curWorkers, isSet, spare, error>>

\* _unregisterTaskable after _stopTaskGroup; only the last bucket ends the
\* threads
Unregister(b) ==
    /\ bucket[b].pc = "stopped"
    /\ tmutex = NoOne
    /\ IF \E c \in Buckets \ {b} : bucket[c].pc # "out"
       THEN /\ bucket' = [bucket EXCEPT ![b].pc = "out"]
            /\ UNCHANGED <<thread, numReady, tmutex, error>>
       ELSE /\ Free(SleepQ)
            /\ error' = (error \/ \E t \in Tasks : locator[t] # NoOne)
            /\ tmutex' = b
            /\ bucket' = [bucket EXCEPT ![b].pc = "last"]
            /\ numReady' = numReady + 1
            /\ thread' = Notified(thread, Sleepers(thread, SleepQ))
    /\ UNCHANGED <<limits, queue, qlock, task, locator, curWorkers, isSet, spare>>

\* ExecutorThread::stop(false) of each thread
StopThread(b) ==
    /\ bucket[b].pc = "last"
    /\ \E th \in Threads :
         /\ thread[th].state \notin {"shutdown", "dead"}
         /\ thread' = [thread EXCEPT ![th].state = "shutdown"]
    /\ UNCHANGED <<limits, queue, qlock, task, locator, numReady, curWorkers,
                   isSet, bucket, tmutex, spare, error>>

StopThreadsDone(b) ==
    /\ bucket[b].pc = "last"
    /\ \A th \in Threads : thread[th].state \in {"shutdown", "dead"}
    /\ numReady' = numReady - 1
    /\ bucket' = [bucket EXCEPT ![b].pc = "join"]
    /\ UNCHANGED <<limits, thread, queue, qlock, task, locator, curWorkers,
                   isSet, tmutex, spare, error>>

\* the joins, and the deletion of threads and queues
Join(b) ==
    /\ bucket[b].pc = "join"
    /\ \A th \in limits.threads : At(th, "dead")
    /\ thread' = [th \in Threads |-> NoThread]
    /\ curWorkers' = 0
    /\ queue' = [q \in Queues |-> EmptyQueue]
    /\ isSet' = [q \in Queues |-> FALSE]
    /\ bucket' = [bucket EXCEPT ![b].pc = "out"]
    /\ tmutex' = NoOne
    /\ UNCHANGED <<limits, qlock, task, locator, numReady, spare, error>>

TimePasses(t) ==
    /\ task[t].wt = "later"
    /\ task' = [task EXCEPT ![t].wt = "due"]
    /\ UNCHANGED <<limits, thread, queue, qlock, locator, numReady, curWorkers,
                   isSet, bucket, tmutex, spare, error>>

ThreadStep(th) ==
    \/ Loop(th) \/ PollNext(th) \/ TryNewWork(th) \/ Sleep(th) \/ WakeUp(th)
    \/ StartRun(th) \/ Reschedule(th) \/ Erase(th)

UnregisterStep(b) ==
    \/ bucket[b].pc # "in" /\ StopPass(b)
    \/ StopTask(b) \/ StopWait(b) \/ Unregister(b)
    \/ StopThread(b) \/ StopThreadsDone(b) \/ Join(b)

-----------------------------------------------------------------------------
(* Properties.                                                             *)

HeldBy(t) == {th \in Threads : thread[th].cur = t}

Places(t) ==
    Cardinality({q \in Queues : t \in queue[q].future})
      + Cardinality({q \in Queues : t \in queue[q].ready})
      + Cardinality({x \in Queues \X (1 .. Cardinality(Tasks) + 1) :
                       /\ x[2] \in DOMAIN queue[x[1]].pending
                       /\ queue[x[1]].pending[x[2]] = t})
      + Cardinality(HeldBy(t))

\* A located task is in exactly one place: one of the three lists of its own
\* queue, or the hands of one thread.  The lists are refilled, parked, re-sorted
\* and woken by different functions (TaskQueue::_moveReadyTasks, _fetchNextTask,
\* _wake, _reschedule); a task in two places would run on two threads at once,
\* a task in none would never run again.
OnePlace ==
    \A t \in Tasks :
      /\ Places(t) = IF locator[t] = NoOne THEN 0 ELSE 1
      /\ \A q \in Queues :
           t \in queue[q].future \cup queue[q].ready \cup ToSet(queue[q].pending)
             => locator[t] = q

\* The pool's counters agree with its queues and threads, so that lessWork and
\* _unregisterTaskable never throw: numReadyTasks counts the two ready lists,
\* one more while the last bucket's threads are being stopped, and the threads
\* that hold capacity stay within maxWorkers, whichever queue they took it from.
PoolCountersExact ==
    /\ ~error
    /\ numReady = Cardinality(queue["hp"].ready) + Cardinality(queue["lp"].ready)
                    + Cardinality({b \in Buckets : bucket[b].pc = "last"})
    /\ Cardinality({th \in Threads : thread[th].worker}) <= limits.maxWorkers
    /\ curWorkers = Cardinality({th \in Threads : thread[th].worker})
                      + Cardinality({th \in Threads : At(th, "try")})


\* A ready task is never left while every thread sleeps unsignalled on the sleep
\* queue: _doSleep tests numReadyTasks under the mutex the signals need, and a
\* caller that makes a task of the other queue ready still owes that queue's
\* sleepers a signal (TaskQueue::_wake, doWake).
NoReadyTaskAsleep ==
    numReady > 0 /\ spare = 0 /\ limits.threads # {}
      => \E th \in limits.threads :
           thread[th].pc # "asleep" \/ thread[th].notified \/ thread[th].q # SleepQ

=============================================================================
