----------------------------- MODULE DcpConsumer -----------------------------
(***************************************************************************)
(* DCP consumer connections (dcp/consumer.cc, PassiveStream of             *)
(* dcp/stream.cc, dcp/flow-control.cc, dcp/flow-control-manager.cc,        *)
(* dcp/dcpconnmap.cc, connmap.cc) and the threads that meet in them:       *)
(*                                                                         *)
(*   the connection's worker   message handlers, step, disconnect          *)
(*   the Processer task        messages that had to be buffered            *)
(*   RollbackTask              a rollback that the producer asked for      *)
(*   ConnNotifier, ConnManager wake paused connections                     *)
(*   the cluster manager       setVBucketState, deleteVBucket              *)
(*                                                                         *)
(* What one mutex protects is one step, except where a second mutex is     *)
(* taken under it: bufMutex, vbsetMutex, connsLock and the lock of the     *)
(* stream map are in the state.  A message is one byte.  The checkpoints   *)
(* and the backfill phase that markers change belong to ReplicatedVBucket: *)
(* of the vbucket there are its state and its high seqno here.             *)
(*                                                                         *)
(* The peer is a producer with the seqnos 1 .. limits.seqnos that respects *)
(* flow control; it is external, and so is memcached, which calls step()   *)
(* again after ENGINE_WANT_MORE, a notification or a new stream.           *)
(***************************************************************************)
EXTENDS Integers, FiniteSets, Sequences, SequencesExt, FiniteSetsExt

CONSTANTS
    Conns,      \* connections, all of one name; each is opened once
    VBs,        \* vbuckets
    NoVB,       \* no vbucket
    MaxOpaque,  \* streams that one connection may add
    Scenarios   \* bounded instances, one of which Init chooses

ASSUME ConsumerBounds == MaxOpaque \in Nat \ {0} /\ NoVB \notin VBs

VARIABLES
    con,      \* DcpConsumer, FlowControl, the worker, the Processer, the peer
    vb,       \* state and high seqno of each vbucket
    lock,     \* the holders of connsLock and vbsetMutex
    admin,    \* setVBucketState or deleteVBucket in progress
    roll,     \* the RollbackTask
    aggr,     \* aggrDcpConsumerBufferSize of the dynamic policy
    env,      \* the throttle, and what is left of the bounded events
    limits    \* the scenario; never changes

vars == <<con, vb, lock, admin, roll, aggr, env, limits>>

Opaques == 1 .. MaxOpaque

Nobody == <<>>
Worker(c) == <<"worker", c>>
Processer(c) == <<"processer", c>>
Manager == <<"manager">>

Msg(kind, a, b) == [kind |-> kind, a |-> a, b |-> b]
NoMsg == Msg("none", 0, 0)

\* the PassiveStream constructor; held: who holds bufMutex
NewStream(v, high) ==
    [vb |-> v, state |-> "pending", buf |-> <<>>, readyQ |-> <<Msg("request", 0, high)>>,
     items |-> TRUE, last |-> high, start |-> 0, end |-> 0, ack |-> FALSE,
     held |-> Nobody]

NoStream == [NewStream(NoVB, 0) EXCEPT !.state = "dead", !.readyQ = <<>>, !.items = FALSE]

NoWorker == [pc |-> "idle", sid |-> 0, vb |-> NoVB, msg |-> NoMsg]
NoProcesser == [pc |-> "idle", wt |-> "due", sid |-> 0, vb |-> NoVB, bytes |-> 0,
                count |-> 0, ret |-> "all"]
NoSource == [req |-> 0, from |-> 0, sid |-> 0, next |-> 0, end |-> 0, phase |-> "none"]
NoPeer == [alive |-> TRUE, size |-> 0, out |-> 0, str |-> [v \in VBs |-> NoSource]]

NoConn ==
    [life |-> "new", disc |-> FALSE, opq |-> 0, omap |-> [o \in Opaques |-> NoVB],
     streams |-> [v \in VBs |-> 0], map |-> Nobody, st |-> [o \in Opaques |-> NoStream],
     ready |-> <<>>, vbReady |-> <<>>, paused |-> FALSE, sched |-> FALSE, io |-> FALSE,
     silent |-> FALSE, notified |-> FALSE, cancelled |-> FALSE,
     size |-> 0, pendingControl |-> TRUE, freed |-> 0, noops |-> 0, controls |-> 0,
     w |-> NoWorker, p |-> NoProcesser, peer |-> NoPeer]

NoRollback == [pc |-> "none", conn |-> Nobody, sid |-> 0, vb |-> NoVB, to |-> 0]
NoAdmin == [pc |-> "idle", op |-> "none", vb |-> NoVB, sid |-> 0, conn |-> Nobody, todo |-> {}]

Init ==
    /\ limits \in Scenarios
    /\ con = [c \in Conns |-> NoConn]
    /\ vb = [v \in VBs |-> [state |-> "replica", high |-> 0]]
    /\ lock = [conns |-> Nobody, vbset |-> Nobody]
    /\ admin = NoAdmin /\ roll = NoRollback /\ aggr = 0
    /\ env = [throttled |-> limits.throttled, toggles |-> limits.toggles,
              fails |-> limits.fails, rollbacks |-> limits.rollbacks,
              admins |-> limits.admins, drops |-> limits.drops]

Open == {c \in Conns : con[c].life = "open"}
Existing == {c \in Conns : con[c].life \notin {"new", "gone"}}

-----------------------------------------------------------------------------
(* Helpers on a connection k.                                              *)

PushAlways(q, v) == Append(q, v)

PushUnique(q, v) == IF v \in ToSet(q) THEN q ELSE Append(q, v)

IsActive(k, o) == o # 0 /\ k.st[o].state # "dead"

NeverDrained(k) == k.freed > k.size

\* isBufferSufficientlyDrained: a fifth of the buffer
Drained(k) == 5 * k.freed > k.size

\* ConnMap::notifyPausedConnection
NotifyPaused(k, schedule) ==
    IF ~k.paused \/ k.life \notin {"open", "dead"} THEN k
    ELSE IF schedule THEN [k EXCEPT !.sched = TRUE]
    ELSE [k EXCEPT !.io = TRUE]

\* FlowControl::incrFreedBytes, then notifyConsumerIfNecessary
FreeBytes(k, n, schedule) ==
    LET f == [k EXCEPT !.freed = @ + n]
    IN IF Drained(f) THEN NotifyPaused(f, schedule) ELSE f

PushToReadyQ(k, o, resp) == [k EXCEPT !.st[o].readyQ = Append(@, resp)]

NotifyStreamQuietly(k, o) ==
    [k EXCEPT !.st[o].items = TRUE, !.ready = PushUnique(@, k.st[o].vb)]

\* itemsReady.compare_exchange_strong and, if that succeeds, notifyStreamReady
NotifyStream(k, o) ==
    LET v == k.st[o].vb
        q == [k EXCEPT !.st[o].items = TRUE]
    IN IF k.st[o].items \/ v \in ToSet(k.ready) THEN q
       ELSE NotifyPaused([q EXCEPT !.ready = Append(@, v)], TRUE)

TransitionDead(k, o) == [k EXCEPT !.st[o].state = "dead"]

\* PassiveStream::setDead and clearBuffer_UNLOCKED, under bufMutex
SetDead(k, o) == [k EXCEPT !.st[o].state = "dead", !.st[o].buf = <<>>]

HandleSnapshotEndAlways(k, o, seqno) ==
    IF k.st[o].ack
    THEN PushToReadyQ([k EXCEPT !.st[o].ack = FALSE], o, Msg("marker_rsp", k.st[o].end, 0))
    ELSE k

\* handleSnapshotEnd: the acknowledgement; its seqno is not sent
HandleSnapshotEnd(k, o, seqno) ==
    IF seqno = k.st[o].end /\ k.st[o].ack
    THEN PushToReadyQ([k EXCEPT !.st[o].ack = FALSE], o, Msg("marker_rsp", seqno, 0))
    ELSE k

Result(ret, k, high) == [ret |-> ret, k |-> k, high |-> high]

\* processMutation and processDeletion: whether the store has room is a choice
ProcessItem(k, o, msg) ==
    LET v == vb[k.st[o].vb]
    IN IF v.state = "none" THEN {Result("notMyVBucket", k, v.high)}
       ELSE IF msg.a < k.st[o].start \/ msg.a > k.st[o].end THEN {Result("erange", k, v.high)}
       ELSE {Result("success", HandleSnapshotEnd(k, o, msg.a), msg.a)}
              \cup {Result("tmpfail", k, v.high) : x \in 1 .. env.fails}

\* processMarker: the markers of a takeover ask for an acknowledgement
ProcessMarker(k, o, msg) ==
    {Result("success",
            [k EXCEPT !.st[o].start = msg.a, !.st[o].end = msg.b,
                      !.st[o].ack = @ \/ (limits.takeover /\ vb[k.st[o].vb].state # "none")],
            vb[k.st[o].vb].high)}

\* the outcomes of a message, setVBucketState apart
Process(k, o, msg) ==
    CASE msg.kind \in {"mutation", "deletion"} -> ProcessItem(k, o, msg)
      [] msg.kind = "marker" -> ProcessMarker(k, o, msg)
      [] msg.kind = "end" -> {Result("success", TransitionDead(k, o), vb[k.st[o].vb].high)}

\* high seqno and failures after an outcome
Outcome(v, r) ==
    /\ vb' = [vb EXCEPT ![v].high = r.high]
    /\ env' = [env EXCEPT !.fails = IF r.ret = "tmpfail" THEN @ - 1 ELSE @]

-----------------------------------------------------------------------------
(* Opening connections and adding streams.                                 *)

Bounded(size) == Max({limits.min, Min({limits.max, size})})

\* DcpFlowControlManager*::newConsumerConn for the n-th consumer in the map
BufferSize(n) ==
    CASE limits.policy = "static" -> limits.min
      [] limits.policy = "dynamic" ->
           IF aggr + Bounded(limits.quota) > limits.threshold THEN limits.min
           ELSE Bounded(limits.quota)
      [] limits.policy = "aggressive" -> Bounded(limits.quota \div n)

ResizeQuietly(k, size) == [k EXCEPT !.size = size]

\* setFlowControlBufSize
Resize(k, size) ==
    IF k.size = size THEN k ELSE [k EXCEPT !.size = size, !.pendingControl = TRUE]

\* DcpConnMap::newConsumer: older connections of the name are told to disconnect
NewConsumer(c) ==
    LET size == BufferSize(Cardinality(Existing) + 1)
        older(k) == IF k.life = "open" THEN [k EXCEPT !.disc = TRUE] ELSE k
        resized(k) == IF limits.policy = "aggressive" THEN Resize(k, size) ELSE k
    IN /\ con[c].life = "new" /\ c \in limits.conns /\ lock.conns = Nobody
       /\ limits.reopen = "buffered" /\ Existing # {} =>
            \E d \in Open, o \in Opaques : con[d].st[o].buf # <<>>
       /\ con' = [d \in Conns |->
                    IF d = c THEN [NoConn EXCEPT !.life = "open", !.size = size, !.io = TRUE,
                                     !.p.wt = IF limits.settled THEN "never" ELSE "later",
                                     !.noops = limits.noops, !.controls = limits.controls]
                    ELSE IF d \in Existing THEN resized(older(con[d])) ELSE con[d]]
       /\ aggr' = IF limits.policy = "dynamic" THEN aggr + size ELSE aggr
       /\ UNCHANGED <<vb, lock, admin, roll, env, limits>>

At(c, pc) == con[c].life = "open" /\ con[c].w.pc = pc

Goto(k, pc) == [k EXCEPT !.w.pc = pc]

Rest(k) == [k EXCEPT !.w = NoWorker]

\* a handler that returned ENGINE_DISCONNECT, which makes memcached close
Close(k) == [k EXCEPT !.w = [NoWorker EXCEPT !.pc = "close"]]

StreamPresent(v) == \E c \in Open : IsActive(con[c], con[c].streams[v])

AddStreamUnchecked(c, v) ==
    /\ At(c, "idle") /\ lock.conns = Nobody
    /\ v \in limits.vbs /\ con[c].opq < limits.streams
    /\ ~con[c].disc /\ vb[v].state \notin {"none", "active"}
    /\ con' = [con EXCEPT ![c] = [Goto(@, "add") EXCEPT !.w.vb = v]]
    /\ lock' = [lock EXCEPT !.conns = Worker(c)]
    /\ UNCHANGED <<vb, admin, roll, aggr, env, limits>>

\* DcpConnMap::addPassiveStream and the checks of DcpConsumer::addStream
AddStream(c, v) ==
    /\ At(c, "idle") /\ lock.conns = Nobody
    /\ v \in limits.vbs /\ con[c].opq < limits.streams
    /\ ~StreamPresent(v)
    /\ IF con[c].disc
       THEN con' = [con EXCEPT ![c] = Close(@)] /\ UNCHANGED lock
       ELSE /\ vb[v].state \notin {"none", "active"}
            /\ con' = [con EXCEPT ![c] = [Goto(@, "add") EXCEPT !.w.vb = v]]
            /\ lock' = [lock EXCEPT !.conns = Worker(c)]
    /\ UNCHANGED <<vb, admin, roll, aggr, env, limits>>

\* the rest of addStream, still under connsLock: a dead stream is replaced
InsertStream(c) ==
    LET k == con[c]
        o == k.opq + 1
        v == k.w.vb
    IN /\ At(c, "add")
       /\ con' = [con EXCEPT ![c] =
            [Rest(k) EXCEPT !.opq = o, !.streams[v] = o, !.omap[o] = v, !.io = TRUE,
                            !.st[o] = [NewStream(v, vb[v].high) EXCEPT
                                         !.readyQ = <<Msg("request", o, vb[v].high)>>],
                            !.ready = Append(@, v)]]
       /\ lock' = [lock EXCEPT !.conns = Nobody]
       /\ UNCHANGED <<vb, admin, roll, aggr, env, limits>>

\* DcpConsumer::closeStream; the opaque of the request q rarely is the stream's
CloseStream(c, v) ==
    LET k == con[c]
        o == k.streams[v]
    IN /\ At(c, "idle") /\ limits.closes /\ o # 0
       /\ \/ /\ k.disc
             /\ con' = [con EXCEPT ![c] = [Close(k) EXCEPT !.streams[v] = 0]]
          \/ /\ ~k.disc /\ k.st[o].held = Nobody
             /\ \E q \in {0, o} :
                  LET e == IF q = 0 THEN k ELSE [k EXCEPT !.omap[q] = NoVB]
                  IN con' = [con EXCEPT ![c] =
                       FreeBytes([SetDead(e, o) EXCEPT !.streams[v] = 0],
                                 Len(k.st[o].buf), TRUE)]
       /\ UNCHANGED <<vb, lock, admin, roll, aggr, env, limits>>

-----------------------------------------------------------------------------
(* Messages: mutation, deletion, snapshotMarker, setVBucketState and       *)
(* streamEnd of DcpConsumer, which differ in the message they pass on.     *)

\* the end of a handler whose message was not buffered
Freed(k) == FreeBytes(Rest(k), 1, TRUE)

Deliver(c, v, opaque, msg, peer) ==
    LET k == [con[c] EXCEPT !.peer = peer]
        o == k.streams[v]
    IN con' = [con EXCEPT ![c] =
         IF k.disc THEN Close(k)
         ELSE IF o = opaque /\ IsActive(k, o)
         THEN [k EXCEPT !.w = [pc |-> "recv", sid |-> o, vb |-> v, msg |-> msg]]
         ELSE Freed(k)]

Buffer(k, o, msg) == [Goto(k, "push") EXCEPT !.st[o].buf = Append(@, msg)]

\* seqnos and markers that messageReceived drops
OutOfSequence(s, msg) ==
    \/ msg.kind \in {"mutation", "deletion"} /\ msg.a <= s.last
    \/ msg.kind = "marker" /\ msg.a < s.last /\ msg.b <= s.last

Received(k, o, msg) ==
    IF msg.kind \in {"mutation", "deletion"} THEN [k EXCEPT !.st[o].last = msg.a] ELSE k

MayProcessState(s, msg) == ~env.throttled /\ (s.buf = <<>> \/ msg.kind = "setvb")

\* only with an empty buffer is a message processed at once
MayProcess(s, msg) == ~env.throttled /\ s.buf = <<>>

RetryNever(ret) == FALSE

\* a full store: the message has to wait
Retry(ret) == ret = "tmpfail"

\* PassiveStream::messageReceived, under bufMutex
Recv(c) ==
    LET o == con[c].w.sid
        msg == con[c].w.msg
        v == con[c].w.vb
        s == con[c].st[o]
        k == Received(con[c], o, msg)
    IN /\ At(c, "recv") /\ s.held = Nobody
       /\ \/ /\ s.state = "dead" \/ OutOfSequence(s, msg)
             /\ con' = [con EXCEPT ![c] = Freed(@)]
             /\ UNCHANGED <<vb, env>>
          \/ /\ s.state # "dead" /\ ~OutOfSequence(s, msg) /\ ~MayProcess(s, msg)
             /\ con' = [con EXCEPT ![c] = Buffer(k, o, msg)]
             /\ UNCHANGED <<vb, env>>
          \/ /\ s.state # "dead" /\ msg.kind = "setvb" /\ MayProcess(s, msg)
             /\ con' = [con EXCEPT ![c] = [Goto(k, "setvb") EXCEPT !.st[o].held = Worker(c)]]
             /\ UNCHANGED <<vb, env>>
          \/ /\ s.state # "dead" /\ ~OutOfSequence(s, msg) /\ MayProcess(s, msg)
             /\ msg.kind # "setvb"
             /\ \E r \in Process(k, o, msg) :
                  /\ Outcome(v, r)
                  /\ con' = [con EXCEPT ![c] =
                       IF Retry(r.ret) THEN Buffer(r.k, o, msg)
                       ELSE Freed(IF r.k.st[o].readyQ = k.st[o].readyQ THEN r.k
                                  ELSE NotifyStream(r.k, o))]
       /\ UNCHANGED <<lock, admin, roll, aggr, limits>>

\* notifyVbucketReady: pushUnique
Push(c) ==
    LET k == con[c]
        v == k.w.vb
    IN /\ At(c, "push")
       /\ con' = [con EXCEPT ![c] =
            IF v \in ToSet(k.vbReady) THEN Rest(k)
            ELSE [Goto(k, "cas") EXCEPT !.vbReady = Append(@, v)]]
       /\ UNCHANGED <<vb, lock, admin, roll, aggr, env, limits>>

\* notifyVbucketReady: notifiedProcesser(true)
SetNotified(c) ==
    /\ At(c, "cas")
    /\ con' = [con EXCEPT ![c] = IF con[c].notified THEN Rest(@)
                                 ELSE [Goto(@, "wake") EXCEPT !.notified = TRUE]]
    /\ UNCHANGED <<vb, lock, admin, roll, aggr, env, limits>>

WakeProcesser(c) ==
    /\ At(c, "wake")
    /\ con' = [con EXCEPT ![c] = [Rest(@) EXCEPT !.p.wt = "due"]]
    /\ UNCHANGED <<vb, lock, admin, roll, aggr, env, limits>>

-----------------------------------------------------------------------------
(* processSetVBucketState, in the worker or in the Processer, with         *)
(* bufMutex held: EventuallyPersistentStore::setVBucketState takes         *)
(* vbsetMutex and, under it, connsLock for vbucketStateChanged, which      *)
(* closes no inbound stream of a transfer.                                 *)

Answered(k, o, t) ==
    LET r == NotifyStream(PushToReadyQ(k, o, Msg("state_rsp", 0, 0)), o)
        b == r.st[o].buf
    IN IF t = "worker" THEN Freed([r EXCEPT !.st[o].held = Nobody])
       ELSE [r EXCEPT !.p.pc = "message", !.st[o].buf = Tail(b),
                      !.p.bytes = @ + 1, !.p.count = @ + 1]

SetState(c, t) ==
    LET k == con[c]
        me == IF t = "worker" THEN Worker(c) ELSE Processer(c)
        th == IF t = "worker" THEN k.w ELSE k.p
        to == IF t = "worker" THEN k.w.msg.a ELSE Head(k.st[k.p.sid].buf).a
        v == th.vb
    IN /\ th.pc = "setvb" /\ lock.vbset = Nobody
       /\ IF vb[v].state \in {"none", to}
          THEN /\ con' = [con EXCEPT ![c] = Answered(k, th.sid, t)]
               /\ vb' = [vb EXCEPT ![v] = [state |-> to, high |-> IF @.state = to THEN @.high ELSE 0]]
               /\ UNCHANGED lock
          ELSE /\ con' = [con EXCEPT ![c] = IF t = "worker" THEN Goto(k, "changed")
                                            ELSE [k EXCEPT !.p.pc = "changed"]]
               /\ vb' = [vb EXCEPT ![v].state = to]
               /\ lock' = [lock EXCEPT !.vbset = me]
       /\ UNCHANGED <<admin, roll, aggr, env, limits>>

StateChanged(c, t) ==
    LET k == con[c]
        th == IF t = "worker" THEN k.w ELSE k.p
    IN /\ th.pc = "changed" /\ lock.conns = Nobody
       /\ con' = [con EXCEPT ![c] = Answered(k, th.sid, t)]
       /\ lock' = [lock EXCEPT !.vbset = Nobody]
       /\ UNCHANGED <<vb, admin, roll, aggr, env, limits>>

-----------------------------------------------------------------------------
(* Processer::run, processBufferedItems and processBufferedMessages.       *)

Running(c, pc) == con[c].life \notin {"new", "gone"} /\ con[c].p.pc = pc

Proc(c, k) == con' = [con EXCEPT ![c] = k]

\* a task that is cancelled, or that finds its connection disconnected, ends
Run(c) ==
    LET k == con[c]
    IN /\ Running(c, "idle") /\ (k.p.wt = "due" \/ k.cancelled)
       /\ Proc(c, IF k.cancelled \/ k.disc THEN [k EXCEPT !.p = [NoProcesser EXCEPT !.pc = "ended"]]
                  ELSE [k EXCEPT !.p.pc = "take", !.p.ret = "all"])
       /\ UNCHANGED <<vb, lock, admin, roll, aggr, env, limits>>

\* five seconds after cannot_process
RunLater(c) ==
    /\ Running(c, "idle") /\ con[c].p.wt = "later"
    /\ Proc(c, [con[c] EXCEPT !.p.wt = "due"])
    /\ UNCHANGED <<vb, lock, admin, roll, aggr, env, limits>>

\* vbReady.popFront and findStream
Take(c) ==
    LET k == con[c]
        v == Head(k.vbReady)
    IN /\ Running(c, "take")
       /\ \/ /\ k.vbReady = <<>>
             /\ Proc(c, [k EXCEPT !.p.pc = "check"])
          \/ /\ k.vbReady # <<>> /\ k.map = Nobody
             /\ Proc(c, IF k.streams[v] = 0 THEN [k EXCEPT !.vbReady = Tail(@)]
                        ELSE [k EXCEPT !.vbReady = Tail(@), !.p.pc = "throttle",
                                       !.p.vb = v, !.p.sid = k.streams[v]])
       /\ UNCHANGED <<vb, lock, admin, roll, aggr, env, limits>>

Finished(k, ret) == [k EXCEPT !.p.pc = "check", !.p.ret = ret, !.p.vb = NoVB, !.p.sid = 0]

\* shouldProcess; if it may, bufMutex is taken
Throttle(c) ==
    LET k == con[c]
        s == k.st[k.p.sid]
    IN /\ Running(c, "throttle")
       /\ \/ /\ env.throttled
             /\ Proc(c, Finished([k EXCEPT !.vbReady = PushUnique(@, k.p.vb)], "cannot"))
          \/ /\ ~env.throttled /\ s.held = Nobody
             /\ Proc(c, [k EXCEPT !.st[k.p.sid].held = Processer(c), !.p.pc = "message",
                                  !.p.bytes = 0, !.p.count = 0, !.p.ret = "all"])
       /\ UNCHANGED <<vb, lock, admin, roll, aggr, env, limits>>

\* processBufferedMessages returns: incrFreedBytes, and another turn or the end
EndTurn(k, ret) ==
    LET s == [k EXCEPT !.st[k.p.sid].held = Nobody]
        f == [FreeBytes(s, k.p.bytes, FALSE) EXCEPT !.p.bytes = 0]
    IN IF k.p.bytes > 0 /\ ret = "all" THEN [f EXCEPT !.p.pc = "throttle"]
       ELSE IF ret = "all" THEN Finished(f, "more")
       ELSE Finished([f EXCEPT !.vbReady = PushUnique(@, k.p.vb)],
                     IF k.vbReady # <<>> THEN "more" ELSE "cannot")

\* a message that is done leaves the buffer; one that was dropped is not credited
Popped(k, o, ret) ==
    [k EXCEPT !.st[o].buf = Tail(@), !.p.count = @ + 1,
              !.p.bytes = IF ret = "erange" THEN @ ELSE @ + 1]

\* one turn of the loop of processBufferedMessages; a dead stream's buffer is cleared
Message(c) ==
    LET k == con[c]
        o == k.p.sid
        s == k.st[o]
    IN /\ Running(c, "message")
       /\ \/ /\ s.buf = <<>> \/ k.p.count = limits.batch \/ s.state = "dead"
             /\ Proc(c, EndTurn(IF s.state # "dead" \/ k.p.count = limits.batch THEN k
                                ELSE [k EXCEPT !.p.bytes = @ + Len(s.buf), !.st[o].buf = <<>>], "all"))
             /\ UNCHANGED <<vb, env>>
          \/ /\ s.buf # <<>> /\ k.p.count < limits.batch /\ s.state # "dead"
             /\ Head(s.buf).kind = "setvb"
             /\ Proc(c, [k EXCEPT !.p.pc = "setvb"]) /\ UNCHANGED <<vb, env>>
          \/ /\ s.buf # <<>> /\ k.p.count < limits.batch /\ s.state # "dead"
             /\ Head(s.buf).kind # "setvb"
             /\ \E r \in Process(k, o, Head(s.buf)) :
                  /\ Outcome(k.p.vb, r)
                  /\ Proc(c, IF Retry(r.ret) THEN EndTurn(r.k, "cannot")
                             ELSE IF r.k.st[o].readyQ = s.readyQ THEN Popped(r.k, o, r.ret)
                             ELSE [Popped(r.k, o, r.ret) EXCEPT !.p.pc = "notify"])
       /\ UNCHANGED <<lock, admin, roll, aggr, limits>>

\* handleSnapshotEnd in the Processer, after the response is in readyQ
NotifyFromProcesser(c) ==
    /\ Running(c, "notify")
    /\ Proc(c, [NotifyStream(con[c], con[c].p.sid) EXCEPT !.p.pc = "message"])
    /\ UNCHANGED <<vb, lock, admin, roll, aggr, env, limits>>

\* notifiedProcesser(false), before and after snooze
Check(c) ==
    LET k == con[c]
    IN /\ Running(c, "check")
       /\ Proc(c, IF k.notified THEN [k EXCEPT !.notified = FALSE, !.p.wt = "due", !.p.pc = "idle"]
                  ELSE [k EXCEPT !.p.pc = "snooze"])
       /\ UNCHANGED <<vb, lock, admin, roll, aggr, env, limits>>

SleepTime(ret) == [all |-> "never", more |-> "due", cannot |-> "later"][ret]

Snooze(c) ==
    /\ Running(c, "snooze")
    /\ Proc(c, [con[c] EXCEPT !.p.wt = SleepTime(con[c].p.ret), !.p.pc = "recheck"])
    /\ UNCHANGED <<vb, lock, admin, roll, aggr, env, limits>>

RecheckNothing(c) ==
    /\ Running(c, "recheck")
    /\ Proc(c, [con[c] EXCEPT !.p.pc = "idle", !.p.ret = "all"])
    /\ UNCHANGED <<vb, lock, admin, roll, aggr, env, limits>>

Recheck(c) ==
    LET k == [con[c] EXCEPT !.p.pc = "idle", !.p.ret = "all"]
    IN /\ Running(c, "recheck")
       /\ Proc(c, IF k.notified THEN [k EXCEPT !.notified = FALSE, !.p.wt = "due"] ELSE k)
       /\ UNCHANGED <<vb, lock, admin, roll, aggr, env, limits>>

-----------------------------------------------------------------------------
(* DcpConsumer::step, called by memcached in the connection's worker.      *)

WantMore(k) == [k EXCEPT !.io = TRUE]

\* buffer_acknowledgement of all that is freed
Acknowledge(k) == WantMore([k EXCEPT !.peer.out = @ - k.freed, !.freed = 0])

\* the size of handleFlowCtl's control message
SendBufferSize(k) == WantMore([k EXCEPT !.pendingControl = FALSE, !.peer.size = k.size])

\* handleNoop: its two control messages, then the check of lastMessageTime
HandleNoop(k) == IF k.noops > 0 THEN WantMore([k EXCEPT !.noops = @ - 1]) ELSE Close(k)

\* handlePriority, handleExtMetaData, handleValueCompression, supportCursorDropping
HandleControls(k) == WantMore([k EXCEPT !.controls = @ - 1])

\* a connection's turn; whether
\* five seconds have passed since the last acknowledgement is a choice
Step(c) ==
    LET k == [con[c] EXCEPT !.io = FALSE]
        late == k.freed > 0 /\ ~k.pendingControl /\ ~Drained(k)
    IN /\ At(c, "idle") /\ con[c].io
       /\ \/ ~k.disc /\ late /\ Proc(c, Acknowledge(k))
          \/ Proc(c, IF k.disc THEN Close(k)
                     ELSE IF k.pendingControl THEN SendBufferSize(k)
                     ELSE IF Drained(k) THEN Acknowledge(k)
                     ELSE IF k.noops > 0 \/ k.silent THEN HandleNoop(k)
                     ELSE IF k.controls > 0 THEN HandleControls(k)
                     ELSE Goto(k, "next"))
       /\ UNCHANGED <<vb, lock, admin, roll, aggr, env, limits>>

\* what the peer does with a response
Sent(peer, v, resp) ==
    CASE resp.kind = "request" -> [peer EXCEPT !.str[v].req = resp.a, !.str[v].from = resp.b]
      [] resp.kind = "state_rsp" -> [peer EXCEPT !.str[v].phase =
                                       IF @ = "pending" THEN "active" ELSE "end"]
      [] OTHER -> peer

HasResponse(k, v) == k.streams[v] # 0 /\ k.st[k.streams[v]].readyQ # <<>>

\* getNextItem, under readyMutex: vbuckets in front that have nothing are popped
\* and their itemsReady is cleared
NextItem(c) ==
    LET k == con[c]
        n == Min({i \in 1 .. Len(k.ready) : HasResponse(k, k.ready[i])} \cup {Len(k.ready) + 1})
        idle == {k.streams[k.ready[i]] : i \in 1 .. n - 1} \ {0}
        q == [Rest(k) EXCEPT !.st = [o \in Opaques |->
                IF o \in idle THEN [@[o] EXCEPT !.items = FALSE] ELSE @[o]]]
    IN /\ At(c, "next")
       /\ IF n > Len(k.ready)
          THEN Proc(c, [q EXCEPT !.ready = <<>>, !.paused = TRUE])
          ELSE LET v == k.ready[n]
                   o == k.streams[v]
               IN Proc(c, WantMore([q EXCEPT
                    !.paused = FALSE, !.st[o].readyQ = Tail(@),
                    !.ready = Append(SubSeq(k.ready, n + 1, Len(k.ready)), v),
                    !.peer = Sent(@, v, Head(k.st[o].readyQ))]))
       /\ UNCHANGED <<vb, lock, admin, roll, aggr, env, limits>>

-----------------------------------------------------------------------------
(* Disconnecting, releasing and waking connections.                        *)

\* the socket is closed by the other side
Drop(c) ==
    /\ At(c, "idle") /\ env.drops > 0
    /\ env' = [env EXCEPT !.drops = @ - 1]
    /\ con' = [con EXCEPT ![c] = Close(@)]
    /\ UNCHANGED <<vb, lock, admin, roll, aggr, limits>>

\* disconnect_UNLOCKED under connsLock: cancelTask, then closeAllStreams with the
\* stream map locked
Disconnect(c) ==
    /\ At(c, "close") /\ lock.conns = Nobody
    /\ lock' = [lock EXCEPT !.conns = Worker(c)]
    /\ con' = [con EXCEPT ![c] = [Goto(@, "kill") EXCEPT !.disc = TRUE, !.cancelled = TRUE,
                                    !.map = Worker(c)]]
    /\ UNCHANGED <<vb, admin, roll, aggr, env, limits>>

KillStream(c) ==
    /\ At(c, "kill")
    /\ \E v \in VBs :
         LET o == con[c].streams[v]
         IN /\ o # 0 /\ con[c].st[o].held = Nobody
            /\ con' = [con EXCEPT ![c] = [SetDead(@, o) EXCEPT !.streams[v] = 0]]
    /\ UNCHANGED <<vb, lock, admin, roll, aggr, env, limits>>

Disconnected(c) ==
    /\ At(c, "kill") /\ \A v \in VBs : con[c].streams[v] = 0
    /\ con' = [con EXCEPT ![c] = [Rest(@) EXCEPT !.map = Nobody, !.life = "dead",
                                    !.io = FALSE, !.peer = NoPeer]]
    /\ lock' = [lock EXCEPT !.conns = Nobody]
    /\ UNCHANGED <<vb, admin, roll, aggr, env, limits>>


\* manageConnections: dead connections are released, the others signalled
ManageConnections ==
    LET wanted(k) == k.life = "open" /\ (k.paused \/ k.disc)
    IN /\ lock.conns = Nobody /\ limits.manager
       /\ \E c \in Conns : (wanted(con[c]) /\ ~con[c].io) \/ con[c].life = "dead"
       /\ con' = [c \in Conns |->
            IF con[c].life = "dead" THEN [con[c] EXCEPT !.life = "released"]
            ELSE IF wanted(con[c]) THEN [con[c] EXCEPT !.io = TRUE] ELSE con[c]]
       /\ UNCHANGED <<vb, lock, admin, roll, aggr, env, limits>>

\* ConnNotifier: notifyAllPausedConnections
NotifyAllPaused(c) ==
    LET k == [con[c] EXCEPT !.sched = FALSE]
    IN /\ con[c].sched
       /\ Proc(c, IF k.paused /\ k.life = "open" THEN [k EXCEPT !.io = TRUE] ELSE k)
       /\ UNCHANGED <<vb, lock, admin, roll, aggr, env, limits>>

\* the last reference goes: handleDisconnect of the flow control policy
Destroy(c) ==
    LET others == Existing \ {c}
        size == Bounded(limits.quota \div Cardinality(others))
    IN /\ con[c].life = "released" /\ ~con[c].sched
       /\ con[c].p.pc = "ended" /\ roll.conn # Worker(c)
       /\ con' = [d \in Conns |->
            IF d = c THEN [NoConn EXCEPT !.life = "gone"]
            ELSE IF d \in others /\ limits.policy = "aggressive" THEN Resize(con[d], size)
            ELSE con[d]]
       /\ aggr' = IF limits.policy = "dynamic" THEN aggr - con[c].size ELSE aggr
       /\ UNCHANGED <<vb, lock, admin, roll, env, limits>>

-----------------------------------------------------------------------------
(* The answer to a stream request, and RollbackTask.                       *)

\* acceptStream
AcceptStream(k, o, ok) ==
    NotifyStream(PushToReadyQ([k EXCEPT !.st[o].state = IF ok THEN "reading" ELSE "dead"],
                              o, Msg("added", 0, 0)), o)

\* streamAccepted: only a stream that is pending cares
StreamAccepted(k, opaque, ok) ==
    LET q == [k EXCEPT !.omap[opaque] = NoVB]
    IN IF k.st[opaque].state # "pending" THEN q ELSE AcceptStream(q, opaque, ok)

\* handleResponse: an opaque that is not the stream's is ignored
HandleResponse(c, v, opaque, status, peer) ==
    LET k == [con[c] EXCEPT !.peer = peer]
        valid == k.omap[opaque] = v /\ k.streams[v] = opaque
    IN /\ con' = [con EXCEPT ![c] =
            IF k.disc THEN Close(k)
            ELSE IF ~valid \/ status = "rollback" THEN k
            ELSE StreamAccepted(k, opaque, status = "success")]
       /\ roll' = IF status = "rollback" /\ valid /\ ~k.disc
                  THEN [pc |-> "ready", conn |-> Worker(c), sid |-> opaque, vb |-> v,
                        to |-> vb[v].high - 1]
                  ELSE roll

\* RollbackTask::run and EventuallyPersistentStore::rollback
Rollback(c) ==
    /\ roll.pc = "ready" /\ roll.conn = Worker(c)
    /\ IF con[c].disc THEN roll' = NoRollback /\ UNCHANGED vb
       ELSE /\ roll' = [roll EXCEPT !.pc = "reconnect"]
            /\ vb' = [vb EXCEPT ![roll.vb].high = Min({@, roll.to})]
    /\ UNCHANGED <<con, lock, admin, aggr, env, limits>>

\* doRollback: whatever stream the map has is reconnected, with the task's opaque
Reconnect(c) ==
    LET o == con[c].streams[roll.vb]
        high == vb[roll.vb].high
    IN /\ roll.pc = "reconnect" /\ roll.conn = Worker(c) /\ con[c].map = Nobody
       /\ con' = IF o = 0 THEN con
                 ELSE [con EXCEPT ![c] =
                         [PushToReadyQ(@, o, Msg("request", roll.sid, high)) EXCEPT
                            !.st[o].last = high]]
       /\ roll' = IF o = 0 THEN NoRollback ELSE [roll EXCEPT !.pc = "notify", !.sid = o]
       /\ UNCHANGED <<vb, lock, admin, aggr, env, limits>>

NotifyFromRollback(c) ==
    /\ roll.pc = "notify" /\ roll.conn = Worker(c)
    /\ con' = [con EXCEPT ![c] = NotifyStream(@, roll.sid)]
    /\ roll' = NoRollback
    /\ UNCHANGED <<vb, lock, admin, aggr, env, limits>>

-----------------------------------------------------------------------------
(* The cluster manager: setVBucketState without transfer (a failover, or   *)
(* back to replica) and deleteVBucket.  It deletes no vbucket that a       *)
(* stream is just being set up for.                                        *)

SettingUp(v) ==
    \/ roll.vb = v
    \/ \E c \in Open : con[c].w.vb = v \/ \E o \in Opaques : con[c].st[o].vb = v /\ con[c].st[o].state = "pending"

StateAfter(op, v) ==
    [vb[v] EXCEPT !.state = CASE op = "failover" -> "active" [] op = "demote" -> "replica"
                              [] OTHER -> @]

AdminBegin(op, v) ==
    /\ admin.pc = "idle" /\ lock.vbset = Nobody /\ op \in env.admins /\ v \in limits.vbs
    /\ CASE op = "failover" -> vb[v].state \notin {"none", "active"}
         [] op = "demote" -> vb[v].state = "active"
         [] op = "delete" -> vb[v].state # "none" /\ ~SettingUp(v)
    /\ env' = [env EXCEPT !.admins = @ \ {op}]
    /\ lock' = [lock EXCEPT !.vbset = Manager]
    /\ admin' = [NoAdmin EXCEPT !.pc = "conns", !.op = op, !.vb = v]
    /\ vb' = [vb EXCEPT ![v] = StateAfter(op, v)]
    /\ UNCHANGED <<con, roll, aggr, limits>>

AdminConnsKeepsStreams ==
    /\ admin.pc = "conns" /\ lock.conns = Nobody
    /\ lock' = [lock EXCEPT !.conns = Manager]
    /\ admin' = [admin EXCEPT !.pc = "erase"]
    /\ UNCHANGED <<con, vb, roll, aggr, env, limits>>

\* DcpConnMap::vbucketStateChanged; demoting closes no inbound stream
AdminConns ==
    /\ admin.pc = "conns" /\ lock.conns = Nobody
    /\ lock' = [lock EXCEPT !.conns = Manager]
    /\ admin' = [admin EXCEPT !.pc = "erase",
                   !.todo = {c \in Open : admin.op # "demote" /\ con[c].streams[admin.vb] # 0}]
    /\ UNCHANGED <<con, vb, roll, aggr, env, limits>>

\* DcpConsumer::vbucketStateChanged: first the map, then the stream
AdminErase(c) ==
    LET o == con[c].streams[admin.vb]
    IN /\ admin.pc = "erase" /\ c \in admin.todo
       /\ con' = [con EXCEPT ![c].streams[admin.vb] = 0]
       /\ admin' = [admin EXCEPT !.todo = @ \ {c}, !.sid = o, !.conn = Worker(c),
                                 !.pc = IF o = 0 THEN "erase" ELSE "kill"]
       /\ UNCHANGED <<vb, lock, roll, aggr, env, limits>>

AdminKillUnpaid(c) ==
    LET s == con[c].st[admin.sid]
    IN /\ admin.pc = "kill" /\ admin.conn = Worker(c) /\ s.held = Nobody
       /\ con' = [con EXCEPT ![c] = SetDead(@, admin.sid)]
       /\ admin' = [admin EXCEPT !.pc = "erase", !.sid = 0, !.conn = Nobody]
       /\ UNCHANGED <<vb, lock, roll, aggr, env, limits>>

AdminKillErasedOnly(c) ==
    /\ admin.pc = "kill" /\ admin.conn = Worker(c)
    /\ admin' = [admin EXCEPT !.pc = "erase", !.sid = 0, !.conn = Nobody]
    /\ UNCHANGED <<con, vb, lock, roll, aggr, env, limits>>

AdminKill(c) ==
    LET s == con[c].st[admin.sid]
    IN /\ admin.pc = "kill" /\ admin.conn = Worker(c) /\ s.held = Nobody
       /\ con' = [con EXCEPT ![c] = FreeBytes(SetDead(@, admin.sid), Len(s.buf), TRUE)]
       /\ admin' = [admin EXCEPT !.pc = "erase", !.sid = 0, !.conn = Nobody]
       /\ UNCHANGED <<vb, lock, roll, aggr, env, limits>>

AdminEnd ==
    /\ admin.pc = "erase" /\ admin.todo = {}
    /\ lock' = [conns |-> Nobody, vbset |-> Nobody]
    /\ vb' = IF admin.op = "delete" THEN [vb EXCEPT ![admin.vb] = [state |-> "none", high |-> 0]]
             ELSE vb
    /\ admin' = NoAdmin
    /\ UNCHANGED <<con, roll, aggr, env, limits>>

-----------------------------------------------------------------------------
(* The peer and the load: external.                                        *)

MessageKinds == {"mutation", "deletion", "marker", "setvb", "end"}

Item(n) == Msg(IF n % 2 = 0 THEN "deletion" ELSE "mutation", n, 0)

\* the next message of a stream, and the stream after it
NextMessage(s) ==
    IF s.next > s.end /\ s.next <= limits.seqnos
    THEN LET end == Min({s.next + limits.snap - 1, limits.seqnos})
         IN {<<Msg("marker", s.next, end), [s EXCEPT !.end = end]>>}
    ELSE IF s.next <= limits.seqnos THEN {<<Item(s.next), [s EXCEPT !.next = @ + 1]>>}
    ELSE IF ~limits.takeover THEN {}
    ELSE CASE s.phase = "stream" -> {<<Msg("setvb", "pending", 0), [s EXCEPT !.phase = "pending"]>>}
           [] s.phase = "active" -> {<<Msg("setvb", "active", 0), [s EXCEPT !.phase = "wait"]>>}
           [] s.phase = "end" -> {<<Msg("end", 0, 0), [s EXCEPT !.phase = "done"]>>}
           [] OTHER -> {}

\* a message of one of the kinds reaches its handler
PeerSend(c, v, kinds) ==
    LET p == con[c].peer
    IN /\ At(c, "idle") /\ p.alive /\ p.out < p.size
       /\ p.str[v].phase \notin {"none", "done"}
       /\ \E m \in NextMessage(p.str[v]) :
            /\ m[1].kind \in kinds
            /\ Deliver(c, v, p.str[v].sid, m[1], [p EXCEPT !.out = @ + 1, !.str[v] = m[2]])
       /\ UNCHANGED <<vb, lock, admin, roll, aggr, env, limits>>

\* the handlers of DcpConsumer, which differ in what they pass on
Mutation(c, v) == PeerSend(c, v, {"mutation"})
Deletion(c, v) == PeerSend(c, v, {"deletion"})
SnapshotMarker(c, v) == PeerSend(c, v, {"marker"})
SetVBucketState(c, v) == PeerSend(c, v, {"setvb"})
StreamEnd(c, v) == PeerSend(c, v, {"end"})

\* the peer accepts a request, refuses it, or asks for a rollback
PeerAnswer(c, v) ==
    LET p == con[c].peer
        s == p.str[v]
        answered == [p EXCEPT !.str[v].req = 0, !.str[v].from = 0]
        streaming == [p EXCEPT !.str[v] = [NoSource EXCEPT !.sid = s.req, !.next = s.from + 1,
                                           !.end = s.from, !.phase = "stream"]]
    IN /\ At(c, "idle") /\ p.alive /\ s.req # 0
       /\ \/ HandleResponse(c, v, s.req, "success", streaming) /\ UNCHANGED env
          \/ /\ env.fails > 0 /\ HandleResponse(c, v, s.req, "error", answered)
             /\ env' = [env EXCEPT !.fails = @ - 1]
          \/ /\ env.rollbacks > 0 /\ vb[v].high > 0 /\ roll.pc = "none"
             /\ HandleResponse(c, v, s.req, "rollback", answered)
             /\ env' = [env EXCEPT !.rollbacks = @ - 1]
       /\ UNCHANGED <<vb, lock, admin, aggr, limits>>

\* the peer hangs; later its silence has lasted twice the no-op interval
PeerHangs(c) ==
    /\ con[c].life = "open" /\ con[c].peer.alive /\ limits.hangs
    /\ con' = [con EXCEPT ![c].peer.alive = FALSE]
    /\ UNCHANGED <<vb, lock, admin, roll, aggr, env, limits>>

SilenceNoticed(c) ==
    /\ con[c].life = "open" /\ ~con[c].peer.alive /\ ~con[c].silent
    /\ con' = [con EXCEPT ![c].silent = TRUE]
    /\ UNCHANGED <<vb, lock, admin, roll, aggr, env, limits>>

\* ReplicationThrottle::shouldProcess depends on memory and on the disk queue
ThrottleOn ==
    /\ ~env.throttled /\ env.toggles > 0
    /\ env' = [env EXCEPT !.throttled = TRUE, !.toggles = @ - 1]
    /\ UNCHANGED <<con, vb, lock, admin, roll, aggr, limits>>

ThrottleOff ==
    /\ env.throttled
    /\ env' = [env EXCEPT !.throttled = FALSE]
    /\ UNCHANGED <<con, vb, lock, admin, roll, aggr, limits>>

-----------------------------------------------------------------------------
Handlers(c) ==
    \/ InsertStream(c) \/ Recv(c) \/ Push(c) \/ SetNotified(c) \/ WakeProcesser(c)
    \/ SetState(c, "worker") \/ StateChanged(c, "worker") \/ NextItem(c)
    \/ Disconnect(c) \/ KillStream(c) \/ Disconnected(c)

ProcesserSteps(c) ==
    \/ Run(c) \/ RunLater(c) \/ Take(c) \/ Throttle(c) \/ Message(c) \/ NotifyFromProcesser(c)
    \/ SetState(c, "processer") \/ StateChanged(c, "processer")
    \/ Check(c) \/ Snooze(c) \/ Recheck(c)

RollbackSteps(c) == Rollback(c) \/ Reconnect(c) \/ NotifyFromRollback(c)

AdminSteps == AdminConns \/ AdminEnd \/ \E c \in Conns : AdminErase(c) \/ AdminKill(c)

Next ==
    \/ \E c \in Conns :
         \/ NewConsumer(c) \/ Step(c) \/ Drop(c) \/ NotifyAllPaused(c) \/ Destroy(c)
         \/ Handlers(c) \/ ProcesserSteps(c) \/ RollbackSteps(c)
         \/ PeerHangs(c) \/ SilenceNoticed(c)
         \/ \E v \in VBs : AddStream(c, v) \/ CloseStream(c, v) \/ PeerAnswer(c, v)
                         \/ Mutation(c, v) \/ Deletion(c, v) \/ SnapshotMarker(c, v)
                         \/ SetVBucketState(c, v) \/ StreamEnd(c, v)
    \/ ManageConnections \/ AdminSteps \/ ThrottleOn \/ ThrottleOff
    \/ \E op \in {"failover", "demote", "delete"}, v \in VBs : AdminBegin(op, v)

Spec == Init /\ [][Next]_vars

\* The executor runs tasks that are due and every mutex is released in time;
\* memcached steps a connection that wants it and, between steps, reads what has
\* arrived (hence strong fairness); the peer answers and sends; the throttle does
\* not last for ever.  Nothing makes a connection that is paused be stepped but
\* notifications and ConnManager.
Fairness ==
    /\ \A c \in Conns :
         /\ WF_vars(limits.live /\ Step(c))
         /\ WF_vars(limits.live /\ Handlers(c))
         /\ WF_vars(limits.live /\ ProcesserSteps(c))
         /\ WF_vars(limits.live /\ (NotifyAllPaused(c) \/ Destroy(c)))
         /\ WF_vars(limits.live /\ SilenceNoticed(c))
         /\ SF_vars(limits.live /\ \E v \in VBs : PeerSend(c, v, MessageKinds) \/ PeerAnswer(c, v))
    /\ WF_vars(limits.live /\ ManageConnections)
    /\ WF_vars(limits.live /\ ThrottleOff)

LiveSpec == Spec /\ Fairness

-----------------------------------------------------------------------------
States == {"none", "replica", "pending", "active"}
WorkerSteps == {"idle", "add", "recv", "push", "cas", "wake", "setvb", "changed", "next",
                "close", "kill"}
ProcSteps == {"idle", "take", "throttle", "message", "notify", "setvb", "changed",
              "check", "snooze", "recheck", "ended"}

(* The type invariant: every flag, queue and counter of the connection has *)
(* its type, the queues of ready vbuckets hold vbuckets and vbReady holds  *)
(* none twice.                                                             *)
TypeOK ==
    /\ \A c \in Conns :
         /\ con[c].life \in {"new", "open", "dead", "released", "gone"}
         /\ con[c].disc \in BOOLEAN /\ con[c].paused \in BOOLEAN /\ con[c].notified \in BOOLEAN
         /\ con[c].opq \in 0 .. MaxOpaque /\ con[c].freed \in Nat /\ con[c].peer.out \in Nat
         /\ con[c].streams \in [VBs -> 0 .. MaxOpaque]
         /\ con[c].ready \in Seq(VBs) /\ con[c].vbReady \in Seq(VBs)
         /\ Cardinality(ToSet(con[c].vbReady)) = Len(con[c].vbReady)
         /\ con[c].w.pc \in WorkerSteps
         /\ con[c].p.pc \in ProcSteps /\ con[c].p.wt \in {"due", "later", "never"}
    /\ \A v \in VBs : vb[v].state \in States /\ vb[v].high \in 0 .. limits.seqnos
    /\ roll.pc \in {"none", "ready", "reconnect", "notify"}
    /\ admin.pc \in {"idle", "conns", "erase", "kill"}
    /\ aggr \in Nat

(* Flow control loses and invents no byte: what the producer counts as     *)
(* outstanding is buffered in some stream, freed but not yet acknowledged, *)
(* or in the hands of the thread that is processing it, whatever was       *)
(* closed, killed or failed on the way (incrFreedBytes, clearBuffer,       *)
(* processBufferedMessages).  A byte lost here shrinks the window for ever.*)
FlowAccounted ==
    \A c \in Open :
      LET k == con[c]
          inHand == IF k.w.pc \in {"recv", "setvb", "changed"} THEN 1 ELSE 0
      IN ~k.disc =>
           k.peer.out = MapThenSumSet(LAMBDA o : Len(k.st[o].buf), Opaques)
                          + k.freed + k.p.bytes + inHand

(* A vbucket has at most one active passive stream over all connections,   *)
(* though connections of one name overlap while one replaces the other     *)
(* (addPassiveStream and isPassiveStreamConnected_UNLOCKED).               *)
OneActiveStream ==
    \A v \in VBs : \A c, d \in Open :
        IsActive(con[c], con[c].streams[v]) /\ IsActive(con[d], con[d].streams[v]) => c = d

(* What is buffered for a vbucket is processed: its vbucket is in vbReady, *)
(* or is being put there, or the Processer is at it; and the Processer     *)
(* does not sleep for ever on a vbReady that is not empty                  *)
(* (notifyVbucketReady against the end of Processer::run).                 *)
BufferedNotForgotten ==
    \A c \in Open :
      LET k == con[c]
      IN ~k.disc =>
           /\ \A v \in VBs :
                k.streams[v] # 0 /\ k.st[k.streams[v]].buf # <<>> =>
                  \/ v \in ToSet(k.vbReady)
                  \/ k.w.pc = "push" /\ k.w.vb = v
                  \/ k.p.sid = k.streams[v] /\ k.p.pc \in {"throttle", "message", "notify", "setvb",
                                                         "changed"}
           /\ k.vbReady # <<>> /\ k.p.pc = "idle" /\ k.p.wt = "never" =>
                k.w.pc \in {"cas", "wake"}

(* A response that a stream has queued is sent: its vbucket is in the      *)
(* ready list or about to be put there by the thread that queued it, and   *)
(* then memcached is going to call step (itemsReady and paused against     *)
(* getNextItem).                                                           *)
ResponseNotForgotten ==
    \A c \in Open, v \in VBs :
      LET k == con[c]
          o == k.streams[v]
      IN ~k.disc /\ HasResponse(k, v) =>
           /\ \/ v \in ToSet(k.ready)
              \/ k.p.pc = "notify" /\ k.p.sid = o
              \/ roll.pc = "notify" /\ roll.conn = Worker(c) /\ roll.sid = o
           /\ v \in ToSet(k.ready) /\ k.w.pc = "idle" => k.io \/ k.sched

(* Both ends agree on the size of the flow control buffer unless a control *)
(* message is still to be sent; connections share the quota of the         *)
(* aggressive policy evenly, and the dynamic policy's aggregate is the sum *)
(* of the buffers that exist (newConsumerConn, handleDisconnect).          *)
BufferSizeAgreed ==
    /\ \A c \in Open : con[c].pendingControl \/ con[c].peer.size = con[c].size
    /\ limits.policy = "aggressive" =>
         \A c \in Existing : con[c].size = Bounded(limits.quota \div Cardinality(Existing))
    /\ limits.policy = "dynamic" => aggr = MapThenSumSet(LAMBDA c : con[c].size, Existing)

(* A snapshot is acknowledged only when all of it has been applied, so     *)
(* that a takeover that waits for the acknowledgement can rely on it       *)
(* (handleSnapshotEnd; no rollback or deletion intervenes).                *)
AckedIsApplied ==
    limits.rollbacks = 0 /\ "delete" \notin limits.admins =>
      \A c \in Open, v \in VBs : con[c].streams[v] # 0 =>
        \A r \in ToSet(con[c].st[con[c].streams[v]].readyQ) :
            r.kind = "marker_rsp" => r.a <= vb[v].high

(* A vbucket that is taken over becomes active only after everything that  *)
(* the producer sent before has been applied, also if part of it was       *)
(* buffered (messageReceived processes nothing while the buffer is not     *)
(* empty).                                                                 *)
HandoverAfterEverything ==
    limits.takeover => \A v \in VBs : vb[v].state = "active" => vb[v].high = limits.seqnos

(* After a failover no passive stream of the vbucket is left, though one   *)
(* was being added at the same time: setVBucketState changes the state     *)
(* before it closes the streams, and addStream checks the state under      *)
(* connsLock.                                                              *)
NoStreamIntoFailedOver ==
    ~limits.takeover =>
      \A v \in VBs : vb[v].state = "active" /\ admin.pc = "idle" => ~StreamPresent(v)

(* Mutations are applied in the producer's order, each once: the high      *)
(* seqno only grows by one, but for a rollback and a deletion.             *)
AppliedInOrder ==
    [][\A v \in VBs :
         \/ vb'[v].high \in {vb[v].high, vb[v].high + 1}
         \/ roll.pc = "ready" /\ roll.vb = v
         \/ vb'[v].state = "none"]_vars

(* Nothing is applied to a vbucket after its failover has ended: neither a *)
(* handler that had found the stream before nor the Processer with the     *)
(* stream in hand (setDead under bufMutex).                                *)
FailedOverUntouched ==
    [][\A v \in VBs :
         vb[v].state = "active" /\ vb'[v].state = "active" /\ admin.pc = "idle" /\ ~limits.takeover
           => vb'[v].high = vb[v].high]_vars

(* Once the stream is accepted, everything the producer has arrives,       *)
(* through throttling, failures and a flow control buffer that fills up.   *)
EverythingApplied ==
    \A c \in Conns, v \in VBs :
      (limits.live /\ ~limits.hangs /\ con[c].streams[v] # 0
         /\ con[c].st[con[c].streams[v]].state = "reading")
        ~> (vb[v].high = limits.seqnos)

=============================================================================
