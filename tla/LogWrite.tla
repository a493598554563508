------------------------------ MODULE LogWrite ------------------------------
(***************************************************************************)
(* How InnoDB makes the redo log durable (storage/innobase/log/log0log.cc):*)
(* log_write_up_to(), which every commit goes through, and the operations  *)
(* that stop all log writing, log_write_and_flush() and the latching of    *)
(* log resizing.  It composes two instances of GroupCommitLock, flush_lock *)
(* and write_lock; the thread_local_waiter and the locals of a lock call   *)
(* are shared by both, since a thread is inside one of them at a time.     *)
(*                                                                         *)
(* An LSN is a count of log records.  A crash at any moment leaves a log   *)
(* that ends between disk_durable (what completed fsyncs cover) and        *)
(* disk_written, and the server starts again from any such LSN (Init).     *)
(***************************************************************************)
EXTENDS Integers, Sequences, FiniteSets

CONSTANTS
    Thread, NoThread, Callback, NoCallback, DummyCallback, CallbackSlots,
    DurableCallback,  \* the callbacks passed to a durable log_write_up_to()
    Modes,            \* the kinds of log_write_up_to() calls: "flush" (durable), "write"
    MaxLsn,           \* bound on the log
    MaxStart,         \* bound on the LSN at which recovery ended
    MaxStops          \* bound on the number of log_write_and_flush() and resize operations

ASSUME LogConstants ==
    /\ NoThread \notin Thread
    /\ NoCallback # DummyCallback
    /\ NoCallback \notin Callback /\ DummyCallback \notin Callback
    /\ DurableCallback \subseteq Callback
    /\ Modes \subseteq {"flush", "write"}
    /\ MaxLsn \in Nat /\ MaxStart \in 0..MaxLsn /\ MaxStops \in Nat

MaxValue == MaxLsn + 1

VARIABLES
    f_value, f_pending_value, f_lock, f_waiters_list, f_pending_callbacks, f_pc,
    w_value, w_pending_value, w_lock, w_waiters_list, w_pending_callbacks, w_pc,
    w_signalled, w_next, w_leader, num, callback,
    wakeup_list, callbacks, ret, ran, asked,
    log_lsn,              \* log_sys.get_lsn()
    latch,                \* the exclusive holder of log_sys.latch, or NoThread
    write_lsn, flushed_to_disk_lsn,
    disk_written, disk_durable,
    syncing,              \* what was in the file when the fsync in progress began
    op,                   \* the operation each thread executes
    lpc, lsn, cb,         \* its program counter and its variables lsn and callback
    target,               \* the LSN it is writing or flushing
    pending_write_lsn,    \* what write_lock.release() returned
    want,                 \* history: the LSN of the call, 0 if a callback was given
    stops

fLock == <<f_value, f_pending_value, f_lock, f_waiters_list, f_pending_callbacks>>
wLock == <<w_value, w_pending_value, w_lock, w_waiters_list, w_pending_callbacks>>
waiter == <<w_signalled, w_next, w_leader>>
locals == <<num, callback, wakeup_list, callbacks, ret>>
lockState == <<fLock, f_pc, wLock, w_pc, waiter, locals, ran, asked>>
disk == <<disk_written, disk_durable, syncing>>
logVars == <<log_lsn, latch, write_lsn, flushed_to_disk_lsn, disk>>
callVars == <<op, lsn, cb, target, pending_write_lsn, want>>
vars == <<lockState, logVars, callVars, lpc, stops>>

F == INSTANCE GroupCommitLock WITH
        m_value <- f_value, m_pending_value <- f_pending_value, m_lock <- f_lock,
        m_waiters_list <- f_waiters_list,
        m_pending_callbacks <- f_pending_callbacks, pc <- f_pc
W == INSTANCE GroupCommitLock WITH
        m_value <- w_value, m_pending_value <- w_pending_value, m_lock <- w_lock,
        m_waiters_list <- w_waiters_list,
        m_pending_callbacks <- w_pending_callbacks, pc <- w_pc

Lsn == 0..MaxLsn
MaxOf(a, b) == IF a >= b THEN a ELSE b

\* The idle state of every thread and of both locks at LSN n.
LocksAt(n) ==
    /\ f_value = n /\ f_pending_value = 0 /\ f_lock = FALSE
    /\ f_waiters_list = <<>> /\ f_pending_callbacks = {}
    /\ w_value = n /\ w_pending_value = 0 /\ w_lock = FALSE
    /\ w_waiters_list = <<>> /\ w_pending_callbacks = {}
    /\ f_pc = [t \in Thread |-> "idle"] /\ w_pc = [t \in Thread |-> "idle"]
    /\ w_signalled = [t \in Thread |-> FALSE]
    /\ w_next = [t \in Thread |-> NoThread]
    /\ w_leader = [t \in Thread |-> FALSE]
    /\ num = [t \in Thread |-> 0]
    /\ callback = [t \in Thread |-> NoCallback]
    /\ wakeup_list = [t \in Thread |-> NoThread]
    /\ callbacks = [t \in Thread |-> {}]
    /\ ret = [t \in Thread |-> 0]

\* Recovery ends in set_recovered_lsn(n) with the end n of the log that it
\* found: both locks, write_lsn and flushed_to_disk_lsn are at n, so that
\* log_write_up_to(n) is a no-op.
RecoveredAt(n) ==
    /\ LocksAt(n)
    /\ log_lsn = n /\ latch = NoThread
    /\ write_lsn = n /\ flushed_to_disk_lsn = n
    /\ disk_written = n /\ disk_durable = n /\ syncing = n
    /\ op = [t \in Thread |-> "none"]
    /\ lpc = [t \in Thread |-> "idle"]
    /\ lsn = [t \in Thread |-> 0]
    /\ cb = [t \in Thread |-> NoCallback]
    /\ target = [t \in Thread |-> 0]
    /\ pending_write_lsn = [t \in Thread |-> 0]
    /\ want = [t \in Thread |-> 0]

Init ==
    /\ \E n \in 0..MaxStart : RecoveredAt(n)
    /\ ran = [c \in Callback |-> 0] /\ asked = [c \in Callback |-> 0]
    /\ stops = 0

Goto(t, label) == lpc' = [lpc EXCEPT ![t] = label]

----------------------------------------------------------------------------
(* Log records are added by mini-transactions under the shared latch. *)
MtrCommit ==
    /\ latch = NoThread
    /\ log_lsn < MaxLsn
    /\ log_lsn' = log_lsn + 1
    /\ UNCHANGED <<lockState, latch, write_lsn, flushed_to_disk_lsn, disk,
                   callVars, lpc, stops>>

----------------------------------------------------------------------------
(* log_write_up_to(lsn, durable, callback) *)

Durable(t) == op[t] # "write"

\* A callback that no call has been given yet.
Fresh(d) == asked[d] = 0 /\ \A t \in Thread : cb[t] # d

\* The caller: commit waits for the log ("flush"), or only for the write
\* ("write", innodb_flush_log_at_trx_commit=2), or passes a callback.
StartWriteUpTo(t) ==
    /\ lpc[t] = "idle"
    /\ \E n \in 1..log_lsn, o \in Modes :
         \E c \in {NoCallback} \cup {d \in Callback : Fresh(d) /\ (d \in DurableCallback <=> o = "flush")} :
            /\ op' = [op EXCEPT ![t] = o]
            /\ lsn' = [lsn EXCEPT ![t] = n]
            /\ cb' = [cb EXCEPT ![t] = c]
            /\ want' = [want EXCEPT ![t] = IF c = NoCallback THEN n ELSE 0]
    /\ Goto(t, "repeat")
    /\ UNCHANGED <<lockState, logVars, target, pending_write_lsn, stops>>

\* The label repeat: enter flush_lock.acquire() or, if the write need not be
\* durable, write_lock.acquire().
Repeat(t) ==
    /\ lpc[t] = "repeat"
    /\ \/ /\ Durable(t)
          /\ F!Call(t, lsn[t], cb[t])
          /\ Goto(t, "flush_acquire")
          /\ UNCHANGED <<wLock, w_pc>>
       \/ /\ ~Durable(t)
          /\ W!Call(t, lsn[t], cb[t])
          /\ Goto(t, "write_acquire")
          /\ UNCHANGED <<fLock, f_pc>>
    /\ UNCHANGED <<logVars, callVars, stops>>

FlushNotAcquired(t) ==
    /\ lpc[t] = "flush_acquire" /\ Durable(t)
    /\ f_pc[t] \in {"EXPIRED", "CALLBACK_QUEUED"}
    /\ op[t] = "flush"
    /\ f_pc' = [f_pc EXCEPT ![t] = "idle"]
    /\ Goto(t, "returned")
    /\ UNCHANGED <<fLock, wLock, w_pc, waiter, locals, ran, asked, logVars, callVars, stops>>

\* flush_lock is held: promise lsn, then enter write_lock.acquire().
FlushAcquired(t) ==
    /\ lpc[t] = "flush_acquire" /\ op[t] = "flush"
    /\ f_pc[t] = "ACQUIRED"
    /\ IF lsn[t] > flushed_to_disk_lsn THEN F!SetPending(lsn[t]) ELSE UNCHANGED fLock
    /\ W!Call(t, lsn[t], NoCallback)
    /\ Goto(t, "write_acquire")
    /\ UNCHANGED <<f_pc, logVars, callVars, stops>>

WriteNotAcquired(t) ==
    /\ lpc[t] = "write_acquire" /\ op[t] \in {"flush", "write"}
    /\ w_pc[t] \in {"EXPIRED", "CALLBACK_QUEUED"}
    /\ w_pc' = [w_pc EXCEPT ![t] = "idle"]
    /\ pending_write_lsn' = [pending_write_lsn EXCEPT ![t] = 0]
    /\ Goto(t, IF Durable(t) THEN "flush" ELSE "returned")
    /\ UNCHANGED <<fLock, f_pc, wLock, waiter, locals, ran, asked, logVars,
                   op, lsn, cb, target, want, stops>>

\* Mutant of WriteBuf: only the caller's own LSN is announced.
WriteBufOwnLsn(t) ==
    /\ target' = [target EXCEPT ![t] = lsn[t]]
    /\ IF write_lsn >= log_lsn THEN UNCHANGED wLock /\ Goto(t, "write_release")
                               ELSE W!SetPending(log_lsn) /\ Goto(t, "write_file")

\* write_buf() up to the release of log_sys.latch: the whole buffer, up to the
\* current LSN, is going to be written.
WriteBuf(t) ==
    /\ target' = [target EXCEPT ![t] = log_lsn]
    /\ IF write_lsn >= log_lsn THEN UNCHANGED wLock /\ Goto(t, "write_release")
                               ELSE W!SetPending(log_lsn) /\ Goto(t, "write_file")

WriteAcquired(t) ==
    /\ lpc[t] = "write_acquire" /\ op[t] \in {"flush", "write"}
    /\ w_pc[t] = "ACQUIRED"
    /\ latch = NoThread
    /\ WriteBuf(t)
    /\ UNCHANGED <<fLock, f_pc, w_pc, waiter, locals, ran, asked, logVars,
                   op, lsn, cb, pending_write_lsn, want, stops>>

\* log_write_buf() and write_lsn= lsn
WriteFile(t) ==
    /\ lpc[t] = "write_file"
    /\ disk_written' = target[t]
    /\ write_lsn' = target[t]
    /\ Goto(t, "write_release")
    /\ UNCHANGED <<lockState, log_lsn, latch, flushed_to_disk_lsn, disk_durable, syncing,
                   callVars, stops>>

\* write_lock.release(lsn), or write_lock.release(write_lock.value()) at the
\* end of a resize.
WriteRelease(t) ==
    /\ lpc[t] = "write_release"
    /\ W!Release(t, target[t])
    /\ Goto(t, "write_releasing")
    /\ UNCHANGED <<fLock, f_pc, asked, logVars, callVars, stops>>

\* The test at the end of log_write_up_to(): when a release() reported
\* callbacks without a leader, repeat for them with the dummy callback.
Finish(t, pending_write, pending_flush) ==
    /\ IF pending_write # 0 \/ pending_flush # 0
       THEN /\ lsn' = [lsn EXCEPT ![t] = MaxOf(pending_write, pending_flush)]
            /\ cb' = [cb EXCEPT ![t] = DummyCallback]
            /\ Goto(t, "repeat")
       ELSE /\ UNCHANGED <<lsn, cb>>
            /\ Goto(t, "returned")
    /\ pending_write_lsn' = [pending_write_lsn EXCEPT ![t] = 0]

WriteReleased(t) ==
    /\ lpc[t] = "write_releasing" /\ op[t] \in {"flush", "write"}
    /\ w_pc[t] = "RELEASED"
    /\ w_pc' = [w_pc EXCEPT ![t] = "idle"]
    /\ \/ /\ Durable(t)
          /\ pending_write_lsn' = [pending_write_lsn EXCEPT ![t] = ret[t]]
          /\ Goto(t, "flush")
          /\ UNCHANGED <<lsn, cb>>
       \/ /\ ~Durable(t)
          /\ Finish(t, ret[t], 0)
    /\ UNCHANGED <<fLock, f_pc, wLock, waiter, locals, ran, asked, logVars,
                   op, target, want, stops>>

\* Mutant of FlushTo: what is being written is taken for what has been written.
FlushToPending(t, n) ==
    /\ target' = [target EXCEPT ![t] = MaxOf(n, w_pending_value)]
    /\ F!SetPending(MaxOf(n, w_pending_value))
    /\ syncing' = disk_written

\* log_flush(write_lock.value()): announce the LSN, begin the fsync.
FlushTo(t, n) ==
    /\ target' = [target EXCEPT ![t] = n]
    /\ F!SetPending(n)
    /\ syncing' = disk_written

Flush(t) ==
    /\ lpc[t] = "flush" /\ op[t] = "flush"
    /\ FlushTo(t, w_value)
    /\ Goto(t, "fsync")
    /\ UNCHANGED <<f_pc, wLock, w_pc, waiter, locals, ran, asked, log_lsn, latch, write_lsn,
                   flushed_to_disk_lsn, disk_written, disk_durable,
                   op, lsn, cb, pending_write_lsn, want, stops>>

Fsync(t) ==
    /\ lpc[t] = "fsync"
    /\ disk_durable' = MaxOf(disk_durable, syncing)
    /\ flushed_to_disk_lsn' = target[t]
    /\ Goto(t, "flush_release")
    /\ UNCHANGED <<lockState, log_lsn, latch, write_lsn, disk_written, syncing, callVars, stops>>

FlushRelease(t) ==
    /\ lpc[t] = "flush_release"
    /\ F!Release(t, target[t])
    /\ Goto(t, "flush_releasing")
    /\ UNCHANGED <<wLock, w_pc, asked, logVars, callVars, stops>>

FlushReleased(t) ==
    /\ lpc[t] = "flush_releasing" /\ op[t] = "flush"
    /\ f_pc[t] = "RELEASED"
    /\ f_pc' = [f_pc EXCEPT ![t] = "idle"]
    /\ Finish(t, pending_write_lsn[t], ret[t])
    /\ UNCHANGED <<fLock, wLock, w_pc, waiter, locals, ran, asked, logVars,
                   op, target, want, stops>>

\* The caller is back; the values of its locals no longer matter.
Returned(t) ==
    /\ lpc[t] = "returned"
    /\ Goto(t, "idle")
    /\ op' = [op EXCEPT ![t] = "none"]
    /\ lsn' = [lsn EXCEPT ![t] = 0]
    /\ cb' = [cb EXCEPT ![t] = NoCallback]
    /\ target' = [target EXCEPT ![t] = 0]
    /\ want' = [want EXCEPT ![t] = 0]
    /\ num' = [num EXCEPT ![t] = 0]
    /\ callback' = [callback EXCEPT ![t] = NoCallback]
    /\ ret' = [ret EXCEPT ![t] = 0]
    /\ UNCHANGED <<fLock, f_pc, wLock, w_pc, waiter, wakeup_list, callbacks, ran, asked,
                   logVars, pending_write_lsn, stops>>

----------------------------------------------------------------------------
(* The operations that stop log writing: a file operation or tablespace    *)
(* shrink (log_write_and_flush_prepare() ... log_write_and_flush()), and   *)
(* log resizing or a checkpoint (the same prepare, log_resize_release()).  *)

StartStop(t) ==
    /\ lpc[t] = "idle" /\ stops < MaxStops
    /\ \E o \in {"write_and_flush", "resize"} : op' = [op EXCEPT ![t] = o]
    /\ stops' = stops + 1
    /\ Goto(t, "stop_flush")
    /\ UNCHANGED <<lockState, logVars, lsn, cb, target, pending_write_lsn, want>>

\* while (flush_lock.acquire(log_get_lsn() + 1, nullptr) != ACQUIRED);
StopFlushLock(t) ==
    /\ lpc[t] = "stop_flush"
    /\ latch = NoThread
    /\ F!Call(t, log_lsn + 1, NoCallback)
    /\ Goto(t, "stop_flush_acquire")
    /\ UNCHANGED <<wLock, w_pc, logVars, callVars, stops>>

StopFlushResult(t) ==
    /\ lpc[t] = "stop_flush_acquire"
    /\ \/ /\ f_pc[t] = "ACQUIRED"
          /\ Goto(t, "stop_write")
          /\ UNCHANGED f_pc
       \/ /\ f_pc[t] = "EXPIRED"
          /\ Goto(t, "stop_flush")
          /\ f_pc' = [f_pc EXCEPT ![t] = "idle"]
    /\ UNCHANGED <<fLock, wLock, w_pc, waiter, locals, ran, asked, logVars, callVars, stops>>

\* while (write_lock.acquire(log_get_lsn() + 1, nullptr) != ACQUIRED);
StopWriteLock(t) ==
    /\ lpc[t] = "stop_write"
    /\ latch = NoThread
    /\ W!Call(t, log_lsn + 1, NoCallback)
    /\ Goto(t, "stop_write_acquire")
    /\ UNCHANGED <<fLock, f_pc, logVars, callVars, stops>>

StopWriteResult(t) ==
    /\ lpc[t] = "stop_write_acquire"
    /\ \/ /\ w_pc[t] = "ACQUIRED"
          /\ Goto(t, "stop_latch")
          /\ UNCHANGED w_pc
       \/ /\ w_pc[t] = "EXPIRED"
          /\ Goto(t, "stop_write")
          /\ w_pc' = [w_pc EXCEPT ![t] = "idle"]
    /\ UNCHANGED <<fLock, f_pc, wLock, waiter, locals, ran, asked, logVars, callVars, stops>>

StopLatch(t) ==
    /\ lpc[t] = "stop_latch"
    /\ latch = NoThread
    /\ latch' = t
    /\ Goto(t, "stopped")
    /\ UNCHANGED <<lockState, log_lsn, write_lsn, flushed_to_disk_lsn, disk, callVars, stops>>

\* Under the exclusive latch the file operation logs its record.
StopLog(t) ==
    /\ lpc[t] = "stopped" /\ op[t] = "write_and_flush"
    /\ log_lsn < MaxLsn
    /\ log_lsn' = log_lsn + 1
    /\ UNCHANGED <<lockState, latch, write_lsn, flushed_to_disk_lsn, disk, callVars, lpc, stops>>

\* log_write_and_flush(): write_buf<RETAIN_LATCH>() ...
StopWriteBuf(t) ==
    /\ lpc[t] = "stopped" /\ op[t] = "write_and_flush"
    /\ WriteBuf(t)
    /\ UNCHANGED <<fLock, f_pc, w_pc, waiter, locals, ran, asked, logVars,
                   op, lsn, cb, pending_write_lsn, want, stops>>

\* ... and log_flush(lsn), after write_lock.release(lsn), whose result is dropped.
StopFlush(t) ==
    /\ lpc[t] = "write_releasing" /\ op[t] = "write_and_flush"
    /\ w_pc[t] = "RELEASED"
    /\ w_pc' = [w_pc EXCEPT ![t] = "idle"]
    /\ FlushTo(t, target[t])
    /\ Goto(t, "fsync")
    /\ UNCHANGED <<f_pc, wLock, waiter, locals, ran, asked, log_lsn, latch, write_lsn,
                   flushed_to_disk_lsn, disk_written, disk_durable,
                   op, lsn, cb, pending_write_lsn, want, stops>>

\* The result of log_flush() is dropped too; the caller unlocks the latch.
StopFlushed(t) ==
    /\ lpc[t] = "flush_releasing" /\ op[t] = "write_and_flush"
    /\ f_pc[t] = "RELEASED"
    /\ f_pc' = [f_pc EXCEPT ![t] = "idle"]
    /\ latch' = NoThread
    /\ Goto(t, "returned")
    /\ UNCHANGED <<fLock, wLock, w_pc, waiter, locals, ran, asked, log_lsn, write_lsn,
                   flushed_to_disk_lsn, disk, callVars, stops>>

\* log_resize_release(): unlock the latch, then release write_lock and
\* flush_lock with the values they have.
ResizeRelease(t) ==
    /\ lpc[t] = "stopped" /\ op[t] = "resize"
    /\ latch' = NoThread
    /\ target' = [target EXCEPT ![t] = w_value]
    /\ Goto(t, "write_release")
    /\ UNCHANGED <<lockState, log_lsn, write_lsn, flushed_to_disk_lsn, disk,
                   op, lsn, cb, pending_write_lsn, want, stops>>

ResizeWriteReleased(t) ==
    /\ lpc[t] = "write_releasing" /\ op[t] = "resize"
    /\ w_pc[t] = "RELEASED"
    /\ w_pc' = [w_pc EXCEPT ![t] = "idle"]
    /\ pending_write_lsn' = [pending_write_lsn EXCEPT ![t] = ret[t]]
    /\ target' = [target EXCEPT ![t] = f_value]
    /\ Goto(t, "flush_release")
    /\ UNCHANGED <<fLock, f_pc, wLock, waiter, locals, ran, asked, logVars,
                   op, lsn, cb, want, stops>>

\* if (lsn1 || lsn2) log_write_up_to(std::max(lsn1, lsn2), true, nullptr)
ResizeFlushReleased(t) ==
    /\ lpc[t] = "flush_releasing" /\ op[t] = "resize"
    /\ f_pc[t] = "RELEASED"
    /\ f_pc' = [f_pc EXCEPT ![t] = "idle"]
    /\ IF pending_write_lsn[t] # 0 \/ ret[t] # 0
       THEN /\ op' = [op EXCEPT ![t] = "flush"]
            /\ lsn' = [lsn EXCEPT ![t] = MaxOf(pending_write_lsn[t], ret[t])]
            /\ Goto(t, "repeat")
       ELSE /\ UNCHANGED <<op, lsn>>
            /\ Goto(t, "returned")
    /\ pending_write_lsn' = [pending_write_lsn EXCEPT ![t] = 0]
    /\ UNCHANGED <<fLock, wLock, w_pc, waiter, locals, ran, asked, logVars,
                   cb, target, want, stops>>

----------------------------------------------------------------------------
\* The steps inside the calls of the two locks.
LockStep(t) ==
    \/ F!Step(t) /\ UNCHANGED <<wLock, w_pc, logVars, callVars, lpc, stops>>
    \/ W!Step(t) /\ UNCHANGED <<fLock, f_pc, logVars, callVars, lpc, stops>>

WriteUpToStep(t) ==
    \/ Repeat(t) \/ FlushNotAcquired(t) \/ FlushAcquired(t) \/ WriteNotAcquired(t)
    \/ WriteAcquired(t) \/ WriteFile(t) \/ WriteRelease(t) \/ WriteReleased(t)
    \/ Flush(t) \/ Fsync(t) \/ FlushRelease(t) \/ FlushReleased(t) \/ Returned(t)

StopStep(t) ==
    \/ StopFlushLock(t) \/ StopFlushResult(t) \/ StopWriteLock(t) \/ StopWriteResult(t)
    \/ StopLatch(t) \/ StopLog(t) \/ StopWriteBuf(t) \/ StopFlush(t) \/ StopFlushed(t)
    \/ ResizeRelease(t) \/ ResizeWriteReleased(t) \/ ResizeFlushReleased(t)

Progress(t) == LockStep(t) \/ WriteUpToStep(t) \/ StopStep(t)

Next ==
    \/ MtrCommit
    \/ \E t \in Thread : StartWriteUpTo(t) \/ StartStop(t) \/ Progress(t)

Spec == Init /\ [][Next]_vars

\* Every thread inside an operation keeps running: the operating system
\* schedules it, and m_mtx and log_sys.latch are held for bounded times.
Fairness == \A t \in Thread : WF_vars(Progress(t))

FairSpec == Spec /\ Fairness

----------------------------------------------------------------------------
(* Properties *)

\* What the server believes to be durable is: the LSN published in
\* flushed_to_disk_lsn, and hence flush_lock's value, is covered by a completed
\* fsync, although write_lock's value moves while the fsync runs.
FlushedIsDurable ==
    /\ f_value <= flushed_to_disk_lsn
    /\ flushed_to_disk_lsn <= disk_durable
    /\ disk_durable <= disk_written

\* When log_write_up_to() without a callback returns, the log is in the file up to
\* the LSN asked for and, if asked, a crash cannot lose it; and a commit is
\* acknowledged by its callback only when the same is true of its LSN.
AnsweredMeansWritten ==
    /\ \A t \in Thread :
          lpc[t] = "returned" /\ want[t] # 0
              => /\ want[t] <= disk_written
                 /\ op[t] = "flush" => want[t] <= disk_durable
    /\ \A c \in Callback :
          ran[c] > 0 => /\ asked[c] <= disk_written
                        /\ c \in DurableCallback => asked[c] <= disk_durable

\* The ut_a of release() and set_pending() hold at every call: no thread ever
\* releases a lock with, or promises, less than the lock's value.  And what
\* log_write_and_flush() may drop without a look, the results of its release()
\* calls, is 0: no callback is left without a leader while the latch is retained.
AssertionsHold ==
    \A t \in Thread :
        /\ lpc[t] = "write_release" => target[t] >= w_value
        /\ lpc[t] \in {"fsync", "flush_release"} => target[t] >= f_value
        /\ lpc[t] = "flush" => w_value >= f_value
        /\ lpc[t] = "flush_acquire" /\ f_pc[t] = "ACQUIRED" /\ op[t] = "flush"
             => lsn[t] <= flushed_to_disk_lsn \/ lsn[t] >= f_value
        /\ op[t] = "write_and_flush" /\ "RELEASED" \in {w_pc[t], f_pc[t]}
             => ret[t] = 0

\* If no thread inside an operation can take a step, then there is none, and
\* every callback has run: no set of calls leaves its members asleep waiting for
\* one another, or leaves a callback queued without a leader to run it.
NoStall ==
    (\A t \in Thread : ~ENABLED Progress(t))
        => /\ \A t \in Thread : lpc[t] = "idle"
           /\ \A c \in Callback : asked[c] # 0 => ran[c] = 1

\* Every call returns: no thread is left asleep on either lock.
CallReturns == \A t \in Thread : lpc[t] # "idle" ~> lpc[t] = "idle"

\* Every commit callback given to log_write_up_to() runs, even when nobody
\* calls log_write_up_to() again.
CallbackRuns == \A c \in Callback : asked[c] # 0 ~> ran[c] # 0
=============================================================================
