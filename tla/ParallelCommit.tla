--------------------------- MODULE ParallelCommit ---------------------------
(***************************************************************************)
(* Parallel replication in commit order (sql/rpl_parallel.cc), the waits   *)
(* of one commit for another (wait_for_commit in sql/sql_class.cc) and     *)
(* their part in binlog group commit (queue_for_group_commit and the       *)
(* wake-ups of the leader in sql/log.cc).                                  *)
(*                                                                         *)
(* Event group t of a replication domain is applied by its own worker and  *)
(* must commit after event group t-1.  It may be killed, by a user or      *)
(* because an earlier event group needs its row locks, and is then rolled  *)
(* back or retried.  What the leader does between taking the queue and     *)
(* running commit_ordered is the subject of BinlogCommit; here a group is  *)
(* written in one step.                                                    *)
(***************************************************************************)
EXTENDS Integers, Sequences, FiniteSets, SequencesExt, FiniteSetsExt

CONSTANTS
  N,          \* event groups 1 .. N, in the order of the master
  Batch,      \* Batch[t]: which group_commit_orderer event group t belongs to
  TempTable,  \* event groups that use temporary tables
  MayFail,    \* event groups whose write to the binary log may fail
  MaxRetry,   \* slave_transaction_retries
  MaxKill,    \* bound: kills
  LateKill    \* kills also hit a commit that does not wait for its predecessor

Trx == 1 .. N
None == 0

ASSUME ParallelConstants ==
  /\ N \in Nat /\ MaxRetry \in Nat /\ MaxKill \in Nat
  /\ Batch \in [Trx -> Nat] /\ \A t \in 2 .. N : Batch[t - 1] <= Batch[t]
  /\ TempTable \subseteq Trx /\ MayFail \subseteq Trx /\ LateKill \in BOOLEAN

VARIABLES
  pc,
  \* wait_for_commit of each event group
  waitee,       \* whom it waits for, or None
  subsequent,   \* subsequent_commits_list: who waits for it, newest first
  ready,        \* opaque_pointer is set
  started,      \* commit_started
  waking,       \* wakeup_subsequent_commits_running
  wakeupError,
  wakeList,     \* whom a thread in wakeup_subsequent_commits2 has yet to wake
  \* group commit
  queuedByOther, error,
  queue, group, todo,
  lockPrepare, lockLog, lockOrdered,
  log,          \* event groups written to the binary log
  \* the workers
  killed, kills, retries,
  workerError,
  marked,               \* did_mark_start_commit
  committing,           \* count_committing_event_groups
  lastCommitted,        \* last_committed_sub_id
  stopOnError,          \* stop_on_error_sub_id
  blocked               \* wakeup_blocked of the wait_for_commit

wfc == <<waitee, subsequent, ready, started, waking, wakeupError, wakeList>>
locks == <<lockPrepare, lockLog, lockOrdered>>
commit == <<queuedByOther, error, queue, group, todo, log>>
worker == <<killed, kills, retries, workerError, marked, committing>>
entry == <<lastCommitted, stopOnError, blocked>>
vars == <<pc, wfc, commit, locks, worker, entry>>

Never == N + 1   \* ULONGLONG_MAX

Init ==
  /\ pc = [t \in Trx |-> "start"]
  /\ waitee = [t \in Trx |-> None] /\ subsequent = [t \in Trx |-> <<>>]
  /\ ready = [t \in Trx |-> FALSE] /\ started = [t \in Trx |-> FALSE]
  /\ waking = [t \in Trx |-> FALSE] /\ blocked = [t \in Trx |-> FALSE]
  /\ wakeupError = [t \in Trx |-> FALSE]
  /\ wakeList = [t \in Trx |-> <<>>]
  /\ queuedByOther = [t \in Trx |-> FALSE] /\ error = [t \in Trx |-> FALSE]
  /\ queue = <<>> /\ group = [t \in Trx |-> <<>>] /\ todo = <<>> /\ log = <<>>
  /\ lockPrepare = None /\ lockLog = None /\ lockOrdered = None
  /\ killed = [t \in Trx |-> "no"] /\ kills = 0
  /\ retries = [t \in Trx |-> 0]
  /\ workerError = [t \in Trx |-> FALSE] /\ marked = [t \in Trx |-> FALSE]
  /\ committing = 0
  /\ lastCommitted = 0 /\ stopOnError = Never

Set(f, t, value) == [f EXCEPT ![t] = value]
Goto(t, label) == pc' = Set(pc, t, label)

-----------------------------------------------------------------------------
(* wait_for_commit                                                         *)

\* Mutant of Leave: a waiter that gives up stays on the list.
LeaveOnList(t) == waitee' = Set(waitee, t, None) /\ UNCHANGED subsequent

\* remove_from_list, and the clearing of waitee after it
Leave(t) ==
  /\ subsequent' = Set(subsequent, waitee[t],
                       SelectSeq(subsequent[waitee[t]], LAMBDA u : u # t))
  /\ waitee' = Set(waitee, t, None)

\* register_wait_for_prior_event_group_commit, under LOCK_parallel_entry, with
\* register_wait_for_prior_commit: not on one that is already waking its waiters
Register(t) ==
  IF t - 1 > lastCommitted
  THEN /\ wakeupError' = Set(wakeupError, t, FALSE)
       /\ IF waking[t - 1]
          THEN UNCHANGED <<waitee, subsequent>>
          ELSE /\ waitee' = Set(waitee, t, t - 1)
               /\ subsequent' = Set(subsequent, t - 1, <<t>> \o subsequent[t - 1])
  ELSE UNCHANGED <<waitee, subsequent, wakeupError>>

\* unregister_wait_for_prior_commit; it waits while the waitee is waking us
Unregister(t) ==
  /\ wakeupError' = Set(wakeupError, t, FALSE)
  /\ IF waitee[t] = None
     THEN UNCHANGED <<waitee, subsequent>>
     ELSE ~waking[waitee[t]] /\ Leave(t)

\* where wait_for_prior_commit is called; in finish_event_group it ignores kills
KillableWait == {"after", "skip", "retryWait"}

-----------------------------------------------------------------------------
(* A worker up to its commit                                               *)

\* how many event groups have to start committing before t may start
WaitCount(t) == Cardinality({u \in Trx : Batch[u] < Batch[t]})

\* mark_start_commit and unmark_start_commit count an event group once
MarkStartCommit(t) ==
  IF marked[t] THEN UNCHANGED <<marked, committing>>
  ELSE marked' = Set(marked, t, TRUE) /\ committing' = committing + 1

UnmarkStartCommit(t) ==
  IF ~marked[t] THEN UNCHANGED <<marked, committing>>
  ELSE marked' = Set(marked, t, FALSE) /\ committing' = committing - 1

\* do_gco_wait, do_stop_handling and the registration under LOCK_parallel_entry
Start(t) ==
  /\ pc[t] = "start" /\ WaitCount(t) <= committing
  /\ Register(t)
  /\ workerError' = Set(workerError, t, workerError[t] \/ stopOnError <= t - 1)
  /\ Goto(t, IF workerError'[t] THEN "skip" ELSE "apply")
  /\ UNCHANGED <<ready, started, waking, wakeList, commit, locks, killed, kills,
                 retries, marked, committing, entry>>

\* a kill during do_gco_wait is an error, but the wait goes on
StartKilled(t) ==
  /\ pc[t] = "start" /\ WaitCount(t) > committing
  /\ killed[t] # "no" /\ ~workerError[t]
  /\ workerError' = Set(workerError, t, TRUE)
  /\ UNCHANGED <<pc, wfc, commit, locks, killed, kills, retries, marked, committing, entry>>

\* the events are applied up to the commit; then comes mark_start_commit, or, in
\* the first attempt at a group with temporary tables, the setting that keeps its
\* waiters asleep until the group has finished
Apply(t) ==
  /\ pc[t] = "apply" /\ killed[t] = "no" /\ Goto(t, "commit")
  /\ IF t \in TempTable /\ retries[t] = 0
     THEN blocked' = Set(blocked, t, TRUE) /\ UNCHANGED <<marked, committing>>
     ELSE MarkStartCommit(t) /\ UNCHANGED blocked
  /\ UNCHANGED <<wfc, commit, locks, killed, kills, retries, workerError,
                 lastCommitted, stopOnError>>

\* an event fails: on a kill, on a lock conflict, which is worth a retry, or for
\* good
ApplyError(t) ==
  /\ pc[t] = "apply"
  /\ \/ killed[t] # "no" /\ Goto(t, "rollback")
     \/ killed[t] = "no" /\ retries[t] < MaxRetry /\ Goto(t, "retry")
     \/ killed[t] = "no" /\ Goto(t, "failed")
  /\ UNCHANGED <<wfc, commit, locks, worker, entry>>

\* a kill that the commit notices before it queues
CommitKilled(t) ==
  /\ pc[t] = "commit" /\ killed[t] # "no" /\ Goto(t, "rollback")
  /\ UNCHANGED <<wfc, commit, locks, worker, entry>>

-----------------------------------------------------------------------------
(* queue_for_group_commit                                                  *)

\* the prior commit is awaited unless it is queued already.  LOCK_wait_commit of
\* t is held from here on until t sleeps
QueueCheck(t) ==
  /\ pc[t] = "commit" /\ (killed[t] = "no" \/ LateKill)
  /\ Goto(t, CASE waitee[t] # None /\ ~started[waitee[t]] -> "arm"
               [] waitee[t] = None /\ wakeupError[t] -> "rollback"
               [] OTHER -> "enqueue")
  /\ UNCHANGED <<wfc, commit, locks, worker, entry>>

Arm(t) ==
  /\ pc[t] = "arm" /\ Goto(t, "prior")
  /\ ready' = Set(ready, t, TRUE)
  /\ UNCHANGED <<waitee, subsequent, started, waking, wakeupError, wakeList,
                 commit, locks, worker, entry>>

\* Mutant of PriorDone: the error of the prior commit is not looked at.
PriorDoneErrorLost(t) ==
  /\ pc[t] = "prior" /\ waitee[t] = None
  /\ ready' = Set(ready, t, FALSE)
  /\ Goto(t, IF queuedByOther[t] THEN "after" ELSE "enqueue")
  /\ UNCHANGED <<waitee, subsequent, started, waking, wakeupError, wakeList,
                 commit, locks, worker, entry>>

\* woken: by the leader that has committed t, or by the prior commit
PriorDone(t) ==
  /\ pc[t] = "prior" /\ waitee[t] = None
  /\ ready' = Set(ready, t, FALSE)
  /\ Goto(t, CASE queuedByOther[t] -> "after"
               [] wakeupError[t] -> "rollback"
               [] OTHER -> "enqueue")
  /\ UNCHANGED <<waitee, subsequent, started, waking, wakeupError, wakeList,
                 commit, locks, worker, entry>>

\* Mutant of PriorKilled: a kill counts although another has queued t.
PriorKilledQueued(t) ==
  /\ pc[t] = "prior" /\ killed[t] # "no" /\ waitee[t] # None
  /\ ~waking[waitee[t]]
  /\ Leave(t)
  /\ ready' = Set(ready, t, FALSE)
  /\ wakeupError' = Set(wakeupError, t, TRUE)
  /\ Goto(t, "rollback")
  /\ UNCHANGED <<started, waking, wakeList, commit, locks, worker, entry>>

\* killed; ignored while the waitee wakes t, and once another has queued t
PriorKilled(t) ==
  /\ pc[t] = "prior" /\ killed[t] # "no" /\ waitee[t] # None
  /\ ~waking[waitee[t]] /\ ~queuedByOther[t]
  /\ Leave(t)
  /\ ready' = Set(ready, t, FALSE)
  /\ wakeupError' = Set(wakeupError, t, TRUE)
  /\ Goto(t, "rollback")
  /\ UNCHANGED <<started, waking, wakeList, commit, locks, worker, entry>>

Enqueue(t) ==
  /\ pc[t] = "enqueue" /\ lockPrepare = None
  /\ lockPrepare' = t /\ todo' = <<t>>
  /\ Goto(t, IF queue = <<>> THEN "grabAsLeader" ELSE "grab")
  /\ UNCHANGED <<wfc, queuedByOther, error, queue, group, log, lockLog,
                 lockOrdered, worker, entry>>

\* one round of the loop: the next entry starts its commit, takes along those
\* that are ready and wait for it, and joins the queue
Grab(t) ==
  /\ pc[t] \in {"grab", "grabAsLeader"}
  /\ LET cur == Head(todo)
         take == SelectSeq(subsequent[cur], LAMBDA u : ready[u])
         rest == Tail(todo) \o take
     IN  /\ started' = Set(started, cur, TRUE)
         /\ subsequent' = Set(subsequent, cur,
                              SelectSeq(subsequent[cur], LAMBDA u : ~ready[u]))
         /\ queuedByOther' = [u \in Trx |-> queuedByOther[u] \/ u \in Range(take)]
         /\ queue' = Append(queue, cur)
         /\ todo' = rest
         /\ IF rest # <<>> THEN UNCHANGED <<pc, lockPrepare>>
            ELSE /\ lockPrepare' = None
                 /\ Goto(t, IF pc[t] = "grab" THEN "follower" ELSE "leader")
  /\ UNCHANGED <<waitee, ready, waking, wakeupError, wakeList, error, group, log,
                 lockLog, lockOrdered, worker, entry>>

-----------------------------------------------------------------------------
(* The leader                                                              *)

WriteGroup(t) ==
  /\ pc[t] = "leader" /\ lockLog = None /\ lockPrepare = None
  /\ lockLog' = t /\ Goto(t, "written")
  /\ group' = Set(group, t, queue) /\ queue' = <<>>
  /\ \E failing \in SUBSET (MayFail \cap Range(queue)) :
       /\ log' = log \o SelectSeq(queue, LAMBDA e : e \notin failing)
       /\ error' = [e \in Trx |-> error[e] \/ e \in failing]
  /\ UNCHANGED <<wfc, queuedByOther, todo, lockPrepare, lockOrdered, worker,
                 entry>>

TakeCommitOrdered(t) ==
  /\ pc[t] = "written" /\ lockOrdered = None
  /\ lockOrdered' = t /\ lockLog' = None /\ Goto(t, "loop")
  /\ UNCHANGED <<wfc, commit, lockPrepare, worker, entry>>

\* wakeup_subsequent_commits2 of w by p takes the list of waiters
BeginWakeup(p, w) ==
  IF subsequent[w] = <<>> \/ blocked[w]
  THEN UNCHANGED <<waking, wakeList, subsequent>>
  ELSE /\ waking' = Set(waking, w, TRUE)
       /\ wakeList' = Set(wakeList, p, subsequent[w])
       /\ subsequent' = Set(subsequent, w, <<>>)

LoopWakeup(t) ==
  /\ pc[t] = "loop" /\ BeginWakeup(t, Head(group[t])) /\ Goto(t, "loopWake")
  /\ UNCHANGED <<waitee, ready, started, wakeupError, commit, locks, worker,
                 entry>>

\* wakeup(e) of u takes its LOCK_wait_commit
Wakeup(u, e) ==
  /\ pc[u] # "arm"
  /\ waitee' = Set(waitee, u, None)
  /\ wakeupError' = Set(wakeupError, u, e)

\* on behalf of whom p wakes waiters, and what it tells them
WakesFor(p) == IF pc[p] = "finishWake" THEN p ELSE Head(group[p])
WakesWith(p) == IF pc[p] = "finishWake" THEN workerError[p] ELSE error[WakesFor(p)]

\* the walk of wakeup_subsequent_commits2 along the list it has taken
WakeNext(p) ==
  /\ wakeList[p] # <<>>
  /\ Wakeup(Head(wakeList[p]), WakesWith(p))
  /\ wakeList' = Set(wakeList, p, Tail(wakeList[p]))
  /\ UNCHANGED <<pc, subsequent, ready, started, waking, commit, locks, worker,
                 entry>>

\* p is in wakeup_subsequent_commits2
InWakeup(p) == pc[p] \in {"loopWake", "finishWake"} /\ waking[WakesFor(p)]

\* its end, with no mutex held: those woken may have gone on already
EndWakeup(p) ==
  /\ InWakeup(p) /\ wakeList[p] = <<>>
  /\ waking' = Set(waking, WakesFor(p), FALSE)
  /\ UNCHANGED <<pc, waitee, subsequent, ready, started, wakeupError, wakeList,
                 commit, locks, worker, entry>>

\* wake the thread of the entry, in the way it waits, and go on to the next
LoopNext(t) ==
  /\ pc[t] = "loopWake" /\ ~InWakeup(t)
  /\ LET cur == Head(group[t])
         rest == Tail(group[t])
     IN  /\ IF cur # t /\ queuedByOther[cur]
            THEN Wakeup(cur, error[cur])
            ELSE UNCHANGED <<waitee, wakeupError>>
         /\ pc' = [p \in Trx |->
                     CASE p = t -> IF rest = <<>> THEN "after" ELSE "loop"
                       [] p # t /\ p = cur /\ ~queuedByOther[cur] -> "after"
                       [] OTHER -> pc[p]]
         /\ group' = Set(group, t, rest)
         /\ lockOrdered' = IF rest = <<>> THEN None ELSE t
  /\ UNCHANGED <<subsequent, ready, started, waking, wakeList, queuedByOther,
                 error, queue, todo, log, lockPrepare, lockLog, worker, entry>>

-----------------------------------------------------------------------------
(* wait_for_prior_commit and what follows its return                       *)

Returned(t, err) ==
  CASE pc[t] = "after" -> IF err THEN "rollback" ELSE "finish"
    [] pc[t] = "skip" -> "failed"
    [] pc[t] = "retryWait" -> IF err THEN "retryError" ELSE "apply"

\* the end of write_transaction_with_group_commit does not wait after an error
\* of its own
AfterError(t) ==
  /\ pc[t] = "after" /\ error[t] /\ Goto(t, "failed")
  /\ UNCHANGED <<wfc, commit, locks, worker, entry>>

PriorCommitted(t) ==
  /\ pc[t] \in KillableWait /\ waitee[t] = None
  /\ pc[t] = "after" => ~error[t]
  /\ Goto(t, Returned(t, wakeupError[t]))
  /\ killed' = IF pc'[t] = "apply" THEN Set(killed, t, "no") ELSE killed
  /\ UNCHANGED <<wfc, commit, locks, kills, retries, workerError, marked, committing, entry>>

PriorWaitKilled(t) ==
  /\ pc[t] \in KillableWait /\ killed[t] # "no" /\ waitee[t] # None
  /\ pc[t] = "after" => ~error[t]
  /\ ~waking[waitee[t]]
  /\ Leave(t)
  /\ wakeupError' = Set(wakeupError, t, TRUE)
  /\ Goto(t, Returned(t, TRUE))
  /\ UNCHANGED <<ready, started, waking, wakeList, commit, locks, worker, entry>>

-----------------------------------------------------------------------------
(* Errors: retry_event_group, or a worker error                            *)

\* an error is temporary if it comes from a deadlock kill
Temporary(t) == killed[t] = "deadlock"

Rollback(t) ==
  /\ pc[t] = "rollback"
  /\ Goto(t, IF Temporary(t) /\ retries[t] < MaxRetry THEN "retry" ELSE "failed")
  /\ UNCHANGED <<wfc, commit, locks, worker, entry>>

Unmark(t) ==
  /\ pc[t] = "retry" /\ Goto(t, "unregister")
  /\ UnmarkStartCommit(t)
  /\ UNCHANGED <<wfc, commit, locks, killed, kills, retries, workerError, entry>>

\* the registration is given up, and the kill forgotten
Retry(t) ==
  /\ pc[t] = "unregister" /\ Unregister(t) /\ Goto(t, "reregister")
  /\ killed' = Set(killed, t, "no")
  /\ retries' = Set(retries, t, retries[t] + 1)
  /\ UNCHANGED <<ready, started, waking, wakeList, commit, locks, kills,
                 workerError, marked, committing, entry>>

\* under LOCK_parallel_entry: wait for the prior event group, or give up if an
\* earlier one has failed
Reregister(t) ==
  /\ pc[t] = "reregister"
  /\ IF t < stopOnError
     THEN Register(t) /\ Goto(t, "retryWait")
     ELSE UNCHANGED <<waitee, subsequent, wakeupError>> /\ Goto(t, "failed")
  /\ UNCHANGED <<ready, started, waking, wakeList, commit, locks, worker, entry>>

\* killed again while it waits to retry: the wait is repeated
RetryError(t) ==
  /\ pc[t] = "retryError"
  /\ IF Temporary(t)
     THEN /\ Unregister(t) /\ Goto(t, "reregister")
          /\ killed' = Set(killed, t, "no")
     ELSE /\ Goto(t, "failed")
          /\ UNCHANGED <<waitee, subsequent, wakeupError, killed>>
  /\ UNCHANGED <<ready, started, waking, wakeList, commit, locks, kills, retries,
                 workerError, marked, committing, entry>>

\* signal_error_to_sql_driver_thread, then finish_event_group unregisters
Failed(t) ==
  /\ pc[t] = "failed" /\ Unregister(t) /\ Goto(t, "failedWait")
  /\ workerError' = Set(workerError, t, TRUE)
  /\ killed' = Set(killed, t, "no")
  /\ UNCHANGED <<ready, started, waking, wakeList, commit, locks, kills, retries,
                 marked, committing, entry>>

\* and registers again
FailedWait(t) ==
  /\ pc[t] = "failedWait" /\ Register(t) /\ Goto(t, "finish")
  /\ UNCHANGED <<ready, started, waking, wakeList, commit, locks, worker, entry>>

-----------------------------------------------------------------------------
(* finish_event_group                                                      *)

\* Mutant of Finish: an event group that has not started to commit is not
\* counted at its end.
FinishUnmarked(t) ==
  /\ pc[t] = "finish" /\ waitee[t] = None /\ Goto(t, "finished")
  /\ workerError' = Set(workerError, t, workerError[t] \/ wakeupError[t])
  /\ blocked' = Set(blocked, t, FALSE)
  /\ lastCommitted' = Max({lastCommitted, t})
  /\ stopOnError' = IF workerError'[t] THEN Min({stopOnError, t}) ELSE stopOnError
  /\ UNCHANGED <<wfc, commit, locks, killed, kills, retries, marked, committing>>

\* the wait that ignores kills, and LOCK_parallel_entry
Finish(t) ==
  /\ pc[t] = "finish" /\ waitee[t] = None /\ Goto(t, "finished")
  /\ workerError' = Set(workerError, t, workerError[t] \/ wakeupError[t])
  /\ MarkStartCommit(t)
  /\ blocked' = Set(blocked, t, FALSE)
  /\ lastCommitted' = Max({lastCommitted, t})
  /\ stopOnError' = IF workerError'[t] THEN Min({stopOnError, t}) ELSE stopOnError
  /\ UNCHANGED <<wfc, commit, locks, killed, kills, retries>>

FinishWakeup(t) ==
  /\ pc[t] = "finished" /\ BeginWakeup(t, t) /\ Goto(t, "finishWake")
  /\ killed' = Set(killed, t, "no")
  /\ UNCHANGED <<waitee, ready, started, wakeupError, commit, locks, kills,
                 retries, workerError, marked, committing, entry>>

Done(t) ==
  /\ pc[t] = "finishWake" /\ ~InWakeup(t) /\ Goto(t, "done")
  /\ UNCHANGED <<wfc, commit, locks, worker, entry>>

\* from queue_for_group_commit, after its wait for the prior commit, to the end of
\* write_transaction_with_group_commit
InCommit == {"enqueue", "grab", "grabAsLeader", "leader", "follower",
             "written", "loop", "loopWake", "after"}

\* a KILL by a user, or of the event group that holds a lock an earlier one needs
Kill(t) ==
  /\ kills < MaxKill /\ killed[t] = "no"
  /\ pc[t] \notin {"finished", "finishWake", "done"}
  /\ LateKill \/ pc[t] \notin InCommit
  /\ \E k \in {"deadlock", "user"} : killed' = Set(killed, t, k)
  /\ kills' = kills + 1
  /\ UNCHANGED <<pc, wfc, commit, locks, retries, workerError, marked, committing, entry>>

-----------------------------------------------------------------------------
\* what a worker does next
Step(t) ==
  \/ Start(t) \/ StartKilled(t) \/ Apply(t) \/ ApplyError(t)
  \/ CommitKilled(t) \/ QueueCheck(t) \/ Arm(t) \/ PriorDone(t) \/ PriorKilled(t)
  \/ Enqueue(t) \/ Grab(t)
  \/ WriteGroup(t) \/ TakeCommitOrdered(t) \/ LoopWakeup(t) \/ WakeNext(t)
  \/ EndWakeup(t) \/ LoopNext(t)
  \/ AfterError(t) \/ PriorCommitted(t) \/ PriorWaitKilled(t)
  \/ Rollback(t) \/ Unmark(t) \/ Retry(t) \/ Reregister(t) \/ RetryError(t)
  \/ Failed(t) \/ FailedWait(t) \/ Finish(t) \/ FinishWakeup(t) \/ Done(t)

Next == \E t \in Trx : Step(t) \/ Kill(t)

Spec == Init /\ [][Next]_vars

Fairness == \A t \in Trx : WF_vars(Step(t))
FairSpec == Spec /\ Fairness

-----------------------------------------------------------------------------
(* Properties                                                              *)

\* The binary log holds the event groups in the order of the master, none twice,
\* and without a gap but for those whose own write failed: no kill, retry, lock
\* conflict or error while an event group is applied lets a later one pass it.
CommitOrder ==
  /\ \A i, j \in DOMAIN log : i < j => log[i] < log[j]
  /\ \A t \in Range(log) : \A u \in 1 .. t - 1 : u \in Range(log) \/ error[u]

\* t has been reported as rolled back by ha_commit_trans, and retry_event_group or
\* the error handling of the worker treats it as not done
RolledBack(t) == \/ pc[t] \in {"rollback", "retry", "unregister", "failed"}
                 \/ pc[t] \in {"finished", "done"} /\ workerError[t]

\* An event group reported as rolled back is not in the binary log.  This does
\* not hold (README.md, Findings).
RolledBackNotLogged == \A t \in Trx : RolledBack(t) => t \notin Range(log)

\* What a worker reports is what is in the binary log: an event group with an
\* error is not there, unless one before it could not be written, and one that
\* finishes without an error is.  This is for kills that come before the wait of
\* queue_for_group_commit for the prior commit ends (~LateKill).
OutcomeIsReported ==
  \A t \in Trx :
    /\ RolledBack(t) /\ t \in Range(log) => \E u \in 1 .. t - 1 : error[u]
    /\ pc[t] \in {"finished", "done"} /\ ~workerError[t] => t \in Range(log)

\* u is among those a leader has yet to commit
Queued(u) ==
  u \in Range(todo) \cup Range(queue) \cup UNION {Range(group[p]) : p \in Trx}

\* where someone will find u to wake it, on whose behalf, and how often
Listed(u) ==
  LET places(kind, list, t) == {<<kind, t, i>> : i \in {k \in DOMAIN list : list[k] = u}}
  IN  UNION {places("subsequent", subsequent[t], t) : t \in Trx}
        \cup UNION {places("wakeList", wakeList[p], WakesFor(p)) :
                      p \in {v \in Trx : wakeList[v] # <<>>}}
        \cup {<<"group", t, 1>> : t \in {v \in {waitee[u]} : queuedByOther[u] /\ Queued(u)}}

\* A waiter is in exactly one place where someone will find it to wake it: the
\* list of the one it waits for, the list of a wake-up that is running for that
\* one, or the commit group it was taken into.  In particular no kill, retry or
\* second registration leaves a waiter on the list of one it no longer waits for
\* (sql_class.h keeps the lists by hand, in the objects of other threads).
WaiterIsListed ==
  \A u \in Trx :
    IF waitee[u] = None THEN Listed(u) = {}
    ELSE /\ Cardinality(Listed(u)) = 1
         /\ \A place \in Listed(u) :
              /\ place[2] = waitee[u]
              /\ place[1] = "wakeList" <=> waking[waitee[u]]

\* Every worker comes to the end of its event group: neither the order of the
\* commits, nor the batches, nor a kill or a retry leaves one waiting for ever.
EveryoneFinishes == <>(\A t \in Trx : pc[t] = "done")

=============================================================================
