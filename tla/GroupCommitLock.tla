-------------------------- MODULE GroupCommitLock --------------------------
(***************************************************************************)
(* InnoDB's group_commit_lock (storage/innobase/log/log0sync.cc): a lock   *)
(* that carries a growing number.  acquire(num) returns EXPIRED as soon as *)
(* the number has reached num, or ACQUIRED to the thread that must do the  *)
(* work itself, or CALLBACK_QUEUED when the thread left a callback behind. *)
(*                                                                         *)
(* A critical section of m_mtx is one step.  The unlocked loads of m_value *)
(* and m_pending_value, the futex-based semaphore and every wake-up after  *)
(* the unlock in release() are steps of their own.  The result of a call   *)
(* stays in pc[t] until the caller consumes it.                            *)
(***************************************************************************)
EXTENDS Integers, Sequences, FiniteSets, Functions

CONSTANTS
    Thread,         \* the threads that call the lock
    NoThread,       \* the null group_commit_waiter_t pointer
    Callback,       \* completion callbacks, each passed to one acquire()
    NoCallback,     \* the null completion_callback pointer
    DummyCallback,  \* log0log.cc's dummy_callback, which does nothing
    MaxValue,       \* bound on the numbers the callers use
    CallbackSlots   \* array_elements(callbacks) in release(): 950 in the code

ASSUME GCLConstants ==
    /\ NoThread \notin Thread
    /\ NoCallback # DummyCallback
    /\ NoCallback \notin Callback /\ DummyCallback \notin Callback
    /\ MaxValue \in Nat
    /\ CallbackSlots \in Nat

VARIABLES
    m_value, m_pending_value, m_lock,
    m_waiters_list,       \* the list that starts at m_waiters_list
    m_pending_callbacks,  \* the vector, as the set of its elements with their index
    w_signalled, w_next, w_leader,  \* each thread_local_waiter
    pc, num, callback,    \* a call of acquire(): where it is, its arguments; num
                          \* is also thread_local_waiter.m_value
    wakeup_list, callbacks, ret,  \* the locals of release() after its unlock
    ran,                  \* how often each callback has run
    asked                 \* history: the number each callback was passed with

lockVars == <<m_value, m_pending_value, m_lock, m_waiters_list, m_pending_callbacks>>
waiterVars == <<w_signalled, w_next, w_leader>>
argVars == <<num, callback>>
releaseVars == <<wakeup_list, callbacks, ret>>
vars == <<lockVars, waiterVars, pc, argVars, releaseVars, ran, asked>>

Value == 0..MaxValue
AnyCallback == Callback \cup {DummyCallback}
Element == [num : Value, cb : AnyCallback, at : Nat]
Results == {"EXPIRED", "ACQUIRED", "CALLBACK_QUEUED"}
AcquirePC == {"spin", "pending", "respin", "while", "mutex", "wait"}
ReleasePC == {"wake_leader", "callbacks", "wake"}

Init ==
    /\ m_value = 0 /\ m_pending_value = 0 /\ m_lock = FALSE
    /\ m_waiters_list = <<>> /\ m_pending_callbacks = {}
    /\ w_signalled = [t \in Thread |-> FALSE]
    /\ w_next = [t \in Thread |-> NoThread]
    /\ w_leader = [t \in Thread |-> FALSE]
    /\ pc = [t \in Thread |-> "idle"]
    /\ num = [t \in Thread |-> 0]
    /\ callback = [t \in Thread |-> NoCallback]
    /\ wakeup_list = [t \in Thread |-> NoThread]
    /\ callbacks = [t \in Thread |-> {}]
    /\ ret = [t \in Thread |-> 0]
    /\ ran = [c \in Callback |-> 0]
    /\ asked = [c \in Callback |-> 0]

Goto(t, label) == pc' = [pc EXCEPT ![t] = label]

\* Elements of m_pending_callbacks: [num, cb, at], at being the index.  A vector
\* that keeps only the elements of S has them in the same order.
Before(c, S) == {d \in S : d.at < c.at}
Compact(S) == {[num |-> c.num, cb |-> c.cb, at |-> Cardinality(Before(c, S))] : c \in S}

\* do_completion_callback(cb)
RunCallback(cb) == ran' = [c \in Callback |-> IF c = cb THEN ran[c] + 1 ELSE ran[c]]

\* Mutant of RunCallbacks: callbacks that do not fit the array are dropped.
DropCallbacks(S) == UNCHANGED ran

\* Every callback of the set S of elements runs.
RunCallbacks(S) ==
    ran' = [c \in Callback |-> ran[c] + Cardinality({d \in S : d.cb = c})]

----------------------------------------------------------------------------
(* acquire() *)

\* Entry of acquire(n, c).
Call(t, n, c) ==
    /\ pc[t] = "idle"
    /\ num' = [num EXCEPT ![t] = n]
    /\ callback' = [callback EXCEPT ![t] = c]
    /\ asked' = [d \in Callback |-> IF d = c THEN n ELSE asked[d]]
    /\ Goto(t, "spin")
    /\ UNCHANGED <<lockVars, waiterVars, releaseVars, ran>>

\* do_completion_callback(callback); return EXPIRED
Expire(t) ==
    /\ RunCallback(callback[t])
    /\ Goto(t, "EXPIRED")
    /\ UNCHANGED <<lockVars, waiterVars, argVars, releaseVars>>

\* The preparation of thread_local_waiter before the while loop.
EnterLoop(t) ==
    /\ w_leader' = [w_leader EXCEPT ![t] = FALSE]
    /\ Goto(t, "while")
    /\ UNCHANGED <<lockVars, w_signalled, w_next, argVars, releaseVars, ran>>

\* The test of value() in the spin loop; MAX_SPINS = 1, so it happens once
\* ("spin") or, after a look at pending(), twice ("respin").
SpinValue(t) ==
    /\ pc[t] \in {"spin", "respin"}
    /\ \/ /\ num[t] <= m_value
          /\ Expire(t)
       \/ /\ num[t] > m_value /\ pc[t] = "spin"
          /\ Goto(t, "pending")
          /\ UNCHANGED <<lockVars, waiterVars, argVars, releaseVars, ran>>
       \/ /\ num[t] > m_value /\ pc[t] = "respin"
          /\ EnterLoop(t)

SpinPending(t) ==
    /\ pc[t] = "pending"
    /\ \/ /\ num[t] > m_pending_value
          /\ EnterLoop(t)
       \/ /\ num[t] <= m_pending_value
          /\ Goto(t, "respin")
          /\ UNCHANGED <<lockVars, waiterVars, argVars, releaseVars, ran>>

\* while (num > value() || thread_local_waiter.m_group_commit_leader)
LoopTest(t) ==
    /\ pc[t] = "while"
    /\ \/ /\ num[t] > m_value \/ w_leader[t]
          /\ Goto(t, "mutex")
          /\ UNCHANGED <<lockVars, waiterVars, argVars, releaseVars, ran>>
       \/ /\ num[t] <= m_value /\ ~w_leader[t]
          /\ Expire(t)

\* Mutant of ExpiredInMutex: what the owner promised is taken for what it reached.
ExpiredByPending(t) == num[t] <= m_pending_value /\ (~w_leader[t] \/ m_lock)

ExpiredInMutex(t) == num[t] <= m_value /\ (~w_leader[t] \/ m_lock)

ExpireInMutex(t) ==
    /\ pc[t] = "mutex"
    /\ ExpiredInMutex(t)
    /\ Expire(t)

PushCallback(t) ==
    m_pending_callbacks' = m_pending_callbacks \cup
        {[num |-> num[t], cb |-> callback[t], at |-> Cardinality(m_pending_callbacks)]}

\* Mutant of TakeLock: m_lock is not tested.
TakeHeldLock(t) ==
    /\ pc[t] = "mutex" /\ ~ExpiredInMutex(t)
    /\ m_lock' = TRUE
    /\ IF callback[t] # NoCallback THEN PushCallback(t)
                                   ELSE UNCHANGED m_pending_callbacks
    /\ Goto(t, "ACQUIRED")
    /\ UNCHANGED <<m_value, m_pending_value, m_waiters_list, waiterVars,
                   argVars, releaseVars, ran>>

TakeLock(t) ==
    /\ pc[t] = "mutex"
    /\ ~ExpiredInMutex(t) /\ ~m_lock
    /\ m_lock' = TRUE
    /\ IF callback[t] # NoCallback THEN PushCallback(t)
                                   ELSE UNCHANGED m_pending_callbacks
    /\ Goto(t, "ACQUIRED")
    /\ UNCHANGED <<m_value, m_pending_value, m_waiters_list, waiterVars,
                   argVars, releaseVars, ran>>

MayQueueCallback(t) ==
    callback[t] # NoCallback /\ (m_waiters_list # <<>> \/ num[t] <= m_pending_value)

QueueCallback(t) ==
    /\ pc[t] = "mutex"
    /\ ~ExpiredInMutex(t) /\ m_lock /\ MayQueueCallback(t)
    /\ PushCallback(t)
    /\ Goto(t, "CALLBACK_QUEUED")
    /\ UNCHANGED <<m_value, m_pending_value, m_lock, m_waiters_list, waiterVars,
                   argVars, releaseVars, ran>>

ListHead(s) == IF s = <<>> THEN NoThread ELSE Head(s)

JoinWaiters(t) ==
    /\ pc[t] = "mutex"
    /\ ~ExpiredInMutex(t) /\ m_lock /\ ~MayQueueCallback(t)
    /\ w_leader' = [w_leader EXCEPT ![t] = FALSE]
    /\ w_next' = [w_next EXCEPT ![t] = ListHead(m_waiters_list)]
    /\ m_waiters_list' = <<t>> \o m_waiters_list
    /\ Goto(t, "wait")
    /\ UNCHANGED <<m_value, m_pending_value, m_lock, m_pending_callbacks,
                   w_signalled, argVars, releaseVars, ran>>

\* Mutant of SemaphoreWait: the semaphore is not reset.
WaitWithoutReset(t) ==
    /\ pc[t] = "wait"
    /\ w_signalled[t]
    /\ Goto(t, "while")
    /\ UNCHANGED <<lockVars, waiterVars, argVars, releaseVars, ran>>

\* m_sema.wait() returns: the semaphore was signalled and is reset.
SemaphoreWait(t) ==
    /\ pc[t] = "wait"
    /\ w_signalled[t]
    /\ w_signalled' = [w_signalled EXCEPT ![t] = FALSE]
    /\ Goto(t, "while")
    /\ UNCHANGED <<lockVars, w_next, w_leader, argVars, releaseVars, ran>>

----------------------------------------------------------------------------
(* set_pending() and release(), called by the owner *)

\* The guard is the ut_a of set_pending().
SetPending(n) ==
    /\ n >= m_value
    /\ m_pending_value' = n
    /\ UNCHANGED <<m_value, m_lock, m_waiters_list, m_pending_callbacks>>

\* The list that results from pushing the elements of s to the front one by one.
Reversed(s) == [i \in 1..Len(s) |-> s[Len(s) + 1 - i]]

NextIn(s, t) ==
    LET i == CHOOSE i \in DOMAIN s : s[i] = t
    IN  IF i = Len(s) THEN NoThread ELSE s[i + 1]

\* Mutant of Due: callbacks of the next number run too.
DueEarly(n) == Compact({c \in m_pending_callbacks : c.num <= n + 1})

\* The callbacks that release(n) runs, and what remove_if() leaves.
Due(n) == Compact({c \in m_pending_callbacks : c.num <= n})

\* Mutant of Left: the boundary differs from that of Due.
LeftAtBoundary(n) == Compact({c \in m_pending_callbacks : c.num >= n})

Left(n) == Compact({c \in m_pending_callbacks : c.num > n})

\* Mutants of NeedLeader: only one of the two kinds of work is looked at.
NeedLeaderForWaiters(n, unsatisfied) == unsatisfied # <<>>
NeedLeaderForCallbacks(n, unsatisfied) == Left(n) # {}

\* After release(n) there must be a new group commit leader.
NeedLeader(n, unsatisfied) == Left(n) # {} \/ unsatisfied # <<>>

\* The critical section of release(n); the guard is its ut_a.
Release(t, n) ==
    LET satisfied == Reversed(SelectSeq(m_waiters_list, LAMBDA u : num[u] <= n))
        unsatisfied == SelectSeq(m_waiters_list, LAMBDA u : num[u] > n)
        needLeader == NeedLeader(n, unsatisfied)
        promote == needLeader /\ unsatisfied # <<>>
        woken == IF promote THEN <<Head(unsatisfied)>> \o satisfied ELSE satisfied
        stay == IF promote THEN Tail(unsatisfied) ELSE unsatisfied
    IN  /\ pc[t] = "ACQUIRED"
        /\ n >= m_value
        /\ m_lock' = FALSE
        /\ m_value' = n
        /\ m_pending_callbacks' = Left(n)
        /\ m_waiters_list' = stay
        /\ w_next' = [u \in Thread |->
                        IF u \in Range(woken) THEN NextIn(woken, u)
                        ELSE IF u \in Range(stay) THEN NextIn(stay, u)
                        ELSE w_next[u]]
        /\ w_leader' = [u \in Thread |->
                          IF needLeader /\ woken # <<>> /\ u = Head(woken)
                          THEN TRUE ELSE w_leader[u]]
        /\ wakeup_list' = [wakeup_list EXCEPT ![t] = ListHead(woken)]
        /\ callbacks' = [callbacks EXCEPT ![t] = {c \in Due(n) : c.at < CallbackSlots}]
        /\ RunCallbacks({c \in Due(n) : c.at >= CallbackSlots})
        /\ IF needLeader /\ woken = <<>>
           THEN \E c \in Left(n) : c.at = 0 /\ ret' = [ret EXCEPT ![t] = c.num]
           ELSE ret' = [ret EXCEPT ![t] = 0]
        /\ Goto(t, "wake_leader")
        /\ UNCHANGED <<m_pending_value, w_signalled, argVars>>

\* m_next is read before m_sema.wake(): the woken thread may enlist again.
WakeFirst(t) ==
    /\ wakeup_list' = [wakeup_list EXCEPT ![t] = w_next[wakeup_list[t]]]
    /\ w_signalled' = [w_signalled EXCEPT ![wakeup_list[t]] = TRUE]
    /\ UNCHANGED <<lockVars, w_next, w_leader, argVars, callbacks, ret, ran>>

WakeLeader(t) ==
    /\ pc[t] = "wake_leader"
    /\ Goto(t, "callbacks")
    /\ IF wakeup_list[t] # NoThread /\ w_leader[wakeup_list[t]]
       THEN WakeFirst(t)
       ELSE UNCHANGED <<lockVars, waiterVars, argVars, releaseVars, ran>>

RunNextCallback(t) ==
    /\ pc[t] = "callbacks"
    /\ \/ /\ \E c \in callbacks[t] :
                /\ Before(c, callbacks[t]) = {}
                /\ RunCallback(c.cb)
                /\ callbacks' = [callbacks EXCEPT ![t] = @ \ {c}]
          /\ UNCHANGED <<lockVars, waiterVars, pc, argVars, wakeup_list, ret>>
       \/ /\ callbacks[t] = {}
          /\ Goto(t, "wake")
          /\ UNCHANGED <<lockVars, waiterVars, argVars, releaseVars, ran>>

WakeOthers(t) ==
    /\ pc[t] = "wake"
    /\ \/ /\ wakeup_list[t] # NoThread
          /\ WakeFirst(t)
          /\ UNCHANGED pc
       \/ /\ wakeup_list[t] = NoThread
          /\ Goto(t, "RELEASED")
          /\ UNCHANGED <<lockVars, waiterVars, argVars, releaseVars, ran>>

\* The steps a call takes on its own once it has started.
Step(t) ==
    /\ \/ SpinValue(t) \/ SpinPending(t) \/ LoopTest(t)
       \/ ExpireInMutex(t) \/ TakeLock(t) \/ QueueCallback(t) \/ JoinWaiters(t)
       \/ SemaphoreWait(t)
       \/ WakeLeader(t) \/ RunNextCallback(t) \/ WakeOthers(t)
    /\ UNCHANGED asked

----------------------------------------------------------------------------
(* A general caller.  As in log_write_up_to(), a non-zero result of       *)
(* release() makes the caller acquire again, with the dummy callback.     *)

\* A callback that no call has passed yet.
Fresh(c) == asked[c] = 0

Acquire(t) ==
    \E n \in 1..MaxValue :
        \E c \in {NoCallback} \cup {d \in Callback : Fresh(d)} : Call(t, n, c)

OwnerSetPending(t) ==
    /\ pc[t] = "ACQUIRED"
    /\ \E n \in Value : n # m_pending_value /\ SetPending(n)
    /\ UNCHANGED <<waiterVars, pc, argVars, releaseVars, ran, asked>>

\* log_write_up_to() releases with what it has written or flushed, which is at
\* least the number it asked for.
OwnerRelease(t) ==
    /\ \E n \in Value : n >= num[t] /\ Release(t, n)
    /\ UNCHANGED asked

Return(t) ==
    /\ pc[t] \in {"EXPIRED", "CALLBACK_QUEUED", "RELEASED"}
    /\ \/ /\ pc[t] = "RELEASED" /\ ret[t] # 0
          /\ num' = [num EXCEPT ![t] = ret[t]]
          /\ callback' = [callback EXCEPT ![t] = DummyCallback]
          /\ ret' = [ret EXCEPT ![t] = 0]
          /\ Goto(t, "spin")
       \/ /\ pc[t] # "RELEASED" \/ ret[t] = 0
          /\ num' = [num EXCEPT ![t] = 0]
          /\ callback' = [callback EXCEPT ![t] = NoCallback]
          /\ Goto(t, "idle")
          /\ UNCHANGED ret
    /\ UNCHANGED <<lockVars, waiterVars, wakeup_list, callbacks, ran, asked>>

Next ==
    \E t \in Thread :
        \/ Acquire(t) \/ OwnerSetPending(t) \/ OwnerRelease(t) \/ Return(t) \/ Step(t)

Spec == Init /\ [][Next]_vars

----------------------------------------------------------------------------
(* Properties *)

\* acquire() hands the lock to at most one thread, and m_lock is set exactly
\* while some thread is between ACQUIRED and its release().
OneOwner ==
    /\ m_lock <=> \E t \in Thread : pc[t] = "ACQUIRED"
    /\ \A t, u \in Thread : pc[t] = "ACQUIRED" /\ pc[u] = "ACQUIRED" => t = u

\* A caller told EXPIRED finds its number reached, although the unlocked
\* loads of m_value in acquire() may be stale by the time it returns.
ExpiredIsReached == \A t \in Thread : pc[t] = "EXPIRED" => num[t] <= m_value

\* A completion callback runs only after release() published its number,
\* whichever of the four places of acquire() and release() runs it.
CallbackNotEarly == \A c \in Callback : ran[c] > 0 => asked[c] <= m_value

Places(c) ==
      ran[c]
    + Cardinality({t \in Thread : pc[t] \in AcquirePC /\ callback[t] = c})
    + Cardinality({d \in m_pending_callbacks : d.cb = c})
    + Cardinality({p \in Thread \X UNION {callbacks[t] : t \in Thread} :
                      p[2] \in callbacks[p[1]] /\ p[2].cb = c})

\* A callback given to acquire() is never lost and never duplicated on its
\* way through m_pending_callbacks and release()'s local array: it is in one
\* place, or it has run once.
CallbackConserved == \A c \in Callback : Places(c) = IF asked[c] = 0 THEN 0 ELSE 1

\* The threads that releaser r will still wake: the list at wakeup_list[r],
\* found through the m_next links as they are now.
ToWake(r) ==
    LET link[k \in 0..Cardinality(Thread)] ==
            IF k = 0 THEN wakeup_list[r]
            ELSE IF link[k - 1] = NoThread THEN NoThread ELSE w_next[link[k - 1]]
    IN  {link[k] : k \in 0..Cardinality(Thread)} \ {NoThread}

\* A thread asleep in m_sema.wait() is known to exactly one waker: it is on
\* m_waiters_list, or on the wakeup_list of one release(), or already
\* signalled; nobody else is ever signalled.  m_next serves both lists, so
\* this fails if a link is followed after its owner enlisted again.
SleeperHasOneWaker ==
    \A t \in Thread :
        LET wakers == {r \in Thread : pc[r] \in ReleasePC /\ t \in ToWake(r)}
            places ==   Cardinality({i \in DOMAIN m_waiters_list : m_waiters_list[i] = t})
                      + Cardinality(wakers)
                      + (IF w_signalled[t] THEN 1 ELSE 0)
        IN  places = IF pc[t] = "wait" THEN 1 ELSE 0

\* A thread that is going to pass through the critical section of acquire()
\* and cannot leave it without taking the lock or finding it taken.
Responsible(t) ==
    \/ pc[t] \in AcquirePC \ {"wait"} /\ num[t] > m_value
    \/ pc[t] \in {"while", "mutex"} /\ w_leader[t]
    \/ pc[t] = "wait" /\ w_leader[t]
    \/ pc[t] \in ReleasePC \cup {"RELEASED"} /\ ret[t] > m_value

\* While the lock is free, queued waiters and callbacks are never orphaned:
\* release() has appointed a leader or told its caller to acquire again.
NoStall ==
    ~m_lock /\ (m_waiters_list # <<>> \/ m_pending_callbacks # {})
        => \E t \in Thread : Responsible(t)

=============================================================================
