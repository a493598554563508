--------------------------- MODULE LogWriteLocks ----------------------------
(***************************************************************************)
(* The inductive invariant behind the durability of the redo log, for any  *)
(* number of threads, LSNs, callbacks and stops, and the proof that the    *)
(* steps inside flush_lock and write_lock keep it.  The steps outside the  *)
(* locks and the theorems are in LogWriteProofs.                           *)
(*                                                                         *)
(* The invariant has a part about the shared state (Shared), a part about  *)
(* the owners of the two locks (Owners), and a part about each thread      *)
(* (Thr).  A step changes the locals of one thread only, so Thr has to be  *)
(* shown for that thread; for the others it is enough that the shared      *)
(* state grows and that what an owner relies on stays (OthersStay).        *)
(***************************************************************************)
EXTENDS LogWrite, TLAPS

AcquirePC == {"spin", "pending", "respin", "while", "mutex", "wait"}
Results == {"EXPIRED", "ACQUIRED", "CALLBACK_QUEUED"}
ReleasePC == {"wake_leader", "callbacks", "wake"}
LockPC == {"idle", "RELEASED"} \cup AcquirePC \cup Results \cup ReleasePC
InAcquire == AcquirePC \cup Results
InRelease == ReleasePC \cup {"RELEASED"}

AnyCallback == Callback \cup {DummyCallback}
Ops == {"none", "flush", "write", "write_and_flush", "resize"}
Labels == {"idle", "repeat", "flush_acquire", "write_acquire", "write_file", "write_release",
           "write_releasing", "flush", "fsync", "flush_release", "flush_releasing", "returned",
           "stop_flush", "stop_flush_acquire", "stop_write", "stop_write_acquire",
           "stop_latch", "stopped"}

Types ==
    /\ f_lock \in BOOLEAN /\ w_lock \in BOOLEAN
    /\ f_value \in Nat /\ w_value \in Nat /\ log_lsn \in Nat
    /\ write_lsn \in Nat /\ flushed_to_disk_lsn \in Nat
    /\ disk_written \in Nat /\ disk_durable \in Nat /\ syncing \in Nat
    /\ asked \in [Callback -> Nat]

LocalTypes ==
    /\ f_pc \in [Thread -> LockPC] /\ w_pc \in [Thread -> LockPC]
    /\ lpc \in [Thread -> Labels] /\ op \in [Thread -> Ops]
    /\ num \in [Thread -> Nat] /\ ret \in [Thread -> Nat]
    /\ lsn \in [Thread -> Nat] /\ target \in [Thread -> Nat]
    /\ want \in [Thread -> Nat] /\ pending_write_lsn \in [Thread -> Nat]
    /\ callback \in [Thread -> AnyCallback \cup {NoCallback}]
    /\ cb \in [Thread -> AnyCallback \cup {NoCallback}]
    /\ callbacks = [t \in Thread |-> callbacks[t]]

\* The elements of a vector of callbacks: where durability is asked for, in
\* flush_lock, otherwise in write_lock, with the number they were passed with.
Vector(S, durable, bound) ==
    \A d \in S : /\ d.num \in Nat /\ d.num > 0 /\ d.num <= bound
                 /\ d.cb \in Callback =>
                       asked[d.cb] = d.num /\ (d.cb \in DurableCallback <=> durable)

\* A callback that has run was given with an LSN that the locks have reached.
RanReached ==
    \A c \in Callback : ran[c] # 0 => /\ asked[c] > 0 /\ asked[c] <= w_value
                                      /\ c \in DurableCallback => asked[c] <= f_value

\* The log grows from left to right: published, durable, written, logged.
Shared ==
    /\ f_value <= w_value /\ f_value <= flushed_to_disk_lsn
    /\ flushed_to_disk_lsn <= disk_durable /\ disk_durable <= disk_written
    /\ syncing <= disk_written
    /\ w_value <= write_lsn /\ write_lsn = disk_written /\ disk_written <= log_lsn
    /\ Vector(f_pending_callbacks, TRUE, log_lsn)
    /\ Vector(w_pending_callbacks, FALSE, log_lsn)
    /\ RanReached

\* A lock is set while one thread is its owner.
Owner(lk, pc) ==
    /\ lk <=> \E t \in Thread : pc[t] = "ACQUIRED"
    /\ \A t, u \in Thread : pc[t] = "ACQUIRED" /\ pc[u] = "ACQUIRED" => t = u

Owners == Owner(f_lock, f_pc) /\ Owner(w_lock, w_pc)

----------------------------------------------------------------------------
(* One thread *)

Calling(t) == op[t] \in {"flush", "write"}
Stopping(t) == op[t] \in {"write_and_flush", "resize"}

\* Where a thread is in the two locks.
Where(t) ==
    LET held == IF op[t] = "write" THEN "idle" ELSE "ACQUIRED"
    IN
    /\ lpc[t] = "idle" => op[t] = "none"
    /\ lpc[t] \in {"repeat", "write_acquire"} => Calling(t)
    /\ lpc[t] \in {"flush_acquire", "flush"} => op[t] = "flush"
    /\ lpc[t] \in {"write_file", "write_release", "write_releasing", "fsync", "flush_release",
                   "flush_releasing", "returned"} => op[t] # "none"
    /\ lpc[t] \in {"fsync", "flush_release", "flush_releasing"} => op[t] # "write"
    /\ lpc[t] \in {"write_file", "fsync"} => op[t] # "resize"
    /\ lpc[t] \in {"stop_flush", "stop_flush_acquire", "stop_write", "stop_write_acquire",
                   "stop_latch", "stopped"} => Stopping(t)
    /\ lpc[t] \in {"idle", "repeat", "returned", "stop_flush"}
         => f_pc[t] = "idle" /\ w_pc[t] = "idle"
    /\ lpc[t] \in {"flush_acquire", "stop_flush_acquire"}
         => f_pc[t] \in InAcquire /\ w_pc[t] = "idle"
    /\ lpc[t] \in {"write_acquire", "stop_write_acquire"}
         => f_pc[t] = held /\ w_pc[t] \in InAcquire
    /\ lpc[t] \in {"write_file", "write_release", "stop_latch", "stopped"}
         => f_pc[t] = held /\ w_pc[t] = "ACQUIRED"
    /\ lpc[t] = "write_releasing" => f_pc[t] = held /\ w_pc[t] \in InRelease
    /\ lpc[t] \in {"stop_write", "flush", "fsync", "flush_release"}
         => f_pc[t] = "ACQUIRED" /\ w_pc[t] = "idle"
    /\ lpc[t] = "flush_releasing" => f_pc[t] \in InRelease /\ w_pc[t] = "idle"

\* log_write_and_flush() retains the latch until all is flushed.
Latched(t) ==
    \/ lpc[t] = "stopped"
    \/ /\ op[t] = "write_and_flush"
       /\ lpc[t] \in {"write_file", "write_release", "write_releasing", "fsync",
                      "flush_release", "flush_releasing"}

\* What a thread is writing or flushing.
Wrote(t) ==
    /\ lpc[t] = "write_file" => write_lsn <= target[t] /\ target[t] <= log_lsn
    /\ lpc[t] = "write_release" => w_value <= target[t] /\ target[t] <= write_lsn
    /\ lpc[t] = "write_releasing" => target[t] <= w_value
    /\ lpc[t] = "fsync" => target[t] <= syncing
    /\ lpc[t] = "flush_release" => target[t] <= flushed_to_disk_lsn
    /\ lpc[t] \in {"fsync", "flush_release"} => f_value <= target[t] /\ target[t] <= w_value
    /\ lpc[t] = "flush_releasing" => target[t] <= f_value
    /\ latch = t <=> Latched(t)
    /\ Latched(t) /\ lpc[t] # "stopped" => target[t] = log_lsn

\* What a call asks for is reached step by step.
Served(t) ==
    /\ Calling(t) =>
          /\ lsn[t] > 0 /\ lsn[t] <= log_lsn
          /\ lpc[t] \in {"write_file", "write_release", "write_releasing", "fsync",
                         "flush_release", "flush_releasing"} => lsn[t] <= target[t]
          /\ lpc[t] = "flush" => lsn[t] <= w_value
    /\ lpc[t] \in {"flush_acquire", "write_acquire"} => num[t] = lsn[t]
    /\ f_pc[t] = "EXPIRED" => num[t] <= f_value
    /\ w_pc[t] = "EXPIRED" => num[t] <= w_value
    /\ "CALLBACK_QUEUED" \in {f_pc[t], w_pc[t]} => callback[t] # NoCallback
    /\ want[t] # 0 =>
          /\ Calling(t)
          /\ \/ /\ want[t] <= disk_written
                /\ op[t] = "flush" => want[t] <= disk_durable
             \/ lpc[t] # "returned" /\ cb[t] = NoCallback /\ want[t] = lsn[t]

\* The arguments of acquire() and the callback that is in them.
Called(t) ==
    /\ cb[t] # NoCallback => Calling(t)
    /\ cb[t] \in Callback =>
          /\ cb[t] \in DurableCallback <=> op[t] = "flush"
          /\ lpc[t] = "repeat" => asked[cb[t]] = 0
          /\ \A u \in Thread : cb[u] = cb[t] => u = t
    /\ f_pc[t] \in InAcquire /\ lpc[t] \in {"flush_acquire", "stop_flush_acquire"}
         => callback[t] = cb[t]
    /\ w_pc[t] \in InAcquire /\ lpc[t] \in {"write_acquire", "stop_write_acquire"}
         => callback[t] = IF op[t] = "flush" THEN NoCallback ELSE cb[t]
    /\ f_pc[t] \in AcquirePC \/ w_pc[t] \in AcquirePC
         => num[t] > 0 /\ (callback[t] \in Callback => asked[callback[t]] = num[t])

\* The locals of release().
Releasing(t) ==
    /\ f_pc[t] \in ReleasePC => Vector(callbacks[t], TRUE, f_value)
    /\ w_pc[t] \in ReleasePC => Vector(callbacks[t], FALSE, w_value)
    /\ ret[t] <= log_lsn /\ pending_write_lsn[t] <= log_lsn
    /\ op[t] = "write_and_flush" /\ (f_pc[t] \in InRelease \/ w_pc[t] \in InRelease)
         => ret[t] = 0

Thr(t) == Where(t) /\ Wrote(t) /\ Served(t) /\ Called(t) /\ Releasing(t)

IInv == Types /\ LocalTypes /\ Shared /\ Owners /\ \A t \in Thread : Thr(t)

----------------------------------------------------------------------------
(* What a step of t means for the other threads *)

\* No local of u changes.
Still(u) ==
    /\ f_pc'[u] = f_pc[u] /\ w_pc'[u] = w_pc[u] /\ lpc'[u] = lpc[u] /\ op'[u] = op[u]
    /\ num'[u] = num[u] /\ ret'[u] = ret[u] /\ lsn'[u] = lsn[u] /\ target'[u] = target[u]
    /\ want'[u] = want[u] /\ pending_write_lsn'[u] = pending_write_lsn[u]
    /\ callback'[u] = callback[u] /\ cb'[u] = cb[u] /\ callbacks'[u] = callbacks[u]

Grows ==
    /\ f_value <= f_value' /\ w_value <= w_value' /\ log_lsn <= log_lsn'
    /\ disk_written <= disk_written' /\ disk_durable <= disk_durable'

\* What u relies on as the owner of a lock, of the latch or of a callback.
Kept(u) ==
    /\ f_pc[u] = "ACQUIRED" =>
          f_value' = f_value /\ flushed_to_disk_lsn' = flushed_to_disk_lsn /\ syncing' = syncing
    /\ w_pc[u] = "ACQUIRED" => w_value' = w_value /\ write_lsn' = write_lsn
    /\ latch = u => log_lsn' = log_lsn
    /\ latch' = u <=> latch = u
    /\ \A c \in Callback : asked'[c] # asked[c] => asked[c] = 0 /\ cb[u] # c

\* A callback is not given to t while somebody else has it.
Gives(t) == cb'[t] \in Callback => cb'[t] = cb[t] \/ \A u \in Thread : cb[u] # cb'[t]

OthersKept(t) == Grows /\ Gives(t) /\ \A u \in Thread \ {t} : Still(u) /\ Kept(u)

\* The invariant of a thread stays when its locals do, and nobody else has its
\* callback.
LEMMA ThreadStays ==
  ASSUME IInv, NEW u \in Thread, Types', Grows, Still(u), Kept(u),
         cb[u] \in Callback => \A v \in Thread \ {u} : cb'[v] # cb[u]
  PROVE  Thr(u)'
<1>0. Thr(u) /\ Still(u) /\ Kept(u) /\ Grows
  BY DEF IInv
<1>t. /\ f_value \in Nat /\ f_value' \in Nat /\ w_value \in Nat /\ w_value' \in Nat
      /\ log_lsn \in Nat /\ log_lsn' \in Nat /\ disk_written \in Nat /\ disk_written' \in Nat
      /\ disk_durable \in Nat /\ disk_durable' \in Nat
      /\ num[u] \in Nat /\ ret[u] \in Nat /\ lsn[u] \in Nat /\ target[u] \in Nat
      /\ want[u] \in Nat /\ pending_write_lsn[u] \in Nat
  BY DEF IInv, Types, LocalTypes
<1>g. \A k \in Nat : /\ k <= f_value => k <= f_value'
                     /\ k <= w_value => k <= w_value'
                     /\ k <= log_lsn => k <= log_lsn'
                     /\ k <= disk_written => k <= disk_written'
                     /\ k <= disk_durable => k <= disk_durable'
  BY <1>0, <1>t DEF Grows
<1>1. Where(u)'
  BY <1>0, Zenon DEF Thr, Where, Still, Calling, Stopping
<1>2. Wrote(u)'
  <2>1. Latched(u)' <=> Latched(u)
    BY <1>0, Zenon DEF Still, Latched
  <2>2. lpc[u] \in {"write_file", "write_release"} => w_pc[u] = "ACQUIRED"
    BY <1>0, Zenon DEF Thr, Where
  <2>3. lpc[u] \in {"fsync", "flush_release"} => f_pc[u] = "ACQUIRED"
    BY <1>0 DEF Thr, Where
  <2> QED
    BY <1>0, <1>t, <1>g, <2>1, <2>2, <2>3, Zenon DEF Thr, Wrote, Still, Kept
<1>3. Served(u)'
  BY <1>0, <1>t, <1>g, Zenon DEF Thr, Served, Still, Calling
<1>4. Called(u)'
  <2>1. cb'[u] \in Callback => \A v \in Thread : cb'[v] = cb'[u] => v = u
    BY <1>0, Zenon DEF Still
  <2>2. cb[u] \in Callback => asked'[cb[u]] = asked[cb[u]]
    BY <1>0, Zenon DEF Kept
  <2>3. callback[u] \in Callback /\ asked[callback[u]] = num[u] /\ num[u] > 0
          => asked'[callback[u]] = num[u]
    BY <1>0, <1>t DEF Kept
  <2> QED
    BY <1>0, <2>1, <2>2, <2>3, Zenon DEF Thr, Called, Still, Calling
<1>5. Releasing(u)'
  <2>1. \A c \in Callback : asked[c] > 0 => asked'[c] = asked[c]
    BY <1>0 DEF Kept
  <2>2. ASSUME NEW S, NEW durable, Vector(S, durable, f_value)
        PROVE  Vector(S, durable, f_value)'
    BY <1>g, <2>1, <2>2, Zenon DEF Vector
  <2>3. ASSUME NEW S, NEW durable, Vector(S, durable, w_value)
        PROVE  Vector(S, durable, w_value)'
    BY <1>g, <2>1, <2>3, Zenon DEF Vector
  <2> QED
    BY <1>0, <1>t, <1>g, <2>2, <2>3, Zenon DEF Thr, Releasing, Still
<1> QED
  BY <1>1, <1>2, <1>3, <1>4, <1>5 DEF Thr

\* The invariant of every other thread stays.
LEMMA OthersStay ==
  ASSUME IInv, NEW t \in Thread, Types', OthersKept(t), NEW u \in Thread \ {t}
  PROVE  Thr(u)'
<1>1. ASSUME cb[u] \in Callback, NEW v \in Thread \ {u} PROVE cb'[v] # cb[u]
  <2>1. \A x \in Thread : cb[x] = cb[u] => x = u
    BY <1>1, Zenon DEF IInv, Thr, Called
  <2>2. CASE v = t
    BY <1>1, <2>1, <2>2 DEF OthersKept, Gives
  <2>3. CASE v # t
    BY <2>1, <2>3, Zenon DEF OthersKept, Still
  <2> QED
    BY <2>2, <2>3
<1> QED
  BY <1>1, ThreadStays DEF OthersKept

\* A step of t that is right for t and harmless for the others.
Good(t) == Types' /\ LocalTypes' /\ Shared' /\ Owners' /\ Thr(t)' /\ OthersKept(t)

\* Such a step keeps the invariant.
LEMMA GoodStep ==
  ASSUME IInv, NEW t \in Thread, Good(t)
  PROVE  IInv'
  BY OthersStay DEF Good, IInv

----------------------------------------------------------------------------
(* The steps inside acquire() and release() of either lock.  The lock is   *)
(* given by its variables and their next values: the program counters, the *)
(* flag, the vector of pending callbacks, and its value.                   *)

Push(t, pend, pendn) ==
    pendn = pend \cup {[num |-> num[t], cb |-> callback[t], at |-> Cardinality(pend)]}

Runs(c) == ran' = [d \in Callback |-> IF d = c THEN ran[d] + 1 ELSE ran[d]]

\* Control moves on inside acquire() or inside release().
MoveKind(t, pc, pcn, lk, lkn, pend, pendn) ==
    /\ \E l \in LockPC :
          /\ pcn = [pc EXCEPT ![t] = l]
          /\ \/ pc[t] \in AcquirePC /\ l \in AcquirePC
             \/ pc[t] \in ReleasePC /\ l \in InRelease
    /\ lkn = lk /\ pendn = pend /\ UNCHANGED <<callbacks, ran>>

\* acquire() returns EXPIRED.
ExpireKind(t, pc, pcn, lk, lkn, pend, pendn, value) ==
    /\ pc[t] \in AcquirePC /\ pcn = [pc EXCEPT ![t] = "EXPIRED"]
    /\ num[t] <= value /\ Runs(callback[t])
    /\ lkn = lk /\ pendn = pend /\ UNCHANGED callbacks

\* acquire() returns ACQUIRED.
TakeKind(t, pc, pcn, lk, lkn, pend, pendn) ==
    /\ pc[t] \in AcquirePC /\ pcn = [pc EXCEPT ![t] = "ACQUIRED"]
    /\ ~lk /\ lkn = TRUE
    /\ IF callback[t] # NoCallback THEN Push(t, pend, pendn) ELSE pendn = pend
    /\ UNCHANGED <<callbacks, ran>>

\* acquire() returns CALLBACK_QUEUED.
QueueKind(t, pc, pcn, lk, lkn, pend, pendn) ==
    /\ pc[t] \in AcquirePC /\ pcn = [pc EXCEPT ![t] = "CALLBACK_QUEUED"]
    /\ callback[t] # NoCallback /\ Push(t, pend, pendn)
    /\ lkn = lk /\ UNCHANGED <<callbacks, ran>>

\* release() runs a callback of its array.
RunKind(t, pc, pcn, lk, lkn, pend, pendn) ==
    /\ pc[t] \in ReleasePC /\ pcn = pc
    /\ \E c \in callbacks[t] :
          Runs(c.cb) /\ callbacks' = [callbacks EXCEPT ![t] = @ \ {c}]
    /\ lkn = lk /\ pendn = pend

Kinds(t, pc, pcn, lk, lkn, pend, pendn, value) ==
    \/ MoveKind(t, pc, pcn, lk, lkn, pend, pendn)
    \/ ExpireKind(t, pc, pcn, lk, lkn, pend, pendn, value)
    \/ TakeKind(t, pc, pcn, lk, lkn, pend, pendn)
    \/ QueueKind(t, pc, pcn, lk, lkn, pend, pendn)
    \/ RunKind(t, pc, pcn, lk, lkn, pend, pendn)

\* The sets of the two instances are counted in the same way.
LEMMA SameCardinality ==
  ASSUME NEW S PROVE F!Cardinality(S) = Cardinality(S) /\ W!Cardinality(S) = Cardinality(S)
  BY Zenon DEF F!Cardinality, W!Cardinality, Cardinality, F!IsFiniteSet, W!IsFiniteSet,
               IsFiniteSet

\* A step inside a call of flush_lock is of one of these kinds.
LEMMA FlushLockKinds ==
  ASSUME NEW t \in Thread, f_pc \in [Thread -> LockPC], F!Step(t)
  PROVE  /\ Kinds(t, f_pc, f_pc', f_lock, f_lock', f_pending_callbacks, f_pending_callbacks',
                  f_value)
         /\ UNCHANGED <<f_value, num, callback, ret, asked>>
<1> USE DEF F!Goto, F!lockVars, F!argVars, F!releaseVars, F!waiterVars, AcquirePC, Kinds
<1>0. UNCHANGED asked
  BY DEF F!Step
<1>1. CASE F!SpinValue(t)
  BY <1>0, <1>1, Zenon DEF F!SpinValue, F!Expire, F!EnterLoop, F!RunCallback, LockPC,
                    MoveKind, ExpireKind, Runs
<1>2. CASE F!SpinPending(t)
  BY <1>0, <1>2, Zenon DEF F!SpinPending, F!EnterLoop, LockPC, MoveKind
<1>3. CASE F!LoopTest(t)
  BY <1>0, <1>3, Zenon DEF F!LoopTest, F!Expire, F!RunCallback, LockPC, MoveKind, ExpireKind, Runs
<1>4. CASE F!ExpireInMutex(t)
  BY <1>0, <1>4, Zenon DEF F!ExpireInMutex, F!ExpiredInMutex, F!Expire, F!RunCallback, ExpireKind, Runs
<1>5. CASE F!TakeLock(t)
  BY <1>0, <1>5, SameCardinality, Zenon DEF F!TakeLock, F!PushCallback, TakeKind, Push
<1>6. CASE F!QueueCallback(t)
  BY <1>0, <1>6, SameCardinality, Zenon DEF F!QueueCallback, F!MayQueueCallback, F!PushCallback, QueueKind, Push
<1>7. CASE F!JoinWaiters(t) \/ F!SemaphoreWait(t)
  BY <1>0, <1>7, Zenon DEF F!JoinWaiters, F!SemaphoreWait, LockPC, MoveKind
<1>8. CASE F!WakeLeader(t)
  BY <1>0, <1>8, Zenon DEF F!WakeLeader, F!WakeFirst, LockPC, ReleasePC, InRelease, MoveKind
<1>9. CASE F!RunNextCallback(t)
  BY <1>0, <1>9, Zenon DEF F!RunNextCallback, F!RunCallback, LockPC, ReleasePC, InRelease,
                    MoveKind, RunKind, Runs
<1>10. CASE F!WakeOthers(t)
  BY <1>0, <1>10, Zenon DEF F!WakeOthers, F!WakeFirst, LockPC, ReleasePC, InRelease, MoveKind
<1> QED
  BY <1>1, <1>2, <1>3, <1>4, <1>5, <1>6, <1>7, <1>8, <1>9, <1>10, Zenon DEF F!Step

\* A step inside a call of write_lock is of one of these kinds.
LEMMA WriteLockKinds ==
  ASSUME NEW t \in Thread, w_pc \in [Thread -> LockPC], W!Step(t)
  PROVE  /\ Kinds(t, w_pc, w_pc', w_lock, w_lock', w_pending_callbacks, w_pending_callbacks',
                  w_value)
         /\ UNCHANGED <<w_value, num, callback, ret, asked>>
<1> USE DEF W!Goto, W!lockVars, W!argVars, W!releaseVars, W!waiterVars, AcquirePC, Kinds
<1>0. UNCHANGED asked
  BY DEF W!Step
<1>1. CASE W!SpinValue(t)
  BY <1>0, <1>1 DEF W!SpinValue, W!Expire, W!EnterLoop, W!RunCallback, LockPC,
                    MoveKind, ExpireKind, Runs
<1>2. CASE W!SpinPending(t)
  BY <1>0, <1>2 DEF W!SpinPending, W!EnterLoop, LockPC, MoveKind
<1>3. CASE W!LoopTest(t)
  BY <1>0, <1>3 DEF W!LoopTest, W!Expire, W!RunCallback, LockPC, MoveKind, ExpireKind, Runs
<1>4. CASE W!ExpireInMutex(t)
  BY <1>0, <1>4 DEF W!ExpireInMutex, W!ExpiredInMutex, W!Expire, W!RunCallback, ExpireKind, Runs
<1>5. CASE W!TakeLock(t)
  BY <1>0, <1>5, SameCardinality, Zenon DEF W!TakeLock, W!PushCallback, TakeKind, Push
<1>6. CASE W!QueueCallback(t)
  BY <1>0, <1>6, SameCardinality, Zenon DEF W!QueueCallback, W!MayQueueCallback, W!PushCallback, QueueKind, Push
<1>7. CASE W!JoinWaiters(t) \/ W!SemaphoreWait(t)
  BY <1>0, <1>7 DEF W!JoinWaiters, W!SemaphoreWait, LockPC, MoveKind
<1>8. CASE W!WakeLeader(t)
  BY <1>0, <1>8, Zenon DEF W!WakeLeader, W!WakeFirst, LockPC, ReleasePC, InRelease, MoveKind
<1>9. CASE W!RunNextCallback(t)
  BY <1>0, <1>9 DEF W!RunNextCallback, W!RunCallback, LockPC, ReleasePC, InRelease,
                    MoveKind, RunKind, Runs
<1>10. CASE W!WakeOthers(t)
  BY <1>0, <1>10 DEF W!WakeOthers, W!WakeFirst, LockPC, ReleasePC, InRelease, MoveKind
<1> QED
  BY <1>1, <1>2, <1>3, <1>4, <1>5, <1>6, <1>7, <1>8, <1>9, <1>10, Zenon DEF W!Step

----------------------------------------------------------------------------
(* What the lock steps change *)

\* The owner of a lock remains when only the control of another thread moves.
LEMMA OwnerStays ==
  ASSUME NEW t \in Thread, NEW lk, NEW l, NEW pc \in [Thread -> LockPC],
         Owner(lk, pc), pc[t] # "ACQUIRED", l # "ACQUIRED"
  PROVE  Owner(lk, [pc EXCEPT ![t] = l])
  BY DEF Owner

\* acquire() leaves its callback in the vector.
LEMMA PushElement ==
  ASSUME NEW t \in Thread, NEW pend, NEW pendn,
         NEW durable \in BOOLEAN, Push(t, pend, pendn), Vector(pend, durable, log_lsn),
         num[t] \in Nat, num[t] > 0, num[t] <= log_lsn,
         callback[t] \in Callback =>
            asked[callback[t]] = num[t] /\ (callback[t] \in DurableCallback <=> durable)
  PROVE  Vector(pendn, durable, log_lsn)
<1> DEFINE e == [num |-> num[t], cb |-> callback[t], at |-> Cardinality(pend)]
<1>1. e.num = num[t] /\ e.cb = callback[t]
  BY Zenon
<1>2. pendn = pend \cup {e}
  BY DEF Push
<1> HIDE DEF e
<1> QED
  BY <1>1, <1>2, Zenon DEF Vector

\* A callback that the locks have reached may run.
LEMMA RunReached ==
  ASSUME Types, RanReached, NEW c, Runs(c), UNCHANGED <<f_value, w_value, asked>>,
         c \in Callback => /\ asked[c] > 0 /\ asked[c] <= w_value
                           /\ c \in DurableCallback => asked[c] <= f_value
  PROVE  RanReached'
  BY DEF Types, RanReached, Runs

\* What no step inside acquire() or release() changes.
outside == <<f_value, w_value, logVars, callVars, lpc, num, ret, callback, asked>>

\* Which calls a thread inside a lock has made.
LEMMA Positions ==
  ASSUME IInv, NEW t \in Thread
  PROVE  /\ f_pc[t] \in AcquirePC =>
               lpc[t] \in {"flush_acquire", "stop_flush_acquire"} /\ w_pc[t] = "idle"
         /\ w_pc[t] \in AcquirePC => lpc[t] \in {"write_acquire", "stop_write_acquire"}
         /\ f_pc[t] \in ReleasePC => lpc[t] = "flush_releasing" /\ w_pc[t] = "idle"
         /\ w_pc[t] \in ReleasePC => lpc[t] = "write_releasing"
         /\ w_pc[t] \in AcquirePC \cup ReleasePC => f_pc[t] \in {"idle", "ACQUIRED"}
<1>1. lpc[t] \in Labels /\ Where(t)
  BY DEF IInv, LocalTypes, Thr
<1> QED
  BY <1>1, Zenon DEF Where, Labels, AcquirePC, ReleasePC, InAcquire, InRelease, Results

\* The callback of a call inside acquire() was given with the LSN of the call.
LEMMA CallArguments ==
  ASSUME IInv, NEW t \in Thread, callback[t] # NoCallback,
         f_pc[t] \in AcquirePC \/ w_pc[t] \in AcquirePC
  PROVE  /\ callback[t] \in AnyCallback /\ num[t] \in Nat /\ num[t] > 0 /\ num[t] <= log_lsn
         /\ callback[t] \in Callback =>
               /\ asked[callback[t]] = num[t]
               /\ callback[t] \in DurableCallback <=> f_pc[t] \in AcquirePC
<1>0. Thr(t) /\ num[t] \in Nat /\ callback[t] \in AnyCallback
  BY Zenon DEF IInv, LocalTypes
<1>1. /\ callback[t] = cb[t] /\ num[t] = lsn[t] /\ Calling(t)
      /\ op[t] = "flush" <=> f_pc[t] \in AcquirePC
  <2>1. CASE f_pc[t] \in AcquirePC
    BY <1>0, <2>1, Positions, Zenon DEF Thr, Where, Served, Called, Calling, Stopping, InAcquire
  <2>2. CASE w_pc[t] \in AcquirePC
    BY <1>0, <2>2, Positions, Zenon
    DEF Thr, Where, Served, Called, Calling, Stopping, InAcquire, AcquirePC
  <2> QED
    BY <2>1, <2>2, Zenon
<1> QED
  BY <1>0, <1>1, Zenon DEF Thr, Served, Called

\* The thread's own part of the invariant, and the others', after such a step
\* of flush_lock.
LEMMA FlushLockMoves ==
  ASSUME IInv, NEW t \in Thread, NEW l \in LockPC, NEW B \in SUBSET callbacks[t],
         UNCHANGED outside, UNCHANGED w_pc,
         f_pc' = [f_pc EXCEPT ![t] = l], callbacks' = [callbacks EXCEPT ![t] = B],
         \/ f_pc[t] \in AcquirePC /\ l \in InAcquire
         \/ f_pc[t] \in ReleasePC /\ l \in InRelease,
         l = "EXPIRED" => num[t] <= f_value,
         l = "CALLBACK_QUEUED" => callback[t] # NoCallback
  PROVE  LocalTypes' /\ Thr(t)' /\ OthersKept(t)
<1> USE DEF outside, logVars, disk, callVars
<1>0. LocalTypes /\ Thr(t) /\ f_pc'[t] = l /\ callbacks'[t] = B
  BY Zenon DEF IInv, LocalTypes
<1>1. LocalTypes'
  BY <1>0 DEF LocalTypes
<1>2. OthersKept(t)
  BY <1>0, SMTT(30) DEF IInv, Types, LocalTypes, OthersKept, Grows, Gives, Still, Kept
<1>3. Where(t)'
  BY <1>0, Positions, Zenon DEF Thr, Where, Calling, Stopping
<1>4. Wrote(t)'
  BY <1>0, Zenon DEF Thr, Wrote, Latched
<1>5. Served(t)'
  BY <1>0, Positions, Zenon DEF Thr, Served, Calling
<1>6. Called(t)'
  BY <1>0, Positions, Zenon DEF Thr, Called, Calling, InAcquire, InRelease, AcquirePC, ReleasePC, Results
<1>7. Releasing(t)'
  BY <1>0, Positions, Zenon
  DEF Thr, Releasing, Vector, InAcquire, InRelease, AcquirePC, ReleasePC, Results
<1> QED
  BY <1>1, <1>2, <1>3, <1>4, <1>5, <1>6, <1>7, Zenon DEF Thr

\* The thread's own part of the invariant, and the others', after such a step
\* of write_lock.
LEMMA WriteLockMoves ==
  ASSUME IInv, NEW t \in Thread, NEW l \in LockPC, NEW B \in SUBSET callbacks[t],
         UNCHANGED outside, UNCHANGED f_pc,
         w_pc' = [w_pc EXCEPT ![t] = l], callbacks' = [callbacks EXCEPT ![t] = B],
         \/ w_pc[t] \in AcquirePC /\ l \in InAcquire
         \/ w_pc[t] \in ReleasePC /\ l \in InRelease,
         l = "EXPIRED" => num[t] <= w_value,
         l = "CALLBACK_QUEUED" => callback[t] # NoCallback
  PROVE  LocalTypes' /\ Thr(t)' /\ OthersKept(t)
<1> USE DEF outside, logVars, disk, callVars
<1>0. LocalTypes /\ Thr(t) /\ w_pc'[t] = l /\ callbacks'[t] = B
  BY Zenon DEF IInv, LocalTypes
<1>1. LocalTypes'
  BY <1>0 DEF LocalTypes
<1>2. OthersKept(t)
  BY <1>0, SMTT(30) DEF IInv, Types, LocalTypes, OthersKept, Grows, Gives, Still, Kept
<1>3. Where(t)'
  BY <1>0, Positions, Zenon DEF Thr, Where, Calling, Stopping
<1>4. Wrote(t)'
  BY <1>0, Zenon DEF Thr, Wrote, Latched
<1>5. Served(t)'
  BY <1>0, Positions, Zenon DEF Thr, Served, Calling
<1>6. Called(t)'
  BY <1>0, Positions, Zenon DEF Thr, Called, Calling, InAcquire, InRelease, AcquirePC, ReleasePC, Results
<1>7. Releasing(t)'
  BY <1>0, Positions, Zenon
  DEF Thr, Releasing, Vector, InAcquire, InRelease, AcquirePC, ReleasePC, Results
<1> QED
  BY <1>1, <1>2, <1>3, <1>4, <1>5, <1>6, <1>7, Zenon DEF Thr

\* Every step inside a call of flush_lock keeps the invariant.
LEMMA FlushLockGood ==
  ASSUME IInv, NEW t \in Thread, F!Step(t), UNCHANGED outside,
         UNCHANGED <<w_lock, w_pending_callbacks, w_pc>>
  PROVE  Good(t)
<1> USE DEF outside, logVars, disk, callVars
<1>0. /\ Types /\ LocalTypes /\ Shared /\ Owners /\ Thr(t)
      /\ callbacks = [callbacks EXCEPT ![t] = callbacks[t]] /\ f_pc = [f_pc EXCEPT ![t] = @]
  BY Zenon DEF IInv, LocalTypes
<1>k. Kinds(t, f_pc, f_pc', f_lock, f_lock', f_pending_callbacks, f_pending_callbacks', f_value)
  BY <1>0, FlushLockKinds, Zenon DEF LocalTypes
<1>t. /\ AcquirePC \subseteq InAcquire /\ ReleasePC \subseteq InRelease
      /\ InAcquire \cup InRelease \subseteq LockPC
      /\ "ACQUIRED" \notin AcquirePC \cup InRelease /\ "ACQUIRED" \in InAcquire
      /\ "EXPIRED" \in InAcquire /\ "CALLBACK_QUEUED" \in InAcquire
      /\ {"EXPIRED", "CALLBACK_QUEUED"} \cap (AcquirePC \cup InRelease) = {}
  BY Zenon DEF AcquirePC, ReleasePC, InAcquire, InRelease, Results, LockPC
<1>1. CASE MoveKind(t, f_pc, f_pc', f_lock, f_lock', f_pending_callbacks, f_pending_callbacks')
  <2>1. PICK l \in LockPC :
           /\ f_pc' = [f_pc EXCEPT ![t] = l]
           /\ \/ f_pc[t] \in AcquirePC /\ l \in AcquirePC
              \/ f_pc[t] \in ReleasePC /\ l \in InRelease
    BY <1>1, Zenon DEF MoveKind
  <2>2. UNCHANGED <<f_lock, f_pending_callbacks, callbacks, ran>>
    BY <1>1, Zenon DEF MoveKind
  <2>3. LocalTypes' /\ Thr(t)' /\ OthersKept(t)
    BY <1>0, <1>t, <2>1, <2>2, FlushLockMoves, Zenon
  <2>4. Owner(f_lock', f_pc')
    <3>1. f_pc[t] # "ACQUIRED" /\ l # "ACQUIRED"
      BY <1>t, <2>1, Zenon DEF ReleasePC
    <3> QED
      BY <1>0, <2>1, <2>2, <3>1, OwnerStays, Zenon DEF LocalTypes, Owners
  <2>5. Types' /\ Shared' /\ Owners'
    BY <1>0, <2>2, <2>4, Zenon DEF Types, Shared, Vector, RanReached, Owners, Owner
  <2> QED
    BY <2>3, <2>5, Zenon DEF Good
<1>2. CASE ExpireKind(t, f_pc, f_pc', f_lock, f_lock', f_pending_callbacks,
                      f_pending_callbacks', f_value)
  <2>1. /\ f_pc[t] \in AcquirePC /\ f_pc' = [f_pc EXCEPT ![t] = "EXPIRED"]
        /\ num[t] <= f_value /\ Runs(callback[t])
        /\ UNCHANGED <<f_lock, f_pending_callbacks, callbacks>>
    BY <1>2, Zenon DEF ExpireKind
  <2>2. LocalTypes' /\ Thr(t)' /\ OthersKept(t)
    BY <1>0, <1>t, <2>1, FlushLockMoves, Zenon
  <2>3. Owner(f_lock', f_pc')
    <3>1. f_pc[t] # "ACQUIRED"
      BY <1>t, <2>1, Zenon
    <3> QED
      BY <1>0, <2>1, <3>1, OwnerStays, Zenon DEF LocalTypes, Owners
  <2>4. callback[t] \in Callback =>
           /\ asked[callback[t]] > 0 /\ asked[callback[t]] <= w_value
           /\ callback[t] \in DurableCallback => asked[callback[t]] <= f_value
    BY <1>0, <2>1, CallArguments, LogConstants, SMTT(30) DEF Types, Shared
  <2>5. RanReached'
    BY <1>0, <2>1, <2>4, RunReached, Zenon DEF Shared
  <2>6. Types' /\ Shared' /\ Owners'
    BY <1>0, <2>1, <2>3, <2>5, Zenon DEF Types, Shared, Vector, Owners, Owner
  <2> QED
    BY <2>2, <2>6, Zenon DEF Good
<1>3. CASE TakeKind(t, f_pc, f_pc', f_lock, f_lock', f_pending_callbacks, f_pending_callbacks')
  <2>1. /\ f_pc[t] \in AcquirePC /\ f_pc' = [f_pc EXCEPT ![t] = "ACQUIRED"]
        /\ ~f_lock /\ f_lock' = TRUE /\ UNCHANGED <<callbacks, ran>>
        /\ IF callback[t] # NoCallback THEN Push(t, f_pending_callbacks, f_pending_callbacks')
                                       ELSE f_pending_callbacks' = f_pending_callbacks
    BY <1>3, Zenon DEF TakeKind
  <2>2. LocalTypes' /\ Thr(t)' /\ OthersKept(t)
    BY <1>0, <1>t, <2>1, FlushLockMoves, Zenon
  <2>3. Owner(f_lock', f_pc')
    <3>1. Owner(f_lock, f_pc) /\ f_pc \in [Thread -> LockPC]
      BY <1>0, Zenon DEF LocalTypes, Owners
    <3> QED
      BY <2>1, <3>1, Zenon DEF Owner
  <2>4. Vector(f_pending_callbacks', TRUE, log_lsn)
    <3>1. CASE callback[t] = NoCallback
      BY <1>0, <2>1, <3>1, Zenon DEF Types, Shared
    <3>2. CASE callback[t] # NoCallback
      BY <1>0, <2>1, <3>2, CallArguments, PushElement, Zenon DEF Types, Shared
    <3> QED
      BY <3>1, <3>2, Zenon
  <2>5. f_lock' \in BOOLEAN
    BY <2>1, Zenon
  <2>6. Types' /\ Shared' /\ Owners'
    BY <1>0, <2>1, <2>3, <2>4, <2>5, Zenon DEF Types, Shared, Vector, RanReached, Owners, Owner
  <2> QED
    BY <2>2, <2>6 DEF Good
<1>4. CASE QueueKind(t, f_pc, f_pc', f_lock, f_lock', f_pending_callbacks, f_pending_callbacks')
  <2>1. /\ f_pc[t] \in AcquirePC /\ f_pc' = [f_pc EXCEPT ![t] = "CALLBACK_QUEUED"]
        /\ UNCHANGED <<f_lock, callbacks, ran>>
        /\ callback[t] # NoCallback /\ Push(t, f_pending_callbacks, f_pending_callbacks')
    BY <1>4, Zenon DEF QueueKind
  <2>2. LocalTypes' /\ Thr(t)' /\ OthersKept(t)
    BY <1>0, <1>t, <2>1, FlushLockMoves, Zenon
  <2>3. Owner(f_lock', f_pc')
    <3>1. f_pc[t] # "ACQUIRED"
      BY <1>t, <2>1, Zenon
    <3> QED
      BY <1>0, <2>1, <3>1, OwnerStays, Zenon DEF LocalTypes, Owners
  <2>4. Vector(f_pending_callbacks', TRUE, log_lsn)
    BY <1>0, <2>1, CallArguments, PushElement, Zenon DEF Types, Shared
  <2>5. Types' /\ Shared' /\ Owners'
    BY <1>0, <2>1, <2>3, <2>4, Zenon DEF Types, Shared, Vector, RanReached, Owners, Owner
  <2> QED
    BY <2>2, <2>5 DEF Good
<1>5. CASE RunKind(t, f_pc, f_pc', f_lock, f_lock', f_pending_callbacks, f_pending_callbacks')
  <2>1. f_pc[t] \in ReleasePC /\ UNCHANGED <<f_pc, f_lock, f_pending_callbacks>>
    BY <1>5, Zenon DEF RunKind
  <2>2. PICK c \in callbacks[t] :
           Runs(c.cb) /\ callbacks' = [callbacks EXCEPT ![t] = callbacks[t] \ {c}]
    BY <1>5, Zenon DEF RunKind
  <2>3. LocalTypes' /\ Thr(t)' /\ OthersKept(t)
    <3>1. callbacks[t] \ {c} \in SUBSET callbacks[t] /\ f_pc[t] \in LockPC
      BY <1>0, Zenon DEF LocalTypes
    <3> QED
      BY <1>0, <1>t, <2>1, <2>2, <3>1, FlushLockMoves, Zenon
  <2>4. RanReached'
    <3>1. /\ c.num \in Nat /\ c.num > 0 /\ c.num <= f_value /\ f_value <= w_value
          /\ c.cb \in Callback => asked[c.cb] = c.num /\ c.cb \in DurableCallback
      BY <1>0, <2>1, Zenon DEF Types, LocalTypes, Shared, Thr, Releasing, Vector
    <3> QED
      BY <1>0, <2>2, <3>1, RunReached, SMTT(30) DEF Types, Shared
  <2>5. Types' /\ Shared' /\ Owners'
    BY <1>0, <2>1, <2>4, Zenon DEF Types, Shared, Vector, Owners, Owner
  <2> QED
    BY <2>3, <2>5, Zenon DEF Good
<1> QED
  BY <1>k, <1>1, <1>2, <1>3, <1>4, <1>5, Zenon DEF Kinds

\* Every step inside a call of write_lock keeps the invariant.
LEMMA WriteLockGood ==
  ASSUME IInv, NEW t \in Thread, W!Step(t), UNCHANGED outside,
         UNCHANGED <<f_lock, f_pending_callbacks, f_pc>>
  PROVE  Good(t)
<1> USE DEF outside, logVars, disk, callVars
<1>0. /\ Types /\ LocalTypes /\ Shared /\ Owners /\ Thr(t)
      /\ callbacks = [callbacks EXCEPT ![t] = callbacks[t]] /\ w_pc = [w_pc EXCEPT ![t] = @]
  BY Zenon DEF IInv, LocalTypes
<1>k. Kinds(t, w_pc, w_pc', w_lock, w_lock', w_pending_callbacks, w_pending_callbacks', w_value)
  BY <1>0, WriteLockKinds, Zenon DEF LocalTypes
<1>t. /\ AcquirePC \subseteq InAcquire /\ ReleasePC \subseteq InRelease
      /\ InAcquire \cup InRelease \subseteq LockPC
      /\ "ACQUIRED" \notin AcquirePC \cup InRelease /\ "ACQUIRED" \in InAcquire
      /\ "EXPIRED" \in InAcquire /\ "CALLBACK_QUEUED" \in InAcquire
      /\ {"EXPIRED", "CALLBACK_QUEUED"} \cap (AcquirePC \cup InRelease) = {}
  BY DEF AcquirePC, ReleasePC, InAcquire, InRelease, Results, LockPC
<1>1. CASE MoveKind(t, w_pc, w_pc', w_lock, w_lock', w_pending_callbacks, w_pending_callbacks')
  <2>1. PICK l \in LockPC :
           /\ w_pc' = [w_pc EXCEPT ![t] = l]
           /\ \/ w_pc[t] \in AcquirePC /\ l \in AcquirePC
              \/ w_pc[t] \in ReleasePC /\ l \in InRelease
    BY <1>1, Zenon DEF MoveKind
  <2>2. UNCHANGED <<w_lock, w_pending_callbacks, callbacks, ran>>
    BY <1>1 DEF MoveKind
  <2>3. LocalTypes' /\ Thr(t)' /\ OthersKept(t)
    BY <1>0, <1>t, <2>1, <2>2, WriteLockMoves, Zenon
  <2>4. Owner(w_lock', w_pc')
    <3>1. w_pc[t] # "ACQUIRED" /\ l # "ACQUIRED"
      BY <1>t, <2>1 DEF ReleasePC
    <3> QED
      BY <1>0, <2>1, <2>2, <3>1, OwnerStays, Zenon DEF LocalTypes, Owners
  <2>5. Types' /\ Shared' /\ Owners'
    BY <1>0, <2>2, <2>4, Zenon DEF Types, Shared, Vector, RanReached, Owners, Owner
  <2> QED
    BY <2>3, <2>5 DEF Good
<1>2. CASE ExpireKind(t, w_pc, w_pc', w_lock, w_lock', w_pending_callbacks,
                      w_pending_callbacks', w_value)
  <2>1. /\ w_pc[t] \in AcquirePC /\ w_pc' = [w_pc EXCEPT ![t] = "EXPIRED"]
        /\ num[t] <= w_value /\ Runs(callback[t])
        /\ UNCHANGED <<w_lock, w_pending_callbacks, callbacks>>
    BY <1>2, Zenon DEF ExpireKind
  <2>2. LocalTypes' /\ Thr(t)' /\ OthersKept(t)
    BY <1>0, <1>t, <2>1, WriteLockMoves, Zenon
  <2>3. Owner(w_lock', w_pc')
    <3>1. w_pc[t] # "ACQUIRED"
      BY <1>t, <2>1, Zenon
    <3> QED
      BY <1>0, <2>1, <3>1, OwnerStays, Zenon DEF LocalTypes, Owners
  <2>4. callback[t] \in Callback =>
           /\ asked[callback[t]] > 0 /\ asked[callback[t]] <= w_value
           /\ callback[t] \in DurableCallback => asked[callback[t]] <= f_value
    <3>1. f_pc[t] \notin AcquirePC
      BY <2>1, Positions, Zenon
    <3>2. callback[t] \in Callback => callback[t] # NoCallback
      BY LogConstants, Zenon
    <3>3. callback[t] \in Callback => /\ num[t] > 0 /\ asked[callback[t]] = num[t]
                                      /\ callback[t] \notin DurableCallback
      BY <2>1, <3>1, <3>2, CallArguments, Zenon
    <3> QED
      BY <2>1, <3>3, Zenon
  <2>5. RanReached'
    BY <1>0, <2>1, <2>4, RunReached, Zenon DEF Shared
  <2>6. Types' /\ Shared' /\ Owners'
    BY <1>0, <2>1, <2>3, <2>5, Zenon DEF Types, Shared, Vector, Owners, Owner
  <2> QED
    BY <2>2, <2>6 DEF Good
<1>3. CASE TakeKind(t, w_pc, w_pc', w_lock, w_lock', w_pending_callbacks, w_pending_callbacks')
  <2>1. /\ w_pc[t] \in AcquirePC /\ w_pc' = [w_pc EXCEPT ![t] = "ACQUIRED"]
        /\ ~w_lock /\ w_lock' = TRUE /\ UNCHANGED <<callbacks, ran>>
        /\ IF callback[t] # NoCallback THEN Push(t, w_pending_callbacks, w_pending_callbacks')
                                       ELSE w_pending_callbacks' = w_pending_callbacks
    BY <1>3 DEF TakeKind
  <2>2. LocalTypes' /\ Thr(t)' /\ OthersKept(t)
    BY <1>0, <1>t, <2>1, WriteLockMoves, Zenon
  <2>3. Owner(w_lock', w_pc')
    <3>1. Owner(w_lock, w_pc) /\ w_pc \in [Thread -> LockPC]
      BY <1>0, Zenon DEF LocalTypes, Owners
    <3> QED
      BY <2>1, <3>1 DEF Owner
  <2>4. Vector(w_pending_callbacks', FALSE, log_lsn)
    <3>1. CASE callback[t] = NoCallback
      BY <1>0, <2>1, <3>1, Zenon DEF Types, Shared
    <3>2. CASE callback[t] # NoCallback
      BY <1>0, <2>1, <3>2, CallArguments, Positions, PushElement, Zenon DEF Types, Shared, AcquirePC
    <3> QED
      BY <3>1, <3>2, Zenon
  <2>5. w_lock' \in BOOLEAN
    BY <2>1, Zenon
  <2>6. Types' /\ Shared' /\ Owners'
    BY <1>0, <2>1, <2>3, <2>4, <2>5, Zenon DEF Types, Shared, Vector, RanReached, Owners, Owner
  <2> QED
    BY <2>2, <2>6 DEF Good
<1>4. CASE QueueKind(t, w_pc, w_pc', w_lock, w_lock', w_pending_callbacks, w_pending_callbacks')
  <2>1. /\ w_pc[t] \in AcquirePC /\ w_pc' = [w_pc EXCEPT ![t] = "CALLBACK_QUEUED"]
        /\ UNCHANGED <<w_lock, callbacks, ran>>
        /\ callback[t] # NoCallback /\ Push(t, w_pending_callbacks, w_pending_callbacks')
    BY <1>4 DEF QueueKind
  <2>2. LocalTypes' /\ Thr(t)' /\ OthersKept(t)
    BY <1>0, <1>t, <2>1, WriteLockMoves, Zenon
  <2>3. Owner(w_lock', w_pc')
    <3>1. w_pc[t] # "ACQUIRED"
      BY <1>t, <2>1
    <3> QED
      BY <1>0, <2>1, <3>1, OwnerStays, Zenon DEF LocalTypes, Owners
  <2>4. Vector(w_pending_callbacks', FALSE, log_lsn)
    BY <1>0, <2>1, CallArguments, Positions, PushElement, Zenon DEF Types, Shared, AcquirePC
  <2>5. Types' /\ Shared' /\ Owners'
    BY <1>0, <2>1, <2>3, <2>4, Zenon DEF Types, Shared, Vector, RanReached, Owners, Owner
  <2> QED
    BY <2>2, <2>5 DEF Good
<1>5. CASE RunKind(t, w_pc, w_pc', w_lock, w_lock', w_pending_callbacks, w_pending_callbacks')
  <2>1. w_pc[t] \in ReleasePC /\ UNCHANGED <<w_pc, w_lock, w_pending_callbacks>>
    BY <1>5 DEF RunKind
  <2>2. PICK c \in callbacks[t] :
           Runs(c.cb) /\ callbacks' = [callbacks EXCEPT ![t] = callbacks[t] \ {c}]
    BY <1>5, Zenon DEF RunKind
  <2>3. LocalTypes' /\ Thr(t)' /\ OthersKept(t)
    <3>1. callbacks[t] \ {c} \in SUBSET callbacks[t] /\ w_pc[t] \in LockPC
      BY <1>0, Zenon DEF LocalTypes
    <3> QED
      BY <1>0, <1>t, <2>1, <2>2, <3>1, WriteLockMoves, Zenon
  <2>4. RanReached'
    <3>1. /\ c.num \in Nat /\ c.num > 0 /\ c.num <= w_value
          /\ c.cb \in Callback => asked[c.cb] = c.num /\ c.cb \notin DurableCallback
      BY <1>0, <2>1, Zenon DEF Types, LocalTypes, Shared, Thr, Releasing, Vector
    <3> QED
      BY <1>0, <2>2, <3>1, RunReached, Zenon DEF Types, Shared
  <2>5. Types' /\ Shared' /\ Owners'
    BY <1>0, <2>1, <2>4, Zenon DEF Types, Shared, Vector, Owners, Owner
  <2> QED
    BY <2>3, <2>5 DEF Good
<1> QED
  BY <1>k, <1>1, <1>2, <1>3, <1>4, <1>5, Zenon DEF Kinds

----------------------------------------------------------------------------
(* release() *)

\* Compacting a vector changes no element but for its index.
LEMMA CompactElements ==
  ASSUME NEW S
  PROVE  \A d \in F!Compact(S) : \E c \in S : d.num = c.num /\ d.cb = c.cb
  BY DEF F!Compact

\* The two instances compact a vector in the same way.
LEMMA SameCompact == ASSUME NEW S PROVE W!Compact(S) = F!Compact(S)
<1>1. \A c : W!Before(c, S) = F!Before(c, S)
  BY DEF W!Before, F!Before
<1> QED
  BY <1>1, SameCardinality, Zenon DEF W!Compact, F!Compact

\* What release(n) takes from a vector and what it leaves there.
Due(pend, n) == F!Compact({c \in pend : c.num <= n})
Left(pend, n) == F!Compact({c \in pend : c.num > n})

\* release(n) splits the vector into what is due and what is left, which is
\* nothing when n is the end of the log.
LEMMA SplitVector ==
  ASSUME NEW pend, NEW durable \in BOOLEAN, Vector(pend, durable, log_lsn),
         NEW n \in Nat, log_lsn \in Nat,
         NEW due, due = Due(pend, n), NEW left, left = Left(pend, n)
  PROVE  /\ Vector(due, durable, n) /\ Vector(left, durable, log_lsn)
         /\ n = log_lsn => left = {}
<1> DEFINE D == {c \in pend : c.num <= n}
           E == {c \in pend : c.num > n}
<1>1. Vector(D, durable, n) /\ Vector(E, durable, log_lsn)
  BY Zenon DEF Vector
<1>2. n = log_lsn => \A c \in E : FALSE
  BY DEF Vector
<1>3. due = F!Compact(D) /\ left = F!Compact(E)
  BY DEF Due, Left
<1> HIDE DEF D, E
<1>4. \A d \in due : \E c \in D : d.num = c.num /\ d.cb = c.cb
  BY <1>3, CompactElements, Zenon
<1>5. \A d \in left : \E c \in E : d.num = c.num /\ d.cb = c.cb
  BY <1>3, CompactElements, Zenon
<1>6. Vector(due, durable, n)
  <2>1. ASSUME NEW d \in due
        PROVE  /\ d.num \in Nat /\ d.num > 0 /\ d.num <= n
               /\ d.cb \in Callback =>
                     asked[d.cb] = d.num /\ (d.cb \in DurableCallback <=> durable)
    <3>1. PICK c \in D : d.num = c.num /\ d.cb = c.cb
      BY <1>4
    <3> QED
      BY <1>1, <3>1, Zenon DEF Vector
  <2> QED
    BY <2>1, Zenon DEF Vector
<1>7. Vector(left, durable, log_lsn)
  <2>1. ASSUME NEW d \in left
        PROVE  /\ d.num \in Nat /\ d.num > 0 /\ d.num <= log_lsn
               /\ d.cb \in Callback =>
                     asked[d.cb] = d.num /\ (d.cb \in DurableCallback <=> durable)
    <3>1. PICK c \in E : d.num = c.num /\ d.cb = c.cb
      BY <1>5
    <3> QED
      BY <1>1, <3>1, Zenon DEF Vector
  <2> QED
    BY <2>1, Zenon DEF Vector
<1>8. n = log_lsn => left = {}
  BY <1>2, <1>5, Zenon
<1> QED
  BY <1>6, <1>7, <1>8, Zenon

\* A count of nothing is 0.
LEMMA CountNothing == Cardinality({}) = 0
<1> DEFINE Count(f) == [T \in SUBSET {} |-> IF T = {} THEN 0
                                            ELSE 1 + f[T \ {CHOOSE x : x \in T}]]
           CS == CHOOSE f : f = Count(f)
<1>1. PICK g : g = [T \in SUBSET {} |-> 0]
  OBVIOUS
<1>2. \A f : Count(f) = [T \in SUBSET {} |-> 0]
  OBVIOUS
<1>3. CS = Count(CS)
  BY <1>1, <1>2, Zenon
<1>4. CS[{}] = 0
  BY <1>2, <1>3
<1> QED
  BY <1>4 DEF Cardinality

\* release() runs the callbacks of S, those of the vector that do not fit its array.
LEMMA RunMany ==
  ASSUME NEW due, NEW S \in SUBSET due,
         ran' = [c \in Callback |-> ran[c] + Cardinality({d \in S : d.cb = c})]
  PROVE  \A c \in Callback : ran'[c] # 0 => ran[c] # 0 \/ \E d \in due : d.cb = c
<1>1. SUFFICES ASSUME NEW c \in Callback, ran[c] = 0, ~\E d \in due : d.cb = c
               PROVE  ran'[c] = 0
  BY Zenon
<1>2. {d \in S : d.cb = c} = {}
  BY <1>1, Zenon
<1>3. ran'[c] = ran[c] + Cardinality({d \in S : d.cb = c})
  BY Zenon
<1> QED
  BY <1>1, <1>2, <1>3, CountNothing

\* What write_lock.release(n) does, apart from choosing whom to wake.
LEMMA WriteReleaseEffect ==
  ASSUME NEW t \in Thread, NEW n \in Nat, W!Release(t, n)
  PROVE  /\ w_pc[t] = "ACQUIRED" /\ w_pc' = [w_pc EXCEPT ![t] = "wake_leader"]
         /\ w_lock' = FALSE /\ w_value' = n
         /\ w_pending_callbacks' = Left(w_pending_callbacks, n)
         /\ \E B \in SUBSET Due(w_pending_callbacks, n) :
               callbacks' = [callbacks EXCEPT ![t] = B]
         /\ \E S \in SUBSET Due(w_pending_callbacks, n) :
               ran' = [c \in Callback |-> ran[c] + Cardinality({d \in S : d.cb = c})]
         /\ \E r : /\ ret' = [ret EXCEPT ![t] = r]
                   /\ r = 0 \/ \E c \in Left(w_pending_callbacks, n) : r = c.num
         /\ UNCHANGED <<num, callback>>
<1> DEFINE due == W!Due(n)
           left == W!Left(n)
           B == {c \in due : c.at < CallbackSlots}
           S == {c \in due : c.at >= CallbackSlots}
<1>1. /\ w_pc[t] = "ACQUIRED" /\ W!Goto(t, "wake_leader")
      /\ w_lock' = FALSE /\ w_value' = n /\ w_pending_callbacks' = left
      /\ callbacks' = [callbacks EXCEPT ![t] = B] /\ W!RunCallbacks(S)
      /\ \/ \E c \in left : ret' = [ret EXCEPT ![t] = c.num]
         \/ ret' = [ret EXCEPT ![t] = 0]
      /\ UNCHANGED W!argVars
  BY Zenon DEF W!Release
<1>2. due = Due(w_pending_callbacks, n) /\ left = Left(w_pending_callbacks, n)
  BY SameCompact, Zenon DEF W!Due, W!Left, Due, Left
<1>3. ran' = [c \in Callback |-> ran[c] + Cardinality({d \in S : d.cb = c})]
  BY <1>1, SameCardinality, Zenon DEF W!RunCallbacks
<1>4. B \in SUBSET due /\ S \in SUBSET due
  OBVIOUS
<1> HIDE DEF due, left, B, S
<1> QED
  BY <1>1, <1>2, <1>3, <1>4, Zenon DEF W!Goto, W!argVars

\* write_lock.release() publishes what has been written and takes the callbacks
\* that it reaches.
LEMMA WriteReleaseGood ==
  ASSUME IInv, NEW t \in Thread, WriteRelease(t)
  PROVE  Good(t)
<1> DEFINE n == target[t]
           due == Due(w_pending_callbacks, n)
           left == Left(w_pending_callbacks, n)
<1>0. /\ Types /\ LocalTypes /\ Shared /\ Owners /\ Thr(t) /\ n \in Nat
      /\ lpc[t] = "write_release" /\ lpc' = [lpc EXCEPT ![t] = "write_releasing"]
      /\ UNCHANGED <<fLock, f_pc, asked, logVars, callVars>>
  BY Zenon DEF IInv, LocalTypes, WriteRelease, Goto
<1>1. /\ w_pc[t] = "ACQUIRED" /\ w_pc' = [w_pc EXCEPT ![t] = "wake_leader"]
      /\ w_lock' = FALSE /\ w_value' = n /\ w_pending_callbacks' = left
      /\ \E B \in SUBSET due : callbacks' = [callbacks EXCEPT ![t] = B]
      /\ \E S \in SUBSET due :
            ran' = [c \in Callback |-> ran[c] + Cardinality({d \in S : d.cb = c})]
      /\ \E r : /\ ret' = [ret EXCEPT ![t] = r]
                /\ r = 0 \/ \E c \in left : r = c.num
      /\ UNCHANGED <<num, callback>>
  BY <1>0, WriteReleaseEffect, Zenon DEF WriteRelease
<1>2. w_value <= n /\ n <= write_lsn /\ (op[t] = "write_and_flush" => n = log_lsn)
  BY <1>0, Zenon DEF Thr, Wrote, Latched
<1> HIDE DEF n
<1>3. /\ Vector(due, FALSE, n) /\ Vector(left, FALSE, log_lsn)
      /\ n = log_lsn => left = {}
  <2>1. Vector(w_pending_callbacks, FALSE, log_lsn) /\ log_lsn \in Nat
    BY <1>0, Zenon DEF Types, Shared
  <2> QED
    BY <1>0, <2>1, SplitVector, Zenon
<1> HIDE DEF due, left
<1>4. PICK B \in SUBSET due : callbacks' = [callbacks EXCEPT ![t] = B]
  BY <1>1, Zenon
<1>5. \A c \in Callback : ran'[c] # 0 => ran[c] # 0 \/ \E d \in due : d.cb = c
  BY <1>1, RunMany, Zenon
<1>r. PICK r : ret' = [ret EXCEPT ![t] = r] /\ (r = 0 \/ \E c \in left : r = c.num)
  BY <1>1, Zenon
<1>6. r \in Nat /\ r <= log_lsn /\ (op[t] = "write_and_flush" => r = 0)
  BY <1>0, <1>r, <1>2, <1>3, SMTT(30) DEF Types, Vector
<1>7. OthersKept(t)
  <2>1. Grows
    <3>1. /\ w_value <= w_value' /\ UNCHANGED <<f_value, log_lsn, disk_written, disk_durable>>
      BY <1>0, <1>1, <1>2, Zenon DEF fLock, logVars, disk
    <3>2. /\ f_value \in Nat /\ w_value \in Nat /\ log_lsn \in Nat
          /\ disk_written \in Nat /\ disk_durable \in Nat
      BY <1>0, Zenon DEF Types
    <3> QED
      BY <3>1, <3>2 DEF Grows
  <2>2. Gives(t)
    BY <1>0, Zenon DEF Gives, callVars
  <2>3. ASSUME NEW u \in Thread \ {t}
        PROVE  Still(u) /\ Kept(u)
    <3>1. w_pc[u] # "ACQUIRED"
      BY <1>0, <1>1, <2>3, Zenon DEF Owners, Owner
    <3>2. Still(u)
      BY <1>0, <1>1, <1>4, <1>r, <2>3, Zenon DEF LocalTypes, Still, callVars
    <3> QED
      BY <1>0, <1>1, <3>1, <3>2, Zenon DEF Kept, fLock, logVars, disk
  <2> QED
    BY <2>1, <2>2, <2>3, Zenon DEF OthersKept
<1>8. LocalTypes'
  BY <1>0, <1>1, <1>3, <1>4, <1>r, <1>6, Zenon
  DEF LocalTypes, Labels, LockPC, ReleasePC, callVars
<1>9. Types' /\ Shared'
  <2>1. w_lock' \in BOOLEAN
    BY <1>1, Zenon
  <2>2. RanReached'
    <3>1. /\ RanReached /\ asked' = asked /\ f_value' = f_value /\ w_value' = n
          /\ n \in Nat /\ f_value \in Nat /\ w_value \in Nat /\ asked \in [Callback -> Nat]
      BY <1>0, <1>1, Zenon DEF Types, Shared, fLock
    <3>2. \A d \in due : /\ d.num > 0 /\ d.num <= n
                         /\ d.cb \in Callback => /\ asked[d.cb] = d.num
                                                /\ (d.cb \in DurableCallback <=> FALSE)
      BY <1>3, Zenon DEF Vector
    <3>3. ASSUME NEW c \in Callback, ran'[c] # 0
          PROVE  /\ asked[c] > 0
                 /\ asked[c] <= n /\ (c \in DurableCallback => asked[c] <= f_value)
      <4>1. CASE ran[c] # 0
        BY <1>2, <3>1, <4>1, SMTT(30) DEF RanReached
      <4>2. CASE \E d \in due : d.cb = c
        BY <1>2, <3>1, <3>2, <4>2, Zenon
      <4> QED
        BY <1>5, <3>3, <4>1, <4>2, Zenon
    <3> QED
      BY <3>1, <3>3, Zenon DEF RanReached
  <2> QED
    <3>1. f_value <= n
      <4>1. f_value \in Nat /\ w_value \in Nat /\ f_value <= w_value
        BY <1>0, Zenon DEF Types, Shared
      <4> QED
        BY <1>0, <1>2, <4>1
    <3> QED
      BY <1>0, <1>1, <1>2, <1>3, <2>1, <2>2, <3>1, Zenon
      DEF Types, Shared, Vector, fLock, logVars, disk
<1>10. Owners'
  BY <1>0, <1>1, Zenon DEF LocalTypes, Owners, Owner, fLock
<1>11. Thr(t)'
  <2>1. /\ lpc'[t] = "write_releasing" /\ w_pc'[t] = "wake_leader" /\ callbacks'[t] = B
        /\ ret'[t] = r
    BY <1>0, <1>1, <1>4, <1>r, <1>6, Zenon DEF LocalTypes
  <2>2. Where(t)'
    BY <1>0, <2>1, Zenon
    DEF Thr, Where, Calling, Stopping, InRelease, ReleasePC, callVars
  <2>3. Wrote(t)'
    <3>1. Latched(t)' <=> Latched(t)
      BY <1>0, <2>1, Zenon DEF Latched, callVars
    <3>2. target'[t] = n /\ w_value' = n /\ n \in Nat /\ UNCHANGED <<latch, log_lsn>>
      BY <1>0, <1>1, Zenon DEF callVars, logVars, n
    <3>3. (latch = t <=> Latched(t)) /\ (Latched(t) => n = log_lsn)
      BY <1>0, Zenon DEF Thr, Wrote, Latched, n
    <3>4. lpc'[t] = "write_releasing" /\ target'[t] <= w_value'
      BY <2>1, <3>2
    <3>5. (latch = t <=> Latched(t))'
      BY <3>1, <3>2, <3>3, Zenon
    <3>6. Latched(t)' => target'[t] = log_lsn'
      BY <3>1, <3>2, <3>3, Zenon
    <3> QED
      BY <3>4, <3>5, <3>6, Zenon DEF Wrote, Latched
  <2>4. Served(t)'
    BY <1>0, <1>1, <1>2, <2>1, Zenon
    DEF Types, LocalTypes, Thr, Served, Calling, callVars, logVars, disk, fLock
  <2>5. Called(t)'
    BY <1>0, <1>1, <2>1, Zenon
    DEF Thr, Where, Called, Calling, callVars, AcquirePC, InAcquire, Results
  <2>6. Releasing(t)'
    BY <1>0, <1>1, <1>3, <1>6, <2>1, Zenon DEF Thr, Where, Releasing, Vector, callVars, logVars,
       ReleasePC, InRelease
  <2> QED
    BY <2>2, <2>3, <2>4, <2>5, <2>6 DEF Thr
<1> QED
  BY <1>7, <1>8, <1>9, <1>10, <1>11, Zenon DEF Good

\* What flush_lock.release(n) does, apart from choosing whom to wake.
LEMMA FlushReleaseEffect ==
  ASSUME NEW t \in Thread, NEW n \in Nat, F!Release(t, n)
  PROVE  /\ f_pc[t] = "ACQUIRED" /\ f_pc' = [f_pc EXCEPT ![t] = "wake_leader"]
         /\ f_lock' = FALSE /\ f_value' = n
         /\ f_pending_callbacks' = Left(f_pending_callbacks, n)
         /\ \E B \in SUBSET Due(f_pending_callbacks, n) :
               callbacks' = [callbacks EXCEPT ![t] = B]
         /\ \E S \in SUBSET Due(f_pending_callbacks, n) :
               ran' = [c \in Callback |-> ran[c] + Cardinality({d \in S : d.cb = c})]
         /\ \E r : /\ ret' = [ret EXCEPT ![t] = r]
                   /\ r = 0 \/ \E c \in Left(f_pending_callbacks, n) : r = c.num
         /\ UNCHANGED <<num, callback>>
<1> DEFINE due == F!Due(n)
           left == F!Left(n)
           B == {c \in due : c.at < CallbackSlots}
           S == {c \in due : c.at >= CallbackSlots}
<1>1. /\ f_pc[t] = "ACQUIRED" /\ F!Goto(t, "wake_leader")
      /\ f_lock' = FALSE /\ f_value' = n /\ f_pending_callbacks' = left
      /\ callbacks' = [callbacks EXCEPT ![t] = B] /\ F!RunCallbacks(S)
      /\ \/ \E c \in left : ret' = [ret EXCEPT ![t] = c.num]
         \/ ret' = [ret EXCEPT ![t] = 0]
      /\ UNCHANGED F!argVars
  BY Zenon DEF F!Release
<1>2. due = Due(f_pending_callbacks, n) /\ left = Left(f_pending_callbacks, n)
  BY DEF F!Due, F!Left, Due, Left
<1>3. ran' = [c \in Callback |-> ran[c] + Cardinality({d \in S : d.cb = c})]
  BY <1>1, SameCardinality, Zenon DEF F!RunCallbacks
<1>4. B \in SUBSET due /\ S \in SUBSET due
  OBVIOUS
<1> HIDE DEF due, left, B, S
<1> QED
  BY <1>1, <1>2, <1>3, <1>4, Zenon DEF F!Goto, F!argVars

\* flush_lock.release() publishes what has been flushed and takes the callbacks
\* that it reaches.
LEMMA FlushReleaseGood ==
  ASSUME IInv, NEW t \in Thread, FlushRelease(t)
  PROVE  Good(t)
<1> DEFINE n == target[t]
           due == Due(f_pending_callbacks, n)
           left == Left(f_pending_callbacks, n)
<1>0. /\ Types /\ LocalTypes /\ Shared /\ Owners /\ Thr(t) /\ n \in Nat
      /\ lpc[t] = "flush_release" /\ lpc' = [lpc EXCEPT ![t] = "flush_releasing"]
      /\ UNCHANGED <<wLock, w_pc, asked, logVars, callVars>>
  BY Zenon DEF IInv, LocalTypes, FlushRelease, Goto
<1>1. /\ f_pc[t] = "ACQUIRED" /\ f_pc' = [f_pc EXCEPT ![t] = "wake_leader"]
      /\ f_lock' = FALSE /\ f_value' = n /\ f_pending_callbacks' = left
      /\ \E B \in SUBSET due : callbacks' = [callbacks EXCEPT ![t] = B]
      /\ \E S \in SUBSET due :
            ran' = [c \in Callback |-> ran[c] + Cardinality({d \in S : d.cb = c})]
      /\ \E r : /\ ret' = [ret EXCEPT ![t] = r]
                /\ r = 0 \/ \E c \in left : r = c.num
      /\ UNCHANGED <<num, callback>>
  BY <1>0, FlushReleaseEffect, Zenon DEF FlushRelease
<1>2. /\ f_value <= n /\ n <= w_value /\ n <= flushed_to_disk_lsn
      /\ (op[t] = "write_and_flush" => n = log_lsn)
  BY <1>0, Zenon DEF Thr, Wrote, Latched
<1> HIDE DEF n
<1>3. /\ Vector(due, TRUE, n) /\ Vector(left, TRUE, log_lsn)
      /\ n = log_lsn => left = {}
  <2>1. Vector(f_pending_callbacks, TRUE, log_lsn) /\ log_lsn \in Nat
    BY <1>0, Zenon DEF Types, Shared
  <2> QED
    BY <1>0, <2>1, SplitVector, Zenon
<1> HIDE DEF due, left
<1>4. PICK B \in SUBSET due : callbacks' = [callbacks EXCEPT ![t] = B]
  BY <1>1, Zenon
<1>5. \A c \in Callback : ran'[c] # 0 => ran[c] # 0 \/ \E d \in due : d.cb = c
  BY <1>1, RunMany, Zenon
<1>r. PICK r : ret' = [ret EXCEPT ![t] = r] /\ (r = 0 \/ \E c \in left : r = c.num)
  BY <1>1, Zenon
<1>6. r \in Nat /\ r <= log_lsn /\ (op[t] = "write_and_flush" => r = 0)
  BY <1>0, <1>r, <1>2, <1>3 DEF Types, Vector
<1>7. OthersKept(t)
  <2>1. Grows
    <3>1. /\ f_value <= f_value' /\ UNCHANGED <<w_value, log_lsn, disk_written, disk_durable>>
      BY <1>0, <1>1, <1>2, Zenon DEF wLock, logVars, disk
    <3>2. /\ f_value \in Nat /\ w_value \in Nat /\ log_lsn \in Nat
          /\ disk_written \in Nat /\ disk_durable \in Nat
      BY <1>0, Zenon DEF Types
    <3> QED
      BY <3>1, <3>2 DEF Grows
  <2>2. Gives(t)
    BY <1>0, Zenon DEF Gives, callVars
  <2>3. ASSUME NEW u \in Thread \ {t}
        PROVE  Still(u) /\ Kept(u)
    <3>1. f_pc[u] # "ACQUIRED"
      BY <1>0, <1>1, <2>3, Zenon DEF Owners, Owner
    <3>2. Still(u)
      BY <1>0, <1>1, <1>4, <1>r, <2>3, Zenon DEF LocalTypes, Still, callVars
    <3> QED
      BY <1>0, <1>1, <3>1, <3>2, Zenon DEF Kept, wLock, logVars, disk
  <2> QED
    BY <2>1, <2>2, <2>3, Zenon DEF OthersKept
<1>8. LocalTypes'
  BY <1>0, <1>1, <1>3, <1>4, <1>r, <1>6, Zenon
  DEF LocalTypes, Labels, LockPC, ReleasePC, callVars
<1>9. Types' /\ Shared'
  <2>1. f_lock' \in BOOLEAN
    BY <1>1, Zenon
  <2>2. RanReached'
    <3>1. /\ RanReached /\ asked' = asked /\ w_value' = w_value /\ f_value' = n
          /\ n \in Nat /\ f_value \in Nat /\ w_value \in Nat /\ asked \in [Callback -> Nat]
      BY <1>0, <1>1, Zenon DEF Types, Shared, wLock
    <3>2. \A d \in due : /\ d.num > 0 /\ d.num <= n
                         /\ d.cb \in Callback => /\ asked[d.cb] = d.num
                                                /\ (d.cb \in DurableCallback <=> TRUE)
      BY <1>3, Zenon DEF Vector
    <3>3. ASSUME NEW c \in Callback, ran'[c] # 0
          PROVE  /\ asked[c] > 0
                 /\ asked[c] <= w_value /\ (c \in DurableCallback => asked[c] <= n)
      <4>1. CASE ran[c] # 0
        BY <1>2, <3>1, <4>1, SMTT(30) DEF RanReached
      <4>2. CASE \E d \in due : d.cb = c
        BY <1>2, <3>1, <3>2, <4>2, SMTT(30)
      <4> QED
        BY <1>5, <3>3, <4>1, <4>2, Zenon
    <3> QED
      BY <3>1, <3>3, Zenon DEF RanReached
  <2> QED
    BY <1>0, <1>1, <1>2, <1>3, <1>5, <2>1, <2>2, Zenon
    DEF Types, Shared, Vector, wLock, logVars, disk
<1>10. Owners'
  BY <1>0, <1>1, Zenon DEF LocalTypes, Owners, Owner, wLock
<1>11. Thr(t)'
  <2>1. /\ lpc'[t] = "flush_releasing" /\ f_pc'[t] = "wake_leader" /\ callbacks'[t] = B
        /\ ret'[t] = r
    BY <1>0, <1>1, <1>4, <1>r, <1>6, Zenon DEF LocalTypes
  <2>2. Where(t)'
    BY <1>0, <2>1, Zenon
    DEF Thr, Where, Calling, Stopping, InRelease, ReleasePC, callVars
  <2>3. Wrote(t)'
    <3>1. Latched(t)' <=> Latched(t)
      BY <1>0, <2>1, Zenon DEF Latched, callVars
    <3>2. target'[t] = n /\ f_value' = n /\ n \in Nat /\ UNCHANGED <<latch, log_lsn>>
      BY <1>0, <1>1, Zenon DEF callVars, logVars, n
    <3>3. (latch = t <=> Latched(t)) /\ (Latched(t) => n = log_lsn)
      BY <1>0, Zenon DEF Thr, Wrote, Latched, n
    <3>4. lpc'[t] = "flush_releasing" /\ target'[t] <= f_value'
      BY <2>1, <3>2
    <3>5. (latch = t <=> Latched(t))'
      BY <3>1, <3>2, <3>3, Zenon
    <3>6. Latched(t)' => target'[t] = log_lsn'
      BY <3>1, <3>2, <3>3, Zenon
    <3> QED
      BY <3>4, <3>5, <3>6, Zenon DEF Wrote, Latched
  <2>4. Served(t)'
    BY <1>0, <1>1, <1>2, <2>1, Zenon
    DEF Types, LocalTypes, Thr, Served, Calling, callVars, logVars, disk, wLock
  <2>5. Called(t)'
    BY <1>0, <1>1, <2>1, Zenon
    DEF Thr, Where, Called, Calling, callVars, AcquirePC, InAcquire, Results
  <2>6. Releasing(t)'
    BY <1>0, <1>1, <1>3, <1>6, <2>1, Zenon DEF Thr, Where, Releasing, Vector, callVars, logVars,
       ReleasePC, InRelease
  <2> QED
    BY <2>2, <2>3, <2>4, <2>5, <2>6 DEF Thr
<1> QED
  BY <1>7, <1>8, <1>9, <1>10, <1>11 DEF Good

----------------------------------------------------------------------------
(* Calls of acquire() *)

\* The effect of entering acquire(n, c) on all but the program counters.
Enter(t, n, c) ==
    /\ num' = [num EXCEPT ![t] = n] /\ callback' = [callback EXCEPT ![t] = c]
    /\ asked' = [d \in Callback |-> IF d = c THEN n ELSE asked[d]]
    /\ UNCHANGED <<f_value, f_lock, f_pending_callbacks, w_value, w_lock, w_pending_callbacks,
                   logVars, callVars, callbacks, ret, ran>>

\* A callback is passed to acquire() once, so the numbers that are stored with
\* the others stay right.
LEMMA EnterKeeps ==
  ASSUME IInv, NEW t \in Thread, NEW n \in Nat, NEW c \in {cb[t], NoCallback}, n > 0,
         Enter(t, n, c), c \in Callback => asked[c] = 0,
         NEW l \in Labels, lpc' = [lpc EXCEPT ![t] = l],
         \/ f_pc' = [f_pc EXCEPT ![t] = "spin"] /\ UNCHANGED w_pc
         \/ w_pc' = [w_pc EXCEPT ![t] = "spin"] /\ UNCHANGED f_pc
  PROVE  Types' /\ LocalTypes' /\ Shared' /\ OthersKept(t)
<1> USE DEF Enter, logVars, disk, callVars
<1>0. Types /\ LocalTypes /\ Shared /\ Thr(t)
  BY Zenon DEF IInv
<1>1. asked' \in [Callback -> Nat] /\ \A d \in Callback : asked[d] > 0 => asked'[d] = asked[d]
  BY <1>0, SMTT(30) DEF Types
<1>2. Types'
  BY <1>0, <1>1, Zenon DEF Types
<1>3. LocalTypes'
  BY <1>0, Zenon DEF LocalTypes, LockPC, AcquirePC
<1>4. Shared'
  BY <1>0, <1>1, Zenon DEF Types, Shared, Vector, RanReached
<1>5. OthersKept(t)
  <2>1. \A u \in Thread \ {t} : Still(u)
    BY <1>0, Zenon DEF LocalTypes, Still
  <2>2. \A u \in Thread \ {t}, d \in Callback :
           asked'[d] # asked[d] => asked[d] = 0 /\ cb[u] # d
    BY <1>0, LogConstants, Zenon DEF Types, Thr, Called
  <2> QED
    BY <1>0, <2>1, <2>2, SMTT(30) DEF Types, OthersKept, Grows, Gives, Kept
<1> QED
  BY <1>2, <1>3, <1>4, <1>5, Zenon

\* flush_lock.acquire() is called by a durable log_write_up_to() with its
\* arguments, or by an operation that stops log writing.
LEMMA FlushCallGood ==
  ASSUME IInv, NEW t \in Thread, NEW n \in Nat, NEW c, NEW l, n > 0,
         \/ lpc[t] = "repeat" /\ op[t] = "flush" /\ n = lsn[t] /\ c = cb[t] /\ l = "flush_acquire"
         \/ lpc[t] = "stop_flush" /\ c = NoCallback /\ l = "stop_flush_acquire",
         F!Call(t, n, c), Goto(t, l), UNCHANGED <<wLock, w_pc, logVars, callVars>>
  PROVE  Good(t)
<1>0. Types /\ LocalTypes /\ Owners /\ Thr(t) /\ f_pc[t] = "idle" /\ w_pc[t] = "idle"
  BY Zenon DEF IInv, Thr, Where
<1>1. c = cb[t] /\ (c \in Callback => asked[c] = 0) /\ l \in Labels
  BY <1>0, LogConstants, Zenon DEF Thr, Where, Called, Calling, Stopping, Labels
<1>2. /\ Enter(t, n, c) /\ f_pc' = [f_pc EXCEPT ![t] = "spin"] /\ lpc' = [lpc EXCEPT ![t] = l]
      /\ UNCHANGED <<w_pc, callVars, f_value, w_value, logVars, ret, callbacks>>
  BY Zenon DEF F!Call, F!Goto, F!lockVars, F!releaseVars, wLock, Enter, Goto
<1>3. Types' /\ LocalTypes' /\ Shared' /\ OthersKept(t)
  BY <1>1, <1>2, EnterKeeps, Zenon
<1>4. Owners'
  BY <1>0, <1>2, Zenon DEF Enter, LocalTypes, Owners, Owner
<1>5. Thr(t)'
  <2>1. /\ lpc'[t] = l /\ f_pc'[t] = "spin" /\ w_pc'[t] = "idle"
        /\ num'[t] = n /\ callback'[t] = c /\ (c \in Callback => asked'[c] = n)
    BY <1>0, <1>2, Zenon DEF Enter, LocalTypes
  <2> USE <1>0, <1>2, <2>1 DEF callVars, logVars, disk
  <2>2. Where(t)' /\ Wrote(t)'
    BY Zenon DEF Thr, Where, Wrote, Latched, Calling, Stopping, InAcquire, AcquirePC
  <2>3. Served(t)'
    BY Zenon DEF Thr, Where, Served, Calling, Stopping
  <2>4. Called(t)'
    BY <1>1, Zenon DEF Thr, Where, Called, Calling, Stopping, InAcquire, AcquirePC, Results
  <2>5. Releasing(t)'
    BY Zenon DEF Thr, Releasing, InRelease, ReleasePC
  <2> QED
    BY <2>2, <2>3, <2>4, <2>5, Zenon DEF Thr
<1> QED
  BY <1>3, <1>4, <1>5, Zenon DEF Good

\* write_lock.acquire() is called by log_write_up_to(), with the callback if the
\* write need not be durable, or by an operation that stops log writing.
LEMMA WriteCallGood ==
  ASSUME IInv, NEW t \in Thread, NEW n \in Nat, NEW c, NEW l, n > 0,
         \/ lpc[t] = "repeat" /\ op[t] = "write" /\ n = lsn[t] /\ c = cb[t] /\ l = "write_acquire"
         \/ /\ lpc[t] = "flush_acquire" /\ f_pc[t] = "ACQUIRED"
            /\ n = lsn[t] /\ c = NoCallback /\ l = "write_acquire"
         \/ lpc[t] = "stop_write" /\ c = NoCallback /\ l = "stop_write_acquire",
         W!Call(t, n, c), Goto(t, l),
         UNCHANGED <<f_value, f_lock, f_pending_callbacks, f_pc, logVars, callVars>>
  PROVE  Good(t)
<1>0. Types /\ LocalTypes /\ Owners /\ Thr(t) /\ w_pc[t] = "idle"
  BY Zenon DEF IInv, Thr, Where
<1>1. /\ c \in {cb[t], NoCallback} /\ (c \in Callback => asked[c] = 0) /\ l \in Labels
      /\ f_pc[t] = IF op[t] = "write" THEN "idle" ELSE "ACQUIRED"
      /\ c = IF op[t] = "flush" THEN NoCallback ELSE cb[t]
  BY <1>0, LogConstants, Zenon DEF Thr, Where, Called, Calling, Stopping, Labels
<1>2. /\ Enter(t, n, c) /\ w_pc' = [w_pc EXCEPT ![t] = "spin"] /\ lpc' = [lpc EXCEPT ![t] = l]
      /\ UNCHANGED <<f_pc, callVars, f_value, w_value, logVars, ret, callbacks>>
  BY Zenon DEF W!Call, W!Goto, W!lockVars, W!releaseVars, Enter, Goto
<1>3. Types' /\ LocalTypes' /\ Shared' /\ OthersKept(t)
  BY <1>1, <1>2, EnterKeeps, Zenon
<1>4. Owners'
  <2>1. Owner(w_lock, [w_pc EXCEPT ![t] = "spin"])
    BY <1>0, OwnerStays, Zenon DEF LocalTypes, Owners
  <2> QED
    BY <1>0, <1>2, <2>1, Zenon DEF Enter, Owners
<1>5. Thr(t)'
  <2>1. /\ lpc'[t] = l /\ w_pc'[t] = "spin" /\ f_pc'[t] = f_pc[t]
        /\ num'[t] = n /\ callback'[t] = c /\ (c \in Callback => asked'[c] = n)
        /\ \A d \in Callback : asked[d] > 0 => asked'[d] = asked[d]
    <3>1. /\ lpc'[t] = l /\ w_pc'[t] = "spin" /\ f_pc'[t] = f_pc[t]
          /\ num'[t] = n /\ callback'[t] = c /\ (c \in Callback => asked'[c] = n)
      BY <1>0, <1>2, Zenon DEF Enter, LocalTypes
    <3>2. /\ asked' = [d \in Callback |-> IF d = c THEN n ELSE asked[d]]
          /\ c \in Callback => asked[c] = 0
      BY <1>1, <1>2, Zenon DEF Enter
    <3>3. \A d \in Callback : asked[d] > 0 => asked'[d] = asked[d]
      BY <3>2
    <3> QED
      BY <3>1, <3>3, Zenon
  <2> USE <1>0, <1>1, <1>2, <2>1 DEF callVars, logVars, disk
  <2>2. Where(t)' /\ Wrote(t)'
    BY Zenon DEF Thr, Where, Wrote, Latched, Calling, Stopping, InAcquire, AcquirePC
  <2>3. Served(t)'
    BY Zenon DEF Thr, Where, Served, Calling, Stopping
  <2>4. Called(t)'
    BY Zenon DEF Thr, Where, Called, Calling, Stopping, InAcquire, AcquirePC, Results
  <2>5. Releasing(t)'
    BY Zenon DEF Thr, Releasing, InRelease, ReleasePC
  <2> QED
    BY <2>2, <2>3, <2>4, <2>5, Zenon DEF Thr
<1> QED
  BY <1>3, <1>4, <1>5, Zenon DEF Good

=============================================================================
