----------------------- MODULE GroupCommitLockProofs -----------------------
(***************************************************************************)
(* Mutual exclusion of group_commit_lock, the meaning of EXPIRED, the      *)
(* earliest time of a callback, and that no callback is lost or run twice, *)
(* for any number of threads, callbacks and values.  None of them depends  *)
(* on the list of waiters, so the invariant says nothing about             *)
(* m_waiters_list and the waiters' links.                                  *)
(***************************************************************************)
EXTENDS GroupCommitLock, FiniteSetTheorems, TLAPS

PCs == {"idle", "RELEASED"} \cup AcquirePC \cup Results \cup ReleasePC

\* The types of all but the waiters, and that the vector is finite.
CallTypeOK ==
    /\ m_value \in Value /\ m_lock \in BOOLEAN
    /\ m_pending_callbacks \in SUBSET Element /\ IsFiniteSet(m_pending_callbacks)
    /\ pc \in [Thread -> PCs]
    /\ num \in [Thread -> Value] /\ callback \in [Thread -> AnyCallback \cup {NoCallback}]
    /\ callbacks \in [Thread -> SUBSET Element] /\ ret \in [Thread -> Value]
    /\ ran \in [Callback -> Nat] /\ asked \in [Callback -> Value]

\* Wherever a callback waits, it is next to the number it was passed with;
\* release() has published the numbers of the callbacks it still has to run.
CallbackNumbers ==
    /\ \A t \in Thread :
          pc[t] \in AcquirePC => /\ num[t] > 0
                                 /\ callback[t] \in Callback => asked[callback[t]] = num[t]
    /\ \A d \in m_pending_callbacks :
          d.num > 0 /\ (d.cb \in Callback => asked[d.cb] = d.num)
    /\ \A t \in Thread : \A d \in callbacks[t] :
          d.num > 0 /\ d.num <= m_value /\ (d.cb \in Callback => asked[d.cb] = d.num)
    /\ \A c \in Callback : ran[c] > 0 => asked[c] > 0

IInv == CallTypeOK /\ OneOwner /\ ExpiredIsReached /\ CallbackNumbers /\ CallbackNotEarly

\* A value the counters of the lock take is a natural number.
LEMMA ValueNat == \A n \in Value : n \in Nat
  BY GCLConstants DEF Value

\* What the count of a callback's runs is after one more run, or after none.
LEMMA OneMore == /\ \A x : x = 0 => x + 1 = 1
                 /\ \A x \in Nat : x + 0 = x
  OBVIOUS

\* A value that m_value has passed stays passed when m_value grows.
LEMMA LeqTransitive == \A a, b, c \in Nat : a <= b /\ b <= c => a <= c
  OBVIOUS

----------------------------------------------------------------------------
\* Compacting the vector, as erase(remove_if()) does, changes no element but
\* for its index.
LEMMA CompactElements ==
  ASSUME NEW S \in SUBSET Element, IsFiniteSet(S)
  PROVE  /\ Compact(S) \in SUBSET Element
         /\ IsFiniteSet(Compact(S))
         /\ \A d \in Compact(S) : \E c \in S : d.num = c.num /\ d.cb = c.cb
<1> DEFINE f == [c \in S |-> [num |-> c.num, cb |-> c.cb, at |-> Cardinality(Before(c, S))]]
<1>1. \A c \in S : Cardinality(Before(c, S)) \in Nat
  <2> TAKE c \in S
  <2>1. Before(c, S) \in SUBSET S
    BY DEF Before
  <2> QED
    BY <2>1, FS_Subset, FS_CardinalityType
<1>2. f \in Surjection(S, Compact(S))
  BY DEF Surjection, Compact
<1>3. IsFiniteSet(Compact(S))
  BY <1>2, FS_Surjection
<1>4. Compact(S) \in SUBSET Element
  BY <1>1 DEF Compact, Element
<1> QED
  BY <1>3, <1>4 DEF Compact

\* A lock just constructed, with no call in progress, satisfies the invariant.
LEMMA InitIInv == Init => IInv
<1> SUFFICES ASSUME Init PROVE IInv
  OBVIOUS
<1>1. CallTypeOK
  <2>1. m_lock \in BOOLEAN
    BY Zenon DEF Init
  <2> QED
    BY <2>1, FS_EmptySet, GCLConstants
    DEF Init, CallTypeOK, PCs, Value, Element, AnyCallback
<1>2. OneOwner
  BY DEF Init, OneOwner
<1> QED
  BY <1>1, <1>2 DEF Init, IInv, ExpiredIsReached, CallbackNumbers, CallbackNotEarly, AcquirePC

----------------------------------------------------------------------------
(* Kinds of steps *)

\* What the invariant speaks about, the program counters excepted.
invVars == <<m_value, m_lock, m_pending_callbacks, num, callback, callbacks, ret, ran, asked>>

\* A step inside acquire() or release() that moves only the caller's control.
LEMMA MoveKeepsIInv ==
  ASSUME IInv, NEW t \in Thread, NEW l \in PCs, UNCHANGED invVars, Goto(t, l),
         pc[t] # "ACQUIRED", l \notin {"ACQUIRED", "EXPIRED"},
         l \in AcquirePC => pc[t] \in AcquirePC
  PROVE  IInv'
<1> USE DEF invVars, Goto
<1>1. CallTypeOK'
  BY DEF IInv, CallTypeOK
<1>2. OneOwner'
  BY DEF IInv, CallTypeOK, OneOwner
<1>3. ExpiredIsReached'
  BY DEF IInv, CallTypeOK, ExpiredIsReached
<1>4. CallbackNumbers'
  BY DEF IInv, CallTypeOK, CallbackNumbers
<1>5. CallbackNotEarly'
  BY DEF IInv, CallbackNotEarly
<1> QED
  BY <1>1, <1>2, <1>3, <1>4, <1>5 DEF IInv

\* acquire() runs the callback and returns EXPIRED.
LEMMA ExpireKeepsIInv ==
  ASSUME IInv, NEW t \in Thread, pc[t] \in AcquirePC, num[t] <= m_value,
         Expire(t), UNCHANGED asked
  PROVE  IInv'
<1> USE DEF Expire, Goto, lockVars, argVars, releaseVars, RunCallback
<1>1. CallTypeOK'
  BY DEF IInv, CallTypeOK, PCs, Results
<1>2. OneOwner'
  BY DEF IInv, CallTypeOK, OneOwner, AcquirePC
<1>3. ExpiredIsReached'
  BY DEF IInv, CallTypeOK, ExpiredIsReached
<1>4. CallbackNumbers'
  BY DEF IInv, CallTypeOK, CallbackNumbers, AcquirePC
<1>5. CallbackNotEarly'
  BY DEF IInv, CallTypeOK, CallbackNumbers, CallbackNotEarly
<1> QED
  BY <1>1, <1>2, <1>3, <1>4, <1>5 DEF IInv

\* acquire() leaves its callback in the vector.
LEMMA PushKeepsElements ==
  ASSUME IInv, NEW t \in Thread, pc[t] \in AcquirePC, callback[t] # NoCallback,
         PushCallback(t)
  PROVE  /\ m_pending_callbacks' \in SUBSET Element /\ IsFiniteSet(m_pending_callbacks')
         /\ \A d \in m_pending_callbacks' :
               d.num > 0 /\ (d.cb \in Callback => asked[d.cb] = d.num)
<1> DEFINE e == [num |-> num[t], cb |-> callback[t], at |-> Cardinality(m_pending_callbacks)]
<1>1. e \in Element
  BY FS_CardinalityType DEF IInv, CallTypeOK, Element
<1>2. IsFiniteSet(m_pending_callbacks \cup {e})
  BY FS_AddElement, Zenon DEF IInv, CallTypeOK
<1>3. m_pending_callbacks' = m_pending_callbacks \cup {e}
  BY DEF PushCallback
<1>4. e.num > 0 /\ (e.cb \in Callback => asked[e.cb] = e.num)
  BY DEF IInv, CallbackNumbers
<1> HIDE DEF e
<1> QED
  BY <1>1, <1>2, <1>3, <1>4 DEF IInv, CallTypeOK, CallbackNumbers

----------------------------------------------------------------------------
(* The actions *)

\* A thread enters acquire() with a number and perhaps a callback.
LEMMA CallKeepsIInv == ASSUME IInv, NEW t \in Thread, Acquire(t) PROVE IInv'
<1>1. PICK n \in 1..MaxValue, c \in {NoCallback} \cup {d \in Callback : Fresh(d)} :
         Call(t, n, c)
  BY DEF Acquire
<1> USE <1>1 DEF Call, Goto, lockVars, waiterVars, releaseVars, Fresh
<1>2. CallTypeOK'
  <2>1. asked' \in [Callback -> Value]
    BY GCLConstants DEF IInv, CallTypeOK, Value
  <2>2. pc' \in [Thread -> PCs]
    BY DEF IInv, CallTypeOK, PCs, AcquirePC
  <2>3. num' \in [Thread -> Value] /\ callback' \in [Thread -> AnyCallback \cup {NoCallback}]
    BY GCLConstants DEF IInv, CallTypeOK, Value, AnyCallback
  <2> QED
    BY <2>1, <2>2, <2>3 DEF IInv, CallTypeOK
<1>3. OneOwner'
  BY DEF IInv, CallTypeOK, OneOwner
<1>4. ExpiredIsReached'
  BY DEF IInv, CallTypeOK, ExpiredIsReached
<1>5. CallbackNumbers'
  <2>1. \A u \in Thread : pc'[u] \in AcquirePC =>
           num'[u] > 0 /\ (callback'[u] \in Callback => asked'[callback'[u]] = num'[u])
    BY GCLConstants DEF IInv, CallTypeOK, CallbackNumbers, AcquirePC, Value
  <2>2. \A d \in m_pending_callbacks' : d.num > 0 /\ (d.cb \in Callback => asked'[d.cb] = d.num)
    BY GCLConstants DEF IInv, CallTypeOK, CallbackNumbers
  <2>3. \A u \in Thread : \A d \in callbacks'[u] :
           d.num > 0 /\ d.num <= m_value' /\ (d.cb \in Callback => asked'[d.cb] = d.num)
    BY GCLConstants DEF IInv, CallTypeOK, CallbackNumbers
  <2>4. \A d \in Callback : ran'[d] > 0 => asked'[d] > 0
    BY GCLConstants DEF IInv, CallTypeOK, CallbackNumbers
  <2> QED
    BY <2>1, <2>2, <2>3, <2>4 DEF CallbackNumbers
<1>6. CallbackNotEarly'
  BY GCLConstants DEF IInv, CallTypeOK, CallbackNumbers, CallbackNotEarly
<1> QED
  BY <1>2, <1>3, <1>4, <1>5, <1>6 DEF IInv

\* acquire() finds m_lock false and makes its caller the owner.
LEMMA TakeLockKeepsIInv ==
  ASSUME IInv, NEW t \in Thread, TakeLock(t), UNCHANGED asked PROVE IInv'
<1> USE DEF TakeLock, Goto, argVars, releaseVars
<1>1. pc[t] \in AcquirePC
  BY DEF AcquirePC
<1>2. /\ m_pending_callbacks' \in SUBSET Element /\ IsFiniteSet(m_pending_callbacks')
      /\ \A d \in m_pending_callbacks' :
            d.num > 0 /\ (d.cb \in Callback => asked[d.cb] = d.num)
  <2>1. CASE callback[t] = NoCallback
    BY <2>1 DEF IInv, CallTypeOK, CallbackNumbers
  <2>2. CASE callback[t] # NoCallback
    BY <1>1, <2>2, PushKeepsElements
  <2> QED
    BY <2>1, <2>2
<1>3. CallTypeOK'
  <2>1. m_lock' \in BOOLEAN
    BY Zenon
  <2> QED
    BY <1>2, <2>1 DEF IInv, CallTypeOK, PCs, Results
<1>4. OneOwner'
  BY DEF IInv, CallTypeOK, OneOwner
<1>5. ExpiredIsReached'
  BY DEF IInv, CallTypeOK, ExpiredIsReached
<1>6. CallbackNumbers'
  BY <1>2 DEF IInv, CallTypeOK, CallbackNumbers, AcquirePC
<1>7. CallbackNotEarly'
  BY DEF IInv, CallbackNotEarly
<1> QED
  BY <1>3, <1>4, <1>5, <1>6, <1>7 DEF IInv

\* acquire() finds the lock taken and leaves its callback to the owner.
LEMMA QueueCallbackKeepsIInv ==
  ASSUME IInv, NEW t \in Thread, QueueCallback(t), UNCHANGED asked PROVE IInv'
<1> USE DEF QueueCallback, Goto, argVars, releaseVars
<1>1. pc[t] \in AcquirePC
  BY DEF AcquirePC
<1>2. /\ m_pending_callbacks' \in SUBSET Element /\ IsFiniteSet(m_pending_callbacks')
      /\ \A d \in m_pending_callbacks' :
            d.num > 0 /\ (d.cb \in Callback => asked[d.cb] = d.num)
  BY <1>1, PushKeepsElements DEF MayQueueCallback
<1>3. CallTypeOK'
  BY <1>2 DEF IInv, CallTypeOK, PCs, Results
<1>4. OneOwner'
  BY DEF IInv, CallTypeOK, OneOwner
<1>5. ExpiredIsReached'
  BY DEF IInv, CallTypeOK, ExpiredIsReached
<1>6. CallbackNumbers'
  BY <1>2 DEF IInv, CallTypeOK, CallbackNumbers, AcquirePC
<1>7. CallbackNotEarly'
  BY DEF IInv, CallbackNotEarly
<1> QED
  BY <1>3, <1>4, <1>5, <1>6, <1>7 DEF IInv

\* What release(n) does, apart from choosing whom to wake.
LEMMA ReleaseEffect ==
  ASSUME NEW t \in Thread, NEW n \in Value, Release(t, n)
  PROVE  /\ pc[t] = "ACQUIRED" /\ n >= m_value
         /\ m_lock' = FALSE /\ m_value' = n
         /\ m_pending_callbacks' = Left(n)
         /\ callbacks' = [callbacks EXCEPT ![t] = {c \in Due(n) : c.at < CallbackSlots}]
         /\ RunCallbacks({c \in Due(n) : c.at >= CallbackSlots})
         /\ \/ \E c \in Left(n) : ret' = [ret EXCEPT ![t] = c.num]
            \/ ret' = [ret EXCEPT ![t] = 0]
         /\ Goto(t, "wake_leader")
         /\ UNCHANGED argVars
  BY Zenon DEF Release

\* release(n) publishes n, takes the callbacks that n reaches and picks the
\* threads to wake.
LEMMA ReleaseKeepsIInv ==
  ASSUME IInv, NEW t \in Thread, NEW n \in Value, Release(t, n), UNCHANGED asked
  PROVE  IInv'
<1>0. /\ pc[t] = "ACQUIRED" /\ m_value <= n
      /\ m_lock' = FALSE /\ m_value' = n
      /\ m_pending_callbacks' = Left(n)
      /\ callbacks' = [callbacks EXCEPT ![t] = {c \in Due(n) : c.at < CallbackSlots}]
      /\ RunCallbacks({c \in Due(n) : c.at >= CallbackSlots})
      /\ \/ \E c \in Left(n) : ret' = [ret EXCEPT ![t] = c.num]
         \/ ret' = [ret EXCEPT ![t] = 0]
      /\ pc' = [pc EXCEPT ![t] = "wake_leader"]
      /\ num' = num /\ callback' = callback
  <2>1. n >= m_value => m_value <= n
    BY GCLConstants DEF IInv, CallTypeOK, Value
  <2> QED
    BY <2>1, ReleaseEffect, Zenon DEF Goto, argVars
<1> USE <1>0
<1>1. /\ Due(n) \in SUBSET Element /\ IsFiniteSet(Due(n))
      /\ \A d \in Due(n) : d.num > 0 /\ d.num <= n /\ (d.cb \in Callback => asked[d.cb] = d.num)
  <2> DEFINE S == {c \in m_pending_callbacks : c.num <= n}
  <2>1. S \in SUBSET m_pending_callbacks /\ S \in SUBSET Element /\ IsFiniteSet(S)
    BY FS_Subset DEF IInv, CallTypeOK
  <2>2. \A d \in S : d.num > 0 /\ d.num <= n /\ (d.cb \in Callback => asked[d.cb] = d.num)
    BY Zenon DEF IInv, CallbackNumbers
  <2> HIDE DEF S
  <2>3. /\ Compact(S) \in SUBSET Element /\ IsFiniteSet(Compact(S))
        /\ \A d \in Compact(S) : \E c \in S : d.num = c.num /\ d.cb = c.cb
    BY <2>1, CompactElements
  <2>4. Due(n) = Compact(S)
    BY DEF Due, S
  <2> QED
    BY <2>2, <2>3, <2>4, ZenonT(40)
<1>2. /\ Left(n) \in SUBSET Element /\ IsFiniteSet(Left(n))
      /\ \A d \in Left(n) : d.num > 0 /\ (d.cb \in Callback => asked[d.cb] = d.num)
  <2> DEFINE S == {c \in m_pending_callbacks : c.num > n}
  <2>1. S \in SUBSET m_pending_callbacks /\ S \in SUBSET Element /\ IsFiniteSet(S)
    BY FS_Subset DEF IInv, CallTypeOK
  <2>2. \A d \in S : d.num > 0 /\ (d.cb \in Callback => asked[d.cb] = d.num)
    BY Zenon DEF IInv, CallbackNumbers
  <2> HIDE DEF S
  <2>3. /\ Compact(S) \in SUBSET Element /\ IsFiniteSet(Compact(S))
        /\ \A d \in Compact(S) : \E c \in S : d.num = c.num /\ d.cb = c.cb
    BY <2>1, CompactElements
  <2>4. Left(n) = Compact(S)
    BY DEF Left, S
  <2> QED
    BY <2>2, <2>3, <2>4, ZenonT(40)
<1>3. \A c \in Callback : /\ ran'[c] \in Nat
                          /\ ran'[c] > 0 => ran[c] > 0 \/ \E d \in Due(n) : d.cb = c
  <2> TAKE c \in Callback
  <2> DEFINE S == {d \in {e \in Due(n) : e.at >= CallbackSlots} : d.cb = c}
  <2>1. ran'[c] = ran[c] + Cardinality(S)
    BY Zenon DEF RunCallbacks
  <2>2. S \in SUBSET Due(n)
    OBVIOUS
  <2>3. IsFiniteSet(S) /\ Cardinality(S) \in Nat /\ (Cardinality(S) = 0 <=> S = {})
    BY <1>1, <2>2, FS_Subset, FS_CardinalityType, FS_EmptySet, Zenon
  <2>4. ran[c] \in Nat
    BY DEF IInv, CallTypeOK
  <2> QED
    BY <2>1, <2>3, <2>4
<1>4. CallTypeOK'
  <2>1. m_lock' \in BOOLEAN
    BY Zenon
  <2>2. ran' \in [Callback -> Nat]
    BY <1>3, Zenon DEF RunCallbacks
  <2>3. ret' \in [Thread -> Value]
    BY <1>2, GCLConstants DEF IInv, CallTypeOK, Element, Value
  <2>4. callbacks' \in [Thread -> SUBSET Element]
    BY <1>1 DEF IInv, CallTypeOK
  <2>5. pc' \in [Thread -> PCs]
    BY DEF IInv, CallTypeOK, PCs, ReleasePC
  <2> QED
    BY <1>2, <2>1, <2>2, <2>3, <2>4, <2>5, Zenon DEF IInv, CallTypeOK
<1>5. OneOwner'
  BY DEF IInv, CallTypeOK, OneOwner
<1>6. ExpiredIsReached'
  BY GCLConstants DEF IInv, CallTypeOK, ExpiredIsReached, Value
<1>7. CallbackNumbers'
  <2>1. \A u \in Thread : pc'[u] \in AcquirePC =>
           num'[u] > 0 /\ (callback'[u] \in Callback => asked'[callback'[u]] = num'[u])
    BY Zenon DEF IInv, CallTypeOK, CallbackNumbers, AcquirePC
  <2>2. \A u \in Thread : \A d \in callbacks'[u] :
           d.num > 0 /\ d.num <= m_value' /\ (d.cb \in Callback => asked'[d.cb] = d.num)
    BY <1>1, GCLConstants DEF IInv, CallTypeOK, CallbackNumbers, Element, Value
  <2>3. \A c \in Callback : ran'[c] > 0 => asked'[c] > 0
    BY <1>1, <1>3, ZenonT(40) DEF IInv, CallbackNumbers
  <2> QED
    BY <1>2, <2>1, <2>2, <2>3, Zenon DEF CallbackNumbers
<1>8. CallbackNotEarly'
  <2>1. m_value \in Nat /\ n \in Nat /\ asked \in [Callback -> Nat]
    BY ValueNat, Zenon DEF IInv, CallTypeOK
  <2>2. \A c \in Callback : ran[c] > 0 => asked[c] <= m_value
    BY Zenon DEF IInv, CallbackNotEarly
  <2>3. \A c \in Callback : ran'[c] > 0 => asked[c] <= m_value \/ asked[c] <= n
    BY <1>1, <1>3, <2>2, Zenon
  <2>4. \A a \in Nat : a <= m_value => a <= n
    BY <1>0, <2>1, LeqTransitive, Zenon
  <2>5. asked' = asked /\ m_value' = n
    BY <1>0, Zenon
  <2> QED
    BY <2>1, <2>3, <2>4, <2>5, Zenon DEF CallbackNotEarly
<1> QED
  BY <1>4, <1>5, <1>6, <1>7, <1>8 DEF IInv

\* release(), after unlocking, runs one callback of its array.
LEMMA RunNextCallbackKeepsIInv ==
  ASSUME IInv, NEW t \in Thread, RunNextCallback(t), UNCHANGED asked PROVE IInv'
<1> USE DEF RunNextCallback
<1>1. CASE callbacks[t] = {} /\ Goto(t, "wake")
  BY <1>1, MoveKeepsIInv, Zenon
  DEF lockVars, argVars, releaseVars, invVars, PCs, AcquirePC, ReleasePC
<1>2. ASSUME NEW c \in callbacks[t], RunCallback(c.cb),
             callbacks' = [callbacks EXCEPT ![t] = @ \ {c}],
             UNCHANGED <<lockVars, waiterVars, pc, argVars, wakeup_list, ret>>
      PROVE  IInv'
  <2> USE <1>2 DEF RunCallback, lockVars, argVars
  <2>1. CallTypeOK'
    BY DEF IInv, CallTypeOK
  <2>2. OneOwner'
    BY DEF IInv, OneOwner
  <2>3. ExpiredIsReached'
    BY Zenon DEF IInv, ExpiredIsReached
  <2>4. CallbackNumbers'
    BY DEF IInv, CallTypeOK, CallbackNumbers
  <2>5. CallbackNotEarly'
    <3>1. ASSUME NEW b \in Callback, ran'[b] > 0 PROVE asked[b] <= m_value
      <4>1. CASE b = c.cb
        <5>1. c.num <= m_value /\ asked[b] = c.num
          BY <4>1, Zenon DEF IInv, CallbackNumbers
        <5> QED
          BY <5>1, Zenon
      <4>2. CASE b # c.cb
        <5>1. ran'[b] = ran[b]
          BY <4>2, Zenon DEF IInv, CallTypeOK
        <5> QED
          BY <3>1, <5>1, Zenon DEF IInv, CallbackNotEarly
      <4> QED
        BY <4>1, <4>2, Zenon
    <3> QED
      BY <3>1, Zenon DEF CallbackNotEarly
  <2> QED
    BY <2>1, <2>2, <2>3, <2>4, <2>5, Zenon DEF IInv
<1> QED
  BY <1>1, <1>2, Zenon

\* The caller takes the result of acquire() or release().
LEMMA ReturnKeepsIInv == ASSUME IInv, NEW t \in Thread, Return(t) PROVE IInv'
<1> DEFINE n == num'[t]
           c == callback'[t]
           l == pc'[t]
<1>1. /\ num' = [num EXCEPT ![t] = n] /\ callback' = [callback EXCEPT ![t] = c]
      /\ pc' = [pc EXCEPT ![t] = l]
      /\ ret' \in [Thread -> Value]
      /\ n \in Value /\ c \in {DummyCallback, NoCallback}
      /\ l \in {"spin", "idle"} /\ (l = "spin" => n > 0)
      /\ pc[t] \in {"EXPIRED", "CALLBACK_QUEUED", "RELEASED"}
      /\ UNCHANGED <<m_value, m_lock, m_pending_callbacks, callbacks, ran, asked>>
  BY GCLConstants DEF Return, Goto, IInv, CallTypeOK, lockVars, Value
<1> HIDE DEF n, c, l
<1>2. CallTypeOK'
  BY <1>1 DEF IInv, CallTypeOK, PCs, AcquirePC, AnyCallback
<1>3. OneOwner'
  BY <1>1 DEF IInv, CallTypeOK, OneOwner
<1>4. ExpiredIsReached'
  BY <1>1 DEF IInv, CallTypeOK, ExpiredIsReached
<1>5. CallbackNumbers'
  BY <1>1, GCLConstants, ZenonT(40) DEF IInv, CallTypeOK, CallbackNumbers, AcquirePC
<1>6. CallbackNotEarly'
  BY <1>1, Zenon DEF IInv, CallbackNotEarly
<1> QED
  BY <1>2, <1>3, <1>4, <1>5, <1>6 DEF IInv

\* Every step of a call on its own.
LEMMA StepKeepsIInv == ASSUME IInv, NEW t \in Thread, Step(t) PROVE IInv'
<1> USE DEF lockVars, argVars, releaseVars, invVars, PCs, AcquirePC, ReleasePC
<1>0. UNCHANGED asked
  BY DEF Step
<1>1. CASE SpinValue(t)
  <2>1. CASE num[t] <= m_value /\ Expire(t)
    BY <1>0, <1>1, <2>1, ExpireKeepsIInv DEF SpinValue
  <2>2. CASE Goto(t, "pending") /\ UNCHANGED <<lockVars, waiterVars, argVars, releaseVars, ran>>
    BY <1>0, <1>1, <2>2, MoveKeepsIInv, Zenon DEF SpinValue
  <2>3. CASE EnterLoop(t)
    BY <1>0, <1>1, <2>3, MoveKeepsIInv, Zenon DEF SpinValue, EnterLoop
  <2> QED
    BY <1>1, <2>1, <2>2, <2>3, Zenon DEF SpinValue
<1>2. CASE SpinPending(t)
  <2>1. CASE EnterLoop(t)
    BY <1>0, <1>2, <2>1, MoveKeepsIInv, Zenon DEF SpinPending, EnterLoop
  <2>2. CASE Goto(t, "respin") /\ UNCHANGED <<lockVars, waiterVars, argVars, releaseVars, ran>>
    BY <1>0, <1>2, <2>2, MoveKeepsIInv DEF SpinPending
  <2> QED
    BY <1>2, <2>1, <2>2, Zenon DEF SpinPending
<1>3. CASE LoopTest(t)
  <2>1. CASE Goto(t, "mutex") /\ UNCHANGED <<lockVars, waiterVars, argVars, releaseVars, ran>>
    BY <1>0, <1>3, <2>1, MoveKeepsIInv, Zenon DEF LoopTest
  <2>2. CASE num[t] <= m_value /\ Expire(t)
    BY <1>0, <1>3, <2>2, ExpireKeepsIInv, Zenon DEF LoopTest
  <2> QED
    BY <1>3, <2>1, <2>2, Zenon DEF LoopTest
<1>4. CASE ExpireInMutex(t)
  BY <1>0, <1>4, ExpireKeepsIInv DEF ExpireInMutex, ExpiredInMutex
<1>5. CASE TakeLock(t)
  BY <1>0, <1>5, TakeLockKeepsIInv
<1>6. CASE QueueCallback(t)
  BY <1>0, <1>6, QueueCallbackKeepsIInv
<1>7. CASE JoinWaiters(t)
  BY <1>0, <1>7, MoveKeepsIInv DEF JoinWaiters
<1>8. CASE SemaphoreWait(t)
  BY <1>0, <1>8, MoveKeepsIInv DEF SemaphoreWait
<1>9. CASE WakeLeader(t)
  BY <1>0, <1>9, MoveKeepsIInv DEF WakeLeader, WakeFirst
<1>10. CASE RunNextCallback(t)
  BY <1>0, <1>10, RunNextCallbackKeepsIInv
<1>11. CASE WakeOthers(t)
  <2>1. CASE WakeFirst(t) /\ UNCHANGED pc
    BY <1>0, <2>1, Zenon DEF WakeFirst, IInv, CallTypeOK, OneOwner, ExpiredIsReached,
                      CallbackNumbers, CallbackNotEarly
  <2>2. CASE Goto(t, "RELEASED") /\ UNCHANGED <<lockVars, waiterVars, argVars, releaseVars, ran>>
    BY <1>0, <1>11, <2>2, MoveKeepsIInv DEF WakeOthers
  <2> QED
    BY <1>11, <2>1, <2>2, Zenon DEF WakeOthers
<1> QED
  BY <1>1, <1>2, <1>3, <1>4, <1>5, <1>6, <1>7, <1>8, <1>9, <1>10, <1>11 DEF Step

\* Every step of the specification keeps the invariant.
LEMMA NextIInv == IInv /\ [Next]_vars => IInv'
<1> SUFFICES ASSUME IInv, [Next]_vars PROVE IInv'
  OBVIOUS
<1>1. ASSUME NEW t \in Thread, OwnerSetPending(t) PROVE IInv'
  BY <1>1 DEF OwnerSetPending, SetPending, argVars, releaseVars, IInv, CallTypeOK, OneOwner,
              ExpiredIsReached, CallbackNumbers, CallbackNotEarly
<1>2. ASSUME NEW t \in Thread, OwnerRelease(t) PROVE IInv'
  BY <1>2, ReleaseKeepsIInv DEF OwnerRelease
<1>3. CASE UNCHANGED vars
  BY <1>3, Zenon DEF vars, lockVars, argVars, releaseVars, IInv, CallTypeOK, OneOwner,
              ExpiredIsReached, CallbackNumbers, CallbackNotEarly
<1> QED
  BY <1>1, <1>2, <1>3, CallKeepsIInv, ReturnKeepsIInv, StepKeepsIInv DEF Next

----------------------------------------------------------------------------
(* The theorems *)

\* The invariant of acquire(), set_pending() and release(): types, one owner, and
\* the numbers stored with the callbacks in both vectors.
THEOREM Invariance == Spec => []IInv
  BY InitIInv, NextIInv, PTL DEF Spec

\* acquire() never hands the lock to two threads, and m_lock tells whether one
\* has it, whatever the number of callers.
THEOREM MutualExclusion == Spec => []OneOwner
  BY Invariance, PTL DEF IInv

\* EXPIRED is only returned when the number asked for has been reached.
THEOREM ExpiredSound == Spec => []ExpiredIsReached
  BY Invariance, PTL DEF IInv

\* No completion callback runs before release() has published a value that
\* reaches its number, however full release()'s array of callbacks is.
THEOREM CallbackSound == Spec => []CallbackNotEarly
  BY Invariance, PTL DEF IInv
----------------------------------------------------------------------------
(* Every callback is in one place *)

Entering(c) == {t \in Thread : pc[t] \in AcquirePC /\ callback[t] = c}
Queued(c) == {d \in m_pending_callbacks : d.cb = c}
Taken(c) == {p \in Thread \X UNION {callbacks[t] : t \in Thread} :
                p[2] \in callbacks[p[1]] /\ p[2].cb = c}

\* A callback of the sets T, P and A of its places that has run r times: it is
\* nowhere, or in one place.
Nowhere(T, P, A, r) == T = {} /\ P = {} /\ A = {} /\ r = 0
InOnePlace(T, P, A, r) ==
    \/ (\E t : T = {t}) /\ P = {} /\ A = {} /\ r = 0
    \/ T = {} /\ (\E d : P = {d}) /\ A = {} /\ r = 0
    \/ T = {} /\ P = {} /\ (\E p : A = {p}) /\ r = 0
    \/ T = {} /\ P = {} /\ A = {} /\ r = 1

Conserved(c) ==
    IF asked[c] = 0 THEN Nowhere(Entering(c), Queued(c), Taken(c), ran[c])
                    ELSE InOnePlace(Entering(c), Queued(c), Taken(c), ran[c])

\* release() empties its array of callbacks before it returns.
ArrayInUse == \A t \in Thread : callbacks[t] # {} => pc[t] \in {"wake_leader", "callbacks"}

CInv == ArrayInUse /\ \A c \in Callback : Conserved(c)

\* The member of a set of one.
LEMMA TheOnlyOne ==
  ASSUME NEW T, NEW P, NEW A, NEW r, InOnePlace(T, P, A, r)
  PROVE  /\ \A t \in T : T = {t} /\ P = {} /\ A = {} /\ r = 0
         /\ \A d \in P : T = {} /\ P = {d} /\ A = {} /\ r = 0
         /\ \A p \in A : T = {} /\ P = {} /\ A = {p} /\ r = 0
  BY DEF InOnePlace

\* A callback whose acquire() is under way is nowhere else.
LEMMA OnlyEntering ==
  ASSUME NEW T, NEW P, NEW A, NEW r, InOnePlace(T, P, A, r), NEW t \in T
  PROVE  T = {t} /\ P = {} /\ A = {} /\ r = 0
  BY TheOnlyOne, Zenon

\* A callback in the array of a release() is nowhere else.
LEMMA OnlyTaken ==
  ASSUME NEW T, NEW P, NEW A, NEW r, InOnePlace(T, P, A, r), NEW p \in A
  PROVE  T = {} /\ P = {} /\ A = {p} /\ r = 0
  BY TheOnlyOne, Zenon

\* The pairs of a thread in release() and an element of its array whose callback
\* is c, before and after a step.
LEMMA TakenPairs ==
  ASSUME NEW c
  PROVE  /\ \A q : q \in Taken(c) <=>
              \E u \in Thread : \E d \in callbacks[u] : q = <<u, d>> /\ d.cb = c
         /\ \A q : q \in Taken(c)' <=>
              \E u \in Thread : \E d \in callbacks'[u] : q = <<u, d>> /\ d.cb = c
<1>1. \A q : q \in Taken(c) <=>
        \E u \in Thread : \E d \in callbacks[u] : q = <<u, d>> /\ d.cb = c
  BY DEF Taken
<1>2. \A q : q \in Taken(c)' <=>
        \E u \in Thread : \E d \in callbacks'[u] : q = <<u, d>> /\ d.cb = c
  BY DEF Taken
<1> QED
  BY <1>1, <1>2, Zenon

\* The sum of the places is what the invariant says.
LEMMA PlacesAreOne == CInv => CallbackConserved
<1> SUFFICES ASSUME CInv, NEW c \in Callback
             PROVE  Places(c) = IF asked[c] = 0 THEN 0 ELSE 1
  BY DEF CallbackConserved
<1>1. Places(c) = ran[c] + Cardinality(Entering(c)) + Cardinality(Queued(c))
                         + Cardinality(Taken(c))
  BY DEF Places, Entering, Queued, Taken
<1>2. Conserved(c)
  BY DEF CInv
<1>3. Cardinality({}) = 0
  BY FS_EmptySet
<1>4. CASE asked[c] = 0
  BY <1>1, <1>2, <1>3, <1>4 DEF Conserved, Nowhere
<1>5. CASE asked[c] # 0
  <2>1. InOnePlace(Entering(c), Queued(c), Taken(c), ran[c])
    BY <1>2, <1>5, Zenon DEF Conserved
  <2>2. CASE \E t : Entering(c) = {t}
    <3>1. PICK t : Entering(c) = {t}
      BY <2>2
    <3>2. Queued(c) = {} /\ Taken(c) = {} /\ ran[c] = 0
      BY <2>1, <3>1, TheOnlyOne
    <3>3. Cardinality(Entering(c)) = 1
      BY <3>1, FS_Singleton, Zenon
    <3> QED
      BY <1>1, <1>3, <1>5, <3>2, <3>3
  <2>3. CASE \E d : Queued(c) = {d}
    <3>1. PICK d : Queued(c) = {d}
      BY <2>3
    <3>2. Entering(c) = {} /\ Taken(c) = {} /\ ran[c] = 0
      BY <2>1, <3>1, TheOnlyOne
    <3>3. Cardinality(Queued(c)) = 1
      BY <3>1, FS_Singleton, Zenon
    <3> QED
      BY <1>1, <1>3, <1>5, <3>2, <3>3
  <2>4. CASE \E q : Taken(c) = {q}
    <3>1. PICK q : Taken(c) = {q}
      BY <2>4
    <3>2. Entering(c) = {} /\ Queued(c) = {} /\ ran[c] = 0
      BY <2>1, <3>1, TheOnlyOne
    <3>3. Cardinality(Taken(c)) = 1
      BY <3>1, FS_Singleton, Zenon
    <3> QED
      BY <1>1, <1>3, <1>5, <3>2, <3>3
  <2>5. CASE Entering(c) = {} /\ Queued(c) = {} /\ Taken(c) = {} /\ ran[c] = 1
    BY <1>1, <1>3, <1>5, <2>5
  <2> QED
    BY <2>1, <2>2, <2>3, <2>4, <2>5, Zenon DEF InOnePlace
<1> QED
  BY <1>4, <1>5

\* No place of c changes.
LEMMA Unmoved ==
  ASSUME NEW c \in Callback, Conserved(c), Entering(c)' = Entering(c), Queued(c)' = Queued(c),
         Taken(c)' = Taken(c), ran'[c] = ran[c], asked'[c] = asked[c]
  PROVE  Conserved(c)'
  BY Zenon DEF Conserved

\* A callback that was asked for has arrived in one place.
LEMMA Arrived ==
  ASSUME NEW c \in Callback, asked'[c] # 0,
         InOnePlace(Entering(c)', Queued(c)', Taken(c)', ran'[c])
  PROVE  Conserved(c)'
  BY Zenon DEF Conserved

\* The arrays of release() are the same: so are the callbacks in them.
LEMMA TakenStays ==
  ASSUME UNCHANGED callbacks, NEW c PROVE Taken(c)' = Taken(c)
  BY DEF Taken

\* Nothing about the callbacks changes.
LEMMA SamePlaces ==
  ASSUME CInv, UNCHANGED <<pc, callback, m_pending_callbacks, callbacks, ran, asked>>
  PROVE  CInv'
<1>1. \A c : Entering(c)' = Entering(c) /\ Queued(c)' = Queued(c) /\ Taken(c)' = Taken(c)
  BY TakenStays DEF Entering, Queued
<1>2. \A c \in Callback : Conserved(c)'
  BY <1>1, Unmoved, Zenon DEF CInv
<1> QED
  BY <1>2 DEF CInv, ArrayInUse

\* A step that moves the caller's control and keeps its arguments inside acquire()
\* moves no callback.
LEMMA MoveKeepsPlaces ==
  ASSUME IInv, CInv, NEW t \in Thread, NEW l \in PCs, Goto(t, l),
         \/ pc[t] \in AcquirePC /\ l \in AcquirePC
         \/ pc[t] \notin AcquirePC /\ l \notin AcquirePC,
         pc[t] = "wake_leader" => l = "callbacks",
         pc[t] = "callbacks" => callbacks[t] = {},
         UNCHANGED <<callback, m_pending_callbacks, callbacks, ran, asked>>
  PROVE  CInv'
<1>1. ArrayInUse'
  BY DEF IInv, CallTypeOK, Goto, CInv, ArrayInUse
<1>2. ASSUME NEW c \in Callback PROVE Conserved(c)'
  <2>1. Entering(c)' = Entering(c)
    BY DEF IInv, CallTypeOK, Goto, Entering
  <2>2. Queued(c)' = Queued(c) /\ Taken(c)' = Taken(c)
    BY TakenStays DEF Queued
  <2> QED
    BY <2>1, <2>2, Unmoved, Zenon DEF CInv
<1> QED
  BY <1>1, <1>2, Zenon DEF CInv

\* A thread leaves acquire() with its callback: no other callback moves.
LEMMA LeaveAcquire ==
  ASSUME IInv, NEW t \in Thread, NEW l \in Results, Goto(t, l), pc[t] \in AcquirePC,
         UNCHANGED callback, NEW c \in Callback
  PROVE  Entering(c)' = Entering(c) \ {t} /\ (t \in Entering(c) <=> callback[t] = c)
  BY ZenonT(40) DEF IInv, CallTypeOK, Goto, Entering, Results, AcquirePC

\* acquire() returns EXPIRED and runs the callback.
LEMMA ExpireKeepsPlaces ==
  ASSUME IInv, CInv, NEW t \in Thread, pc[t] \in AcquirePC, Expire(t), UNCHANGED asked
  PROVE  CInv'
<1> USE DEF Expire, lockVars, argVars, releaseVars
<1>1. ArrayInUse'
  BY DEF IInv, CallTypeOK, Goto, CInv, ArrayInUse, AcquirePC
<1>2. ASSUME NEW c \in Callback PROVE Conserved(c)'
  <2>1. Entering(c)' = Entering(c) \ {t} /\ (t \in Entering(c) <=> callback[t] = c)
    BY LeaveAcquire, Zenon DEF Results
  <2>2. Queued(c)' = Queued(c) /\ Taken(c)' = Taken(c)
    BY TakenStays, Zenon DEF Queued
  <2>3. Conserved(c) /\ ran[c] \in Nat /\ asked'[c] = asked[c]
    BY DEF CInv, IInv, CallTypeOK
  <2>4. CASE callback[t] # c
    <3>1. ran'[c] = ran[c]
      BY <2>4 DEF RunCallback
    <3> QED
      BY <2>1, <2>2, <2>3, <2>4, <3>1, Unmoved, Zenon
  <2>5. CASE callback[t] = c
    <3>1. ran'[c] = ran[c] + 1
      BY <2>5 DEF RunCallback
    <3> HIDE DEF Expire, lockVars, argVars, releaseVars
    <3>2. asked[c] # 0 /\ InOnePlace(Entering(c), Queued(c), Taken(c), ran[c])
      BY <2>1, <2>3, <2>5, Zenon DEF Conserved, Nowhere
    <3>3. Entering(c) = {t} /\ Queued(c) = {} /\ Taken(c) = {} /\ ran[c] = 0
      <4>1. t \in Entering(c)
        BY <2>1, <2>5, Zenon
      <4> QED
        BY <3>2, <4>1, OnlyEntering, Zenon
    <3>4. /\ Entering(c)' = {} /\ Queued(c)' = {} /\ Taken(c)' = {} /\ ran'[c] = 1
          /\ asked'[c] # 0
      BY <2>1, <2>2, <2>3, <3>1, <3>2, <3>3, OneMore, Zenon
    <3> QED
      BY <3>2, <3>4, Arrived, Zenon DEF InOnePlace
  <2> QED
    BY <2>4, <2>5, Zenon
<1> QED
  BY <1>1, <1>2 DEF CInv

\* acquire() leaves its callback in the vector.
LEMMA PushKeepsPlaces ==
  ASSUME IInv, CInv, NEW t \in Thread, NEW l \in Results, Goto(t, l), pc[t] \in AcquirePC,
         IF callback[t] # NoCallback THEN PushCallback(t) ELSE UNCHANGED m_pending_callbacks,
         UNCHANGED <<callback, callbacks, ran, asked>>
  PROVE  CInv'
<1>1. ArrayInUse'
  BY DEF IInv, CallTypeOK, Goto, CInv, ArrayInUse, AcquirePC
<1>2. ASSUME NEW c \in Callback PROVE Conserved(c)'
  <2> DEFINE e == [num |-> num[t], cb |-> callback[t], at |-> Cardinality(m_pending_callbacks)]
  <2>1. Entering(c)' = Entering(c) \ {t} /\ (t \in Entering(c) <=> callback[t] = c)
    BY LeaveAcquire, Zenon
  <2>2. Taken(c)' = Taken(c)
    BY TakenStays, ZenonT(40)
  <2>3. Conserved(c) /\ ran'[c] = ran[c] /\ asked'[c] = asked[c]
    BY DEF CInv
  <2>4. CASE callback[t] # c
    <3>1. Queued(c)' = Queued(c)
      <4>1. CASE callback[t] # NoCallback
        <5>1. m_pending_callbacks' = m_pending_callbacks \cup {e} /\ e.cb # c
          BY <2>4, <4>1, Zenon DEF PushCallback
        <5> HIDE DEF e
        <5> QED
          BY <5>1, Zenon DEF Queued
      <4>2. CASE callback[t] = NoCallback
        <5>1. m_pending_callbacks' = m_pending_callbacks
          BY <4>2, Zenon
        <5> QED
          BY <5>1, Zenon DEF Queued
      <4> QED
        BY <4>1, <4>2, Zenon
    <3> QED
      BY <2>1, <2>2, <2>3, <2>4, <3>1, Unmoved, Zenon
  <2>5. CASE callback[t] = c
    <3>1. Queued(c)' = Queued(c) \cup {e}
      <4>1. m_pending_callbacks' = m_pending_callbacks \cup {e} /\ e.cb = c
        BY <2>5, GCLConstants, Zenon DEF PushCallback
      <4> HIDE DEF e
      <4> QED
        BY <4>1, Zenon DEF Queued
    <3> HIDE DEF e
    <3>2. asked[c] # 0 /\ InOnePlace(Entering(c), Queued(c), Taken(c), ran[c])
      BY <2>1, <2>3, <2>5, Zenon DEF Conserved, Nowhere
    <3>3. Entering(c) = {t} /\ Queued(c) = {} /\ Taken(c) = {} /\ ran[c] = 0
      <4>1. t \in Entering(c)
        BY <2>1, <2>5, Zenon
      <4> QED
        BY <3>2, <4>1, OnlyEntering, Zenon
    <3>4. Entering(c)' = {} /\ Queued(c)' = {e} /\ Taken(c)' = {}
      BY <2>1, <2>2, <3>1, <3>3, Zenon
    <3>5. ran'[c] = ran[c] /\ asked'[c] = asked[c]
      BY <2>3, Zenon
    <3> QED
      BY <3>2, <3>3, <3>4, <3>5, Arrived, Zenon DEF InOnePlace
  <2> QED
    BY <2>4, <2>5, Zenon
<1> QED
  BY <1>1, <1>2, Zenon DEF CInv

\* A new call gives its callback a place.
LEMMA CallKeepsPlaces == ASSUME IInv, CInv, NEW t \in Thread, Acquire(t) PROVE CInv'
<1>0. PICK n \in 1..MaxValue, d \in {NoCallback} \cup {c \in Callback : Fresh(c)} :
         Call(t, n, d)
  BY DEF Acquire
<1> USE <1>0 DEF Call, lockVars, releaseVars
<1>1. ArrayInUse'
  BY Zenon DEF IInv, CallTypeOK, Goto, CInv, ArrayInUse
<1>2. ASSUME NEW c \in Callback PROVE Conserved(c)'
  <2>1. Queued(c)' = Queued(c) /\ Taken(c)' = Taken(c)
    BY TakenStays DEF Queued
  <2>2. Entering(c)' = IF d = c THEN Entering(c) \cup {t} ELSE Entering(c)
    BY GCLConstants DEF IInv, CallTypeOK, Goto, Entering, AcquirePC
  <2>3. Conserved(c) /\ ran'[c] = ran[c] /\ asked'[c] = IF d = c THEN n ELSE asked[c]
    BY Zenon DEF CInv
  <2>4. CASE d # c
    BY <2>1, <2>2, <2>3, <2>4, Unmoved, Zenon
  <2>5. CASE d = c
    <3>1. asked[c] = 0 /\ n # 0
      BY <2>5, GCLConstants DEF Fresh
    <3> QED
      BY <2>1, <2>2, <2>3, <2>5, <3>1, Zenon DEF Conserved, Nowhere, InOnePlace
  <2> QED
    BY <2>4, <2>5
<1> QED
  BY <1>1, <1>2 DEF CInv

\* The caller takes the result and, after release(), may call again with the
\* dummy callback.
LEMMA ReturnKeepsPlaces == ASSUME IInv, CInv, NEW t \in Thread, Return(t) PROVE CInv'
<1>0. /\ callback' = [callback EXCEPT ![t] = callback'[t]]
      /\ callback'[t] \in {DummyCallback, NoCallback}
      /\ pc' = [pc EXCEPT ![t] = pc'[t]]
      /\ pc[t] \in {"EXPIRED", "CALLBACK_QUEUED", "RELEASED"}
      /\ UNCHANGED <<m_pending_callbacks, callbacks, ran, asked>>
  BY Zenon DEF Return, Goto, IInv, CallTypeOK, lockVars
<1>1. ArrayInUse'
  BY <1>0, Zenon DEF IInv, CallTypeOK, CInv, ArrayInUse
<1>2. ASSUME NEW c \in Callback PROVE Conserved(c)'
  <2>1. Entering(c)' = Entering(c)
    BY <1>0, GCLConstants, Zenon DEF IInv, CallTypeOK, Entering, AcquirePC
  <2>2. Queued(c)' = Queued(c) /\ Taken(c)' = Taken(c)
    BY <1>0, TakenStays DEF Queued
  <2> QED
    BY <1>0, <2>1, <2>2, Unmoved, Zenon DEF CInv
<1> QED
  BY <1>1, <1>2 DEF CInv

\* release() runs the next callback of its array.
LEMMA RunKeepsPlaces ==
  ASSUME IInv, CInv, NEW t \in Thread, pc[t] = "callbacks", NEW d \in callbacks[t],
         RunCallback(d.cb), callbacks' = [callbacks EXCEPT ![t] = @ \ {d}],
         UNCHANGED <<pc, callback, m_pending_callbacks, asked>>
  PROVE  CInv'
<1>1. ArrayInUse'
  BY Zenon DEF IInv, CallTypeOK, CInv, ArrayInUse
<1>2. ASSUME NEW c \in Callback PROVE Conserved(c)'
  <2>1. Entering(c)' = Entering(c) /\ Queued(c)' = Queued(c)
    BY Zenon DEF Entering, Queued
  <2>2. Taken(c)' = Taken(c) \ {<<t, d>>} /\ (<<t, d>> \in Taken(c) <=> d.cb = c)
    BY DEF IInv, CallTypeOK, Taken
  <2>3. Conserved(c) /\ ran[c] \in Nat /\ asked'[c] = asked[c]
    BY DEF CInv, IInv, CallTypeOK
  <2>4. CASE d.cb # c
    <3>1. ran'[c] = ran[c]
      BY <2>4, Zenon DEF RunCallback
    <3> QED
      BY <2>1, <2>2, <2>3, <2>4, <3>1, Unmoved, Zenon
  <2>5. CASE d.cb = c
    <3>1. ran'[c] = ran[c] + 1
      BY <2>5, Zenon DEF RunCallback
    <3>2. asked[c] # 0 /\ InOnePlace(Entering(c), Queued(c), Taken(c), ran[c])
      BY <2>2, <2>3, <2>5, Zenon DEF Conserved, Nowhere
    <3>3. Entering(c) = {} /\ Queued(c) = {} /\ Taken(c) = {<<t, d>>} /\ ran[c] = 0
      <4>1. <<t, d>> \in Taken(c)
        BY <2>2, <2>5, Zenon
      <4> QED
        BY <3>2, <4>1, OnlyTaken, Zenon
    <3>4. /\ Entering(c)' = {} /\ Queued(c)' = {} /\ Taken(c)' = {} /\ ran'[c] = 1
          /\ asked'[c] # 0
      BY <2>1, <2>2, <2>3, <3>1, <3>2, <3>3, OneMore, Zenon
    <3> QED
      BY <3>2, <3>4, Arrived, Zenon DEF InOnePlace
  <2> QED
    BY <2>4, <2>5
<1> QED
  BY <1>1, <1>2 DEF CInv

\* Compacting a vector keeps the one element with a callback, or its absence.
LEMMA CompactKeepsOne ==
  ASSUME NEW S, NEW c
  PROVE  LET old == {d \in S : d.cb = c}
             new == {d \in Compact(S) : d.cb = c}
         IN  (old = {} => new = {}) /\ \A d : old = {d} => \E e : new = {e}
<1> DEFINE old == {d \in S : d.cb = c}
           new == {d \in Compact(S) : d.cb = c}
           f(d) == [num |-> d.num, cb |-> d.cb, at |-> Cardinality(Before(d, S))]
<1>1. \A e : e \in new <=> \E d \in old : e = f(d)
  BY DEF Compact
<1>2. ASSUME old = {} PROVE new = {}
  BY <1>1, <1>2, Zenon
<1>3. ASSUME NEW d, old = {d} PROVE new = {f(d)}
  <2> HIDE DEF old, new, f
  <2> QED
    BY <1>1, <1>3
<1> QED
  BY <1>2, <1>3, Zenon

\* release() hands the callbacks it reaches to its array, runs those that do not
\* fit, and leaves the others.
LEMMA ReleaseKeepsPlaces ==
  ASSUME IInv, CInv, NEW t \in Thread, NEW n \in Value, Release(t, n), UNCHANGED asked
  PROVE  CInv'
<1>0. /\ pc[t] = "ACQUIRED"
      /\ m_pending_callbacks' = Left(n)
      /\ callbacks' = [callbacks EXCEPT ![t] = {c \in Due(n) : c.at < CallbackSlots}]
      /\ RunCallbacks({c \in Due(n) : c.at >= CallbackSlots})
      /\ pc' = [pc EXCEPT ![t] = "wake_leader"] /\ callback' = callback
  BY ReleaseEffect, Zenon DEF Goto, argVars
<1>1. ArrayInUse'
  BY <1>0, Zenon DEF IInv, CallTypeOK, CInv, ArrayInUse
<1>2. callbacks[t] = {}
  BY <1>0 DEF CInv, ArrayInUse
<1>3. ASSUME NEW c \in Callback PROVE Conserved(c)'
  <2> DEFINE D == {d \in m_pending_callbacks : d.num <= n}
             L == {d \in m_pending_callbacks : d.num > n}
             due == {d \in Compact(D) : d.cb = c}
             array == {d \in due : d.at < CallbackSlots}
             rest == {d \in due : d.at >= CallbackSlots}
  <2>1. /\ {d \in D : d.cb = c} = {d \in Queued(c) : d.num <= n}
        /\ {d \in L : d.cb = c} = {d \in Queued(c) : d.num > n}
    BY DEF Queued
  <2>2. /\ {d \in D : d.cb = c} = {} => due = {}
        /\ \A d : {x \in D : x.cb = c} = {d} => \E e : due = {e}
    BY CompactKeepsOne, Zenon
  <2>3. Queued(c)' = {d \in Compact(L) : d.cb = c}
    BY <1>0, Zenon DEF Queued, Left
  <2>4. /\ {d \in L : d.cb = c} = {} => Queued(c)' = {}
        /\ \A d : {x \in L : x.cb = c} = {d} => \E e : Queued(c)' = {e}
    <3>1. LET new == {d \in Compact(L) : d.cb = c}
          IN  /\ {d \in L : d.cb = c} = {} => new = {}
              /\ \A d : {x \in L : x.cb = c} = {d} => \E e : new = {e}
      BY CompactKeepsOne, Zenon
    <3> QED
      BY <2>3, <3>1, Zenon
  <2>5. Entering(c)' = Entering(c)
    BY <1>0, Zenon DEF IInv, CallTypeOK, Entering, AcquirePC
  <2>6. Taken(c)' = Taken(c) \cup ({t} \X array)
    <3> DEFINE A == {d \in Due(n) : d.at < CallbackSlots}
    <3>1. array = {d \in A : d.cb = c}
      BY Zenon DEF Due
    <3>2. callbacks' = [callbacks EXCEPT ![t] = A] /\ callbacks \in [Thread -> SUBSET Element]
      BY <1>0, Zenon DEF IInv, CallTypeOK
    <3>3. \A q : q \in Taken(c)' <=> \E u \in Thread : \E d \in callbacks'[u] : q = <<u, d>> /\ d.cb = c
      BY TakenPairs, Zenon
    <3>4. \A q : q \in Taken(c) <=> \E u \in Thread : \E d \in callbacks[u] : q = <<u, d>> /\ d.cb = c
      BY TakenPairs, Zenon
    <3> HIDE DEF A, array, due
    <3> QED
      BY <1>2, <3>1, <3>2, <3>3, <3>4
  <2>7. ran'[c] = ran[c] + Cardinality(rest)
    <3>1. rest = {d \in {e \in Due(n) : e.at >= CallbackSlots} : d.cb = c}
      BY Zenon DEF Due
    <3> QED
      BY <1>0, <3>1, Zenon DEF RunCallbacks
  <2>8. \A d \in due : d.at \in Nat
    <3>1. D \in SUBSET Element /\ IsFiniteSet(D)
      BY FS_Subset DEF IInv, CallTypeOK
    <3> HIDE DEF D
    <3> QED
      BY <3>1, CompactElements DEF Element
  <2>9. Conserved(c) /\ ran[c] \in Nat /\ asked'[c] = asked[c]
    BY DEF CInv, IInv, CallTypeOK
  <2> HIDE DEF D, L, due, array, rest
  <2>10. CASE Queued(c) = {}
    <3>1. Queued(c)' = {} /\ due = {}
      BY <2>1, <2>2, <2>4, <2>10, Zenon
    <3>2. array = {} /\ rest = {}
      BY <3>1 DEF array, rest
    <3>3. Taken(c)' = Taken(c) /\ ran'[c] = ran[c]
      <4>1. Cardinality(rest) = 0
        BY <3>2, FS_EmptySet, Zenon
      <4>2. {t} \X array = {}
        BY <3>2, Zenon
      <4> QED
        BY <2>6, <2>7, <2>9, <4>1, <4>2, OneMore, Zenon
    <3> QED
      BY <2>5, <2>9, <2>10, <3>1, <3>3, Unmoved, Zenon
  <2>11. CASE Queued(c) # {}
    <3>0. PICK d : d \in Queued(c)
      BY <2>11
    <3>1. asked[c] # 0 /\ InOnePlace(Entering(c), Queued(c), Taken(c), ran[c])
      BY <2>9, <2>11, Zenon DEF Conserved, Nowhere
    <3>2. Entering(c) = {} /\ Queued(c) = {d} /\ Taken(c) = {} /\ ran[c] = 0
      BY <3>0, <3>1, TheOnlyOne, ZenonT(40)
    <3>3. d.num \in Nat
      BY <3>0 DEF Queued, IInv, CallTypeOK, Element, Value
    <3>4. CASE d.num > n
      <4>1. due = {} /\ \E e : Queued(c)' = {e}
        <5>1. {x \in Queued(c) : x.num <= n} = {}
          BY <3>2, <3>3, <3>4 DEF Value
        <5>2. {x \in Queued(c) : x.num > n} = {d}
          BY <3>2, <3>4
        <5> QED
          BY <2>1, <2>2, <2>4, <5>1, <5>2, Zenon
      <4>2. array = {} /\ rest = {}
        BY <4>1 DEF array, rest
      <4>3. Taken(c)' = {} /\ ran'[c] = 0
        <5>1. Cardinality(rest) = 0
          BY <4>2, FS_EmptySet, Zenon
        <5>2. {t} \X array = {}
          BY <4>2, Zenon
        <5> QED
          BY <2>6, <2>7, <2>9, <3>2, <5>1, <5>2, OneMore, ZenonT(40)
      <4>4. Entering(c)' = {} /\ asked'[c] = asked[c]
        BY <2>5, <2>9, <3>2, Zenon
      <4> QED
        BY <3>1, <4>1, <4>3, <4>4, Arrived, Zenon DEF InOnePlace
    <3>5. CASE d.num <= n
      <4>1. Queued(c)' = {} /\ \E e : due = {e}
        <5>1. {x \in Queued(c) : x.num <= n} = {d}
          BY <3>2, <3>5
        <5>2. {x \in Queued(c) : x.num > n} = {}
          BY <3>2, <3>3, <3>5 DEF Value
        <5> QED
          BY <2>1, <2>2, <2>4, <5>1, <5>2, Zenon
      <4>2. PICK e : due = {e}
        BY <4>1
      <4>3. CASE e.at < CallbackSlots
        <5>1. array = {e} /\ rest = {}
          BY <2>8, <4>2, <4>3, GCLConstants DEF array, rest
        <5>2. Taken(c)' = {<<t, e>>} /\ ran'[c] = 0
          BY <2>6, <2>7, <3>2, <5>1, FS_EmptySet
        <5>3. Entering(c)' = {} /\ asked'[c] = asked[c]
          BY <2>5, <2>9, <3>2, Zenon
        <5> QED
          BY <3>1, <4>1, <5>2, <5>3, Arrived, Zenon DEF InOnePlace
      <4>4. CASE ~(e.at < CallbackSlots)
        <5>1. array = {} /\ rest = {e}
          BY <2>8, <4>2, <4>4, GCLConstants DEF array, rest
        <5>2. Taken(c)' = {} /\ ran'[c] = 1
          <6>1. Cardinality(rest) = 1
            BY <5>1, FS_Singleton, ZenonT(40)
          <6> QED
            BY <2>6, <2>7, <3>2, <5>1, <6>1
        <5>3. Entering(c)' = {} /\ asked'[c] = asked[c]
          BY <2>5, <2>9, <3>2, Zenon
        <5> QED
          BY <3>1, <4>1, <5>2, <5>3, Arrived, Zenon DEF InOnePlace
      <4> QED
        BY <4>3, <4>4
    <3> QED
      BY <3>3, <3>4, <3>5 DEF Value
  <2> QED
    BY <2>10, <2>11
<1> QED
  BY <1>1, <1>3 DEF CInv

\* Every step of a call on its own.
LEMMA StepKeepsPlaces == ASSUME IInv, CInv, NEW t \in Thread, Step(t) PROVE CInv'
<1> USE DEF lockVars, argVars, releaseVars, PCs, AcquirePC, ReleasePC, Results
<1>0. UNCHANGED asked
  BY DEF Step
<1>1. CASE SpinValue(t)
  <2>1. CASE Expire(t)
    BY <1>0, <1>1, <2>1, ExpireKeepsPlaces, Zenon DEF SpinValue
  <2>2. CASE Goto(t, "pending") /\ UNCHANGED <<lockVars, waiterVars, argVars, releaseVars, ran>>
    BY <1>0, <1>1, <2>2, MoveKeepsPlaces, Zenon DEF SpinValue
  <2>3. CASE EnterLoop(t)
    BY <1>0, <1>1, <2>3, MoveKeepsPlaces, Zenon DEF SpinValue, EnterLoop
  <2> QED
    BY <1>1, <2>1, <2>2, <2>3, Zenon DEF SpinValue
<1>2. CASE SpinPending(t)
  <2>1. CASE EnterLoop(t)
    BY <1>0, <1>2, <2>1, MoveKeepsPlaces, Zenon DEF SpinPending, EnterLoop
  <2>2. CASE Goto(t, "respin") /\ UNCHANGED <<lockVars, waiterVars, argVars, releaseVars, ran>>
    BY <1>0, <1>2, <2>2, MoveKeepsPlaces, ZenonT(40) DEF SpinPending
  <2> QED
    BY <1>2, <2>1, <2>2, Zenon DEF SpinPending
<1>3. CASE LoopTest(t)
  <2>1. CASE Goto(t, "mutex") /\ UNCHANGED <<lockVars, waiterVars, argVars, releaseVars, ran>>
    BY <1>0, <1>3, <2>1, MoveKeepsPlaces, ZenonT(40) DEF LoopTest
  <2>2. CASE Expire(t)
    BY <1>0, <1>3, <2>2, ExpireKeepsPlaces DEF LoopTest
  <2> QED
    BY <1>3, <2>1, <2>2 DEF LoopTest
<1>4. CASE ExpireInMutex(t)
  BY <1>0, <1>4, ExpireKeepsPlaces DEF ExpireInMutex
<1>5. CASE TakeLock(t)
  BY <1>0, <1>5, PushKeepsPlaces DEF TakeLock
<1>6. CASE QueueCallback(t)
  BY <1>0, <1>6, PushKeepsPlaces DEF QueueCallback, MayQueueCallback
<1>7. CASE JoinWaiters(t)
  BY <1>0, <1>7, MoveKeepsPlaces, ZenonT(40) DEF JoinWaiters
<1>8. CASE SemaphoreWait(t)
  BY <1>0, <1>8, MoveKeepsPlaces DEF SemaphoreWait
<1>9. CASE WakeLeader(t)
  BY <1>0, <1>9, MoveKeepsPlaces, Zenon DEF WakeLeader, WakeFirst
<1>10. CASE RunNextCallback(t)
  <2>1. CASE callbacks[t] = {} /\ Goto(t, "wake")
    BY <1>0, <1>10, <2>1, MoveKeepsPlaces, Zenon DEF RunNextCallback
  <2>2. ASSUME NEW d \in callbacks[t], RunCallback(d.cb),
               callbacks' = [callbacks EXCEPT ![t] = @ \ {d}],
               UNCHANGED <<lockVars, waiterVars, pc, argVars, wakeup_list, ret>>
        PROVE  CInv'
    BY <1>0, <1>10, <2>2, RunKeepsPlaces, Zenon DEF RunNextCallback
  <2> QED
    BY <1>10, <2>1, <2>2 DEF RunNextCallback
<1>11. CASE WakeOthers(t)
  <2>1. CASE WakeFirst(t) /\ UNCHANGED pc
    BY <1>0, <2>1, SamePlaces DEF WakeFirst
  <2>2. CASE Goto(t, "RELEASED") /\ UNCHANGED <<lockVars, waiterVars, argVars, releaseVars, ran>>
    BY <1>0, <1>11, <2>2, MoveKeepsPlaces, Zenon DEF WakeOthers
  <2> QED
    BY <1>11, <2>1, <2>2, ZenonT(40) DEF WakeOthers
<1> QED
  BY <1>1, <1>2, <1>3, <1>4, <1>5, <1>6, <1>7, <1>8, <1>9, <1>10, <1>11 DEF Step

\* Every step of the specification keeps each callback in one place.
LEMMA NextCInv == IInv /\ CInv /\ [Next]_vars => CInv'
<1> SUFFICES ASSUME IInv, CInv, [Next]_vars PROVE CInv'
  OBVIOUS
<1>1. ASSUME NEW t \in Thread, OwnerSetPending(t) PROVE CInv'
  BY <1>1, SamePlaces DEF OwnerSetPending, SetPending, argVars, releaseVars
<1>2. ASSUME NEW t \in Thread, OwnerRelease(t) PROVE CInv'
  BY <1>2, ReleaseKeepsPlaces DEF OwnerRelease
<1>3. CASE UNCHANGED vars
  BY <1>3, SamePlaces DEF vars, lockVars, argVars, releaseVars
<1> QED
  BY <1>1, <1>2, <1>3, CallKeepsPlaces, ReturnKeepsPlaces, StepKeepsPlaces DEF Next

\* A callback given to acquire() is never lost and never run twice: while it has not
\* run it is in exactly one of the call, m_pending_callbacks and the array of one
\* release(), however many callbacks that array can hold.
THEOREM CallbackOnce == Spec => []CallbackConserved
<1>1. Init => CInv
  <2> SUFFICES ASSUME Init PROVE CInv
    OBVIOUS
  <2>1. ArrayInUse
    BY DEF Init, ArrayInUse
  <2>2. ASSUME NEW c \in Callback PROVE Conserved(c)
    BY <2>2, GCLConstants DEF Init, Conserved, Nowhere, Entering, Queued, Taken, AcquirePC
  <2> QED
    BY <2>1, <2>2 DEF CInv
<1> QED
  BY <1>1, Invariance, NextCInv, PlacesAreOne, PTL DEF Spec
=============================================================================
