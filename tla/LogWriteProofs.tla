--------------------------- MODULE LogWriteProofs ---------------------------
(***************************************************************************)
(* Durability of the redo log for any number of threads, LSNs, callbacks   *)
(* and stops: what flush_lock, write_lock and flushed_to_disk_lsn promise  *)
(* is in the file, a commit is answered only when its log is, and no       *)
(* assertion of release() and set_pending() can fail.                      *)
(*                                                                         *)
(* Each action has a lemma that its step is Good: right for the thread     *)
(* that takes it and harmless for the others.                              *)
(***************************************************************************)
EXTENDS LogWriteLocks

----------------------------------------------------------------------------
(* Steps that change nothing but the locals of a thread *)

sharedVars == <<f_value, f_lock, f_pending_callbacks, w_value, w_lock, w_pending_callbacks,
                ran, asked, logVars>>

\* LSNs are compared as numbers.
LEMMA NatFacts == \A n \in Nat : 0 <= n /\ n <= n
OBVIOUS

\* Such a step has to be right for the thread itself.
LEMMA LocalGood ==
  ASSUME IInv, NEW t \in Thread, UNCHANGED sharedVars, LocalTypes', Thr(t)', Gives(t),
         \A u \in Thread \ {t} : Still(u),
         f_pc'[t] = "ACQUIRED" <=> f_pc[t] = "ACQUIRED",
         w_pc'[t] = "ACQUIRED" <=> w_pc[t] = "ACQUIRED"
  PROVE  Good(t)
<1> USE DEF sharedVars, logVars, disk
<1>0. Types /\ Shared /\ Owners
  BY DEF IInv
<1>1. Types' /\ Shared'
  BY <1>0 DEF Types, Shared, Vector, RanReached
<1>2. Owners'
  <2>1. \A u \in Thread : /\ f_pc'[u] = "ACQUIRED" <=> f_pc[u] = "ACQUIRED"
                          /\ w_pc'[u] = "ACQUIRED" <=> w_pc[u] = "ACQUIRED"
    BY DEF Still
  <2> QED
    BY <1>0, <2>1 DEF Owners, Owner
<1>3. Grows /\ \A u \in Thread \ {t} : Kept(u)
  BY <1>0 DEF Types, Grows, Kept
<1> QED
  BY <1>1, <1>2, <1>3 DEF Good, OthersKept

\* log_write_up_to() is called.
LEMMA StartWriteUpToGood == ASSUME IInv, NEW t \in Thread, StartWriteUpTo(t) PROVE Good(t)
<1> USE DEF Goto, lockState, fLock, wLock, locals, logVars, disk
<1>0. PICK n \in 1..log_lsn, o \in Modes :
        \E c \in {NoCallback} \cup {d \in Callback : Fresh(d) /\ (d \in DurableCallback <=> o = "flush")} :
            /\ op' = [op EXCEPT ![t] = o]
            /\ lsn' = [lsn EXCEPT ![t] = n]
            /\ cb' = [cb EXCEPT ![t] = c]
            /\ want' = [want EXCEPT ![t] = IF c = NoCallback THEN n ELSE 0]
  BY Zenon DEF StartWriteUpTo
<1>1. PICK c \in {NoCallback} \cup Callback :
            /\ c # NoCallback => Fresh(c) /\ (c \in DurableCallback <=> o = "flush")
            /\ op' = [op EXCEPT ![t] = o]
            /\ lsn' = [lsn EXCEPT ![t] = n]
            /\ cb' = [cb EXCEPT ![t] = c]
            /\ want' = [want EXCEPT ![t] = IF c = NoCallback THEN n ELSE 0]
  BY <1>0, Zenon
<1>2. /\ Types /\ LocalTypes /\ Thr(t) /\ lpc[t] = "idle" /\ lpc' = [lpc EXCEPT ![t] = "repeat"]
      /\ UNCHANGED <<f_pc, w_pc, num, callback, callbacks, ret, target, pending_write_lsn>>
      /\ UNCHANGED sharedVars
      /\ n \in Nat /\ n > 0 /\ n <= log_lsn /\ o \in {"flush", "write"}
  BY LogConstants DEF StartWriteUpTo, IInv, Types, sharedVars
<1>3. LocalTypes' /\ \A u \in Thread \ {t} : Still(u)
  BY <1>1, <1>2, Zenon DEF LocalTypes, Labels, Ops, AnyCallback, Still
<1>4. Gives(t)
  BY <1>1, <1>2, LogConstants, Zenon DEF LocalTypes, Gives, Fresh
<1>5. Thr(t)'
  <2>1. lpc'[t] = "repeat" /\ op'[t] = o /\ lsn'[t] = n /\ cb'[t] = c /\ want'[t] \in {0, n}
        /\ (c # NoCallback => want'[t] = 0)
    BY <1>1, <1>2, Zenon DEF LocalTypes
  <2> USE <1>2, <2>1 DEF sharedVars
  <2>2. Where(t)' /\ Wrote(t)' /\ Releasing(t)'
    BY Zenon DEF Thr, Where, Wrote, Latched, Releasing, Vector, Calling, Stopping, InRelease, ReleasePC
  <2>3. Served(t)'
    BY Zenon DEF Thr, Where, Served, Calling
  <2>4. Called(t)'
    <3>1. c \in Callback => /\ asked[c] = 0 /\ (c \in DurableCallback <=> o = "flush")
                            /\ \A u \in Thread : cb'[u] = c => u = t
      BY <1>1, LogConstants DEF Fresh, LocalTypes
    <3> QED
      BY <3>1, LogConstants, Zenon DEF Thr, Where, Called, Calling, AcquirePC, InAcquire, Results
  <2> QED
    BY <2>2, <2>3, <2>4, Zenon DEF Thr
<1> QED
  BY <1>2, <1>3, <1>4, <1>5, LocalGood, Zenon DEF Thr, Where

\* flush_lock.acquire() has answered a durable call: its LSN is flushed, or its
\* callback waits.
LEMMA FlushNotAcquiredGood == ASSUME IInv, NEW t \in Thread, FlushNotAcquired(t) PROVE Good(t)
<1>0. /\ Types /\ LocalTypes /\ Shared /\ Thr(t) /\ UNCHANGED sharedVars
      /\ lpc[t] = "flush_acquire" /\ op[t] = "flush"
      /\ f_pc[t] \in {"EXPIRED", "CALLBACK_QUEUED"}
      /\ f_pc' = [f_pc EXCEPT ![t] = "idle"]
      /\ lpc' = [lpc EXCEPT ![t] = "returned"]
      /\ UNCHANGED <<w_pc, op, num, ret, lsn, target, want, pending_write_lsn,
                    callback, cb, callbacks>>
  BY Zenon DEF IInv, FlushNotAcquired, Goto, sharedVars, lockState, fLock, wLock, locals, logVars,
         callVars, disk
<1> USE <1>0
<1>1. LocalTypes' /\ Gives(t) /\ \A u \in Thread \ {t} : Still(u)
  BY LogConstants, Zenon DEF Types, LocalTypes, Labels, LockPC, Ops, AnyCallback, Gives, Still
<1>2. /\ f_pc'[t] = "idle"
      /\ lpc'[t] = "returned"
      /\ UNCHANGED <<f_value, w_value, log_lsn, latch, write_lsn, disk_written,
                   disk_durable, flushed_to_disk_lsn, syncing, asked>>
  BY DEF LocalTypes, sharedVars, logVars, disk
<1> USE <1>2
<1>3. Where(t)'
  BY Zenon DEF Thr, Where, Calling, Stopping
<1>4. Wrote(t)'
  BY Zenon DEF Types, LocalTypes, Shared, Thr, Where, Wrote, Latched, Stopping
<1>5. Served(t)'
  <2>1. f_pc[t] = "EXPIRED" => lsn[t] <= disk_durable /\ lsn[t] <= disk_written
    <3>1. /\ lsn[t] \in Nat /\ f_value \in Nat /\ flushed_to_disk_lsn \in Nat
          /\ disk_durable \in Nat /\ disk_written \in Nat
      BY Zenon DEF Types, LocalTypes
    <3>2. /\ f_pc[t] = "EXPIRED" => lsn[t] <= f_value
          /\ f_value <= flushed_to_disk_lsn /\ flushed_to_disk_lsn <= disk_durable
          /\ disk_durable <= disk_written
      BY Zenon DEF Shared, Thr, Served
    <3> HIDE <1>0, <1>2
    <3> QED
      BY <3>1, <3>2
  <2>2. f_pc[t] = "CALLBACK_QUEUED" => cb[t] # NoCallback
    BY Zenon DEF Thr, Served, Called, InAcquire, Results
  <2> QED
    BY <2>1, <2>2, Zenon DEF Thr, Where, Served, Calling
<1>6. Called(t)'
  BY LogConstants, Zenon DEF LocalTypes, Thr, Where, Called, Calling, Stopping, AcquirePC, InAcquire,
                          Results
<1>7. Releasing(t)'
  BY Zenon DEF Types, LocalTypes, Thr, Where, Releasing, InRelease, ReleasePC, Vector
<1> QED
  BY <1>1, <1>3, <1>4, <1>5, <1>6, <1>7, LocalGood, Zenon DEF Thr, Where

\* write_lock.acquire() has answered: the LSN of the call is written, or its
\* callback waits.
LEMMA WriteNotAcquiredGood == ASSUME IInv, NEW t \in Thread, WriteNotAcquired(t) PROVE Good(t)
<1>0. /\ Types /\ LocalTypes /\ Shared /\ Thr(t) /\ UNCHANGED sharedVars
      /\ lpc[t] = "write_acquire" /\ op[t] \in {"flush", "write"}
      /\ w_pc[t] \in {"EXPIRED", "CALLBACK_QUEUED"}
      /\ w_pc' = [w_pc EXCEPT ![t] = "idle"]
      /\ pending_write_lsn' = [pending_write_lsn EXCEPT ![t] = 0]
      /\ lpc' = [lpc EXCEPT ![t] = (IF op[t] = "flush" THEN "flush" ELSE "returned")]
      /\ UNCHANGED <<f_pc, op, num, ret, lsn, target, want, callback, cb,
                    callbacks>>
  BY Zenon DEF IInv, WriteNotAcquired, Goto, Durable, sharedVars, lockState, fLock, wLock, locals, logVars,
         callVars, disk
<1> USE <1>0
<1>1. LocalTypes' /\ Gives(t) /\ \A u \in Thread \ {t} : Still(u)
  BY LogConstants, Zenon DEF Types, LocalTypes, Labels, LockPC, Ops, AnyCallback, Gives, Still
<1>2. /\ w_pc'[t] = "idle"
      /\ pending_write_lsn'[t] = 0
      /\ lpc'[t] = (IF op[t] = "flush" THEN "flush" ELSE "returned")
      /\ UNCHANGED <<f_value, w_value, log_lsn, latch, write_lsn, disk_written,
                   disk_durable, flushed_to_disk_lsn, syncing, asked>>
  BY DEF LocalTypes, sharedVars, logVars, disk
<1> USE <1>2
<1>a. \/ /\ op[t] = "flush" /\ op'[t] = "flush" /\ lpc'[t] = "flush"
         /\ f_pc'[t] = "ACQUIRED"
      \/ /\ op[t] = "write" /\ op'[t] = "write" /\ lpc'[t] = "returned"
         /\ f_pc'[t] = "idle"
  BY Zenon DEF Thr, Where
<1>3. Where(t)'
  <2> HIDE <1>0
  <2> QED
    BY <1>a, Zenon DEF Where, Calling, Stopping
<1>4. Wrote(t)'
  BY Zenon DEF Types, LocalTypes, Shared, Thr, Where, Wrote, Latched, Stopping
<1>5. Served(t)'
  <2>1. w_pc[t] = "EXPIRED" => lsn[t] <= w_value /\ lsn[t] <= disk_written
    <3>1. lsn[t] \in Nat /\ w_value \in Nat /\ write_lsn \in Nat
      BY Zenon DEF Types, LocalTypes
    <3>2. /\ w_pc[t] = "EXPIRED" => lsn[t] <= w_value
          /\ w_value <= write_lsn /\ write_lsn = disk_written
      BY Zenon DEF Shared, Thr, Served
    <3> HIDE <1>0, <1>2
    <3> QED
      BY <3>1, <3>2
  <2>2. w_pc[t] = "CALLBACK_QUEUED" => op[t] = "write" /\ cb[t] # NoCallback
    BY Zenon DEF Thr, Served, Called, InAcquire, Results
  <2> QED
    <3>1. CASE op[t] = "flush"
      BY <1>a, <2>1, <2>2, <3>1, Zenon DEF Thr, Served, Calling
    <3>2. CASE op[t] = "write"
      BY <1>a, <2>1, <2>2, <3>2, Zenon DEF Thr, Served, Calling
    <3> QED
      BY <3>1, <3>2, Zenon
<1>6. Called(t)'
  BY LogConstants, Zenon DEF LocalTypes, Thr, Where, Called, Calling, Stopping, AcquirePC, InAcquire,
                          Results
<1>7. Releasing(t)'
  <2>1. 0 <= log_lsn
    BY NatFacts, Zenon DEF Types
  <2> QED
    BY <2>1, Zenon DEF Thr, Where, Releasing, InRelease, ReleasePC, Vector
<1> QED
  BY <1>1, <1>3, <1>4, <1>5, <1>6, <1>7, LocalGood, Zenon DEF Thr, Where

\* write_buf() finds the buffer written, or takes all of it.
LEMMA WriteAcquiredGood == ASSUME IInv, NEW t \in Thread, WriteAcquired(t) PROVE Good(t)
<1> DEFINE l == lpc'[t]
<1>0. /\ Types /\ LocalTypes /\ Shared /\ Thr(t) /\ UNCHANGED sharedVars
      /\ lpc[t] = "write_acquire" /\ op[t] \in {"flush", "write"}
      /\ w_pc[t] = "ACQUIRED" /\ latch = NoThread
      /\ target' = [target EXCEPT ![t] = log_lsn]
      /\ lpc' = [lpc EXCEPT ![t] = l]
      /\ UNCHANGED <<f_pc, w_pc, op, num, ret, lsn, want, pending_write_lsn,
                    callback, cb, callbacks>>
      /\ l \in {"write_file", "write_release"} /\ (l = "write_release" => write_lsn >= log_lsn)
  BY Zenon DEF IInv, LocalTypes, WriteAcquired, Goto, WriteBuf, W!SetPending, sharedVars, lockState, fLock, wLock, locals,
         logVars, callVars, disk
<1> HIDE DEF l
<1> USE <1>0
<1>1. LocalTypes' /\ Gives(t) /\ \A u \in Thread \ {t} : Still(u)
  BY LogConstants, Zenon DEF Types, LocalTypes, Labels, LockPC, Ops, AnyCallback, Gives, Still
<1>2. /\ target'[t] = log_lsn
      /\ lpc'[t] = l
      /\ UNCHANGED <<f_value, w_value, log_lsn, latch, write_lsn, disk_written,
                   disk_durable, flushed_to_disk_lsn, syncing, asked>>
  BY Zenon DEF LocalTypes, sharedVars, logVars, disk
<1> USE <1>2
<1>3. Where(t)'
  BY Zenon DEF Thr, Where, Calling, Stopping
<1>4. Wrote(t)'
  <2>1. latch # t /\ ~Latched(t)'
    BY LogConstants, Zenon DEF Thr, Wrote, Latched
  <2>2. /\ lpc'[t] = "write_file" => write_lsn <= log_lsn
        /\ lpc'[t] = "write_release" => w_value <= log_lsn /\ log_lsn <= write_lsn
        /\ log_lsn <= log_lsn
    BY SMTT(30) DEF Types, Shared
  <2> QED
    BY <2>1, <2>2, Zenon DEF Wrote
<1>5. Served(t)'
  BY LogConstants, Zenon DEF Types, LocalTypes, Shared, Thr, Where, Wrote, Served, Calling, Stopping
<1>6. Called(t)'
  BY LogConstants, Zenon DEF LocalTypes, Thr, Where, Called, Calling, Stopping, AcquirePC, InAcquire,
                          Results
<1>7. Releasing(t)'
  BY Zenon DEF Types, LocalTypes, Thr, Where, Releasing, InRelease, ReleasePC, Vector
<1> QED
  BY <1>1, <1>3, <1>4, <1>5, <1>6, <1>7, LocalGood, Zenon DEF Thr, Where

\* log_write_and_flush() takes the buffer under the latch that it holds.
LEMMA StopWriteBufGood == ASSUME IInv, NEW t \in Thread, StopWriteBuf(t) PROVE Good(t)
<1> DEFINE l == lpc'[t]
<1>0. /\ Types /\ LocalTypes /\ Shared /\ Thr(t) /\ UNCHANGED sharedVars
      /\ lpc[t] = "stopped" /\ op[t] = "write_and_flush"
      /\ target' = [target EXCEPT ![t] = log_lsn]
      /\ lpc' = [lpc EXCEPT ![t] = l]
      /\ UNCHANGED <<f_pc, w_pc, op, num, ret, lsn, want, pending_write_lsn,
                    callback, cb, callbacks>>
      /\ l \in {"write_file", "write_release"} /\ (l = "write_release" => write_lsn >= log_lsn)
  BY Zenon DEF IInv, LocalTypes, StopWriteBuf, Goto, WriteBuf, W!SetPending, sharedVars, lockState, fLock, wLock, locals,
         logVars, callVars, disk
<1> HIDE DEF l
<1> USE <1>0
<1>1. LocalTypes' /\ Gives(t) /\ \A u \in Thread \ {t} : Still(u)
  BY LogConstants, Zenon DEF Types, LocalTypes, Labels, LockPC, Ops, AnyCallback, Gives, Still
<1>2. /\ target'[t] = log_lsn
      /\ lpc'[t] = l
      /\ UNCHANGED <<f_value, w_value, log_lsn, latch, write_lsn, disk_written,
                   disk_durable, flushed_to_disk_lsn, syncing, asked>>
  BY Zenon DEF LocalTypes, sharedVars, logVars, disk
<1> USE <1>2
<1>3. Where(t)'
  BY Zenon DEF Thr, Where, Calling, Stopping
<1>4. Wrote(t)'
  <2>1. latch = t /\ Latched(t)'
    BY Zenon DEF Thr, Wrote, Latched
  <2>2. /\ lpc'[t] = "write_file" => write_lsn <= log_lsn
        /\ lpc'[t] = "write_release" => w_value <= log_lsn /\ log_lsn <= write_lsn
        /\ log_lsn <= log_lsn
    BY DEF Types, Shared
  <2> QED
    BY <2>1, <2>2, Zenon DEF Wrote
<1>5. Served(t)'
  BY LogConstants, Zenon DEF Types, LocalTypes, Shared, Thr, Where, Wrote, Served, Calling, Stopping
<1>6. Called(t)'
  BY LogConstants, Zenon DEF LocalTypes, Thr, Where, Called, Calling, Stopping, AcquirePC, InAcquire,
                          Results
<1>7. Releasing(t)'
  BY Zenon DEF Types, LocalTypes, Thr, Where, Releasing, InRelease, ReleasePC, Vector
<1> QED
  BY <1>1, <1>3, <1>4, <1>5, <1>6, <1>7, LocalGood, Zenon DEF Thr, Where

\* write_lock.release() has returned: go on to the flush, or return, or repeat for
\* callbacks that have no leader.
LEMMA WriteReleasedGood == ASSUME IInv, NEW t \in Thread, WriteReleased(t) PROVE Good(t)
<1> DEFINE l == lpc'[t]
           n == lsn'[t]
           c == cb'[t]
           p == pending_write_lsn'[t]
<1>0. /\ Types /\ LocalTypes /\ Shared /\ Thr(t) /\ UNCHANGED sharedVars
      /\ lpc[t] = "write_releasing" /\ w_pc[t] = "RELEASED"
      /\ w_pc' = [w_pc EXCEPT ![t] = "idle"]
      /\ pending_write_lsn' = [pending_write_lsn EXCEPT ![t] = p]
      /\ lsn' = [lsn EXCEPT ![t] = n]
      /\ cb' = [cb EXCEPT ![t] = c]
      /\ lpc' = [lpc EXCEPT ![t] = l]
      /\ UNCHANGED <<f_pc, op, num, ret, target, want, callback, callbacks>>
      /\ \/ /\ op[t] = "flush" /\ l = "flush" /\ p = ret[t] /\ n = lsn[t] /\ c = cb[t]
         \/ /\ op[t] = "write" /\ p = 0
            /\ \/ ret[t] # 0 /\ l = "repeat" /\ n = ret[t] /\ c = DummyCallback
               \/ l = "returned" /\ n = lsn[t] /\ c = cb[t]
  BY SMTT(30) DEF IInv, LocalTypes, WriteReleased, Goto, Finish, MaxOf, Durable, sharedVars, lockState, fLock, wLock, locals,
         logVars, callVars, disk
<1> HIDE DEF l, n, c, p
<1> USE <1>0
<1>1. LocalTypes' /\ Gives(t) /\ \A u \in Thread \ {t} : Still(u)
  BY LogConstants, SMTT(30) DEF Types, LocalTypes, Labels, LockPC, Ops, AnyCallback, Gives, Still
<1>2. /\ w_pc'[t] = "idle"
      /\ pending_write_lsn'[t] = p
      /\ lsn'[t] = n
      /\ cb'[t] = c
      /\ lpc'[t] = l
      /\ UNCHANGED <<f_value, w_value, log_lsn, latch, write_lsn, disk_written,
                   disk_durable, flushed_to_disk_lsn, syncing, asked>>
  BY Zenon DEF LocalTypes, sharedVars, logVars, disk
<1> USE <1>2
<1>3. Where(t)'
  BY Zenon DEF Thr, Where, Calling, Stopping
<1>4. Wrote(t)'
  BY Zenon DEF Types, LocalTypes, Shared, Thr, Where, Wrote, Latched, Stopping
<1>5. Served(t)'
  <2>1. /\ lsn[t] <= w_value /\ lsn[t] <= disk_written /\ lsn[t] > 0 /\ lsn[t] <= log_lsn
        /\ ret[t] <= log_lsn /\ (ret[t] # 0 => ret[t] > 0)
    <3>1. /\ lsn[t] \in Nat /\ target[t] \in Nat /\ w_value \in Nat /\ write_lsn \in Nat
          /\ ret[t] \in Nat
      BY Zenon DEF Types, LocalTypes
    <3>2. /\ lsn[t] <= target[t] /\ target[t] <= w_value /\ w_value <= write_lsn
          /\ write_lsn = disk_written /\ lsn[t] > 0 /\ lsn[t] <= log_lsn
          /\ ret[t] <= log_lsn
      BY Zenon DEF Shared, Thr, Wrote, Served, Calling, Releasing
    <3> HIDE <1>0, <1>2
    <3> QED
      BY <3>1, <3>2
  <2>2. n > 0 /\ n <= log_lsn /\ (l # "repeat" => n = lsn[t])
    BY <2>1, Zenon
  <2> QED
    BY <2>1, <2>2, Zenon DEF Thr, Where, Served, Calling
<1>6. Called(t)'
  BY LogConstants, Zenon DEF LocalTypes, Thr, Where, Called, Calling, Stopping, AcquirePC, InAcquire,
                          Results
<1>7. Releasing(t)'
  <2>1. 0 <= log_lsn
    BY NatFacts, Zenon DEF Types
  <2> QED
    BY <2>1, Zenon DEF Thr, Where, Releasing, InRelease, ReleasePC, Vector
<1> QED
  BY <1>1, <1>3, <1>4, <1>5, <1>6, <1>7, LocalGood, Zenon DEF Thr, Where

\* flush_lock.release() has returned: return, or repeat for callbacks that have no
\* leader.
LEMMA FlushReleasedGood == ASSUME IInv, NEW t \in Thread, FlushReleased(t) PROVE Good(t)
<1> DEFINE l == lpc'[t]
           n == lsn'[t]
           c == cb'[t]
<1>0. /\ Types /\ LocalTypes /\ Shared /\ Thr(t) /\ UNCHANGED sharedVars
      /\ lpc[t] = "flush_releasing" /\ op[t] = "flush" /\ f_pc[t] = "RELEASED"
      /\ f_pc' = [f_pc EXCEPT ![t] = "idle"]
      /\ pending_write_lsn' = [pending_write_lsn EXCEPT ![t] = 0]
      /\ lsn' = [lsn EXCEPT ![t] = n]
      /\ cb' = [cb EXCEPT ![t] = c]
      /\ lpc' = [lpc EXCEPT ![t] = l]
      /\ UNCHANGED <<w_pc, op, num, ret, target, want, callback, callbacks>>
      /\ \/ /\ n \in {pending_write_lsn[t], ret[t]} /\ n > 0
            /\ l = "repeat" /\ c = DummyCallback
         \/ l = "returned" /\ n = lsn[t] /\ c = cb[t]
  BY SMTT(30) DEF IInv, LocalTypes, FlushReleased, Goto, Finish, MaxOf, sharedVars, lockState, fLock, wLock, locals,
         logVars, callVars, disk
<1> HIDE DEF l, n, c
<1> USE <1>0
<1>1. LocalTypes' /\ Gives(t) /\ \A u \in Thread \ {t} : Still(u)
  BY LogConstants, Zenon DEF Types, LocalTypes, Labels, LockPC, Ops, AnyCallback, Gives, Still
<1>2. /\ f_pc'[t] = "idle"
      /\ pending_write_lsn'[t] = 0
      /\ lsn'[t] = n
      /\ cb'[t] = c
      /\ lpc'[t] = l
      /\ UNCHANGED <<f_value, w_value, log_lsn, latch, write_lsn, disk_written,
                   disk_durable, flushed_to_disk_lsn, syncing, asked>>
  BY Zenon DEF LocalTypes, sharedVars, logVars, disk
<1> USE <1>2
<1>3. Where(t)'
  BY Zenon DEF Thr, Where, Calling, Stopping
<1>4. Wrote(t)'
  BY Zenon DEF Types, LocalTypes, Shared, Thr, Where, Wrote, Latched, Stopping
<1>5. Served(t)'
  <2>1. /\ lsn[t] <= disk_durable /\ lsn[t] <= disk_written /\ lsn[t] > 0
        /\ lsn[t] <= log_lsn /\ ret[t] <= log_lsn /\ pending_write_lsn[t] <= log_lsn
    <3>1. /\ lsn[t] \in Nat /\ target[t] \in Nat /\ f_value \in Nat
          /\ flushed_to_disk_lsn \in Nat /\ disk_durable \in Nat /\ disk_written \in Nat
      BY Zenon DEF Types, LocalTypes
    <3>2. /\ lsn[t] <= target[t] /\ target[t] <= f_value /\ f_value <= flushed_to_disk_lsn
          /\ flushed_to_disk_lsn <= disk_durable /\ disk_durable <= disk_written
          /\ lsn[t] > 0 /\ lsn[t] <= log_lsn /\ ret[t] <= log_lsn
          /\ pending_write_lsn[t] <= log_lsn
      BY Zenon DEF Shared, Thr, Wrote, Served, Calling, Releasing
    <3> HIDE <1>0, <1>2
    <3> QED
      BY <3>1, <3>2
  <2>2. n > 0 /\ n <= log_lsn /\ (l # "repeat" => n = lsn[t])
    BY <2>1, Zenon
  <2> QED
    BY <2>1, <2>2, Zenon DEF Thr, Where, Served, Calling
<1>6. Called(t)'
  BY LogConstants, Zenon DEF LocalTypes, Thr, Where, Called, Calling, Stopping, AcquirePC, InAcquire,
                          Results
<1>7. Releasing(t)'
  <2>1. 0 <= log_lsn
    BY NatFacts, Zenon DEF Types
  <2> QED
    BY <2>1, Zenon DEF Thr, Where, Releasing, InRelease, ReleasePC, Vector
<1> QED
  BY <1>1, <1>3, <1>4, <1>5, <1>6, <1>7, LocalGood, Zenon DEF Thr, Where

\* The call returns.
LEMMA ReturnedGood == ASSUME IInv, NEW t \in Thread, Returned(t) PROVE Good(t)
<1>0. /\ Types /\ LocalTypes /\ Shared /\ Thr(t) /\ UNCHANGED sharedVars
      /\ lpc[t] = "returned"
      /\ lpc' = [lpc EXCEPT ![t] = "idle"]
      /\ op' = [op EXCEPT ![t] = "none"]
      /\ lsn' = [lsn EXCEPT ![t] = 0]
      /\ cb' = [cb EXCEPT ![t] = NoCallback]
      /\ target' = [target EXCEPT ![t] = 0]
      /\ want' = [want EXCEPT ![t] = 0]
      /\ num' = [num EXCEPT ![t] = 0]
      /\ callback' = [callback EXCEPT ![t] = NoCallback]
      /\ ret' = [ret EXCEPT ![t] = 0]
      /\ UNCHANGED <<f_pc, w_pc, pending_write_lsn, callbacks>>
  BY Zenon DEF IInv, Returned, Goto, sharedVars, lockState, fLock, wLock, locals, logVars,
         callVars, disk
<1> USE <1>0
<1>1. LocalTypes' /\ Gives(t) /\ \A u \in Thread \ {t} : Still(u)
  BY LogConstants, Zenon DEF Types, LocalTypes, Labels, LockPC, Ops, AnyCallback, Gives, Still
<1>2. /\ lpc'[t] = "idle"
      /\ op'[t] = "none"
      /\ lsn'[t] = 0
      /\ cb'[t] = NoCallback
      /\ target'[t] = 0
      /\ want'[t] = 0
      /\ num'[t] = 0
      /\ callback'[t] = NoCallback
      /\ ret'[t] = 0
      /\ UNCHANGED <<f_value, w_value, log_lsn, latch, write_lsn, disk_written,
                   disk_durable, flushed_to_disk_lsn, syncing, asked>>
  BY Zenon DEF LocalTypes, sharedVars, logVars, disk
<1> USE <1>2
<1>3. Where(t)'
  BY Zenon DEF Thr, Where, Calling, Stopping
<1>4. Wrote(t)'
  BY Zenon DEF Types, LocalTypes, Shared, Thr, Where, Wrote, Latched, Stopping
<1>5. Served(t)'
  BY LogConstants, Zenon DEF Types, LocalTypes, Shared, Thr, Where, Wrote, Served, Calling, Stopping
<1>6. Called(t)'
  BY LogConstants, Zenon DEF LocalTypes, Thr, Where, Called, Calling, Stopping, AcquirePC, InAcquire,
                          Results
<1>7. Releasing(t)'
  <2>1. f_pc'[t] = "idle" /\ w_pc'[t] = "idle" /\ log_lsn \in Nat
    BY Zenon DEF Types, Thr, Where
  <2> QED
    BY <2>1, NatFacts, Zenon DEF Thr, Releasing, InRelease, ReleasePC
<1> QED
  BY <1>1, <1>3, <1>4, <1>5, <1>6, <1>7, LocalGood, Zenon DEF Thr, Where

\* An operation that stops log writing begins.
LEMMA StartStopGood == ASSUME IInv, NEW t \in Thread, StartStop(t) PROVE Good(t)
<1> DEFINE o == op'[t]
<1>0. /\ Types /\ LocalTypes /\ Shared /\ Thr(t) /\ UNCHANGED sharedVars
      /\ lpc[t] = "idle"
      /\ lpc' = [lpc EXCEPT ![t] = "stop_flush"]
      /\ op' = [op EXCEPT ![t] = o]
      /\ UNCHANGED <<f_pc, w_pc, num, ret, lsn, target, want,
                    pending_write_lsn, callback, cb, callbacks>>
      /\ o \in {"write_and_flush", "resize"}
  BY Zenon DEF IInv, LocalTypes, StartStop, Goto, sharedVars, lockState, fLock, wLock, locals,
         logVars, callVars, disk
<1> HIDE DEF o
<1> USE <1>0
<1>1. LocalTypes' /\ Gives(t) /\ \A u \in Thread \ {t} : Still(u)
  BY LogConstants, Zenon DEF Types, LocalTypes, Labels, LockPC, Ops, AnyCallback, Gives, Still
<1>2. /\ lpc'[t] = "stop_flush"
      /\ op'[t] = o
      /\ UNCHANGED <<f_value, w_value, log_lsn, latch, write_lsn, disk_written,
                   disk_durable, flushed_to_disk_lsn, syncing, asked>>
  BY Zenon DEF LocalTypes, sharedVars, logVars, disk
<1> USE <1>2
<1>3. Where(t)'
  BY Zenon DEF Thr, Where, Calling, Stopping
<1>4. Wrote(t)'
  BY Zenon DEF Types, LocalTypes, Shared, Thr, Where, Wrote, Latched, Stopping
<1>5. Served(t)'
  BY LogConstants, Zenon DEF Types, LocalTypes, Shared, Thr, Where, Wrote, Served, Calling, Stopping
<1>6. Called(t)'
  BY LogConstants, Zenon DEF LocalTypes, Thr, Where, Called, Calling, Stopping, AcquirePC, InAcquire,
                          Results
<1>7. Releasing(t)'
  BY Zenon DEF Types, LocalTypes, Thr, Where, Releasing, InRelease, ReleasePC, Vector
<1> QED
  BY <1>1, <1>3, <1>4, <1>5, <1>6, <1>7, LocalGood, Zenon DEF Thr, Where

\* flush_lock.acquire() has answered such an operation.
LEMMA StopFlushResultGood == ASSUME IInv, NEW t \in Thread, StopFlushResult(t) PROVE Good(t)
<1> DEFINE l == lpc'[t]
           p == f_pc'[t]
<1>0. /\ Types /\ LocalTypes /\ Shared /\ Thr(t) /\ UNCHANGED sharedVars
      /\ lpc[t] = "stop_flush_acquire"
      /\ lpc' = [lpc EXCEPT ![t] = l]
      /\ f_pc' = [f_pc EXCEPT ![t] = p]
      /\ UNCHANGED <<w_pc, op, num, ret, lsn, target, want, pending_write_lsn,
                    callback, cb, callbacks>>
      /\ \/ f_pc[t] = "ACQUIRED" /\ p = "ACQUIRED" /\ l = "stop_write"
         \/ f_pc[t] = "EXPIRED" /\ p = "idle" /\ l = "stop_flush"
  BY Zenon DEF IInv, LocalTypes, StopFlushResult, Goto, sharedVars, lockState, fLock, wLock, locals,
         logVars, callVars, disk
<1> HIDE DEF l, p
<1> USE <1>0
<1>1. LocalTypes' /\ Gives(t) /\ \A u \in Thread \ {t} : Still(u)
  BY LogConstants, Zenon DEF Types, LocalTypes, Labels, LockPC, Ops, AnyCallback, Gives, Still
<1>2. /\ lpc'[t] = l
      /\ f_pc'[t] = p
      /\ UNCHANGED <<f_value, w_value, log_lsn, latch, write_lsn, disk_written,
                   disk_durable, flushed_to_disk_lsn, syncing, asked>>
  BY Zenon DEF LocalTypes, sharedVars, logVars, disk
<1> USE <1>2
<1>3. Where(t)'
  BY Zenon DEF Thr, Where, Calling, Stopping
<1>4. Wrote(t)'
  BY Zenon DEF Types, LocalTypes, Shared, Thr, Where, Wrote, Latched, Stopping
<1>5. Served(t)'
  BY LogConstants, Zenon DEF Types, LocalTypes, Shared, Thr, Where, Wrote, Served, Calling, Stopping
<1>6. Called(t)'
  BY LogConstants, Zenon DEF LocalTypes, Thr, Where, Called, Calling, Stopping, AcquirePC, InAcquire,
                          Results
<1>7. Releasing(t)'
  BY Zenon DEF Types, LocalTypes, Thr, Where, Releasing, InRelease, ReleasePC, Vector
<1> QED
  BY <1>1, <1>3, <1>4, <1>5, <1>6, <1>7, LocalGood, Zenon DEF Thr, Where

\* write_lock.acquire() has answered such an operation.
LEMMA StopWriteResultGood == ASSUME IInv, NEW t \in Thread, StopWriteResult(t) PROVE Good(t)
<1> DEFINE l == lpc'[t]
           p == w_pc'[t]
<1>0. /\ Types /\ LocalTypes /\ Shared /\ Thr(t) /\ UNCHANGED sharedVars
      /\ lpc[t] = "stop_write_acquire"
      /\ lpc' = [lpc EXCEPT ![t] = l]
      /\ w_pc' = [w_pc EXCEPT ![t] = p]
      /\ UNCHANGED <<f_pc, op, num, ret, lsn, target, want, pending_write_lsn,
                    callback, cb, callbacks>>
      /\ \/ w_pc[t] = "ACQUIRED" /\ p = "ACQUIRED" /\ l = "stop_latch"
         \/ w_pc[t] = "EXPIRED" /\ p = "idle" /\ l = "stop_write"
  BY Zenon DEF IInv, LocalTypes, StopWriteResult, Goto, sharedVars, lockState, fLock, wLock, locals,
         logVars, callVars, disk
<1> HIDE DEF l, p
<1> USE <1>0
<1>1. LocalTypes' /\ Gives(t) /\ \A u \in Thread \ {t} : Still(u)
  BY LogConstants, Zenon DEF Types, LocalTypes, Labels, LockPC, Ops, AnyCallback, Gives, Still
<1>2. /\ lpc'[t] = l
      /\ w_pc'[t] = p
      /\ UNCHANGED <<f_value, w_value, log_lsn, latch, write_lsn, disk_written,
                   disk_durable, flushed_to_disk_lsn, syncing, asked>>
  BY Zenon DEF LocalTypes, sharedVars, logVars, disk
<1> USE <1>2
<1>3. Where(t)'
  BY Zenon DEF Thr, Where, Calling, Stopping
<1>4. Wrote(t)'
  BY Zenon DEF Types, LocalTypes, Shared, Thr, Where, Wrote, Latched, Stopping
<1>5. Served(t)'
  BY LogConstants, Zenon DEF Types, LocalTypes, Shared, Thr, Where, Wrote, Served, Calling, Stopping
<1>6. Called(t)'
  BY LogConstants, Zenon DEF LocalTypes, Thr, Where, Called, Calling, Stopping, AcquirePC, InAcquire,
                          Results
<1>7. Releasing(t)'
  BY Zenon DEF Types, LocalTypes, Thr, Where, Releasing, InRelease, ReleasePC, Vector
<1> QED
  BY <1>1, <1>3, <1>4, <1>5, <1>6, <1>7, LocalGood, Zenon DEF Thr, Where

\* A resize has released write_lock and releases flush_lock with the value it has.
LEMMA ResizeWriteReleasedGood == ASSUME IInv, NEW t \in Thread, ResizeWriteReleased(t) PROVE Good(t)
<1>0. /\ Types /\ LocalTypes /\ Shared /\ Thr(t) /\ UNCHANGED sharedVars
      /\ lpc[t] = "write_releasing" /\ op[t] = "resize" /\ w_pc[t] = "RELEASED"
      /\ lpc' = [lpc EXCEPT ![t] = "flush_release"]
      /\ w_pc' = [w_pc EXCEPT ![t] = "idle"]
      /\ pending_write_lsn' = [pending_write_lsn EXCEPT ![t] = ret[t]]
      /\ target' = [target EXCEPT ![t] = f_value]
      /\ UNCHANGED <<f_pc, op, num, ret, lsn, want, callback, cb, callbacks>>
  BY Zenon DEF IInv, ResizeWriteReleased, Goto, sharedVars, lockState, fLock, wLock, locals, logVars,
         callVars, disk
<1> USE <1>0
<1>1. LocalTypes' /\ Gives(t) /\ \A u \in Thread \ {t} : Still(u)
  BY LogConstants, Zenon DEF Types, LocalTypes, Labels, LockPC, Ops, AnyCallback, Gives, Still
<1>2. /\ lpc'[t] = "flush_release"
      /\ w_pc'[t] = "idle"
      /\ pending_write_lsn'[t] = ret[t]
      /\ target'[t] = f_value
      /\ UNCHANGED <<f_value, w_value, log_lsn, latch, write_lsn, disk_written,
                   disk_durable, flushed_to_disk_lsn, syncing, asked>>
  BY Zenon DEF LocalTypes, sharedVars, logVars, disk
<1> USE <1>2
<1>3. Where(t)'
  BY Zenon DEF Thr, Where, Calling, Stopping
<1>4. Wrote(t)'
  <2>1. latch # t /\ ~Latched(t)'
    BY Zenon DEF Thr, Wrote, Latched
  <2>2. f_value <= f_value /\ f_value <= flushed_to_disk_lsn /\ f_value <= w_value
    BY SMTT(30) DEF Types, Shared
  <2> QED
    BY <2>1, <2>2, Zenon DEF Wrote
<1>5. Served(t)'
  BY LogConstants, Zenon DEF Types, LocalTypes, Shared, Thr, Where, Wrote, Served, Calling, Stopping
<1>6. Called(t)'
  BY LogConstants, Zenon DEF LocalTypes, Thr, Where, Called, Calling, Stopping, AcquirePC, InAcquire,
                          Results
<1>7. Releasing(t)'
  BY Zenon DEF Types, LocalTypes, Thr, Where, Releasing, InRelease, ReleasePC, Vector
<1> QED
  BY <1>1, <1>3, <1>4, <1>5, <1>6, <1>7, LocalGood, Zenon DEF Thr, Where

\* A resize has released both locks: it returns, or continues as a durable call
\* for the callbacks that have no leader.
LEMMA ResizeFlushReleasedGood == ASSUME IInv, NEW t \in Thread, ResizeFlushReleased(t) PROVE Good(t)
<1> DEFINE l == lpc'[t]
           n == lsn'[t]
           o == op'[t]
<1>0. /\ Types /\ LocalTypes /\ Shared /\ Thr(t) /\ UNCHANGED sharedVars
      /\ lpc[t] = "flush_releasing" /\ op[t] = "resize" /\ f_pc[t] = "RELEASED"
      /\ f_pc' = [f_pc EXCEPT ![t] = "idle"]
      /\ pending_write_lsn' = [pending_write_lsn EXCEPT ![t] = 0]
      /\ op' = [op EXCEPT ![t] = o]
      /\ lsn' = [lsn EXCEPT ![t] = n]
      /\ lpc' = [lpc EXCEPT ![t] = l]
      /\ UNCHANGED <<w_pc, num, ret, target, want, callback, cb, callbacks>>
      /\ \/ /\ n \in {pending_write_lsn[t], ret[t]} /\ n > 0
            /\ l = "repeat" /\ o = "flush"
         \/ l = "returned" /\ n = lsn[t] /\ o = "resize"
  BY SMTT(30) DEF IInv, LocalTypes, ResizeFlushReleased, Goto, MaxOf, sharedVars, lockState, fLock, wLock, locals,
         logVars, callVars, disk
<1> HIDE DEF l, n, o
<1> USE <1>0
<1>1. LocalTypes' /\ Gives(t) /\ \A u \in Thread \ {t} : Still(u)
  BY LogConstants, Zenon DEF Types, LocalTypes, Labels, LockPC, Ops, AnyCallback, Gives, Still
<1>2. /\ f_pc'[t] = "idle"
      /\ pending_write_lsn'[t] = 0
      /\ op'[t] = o
      /\ lsn'[t] = n
      /\ lpc'[t] = l
      /\ UNCHANGED <<f_value, w_value, log_lsn, latch, write_lsn, disk_written,
                   disk_durable, flushed_to_disk_lsn, syncing, asked>>
  BY Zenon DEF LocalTypes, sharedVars, logVars, disk
<1> USE <1>2
<1>3. Where(t)'
  BY Zenon DEF Thr, Where, Calling, Stopping
<1>4. Wrote(t)'
  BY Zenon DEF Types, LocalTypes, Shared, Thr, Where, Wrote, Latched, Stopping
<1>5. Served(t)'
  <2>1. want[t] = 0
    BY Zenon DEF Thr, Served, Calling
  <2>2. l = "repeat" => n > 0 /\ n <= log_lsn
    BY Zenon DEF Thr, Releasing
  <2> QED
    BY <2>1, <2>2, Zenon DEF Thr, Where, Served, Calling
<1>6. Called(t)'
  BY LogConstants, Zenon DEF LocalTypes, Thr, Where, Called, Calling, Stopping, AcquirePC, InAcquire,
                          Results
<1>7. Releasing(t)'
  <2>1. f_pc'[t] = "idle" /\ w_pc'[t] = "idle" /\ log_lsn \in Nat
    BY Zenon DEF Types, Thr, Where
  <2>2. ret'[t] <= log_lsn /\ 0 <= log_lsn /\ op'[t] # "write_and_flush"
    BY <2>1, NatFacts, Zenon DEF Thr, Releasing
  <2> QED
    BY <2>1, <2>2, Zenon DEF Releasing, InRelease, ReleasePC
<1> QED
  BY <1>1, <1>3, <1>4, <1>5, <1>6, <1>7, LocalGood, Zenon DEF Thr, Where

----------------------------------------------------------------------------
(* Steps that change the files, the latch or the log     *)

\* A log record more changes nothing of what the locks have reached.
LEMMA LongerLog ==
  ASSUME Types, Shared, log_lsn' = log_lsn + 1,
         UNCHANGED <<f_value, f_lock, f_pending_callbacks, w_value, w_lock, w_pending_callbacks,
                     ran, asked, write_lsn, flushed_to_disk_lsn, disk_written, disk_durable,
                     syncing>>
  PROVE  Types' /\ Shared'
<1>1. Types'
  BY DEF Types
<1>2. /\ Vector(f_pending_callbacks, TRUE, log_lsn + 1)
      /\ Vector(w_pending_callbacks, FALSE, log_lsn + 1)
  <2>1. \A d \in f_pending_callbacks \cup w_pending_callbacks :
           d.num \in Nat /\ (d.num <= log_lsn => d.num <= log_lsn + 1)
    BY DEF Types, Shared, Vector
  <2> QED
    BY <2>1, Zenon DEF Shared, Vector
<1>3. disk_written <= log_lsn + 1
  BY DEF Types, Shared
<1> QED
  BY <1>1, <1>2, <1>3, Zenon DEF Shared, Vector, RanReached

\* log_write_buf() brings the file up to the LSN announced.
LEMMA WriteFileGood == ASSUME IInv, NEW t \in Thread, WriteFile(t) PROVE Good(t)
<1>0. /\ Types /\ LocalTypes /\ Shared /\ Owners /\ Thr(t)
      /\ lpc[t] = "write_file"
      /\ lpc' = [lpc EXCEPT ![t] = "write_release"]
      /\ disk_written' = target[t]
      /\ write_lsn' = target[t]
      /\ UNCHANGED <<f_pc, w_pc, op, num, ret, lsn, target, want,
                    pending_write_lsn, callback, cb, callbacks>>
      /\ UNCHANGED <<f_value, f_lock, f_pending_callbacks, w_value, w_lock,
                    w_pending_callbacks, ran, asked, log_lsn, latch, flushed_to_disk_lsn,
                    disk_durable, syncing>>
  BY Zenon DEF IInv, WriteFile, Goto, lockState, fLock, wLock, locals, logVars,
         callVars, disk
<1> USE <1>0
<1>1. LocalTypes' /\ Gives(t) /\ \A u \in Thread \ {t} : Still(u)
  BY Zenon DEF Types, LocalTypes, Labels, LockPC, Gives, Still
<1>p. /\ target[t] \in Nat /\ write_lsn <= target[t] /\ target[t] <= log_lsn /\ w_pc[t] = "ACQUIRED"
      /\ w_value <= target[t] /\ disk_written <= target[t]
  <2>1. target[t] \in Nat /\ w_value \in Nat /\ write_lsn \in Nat
    BY Zenon DEF Types, LocalTypes
  <2>2. /\ write_lsn <= target[t] /\ target[t] <= log_lsn /\ w_pc[t] = "ACQUIRED"
        /\ w_value <= write_lsn /\ write_lsn = disk_written
    BY Zenon DEF Shared, Thr, Where, Wrote
  <2> HIDE <1>0
  <2> QED
    BY <2>1, <2>2
<1>2. Types' /\ Shared'
  <2>1. /\ disk_durable \in Nat /\ syncing \in Nat /\ disk_written \in Nat
        /\ disk_durable <= disk_written /\ syncing <= disk_written
    BY Zenon DEF Types, Shared
  <2>2. disk_durable <= target[t] /\ syncing <= target[t]
    <3> HIDE <1>0
    <3> QED
      BY <1>p, <2>1
  <2> QED
    BY <1>p, <2>2, Zenon DEF Types, Shared, Vector, RanReached
<1>3. Owners'
  BY Zenon DEF LocalTypes, Owners, Owner
<1>4. Grows /\ \A u \in Thread \ {t} : Kept(u)
  <2>1. \A u \in Thread \ {t} : w_pc[u] # "ACQUIRED"
    BY <1>p, Zenon DEF Owners, Owner
  <2> QED
    BY <1>p, <2>1, NatFacts, Zenon DEF Types, Grows, Kept
<1>v. /\ lpc'[t] = "write_release"
  BY Zenon DEF LocalTypes
<1> USE <1>v
<1>5. Where(t)'
  BY Zenon DEF Thr, Where, Calling, Stopping
<1>6. Wrote(t)'
  <2>1. target[t] <= target[t]
    BY <1>p, NatFacts, Zenon
  <2> QED
    BY <1>p, <2>1, Zenon DEF Thr, Wrote, Latched
<1>7. Served(t)'
  <2>1. want[t] \in Nat /\ disk_written \in Nat
    BY Zenon DEF Types, LocalTypes
  <2>2. want[t] <= disk_written => want[t] <= target[t]
    <3> HIDE <1>0, <1>v
    <3> QED
      BY <1>p, <2>1
  <2> QED
    BY <2>2, Zenon DEF Thr, Served, Where, Calling, Stopping
<1>8. Called(t)'
  BY Zenon DEF LocalTypes, Thr, Where, Called, Calling, Stopping, AcquirePC, InAcquire, Results
<1>9. Releasing(t)'
  BY Zenon DEF Thr, Where, Releasing, InRelease, ReleasePC, Vector
<1> QED
  BY <1>1, <1>2, <1>3, <1>4, <1>5, <1>6, <1>7, <1>8, <1>9, Zenon DEF Good, OthersKept, Thr

\* log_flush() announces what write_lock has reached and begins the fsync.
LEMMA FlushGood == ASSUME IInv, NEW t \in Thread, Flush(t) PROVE Good(t)
<1>0. /\ Types /\ LocalTypes /\ Shared /\ Owners /\ Thr(t)
      /\ lpc[t] = "flush" /\ op[t] = "flush"
      /\ target' = [target EXCEPT ![t] = w_value]
      /\ lpc' = [lpc EXCEPT ![t] = "fsync"]
      /\ syncing' = disk_written
      /\ UNCHANGED <<f_pc, w_pc, op, num, ret, lsn, want, pending_write_lsn,
                    callback, cb, callbacks>>
      /\ UNCHANGED <<f_value, f_lock, f_pending_callbacks, w_value, w_lock,
                    w_pending_callbacks, ran, asked, log_lsn, latch, write_lsn,
                    flushed_to_disk_lsn, disk_written, disk_durable>>
  BY Zenon DEF IInv, Flush, Goto, FlushTo, F!SetPending, lockState, fLock, wLock, locals, logVars,
         callVars, disk
<1> USE <1>0
<1>1. LocalTypes' /\ Gives(t) /\ \A u \in Thread \ {t} : Still(u)
  BY Zenon DEF Types, LocalTypes, Labels, LockPC, Gives, Still
<1>p. /\ w_value \in Nat /\ f_value <= w_value /\ w_value <= w_value /\ w_value <= disk_written
      /\ f_pc[t] = "ACQUIRED"
  BY NatFacts, Zenon DEF Types, Shared, Thr, Where
<1>2. Types' /\ Shared'
  BY <1>p, NatFacts, Zenon DEF Types, Shared, Vector, RanReached
<1>3. Owners'
  BY Zenon DEF LocalTypes, Owners, Owner
<1>4. Grows /\ \A u \in Thread \ {t} : Kept(u)
  <2>1. \A u \in Thread \ {t} : f_pc[u] # "ACQUIRED"
    BY <1>p, Zenon DEF Owners, Owner
  <2> QED
    BY <1>p, <2>1, NatFacts, Zenon DEF Types, Grows, Kept
<1>v. /\ target'[t] = w_value
      /\ lpc'[t] = "fsync"
  BY Zenon DEF LocalTypes
<1> USE <1>v
<1>5. Where(t)'
  BY Zenon DEF Thr, Where, Calling, Stopping
<1>6. Wrote(t)'
  BY <1>p, Zenon DEF Types, LocalTypes, Shared, Thr, Where, Wrote, Latched, Stopping
<1>7. Served(t)'
  BY <1>p, Zenon DEF Types, LocalTypes, Shared, Thr, Where, Wrote, Served, Calling, Stopping
<1>8. Called(t)'
  BY Zenon DEF LocalTypes, Thr, Where, Called, Calling, Stopping, AcquirePC, InAcquire, Results
<1>9. Releasing(t)'
  BY Zenon DEF Thr, Where, Releasing, InRelease, ReleasePC, Vector
<1> QED
  BY <1>1, <1>2, <1>3, <1>4, <1>5, <1>6, <1>7, <1>8, <1>9, Zenon DEF Good, OthersKept, Thr

\* log_write_and_flush() goes on to the fsync.
LEMMA StopFlushGood == ASSUME IInv, NEW t \in Thread, StopFlush(t) PROVE Good(t)
<1>0. /\ Types /\ LocalTypes /\ Shared /\ Owners /\ Thr(t)
      /\ lpc[t] = "write_releasing" /\ op[t] = "write_and_flush" /\ w_pc[t] = "RELEASED"
      /\ w_pc' = [w_pc EXCEPT ![t] = "idle"]
      /\ target' = [target EXCEPT ![t] = target[t]]
      /\ lpc' = [lpc EXCEPT ![t] = "fsync"]
      /\ syncing' = disk_written
      /\ UNCHANGED <<f_pc, op, num, ret, lsn, want, pending_write_lsn,
                    callback, cb, callbacks>>
      /\ UNCHANGED <<f_value, f_lock, f_pending_callbacks, w_value, w_lock,
                    w_pending_callbacks, ran, asked, log_lsn, latch, write_lsn,
                    flushed_to_disk_lsn, disk_written, disk_durable>>
  BY Zenon DEF IInv, StopFlush, Goto, FlushTo, F!SetPending, lockState, fLock, wLock, locals, logVars,
         callVars, disk
<1> USE <1>0
<1>1. LocalTypes' /\ Gives(t) /\ \A u \in Thread \ {t} : Still(u)
  BY Zenon DEF Types, LocalTypes, Labels, LockPC, Gives, Still
<1>p. /\ target[t] \in Nat /\ f_value <= target[t] /\ target[t] <= w_value
      /\ target[t] <= disk_written /\ target[t] = log_lsn /\ f_pc[t] = "ACQUIRED"
  <2>1. /\ target[t] \in Nat /\ f_value \in Nat /\ w_value \in Nat /\ write_lsn \in Nat
        /\ disk_written \in Nat
    BY Zenon DEF Types, LocalTypes
  <2>2. /\ target[t] <= w_value /\ target[t] = log_lsn /\ f_pc[t] = "ACQUIRED"
        /\ w_value <= write_lsn /\ write_lsn = disk_written /\ disk_written <= log_lsn
        /\ f_value <= w_value
    BY Zenon DEF Shared, Thr, Where, Wrote, Latched
  <2> HIDE <1>0
  <2> QED
    BY <2>1, <2>2
<1>2. Types' /\ Shared'
  BY <1>p, NatFacts, Zenon DEF Types, Shared, Vector, RanReached
<1>3. Owners'
  BY Zenon DEF LocalTypes, Owners, Owner
<1>4. Grows /\ \A u \in Thread \ {t} : Kept(u)
  <2>1. \A u \in Thread \ {t} : f_pc[u] # "ACQUIRED"
    BY <1>p, Zenon DEF Owners, Owner
  <2> QED
    BY <1>p, <2>1, NatFacts, Zenon DEF Types, Grows, Kept
<1>v. /\ w_pc'[t] = "idle"
      /\ target'[t] = target[t]
      /\ lpc'[t] = "fsync"
  BY Zenon DEF LocalTypes
<1> USE <1>v
<1>5. Where(t)'
  BY Zenon DEF Thr, Where, Calling, Stopping
<1>6. Wrote(t)'
  BY <1>p, Zenon DEF Types, LocalTypes, Shared, Thr, Where, Wrote, Latched, Stopping
<1>7. Served(t)'
  BY <1>p, Zenon DEF Types, LocalTypes, Shared, Thr, Where, Wrote, Served, Calling, Stopping
<1>8. Called(t)'
  BY Zenon DEF LocalTypes, Thr, Where, Called, Calling, Stopping, AcquirePC, InAcquire, Results
<1>9. Releasing(t)'
  BY Zenon DEF Thr, Where, Releasing, InRelease, ReleasePC, Vector
<1> QED
  BY <1>1, <1>2, <1>3, <1>4, <1>5, <1>6, <1>7, <1>8, <1>9, Zenon DEF Good, OthersKept, Thr

\* The fsync completes: what was in the file when it began is durable.
LEMMA FsyncGood == ASSUME IInv, NEW t \in Thread, Fsync(t) PROVE Good(t)
<1>0. /\ Types /\ LocalTypes /\ Shared /\ Owners /\ Thr(t)
      /\ lpc[t] = "fsync"
      /\ lpc' = [lpc EXCEPT ![t] = "flush_release"]
      /\ disk_durable' = MaxOf(disk_durable, syncing)
      /\ flushed_to_disk_lsn' = target[t]
      /\ UNCHANGED <<f_pc, w_pc, op, num, ret, lsn, target, want,
                    pending_write_lsn, callback, cb, callbacks>>
      /\ UNCHANGED <<f_value, f_lock, f_pending_callbacks, w_value, w_lock,
                    w_pending_callbacks, ran, asked, log_lsn, latch, write_lsn,
                    disk_written, syncing>>
  BY Zenon DEF IInv, Fsync, Goto, lockState, fLock, wLock, locals, logVars,
         callVars, disk
<1> USE <1>0
<1>1. LocalTypes' /\ Gives(t) /\ \A u \in Thread \ {t} : Still(u)
  BY Zenon DEF Types, LocalTypes, Labels, LockPC, Gives, Still
<1>p. /\ target[t] \in Nat /\ f_value <= target[t] /\ target[t] <= w_value
      /\ target[t] <= disk_durable' /\ disk_durable <= disk_durable'
      /\ disk_durable' \in Nat /\ disk_durable' <= disk_written /\ f_pc[t] = "ACQUIRED"
  <2>1. /\ target[t] \in Nat /\ f_value <= target[t] /\ target[t] <= w_value
        /\ target[t] <= syncing /\ f_pc[t] = "ACQUIRED"
    BY Zenon DEF LocalTypes, Thr, Where, Wrote
  <2>2. /\ disk_durable \in Nat /\ syncing \in Nat /\ disk_written \in Nat
        /\ syncing <= disk_written /\ disk_durable <= disk_written
    BY Zenon DEF Types, Shared
  <2> QED
    BY <2>1, <2>2, SMTT(30) DEF MaxOf
<1>2. Types' /\ Shared'
  BY <1>p, Zenon DEF Types, LocalTypes, Shared, Vector, RanReached
<1>3. Owners'
  BY Zenon DEF LocalTypes, Owners, Owner
<1>4. Grows /\ \A u \in Thread \ {t} : Kept(u)
  <2>1. \A u \in Thread \ {t} : f_pc[u] # "ACQUIRED"
    BY <1>p, Zenon DEF Owners, Owner
  <2> QED
    BY <1>p, <2>1, NatFacts, Zenon DEF Types, Grows, Kept
<1>v. /\ lpc'[t] = "flush_release"
  BY Zenon DEF LocalTypes
<1> USE <1>v
<1>5. Where(t)'
  BY Zenon DEF Thr, Where, Calling, Stopping
<1>6. Wrote(t)'
  <2>1. Latched(t)' <=> Latched(t)
    BY Zenon DEF Latched
  <2>2. target[t] <= target[t]
    BY <1>p, NatFacts, Zenon
  <2> QED
    BY <1>p, <2>1, <2>2, Zenon DEF Thr, Wrote
<1>7. Served(t)'
  <2>1. want[t] \in Nat /\ disk_durable \in Nat /\ Served(t)
    BY Zenon DEF LocalTypes, Types, Thr
  <2>2. want[t] <= disk_durable => want[t] <= disk_durable'
    <3> HIDE <1>0, <1>v
    <3> QED
      BY <1>p, <2>1
  <2> QED
    BY <1>p, <2>1, <2>2, Zenon DEF Served, Calling
<1>8. Called(t)'
  BY Zenon DEF LocalTypes, Thr, Where, Called, Calling, Stopping, AcquirePC, InAcquire, Results
<1>9. Releasing(t)'
  BY Zenon DEF Thr, Where, Releasing, InRelease, ReleasePC, Vector
<1> QED
  BY <1>1, <1>2, <1>3, <1>4, <1>5, <1>6, <1>7, <1>8, <1>9, Zenon DEF Good, OthersKept, Thr

\* An operation that holds both locks takes the latch.
LEMMA StopLatchGood == ASSUME IInv, NEW t \in Thread, StopLatch(t) PROVE Good(t)
<1>0. /\ Types /\ LocalTypes /\ Shared /\ Owners /\ Thr(t)
      /\ lpc[t] = "stop_latch" /\ latch = NoThread
      /\ lpc' = [lpc EXCEPT ![t] = "stopped"]
      /\ latch' = t
      /\ UNCHANGED <<f_pc, w_pc, op, num, ret, lsn, target, want,
                    pending_write_lsn, callback, cb, callbacks>>
      /\ UNCHANGED <<f_value, f_lock, f_pending_callbacks, w_value, w_lock,
                    w_pending_callbacks, ran, asked, log_lsn, write_lsn,
                    flushed_to_disk_lsn, disk_written, disk_durable, syncing>>
  BY Zenon DEF IInv, StopLatch, Goto, lockState, fLock, wLock, locals, logVars,
         callVars, disk
<1> USE <1>0
<1>1. LocalTypes' /\ Gives(t) /\ \A u \in Thread \ {t} : Still(u)
  BY Zenon DEF Types, LocalTypes, Labels, LockPC, Gives, Still
<1>p. NoThread \notin Thread
  BY LogConstants, Zenon
<1>2. Types' /\ Shared'
  BY <1>p, Zenon DEF Types, LocalTypes, Shared, Vector, RanReached
<1>3. Owners'
  BY Zenon DEF LocalTypes, Owners, Owner
<1>4. Grows /\ \A u \in Thread \ {t} : Kept(u)
  <2>1. Grows
    BY <1>p, SMTT(30) DEF Types, Grows
  <2>2. \A u \in Thread \ {t} : Kept(u)
    BY <1>p, LogConstants, Zenon DEF Kept
  <2> QED
    BY <2>1, <2>2, Zenon
<1>v. /\ lpc'[t] = "stopped"
  BY Zenon DEF LocalTypes
<1> USE <1>v
<1>5. Where(t)'
  BY Zenon DEF Thr, Where, Calling, Stopping
<1>6. Wrote(t)'
  BY <1>p, Zenon DEF Types, LocalTypes, Shared, Thr, Where, Wrote, Latched, Stopping
<1>7. Served(t)'
  BY <1>p, Zenon DEF Types, LocalTypes, Shared, Thr, Where, Wrote, Served, Calling, Stopping
<1>8. Called(t)'
  BY Zenon DEF LocalTypes, Thr, Where, Called, Calling, Stopping, AcquirePC, InAcquire, Results
<1>9. Releasing(t)'
  BY Zenon DEF Thr, Where, Releasing, InRelease, ReleasePC, Vector
<1> QED
  BY <1>1, <1>2, <1>3, <1>4, <1>5, <1>6, <1>7, <1>8, <1>9, Zenon DEF Good, OthersKept, Thr

\* The holder of the latch adds to the log.
LEMMA StopLogGood == ASSUME IInv, NEW t \in Thread, StopLog(t) PROVE Good(t)
<1>0. /\ Types /\ LocalTypes /\ Shared /\ Owners /\ Thr(t)
      /\ lpc[t] = "stopped" /\ op[t] = "write_and_flush"
      /\ log_lsn' = log_lsn + 1
      /\ UNCHANGED <<f_pc, w_pc, lpc, op, num, ret, lsn, target, want,
                    pending_write_lsn, callback, cb, callbacks>>
      /\ UNCHANGED <<f_value, f_lock, f_pending_callbacks, w_value, w_lock,
                    w_pending_callbacks, ran, asked, latch, write_lsn,
                    flushed_to_disk_lsn, disk_written, disk_durable, syncing>>
  BY Zenon DEF IInv, StopLog, Goto, lockState, fLock, wLock, locals, logVars,
         callVars, disk
<1> USE <1>0
<1>1. LocalTypes' /\ Gives(t) /\ \A u \in Thread \ {t} : Still(u)
  BY Zenon DEF Types, LocalTypes, Labels, LockPC, Gives, Still
<1>p. latch = t /\ log_lsn \in Nat /\ log_lsn <= log_lsn + 1
  <2>1. latch = t
    BY Zenon DEF Thr, Wrote, Latched
  <2>2. log_lsn \in Nat
    BY Zenon DEF Types
  <2> HIDE <1>0
  <2> QED
    BY <2>1, <2>2
<1>2. Types' /\ Shared'
  BY <1>p, LongerLog, Zenon
<1>3. Owners'
  BY Zenon DEF LocalTypes, Owners, Owner
<1>4. Grows /\ \A u \in Thread \ {t} : Kept(u)
  <2>1. Grows
    BY <1>p, SMTT(30) DEF Types, Grows
  <2>2. \A u \in Thread \ {t} : Kept(u)
    BY <1>p, LogConstants, Zenon DEF Kept
  <2> QED
    BY <2>1, <2>2, Zenon
<1>5. Where(t)'
  BY Zenon DEF Thr, Where, Calling, Stopping
<1>6. Wrote(t)'
  BY <1>p, Zenon DEF Types, LocalTypes, Shared, Thr, Where, Wrote, Latched, Stopping
<1>7. Served(t)'
  BY <1>p, Zenon DEF Types, LocalTypes, Shared, Thr, Where, Wrote, Served, Calling, Stopping
<1>8. Called(t)'
  BY Zenon DEF LocalTypes, Thr, Where, Called, Calling, Stopping, AcquirePC, InAcquire, Results
<1>9. Releasing(t)'
  <2>1. /\ ret[t] \in Nat /\ pending_write_lsn[t] \in Nat
        /\ ret[t] <= log_lsn /\ pending_write_lsn[t] <= log_lsn
    BY Zenon DEF LocalTypes, Thr, Releasing
  <2>2. ret[t] <= log_lsn + 1 /\ pending_write_lsn[t] <= log_lsn + 1
    <3> HIDE <1>0
    <3> QED
      BY <1>p, <2>1
  <2> QED
    BY <2>2, Zenon DEF Thr, Where, Releasing, InRelease, ReleasePC, Vector
<1> QED
  BY <1>1, <1>2, <1>3, <1>4, <1>5, <1>6, <1>7, <1>8, <1>9, Zenon DEF Good, OthersKept, Thr

\* log_write_and_flush() is done and its caller releases the latch.
LEMMA StopFlushedGood == ASSUME IInv, NEW t \in Thread, StopFlushed(t) PROVE Good(t)
<1>0. /\ Types /\ LocalTypes /\ Shared /\ Owners /\ Thr(t)
      /\ lpc[t] = "flush_releasing" /\ op[t] = "write_and_flush" /\ f_pc[t] = "RELEASED"
      /\ f_pc' = [f_pc EXCEPT ![t] = "idle"]
      /\ lpc' = [lpc EXCEPT ![t] = "returned"]
      /\ latch' = NoThread
      /\ UNCHANGED <<w_pc, op, num, ret, lsn, target, want, pending_write_lsn,
                    callback, cb, callbacks>>
      /\ UNCHANGED <<f_value, f_lock, f_pending_callbacks, w_value, w_lock,
                    w_pending_callbacks, ran, asked, log_lsn, write_lsn,
                    flushed_to_disk_lsn, disk_written, disk_durable, syncing>>
  BY Zenon DEF IInv, StopFlushed, Goto, lockState, fLock, wLock, locals, logVars,
         callVars, disk
<1> USE <1>0
<1>1. LocalTypes' /\ Gives(t) /\ \A u \in Thread \ {t} : Still(u)
  BY Zenon DEF Types, LocalTypes, Labels, LockPC, Gives, Still
<1>p. latch = t /\ t # NoThread
  BY LogConstants, Zenon DEF Thr, Wrote, Latched
<1>2. Types' /\ Shared'
  BY <1>p, Zenon DEF Types, LocalTypes, Shared, Vector, RanReached
<1>3. Owners'
  BY Zenon DEF LocalTypes, Owners, Owner
<1>4. Grows /\ \A u \in Thread \ {t} : Kept(u)
  <2>1. Grows
    BY <1>p, SMTT(30) DEF Types, Grows
  <2>2. \A u \in Thread \ {t} : Kept(u)
    BY <1>p, LogConstants, Zenon DEF Kept
  <2> QED
    BY <2>1, <2>2, Zenon
<1>v. /\ f_pc'[t] = "idle"
      /\ lpc'[t] = "returned"
  BY Zenon DEF LocalTypes
<1> USE <1>v
<1>5. Where(t)'
  BY Zenon DEF Thr, Where, Calling, Stopping
<1>6. Wrote(t)'
  BY <1>p, Zenon DEF Types, LocalTypes, Shared, Thr, Where, Wrote, Latched, Stopping
<1>7. Served(t)'
  BY <1>p, Zenon DEF Types, LocalTypes, Shared, Thr, Where, Wrote, Served, Calling, Stopping
<1>8. Called(t)'
  BY Zenon DEF LocalTypes, Thr, Where, Called, Calling, Stopping, AcquirePC, InAcquire, Results
<1>9. Releasing(t)'
  BY Zenon DEF Thr, Where, Releasing, InRelease, ReleasePC, Vector
<1> QED
  BY <1>1, <1>2, <1>3, <1>4, <1>5, <1>6, <1>7, <1>8, <1>9, Zenon DEF Good, OthersKept, Thr

\* A resize releases the latch, and write_lock with the value it has.
LEMMA ResizeReleaseGood == ASSUME IInv, NEW t \in Thread, ResizeRelease(t) PROVE Good(t)
<1>0. /\ Types /\ LocalTypes /\ Shared /\ Owners /\ Thr(t)
      /\ lpc[t] = "stopped" /\ op[t] = "resize"
      /\ target' = [target EXCEPT ![t] = w_value]
      /\ lpc' = [lpc EXCEPT ![t] = "write_release"]
      /\ latch' = NoThread
      /\ UNCHANGED <<f_pc, w_pc, op, num, ret, lsn, want, pending_write_lsn,
                    callback, cb, callbacks>>
      /\ UNCHANGED <<f_value, f_lock, f_pending_callbacks, w_value, w_lock,
                    w_pending_callbacks, ran, asked, log_lsn, write_lsn,
                    flushed_to_disk_lsn, disk_written, disk_durable, syncing>>
  BY Zenon DEF IInv, ResizeRelease, Goto, lockState, fLock, wLock, locals, logVars,
         callVars, disk
<1> USE <1>0
<1>1. LocalTypes' /\ Gives(t) /\ \A u \in Thread \ {t} : Still(u)
  BY Zenon DEF Types, LocalTypes, Labels, LockPC, Gives, Still
<1>p. latch = t /\ t # NoThread /\ w_value <= w_value /\ w_value <= write_lsn
  BY LogConstants, SMTT(30) DEF Types, Shared, Thr, Wrote, Latched
<1>2. Types' /\ Shared'
  BY <1>p, Zenon DEF Types, LocalTypes, Shared, Vector, RanReached
<1>3. Owners'
  BY Zenon DEF LocalTypes, Owners, Owner
<1>4. Grows /\ \A u \in Thread \ {t} : Kept(u)
  <2>1. Grows
    BY <1>p, SMTT(30) DEF Types, Grows
  <2>2. \A u \in Thread \ {t} : Kept(u)
    BY <1>p, LogConstants, Zenon DEF Kept
  <2> QED
    BY <2>1, <2>2, Zenon
<1>v. /\ target'[t] = w_value
      /\ lpc'[t] = "write_release"
  BY Zenon DEF LocalTypes
<1> USE <1>v
<1>5. Where(t)'
  BY Zenon DEF Thr, Where, Calling, Stopping
<1>6. Wrote(t)'
  BY <1>p, Zenon DEF Types, LocalTypes, Shared, Thr, Where, Wrote, Latched, Stopping
<1>7. Served(t)'
  BY <1>p, Zenon DEF Types, LocalTypes, Shared, Thr, Where, Wrote, Served, Calling, Stopping
<1>8. Called(t)'
  BY Zenon DEF LocalTypes, Thr, Where, Called, Calling, Stopping, AcquirePC, InAcquire, Results
<1>9. Releasing(t)'
  BY Zenon DEF Thr, Where, Releasing, InRelease, ReleasePC, Vector
<1> QED
  BY <1>1, <1>2, <1>3, <1>4, <1>5, <1>6, <1>7, <1>8, <1>9, Zenon DEF Good, OthersKept, Thr

----------------------------------------------------------------------------
(* Entering the locks, and the log records of others *)

\* The entry of log_write_up_to() into one of the two locks.
LEMMA RepeatGood == ASSUME IInv, NEW t \in Thread, Repeat(t) PROVE Good(t)
<1>0. lpc[t] = "repeat" /\ op[t] \in {"flush", "write"} /\ lsn[t] \in Nat /\ lsn[t] > 0
  BY Zenon DEF Repeat, IInv, LocalTypes, Thr, Where, Served, Calling
<1>1. CASE Durable(t) /\ F!Call(t, lsn[t], cb[t]) /\ Goto(t, "flush_acquire")
           /\ UNCHANGED <<wLock, w_pc>>
  BY <1>0, <1>1, FlushCallGood, Zenon DEF Repeat, Durable
<1>2. CASE ~Durable(t) /\ W!Call(t, lsn[t], cb[t]) /\ Goto(t, "write_acquire")
           /\ UNCHANGED <<fLock, f_pc>>
  BY <1>0, <1>2, WriteCallGood, Zenon DEF Repeat, Durable, fLock
<1> QED
  BY <1>1, <1>2, Zenon DEF Repeat

\* The owner of flush_lock enters write_lock.
LEMMA FlushAcquiredGood == ASSUME IInv, NEW t \in Thread, FlushAcquired(t) PROVE Good(t)
<1>0. lpc[t] = "flush_acquire" /\ f_pc[t] = "ACQUIRED" /\ lsn[t] \in Nat /\ lsn[t] > 0
  BY Zenon DEF FlushAcquired, IInv, LocalTypes, Thr, Served, Calling
<1>1. UNCHANGED <<f_value, f_lock, f_pending_callbacks, f_pc, logVars, callVars>>
  BY Zenon DEF FlushAcquired, F!SetPending, fLock
<1> QED
  BY <1>0, <1>1, WriteCallGood, Zenon DEF FlushAcquired

\* An operation that stops the log enters flush_lock.
LEMMA StopFlushLockGood == ASSUME IInv, NEW t \in Thread, StopFlushLock(t) PROVE Good(t)
<1>0. log_lsn + 1 \in Nat /\ log_lsn + 1 > 0
  BY DEF IInv, Types
<1> QED
  BY <1>0, FlushCallGood, Zenon DEF StopFlushLock

\* An operation that stops the log enters write_lock.
LEMMA StopWriteLockGood == ASSUME IInv, NEW t \in Thread, StopWriteLock(t) PROVE Good(t)
<1>0. log_lsn + 1 \in Nat /\ log_lsn + 1 > 0
  BY DEF IInv, Types
<1> QED
  BY <1>0, WriteCallGood, Zenon DEF StopWriteLock, fLock

\* A step inside a call of one of the two locks.
LEMMA LockStepGood == ASSUME IInv, NEW t \in Thread, LockStep(t) PROVE Good(t)
<1>0. f_pc \in [Thread -> LockPC] /\ w_pc \in [Thread -> LockPC]
  BY Zenon DEF IInv, LocalTypes
<1>1. CASE F!Step(t) /\ UNCHANGED <<wLock, w_pc, logVars, callVars, lpc, stops>>
  BY <1>0, <1>1, FlushLockKinds, FlushLockGood, Zenon DEF outside, wLock
<1>2. CASE W!Step(t) /\ UNCHANGED <<fLock, f_pc, logVars, callVars, lpc, stops>>
  BY <1>0, <1>2, WriteLockKinds, WriteLockGood, Zenon DEF outside, fLock
<1> QED
  BY <1>1, <1>2, Zenon DEF LockStep

\* A mini-transaction of another thread adds to the log while nobody has the latch.
LEMMA MtrCommitKeeps == ASSUME IInv, MtrCommit PROVE IInv'
<1>0. /\ Types /\ LocalTypes /\ Shared /\ Owners
      /\ latch = NoThread /\ latch' = latch /\ log_lsn' = log_lsn + 1
      /\ UNCHANGED <<f_value, f_lock, f_pending_callbacks, w_value, w_lock, w_pending_callbacks,
                     ran, asked, write_lsn, flushed_to_disk_lsn, disk_written, disk_durable,
                     syncing>>
      /\ UNCHANGED <<f_pc, w_pc, lpc, op, num, ret, lsn, target, want, pending_write_lsn,
                     callback, cb, callbacks>>
  BY Zenon DEF IInv, MtrCommit, lockState, fLock, wLock, locals, callVars, disk
<1>1. Types' /\ Shared'
  BY <1>0, LongerLog, Zenon
<1>2. LocalTypes'
  BY <1>0, Zenon DEF LocalTypes
<1>3. Owners'
  BY <1>0, Zenon DEF Owners, Owner
<1>4. ASSUME NEW u \in Thread PROVE Thr(u)'
  <2>1. Still(u)
    BY <1>0, Zenon DEF Still
  <2>2. Grows
    BY <1>0 DEF Grows, Types
  <2>3. Kept(u)
    BY <1>0, LogConstants, Zenon DEF Kept
  <2>4. cb[u] \in Callback => \A v \in Thread \ {u} : cb'[v] # cb[u]
    BY <1>0, Zenon DEF IInv, Thr, Called
  <2> QED
    BY <1>1, <2>1, <2>2, <2>3, <2>4, ThreadStays, Zenon
<1> QED
  BY <1>1, <1>2, <1>3, <1>4 DEF IInv

----------------------------------------------------------------------------
(* The theorems *)

\* Recovery leaves both locks, the file and the log at the same LSN.
LEMMA InitIInv == Init => IInv
<1> SUFFICES ASSUME Init PROVE IInv
  OBVIOUS
<1>0. PICK n \in 0..MaxStart : RecoveredAt(n)
  BY DEF Init
<1> USE <1>0 DEF RecoveredAt, LocksAt
<1>n. n \in Nat
  BY LogConstants, SMTT(30)
<1>1. Types
  <2>1. f_lock \in BOOLEAN /\ w_lock \in BOOLEAN
    BY Zenon
  <2>2. asked \in [Callback -> Nat]
    BY Zenon DEF Init
  <2> QED
    BY <1>n, <2>1, <2>2, Zenon DEF Types
<1>2. LocalTypes
  BY Zenon DEF LocalTypes, LockPC, Labels, Ops
<1>3. Shared
  BY <1>n, SMTT(30) DEF Init, Shared, Vector, RanReached
<1>4. Owners
  BY Zenon DEF Owners, Owner
<1>5. ASSUME NEW t \in Thread PROVE Thr(t)
  <2>1. Where(t)
    BY Zenon DEF Where
  <2>2. Wrote(t)
    BY LogConstants, Zenon DEF Wrote, Latched
  <2>3. Served(t)
    BY Zenon DEF Served, Calling
  <2>4. Called(t)
    BY LogConstants, Zenon DEF Called, InAcquire, AcquirePC, Results
  <2>5. Releasing(t)
    BY <1>n, SMTT(30) DEF Releasing, InRelease, ReleasePC
  <2> QED
    BY <2>1, <2>2, <2>3, <2>4, <2>5, Zenon DEF Thr
<1> QED
  BY <1>1, <1>2, <1>3, <1>4, <1>5, Zenon DEF IInv

\* Every step of log_write_up_to() is right for the thread and harmless for the
\* others.
LEMMA WriteUpToGood == ASSUME IInv, NEW t \in Thread, WriteUpToStep(t) PROVE Good(t)
  BY RepeatGood, FlushNotAcquiredGood, FlushAcquiredGood, WriteNotAcquiredGood,
     WriteAcquiredGood, WriteFileGood, WriteReleaseGood, WriteReleasedGood, FlushGood, FsyncGood,
     FlushReleaseGood, FlushReleasedGood, ReturnedGood, Zenon DEF WriteUpToStep

\* So is every step of an operation that stops the log.
LEMMA StopGood == ASSUME IInv, NEW t \in Thread, StopStep(t) PROVE Good(t)
  BY StopFlushLockGood, StopFlushResultGood, StopWriteLockGood, StopWriteResultGood,
     StopLatchGood, StopLogGood, StopWriteBufGood, StopFlushGood, StopFlushedGood,
     ResizeReleaseGood, ResizeWriteReleasedGood, ResizeFlushReleasedGood, Zenon DEF StopStep

\* The invariant is inductive.
LEMMA NextIInv == IInv /\ [Next]_vars => IInv'
<1> SUFFICES ASSUME IInv, [Next]_vars PROVE IInv'
  OBVIOUS
<1>1. CASE MtrCommit
  BY <1>1, MtrCommitKeeps
<1>2. ASSUME NEW t \in Thread, StartWriteUpTo(t) \/ StartStop(t) \/ Progress(t) PROVE IInv'
  <2>1. Good(t)
    BY <1>2, StartWriteUpToGood, StartStopGood, LockStepGood, WriteUpToGood, StopGood
       DEF Progress
  <2> QED
    BY <2>1, GoodStep
<1>3. CASE UNCHANGED vars
  <2>1. /\ UNCHANGED sharedVars
        /\ UNCHANGED <<f_pc, w_pc, lpc, op, num, ret, lsn, target, want, pending_write_lsn,
                       callback, cb, callbacks>>
    BY <1>3, Zenon DEF vars, sharedVars, lockState, fLock, wLock, locals, logVars, disk, callVars
  <2>2. Types' /\ LocalTypes' /\ Shared' /\ Owners'
    BY <2>1, Zenon DEF IInv, Types, LocalTypes, Shared, Vector, RanReached, Owners, Owner, sharedVars,
                logVars, disk
  <2>3. ASSUME NEW t \in Thread PROVE Thr(t)'
    <3>1. Still(t)
      BY <2>1, Zenon DEF Still
    <3>2. Grows /\ Kept(t)
      BY <2>1, SMTT(30) DEF IInv, Types, Grows, Kept, sharedVars, logVars, disk
    <3>3. cb[t] \in Callback => \A v \in Thread \ {t} : cb'[v] # cb[t]
      BY <2>1, Zenon DEF IInv, Thr, Called
    <3> QED
      BY <2>2, <3>1, <3>2, <3>3, ThreadStays, Zenon
  <2> QED
    BY <2>2, <2>3, Zenon DEF IInv
<1> QED
  BY <1>1, <1>2, <1>3 DEF Next

\* The invariant holds in every state of the log.
THEOREM Invariance == Spec => []IInv
  BY InitIInv, NextIInv, PTL DEF Spec

\* What flush_lock and flushed_to_disk_lsn publish is covered by a completed fsync,
\* whatever write_lock and mini-transactions do meanwhile.
THEOREM Durability == Spec => []FlushedIsDurable
<1>1. IInv => FlushedIsDurable
  BY Zenon DEF IInv, Shared, FlushedIsDurable
<1> QED
  BY <1>1, Invariance, PTL

\* log_write_up_to() returns, and a commit callback runs, only when the log is in the
\* file up to the LSN of the call, and durable if that was asked for.
THEOREM NoEarlyAnswer == Spec => []AnsweredMeansWritten
<1>1. IInv => AnsweredMeansWritten
  <2> SUFFICES ASSUME IInv PROVE AnsweredMeansWritten
    OBVIOUS
  <2>1. ASSUME NEW t \in Thread, lpc[t] = "returned", want[t] # 0
        PROVE  want[t] <= disk_written /\ (op[t] = "flush" => want[t] <= disk_durable)
    BY <2>1, Zenon DEF IInv, Thr, Served
  <2>2. ASSUME NEW c \in Callback, ran[c] > 0
        PROVE  asked[c] <= disk_written /\ (c \in DurableCallback => asked[c] <= disk_durable)
    BY <2>2 DEF IInv, Types, Shared, RanReached
  <2> QED
    BY <2>1, <2>2, Zenon DEF AnsweredMeansWritten
<1> QED
  BY <1>1, Invariance, PTL

\* No call of release() or set_pending() on the two locks fails its assertion, and
\* the results that log_write_and_flush() drops are 0.
THEOREM NoAssertionFails == Spec => []AssertionsHold
<1>1. IInv => AssertionsHold
  <2> SUFFICES ASSUME IInv PROVE AssertionsHold
    OBVIOUS
  <2>1. ASSUME NEW t \in Thread
        PROVE  /\ lpc[t] = "write_release" => target[t] >= w_value
               /\ lpc[t] \in {"fsync", "flush_release"} => target[t] >= f_value
               /\ lpc[t] = "flush" => w_value >= f_value
    BY Zenon DEF IInv, Types, LocalTypes, Shared, Thr, Wrote
  <2>2. ASSUME NEW t \in Thread PROVE lsn[t] <= flushed_to_disk_lsn \/ lsn[t] >= f_value
    BY SMTT(30) DEF IInv, Types, LocalTypes, Shared
  <2>3. ASSUME NEW t \in Thread, op[t] = "write_and_flush", "RELEASED" \in {w_pc[t], f_pc[t]}
        PROVE  ret[t] = 0
    BY <2>3, Zenon DEF IInv, Thr, Releasing, InRelease
  <2> QED
    BY <2>1, <2>2, <2>3, Zenon DEF AssertionsHold
<1> QED
  BY <1>1, Invariance, PTL
=============================================================================
