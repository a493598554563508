------------------------------ MODULE SsuxLock ------------------------------
(***************************************************************************)
(* InnoDB's slim latch ssux_lock_impl and the futex-based srw_mutex_impl   *)
(* that it is built on (storage/innobase/include/srw_lock.h and            *)
(* storage/innobase/sync/srw_lock.cc), with both values of spinloop.       *)
(*                                                                         *)
(* Every access to one of the two lock words is one step.  A thread sleeps *)
(* in FUTEX_WAIT only if the word still has the value it passed; it may be *)
(* woken by FUTEX_WAKE or for no reason at all.                            *)
(***************************************************************************)
EXTENDS Integers, FiniteSets

CONSTANTS
    Thread,
    WRITER   \* the flag of a writer in readers; 2^31 in the code

ASSUME SsuxConstants ==
    /\ IsFiniteSet(Thread)
    /\ WRITER \in Nat
    /\ Cardinality(Thread) + 1 < WRITER   \* each word has room for its count

HOLDER == 1
WAITER == 2

VARIABLES
    writer,   \* the lock word of the mutex ssux_lock_impl::writer
    readers,  \* ssux_lock_impl::readers
    pc, lk,   \* each thread's program counter and its variable lk or wl
    want,     \* the mode a thread waits for when it waits for the mutex
    holdS, holdW   \* history: what the callers hold

words == <<writer, readers>>
hold == <<holdS, holdW>>
vars == <<words, pc, lk, want, hold>>

IsHeld(word) == word % 2 = HOLDER

\* The program counters of threads asleep on either word.
OnWriter == {"m_sleep", "r_sleep"}
OnReaders == {"w_sleep"}
Asleep == OnWriter \cup OnReaders
MutexPC == {"m_try", "m_enqueue", "m_loop", "m_reload", "m_sleep"}
UpgradePC == {"w_announce", "w_wait", "w_reload", "w_sleep"}
SharedPC == {"r_first", "r_enqueue", "r_loop", "r_try", "r_wake_all", "r_reload",
             "r_sleep", "r_dequeue", "r_granted"}
ReleasePC == {"x_try", "m_unlock", "m_wake", "r_wake"}

Init ==
    /\ writer = 0 /\ readers = 0
    /\ pc = [t \in Thread |-> "idle"]
    /\ lk = [t \in Thread |-> 0]
    /\ want = [t \in Thread |-> "none"]
    /\ holdS = {}
    /\ holdW = [t \in Thread |-> "none"]

Goto(t, label) == pc' = [pc EXCEPT ![t] = label]

\* A value of lk that no longer matters is forgotten.
Load(t, value) == lk' = [lk EXCEPT ![t] = value]

\* Where a sleeper continues when FUTEX_WAIT returns.
Resume(p) == CASE p = "m_sleep" -> "m_reload"
               [] p = "r_sleep" -> "r_try"
               [] p = "w_sleep" -> "w_reload"

\* t goes on to label, having woken the threads of the set S.
WakeAndGoto(t, S, label) ==
    pc' = [u \in Thread |-> IF u = t THEN label ELSE IF u \in S THEN Resume(pc[u]) ELSE pc[u]]

Sleepers(P) == {u \in Thread : pc[u] \in P}

\* FUTEX_WAKE of one thread, and of all.
WakeOne(t, P, label) ==
    \/ /\ Sleepers(P) = {}
       /\ Goto(t, label)
    \/ \E u \in Sleepers(P) : WakeAndGoto(t, {u}, label)

WakeAll(t, P, label) == WakeAndGoto(t, Sleepers(P), label)

\* FUTEX_WAIT returns without a wake-up.
SpuriousWakeup(t) ==
    /\ pc[t] \in Asleep
    /\ Goto(t, Resume(pc[t]))
    /\ UNCHANGED <<words, lk, want, hold>>

----------------------------------------------------------------------------
(* srw_mutex_impl: wr_lock(), wait_and_lock(), wr_unlock() *)

\* The mutex is t's: u_lock() returns, wr_lock() goes on to the readers.
MutexAcquired(t) ==
    \/ /\ want[t] = "U"
       /\ holdW' = [holdW EXCEPT ![t] = "U"]
       /\ want' = [want EXCEPT ![t] = "none"]
       /\ Goto(t, "idle")
    \/ /\ want[t] = "X"
       /\ Goto(t, "w_announce")
       /\ UNCHANGED <<holdW, want>>

\* wr_lock_try() at the start of wr_lock()
MutexTry(t) ==
    /\ pc[t] = "m_try"
    /\ \/ /\ writer = 0
          /\ writer' = HOLDER + WAITER
          /\ MutexAcquired(t)
       \/ /\ writer # 0
          /\ Goto(t, "m_enqueue")
          /\ UNCHANGED <<writer, want, holdW>>
    /\ UNCHANGED <<readers, lk, holdS>>

MutexEnqueue(t) ==
    /\ pc[t] = "m_enqueue"
    /\ writer' = writer + WAITER
    /\ Load(t, writer + WAITER)
    /\ Goto(t, "m_loop")
    /\ UNCHANGED <<readers, want, hold>>

\* One round of the loop: wait(lk), or fetch_or(HOLDER).  The spin loop looks at
\* the word again instead of waiting.
MutexLoop(t) ==
    /\ pc[t] = "m_loop"
    /\ \/ /\ IsHeld(lk[t])
          /\ Goto(t, IF writer = lk[t] THEN "m_sleep" ELSE "m_reload")
          /\ UNCHANGED <<writer, want, holdW>>
       \/ /\ IsHeld(lk[t])
          /\ Goto(t, "m_reload")
          /\ UNCHANGED <<writer, want, holdW>>
       \/ /\ ~IsHeld(lk[t]) /\ IsHeld(writer)
          /\ Goto(t, "m_reload")
          /\ UNCHANGED <<writer, want, holdW>>
       \/ /\ ~IsHeld(lk[t]) /\ ~IsHeld(writer)
          /\ writer' = writer + HOLDER
          /\ MutexAcquired(t)
    /\ Load(t, 0)
    /\ UNCHANGED <<readers, holdS>>

MutexReload(t) ==
    /\ pc[t] = "m_reload"
    /\ Load(t, writer)
    /\ Goto(t, "m_loop")
    /\ UNCHANGED <<words, want, hold>>

MutexUnlock(t) ==
    /\ pc[t] = "m_unlock"
    /\ writer' = writer - (HOLDER + WAITER)
    /\ Goto(t, IF writer # HOLDER + WAITER THEN "m_wake" ELSE "idle")
    /\ UNCHANGED <<readers, lk, want, hold>>

MutexWake(t) ==
    /\ pc[t] = "m_wake"
    /\ WakeOne(t, OnWriter, "idle")
    /\ UNCHANGED <<words, lk, want, hold>>

----------------------------------------------------------------------------
(* ssux_lock_impl: wr_lock() after writer.wr_lock(), u_wr_upgrade(), wr_wait() *)

GrantX(t) ==
    /\ holdW' = [holdW EXCEPT ![t] = "X"]
    /\ want' = [want EXCEPT ![t] = "none"]
    /\ Load(t, 0)
    /\ Goto(t, "idle")

Announce(t) ==
    /\ pc[t] = "w_announce"
    /\ readers' = readers + WRITER
    /\ \/ /\ readers = 0
          /\ GrantX(t)
       \/ /\ readers # 0
          /\ Load(t, readers + WRITER)
          /\ Goto(t, "w_wait")
          /\ UNCHANGED <<want, holdW>>
    /\ UNCHANGED <<writer, holdS>>

\* wait(lk), or a round of the spin loop
WriterWait(t) ==
    /\ pc[t] = "w_wait"
    /\ \/ Goto(t, IF readers = lk[t] THEN "w_sleep" ELSE "w_reload")
       \/ Goto(t, "w_reload")
    /\ Load(t, 0)
    /\ UNCHANGED <<words, want, hold>>

\* Mutant of WriterReload: a last reader is overlooked.
WriterReloadEarly(t) ==
    /\ pc[t] = "w_reload"
    /\ \/ /\ readers <= WRITER + 1
          /\ GrantX(t)
       \/ /\ readers > WRITER + 1
          /\ Load(t, readers)
          /\ Goto(t, "w_wait")
          /\ UNCHANGED <<want, holdW>>
    /\ UNCHANGED <<words, holdS>>

WriterReload(t) ==
    /\ pc[t] = "w_reload"
    /\ \/ /\ readers = WRITER
          /\ GrantX(t)
       \/ /\ readers # WRITER
          /\ Load(t, readers)
          /\ Goto(t, "w_wait")
          /\ UNCHANGED <<want, holdW>>
    /\ UNCHANGED <<words, holdS>>

----------------------------------------------------------------------------
(* rd_lock(), rd_lock_spin(), rd_lock_nospin() *)

GrantS(t) == holdS' = holdS \cup {t}

\* rd_lock_try() before the thread enlists; the spin loop repeats it.
ReaderFirstTry(t) ==
    /\ pc[t] = "r_first"
    /\ \/ /\ readers < WRITER
          /\ readers' = readers + 1
          /\ GrantS(t)
          /\ Goto(t, "idle")
       \/ /\ readers >= WRITER
          /\ Goto(t, "r_enqueue")
          /\ UNCHANGED <<readers, holdS>>
    /\ UNCHANGED <<writer, lk, want, holdW>>

\* Subscribe to writer.wake().
ReaderEnqueue(t) ==
    /\ pc[t] = "r_enqueue"
    /\ writer' = writer + WAITER
    /\ Load(t, writer + WAITER)
    /\ Goto(t, "r_loop")
    /\ UNCHANGED <<readers, want, hold>>

\* if (HOLDER & wl) writer.wait(wl);
ReaderLoop(t) ==
    /\ pc[t] = "r_loop"
    /\ Goto(t, IF IsHeld(lk[t]) /\ writer = lk[t] THEN "r_sleep" ELSE "r_try")
    /\ Load(t, 0)
    /\ UNCHANGED <<words, want, hold>>

\* rd_lock_try_low()
ReaderTry(t) ==
    /\ pc[t] = "r_try"
    /\ \/ /\ readers < WRITER
          /\ readers' = readers + 1
          /\ GrantS(t)
          /\ Goto(t, "r_dequeue")
       \/ /\ readers >= WRITER
          /\ Goto(t, IF readers = WRITER THEN "r_wake_all" ELSE "r_reload")
          /\ UNCHANGED <<readers, holdS>>
    /\ UNCHANGED <<writer, lk, want, holdW>>

ReaderWakeAll(t) ==
    /\ pc[t] = "r_wake_all"
    /\ WakeAll(t, OnWriter, "r_reload")
    /\ UNCHANGED <<words, lk, want, hold>>

ReaderReload(t) ==
    /\ pc[t] = "r_reload"
    /\ Load(t, writer)
    /\ Goto(t, "r_loop")
    /\ UNCHANGED <<words, want, hold>>

\* Mutant of ReaderDequeue: the reader stays counted as a waiter.
ReaderDequeueNot(t) ==
    /\ pc[t] = "r_dequeue"
    /\ Goto(t, IF writer > WAITER THEN "r_granted" ELSE "idle")
    /\ UNCHANGED <<words, lk, want, hold>>

\* Unsubscribe.
ReaderDequeue(t) ==
    /\ pc[t] = "r_dequeue"
    /\ writer' = writer - WAITER
    /\ Goto(t, IF writer > WAITER THEN "r_granted" ELSE "idle")
    /\ UNCHANGED <<readers, lk, want, hold>>

ReaderGranted(t) ==
    /\ pc[t] = "r_granted"
    /\ WakeAll(t, OnWriter, "idle")
    /\ UNCHANGED <<words, lk, want, hold>>
----------------------------------------------------------------------------
(* The calls.  As the assertions of sux_lock require, a thread takes at    *)
(* most one S latch, none while it holds X, and waits for U or X only when *)
(* it holds no S.                                                          *)

Idle(t) == pc[t] = "idle"
Nothing(t) == Idle(t) /\ t \notin holdS /\ holdW[t] = "none"

\* rd_lock() with and without a spin loop
RdLock(t) ==
    /\ Idle(t) /\ t \notin holdS /\ holdW[t] # "X"
    /\ \E label \in {"r_first", "r_enqueue"} : Goto(t, label)
    /\ UNCHANGED <<words, lk, want, hold>>

RdLockTry(t) ==
    /\ Idle(t) /\ t \notin holdS /\ holdW[t] # "X"
    /\ readers < WRITER
    /\ readers' = readers + 1
    /\ GrantS(t)
    /\ UNCHANGED <<writer, pc, lk, want, holdW>>

\* u_lock() and wr_lock()
UOrWrLock(t) ==
    /\ Nothing(t)
    /\ \E mode \in {"U", "X"} : want' = [want EXCEPT ![t] = mode]
    /\ Goto(t, "m_try")
    /\ UNCHANGED <<words, lk, hold>>

\* u_lock_try(), and rd_u_upgrade_try() of a thread that holds S
ULockTry(t) ==
    /\ Idle(t) /\ holdW[t] = "none"
    /\ writer = 0
    /\ writer' = HOLDER + WAITER
    /\ holdW' = [holdW EXCEPT ![t] = "U"]
    /\ UNCHANGED <<readers, pc, lk, want, holdS>>

\* wr_lock_try(): the mutex, then the readers; the mutex is released again when
\* there are readers.
WrLockTry(t) ==
    /\ Nothing(t)
    /\ writer = 0
    /\ writer' = HOLDER + WAITER
    /\ Goto(t, "x_try")
    /\ UNCHANGED <<readers, lk, want, hold>>

\* Mutant of WrLockTryReaders: readers are announced to but not waited for.
WrLockTryDespiteReaders(t) ==
    /\ pc[t] = "x_try"
    /\ readers' = readers + WRITER
    /\ holdW' = [holdW EXCEPT ![t] = "X"]
    /\ Goto(t, "idle")
    /\ UNCHANGED <<writer, lk, want, holdS>>

WrLockTryReaders(t) ==
    /\ pc[t] = "x_try"
    /\ \/ /\ readers = 0
          /\ readers' = WRITER
          /\ holdW' = [holdW EXCEPT ![t] = "X"]
          /\ Goto(t, "idle")
       \/ /\ readers # 0
          /\ Goto(t, "m_unlock")
          /\ UNCHANGED <<readers, holdW>>
    /\ UNCHANGED <<writer, lk, want, holdS>>

UWrUpgrade(t) ==
    /\ Idle(t) /\ holdW[t] = "U" /\ t \notin holdS
    /\ Goto(t, "w_announce")
    /\ UNCHANGED <<words, lk, want, hold>>

WrUDowngrade(t) ==
    /\ Idle(t) /\ holdW[t] = "X"
    /\ readers' = 0
    /\ holdW' = [holdW EXCEPT ![t] = "U"]
    /\ UNCHANGED <<writer, pc, lk, want, holdS>>

\* u_rd_downgrade(), also the second part of wr_rd_downgrade()
URdDowngrade(t) ==
    /\ Idle(t) /\ holdW[t] = "U" /\ t \notin holdS
    /\ readers' = readers + 1
    /\ GrantS(t)
    /\ holdW' = [holdW EXCEPT ![t] = "none"]
    /\ Goto(t, "m_unlock")
    /\ UNCHANGED <<writer, lk, want>>

\* Mutant of RdUnlock: the last reader is recognised too late.
RdUnlockLate(t) ==
    /\ Idle(t) /\ t \in holdS
    /\ readers' = readers - 1
    /\ holdS' = holdS \ {t}
    /\ Goto(t, IF readers = WRITER THEN "r_wake" ELSE "idle")
    /\ UNCHANGED <<writer, lk, want, holdW>>

RdUnlock(t) ==
    /\ Idle(t) /\ t \in holdS
    /\ readers' = readers - 1
    /\ holdS' = holdS \ {t}
    /\ Goto(t, IF readers = WRITER + 1 THEN "r_wake" ELSE "idle")
    /\ UNCHANGED <<writer, lk, want, holdW>>

\* Mutant of ReadersWake: the wake-up goes to the word of the mutex.
ReadersWakeWrongWord(t) ==
    /\ pc[t] = "r_wake"
    /\ WakeOne(t, OnWriter, "idle")
    /\ UNCHANGED <<words, lk, want, hold>>

ReadersWake(t) ==
    /\ pc[t] = "r_wake"
    /\ WakeOne(t, OnReaders, "idle")
    /\ UNCHANGED <<words, lk, want, hold>>

UUnlock(t) ==
    /\ Idle(t) /\ holdW[t] = "U"
    /\ holdW' = [holdW EXCEPT ![t] = "none"]
    /\ Goto(t, "m_unlock")
    /\ UNCHANGED <<words, lk, want, holdS>>

WrUnlock(t) ==
    /\ Idle(t) /\ holdW[t] = "X"
    /\ readers' = 0
    /\ holdW' = [holdW EXCEPT ![t] = "none"]
    /\ Goto(t, "m_unlock")
    /\ UNCHANGED <<writer, lk, want, holdS>>

\* The steps of a call that has started.
Step(t) ==
    \/ MutexTry(t) \/ MutexEnqueue(t) \/ MutexLoop(t) \/ MutexReload(t)
    \/ MutexUnlock(t) \/ MutexWake(t)
    \/ Announce(t) \/ WriterWait(t) \/ WriterReload(t)
    \/ ReaderFirstTry(t) \/ ReaderEnqueue(t) \/ ReaderLoop(t) \/ ReaderTry(t)
    \/ ReaderWakeAll(t) \/ ReaderReload(t) \/ ReaderDequeue(t) \/ ReaderGranted(t)
    \/ WrLockTryReaders(t) \/ ReadersWake(t)

Acquire(t) == RdLock(t) \/ RdLockTry(t) \/ UOrWrLock(t) \/ ULockTry(t) \/ WrLockTry(t)
Convert(t) == UWrUpgrade(t) \/ WrUDowngrade(t) \/ URdDowngrade(t)
Release(t) == RdUnlock(t) \/ UUnlock(t) \/ WrUnlock(t)

Next ==
    \E t \in Thread :
        Acquire(t) \/ Convert(t) \/ Release(t) \/ Step(t) \/ SpuriousWakeup(t)

Spec == Init /\ [][Next]_vars

\* Every thread is scheduled while it has something to do, and who holds a
\* latch releases it: InnoDB holds latches for bounded times only.
Fairness == \A t \in Thread : WF_vars(Step(t)) /\ WF_vars(Release(t))

FairSpec == Spec /\ Fairness

----------------------------------------------------------------------------
(* Properties *)

PCs == {"idle"} \cup MutexPC \cup UpgradePC \cup SharedPC \cup ReleasePC

\* Every variable keeps its type; the lock words are 32-bit numbers.
TypeOK ==
    /\ writer \in 0..2 * WRITER - 1 /\ readers \in 0..2 * WRITER - 1
    /\ pc \in [Thread -> PCs]
    /\ lk \in [Thread -> 0..2 * WRITER - 1]
    /\ want \in [Thread -> {"none", "U", "X"}]
    /\ holdS \subseteq Thread
    /\ holdW \in [Thread -> {"none", "U", "X"}]

\* X excludes every other holder, U excludes U and X: whichever of the lock,
\* try, upgrade and downgrade calls the holders got there by.
Exclusion ==
    /\ \A t, u \in Thread : holdW[t] # "none" /\ holdW[u] # "none" => t = u
    /\ \A t \in Thread : holdW[t] = "X" => holdS = {}

\* The latch implements the abstract one.
L == INSTANCE Latch
ImplementsLatch == L!Spec

OwnsWriter(t) == holdW[t] # "none" \/ pc[t] \in UpgradePC \cup {"x_try", "m_unlock"}
Enlisted(t) == \/ pc[t] \in {"m_loop", "m_reload", "m_sleep"}
               \/ pc[t] \in SharedPC \ {"r_first", "r_enqueue", "r_granted"}
Announced(t) == holdW[t] = "X" \/ pc[t] \in UpgradePC \ {"w_announce"}

\* srw_lock.h, on the word of the mutex: "HOLDER + WAITER if the lock is being
\* held, plus WAITER times the number of waiters"; and the word of the readers
\* counts the S holders exactly, beside the flag of the one announced writer.
\* A count that drifted would wake nobody, or let a writer in too early.
WordsCount ==
    /\ writer =   WAITER * Cardinality({t \in Thread : Enlisted(t)})
                + (HOLDER + WAITER) * Cardinality({t \in Thread : OwnsWriter(t)})
    /\ readers = Cardinality(holdS) + WRITER * Cardinality({t \in Thread : Announced(t)})

Running(t) == pc[t] \notin Asleep \cup {"idle"}

\* No wake-up is lost: who sleeps on the word of the mutex is waited on by its
\* owner, and who sleeps on the readers by an S holder, or else some thread
\* is on its way to wake the sleeper.
NoLostWakeup ==
    \A t \in Thread :
        /\ pc[t] \in OnWriter => \E u \in Thread : OwnsWriter(u) \/ Running(u)
        /\ pc[t] \in OnReaders => holdS # {} \/ \E u \in Thread : Running(u)

\* A writer that has the mutex gets X, however many readers come and go and
\* retry meanwhile: the flag in readers keeps new ones out, and the last one
\* to leave wakes the writer.
WriterEnters == \A t \in Thread : pc[t] \in UpgradePC ~> holdW[t] = "X"
=============================================================================
