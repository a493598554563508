--------------------------- MODULE SsuxLockProofs ---------------------------
(***************************************************************************)
(* The futex latch for any number of threads: its two words count what     *)
(* they should, X excludes every other holder and U excludes U and X, no   *)
(* wake-up is lost, and the latch implements the contract Latch.           *)
(*                                                                         *)
(* A step of one thread changes what is counted of that thread only.  So   *)
(* each step has to be shown right for the one thread that takes it        *)
(* (Local), and one lemma (CountStep) carries the counts over.             *)
(***************************************************************************)
EXTENDS SsuxLock, FiniteSetTheorems, TLAPS

Owners == {t \in Thread : OwnsWriter(t)}
Waiters == {t \in Thread : Enlisted(t)}
Announcers == {t \in Thread : Announced(t)}

\* The parts of TypeOK that are not about numbers.
Control ==
    /\ pc \in [Thread -> PCs]
    /\ want \in [Thread -> {"none", "U", "X"}]
    /\ holdS \in SUBSET Thread
    /\ holdW \in [Thread -> {"none", "U", "X"}]

\* Who owns the mutex does so alone, and what a thread holds while it is inside
\* of a call.
Discipline ==
    /\ \A t, u \in Thread : OwnsWriter(t) /\ OwnsWriter(u) => t = u
    /\ \A t \in Thread :
          /\ holdW[t] = "X" => pc[t] = "idle" /\ holdS = {}
          /\ pc[t] \in MutexPC \cup {"x_try", "m_unlock"} => holdW[t] = "none"
          /\ pc[t] \in SharedPC \ {"r_dequeue", "r_granted"} => t \notin holdS

IInv == Control /\ Discipline /\ WordsCount

One(b) == IF b THEN 1 ELSE 0

\* A step of t: the other threads are left alone or woken up, and the words
\* change by what t counts for.
Others(t) ==
    \A u \in Thread \ {t} :
        /\ holdW'[u] = holdW[u] /\ (u \in holdS' <=> u \in holdS)
        /\ pc'[u] = pc[u] \/ (pc[u] \in Asleep /\ pc'[u] = Resume(pc[u]))

Local(t) ==
    /\ Others(t)
    /\ writer' = writer + WAITER * (One(Enlisted(t)') - One(Enlisted(t)))
                        + (HOLDER + WAITER) * (One(OwnsWriter(t)') - One(OwnsWriter(t)))
    /\ readers' = readers + (One(t \in holdS') - One(t \in holdS))
                          + WRITER * (One(Announced(t)') - One(Announced(t)))

\* What t has to keep of Discipline.
Proper(t) ==
    /\ OwnsWriter(t)' => OwnsWriter(t) \/ Owners = {}
    /\ t \in holdS' => t \in holdS \/ \A u \in Thread : holdW'[u] # "X"
    /\ holdW'[t] = "X" => pc'[t] = "idle" /\ holdS' = {}
    /\ pc'[t] \in MutexPC \cup {"x_try", "m_unlock"} => holdW'[t] = "none"
    /\ pc'[t] \in SharedPC \ {"r_dequeue", "r_granted"} => t \notin holdS'

----------------------------------------------------------------------------
\* If two finite sets differ in t at most, so do their cardinalities.
LEMMA OneMoves ==
  ASSUME NEW S, NEW T, NEW t, IsFiniteSet(S), IsFiniteSet(T),
         \A u : u # t => (u \in S <=> u \in T)
  PROVE  /\ Cardinality(S) \in Nat /\ Cardinality(T) \in Nat
         /\ Cardinality(T) = Cardinality(S) + (One(t \in T) - One(t \in S))
<1>1. Cardinality(S) \in Nat /\ Cardinality(T) \in Nat
  BY FS_CardinalityType
<1>2. CASE (t \in S) <=> (t \in T)
  <2>1. S = T
    BY <1>2
  <2> QED
    BY <1>1, <1>2, <2>1 DEF One
<1>3. CASE t \in S /\ t \notin T
  <2>1. T = S \ {t}
    BY <1>3
  <2>2. Cardinality(T) = Cardinality(S) - 1
    BY <1>3, <2>1, FS_RemoveElement
  <2> QED
    BY <1>1, <1>3, <2>2 DEF One
<1>4. CASE t \notin S /\ t \in T
  <2>1. T = S \cup {t}
    BY <1>4
  <2>2. Cardinality(T) = Cardinality(S) + 1
    BY <1>4, <2>1, FS_AddElement
  <2> QED
    BY <1>1, <1>4, <2>2 DEF One
<1> QED
  BY <1>2, <1>3, <1>4

\* Everything that is counted is finite.
LEMMA PartOfThread == \A S \in SUBSET Thread : IsFiniteSet(S)
  BY FS_Subset, SsuxConstants

\* Waking a thread changes nothing that is counted.
LEMMA OthersCount ==
  ASSUME NEW t \in Thread, Others(t), Control, Control', NEW u \in Thread \ {t}
  PROVE  /\ OwnsWriter(u)' <=> OwnsWriter(u)
         /\ Enlisted(u)' <=> Enlisted(u)
         /\ Announced(u)' <=> Announced(u)
  BY DEF Others, Resume, Asleep, OnWriter, OnReaders, OwnsWriter, Enlisted, Announced,
         UpgradePC, SharedPC

\* A local step keeps the words equal to their counts.
LEMMA CountStep ==
  ASSUME NEW t \in Thread, Control, Control', WordsCount, Local(t)
  PROVE  WordsCount'
<1>1. /\ \A u : u # t => (u \in Owners <=> u \in Owners')
      /\ \A u : u # t => (u \in Waiters <=> u \in Waiters')
      /\ \A u : u # t => (u \in Announcers <=> u \in Announcers')
      /\ \A u : u # t => (u \in holdS <=> u \in holdS')
  BY OthersCount DEF Local, Others, Control, Owners, Waiters, Announcers
<1>2. /\ t \in Owners <=> OwnsWriter(t)
      /\ t \in Waiters <=> Enlisted(t)
      /\ t \in Announcers <=> Announced(t)
  BY DEF Owners, Waiters, Announcers
<1>3. /\ t \in Owners' <=> OwnsWriter(t)'
      /\ t \in Waiters' <=> Enlisted(t)'
      /\ t \in Announcers' <=> Announced(t)'
  BY DEF Owners, Waiters, Announcers
<1>4. /\ IsFiniteSet(Owners) /\ IsFiniteSet(Owners')
      /\ IsFiniteSet(Waiters) /\ IsFiniteSet(Waiters')
      /\ IsFiniteSet(Announcers) /\ IsFiniteSet(Announcers')
      /\ IsFiniteSet(holdS) /\ IsFiniteSet(holdS')
  BY PartOfThread DEF Owners, Waiters, Announcers, Control
<1>5. /\ Cardinality(Owners) \in Nat /\ Cardinality(Owners') \in Nat
      /\ Cardinality(Owners') = Cardinality(Owners) + (One(t \in Owners') - One(t \in Owners))
  BY <1>1, <1>4, OneMoves
<1>6. /\ Cardinality(Waiters) \in Nat /\ Cardinality(Waiters') \in Nat
      /\ Cardinality(Waiters') = Cardinality(Waiters) + (One(t \in Waiters') - One(t \in Waiters))
  BY <1>1, <1>4, OneMoves
<1>7. /\ Cardinality(Announcers) \in Nat /\ Cardinality(Announcers') \in Nat
      /\ Cardinality(Announcers') =
           Cardinality(Announcers) + (One(t \in Announcers') - One(t \in Announcers))
  BY <1>1, <1>4, OneMoves
<1>8. /\ Cardinality(holdS) \in Nat /\ Cardinality(holdS') \in Nat
      /\ Cardinality(holdS') = Cardinality(holdS) + (One(t \in holdS') - One(t \in holdS))
  BY <1>1, <1>4, OneMoves
<1>9. /\ writer = WAITER * Cardinality(Waiters) + (HOLDER + WAITER) * Cardinality(Owners)
      /\ readers = Cardinality(holdS) + WRITER * Cardinality(Announcers)
  BY DEF WordsCount, Owners, Waiters, Announcers
<1>10. writer' = WAITER * Cardinality(Waiters') + (HOLDER + WAITER) * Cardinality(Owners')
  BY <1>2, <1>3, <1>5, <1>6, <1>9 DEF Local, One, HOLDER, WAITER
<1>11. readers' = Cardinality(holdS') + WRITER * Cardinality(Announcers')
  <2>1. WRITER * Cardinality(Announcers') = WRITER * Cardinality(Announcers)
          + WRITER * (One(Announced(t)') - One(Announced(t)))
    BY <1>2, <1>3, <1>7, SsuxConstants DEF One
  <2> QED
    BY <1>8, <1>9, <1>7, <2>1, SsuxConstants DEF Local, One
<1> QED
  BY <1>10, <1>11 DEF WordsCount, Owners, Waiters, Announcers

----------------------------------------------------------------------------
\* What a thread learns from the words.
LEMMA Reading ==
  ASSUME IInv
  PROVE  /\ writer \in 0 .. 2 * WRITER - 1 /\ readers \in 0 .. 2 * WRITER - 1
         /\ ~IsHeld(writer) => Owners = {}
         /\ writer = 0 => Owners = {}
         /\ readers < WRITER => Announcers = {}
         /\ readers = 0 => holdS = {} /\ Announcers = {}
         /\ readers = WRITER /\ Announcers # {} => holdS = {}
         /\ Announcers # {} /\ holdS = {} => readers = WRITER
<1> DEFINE o == Cardinality(Owners)
           e == Cardinality(Waiters)
           a == Cardinality(Announcers)
           s == Cardinality(holdS)
           n == Cardinality(Thread)
<1>1. /\ Owners \in SUBSET Thread /\ Waiters \in SUBSET Thread
      /\ Announcers \in SUBSET Owners /\ holdS \in SUBSET Thread
  BY DEF Owners, Waiters, Announcers, IInv, Control, Announced, OwnsWriter
<1>2. /\ IsFiniteSet(Owners) /\ IsFiniteSet(Waiters) /\ IsFiniteSet(Announcers)
      /\ IsFiniteSet(holdS)
  BY <1>1, PartOfThread
<1>3. o \in Nat /\ e \in Nat /\ a \in Nat /\ s \in Nat /\ n \in Nat
  BY <1>2, FS_CardinalityType, SsuxConstants
<1>4. e <= n /\ s <= n /\ a <= o
  BY <1>1, <1>2, FS_Subset, SsuxConstants
<1>5. o = 0 \/ o = 1
  <2>1. CASE Owners = {}
    BY <2>1, FS_EmptySet
  <2>2. CASE Owners # {}
    <3>1. PICK t \in Owners : TRUE
      BY <2>2
    <3>2. Owners = {t}
      BY <3>1 DEF IInv, Discipline, Owners
    <3> QED
      BY <3>2, FS_Singleton, Zenon
  <2> QED
    BY <2>1, <2>2
<1>6. /\ o = 0 <=> Owners = {}
      /\ a = 0 <=> Announcers = {}
      /\ s = 0 <=> holdS = {}
  BY <1>2, FS_EmptySet
<1>7. writer = 2 * e + 3 * o /\ readers = s + WRITER * a
  BY DEF IInv, WordsCount, Owners, Waiters, Announcers, HOLDER, WAITER
<1>8. a = 0 \/ a = 1
  BY <1>3, <1>4, <1>5
<1> HIDE DEF o, e, a, s, n
<1>9. WRITER * a = IF a = 0 THEN 0 ELSE WRITER
  BY <1>8, SsuxConstants
<1>10. n + 1 < WRITER /\ WRITER \in Nat
  BY SsuxConstants DEF n
<1>11. writer \in 0 .. 2 * WRITER - 1 /\ readers \in 0 .. 2 * WRITER - 1
  BY <1>3, <1>4, <1>5, <1>7, <1>8, <1>9, <1>10
<1>12. ~IsHeld(writer) => o = 0
  BY <1>3, <1>5, <1>7 DEF IsHeld, HOLDER
<1>13. writer = 0 => o = 0
  BY <1>3, <1>5, <1>7
<1>14. /\ readers < WRITER => a = 0
       /\ readers = 0 => s = 0 /\ a = 0
       /\ readers = WRITER /\ a # 0 => s = 0
       /\ a # 0 /\ s = 0 => readers = WRITER
  BY <1>3, <1>7, <1>8, <1>9, <1>10
<1> QED
  BY <1>6, <1>11, <1>12, <1>13, <1>14

\* A proper step keeps Discipline.
LEMMA DisciplineStep ==
  ASSUME NEW t \in Thread, IInv, Control', Others(t), Proper(t)
  PROVE  Discipline'
<1>1. \A u, v \in Thread : (OwnsWriter(u) /\ OwnsWriter(v))' => u = v
  <2> TAKE u, v \in Thread
  <2>1. CASE u # t /\ v # t
    BY <2>1, OthersCount DEF IInv, Discipline
  <2>2. CASE u = t /\ v # t
    BY <2>2, OthersCount DEF IInv, Discipline, Proper, Owners
  <2>3. CASE u # t /\ v = t
    BY <2>3, OthersCount DEF IInv, Discipline, Proper, Owners
  <2> QED
    BY <2>1, <2>2, <2>3
<1>2. ASSUME NEW u \in Thread
      PROVE  /\ holdW'[u] = "X" => pc'[u] = "idle" /\ holdS' = {}
             /\ pc'[u] \in MutexPC \cup {"x_try", "m_unlock"} => holdW'[u] = "none"
             /\ pc'[u] \in SharedPC \ {"r_dequeue", "r_granted"} => u \notin holdS'
  <2>1. CASE u = t
    BY <2>1 DEF Proper
  <2>2. CASE u # t
    <3>1. /\ holdW'[u] = holdW[u] /\ (u \in holdS' <=> u \in holdS)
          /\ pc'[u] = pc[u] \/ (pc[u] \in Asleep /\ pc'[u] = Resume(pc[u]))
      BY <2>2 DEF Others
    <3>2. /\ holdW[u] = "X" => pc[u] = "idle" /\ holdS = {}
          /\ pc[u] \in MutexPC \cup {"x_try", "m_unlock"} => holdW[u] = "none"
          /\ pc[u] \in SharedPC \ {"r_dequeue", "r_granted"} => u \notin holdS
      BY DEF IInv, Discipline
    <3>3. holdW'[u] = "X" => pc'[u] = "idle" /\ holdS' = {}
      <4> HAVE holdW'[u] = "X"
      <4>1. pc[u] = "idle" /\ holdS = {}
        BY <3>1, <3>2
      <4>2. pc'[u] = "idle"
        BY <3>1, <4>1 DEF Asleep, OnWriter, OnReaders
      <4>3. t \notin holdS'
        BY <4>1 DEF Proper
      <4> QED
        BY <4>1, <4>2, <4>3 DEF Others, Control
    <3>4. pc'[u] \in MutexPC \cup {"x_try", "m_unlock"} => holdW'[u] = "none"
      BY <3>1, <3>2 DEF Asleep, OnWriter, OnReaders, Resume, MutexPC
    <3>5. pc'[u] \in SharedPC \ {"r_dequeue", "r_granted"} => u \notin holdS'
      BY <3>1, <3>2 DEF Asleep, OnWriter, OnReaders, Resume, SharedPC
    <3> QED
      BY <3>3, <3>4, <3>5
  <2> QED
    BY <2>1, <2>2
<1> QED
  BY <1>1, <1>2 DEF Discipline

Good(t) == Control' /\ Local(t) /\ Proper(t)

\* Where t and the others are after t has gone on, alone or with a wake-up.
Moved(t, label) ==
    /\ pc' \in [Thread -> PCs]
    /\ pc'[t] = label
    /\ \A u \in Thread \ {t} :
          pc'[u] = pc[u] \/ (pc[u] \in Asleep /\ pc'[u] = Resume(pc[u]))

\* A thread that goes on alone wakes nobody.
LEMMA GotoMoves ==
  ASSUME IInv, NEW t \in Thread, NEW label \in PCs, Goto(t, label)
  PROVE  Moved(t, label)
  BY DEF Goto, Moved, IInv, Control

\* A sleeper continues at a label of the code.
LEMMA ResumeType == \A p \in Asleep : Resume(p) \in PCs
  BY DEF Asleep, OnWriter, OnReaders, Resume, PCs, MutexPC, SharedPC, UpgradePC

\* FUTEX_WAKE moves only the caller and sleepers.
LEMMA WakeMoves ==
  ASSUME IInv, NEW t \in Thread, NEW label \in PCs, NEW P \in SUBSET Asleep,
         WakeOne(t, P, label) \/ WakeAll(t, P, label)
  PROVE  Moved(t, label)
<1>1. ASSUME NEW S \in SUBSET Sleepers(P), WakeAndGoto(t, S, label)
      PROVE  Moved(t, label)
  <2>1. \A u \in S : pc[u] \in Asleep
    BY <1>1 DEF Sleepers
  <2> QED
    BY <1>1, <2>1, ResumeType DEF WakeAndGoto, Moved, IInv, Control
<1>2. CASE WakeAll(t, P, label)
  BY <1>1, <1>2 DEF WakeAll
<1>3. CASE WakeOne(t, P, label)
  <2>1. CASE Goto(t, label)
    BY <2>1, GotoMoves
  <2>2. CASE \E u \in Sleepers(P) : WakeAndGoto(t, {u}, label)
    BY <1>1, <2>2
  <2> QED
    BY <1>3, <2>1, <2>2 DEF WakeOne
<1> QED
  BY <1>2, <1>3

\* A step that changes neither the words nor what is held or counted.
SameCount(t, label) ==
    /\ label \in {"m_loop", "m_reload", "m_sleep"}
         <=> pc[t] \in {"m_loop", "m_reload", "m_sleep"}
    /\ label \in SharedPC \ {"r_first", "r_enqueue", "r_granted"}
         <=> pc[t] \in SharedPC \ {"r_first", "r_enqueue", "r_granted"}
    /\ label \in UpgradePC \ {"w_announce"} <=> pc[t] \in UpgradePC \ {"w_announce"}
    /\ pc[t] \in UpgradePC \cup {"x_try", "m_unlock"}
         => label \in UpgradePC \cup {"x_try", "m_unlock"}
    /\ label \in UpgradePC \cup {"x_try", "m_unlock"} => OwnsWriter(t)
    /\ holdW[t] = "X" => label = "idle"
    /\ label \in MutexPC \cup {"x_try", "m_unlock"} => holdW[t] = "none"
    /\ label \in SharedPC \ {"r_dequeue", "r_granted"} => t \notin holdS

Quiet(t) ==
    /\ UNCHANGED <<words, hold>>
    /\ want' \in [Thread -> {"none", "U", "X"}]
    /\ \E label \in PCs : Moved(t, label) /\ SameCount(t, label)

\* A quiet step is good.
LEMMA QuietGood ==
  ASSUME IInv, NEW t \in Thread, Quiet(t)
  PROVE  Good(t)
<1>1. PICK label \in PCs : Moved(t, label) /\ SameCount(t, label)
  BY DEF Quiet
<1>2. Control' /\ Others(t)
  BY <1>1 DEF Quiet, Moved, hold, IInv, Control, Others
<1>3. holdS' = holdS /\ holdW' = holdW /\ writer' = writer /\ readers' = readers
      /\ pc'[t] = label
  BY <1>1 DEF Quiet, Moved, hold, words
<1>4. /\ Enlisted(t)' <=> Enlisted(t)
      /\ OwnsWriter(t)' <=> OwnsWriter(t)
      /\ Announced(t)' <=> Announced(t)
  BY <1>1, <1>3 DEF SameCount, Enlisted, OwnsWriter, Announced
<1>5. Local(t)
  BY <1>2, <1>3, <1>4, Reading, SsuxConstants DEF Local, One, HOLDER, WAITER
<1>6. Proper(t)
  BY <1>1, <1>3, <1>4 DEF SameCount, Proper, IInv, Discipline
<1> QED
  BY <1>2, <1>5, <1>6 DEF Good
----------------------------------------------------------------------------
(* The steps that count for nothing.                                       *)

\* So is a jump between labels that count for the same,
LEMMA QuietGoto ==
  ASSUME IInv, NEW t \in Thread, NEW label \in PCs, Goto(t, label), SameCount(t, label),
         UNCHANGED <<words, hold>>, want' \in [Thread -> {"none", "U", "X"}]
  PROVE  Good(t)
  BY GotoMoves, QuietGood DEF Quiet

\* and a FUTEX_WAKE followed by one.
LEMMA QuietWake ==
  ASSUME IInv, NEW t \in Thread, NEW label \in PCs, NEW P \in SUBSET Asleep,
         WakeOne(t, P, label) \/ WakeAll(t, P, label), SameCount(t, label),
         UNCHANGED <<words, hold, want>>
  PROVE  Good(t)
  BY WakeMoves, QuietGood DEF Quiet, IInv, Control

\* What SameCount says of a step from one label to another, for all labels at once.
LEMMA SameCountOf ==
  ASSUME IInv, NEW t \in Thread
  PROVE  /\ \A p \in {"m_loop", "m_reload", "m_sleep"} :
               pc[t] \in {"m_loop", "m_reload", "m_sleep"} => SameCount(t, p)
         /\ pc[t] = "m_try" => SameCount(t, "m_enqueue")
         /\ \A p \in {"w_wait", "w_reload", "w_sleep"} :
               pc[t] \in {"w_wait", "w_reload", "w_sleep"} => SameCount(t, p)
         /\ \A p \in {"r_loop", "r_try", "r_wake_all", "r_reload", "r_sleep"} :
               pc[t] \in {"r_loop", "r_try", "r_wake_all", "r_reload", "r_sleep"}
                 => SameCount(t, p)
         /\ pc[t] = "r_first" => SameCount(t, "r_enqueue")
         /\ pc[t] \in {"m_wake", "r_wake", "r_granted"} => SameCount(t, "idle")
         /\ pc[t] = "idle" /\ t \notin holdS /\ holdW[t] # "X" =>
               SameCount(t, "r_first") /\ SameCount(t, "r_enqueue")
         /\ Nothing(t) => SameCount(t, "m_try")
         /\ pc[t] = "idle" /\ holdW[t] = "U" => SameCount(t, "w_announce")
         /\ pc[t] = "x_try" => SameCount(t, "m_unlock")
  BY ZenonT(40) DEF SameCount, IInv, Discipline, OwnsWriter, Nothing, Idle, PCs, MutexPC, UpgradePC,
         SharedPC, ReleasePC

\* The steps that read a word, sleep, wake or start a call change nothing counted.
LEMMA QuietSteps ==
  ASSUME IInv, NEW t \in Thread,
         \/ MutexReload(t) \/ MutexWake(t) \/ WriterWait(t) \/ ReaderLoop(t)
         \/ ReaderWakeAll(t) \/ ReaderReload(t) \/ ReaderGranted(t) \/ ReadersWake(t)
         \/ RdLock(t) \/ UOrWrLock(t) \/ UWrUpgrade(t) \/ SpuriousWakeup(t)
  PROVE  Good(t)
<1>0. /\ want \in [Thread -> {"none", "U", "X"}]
      /\ \A p \in {"m_loop", "m_reload", "m_try", "w_announce", "w_reload", "w_sleep",
                  "r_first", "r_enqueue", "r_loop", "r_try", "r_sleep", "r_reload",
                  "idle"} : p \in PCs
      /\ OnWriter \in SUBSET Asleep /\ OnReaders \in SUBSET Asleep
  BY DEF IInv, Control, PCs, MutexPC, UpgradePC, SharedPC, Asleep
<1>1. CASE MutexReload(t)
  BY <1>0, <1>1, SameCountOf, QuietGoto, Zenon DEF MutexReload
<1>2. CASE MutexWake(t)
  BY <1>0, <1>2, SameCountOf, QuietWake, Zenon DEF MutexWake
<1>3. CASE WriterWait(t)
  BY <1>0, <1>3, SameCountOf, QuietGoto, Zenon DEF WriterWait
<1>4. CASE ReaderLoop(t)
  BY <1>0, <1>4, SameCountOf, QuietGoto, Zenon DEF ReaderLoop
<1>5. CASE ReaderWakeAll(t)
  BY <1>0, <1>5, SameCountOf, QuietWake DEF ReaderWakeAll
<1>6. CASE ReaderReload(t)
  BY <1>0, <1>6, SameCountOf, QuietGoto DEF ReaderReload
<1>7. CASE ReaderGranted(t)
  BY <1>0, <1>7, SameCountOf, QuietWake, Zenon DEF ReaderGranted
<1>8. CASE ReadersWake(t)
  BY <1>0, <1>8, SameCountOf, QuietWake, Zenon DEF ReadersWake
<1>9. CASE RdLock(t)
  BY <1>0, <1>9, SameCountOf, QuietGoto, Zenon DEF RdLock, Idle
<1>10. CASE UOrWrLock(t)
  BY <1>0, <1>10, SameCountOf, QuietGoto, Zenon DEF UOrWrLock
<1>11. CASE UWrUpgrade(t)
  BY <1>0, <1>11, SameCountOf, QuietGoto, Zenon DEF UWrUpgrade, Idle
<1>12. CASE SpuriousWakeup(t)
  <2>1. SameCount(t, Resume(pc[t]))
    BY <1>12, SameCountOf DEF SpuriousWakeup, Asleep, OnWriter, OnReaders, Resume
  <2> QED
    BY <1>0, <1>12, <2>1, ResumeType, QuietGoto DEF SpuriousWakeup
<1> QED
  BY <1>1, <1>2, <1>3, <1>4, <1>5, <1>6, <1>7, <1>8, <1>9, <1>10, <1>11, <1>12

----------------------------------------------------------------------------
(* The steps that count.                                                   *)

\* What a thread counts for that is at p and holds w.
EnlistedAt(p) == \/ p \in {"m_loop", "m_reload", "m_sleep"}
                 \/ p \in SharedPC \ {"r_first", "r_enqueue", "r_granted"}
OwnsAt(p, w) == w # "none" \/ p \in UpgradePC \cup {"x_try", "m_unlock"}
AnnouncedAt(p, w) == w = "X" \/ p \in UpgradePC \ {"w_announce"}

\* The step takes t to label, where t holds w, and S is what is held as S.
Becomes(t, label, w, S) ==
    /\ Moved(t, label)
    /\ want' \in [Thread -> {"none", "U", "X"}]
    /\ holdW' = [holdW EXCEPT ![t] = w]
    /\ holdS' = S
    /\ S \in SUBSET Thread /\ S \ {t} = holdS \ {t}

\* The words change accordingly, and t gets what it may get.
Pays(t, label, w, S) ==
    /\ writer' = writer + WAITER * (One(EnlistedAt(label)) - One(EnlistedAt(pc[t])))
         + (HOLDER + WAITER) * (One(OwnsAt(label, w)) - One(OwnsAt(pc[t], holdW[t])))
    /\ readers' = readers + (One(t \in S) - One(t \in holdS))
         + WRITER * (One(AnnouncedAt(label, w)) - One(AnnouncedAt(pc[t], holdW[t])))
    /\ OwnsAt(label, w) => OwnsAt(pc[t], holdW[t]) \/ Owners = {}
    /\ t \in S => t \in holdS \/ (w # "X" /\ Announcers \ {t} = {})
    /\ w = "X" => label = "idle" /\ S = {}
    /\ label \in MutexPC \cup {"x_try", "m_unlock"} => w = "none"
    /\ label \in SharedPC \ {"r_dequeue", "r_granted"} => t \notin S

\* What a thread's position says of what it holds, and of who else is announced.
LEMMA Standing ==
  ASSUME IInv, NEW t \in Thread
  PROVE  /\ holdW[t] \in {"none", "U", "X"}
         /\ holdW[t] = "X" => pc[t] = "idle" /\ holdS = {}
         /\ pc[t] \in MutexPC \cup {"x_try", "m_unlock"} => holdW[t] = "none"
         /\ pc[t] \in SharedPC \ {"r_dequeue", "r_granted"} => t \notin holdS
         /\ OwnsAt(pc[t], holdW[t]) => Announcers \ {t} = {}
         /\ OwnsAt(pc[t], holdW[t]) => Owners # {}
         /\ AnnouncedAt(pc[t], holdW[t]) => t \in Announcers
<1>1. /\ OwnsAt(pc[t], holdW[t]) <=> OwnsWriter(t)
      /\ AnnouncedAt(pc[t], holdW[t]) <=> Announced(t)
  BY Zenon DEF OwnsAt, OwnsWriter, AnnouncedAt, Announced
<1>2. \A u \in Thread : Announced(u) => OwnsWriter(u)
  BY DEF Announced, OwnsWriter, UpgradePC
<1>3. OwnsWriter(t) => Announcers \ {t} = {} /\ Owners # {}
  BY <1>2, Zenon DEF IInv, Discipline, Announcers, Owners
<1>4. Announced(t) => t \in Announcers
  BY Zenon DEF Announcers
<1>5. /\ holdW[t] \in {"none", "U", "X"}
      /\ holdW[t] = "X" => pc[t] = "idle" /\ holdS = {}
      /\ pc[t] \in MutexPC \cup {"x_try", "m_unlock"} => holdW[t] = "none"
      /\ pc[t] \in SharedPC \ {"r_dequeue", "r_granted"} => t \notin holdS
  BY Zenon DEF IInv, Control, Discipline
<1> QED
  BY <1>1, <1>3, <1>4, <1>5, Zenon

\* A step whose changes of the words match what t counts for is good.
LEMMA PaidStep ==
  ASSUME IInv, NEW t \in Thread, NEW label \in PCs, NEW w \in {"none", "U", "X"}, NEW S,
         Becomes(t, label, w, S), Pays(t, label, w, S)
  PROVE  Good(t)
<1>1. /\ Control' /\ Others(t)
      /\ pc'[t] = label /\ holdW'[t] = w /\ holdS' = S
      /\ \A u \in Thread \ {t} : holdW'[u] = holdW[u]
  BY DEF Becomes, Moved, IInv, Control, Others
<1>2. /\ Enlisted(t) <=> EnlistedAt(pc[t])
      /\ OwnsWriter(t) <=> OwnsAt(pc[t], holdW[t])
      /\ Announced(t) <=> AnnouncedAt(pc[t], holdW[t])
  BY Zenon DEF Enlisted, OwnsWriter, Announced, EnlistedAt, OwnsAt, AnnouncedAt
<1>3. /\ Enlisted(t)' <=> EnlistedAt(label)
      /\ OwnsWriter(t)' <=> OwnsAt(label, w)
      /\ Announced(t)' <=> AnnouncedAt(label, w)
  BY <1>1, Zenon DEF Enlisted, OwnsWriter, Announced, EnlistedAt, OwnsAt, AnnouncedAt
<1>4. Local(t)
  BY <1>1, <1>2, <1>3 DEF Local, Pays, One
<1>5. Proper(t)
  BY <1>1, <1>2, <1>3, Zenon DEF Proper, Pays, Announcers, Announced
<1> QED
  BY <1>1, <1>4, <1>5 DEF Good

\* A try that does not leave the caller's code moves nobody.
LEMMA StayMoves == ASSUME IInv, NEW t \in Thread, pc' = pc PROVE Moved(t, pc[t])
  BY DEF Moved, IInv, Control

\* The labels that a counting step leads to.
LEMMA Labels ==
  \A p \in {"idle", "m_loop", "m_enqueue", "m_reload", "m_sleep", "m_unlock", "m_wake",
            "w_announce", "w_wait", "r_enqueue", "r_loop", "r_dequeue", "r_granted",
            "r_wake_all", "r_reload", "r_wake", "x_try"} : p \in PCs
  BY DEF PCs, MutexPC, UpgradePC, SharedPC, ReleasePC

\* wait_and_lock(): WAITER is added once per waiter.
LEMMA MutexEnqueueGood ==
  ASSUME IInv, NEW t \in Thread, MutexEnqueue(t)
  PROVE  Good(t)
<1>1. /\ pc[t] = "m_enqueue" /\ Goto(t, "m_loop")
      /\ writer' = writer + 2 /\ UNCHANGED <<readers, want, holdS, holdW>>
  BY DEF MutexEnqueue, WAITER, hold
<1>2. Becomes(t, "m_loop", holdW[t], holdS)
  BY <1>1, GotoMoves, StayMoves, Labels, Zenon DEF Becomes, IInv, Control, Idle
<1>3. Pays(t, "m_loop", holdW[t], holdS)
  BY <1>1, Reading, Standing, SsuxConstants DEF Pays, One, HOLDER, WAITER, EnlistedAt,
     OwnsAt, AnnouncedAt, MutexPC, UpgradePC, SharedPC
<1> QED
  BY <1>2, <1>3, PaidStep, Labels DEF IInv, Control

\* rd_lock_nospin(): so does a reader that waits.
LEMMA ReaderEnqueueGood ==
  ASSUME IInv, NEW t \in Thread, ReaderEnqueue(t)
  PROVE  Good(t)
<1>1. /\ pc[t] = "r_enqueue" /\ Goto(t, "r_loop")
      /\ writer' = writer + 2 /\ UNCHANGED <<readers, want, holdS, holdW>>
  BY DEF ReaderEnqueue, WAITER, hold
<1>2. Becomes(t, "r_loop", holdW[t], holdS)
  BY <1>1, GotoMoves, StayMoves, Labels DEF Becomes, IInv, Control, Idle
<1>3. Pays(t, "r_loop", holdW[t], holdS)
  BY <1>1, Reading, Standing, SsuxConstants DEF Pays, One, HOLDER, WAITER, EnlistedAt,
     OwnsAt, AnnouncedAt, MutexPC, UpgradePC, SharedPC
<1> QED
  BY <1>2, <1>3, PaidStep, Labels DEF IInv, Control

\* wr_unlock(): HOLDER + WAITER is subtracted by the owner.
LEMMA MutexUnlockGood ==
  ASSUME IInv, NEW t \in Thread, MutexUnlock(t)
  PROVE  Good(t)
<1>1. CASE writer # 3
  <2>1. /\ pc[t] = "m_unlock" /\ Goto(t, "m_wake")
        /\ writer' = writer - 3 /\ UNCHANGED <<readers, want, holdS, holdW>>
    BY <1>1 DEF MutexUnlock, WAITER, HOLDER, hold
  <2>2. Becomes(t, "m_wake", holdW[t], holdS)
    BY <2>1, GotoMoves, StayMoves, Labels DEF Becomes, IInv, Control, Idle
  <2>3. Pays(t, "m_wake", holdW[t], holdS)
    BY <2>1, Reading, Standing, SsuxConstants DEF Pays, One, HOLDER, WAITER, EnlistedAt,
       OwnsAt, AnnouncedAt, MutexPC, UpgradePC, SharedPC
  <2> QED
    BY <2>2, <2>3, PaidStep, Labels DEF IInv, Control
<1>2. CASE writer = 3
  <2>1. /\ pc[t] = "m_unlock" /\ Goto(t, "idle")
        /\ writer' = writer - 3 /\ UNCHANGED <<readers, want, holdS, holdW>>
    BY <1>2 DEF MutexUnlock, WAITER, HOLDER, hold
  <2>2. Becomes(t, "idle", holdW[t], holdS)
    BY <2>1, GotoMoves, StayMoves, Labels DEF Becomes, IInv, Control, Idle
  <2>3. Pays(t, "idle", holdW[t], holdS)
    BY <2>1, Reading, Standing, SsuxConstants DEF Pays, One, HOLDER, WAITER, EnlistedAt,
       OwnsAt, AnnouncedAt, MutexPC, UpgradePC, SharedPC
  <2> QED
    BY <2>2, <2>3, PaidStep, Labels DEF IInv, Control
<1> QED
  BY <1>1, <1>2

\* A reader that got in takes its WAITER back.
LEMMA ReaderDequeueGood ==
  ASSUME IInv, NEW t \in Thread, ReaderDequeue(t)
  PROVE  Good(t)
<1>1. CASE writer > 2
  <2>1. /\ pc[t] = "r_dequeue" /\ Goto(t, "r_granted")
        /\ writer' = writer - 2 /\ UNCHANGED <<readers, want, holdS, holdW>>
    BY <1>1 DEF ReaderDequeue, WAITER, hold
  <2>2. Becomes(t, "r_granted", holdW[t], holdS)
    BY <2>1, GotoMoves, StayMoves, Labels DEF Becomes, IInv, Control, Idle
  <2>3. Pays(t, "r_granted", holdW[t], holdS)
    BY <2>1, Reading, Standing, SsuxConstants DEF Pays, One, HOLDER, WAITER, EnlistedAt,
       OwnsAt, AnnouncedAt, MutexPC, UpgradePC, SharedPC
  <2> QED
    BY <2>2, <2>3, PaidStep, Labels DEF IInv, Control
<1>2. CASE ~(writer > 2)
  <2>1. /\ pc[t] = "r_dequeue" /\ Goto(t, "idle")
        /\ writer' = writer - 2 /\ UNCHANGED <<readers, want, holdS, holdW>>
    BY <1>2 DEF ReaderDequeue, WAITER, hold
  <2>2. Becomes(t, "idle", holdW[t], holdS)
    BY <2>1, GotoMoves, StayMoves, Labels DEF Becomes, IInv, Control, Idle
  <2>3. Pays(t, "idle", holdW[t], holdS)
    BY <2>1, Reading, Standing, SsuxConstants DEF Pays, One, HOLDER, WAITER, EnlistedAt,
       OwnsAt, AnnouncedAt, MutexPC, UpgradePC, SharedPC
  <2> QED
    BY <2>2, <2>3, PaidStep, Labels DEF IInv, Control
<1> QED
  BY <1>1, <1>2

\* rd_lock_try(): one more reader, and no writer is announced.
LEMMA RdLockTryGood ==
  ASSUME IInv, NEW t \in Thread, RdLockTry(t)
  PROVE  Good(t)
<1>1. /\ pc[t] = "idle" /\ t \notin holdS /\ holdW[t] # "X" /\ pc' = pc
      /\ readers < WRITER /\ readers' = readers + 1 /\ holdS' = holdS \cup {t}
      /\ UNCHANGED <<writer, want, holdW>>
  BY DEF RdLockTry, GrantS, Idle
<1>2. Becomes(t, "idle", holdW[t], holdS \cup {t})
  BY <1>1, GotoMoves, StayMoves, Labels DEF Becomes, IInv, Control, Idle
<1>3. Pays(t, "idle", holdW[t], holdS \cup {t})
  BY <1>1, Reading, Standing, SsuxConstants DEF Pays, One, HOLDER, WAITER, EnlistedAt,
     OwnsAt, AnnouncedAt, MutexPC, UpgradePC, SharedPC
<1> QED
  BY <1>2, <1>3, PaidStep, Labels DEF IInv, Control

\* u_lock_try(): a free word has no owner.
LEMMA ULockTryGood ==
  ASSUME IInv, NEW t \in Thread, ULockTry(t)
  PROVE  Good(t)
<1>1. /\ pc[t] = "idle" /\ holdW[t] = "none" /\ pc' = pc /\ writer = 0 /\ writer' = 3
      /\ holdW' = [holdW EXCEPT ![t] = "U"] /\ UNCHANGED <<readers, want, holdS>>
  BY DEF Idle, ULockTry, HOLDER, WAITER
<1>2. Becomes(t, "idle", "U", holdS)
  BY <1>1, GotoMoves, StayMoves, Labels DEF Becomes, IInv, Control, Idle
<1>3. Pays(t, "idle", "U", holdS)
  BY <1>1, Reading, Standing, SsuxConstants DEF Pays, One, HOLDER, WAITER, EnlistedAt,
     OwnsAt, AnnouncedAt, MutexPC, UpgradePC, SharedPC
<1> QED
  BY <1>2, <1>3, PaidStep, Labels DEF IInv, Control

\* wr_lock_try(), its first half: likewise.
LEMMA WrLockTryGood ==
  ASSUME IInv, NEW t \in Thread, WrLockTry(t)
  PROVE  Good(t)
<1>1. /\ pc[t] = "idle" /\ holdW[t] = "none" /\ Goto(t, "x_try") /\ writer = 0 /\ writer' = 3
      /\ UNCHANGED <<readers, want, holdS, holdW>>
  BY DEF Idle, WrLockTry, Nothing, HOLDER, WAITER, hold
<1>2. Becomes(t, "x_try", holdW[t], holdS)
  BY <1>1, GotoMoves, StayMoves, Labels DEF Becomes, IInv, Control, Idle
<1>3. Pays(t, "x_try", holdW[t], holdS)
  BY <1>1, Reading, Standing, SsuxConstants DEF Pays, One, HOLDER, WAITER, EnlistedAt,
     OwnsAt, AnnouncedAt, MutexPC, UpgradePC, SharedPC
<1> QED
  BY <1>2, <1>3, PaidStep, Labels DEF IInv, Control

\* wr_u_downgrade(): X stood alone, so the word of the readers was WRITER.
LEMMA WrUDowngradeGood ==
  ASSUME IInv, NEW t \in Thread, WrUDowngrade(t)
  PROVE  Good(t)
<1>1. /\ pc[t] = "idle" /\ holdW[t] = "X" /\ pc' = pc /\ readers' = 0
      /\ holdW' = [holdW EXCEPT ![t] = "U"] /\ UNCHANGED <<writer, want, holdS>>
  BY DEF Idle, WrUDowngrade
<1>2. Becomes(t, "idle", "U", holdS)
  BY <1>1, GotoMoves, StayMoves, Labels, Zenon DEF Becomes, IInv, Control, Idle
<1>3. Pays(t, "idle", "U", holdS)
  BY <1>1, Reading, Standing, SsuxConstants DEF Pays, One, HOLDER, WAITER, EnlistedAt,
     OwnsAt, AnnouncedAt, MutexPC, UpgradePC, SharedPC
<1> QED
  BY <1>2, <1>3, PaidStep, Labels DEF IInv, Control

\* u_rd_downgrade(): U kept X out, so the reader may be added.
LEMMA URdDowngradeGood ==
  ASSUME IInv, NEW t \in Thread, URdDowngrade(t)
  PROVE  Good(t)
<1>1. /\ pc[t] = "idle" /\ holdW[t] = "U" /\ t \notin holdS /\ Goto(t, "m_unlock")
      /\ readers' = readers + 1 /\ holdS' = holdS \cup {t}
      /\ holdW' = [holdW EXCEPT ![t] = "none"] /\ UNCHANGED <<writer, want>>
  BY Zenon DEF Idle, URdDowngrade, GrantS
<1>2. Becomes(t, "m_unlock", "none", holdS \cup {t})
  BY <1>1, GotoMoves, StayMoves, Labels, Zenon DEF Becomes, IInv, Control, Idle
<1>3. Pays(t, "m_unlock", "none", holdS \cup {t})
  BY <1>1, Reading, Standing, SsuxConstants DEF Pays, One, HOLDER, WAITER, EnlistedAt,
     OwnsAt, AnnouncedAt, MutexPC, UpgradePC, SharedPC
<1> QED
  BY <1>2, <1>3, PaidStep, Labels, Zenon DEF IInv, Control

\* rd_unlock(): one reader less.
LEMMA RdUnlockGood ==
  ASSUME IInv, NEW t \in Thread, RdUnlock(t)
  PROVE  Good(t)
<1>1. CASE readers = WRITER + 1
  <2>1. /\ pc[t] = "idle" /\ t \in holdS /\ Goto(t, "r_wake")
        /\ readers' = readers - 1 /\ holdS' = holdS \ {t} /\ UNCHANGED <<writer, want, holdW>>
    BY <1>1 DEF Idle, RdUnlock
  <2>2. Becomes(t, "r_wake", holdW[t], holdS \ {t})
    BY <2>1, GotoMoves, StayMoves, Labels DEF Becomes, IInv, Control, Idle
  <2>3. Pays(t, "r_wake", holdW[t], holdS \ {t})
    BY <2>1, Reading, Standing, SsuxConstants DEF Pays, One, HOLDER, WAITER, EnlistedAt,
       OwnsAt, AnnouncedAt, MutexPC, UpgradePC, SharedPC
  <2> QED
    BY <2>2, <2>3, PaidStep, Labels DEF IInv, Control
<1>2. CASE readers # WRITER + 1
  <2>1. /\ pc[t] = "idle" /\ t \in holdS /\ Goto(t, "idle")
        /\ readers' = readers - 1 /\ holdS' = holdS \ {t} /\ UNCHANGED <<writer, want, holdW>>
    BY <1>2 DEF Idle, RdUnlock
  <2>2. Becomes(t, "idle", holdW[t], holdS \ {t})
    BY <2>1, GotoMoves, StayMoves, Labels DEF Becomes, IInv, Control, Idle
  <2>3. Pays(t, "idle", holdW[t], holdS \ {t})
    BY <2>1, Reading, Standing, SsuxConstants DEF Pays, One, HOLDER, WAITER, EnlistedAt,
       OwnsAt, AnnouncedAt, MutexPC, UpgradePC, SharedPC
  <2> QED
    BY <2>2, <2>3, PaidStep, Labels DEF IInv, Control
<1> QED
  BY <1>1, <1>2

\* u_unlock(): the mutex is kept until m_unlock.
LEMMA UUnlockGood ==
  ASSUME IInv, NEW t \in Thread, UUnlock(t)
  PROVE  Good(t)
<1>1. /\ pc[t] = "idle" /\ holdW[t] = "U" /\ Goto(t, "m_unlock")
      /\ holdW' = [holdW EXCEPT ![t] = "none"] /\ UNCHANGED <<writer, readers, want, holdS>>
  BY DEF Idle, UUnlock, words
<1>2. Becomes(t, "m_unlock", "none", holdS)
  BY <1>1, GotoMoves, StayMoves, Labels DEF Becomes, IInv, Control, Idle
<1>3. Pays(t, "m_unlock", "none", holdS)
  BY <1>1, Reading, Standing, SsuxConstants DEF Pays, One, HOLDER, WAITER, EnlistedAt,
     OwnsAt, AnnouncedAt, MutexPC, UpgradePC, SharedPC
<1> QED
  BY <1>2, <1>3, PaidStep, Labels DEF IInv, Control

\* wr_unlock(): as wr_u_downgrade().
LEMMA WrUnlockGood ==
  ASSUME IInv, NEW t \in Thread, WrUnlock(t)
  PROVE  Good(t)
<1>1. /\ pc[t] = "idle" /\ holdW[t] = "X" /\ Goto(t, "m_unlock") /\ readers' = 0
      /\ holdW' = [holdW EXCEPT ![t] = "none"] /\ UNCHANGED <<writer, want, holdS>>
  BY DEF Idle, WrUnlock
<1>2. Becomes(t, "m_unlock", "none", holdS)
  BY <1>1, GotoMoves, StayMoves, Labels DEF Becomes, IInv, Control, Idle
<1>3. Pays(t, "m_unlock", "none", holdS)
  BY <1>1, Reading, Standing, SsuxConstants DEF Pays, One, HOLDER, WAITER, EnlistedAt,
     OwnsAt, AnnouncedAt, MutexPC, UpgradePC, SharedPC
<1> QED
  BY <1>2, <1>3, PaidStep, Labels DEF IInv, Control

\* wr_lock() of the mutex: a free word has no owner.
LEMMA MutexTryGood ==
  ASSUME IInv, NEW t \in Thread, MutexTry(t)
  PROVE  Good(t)
<1>1. CASE writer # 0
  BY <1>1, SameCountOf, QuietGoto, Labels, Reading, SsuxConstants, Zenon
     DEF MutexTry, IInv, Control, words, hold
<1>2. CASE writer = 0 /\ want[t] = "U"
  <2>1. /\ pc[t] = "m_try" /\ Goto(t, "idle") /\ writer = 0 /\ writer' = 3
        /\ want' = [want EXCEPT ![t] = "none"] /\ holdW' = [holdW EXCEPT ![t] = "U"]
        /\ UNCHANGED <<readers, holdS>>
    BY <1>2 DEF MutexTry, MutexAcquired, HOLDER, WAITER
  <2>2. Becomes(t, "idle", "U", holdS)
    BY <2>1, GotoMoves, StayMoves, Labels DEF Becomes, IInv, Control, Idle
  <2>3. Pays(t, "idle", "U", holdS)
    BY <2>1, Reading, Standing, SsuxConstants DEF Pays, One, HOLDER, WAITER, EnlistedAt,
       OwnsAt, AnnouncedAt, MutexPC, UpgradePC, SharedPC
  <2> QED
    BY <2>2, <2>3, PaidStep, Labels DEF IInv, Control
<1>3. CASE writer = 0 /\ want[t] # "U"
  <2>1. /\ pc[t] = "m_try" /\ Goto(t, "w_announce") /\ writer = 0 /\ writer' = 3
        /\ want' = want /\ holdW' = holdW
        /\ UNCHANGED <<readers, holdS>>
    BY <1>3 DEF MutexTry, MutexAcquired, HOLDER, WAITER
  <2>2. Becomes(t, "w_announce", holdW[t], holdS)
    BY <2>1, GotoMoves, StayMoves, Labels, Zenon DEF Becomes, IInv, Control, Idle
  <2>3. Pays(t, "w_announce", holdW[t], holdS)
    BY <2>1, Reading, Standing, SsuxConstants DEF Pays, One, HOLDER, WAITER, EnlistedAt,
       OwnsAt, AnnouncedAt, MutexPC, UpgradePC, SharedPC
  <2> QED
    BY <2>2, <2>3, PaidStep, Labels DEF IInv, Control
<1> QED
  BY <1>1, <1>2, <1>3

\* fetch_or(HOLDER): the waiter's WAITER becomes the owner's.
LEMMA MutexLoopGood ==
  ASSUME IInv, NEW t \in Thread, MutexLoop(t)
  PROVE  Good(t)
<1>1. CASE IsHeld(lk[t]) \/ IsHeld(writer)
  BY <1>1, SameCountOf, QuietGoto, Labels, Reading, SsuxConstants, ZenonT(40)
     DEF MutexLoop, IInv, Control, words, hold
<1>2. CASE ~IsHeld(lk[t]) /\ ~IsHeld(writer) /\ want[t] = "U"
  <2>1. /\ pc[t] = "m_loop" /\ Goto(t, "idle") /\ ~IsHeld(writer) /\ writer' = writer + 1
        /\ want' = [want EXCEPT ![t] = "none"] /\ holdW' = [holdW EXCEPT ![t] = "U"]
        /\ UNCHANGED <<readers, holdS>>
    BY <1>2 DEF MutexLoop, MutexAcquired, HOLDER, WAITER
  <2>2. Becomes(t, "idle", "U", holdS)
    BY <2>1, GotoMoves, StayMoves, Labels DEF Becomes, IInv, Control, Idle
  <2>3. Pays(t, "idle", "U", holdS)
    BY <2>1, Reading, Standing, SsuxConstants DEF Pays, One, HOLDER, WAITER, EnlistedAt,
       OwnsAt, AnnouncedAt, MutexPC, UpgradePC, SharedPC
  <2> QED
    BY <2>2, <2>3, PaidStep, Labels DEF IInv, Control
<1>3. CASE ~IsHeld(lk[t]) /\ ~IsHeld(writer) /\ want[t] # "U"
  <2>1. /\ pc[t] = "m_loop" /\ Goto(t, "w_announce") /\ ~IsHeld(writer) /\ writer' = writer + 1
        /\ want' = want /\ holdW' = holdW
        /\ UNCHANGED <<readers, holdS>>
    BY <1>3, Zenon DEF MutexLoop, MutexAcquired, HOLDER, WAITER
  <2>2. Becomes(t, "w_announce", holdW[t], holdS)
    BY <2>1, GotoMoves, StayMoves, Labels DEF Becomes, IInv, Control, Idle
  <2>3. Pays(t, "w_announce", holdW[t], holdS)
    BY <2>1, Reading, Standing, SsuxConstants DEF Pays, One, HOLDER, WAITER, EnlistedAt,
       OwnsAt, AnnouncedAt, MutexPC, UpgradePC, SharedPC
  <2> QED
    BY <2>2, <2>3, PaidStep, Labels DEF IInv, Control
<1> QED
  BY <1>1, <1>2, <1>3, Zenon

\* wr_lock() adds WRITER once, as the owner of the mutex.
LEMMA AnnounceGood ==
  ASSUME IInv, NEW t \in Thread, Announce(t)
  PROVE  Good(t)
<1>1. CASE readers = 0
  <2>1. /\ pc[t] = "w_announce" /\ Goto(t, "idle") /\ readers = 0 /\ readers' = readers + WRITER
        /\ want' = [want EXCEPT ![t] = "none"] /\ holdW' = [holdW EXCEPT ![t] = "X"]
        /\ UNCHANGED <<writer, holdS>>
    BY <1>1 DEF Announce, GrantX
  <2>2. Becomes(t, "idle", "X", holdS)
    BY <2>1, GotoMoves, StayMoves, Labels, Zenon DEF Becomes, IInv, Control, Idle
  <2>3. Pays(t, "idle", "X", holdS)
    BY <2>1, Reading, Standing, SsuxConstants DEF Pays, One, HOLDER, WAITER, EnlistedAt,
       OwnsAt, AnnouncedAt, MutexPC, UpgradePC, SharedPC
  <2> QED
    BY <2>2, <2>3, PaidStep, Labels, Zenon DEF IInv, Control
<1>2. CASE readers # 0
  <2>1. /\ pc[t] = "w_announce" /\ Goto(t, "w_wait") /\ readers' = readers + WRITER
        /\ UNCHANGED <<writer, holdS, want, holdW>>
    BY <1>2 DEF Announce
  <2>2. Becomes(t, "w_wait", holdW[t], holdS)
    BY <2>1, GotoMoves, StayMoves, Labels DEF Becomes, IInv, Control, Idle
  <2>3. Pays(t, "w_wait", holdW[t], holdS)
    BY <2>1, Reading, Standing, SsuxConstants DEF Pays, One, HOLDER, WAITER, EnlistedAt,
       OwnsAt, AnnouncedAt, MutexPC, UpgradePC, SharedPC
  <2> QED
    BY <2>2, <2>3, PaidStep, Labels DEF IInv, Control
<1> QED
  BY <1>1, <1>2

\* wr_wait(): X is granted when only WRITER is left.
LEMMA WriterReloadGood ==
  ASSUME IInv, NEW t \in Thread, WriterReload(t)
  PROVE  Good(t)
<1>1. CASE readers # WRITER
  BY <1>1, SameCountOf, QuietGoto, Labels, Reading, SsuxConstants, Zenon
     DEF WriterReload, IInv, Control, words, hold
<1>2. CASE readers = WRITER
  <2>1. /\ pc[t] = "w_reload" /\ Goto(t, "idle") /\ readers = WRITER
        /\ want' = [want EXCEPT ![t] = "none"] /\ holdW' = [holdW EXCEPT ![t] = "X"]
        /\ UNCHANGED <<writer, readers, holdS>>
    BY <1>2, Zenon DEF WriterReload, GrantX, words
  <2>2. Becomes(t, "idle", "X", holdS)
    BY <2>1, GotoMoves, StayMoves, Labels DEF Becomes, IInv, Control, Idle
  <2>3. Pays(t, "idle", "X", holdS)
    BY <2>1, Reading, Standing, SsuxConstants DEF Pays, One, HOLDER, WAITER, EnlistedAt,
       OwnsAt, AnnouncedAt, MutexPC, UpgradePC, SharedPC
  <2> QED
    BY <2>2, <2>3, PaidStep, Labels DEF IInv, Control
<1> QED
  BY <1>1, <1>2

\* rd_lock_try() at the start of rd_lock().
LEMMA ReaderFirstTryGood ==
  ASSUME IInv, NEW t \in Thread, ReaderFirstTry(t)
  PROVE  Good(t)
<1>1. CASE readers >= WRITER
  BY <1>1, SameCountOf, QuietGoto, Labels, Reading, SsuxConstants
     DEF ReaderFirstTry, IInv, Control, words, hold
<1>2. CASE ~(readers >= WRITER)
  <2>1. /\ pc[t] = "r_first" /\ Goto(t, "idle") /\ readers < WRITER
        /\ readers' = readers + 1 /\ holdS' = holdS \cup {t} /\ UNCHANGED <<writer, want, holdW>>
    BY <1>2, Zenon DEF ReaderFirstTry, GrantS
  <2>2. Becomes(t, "idle", holdW[t], holdS \cup {t})
    BY <2>1, GotoMoves, StayMoves, Labels, Zenon DEF Becomes, IInv, Control, Idle
  <2>3. Pays(t, "idle", holdW[t], holdS \cup {t})
    BY <2>1, Reading, Standing, SsuxConstants DEF Pays, One, HOLDER, WAITER, EnlistedAt,
       OwnsAt, AnnouncedAt, MutexPC, UpgradePC, SharedPC
  <2> QED
    BY <2>2, <2>3, PaidStep, Labels DEF IInv, Control
<1> QED
  BY <1>1, <1>2

\* rd_lock_try_low() of a reader that is enlisted.
LEMMA ReaderTryGood ==
  ASSUME IInv, NEW t \in Thread, ReaderTry(t)
  PROVE  Good(t)
<1>1. CASE readers >= WRITER
  BY <1>1, SameCountOf, QuietGoto, Labels, Reading, SsuxConstants
     DEF ReaderTry, IInv, Control, words, hold
<1>2. CASE ~(readers >= WRITER)
  <2>1. /\ pc[t] = "r_try" /\ Goto(t, "r_dequeue") /\ readers < WRITER
        /\ readers' = readers + 1 /\ holdS' = holdS \cup {t} /\ UNCHANGED <<writer, want, holdW>>
    BY <1>2, Zenon DEF ReaderTry, GrantS
  <2>2. Becomes(t, "r_dequeue", holdW[t], holdS \cup {t})
    BY <2>1, GotoMoves, StayMoves, Labels DEF Becomes, IInv, Control, Idle
  <2>3. Pays(t, "r_dequeue", holdW[t], holdS \cup {t})
    BY <2>1, Reading, Standing, SsuxConstants DEF Pays, One, HOLDER, WAITER, EnlistedAt,
       OwnsAt, AnnouncedAt, MutexPC, UpgradePC, SharedPC
  <2> QED
    BY <2>2, <2>3, PaidStep, Labels DEF IInv, Control
<1> QED
  BY <1>1, <1>2

\* wr_lock_try(), its second half: no reader, or the mutex is released.
LEMMA WrLockTryReadersGood ==
  ASSUME IInv, NEW t \in Thread, WrLockTryReaders(t)
  PROVE  Good(t)
<1>1. CASE readers # 0
  BY <1>1, SameCountOf, QuietGoto, Labels, Reading, SsuxConstants, Zenon
     DEF WrLockTryReaders, IInv, Control, words, hold
<1>2. CASE readers = 0
  <2>1. /\ pc[t] = "x_try" /\ Goto(t, "idle") /\ readers = 0 /\ readers' = WRITER
        /\ holdW' = [holdW EXCEPT ![t] = "X"] /\ UNCHANGED <<writer, want, holdS>>
    BY <1>2, Zenon DEF WrLockTryReaders
  <2>2. Becomes(t, "idle", "X", holdS)
    BY <2>1, GotoMoves, StayMoves, Labels DEF Becomes, IInv, Control, Idle
  <2>3. Pays(t, "idle", "X", holdS)
    BY <2>1, Reading, Standing, SsuxConstants DEF Pays, One, HOLDER, WAITER, EnlistedAt,
       OwnsAt, AnnouncedAt, MutexPC, UpgradePC, SharedPC
  <2> QED
    BY <2>2, <2>3, PaidStep, Labels DEF IInv, Control
<1> QED
  BY <1>1, <1>2

----------------------------------------------------------------------------
(* The invariant *)

\* Initially nothing is held and nothing is counted.
LEMMA InitIInv == Init => IInv
<1> SUFFICES ASSUME Init PROVE IInv
  OBVIOUS
<1>1. Control
  BY DEF Init, Control, PCs
<1>2. \A t \in Thread : ~OwnsWriter(t) /\ ~Enlisted(t) /\ ~Announced(t)
  BY DEF Init, OwnsWriter, Enlisted, Announced, UpgradePC, SharedPC
<1>3. Discipline
  BY <1>2 DEF Discipline, Init, MutexPC, SharedPC
<1>4. WordsCount
  <2>1. /\ {t \in Thread : OwnsWriter(t)} = {} /\ {t \in Thread : Enlisted(t)} = {}
        /\ {t \in Thread : Announced(t)} = {} /\ holdS = {}
    BY <1>2 DEF Init
  <2> QED
    BY <2>1, FS_EmptySet, SsuxConstants DEF WordsCount, Init, HOLDER, WAITER
<1> QED
  BY <1>1, <1>3, <1>4 DEF IInv

\* What a thread may do at any time.
Acts(t) == Acquire(t) \/ Convert(t) \/ Release(t) \/ Step(t) \/ SpuriousWakeup(t)

\* Every step of every call is good.
LEMMA ActsGood ==
  ASSUME IInv, NEW t \in Thread, Acts(t)
  PROVE  Good(t)
<1>2. CASE Acquire(t)
  BY <1>2, QuietSteps, RdLockTryGood, ULockTryGood, WrLockTryGood DEF Acquire
<1>3. CASE Convert(t)
  BY <1>3, QuietSteps, WrUDowngradeGood, URdDowngradeGood DEF Convert
<1>4. CASE Release(t)
  BY <1>4, RdUnlockGood, UUnlockGood, WrUnlockGood DEF Release
<1>5. CASE Step(t)
  BY <1>5, QuietSteps, MutexTryGood, MutexEnqueueGood, MutexLoopGood, MutexUnlockGood,
     AnnounceGood, WriterReloadGood, ReaderFirstTryGood, ReaderEnqueueGood, ReaderTryGood,
     ReaderDequeueGood, WrLockTryReadersGood DEF Step
<1>6. CASE SpuriousWakeup(t)
  BY <1>6, QuietSteps
<1> QED
  BY <1>2, <1>3, <1>4, <1>5, <1>6 DEF Acts

\* The invariant is inductive.
LEMMA NextIInv == IInv /\ [Next]_vars => IInv'
<1> SUFFICES ASSUME IInv, [Next]_vars PROVE IInv'
  OBVIOUS
<1>1. CASE Next
  <2>1. PICK t \in Thread : Acts(t)
    BY <1>1 DEF Next, Acts
  <2> QED
    BY <2>1, ActsGood, CountStep, DisciplineStep, Zenon DEF Good, Local, IInv
<1>2. CASE UNCHANGED vars
  BY <1>2 DEF vars, words, hold, IInv, Control, Discipline, WordsCount, OwnsWriter, Enlisted,
     Announced
<1> QED
  BY <1>1, <1>2

\* It holds in every state of the latch.
LEMMA Invariance == Spec => []IInv
  BY InitIInv, NextIInv, PTL DEF Spec

\* The word of the mutex counts its waiters and its owner, and the word of the
\* readers the S holders and the announced writer, in every state and for every
\* number of threads (srw_lock.h, the comment on srw_mutex_impl::lock).
THEOREM CountsAreExact == Spec => []WordsCount
<1>1. IInv => WordsCount
  BY DEF IInv
<1> QED
  BY <1>1, Invariance, PTL

\* X excludes every other holder of ssux_lock_impl and U excludes U and X.
THEOREM LatchExcludes == Spec => []Exclusion
<1>1. IInv => Exclusion
  BY DEF IInv, Discipline, Exclusion, OwnsWriter
<1> QED
  BY <1>1, Invariance, PTL

----------------------------------------------------------------------------
(* Both words and every copy of them stay within 32 bits. *)

Ranges == writer \in 0 .. 2 * WRITER - 1 /\ readers \in 0 .. 2 * WRITER - 1
Copies == lk \in [Thread -> 0 .. 2 * WRITER - 1]

\* A thread copies only a value that a word has before or after the step.
LEMMA CopyForms ==
  ASSUME NEW t \in Thread, Acts(t)
  PROVE  \/ lk' = lk \/ Load(t, 0) \/ Load(t, writer) \/ Load(t, writer')
         \/ Load(t, readers) \/ Load(t, readers')
  BY Zenon DEF Acts, Acquire, Convert, Release, Step, SpuriousWakeup, RdLock, RdLockTry, UOrWrLock,
     ULockTry, WrLockTry, UWrUpgrade, WrUDowngrade, URdDowngrade, RdUnlock, UUnlock, WrUnlock,
     MutexTry, MutexEnqueue, MutexLoop, MutexReload, MutexUnlock, MutexWake, Announce,
     WriterWait, WriterReload, GrantX, ReaderFirstTry, ReaderEnqueue, ReaderLoop, ReaderTry,
     ReaderWakeAll, ReaderReload, ReaderDequeue, ReaderGranted, WrLockTryReaders, ReadersWake

\* So its copy stays within the range of the words.
LEMMA CopyStep == Copies /\ Ranges /\ Ranges' /\ [Next]_vars => Copies'
<1> SUFFICES ASSUME Copies, Ranges, Ranges', [Next]_vars PROVE Copies'
  OBVIOUS
<1>1. CASE UNCHANGED vars
  BY <1>1 DEF vars, Copies
<1>2. CASE Next
  <2>1. PICK t \in Thread : Acts(t)
    BY <1>2 DEF Next, Acts
  <2>2. 0 \in 0 .. 2 * WRITER - 1
    BY SsuxConstants DEF Ranges
  <2> QED
    BY <2>1, <2>2, CopyForms DEF Load, Copies, Ranges
<1> QED
  BY <1>1, <1>2

\* No word and no copy of one ever leaves its range.
LEMMA RangesInvariant == Spec => []Ranges /\ []Copies
<1>1. IInv => Ranges
  BY Reading DEF Ranges
<1>2. Init => Copies
  <2>1. 0 \in 0 .. 2 * WRITER - 1
    BY FS_CardinalityType, SsuxConstants
  <2> QED
    BY <2>1 DEF Init, Copies
<1> QED
  BY <1>1, <1>2, Invariance, CopyStep, PTL DEF Spec

\* No word overflows and every variable keeps its type, for as many threads as
\* the count of a word has room for.
THEOREM TypeCorrect == Spec => []TypeOK
<1>1. IInv /\ Ranges /\ Copies => TypeOK
  BY Zenon DEF IInv, Control, Ranges, Copies, TypeOK
<1> QED
  BY <1>1, RangesInvariant, Invariance, PTL

----------------------------------------------------------------------------
(* The latch implements its contract. *)

\* Who owns the mutex holds U or X alone, and who has announced itself keeps
\* every reader out.
LEMMA Alone ==
  ASSUME IInv, NEW t \in Thread
  PROVE  /\ Owners = {} => \A u \in Thread : holdW[u] = "none"
         /\ OwnsWriter(t) => \A u \in Thread \ {t} : holdW[u] = "none"
         /\ Announcers = {} => \A u \in Thread : holdW[u] # "X"
  BY Zenon DEF IInv, Control, Discipline, Owners, Announcers, OwnsWriter, Announced

\* Where the code grants a latch, the contract allows it.
LEMMA GrantsRefine ==
  ASSUME IInv, NEW t \in Thread,
         \/ MutexTry(t) \/ MutexLoop(t) \/ Announce(t) \/ WriterReload(t)
         \/ ReaderFirstTry(t) \/ ReaderTry(t) \/ WrLockTryReaders(t)
         \/ RdLockTry(t) \/ ULockTry(t)
  PROVE  L!GrantS(t) \/ L!GrantU(t) \/ L!GrantX(t) \/ L!UpgradeU(t) \/ UNCHANGED hold
<1>0. readers \in Nat /\ WRITER \in Nat
  BY Reading, SsuxConstants
<1>1. CASE MutexTry(t)
  BY <1>1, Reading, Alone, Zenon DEF MutexTry, MutexAcquired, L!GrantU, hold
<1>2. CASE MutexLoop(t)
  BY <1>2, Reading, Alone, Zenon DEF MutexLoop, MutexAcquired, L!GrantU, hold
<1>3. CASE Announce(t)
  <2>1. CASE readers = 0
    <3>1. holdS = {} /\ holdW[t] # "X" /\ \A u \in Thread \ {t} : holdW[u] = "none"
      BY <1>3, <2>1, Reading, Alone DEF Announce, OwnsWriter, UpgradePC, IInv, Discipline
    <3> QED
      BY <1>3, <2>1, <3>1, ZenonT(40) DEF Announce, GrantX, L!GrantX, L!UpgradeU, IInv, Control
  <2> QED
    BY <1>3, <2>1 DEF Announce, hold
<1>4. CASE WriterReload(t)
  <2>1. CASE readers = WRITER
    <3>1. t \in Announcers
      BY <1>4 DEF WriterReload, Announcers, Announced, UpgradePC
    <3>2. holdS = {} /\ holdW[t] # "X" /\ \A u \in Thread \ {t} : holdW[u] = "none"
      BY <1>4, <2>1, <3>1, Reading, Alone DEF WriterReload, OwnsWriter, UpgradePC, IInv,
         Discipline
    <3> QED
      BY <1>4, <2>1, <3>2, ZenonT(40) DEF WriterReload, GrantX, L!GrantX, L!UpgradeU, IInv, Control
  <2> QED
    BY <1>4, <2>1, Zenon DEF WriterReload, hold
<1>5. CASE ReaderFirstTry(t)
  BY <1>0, <1>5, Reading, Alone DEF ReaderFirstTry, GrantS, L!GrantS, hold, IInv, Discipline,
     SharedPC
<1>6. CASE ReaderTry(t)
  BY <1>0, <1>6, Reading, Alone DEF ReaderTry, GrantS, L!GrantS, hold, IInv, Discipline,
     SharedPC
<1>7. CASE WrLockTryReaders(t)
  BY <1>7, Reading, Alone, Zenon DEF WrLockTryReaders, L!GrantX, hold, IInv, Discipline, OwnsWriter
<1>8. CASE RdLockTry(t)
  BY <1>8, Reading, Alone, Zenon DEF RdLockTry, GrantS, L!GrantS
<1>9. CASE ULockTry(t)
  BY <1>9, Reading, Alone, Zenon DEF ULockTry, L!GrantU
<1> QED
  BY <1>1, <1>2, <1>3, <1>4, <1>5, <1>6, <1>7, <1>8, <1>9, ZenonT(40)

\* Every step of the code is a step of the contract or changes nothing held.
LEMMA NextRefines == IInv /\ [Next]_vars => [L!Next]_(L!vars)
<1> SUFFICES ASSUME IInv, [Next]_vars PROVE [L!Next]_(L!vars)
  OBVIOUS
<1>1. CASE UNCHANGED vars
  BY <1>1 DEF vars, hold, L!vars
<1>2. CASE Next
  <2>1. PICK t \in Thread :
           Acquire(t) \/ Convert(t) \/ Release(t) \/ Step(t) \/ SpuriousWakeup(t)
    BY <1>2 DEF Next
  <2>2. CASE Acquire(t)
    BY <2>2, GrantsRefine, Zenon DEF Acquire, RdLock, UOrWrLock, WrLockTry, hold, L!vars, L!Next
  <2>3. CASE Convert(t)
    BY <2>3, Zenon DEF Convert, UWrUpgrade, WrUDowngrade, URdDowngrade, GrantS, hold, L!vars, L!Next,
       L!DowngradeX, L!DowngradeU
  <2>4. CASE Release(t)
    BY <2>4, Zenon DEF Release, RdUnlock, UUnlock, WrUnlock, L!vars, L!Next, L!ReleaseS, L!ReleaseW
  <2>5. CASE Step(t)
    BY <2>5, GrantsRefine, Zenon DEF Step, MutexEnqueue, MutexReload, MutexUnlock, MutexWake,
       WriterWait, ReaderEnqueue, ReaderLoop, ReaderWakeAll, ReaderReload, ReaderDequeue,
       ReaderGranted, ReadersWake, hold, L!vars, L!Next
  <2>6. CASE SpuriousWakeup(t)
    BY <2>6 DEF SpuriousWakeup, hold, L!vars
  <2> QED
    BY <2>1, <2>2, <2>3, <2>4, <2>5, <2>6, Zenon
<1> QED
  BY <1>1, <1>2

\* ssux_lock_impl implements the contract of a shared-update-exclusive latch:
\* what its callers hold changes only as Latch allows, for any number of threads.
THEOREM LatchImplemented == Spec => ImplementsLatch
<1>1. Init => L!Init
  BY DEF Init, L!Init
<1> QED
  BY <1>1, NextRefines, Invariance, PTL DEF Spec, ImplementsLatch, L!Spec

----------------------------------------------------------------------------
(* No wake-up is lost. *)

\* Who will look at the word of the mutex again, or wake who sleeps on it: its
\* owner, a thread that is about to call FUTEX_WAKE, a waiter that is awake.
Tends(u) ==
    \/ OwnsWriter(u)
    \/ pc[u] \in {"m_wake", "r_granted"}
    \/ Enlisted(u) /\ pc[u] \notin OnWriter

\* The strengthening of NoLostWakeup.  Not every running thread counts: one at
\* the start of a call may leave again without having woken anybody.
MutexTended ==
    (\E t \in Thread : pc[t] \in OnWriter) => \E u \in Thread : Tends(u)
ReadersTended ==
    (\E t \in Thread : pc[t] \in OnReaders) => holdS # {} \/ \E u \in Thread : pc[u] = "r_wake"
\* wr_wait() never waits for the readers to leave when there are none.
SawReaders == \A t \in Thread : pc[t] = "w_wait" => lk[t] # WRITER

WakeInv == MutexTended /\ ReadersTended /\ SawReaders

\* What the words tell about those who wait.
LEMMA WordsAndWaiters ==
  ASSUME IInv
  PROVE  /\ IsHeld(writer) => Owners # {}
         /\ \A t, u \in Waiters : t # u => writer > WAITER
         /\ Waiters # {} /\ Owners # {} => writer # HOLDER + WAITER
<1> DEFINE o == Cardinality(Owners)
           e == Cardinality(Waiters)
<1>1. Owners \in SUBSET Thread /\ Waiters \in SUBSET Thread
  BY DEF Owners, Waiters
<1>2. IsFiniteSet(Owners) /\ IsFiniteSet(Waiters)
  BY <1>1, PartOfThread
<1>3. o \in Nat /\ e \in Nat
  BY <1>2, FS_CardinalityType
<1>4. (o = 0 <=> Owners = {}) /\ (e = 0 <=> Waiters = {})
  BY <1>2, FS_EmptySet
<1>5. writer = 2 * e + 3 * o
  BY DEF IInv, WordsCount, Owners, Waiters, HOLDER, WAITER
<1>6. ASSUME NEW t \in Waiters, NEW u \in Waiters, t # u
      PROVE  e >= 2
  <2>1. IsFiniteSet({t, u}) /\ Cardinality({t, u}) = 2
    <3>1. IsFiniteSet({t}) /\ Cardinality({t}) = 1
      BY FS_Singleton, Zenon
    <3>2. {t, u} = {t} \cup {u} /\ u \notin {t}
      BY <1>6
    <3>3. IsFiniteSet({t} \cup {u}) /\ Cardinality({t} \cup {u}) = 1 + 1
      BY <3>1, <3>2, FS_AddElement
    <3> QED
      BY <3>2, <3>3
  <2>2. Cardinality({t, u}) <= e
    BY <1>2, <1>6, FS_Subset
  <2> QED
    BY <1>3, <2>1, <2>2
<1> HIDE DEF o, e
<1>7. IsHeld(writer) => o # 0
  BY <1>3, <1>5 DEF IsHeld, HOLDER
<1>8. e >= 2 => writer > 2
  BY <1>3, <1>5
<1>9. e # 0 /\ o # 0 => writer # 3
  BY <1>3, <1>5
<1> QED
  BY <1>4, <1>6, <1>7, <1>8, <1>9 DEF HOLDER, WAITER

\* A thread other than the one that takes the step goes on tending.
LEMMA OthersTend ==
  ASSUME IInv, NEW t \in Thread, Good(t), NEW u \in Thread \ {t}
  PROVE  /\ Tends(u) => Tends(u)'
         /\ pc'[u] \in Asleep => pc'[u] = pc[u]
         /\ pc'[u] = "w_wait" => pc[u] = "w_wait"
         /\ pc[u] = "r_wake" => pc'[u] = "r_wake"
         /\ pc[u] # pc'[u] => pc'[u] \in {"m_reload", "r_try", "w_reload"}
<1>1. pc'[u] = pc[u] \/ (pc[u] \in Asleep /\ pc'[u] = Resume(pc[u]))
  BY Zenon DEF Good, Local, Others
<1>2. /\ OwnsWriter(u)' <=> OwnsWriter(u)
      /\ Enlisted(u)' <=> Enlisted(u)
  BY OthersCount, Zenon DEF Good, Local, IInv
<1> QED
  BY <1>1, <1>2 DEF Tends, Asleep, OnWriter, OnReaders, Resume

\* So a step keeps the mutex tended if its own thread goes on tending.
LEMMA TendedStays ==
  ASSUME IInv, NEW t \in Thread, Good(t), MutexTended,
         pc'[t] \notin OnWriter, Tends(t) => Tends(t)'
  PROVE  MutexTended'
<1> SUFFICES ASSUME NEW s \in Thread, pc'[s] \in OnWriter PROVE \E u \in Thread : Tends(u)'
  BY Zenon DEF MutexTended
<1>1. pc[s] \in OnWriter
  BY OthersTend, Zenon DEF Asleep
<1>2. PICK u \in Thread : Tends(u)
  BY <1>1, Zenon DEF MutexTended
<1> QED
  BY <1>2, OthersTend, Zenon

\* And it keeps the readers tended if no S latch is released and nobody starts
\* or stops to wait or to wake there.
LEMMA ReadersStay ==
  ASSUME IInv, NEW t \in Thread, Good(t), ReadersTended,
         pc'[t] \notin OnReaders, pc[t] # "r_wake", holdS \subseteq holdS'
  PROVE  ReadersTended'
<1> SUFFICES ASSUME NEW s \in Thread, pc'[s] \in OnReaders
             PROVE  holdS' # {} \/ \E u \in Thread : pc'[u] = "r_wake"
  BY DEF ReadersTended
<1>1. pc[s] \in OnReaders
  BY OthersTend, Zenon DEF Asleep
<1>2. holdS # {} \/ \E u \in Thread : pc[u] = "r_wake"
  BY <1>1 DEF ReadersTended
<1> QED
  BY <1>2, OthersTend, Zenon

\* A step keeps SawReaders if its own thread does.
LEMMA SawStays ==
  ASSUME IInv, NEW t \in Thread, Good(t), SawReaders,
         \A u \in Thread \ {t} : lk'[u] = lk[u],
         pc'[t] = "w_wait" => lk'[t] # WRITER
  PROVE  SawReaders'
  BY OthersTend, Zenon DEF SawReaders

\* The steps after which t tends the mutex if it did before, and sleeps nowhere.
LEMMA AwakeSteps ==
  ASSUME IInv, NEW t \in Thread,
         \/ MutexTry(t) \/ MutexEnqueue(t) \/ MutexReload(t) \/ Announce(t) \/ WriterReload(t)
         \/ ReaderFirstTry(t) \/ ReaderEnqueue(t) \/ ReaderTry(t) \/ ReaderWakeAll(t)
         \/ ReaderReload(t) \/ WrLockTryReaders(t) \/ SpuriousWakeup(t)
         \/ Acquire(t) \/ Convert(t)
  PROVE  /\ pc'[t] \notin Asleep /\ pc[t] # "r_wake"
         /\ Tends(t) => Tends(t)'
         /\ holdS \subseteq holdS'
<1> USE DEF Tends, OwnsWriter, Enlisted, Asleep, OnWriter, OnReaders, UpgradePC, SharedPC,
        Goto, hold, words
<1>0. /\ pc \in [Thread -> PCs] /\ holdW \in [Thread -> {"none", "U", "X"}]
      /\ want \in [Thread -> {"none", "U", "X"}]
      /\ pc[t] \in MutexPC \cup {"x_try", "m_unlock"} => holdW[t] = "none"
  BY Zenon DEF IInv, Control, Discipline
<1>1. CASE MutexTry(t) \/ MutexEnqueue(t) \/ MutexReload(t)
  BY <1>0, <1>1 DEF MutexTry, MutexEnqueue, MutexReload, MutexAcquired, MutexPC
<1>2. CASE Announce(t) \/ WriterReload(t)
  BY <1>0, <1>2, ZenonT(40) DEF Announce, WriterReload, GrantX
<1>3. CASE ReaderFirstTry(t) \/ ReaderEnqueue(t) \/ ReaderTry(t) \/ ReaderReload(t)
  BY <1>0, <1>3 DEF ReaderFirstTry, ReaderEnqueue, ReaderTry, ReaderReload, GrantS
<1>4. CASE ReaderWakeAll(t)
  BY <1>0, <1>4, Zenon DEF ReaderWakeAll, WakeAll, WakeAndGoto
<1>5. CASE WrLockTryReaders(t) \/ SpuriousWakeup(t)
  BY <1>0, <1>5 DEF WrLockTryReaders, SpuriousWakeup, Resume
<1>6. CASE Acquire(t)
  BY <1>0, <1>6 DEF Acquire, RdLock, RdLockTry, UOrWrLock, ULockTry, WrLockTry, Idle, Nothing,
     GrantS
<1>7. CASE Convert(t)
  BY <1>0, <1>7, Zenon DEF Convert, UWrUpgrade, WrUDowngrade, URdDowngrade, Idle, GrantS
<1> QED
  BY <1>1, <1>2, <1>3, <1>4, <1>5, <1>6, <1>7, Zenon

\* wait() on the word of the mutex: the caller sleeps only while the mutex is held.
LEMMA MutexLoopTended ==
  ASSUME IInv, MutexTended, NEW t \in Thread, Good(t), MutexLoop(t) \/ ReaderLoop(t)
  PROVE  MutexTended'
<1>1. CASE pc'[t] \in OnWriter
  <2>1. writer' = writer /\ writer = lk[t] /\ IsHeld(lk[t])
    BY <1>1, Zenon DEF MutexLoop, ReaderLoop, Goto, OnWriter, MutexAcquired, words, IInv, Control
  <2>2. PICK u \in Thread : OwnsWriter(u)
    BY <2>1, WordsAndWaiters DEF Owners
  <2>3. OwnsWriter(u)'
    <3>1. CASE u # t
      BY <2>2, <3>1, OthersCount, Zenon DEF Good, Local, IInv
    <3>2. CASE u = t
      BY <1>1, <2>2, <3>2, Zenon DEF MutexLoop, ReaderLoop, hold, OwnsWriter, UpgradePC, OnWriter,
         Goto, MutexAcquired, IInv, Control
    <3> QED
      BY <3>1, <3>2
  <2> QED
    BY <2>3 DEF MutexTended, Tends
<1>2. CASE pc'[t] \notin OnWriter
  <2>1. Tends(t)'
    BY <1>2, Zenon DEF MutexLoop, ReaderLoop, Goto, MutexAcquired, words, hold, IInv, Control, Tends,
       OwnsWriter, Enlisted, SharedPC, UpgradePC, OnWriter
  <2> QED
    BY <1>2, <2>1, TendedStays
<1> QED
  BY <1>1, <1>2

\* wr_unlock() of the mutex calls FUTEX_WAKE if anybody may sleep there.
LEMMA MutexUnlockTended ==
  ASSUME IInv, MutexTended, NEW t \in Thread, Good(t), MutexUnlock(t)
  PROVE  MutexTended'
<1>1. pc'[t] \in {"m_wake", "idle"} /\ (pc'[t] = "idle" => writer = HOLDER + WAITER)
  BY DEF MutexUnlock, Goto, IInv, Control
<1>2. t \in Owners
  BY DEF MutexUnlock, Owners, OwnsWriter
<1>3. CASE pc'[t] = "m_wake"
  BY <1>3, TendedStays DEF Tends, OnWriter
<1>4. CASE pc'[t] = "idle"
  <2>1. Waiters = {}
    BY <1>1, <1>2, <1>4, WordsAndWaiters
  <2>2. \A s \in Thread : pc[s] \notin OnWriter
    BY <2>1 DEF Waiters, Enlisted, OnWriter, SharedPC
  <2>3. \A s \in Thread : pc'[s] \notin OnWriter
    BY <1>4, <2>2, OthersTend, Zenon DEF Asleep, OnWriter
  <2> QED
    BY <2>3 DEF MutexTended
<1> QED
  BY <1>1, <1>3, <1>4

\* FUTEX_WAKE on the word of the mutex: whoever is woken looks again.
LEMMA MutexWakeTended ==
  ASSUME IInv, MutexTended, NEW t \in Thread, Good(t), MutexWake(t) \/ ReaderGranted(t)
  PROVE  MutexTended'
<1>0. pc \in [Thread -> PCs] /\ pc[t] \notin OnWriter
  BY DEF IInv, Control, MutexWake, ReaderGranted, OnWriter
<1>1. CASE Sleepers(OnWriter) = {}
  <2>1. \A s \in Thread : pc'[s] \notin OnWriter
    BY <1>0, <1>1, Zenon DEF Sleepers, MutexWake, ReaderGranted, WakeOne, WakeAll, WakeAndGoto, Goto,
       OnWriter
  <2> QED
    BY <2>1, Zenon DEF MutexTended
<1>2. CASE MutexWake(t) /\ Sleepers(OnWriter) # {}
  <2>1. PICK s \in Sleepers(OnWriter) : WakeAndGoto(t, {s}, "idle")
    BY <1>2 DEF MutexWake, WakeOne
  <2>2. s \in Thread /\ pc[s] \in OnWriter /\ s # t
    BY <1>0, <2>1 DEF Sleepers
  <2>3. pc'[s] \in {"m_reload", "r_try"}
    BY <1>0, <2>1, <2>2 DEF WakeAndGoto, Resume, OnWriter
  <2> QED
    BY <2>2, <2>3, Zenon DEF MutexTended, Tends, Enlisted, OnWriter, SharedPC
<1>3. CASE ReaderGranted(t)
  <2>1. \A s \in Thread : pc'[s] \notin OnWriter
    BY <1>0, <1>3 DEF ReaderGranted, Sleepers, WakeAll, WakeAndGoto, Resume, OnWriter
  <2> QED
    BY <2>1 DEF MutexTended
<1> QED
  BY <1>1, <1>2, <1>3

\* A reader that unsubscribes wakes the others, if there are any.
LEMMA DequeueTended ==
  ASSUME IInv, MutexTended, NEW t \in Thread, Good(t), ReaderDequeue(t)
  PROVE  MutexTended'
<1>1. pc'[t] \in {"r_granted", "idle"} /\ (pc'[t] = "idle" => ~(writer > WAITER))
  BY DEF ReaderDequeue, Goto, IInv, Control
<1>2. t \in Waiters /\ pc[t] \notin OnWriter
  BY DEF ReaderDequeue, Waiters, Enlisted, SharedPC, OnWriter
<1>3. CASE pc'[t] = "r_granted"
  BY <1>3, TendedStays, Zenon DEF Tends, OnWriter
<1>4. CASE pc'[t] = "idle"
  <2>1. \A s \in Waiters : s = t
    BY <1>1, <1>2, <1>4, WordsAndWaiters, Zenon
  <2>2. \A s \in Thread : pc[s] \notin OnWriter
    BY <1>2, <2>1 DEF Waiters, Enlisted, OnWriter, SharedPC
  <2>3. \A s \in Thread : pc'[s] \notin OnWriter
    BY <1>4, <2>2, OthersTend DEF Asleep, OnWriter
  <2> QED
    BY <2>3 DEF MutexTended
<1> QED
  BY <1>1, <1>3, <1>4

\* So the word of the mutex is tended after every step.
LEMMA MutexTendedStep ==
  ASSUME IInv, MutexTended, NEW t \in Thread, Good(t), Acts(t)
  PROVE  MutexTended'
<1>1. CASE pc'[t] \notin OnWriter /\ (Tends(t) => Tends(t)')
  BY <1>1, TendedStays
<1>2. CASE MutexLoop(t) \/ ReaderLoop(t) \/ MutexUnlock(t) \/ MutexWake(t) \/ ReaderGranted(t)
           \/ ReaderDequeue(t)
  BY <1>2, MutexLoopTended, MutexUnlockTended, MutexWakeTended, DequeueTended
<1>3. CASE WriterWait(t) \/ ReadersWake(t)
  <2>1. pc'[t] \in UpgradePC \/ (pc[t] = "r_wake" /\ holdW' = holdW /\ pc'[t] = "idle")
    BY <1>3 DEF WriterWait, ReadersWake, WakeOne, WakeAndGoto, Goto, UpgradePC, IInv, Control, hold
  <2> QED
    BY <1>1, <2>1 DEF Tends, OwnsWriter, Enlisted, SharedPC, OnWriter, UpgradePC
<1>4. CASE Release(t)
  BY <1>1, <1>4, Zenon DEF Release, RdUnlock, UUnlock, WrUnlock, Idle, Goto, IInv, Control, Tends,
     OwnsWriter, Enlisted, SharedPC, OnWriter, UpgradePC
<1> QED
  BY <1>1, <1>2, <1>3, <1>4, AwakeSteps, Zenon DEF Acts, Step, Asleep

\* A writer sleeps on the readers only while it has announced itself.
LEMMA WriterAsleep ==
  ASSUME IInv, NEW s \in Thread, pc[s] \in OnReaders
  PROVE  /\ s \in Announcers
         /\ \A u \in Thread : pc[u] \in OnReaders => u = s
  BY Zenon DEF OnReaders, IInv, Discipline, Announcers, Announced, OwnsWriter, UpgradePC

\* With an announced writer the word of the readers shows its last reader.
LEMMA OneReader ==
  ASSUME IInv, NEW t \in Thread, holdS = {t}, Announcers # {}
  PROVE  readers = WRITER + 1
<1>1. PICK u \in Announcers : TRUE
  OBVIOUS
<1>2. Announcers = {u}
  BY <1>1, Zenon DEF Announcers, Announced, OwnsWriter, IInv, Discipline
<1>3. Cardinality(holdS) = 1 /\ Cardinality(Announcers) = 1
  BY <1>2, FS_Singleton, Zenon
<1> QED
  BY <1>3, SsuxConstants DEF IInv, WordsCount, Announcers

\* The word of the readers is tended after every step.
LEMMA ReadersTendedStep ==
  ASSUME IInv, ReadersTended, SawReaders, NEW t \in Thread, Good(t), Acts(t)
  PROVE  ReadersTended'
<1>0. pc \in [Thread -> PCs] /\ readers \in Int /\ WRITER \in Nat
  BY Reading, SsuxConstants DEF IInv, Control
<1>1. CASE pc'[t] \notin OnReaders /\ pc[t] # "r_wake" /\ holdS \subseteq holdS'
  BY <1>1, ReadersStay
<1>2. CASE WriterWait(t)
  <2>1. CASE pc'[t] \in OnReaders
    <3>1. readers # WRITER
      BY <1>0, <1>2, <2>1, Zenon DEF WriterWait, Goto, OnReaders, SawReaders
    <3>2. t \in Announcers
      BY <1>2, Zenon DEF WriterWait, Announcers, Announced, UpgradePC
    <3>3. holdS # {}
      BY <3>1, <3>2, Reading
    <3> QED
      BY <1>2, <3>3, Zenon DEF WriterWait, hold, ReadersTended
  <2>2. CASE pc'[t] \notin OnReaders
    BY <1>1, <1>2, <2>2, Zenon DEF WriterWait, hold
  <2> QED
    BY <2>1, <2>2
<1>3. CASE ReadersWake(t)
  <2>1. \A s \in Thread : pc'[s] \notin OnReaders
    <3>1. CASE Sleepers(OnReaders) = {}
      BY <1>0, <1>3, <3>1, Zenon DEF ReadersWake, WakeOne, Sleepers, Goto, OnReaders
    <3>2. CASE Sleepers(OnReaders) # {}
      <4>1. PICK s \in Sleepers(OnReaders) : WakeAndGoto(t, {s}, "idle")
        BY <1>3, <3>2, Zenon DEF ReadersWake, WakeOne
      <4>2. s \in Thread /\ pc[s] \in OnReaders
        BY <4>1 DEF Sleepers
      <4>3. \A u \in Thread : pc[u] \in OnReaders => u = s
        BY <4>2, WriterAsleep
      <4> QED
        BY <1>0, <4>1, <4>2, <4>3 DEF WakeAndGoto, Resume, OnReaders
    <3> QED
      BY <3>1, <3>2
  <2> QED
    BY <2>1, Zenon DEF ReadersTended
<1>4. CASE RdUnlock(t)
  <2>1. pc'[t] \in {"r_wake", "idle"} /\ (pc'[t] = "idle" => readers # WRITER + 1)
    BY <1>0, <1>4 DEF RdUnlock, Goto
  <2>2. CASE pc'[t] = "r_wake"
    BY <2>2, Zenon DEF ReadersTended
  <2>3. CASE pc'[t] = "idle"
    <3> SUFFICES ASSUME NEW s \in Thread, pc'[s] \in OnReaders PROVE holdS' # {}
      BY Zenon DEF ReadersTended
    <3>1. s # t /\ pc[s] \in OnReaders
      BY <2>3, OthersTend, Zenon DEF OnReaders, Asleep
    <3>2. readers # WRITER + 1
      BY <2>1, <2>3
    <3>3. s \in Announcers /\ Announcers # {}
      BY <3>1, WriterAsleep
    <3>4. holdS # {t}
      BY <3>2, <3>3, OneReader
    <3> QED
      BY <1>4, <3>4 DEF RdUnlock
  <2> QED
    BY <2>1, <2>2, <2>3
<1>5. CASE UUnlock(t) \/ WrUnlock(t)
  BY <1>0, <1>1, <1>5, Zenon DEF UUnlock, WrUnlock, Goto, Idle, OnReaders
<1>6. CASE MutexLoop(t) \/ ReaderLoop(t) \/ MutexUnlock(t) \/ MutexWake(t) \/ ReaderGranted(t)
           \/ ReaderDequeue(t)
  BY <1>0, <1>1, <1>6, Zenon DEF MutexLoop, ReaderLoop, MutexUnlock, MutexWake, ReaderGranted,
     ReaderDequeue, MutexAcquired, Goto, WakeOne, WakeAll, WakeAndGoto, hold, OnReaders
<1> QED
  BY <1>1, <1>2, <1>3, <1>4, <1>5, <1>6, AwakeSteps, ZenonT(40) DEF Acts, Step, Release, Asleep

\* What a writer copies from the readers before it waits has a reader in it.
LEMMA SawReadersStep ==
  ASSUME IInv, Copies, SawReaders, NEW t \in Thread, Good(t), Acts(t)
  PROVE  SawReaders'
<1>0. /\ pc \in [Thread -> PCs] /\ readers \in Int /\ WRITER \in Nat
      /\ DOMAIN lk = Thread
  BY Reading, SsuxConstants DEF IInv, Control, Copies
<1>1. \/ lk' = lk \/ Load(t, 0) \/ Load(t, writer) \/ Load(t, writer')
      \/ Load(t, readers) \/ Load(t, readers')
  BY CopyForms DEF Acts
<1>2. \A u \in Thread \ {t} : lk'[u] = lk[u]
  BY <1>0, <1>1, Zenon DEF Load
<1>3. CASE pc'[t] # "w_wait"
  BY <1>2, <1>3, SawStays, Zenon
<1>4. CASE pc'[t] = "w_wait"
  <2>1. Announce(t) \/ WriterReload(t)
    BY <1>0, <1>4, ZenonT(40) DEF Acts, Acquire, Convert, Release, Step, SpuriousWakeup, RdLock, RdLockTry,
       UOrWrLock, ULockTry, WrLockTry, UWrUpgrade, WrUDowngrade, URdDowngrade, RdUnlock, UUnlock,
       WrUnlock, MutexTry, MutexEnqueue, MutexLoop, MutexReload, MutexUnlock, MutexWake,
       WriterWait, MutexAcquired, ReaderFirstTry, ReaderEnqueue, ReaderLoop, ReaderTry,
       ReaderWakeAll, ReaderReload, ReaderDequeue, ReaderGranted, WrLockTryReaders, ReadersWake,
       Goto, WakeAll, WakeOne, WakeAndGoto, Idle, Nothing, Resume, Asleep, OnWriter, OnReaders
  <2>2. lk'[t] # WRITER
    BY <1>0, <1>4, <2>1 DEF Announce, WriterReload, GrantX, Load, Goto
  <2> QED
    BY <1>2, <2>2, SawStays
<1> QED
  BY <1>3, <1>4

\* A sleeper that is tended is one whose wake-up is not lost.
LEMMA TendedNotLost == IInv /\ WakeInv => NoLostWakeup
<1>1. \A u \in Thread : Tends(u) => OwnsWriter(u) \/ Running(u)
  BY DEF Tends, Enlisted, Running, Asleep, OnWriter, OnReaders, SharedPC
<1>2. \A u \in Thread : pc[u] = "r_wake" => Running(u)
  BY DEF Running, Asleep, OnWriter, OnReaders
<1> QED
  BY <1>1, <1>2 DEF WakeInv, MutexTended, ReadersTended, NoLostWakeup

\* The strengthened invariant is inductive.
LEMMA NextWakeInv == IInv /\ Copies /\ WakeInv /\ [Next]_vars => WakeInv'
<1> SUFFICES ASSUME IInv, Copies, WakeInv, [Next]_vars PROVE WakeInv'
  OBVIOUS
<1>1. CASE Next
  <2>1. PICK t \in Thread : Acts(t)
    BY <1>1 DEF Next, Acts
  <2>2. Good(t)
    BY <2>1, ActsGood
  <2> QED
    BY <2>1, <2>2, MutexTendedStep, ReadersTendedStep, SawReadersStep DEF WakeInv
<1>2. CASE UNCHANGED vars
  BY <1>2, Zenon DEF vars, words, hold, WakeInv, MutexTended, ReadersTended, SawReaders, Tends,
     OwnsWriter, Enlisted
<1> QED
  BY <1>1, <1>2

\* No wake-up is lost, for any number of threads: a thread sleeps on a futex word
\* only while the latch is in the way or somebody is about to wake it.
THEOREM SleepersAreWoken == Spec => []NoLostWakeup
<1>1. Init => WakeInv
  BY DEF Init, WakeInv, MutexTended, ReadersTended, SawReaders, OnWriter, OnReaders
<1> QED
  BY <1>1, RangesInvariant, Invariance, NextWakeInv, TendedNotLost, PTL DEF Spec
=============================================================================
