------------------------------- MODULE MdlInv -------------------------------
(***************************************************************************)
(* The inductive invariant behind the exclusion of metadata locks on       *)
(* tables and schemas; the invariant of the wait slots and its proof; and  *)
(* what a step has to show of the lists, counters and bitmaps of a lock.   *)
(***************************************************************************)
EXTENDS Mdl, FiniteSetTheorems, TLAPS

\* Most leaves are first-order; those that need arithmetic or sequences cite SMT.
USE Zenon

\* The steps of a context whose request is queued, and all steps.
WaitPC == {"will_wait", "search", "victim", "wait", "done"}
PCs == {"idle", "upgrade", "lock", "clone", "remove", "downgrade", "resched", "merge"}
       \cup WaitPC
\* The operations and what a context remembers of the one it is in.
Ops == {"none", "acquire", "upgrade", "downgrade", "release", "rollback", "abort"}
CallType == [op : Ops, new : 0..MaxTickets, old : 0..MaxTickets, type : MdlType \cup {"none"},
             wait : BOOLEAN, keep : 0..MaxTickets]
\* A lock of k: its lists, its bitmaps and counters per type.
Counters(k) == [TypesOf(k) -> 0 .. CounterRange - 1]
LockType(k) ==
    [granted : SUBSET Ticket, waiting : Seq(Ticket), hog : Nat,
     bitmap : [granted : SUBSET TypesOf(k), waiting : SUBSET TypesOf(k)],
     count : [granted : Counters(k), waiting : Counters(k)]]
TicketType == {r \in [key : Key, type : MdlType, duration : Duration] : r.type \in TypesOf(r.key)}

\* The type invariant of the runs without the BACKUP namespace.
Types ==
    /\ ticket \in [Ticket -> TicketType \cup {NoTicket}]
    /\ m_fast_lane = [t \in Ticket |-> NoLane]
    /\ DOMAIN lock = Key /\ \A k \in Key : lock[k] \in LockType(k)
    /\ m_tickets \in [Ctx -> Seq(Slot)]
    /\ m_wait_status \in [Ctx -> WaitStatus] /\ wait_status \in [Ctx -> WaitStatus]
    /\ gone \in SUBSET Disconnecting
    /\ pc \in [Ctx -> PCs] /\ call \in [Ctx -> CallType]

\* The request of a context is in the queue, or was and has been granted.
Queued(c) == pc[c] \in WaitPC \/ (pc[c] = "remove" /\ call[c].op = "abort")
\* Its new ticket is in no list: not yet, or not any more.
NewOutside(c) == pc[c] \in {"lock", "clone"} \/ (pc[c] = "resched" /\ call[c].op = "abort")
\* The ticket it releases is in no list any more.
OldOutside(c) == pc[c] = "resched" /\ call[c].op \in {"release", "rollback"}

\* A ticket is in m_waiting, or in m_granted.
IsWaiting(t) ==
    /\ t[2] = call[t[1]].new /\ Queued(t[1]) /\ m_wait_status[t[1]] # "GRANTED"
IsGranted(t) ==
    /\ ticket[t] # NoTicket
    /\ t[2] = call[t[1]].new => ~NewOutside(t[1]) /\ ~IsWaiting(t)
    /\ t[2] = call[t[1]].old => ~OldOutside(t[1])

\* The lists of a lock are a function of what the contexts are doing.
Lists(k) ==
    /\ lock[k].granted = {t \in Ticket : IsGranted(t) /\ KeyOf(t) = k}
    /\ Range(lock[k].waiting) = {t \in Ticket : IsWaiting(t) /\ KeyOf(t) = k}
    /\ IsInjective(lock[k].waiting)

\* Slot s of context c holds a ticket.
Has(c, s) == s \in Slot /\ ticket[<<c, s>>] # NoTicket

\* The arguments of an operation at each of its steps.
Control(c) ==
    LET cl == call[c] IN
    /\ pc[c] = "idle" => cl = NoCall
    /\ pc[c] = "upgrade" => cl.op = "upgrade" /\ cl.new = 0
    /\ pc[c] \in {"lock", "clone"} \cup WaitPC => cl.op \in {"acquire", "upgrade"} /\ cl.new # 0
    /\ pc[c] = "merge" => cl.op = "upgrade"
    /\ pc[c] = "remove" => cl.op \in {"abort", "release", "rollback"}
    /\ pc[c] = "resched" => cl.op \in {"abort", "release", "rollback", "downgrade"}
    /\ pc[c] = "downgrade" => cl.op = "downgrade"
    /\ cl.op \in {"upgrade", "downgrade", "release", "rollback"} => cl.old # 0
    /\ cl.op = "abort" => cl.new # 0
    /\ cl.op \in {"downgrade", "release", "rollback"} => cl.new = 0
    /\ cl.new # 0 => Has(c, cl.new) /\ cl.new # cl.old
    /\ cl.old # 0 => Has(c, cl.old)

\* The context has a lock on k that is as strong as ty.
Stronger(c, k, ty) ==
    \E s \in Slot : /\ Has(c, s) /\ s # call[c].new
                    /\ KeyOf(<<c, s>>) = k
                    /\ HasStrongerOrEqualType(k, TypeOf(<<c, s>>), ty)

\* What justifies a ticket that is added or changed without a look at the lists.
Justified(c) ==
    LET cl == call[c] IN
    /\ cl.op \in {"upgrade", "downgrade"} => cl.type \in TypesOf(KeyOf(OldTicket(c)))
    /\ cl.op = "upgrade" /\ cl.new # 0 => /\ KeyOf(NewTicket(c)) = KeyOf(OldTicket(c))
                                          /\ TypeOf(NewTicket(c)) = cl.type
    /\ pc[c] = "clone" => Stronger(c, KeyOf(NewTicket(c)), TypeOf(NewTicket(c)))
    /\ pc[c] = "merge" /\ cl.new = 0 => Stronger(c, KeyOf(OldTicket(c)), cl.type)
    /\ pc[c] = "downgrade" => Stronger(c, KeyOf(OldTicket(c)), cl.type)

\* The transactional tickets exist, each once.
Transactional(c) ==
    /\ \A s \in Range(m_tickets[c]) : Has(c, s)
    /\ IsInjective(m_tickets[c])
    /\ call[c].new \in Range(m_tickets[c]) => pc[c] = "merge"

\* The wait slot.
Slots(c) ==
    /\ m_wait_status[c] = "GRANTED" => Queued(c) \/ NewOutside(c)
    /\ pc[c] \in {"lock", "clone"} => m_wait_status[c] # "GRANTED"
    /\ pc[c] = "done" /\ wait_status[c] = "GRANTED" => m_wait_status[c] = "GRANTED"
    /\ \/ pc[c] = "done" /\ wait_status[c] # "GRANTED"
       \/ pc[c] = "remove" /\ call[c].op = "abort"
       => c \in gone \/ m_wait_status[c] \notin {"EMPTY", "GRANTED"}
    /\ c \in gone => pc[c] \in {"idle", "done", "remove", "resched"}
    /\ c \in gone /\ pc[c] = "done" => wait_status[c] # "GRANTED"

\* No two contexts have tickets that exclude each other.
Compatible(k, ts, type) ==
    \A t, u \in ts : t[1] # u[1] => type[t] \notin GrantedIncompatible(k, type[u])

\* How many tickets of ts are of type ty.
Number(ts, type, ty) == Cardinality({t \in ts : type[t] = ty})

\* The counters of m_granted count at least its tickets, and at most n too many.
GrantedTally(k, lk, type, n) ==
    \A ty \in TypesOf(k) :
        /\ Number(lk.granted, type, ty) <= lk.count.granted[ty]
        /\ lk.count.granted[ty] <= Number(lk.granted, type, ty) + n
        /\ ty \in lk.bitmap.granted <=> lk.count.granted[ty] > 0
WaitingTally(k, lk, type) ==
    \A ty \in TypesOf(k) :
        /\ lk.count.waiting[ty] = Number(Range(lk.waiting), type, ty)
        /\ ty \in lk.bitmap.waiting <=> lk.count.waiting[ty] > 0

\* The types of the tickets, as a function.
types == [t \in Ticket |-> TypeOf(t)]

\* The contexts whose request may have been taken out of the wrong list.
Lost == {c \in gone : pc[c] # "done" /\ ~(pc[c] = "remove" /\ call[c].op = "abort")}

\* Without disconnects the counters are exact.
LockOK(k) ==
    /\ Lists(k)
    /\ Compatible(k, lock[k].granted, types)
    /\ GrantedTally(k, lock[k], types, Cardinality(Lost))
    /\ gone = {} => WaitingTally(k, lock[k], types)

\* What holds of a context; and the inductive invariant.
CtxOK(c) == Control(c) /\ Justified(c) /\ Transactional(c) /\ Slots(c)

IInv ==
    /\ Backup = {}
    /\ Types
    /\ \A c \in Ctx : CtxOK(c)
    /\ \A k \in Key : LockOK(k)

\* The loop variable of reschedule_waiters() is a position of the queue.
IterOK ==
    /\ iter \in [Ctx -> Nat]
    /\ \A c \in Ctx : pc[c] = "resched" => iter[c] # 0

----------------------------------------------------------------------------
(* What is known of a state in which the invariant holds *)

\* The parts of a lock have their types.
LEMMA LockParts ==
  ASSUME NEW k, NEW lk \in LockType(k)
  PROVE  /\ lk.granted \in SUBSET Ticket
         /\ lk.waiting \in Seq(Ticket) /\ Range(lk.waiting) \in SUBSET Ticket
         /\ lk.count.granted \in [TypesOf(k) -> 0 .. CounterRange - 1]
         /\ lk.count.waiting \in [TypesOf(k) -> 0 .. CounterRange - 1]
         /\ \A ty \in TypesOf(k) : lk.count.granted[ty] \in Nat /\ lk.count.waiting[ty] \in Nat
<1>1. /\ lk.granted \in SUBSET Ticket /\ lk.waiting \in Seq(Ticket)
      /\ lk.count.granted \in [TypesOf(k) -> 0 .. CounterRange - 1]
      /\ lk.count.waiting \in [TypesOf(k) -> 0 .. CounterRange - 1]
  BY DEF LockType, Counters
<1>2. ASSUME NEW q \in Seq(Ticket) PROVE Range(q) \in SUBSET Ticket
  BY SMT DEF Range
<1>3. ASSUME NEW n \in 0 .. CounterRange - 1 PROVE n \in Nat
  BY MdlConstants, SMT
<1> QED
  BY <1>1, <1>2, <1>3

\* What is known of a lock before a step.
LEMMA LockFacts ==
  ASSUME IInv, NEW k \in Key
  PROVE  /\ lock[k] \in LockType(k) /\ IsInjective(lock[k].waiting)
         /\ lock[k].granted \in SUBSET Ticket /\ Range(lock[k].waiting) \in SUBSET Ticket
         /\ \A u \in lock[k].granted \cup Range(lock[k].waiting) :
               ticket[u] # NoTicket /\ KeyOf(u) = k /\ TypeOf(u) \in TypesOf(k)
         /\ Compatible(k, lock[k].granted, types)
         /\ GrantedTally(k, lock[k], types, Cardinality(Lost))
         /\ gone = {} => WaitingTally(k, lock[k], types)
<1>1. Types /\ LockOK(k) /\ \A c \in Ctx : Control(c)
  BY DEF IInv, CtxOK
<1>2. lock[k] \in LockType(k) /\ IsInjective(lock[k].waiting)
  BY <1>1 DEF Types, LockOK, Lists
<1>3. lock[k].granted \in SUBSET Ticket /\ Range(lock[k].waiting) \in SUBSET Ticket
  BY <1>2, LockParts
<1>4. ASSUME NEW u \in lock[k].granted \cup Range(lock[k].waiting)
      PROVE  ticket[u] # NoTicket /\ KeyOf(u) = k /\ TypeOf(u) \in TypesOf(k)
  <2>1. u \in Ticket /\ (IsGranted(u) \/ IsWaiting(u)) /\ KeyOf(u) = k
    BY <1>1, <1>3 DEF LockOK, Lists
  <2>2. ticket[u] # NoTicket
    <3>1. CASE IsGranted(u)
      BY <3>1 DEF IsGranted
    <3>2. CASE IsWaiting(u)
      <4>1. u[1] \in Ctx /\ u[2] \in Slot /\ u = <<u[1], u[2]>> /\ u[2] # 0
        BY <2>1, MdlConstants, SMT DEF Ticket, Slot
      <4>2. u[2] = call[u[1]].new
        BY <3>2 DEF IsWaiting
      <4> QED
        BY <1>1, <4>1, <4>2 DEF Control, Has
    <3> QED
      BY <2>1, <3>1, <3>2
  <2>3. ticket[u] \in TicketType
    BY <1>1, <2>1, <2>2 DEF Types
  <2> QED
    BY <2>1, <2>2, <2>3 DEF TicketType, KeyOf, TypeOf
<1> QED
  BY <1>1, <1>2, <1>3, <1>4 DEF LockOK

\* What is known of a context before a step.
LEMMA CtxFacts ==
  ASSUME IInv, NEW c \in Ctx
  PROVE  /\ Types /\ Control(c) /\ Justified(c) /\ Transactional(c) /\ Slots(c)
         /\ pc[c] \in PCs /\ call[c] \in CallType
BY SMT DEF IInv, CtxOK, Types

\* A ticket the context has is of a type of its lock.
LEMMA TicketFacts ==
  ASSUME IInv, NEW c \in Ctx, NEW n, Has(c, n)
  PROVE  /\ n \in Slot /\ <<c, n>> \in Ticket /\ ticket[<<c, n>>] \in TicketType
         /\ KeyOf(<<c, n>>) \in Key /\ TypeOf(<<c, n>>) \in TypesOf(KeyOf(<<c, n>>))
<1>1. n \in Slot /\ <<c, n>> \in Ticket
  BY DEF Has, Ticket
<1>2. ticket[<<c, n>>] \in TicketType
  BY <1>1 DEF IInv, Types, Has
<1> QED
  BY <1>1, <1>2 DEF TicketType, KeyOf, TypeOf

\* A context between two operations has no arguments.
LEMMA NoCallType ==
  /\ NoCall \in CallType /\ \A k : TypesOf(k) \subseteq MdlType
  /\ NoCall.op = "none" /\ NoCall.new = 0 /\ NoCall.old = 0
BY MdlConstants, SMT DEF NoCall, CallType, Ops, TypesOf, Rule, MdlType

\* No ticket is in a lane, and no type closes lanes.
LEMMA NoLanes ==
  ASSUME IInv
  PROVE  /\ \A k, ty : ~ClosesLanes(k, ty) /\ ~Supported(k, ty)
         /\ \A t \in Ticket : \A l : FirstStep(t, l) = l
         /\ \A t \in Ticket : m_fast_lane[t] = NoLane
BY DEF IInv, Types, ClosesLanes, Supported, FirstStep

\* Without lanes, a context is never at a step that has to do with them.
LEMMA NoLaneSteps ==
  ASSUME IInv, NEW c \in Ctx
  PROVE  /\ ~FastAcquire(c) /\ ~DecideAfterClose(c) /\ ~CloseLane(c) /\ ~ReopenLane(c)
         /\ ~LaneAction(c) /\ ~RetypeAfterReopen(c)
<1>1. pc[c] \notin {"fast", "decide", "close", "clone_close", "reopen", "lane", "retype"}
  BY DEF IInv, Types, PCs, WaitPC
<1> QED
  BY <1>1 DEF FastAcquire, DecideAfterClose, CloseLane, ReopenLane, LaneAction, RetypeAfterReopen

\* The smaller of two numbers is one of them.
LEMMA MinOfTwo ==
  ASSUME NEW a \in Nat, NEW b \in Nat
  PROVE  Min({a, b}) \in Nat
<1>1. \E x \in {a, b} : \A y \in {a, b} : x <= y
  <2>1. CASE a <= b
    BY <2>1, SMT
  <2>2. CASE b <= a
    BY <2>2, SMT
  <2> QED
    BY <2>1, <2>2, SMT
<1> QED
  BY <1>1, SMT DEF Min

\* A step that changes nothing keeps the invariant.
LEMMA Stutter ==
  ASSUME IInv, UNCHANGED vars
  PROVE  IInv'
<1>1. UNCHANGED <<ticket, m_fast_lane, lock, m_tickets, m_wait_status, wait_status, gone,
                  pc, call>>
  BY DEF vars, ticketVars, lockVars, laneVars, waitVars, loopVars, searchVars
<1> USE <1>1
<1>2. Types'
  BY DEF IInv, Types
<1>3. ASSUME NEW c \in Ctx PROVE CtxOK(c)'
  BY DEF IInv, CtxOK, Control, Justified, Transactional, Slots, Has, Stronger, KeyOf,
     TypeOf, NewTicket, OldTicket, Queued, NewOutside
<1>4. ASSUME NEW t \in Ticket
      PROVE  (IsGranted(t)' <=> IsGranted(t)) /\ (IsWaiting(t)' <=> IsWaiting(t))
  BY DEF IsGranted, IsWaiting, Queued, NewOutside, OldOutside
<1>5. types' = types /\ Lost' = Lost /\ \A t \in Ticket : KeyOf(t)' = KeyOf(t)
  BY DEF types, TypeOf, Lost, KeyOf
<1>6. ASSUME NEW k \in Key PROVE LockOK(k)'
  <2>1. LockOK(k)
    BY DEF IInv
  <2>2. Lists(k)'
    BY <1>4, <1>5, <2>1 DEF LockOK, Lists
  <2> QED
    BY <1>5, <2>1, <2>2 DEF LockOK, Compatible, GrantedTally, WaitingTally, Number
<1> QED
  BY <1>2, <1>3, <1>6 DEF IInv

----------------------------------------------------------------------------
(* The loop of reschedule_waiters() *)

\* A step that does not begin reschedule_waiters().
Elsewhere == UNCHANGED iter /\ \A d \in Ctx : pc'[d] = "resched" => pc[d] = "resched"

\* The operations that ask for a lock or begin to give one up do not reschedule.
LEMMA OpensElsewhere ==
  ASSUME IInv, NEW c \in Ctx,
         \/ AcquireLock(c) \/ UpgradeSharedLock(c) \/ DowngradeLock(c) \/ ReleaseLock(c)
         \/ \E keep \in 0..MaxTickets : RollbackToSavepoint(c, keep)
         \/ AcquireForUpgrade(c) \/ LockForAcquire(c) \/ AddClonedTicket(c)
  PROVE  Elsewhere
<1>0. pc \in [Ctx -> PCs]
  BY DEF IInv, Types
<1>1. SUFFICES UNCHANGED iter /\ \E l : l # "resched" /\ pc' = [pc EXCEPT ![c] = l]
  BY <1>0 DEF Elsewhere
<1>2. ASSUME NEW r, NEW cl, BeginAcquire(c, r, cl)
      PROVE  UNCHANGED iter /\ \E l : l # "resched" /\ pc' = [pc EXCEPT ![c] = l]
  BY <1>2 DEF BeginAcquire, Goto, loopVars
<1>3. CASE AcquireLock(c)
  BY <1>2, <1>3, SMT DEF AcquireLock
<1>4. CASE AcquireForUpgrade(c)
  BY <1>2, <1>4 DEF AcquireForUpgrade
<1>5. CASE UpgradeSharedLock(c)
  BY <1>5 DEF UpgradeSharedLock, Goto, FirstStep, loopVars
<1>6. CASE DowngradeLock(c)
  BY <1>6 DEF DowngradeLock, Goto, FirstStep, loopVars
<1>7. CASE ReleaseLock(c)
  BY <1>7 DEF ReleaseLock, Goto, FirstStep, loopVars
<1>8. CASE \E keep \in 0..MaxTickets : RollbackToSavepoint(c, keep)
  BY <1>8 DEF RollbackToSavepoint, Goto, FirstStep, loopVars
<1>9. CASE LockForAcquire(c)
  BY <1>9 DEF LockForAcquire, Decide, Acquired, Return, Goto, loopVars
<1>10. CASE AddClonedTicket(c)
  BY <1>10 DEF AddClonedTicket, Acquired, Return, Goto, loopVars
<1> QED
  BY <1>3, <1>4, <1>5, <1>6, <1>7, <1>8, <1>9, <1>10

\* The steps of a wait do not reschedule.
LEMMA WaitsElsewhere ==
  ASSUME IInv, NEW c \in Ctx,
         \/ WillWaitFor(c) \/ WaitEnds(c) \/ Timeout(c) \/ Kill(c) \/ Disconnect(c)
         \/ DoneWaiting(c) \/ FindDeadlock(c) \/ SetVictim(c) \/ Merge(c)
  PROVE  Elsewhere
<1>0. pc \in [Ctx -> PCs]
  BY DEF IInv, Types
<1>1. SUFFICES /\ UNCHANGED iter
               /\ UNCHANGED pc \/ \E l : l # "resched" /\ pc' = [pc EXCEPT ![c] = l]
  BY <1>0 DEF Elsewhere
<1>2. CASE WillWaitFor(c)
  BY <1>2 DEF WillWaitFor, Goto, loopVars
<1>3. CASE WaitEnds(c) \/ Timeout(c) \/ Kill(c) \/ Disconnect(c)
  BY <1>3 DEF WaitEnds, Timeout, Kill, Disconnect, WaitReturns, Goto, loopVars
<1>4. CASE DoneWaiting(c)
  BY <1>4 DEF DoneWaiting, Acquired, Return, Goto, loopVars
<1>5. CASE FindDeadlock(c)
  <2>1. ASSUME NEW d, NEW st, Visit(c, d, st)
        PROVE  UNCHANGED pc \/ \E l : l # "resched" /\ pc' = [pc EXCEPT ![c] = l]
    BY <2>1 DEF Visit, Goto
  <2> QED
    BY <1>5, <2>1 DEF FindDeadlock, Goto, loopVars
<1>6. CASE SetVictim(c)
  BY <1>6 DEF SetVictim, Goto, loopVars
<1>7. CASE Merge(c)
  BY <1>7, NoLanes DEF Merge, Retype, Return, Goto, loopVars
<1> QED
  BY <1>2, <1>3, <1>4, <1>5, <1>6, <1>7

\* The end of a section under m_rwlock.
LEMMA EndsElsewhere ==
  ASSUME IInv, NEW c \in Ctx, NEW k, NEW ty, EndSection(c, k, ty)
  PROVE  \E l : l # "resched" /\ pc' = [pc EXCEPT ![c] = l]
<1>1. AfterReopen(c, k)
  BY NoLanes DEF EndSection
<1>2. CASE Released(c)
  BY <1>2 DEF Released, Return, Goto, FirstStep
<1>3. CASE ~Released(c)
  BY <1>1, <1>3 DEF AfterReopen, Return, Goto
<1> QED
  BY <1>2, <1>3

\* The loop variable of reschedule_waiters() begins with 1 and only grows.
LEMMA IterStep ==
  ASSUME IInv, IterOK, NEW c \in Ctx,
         \/ Elsewhere \/ RemoveTicket(c) \/ DowngradeTicket(c)
         \/ RescheduleWaiter(c) \/ RescheduleEnd(c)
  PROVE  IterOK'
<1>0. pc \in [Ctx -> PCs] /\ iter \in [Ctx -> Nat]
  BY DEF IInv, Types, IterOK
<1>1. CASE Elsewhere
  BY <1>1 DEF Elsewhere, IterOK
<1>2. ASSUME pc' = [pc EXCEPT ![c] = "resched"], iter' = [iter EXCEPT ![c] = 1]
      PROVE  IterOK'
  BY <1>0, <1>2, SMT DEF IterOK
<1>3. ASSUME \E l : l # "resched" /\ pc' = [pc EXCEPT ![c] = l],
             UNCHANGED iter \/ iter' = [iter EXCEPT ![c] = 0]
      PROVE  IterOK'
  BY <1>0, <1>3, SMT DEF IterOK
<1>4. CASE RemoveTicket(c)
  BY <1>2, <1>3, <1>4, EndsElsewhere DEF RemoveTicket, BeginReschedule, Goto, loopVars
<1>5. CASE DowngradeTicket(c)
  BY <1>2, <1>5 DEF DowngradeTicket, BeginReschedule, Goto
<1>6. CASE RescheduleWaiter(c)
  <2>1. UNCHANGED pc /\ \E i \in {0, 1} : iter' = [iter EXCEPT ![c] = iter[c] + i]
    BY <1>6 DEF RescheduleWaiter, RescheduleOne
  <2> QED
    BY <1>0, <2>1, SMT DEF IterOK
<1>7. CASE RescheduleEnd(c)
  BY <1>3, <1>7, EndsElsewhere DEF RescheduleEnd
<1> QED
  BY <1>1, <1>4, <1>5, <1>6, <1>7

\* The loop variable keeps its range in every step.
LEMMA IterNext ==
  ASSUME IInv, IterOK, [Next]_vars
  PROVE  IterOK'
<1>1. CASE UNCHANGED vars
  BY <1>1 DEF vars, loopVars, IterOK
<1>2. ASSUME NEW c \in Ctx, Proceed(c) PROVE IterOK'
  BY <1>2, OpensElsewhere, WaitsElsewhere, IterStep, NoLaneSteps DEF Proceed
<1> QED
  BY <1>1, <1>2, OpensElsewhere, WaitsElsewhere, IterStep DEF Next

----------------------------------------------------------------------------
(* The wait slot of a context that does not wait *)

\* The places at which m_waiting_for is set.
Announced == {"search", "victim", "wait", "done"}
\* The context is not in a wait, nor taking its request back after one.
Away(c) == pc[c] \notin WaitPC /\ call[c].op # "abort"

NodeType == [ctx : Ctx, key : Key, todo : SUBSET Ticket]

\* A search holds m_LOCK_waiting_for of the contexts on its path and of its victim, so
\* that they go on waiting until it is over.
SlotOK ==
    /\ m_waiting_for \in [Ctx -> BOOLEAN] /\ m_deadlock_overweight \in [Ctx -> Nat]
    /\ stack \in [Ctx -> Seq(NodeType)] /\ DOMAIN victim = Ctx
    /\ \A c \in Ctx : m_waiting_for[c] => pc[c] \in Announced
    /\ \A c \in Ctx : Away(c) => m_wait_status[c] = "EMPTY"
    /\ \A c \in Ctx : \A i \in 1..Len(stack[c]) : m_waiting_for[stack[c][i].ctx]
    /\ \A c \in Ctx : victim[c] \in Ctx => m_waiting_for[victim[c]]

\* The elements of the stack of a search, its last one and the others, and what it is
\* after the last one has changed.
LEMMA Elements ==
  ASSUME NEW S, NEW q \in Seq(S)
  PROVE  Len(q) \in Nat /\ \A i \in 1..Len(q) : q[i] \in S
  BY SMT

LEMMA Pop ==
  ASSUME NEW S, NEW q \in Seq(S), q # <<>>
  PROVE  /\ Len(q) \in 1..Len(q) /\ q[Len(q)] \in S
         /\ SubSeq(q, 1, Len(q) - 1) \in Seq(S) /\ Len(SubSeq(q, 1, Len(q) - 1)) = Len(q) - 1
         /\ \A i \in 1..Len(q) - 1 : i \in 1..Len(q) /\ SubSeq(q, 1, Len(q) - 1)[i] = q[i]
<1>1. PICK n : n = Len(q)
  OBVIOUS
<1>2. n \in Nat /\ n # 0 /\ \A i \in 1..n : q[i] \in S
  BY <1>1, SMT
<1>3. n - 1 \in Nat /\ n \in 1..n /\ \A i \in 1..n - 1 : i \in 1..n
  BY <1>2, SMT
<1>4. PICK r : r = SubSeq(q, 1, n - 1)
  OBVIOUS
<1>5. r \in Seq(S) /\ Len(r) = n - 1 /\ \A i \in 1..n - 1 : r[i] = q[i]
  BY <1>1, <1>2, <1>3, <1>4, SMT
<1> QED
  BY <1>1, <1>2, <1>3, <1>4, <1>5

LEMMA Replace ==
  ASSUME NEW S, NEW q \in Seq(S), NEW n \in 1..Len(q), NEW v \in S
  PROVE  /\ [q EXCEPT ![n] = v] \in Seq(S) /\ Len([q EXCEPT ![n] = v]) = Len(q)
         /\ \A i \in 1..Len(q) : [q EXCEPT ![n] = v][i] = IF i = n THEN v ELSE q[i]
  BY SMT

\* The natural numbers are well ordered.
LEMMA Least ==
  ASSUME NEW T, T \subseteq Nat, T # {}
  PROVE  \E x \in T : \A y \in T : x <= y
<1> DEFINE R == OpToRel(<, Nat)
<1>1. IsWellFoundedOn(R, Nat)
  BY NatLessThanWellFounded
<1>2. \A x, y \in Nat : <<y, x>> \in R <=> y < x
  BY SMT DEF OpToRel
<1> HIDE DEF R
<1>3. PICK x \in T : \A y \in T : ~(<<y, x>> \in R)
  BY <1>1, WFMin
<1>4. ASSUME NEW y \in T PROVE x <= y
  <2>1. x \in Nat /\ y \in Nat /\ ~(y < x)
    BY <1>2, <1>3
  <2> QED
    BY <2>1, SMT
<1> QED
  BY <1>4, SMT

\* Among the contexts on the path of a search there is a lightest one, the first of them.
LEMMA Lightest ==
  ASSUME NEW n \in Nat, n > 0, NEW w \in [1..n -> Nat]
  PROVE  \E i \in 1..n : \A j \in 1..n : w[i] < w[j] \/ (w[i] = w[j] /\ i <= j)
<1> DEFINE W == {w[i] : i \in 1..n}
<1>1. W \subseteq Nat /\ W # {} /\ 1 \in 1..n
  BY SMT
<1>2. PICK m \in W : \A y \in W : m <= y
  BY <1>1, Least
<1> DEFINE I == {i \in 1..n : w[i] = m}
<1>3. I \subseteq Nat /\ I # {}
  BY <1>2, SMT
<1>4. PICK i \in I : \A j \in I : i <= j
  BY <1>3, Least
<1>5. ASSUME NEW j \in 1..n PROVE w[i] < w[j] \/ (w[i] = w[j] /\ i <= j)
  <2>1. m <= w[j] /\ m \in Nat /\ w[j] \in Nat /\ w[i] = m /\ i \in 1..n
    BY <1>1, <1>2, <1>4
  <2>2. w[j] = m => i <= j
    BY <1>4, SMT
  <2> QED
    BY <2>1, <2>2, SMT
<1> QED
  BY <1>4, <1>5, SMT

\* A step of a context that does not wait, and leaves its slot empty if it is away then.
LEMMA SlotKept ==
  ASSUME SlotOK, NEW c \in Ctx, pc[c] \notin WaitPC,
         \A d \in Ctx \ {c} : /\ pc'[d] = pc[d] /\ call'[d] = call[d]
                              /\ m_wait_status'[d] = m_wait_status[d],
         m_wait_status'[c] = "EMPTY" \/ call'[c].op = "abort",
         UNCHANGED <<m_waiting_for, m_deadlock_overweight, stack, victim>>
  PROVE  SlotOK'
<1>1. \A d \in Ctx : m_waiting_for'[d] => pc'[d] \in Announced
  <2>1. ~m_waiting_for[c]
    BY DEF SlotOK, Announced, WaitPC
  <2> QED
    BY <2>1 DEF SlotOK
<1>2. \A d \in Ctx : Away(d)' => m_wait_status'[d] = "EMPTY"
  <2>1. Away(c)' => m_wait_status'[c] = "EMPTY"
    BY DEF Away
  <2>2. ASSUME NEW d \in Ctx \ {c} PROVE Away(d)' => m_wait_status'[d] = "EMPTY"
    <3>1. Away(d) => m_wait_status[d] = "EMPTY"
      BY DEF SlotOK
    <3> QED
      BY <3>1 DEF Away
  <2> QED
    BY <2>1, <2>2
<1>3. /\ m_waiting_for' \in [Ctx -> BOOLEAN] /\ m_deadlock_overweight' \in [Ctx -> Nat]
      /\ stack' \in [Ctx -> Seq(NodeType)] /\ DOMAIN victim' = Ctx
      /\ \A d \in Ctx : \A i \in 1..Len(stack'[d]) : m_waiting_for'[stack'[d][i].ctx]
      /\ \A d \in Ctx : victim'[d] \in Ctx => m_waiting_for'[victim'[d]]
  BY DEF SlotOK
<1> QED
  BY <1>1, <1>2, <1>3 DEF SlotOK

\* The nodes on the path of a search are contexts.
LEMMA OnPath ==
  ASSUME SlotOK, NEW d \in Ctx, NEW i \in 1..Len(stack[d])
  PROVE  stack[d][i].ctx \in Ctx
<1>1. stack[d] \in Seq(NodeType)
  BY DEF SlotOK
<1>2. stack[d][i] \in NodeType
  BY <1>1, SMT
<1> QED
  BY <1>2 DEF NodeType

\* Where a context is away, its slot is empty.
LEMMA SlotIsEmpty ==
  ASSUME IInv, SlotOK, NEW c \in Ctx,
         pc[c] \in {"idle", "upgrade", "lock", "clone", "merge", "downgrade"}
  PROVE  m_wait_status[c] = "EMPTY" /\ pc[c] \notin WaitPC
<1>1. Control(c) /\ NoCall.op = "none"
  BY CtxFacts, NoCallType
<1>2. call[c].op # "abort" /\ pc[c] \notin WaitPC
  BY <1>1 DEF Control, WaitPC
<1> QED
  BY <1>2 DEF SlotOK, Away

\* The steps before a wait and after it, but for the end of reschedule_waiters().
LEMMA SlotsOpen ==
  ASSUME IInv, SlotOK, NEW c \in Ctx,
         \/ AcquireLock(c) \/ UpgradeSharedLock(c) \/ DowngradeLock(c) \/ ReleaseLock(c)
         \/ \E keep \in 0..MaxTickets : RollbackToSavepoint(c, keep)
         \/ AcquireForUpgrade(c) \/ LockForAcquire(c) \/ AddClonedTicket(c)
         \/ Merge(c) \/ DowngradeTicket(c)
  PROVE  SlotOK'
<1>0. pc \in [Ctx -> PCs] /\ call \in [Ctx -> CallType]
  BY DEF IInv, Types
<1> DEFINE Changes == /\ \E l : pc' = [pc EXCEPT ![c] = l]
                      /\ UNCHANGED call \/ \E cl : call' = [call EXCEPT ![c] = cl]
                      /\ UNCHANGED <<m_wait_status, m_waiting_for, m_deadlock_overweight,
                                     stack, victim>>
<1>1. SUFFICES /\ pc[c] \in {"idle", "upgrade", "lock", "clone", "merge", "downgrade"}
               /\ Changes
  <2>1. m_wait_status[c] = "EMPTY" /\ pc[c] \notin WaitPC
    BY <1>1, SlotIsEmpty
  <2>2. \A d \in Ctx \ {c} : pc'[d] = pc[d] /\ call'[d] = call[d]
    BY <1>0, <1>1
  <2> QED
    BY <1>1, <2>1, <2>2, SlotKept
<1>2. ASSUME NEW r, NEW cl, BeginAcquire(c, r, cl) PROVE Changes
  BY <1>2 DEF BeginAcquire, Goto, loopVars, waitVars, searchVars
<1>3. CASE AcquireLock(c)
  BY <1>2, <1>3 DEF AcquireLock
<1>4. CASE AcquireForUpgrade(c)
  BY <1>2, <1>4 DEF AcquireForUpgrade
<1>5. CASE UpgradeSharedLock(c)
  BY <1>5 DEF UpgradeSharedLock, Goto, waitVars, searchVars
<1>6. CASE DowngradeLock(c)
  BY <1>6 DEF DowngradeLock, Goto, waitVars, searchVars
<1>7. CASE ReleaseLock(c)
  BY <1>7 DEF ReleaseLock, Goto, waitVars, searchVars
<1>8. CASE \E keep \in 0..MaxTickets : RollbackToSavepoint(c, keep)
  BY <1>8 DEF RollbackToSavepoint, Goto, waitVars, searchVars
<1>9. CASE LockForAcquire(c)
  BY <1>9 DEF LockForAcquire, Decide, Acquired, Return, Goto, waitVars, searchVars
<1>10. CASE AddClonedTicket(c)
  BY <1>10 DEF AddClonedTicket, Acquired, Return, Goto, waitVars, searchVars
<1>11. CASE Merge(c)
  BY <1>11 DEF Merge, Retype, Return, Goto, waitVars, searchVars
<1>12. CASE DowngradeTicket(c)
  BY <1>12 DEF DowngradeTicket, BeginReschedule, Goto, waitVars, searchVars
<1> QED
  BY <1>3, <1>4, <1>5, <1>6, <1>7, <1>8, <1>9, <1>10, <1>11, <1>12

\* A request that is taken back leaves an empty slot: reset_status() in acquire_lock().
LEMMA SlotsClose ==
  ASSUME IInv, SlotOK, NEW c \in Ctx, RemoveTicket(c) \/ RescheduleEnd(c)
  PROVE  SlotOK'
<1>0. /\ pc \in [Ctx -> PCs] /\ call \in [Ctx -> CallType]
      /\ m_wait_status \in [Ctx -> WaitStatus]
  BY DEF IInv, Types
<1>1. /\ pc[c] \in {"remove", "resched"}
      /\ UNCHANGED <<m_waiting_for, m_deadlock_overweight, stack, victim>>
  BY DEF RemoveTicket, RescheduleEnd, searchVars
<1>2. pc[c] \notin WaitPC /\ call[c].op \in {"abort", "release", "rollback", "downgrade"}
  BY <1>1, CtxFacts DEF Control, WaitPC
<1> USE <1>2
<1>3. call[c].op # "abort" => m_wait_status[c] = "EMPTY"
  BY DEF SlotOK, Away
<1>4. SUFFICES /\ \E l : pc' = [pc EXCEPT ![c] = l]
               /\ UNCHANGED call \/ \E cl : call' = [call EXCEPT ![c] = cl]
               /\ \/ UNCHANGED m_wait_status /\ (call[c].op = "abort" => UNCHANGED call)
                  \/ m_wait_status' = [m_wait_status EXCEPT ![c] = "EMPTY"]
  <2>1. \A d \in Ctx \ {c} : /\ pc'[d] = pc[d] /\ call'[d] = call[d]
                             /\ m_wait_status'[d] = m_wait_status[d]
    BY <1>0, <1>4
  <2>2. m_wait_status'[c] = "EMPTY" \/ call'[c].op = "abort"
    BY <1>0, <1>3, <1>4
  <2> QED
    BY <1>1, <2>1, <2>2, SlotKept
<1>5. ASSUME NEW k, NEW ty, EndSection(c, k, ty)
      PROVE  /\ \E l : pc' = [pc EXCEPT ![c] = l]
             /\ UNCHANGED call \/ \E cl : call' = [call EXCEPT ![c] = cl]
             /\ \/ UNCHANGED m_wait_status /\ call[c].op # "abort"
                \/ m_wait_status' = [m_wait_status EXCEPT ![c] = "EMPTY"]
  <2>1. AfterReopen(c, k) /\ call[c].op # "upgrade"
    BY <1>5, NoLanes DEF EndSection
  <2>2. CASE call[c].op \in {"release", "rollback"}
    BY <2>1, <2>2 DEF AfterReopen, Released, Return, Goto
  <2>3. CASE call[c].op = "downgrade"
    BY <2>1, <2>3 DEF AfterReopen, Return, Goto
  <2>4. CASE call[c].op = "abort"
    BY <2>1, <2>4 DEF AfterReopen, Return, Goto
  <2> QED
    BY <2>2, <2>3, <2>4
<1>6. CASE RemoveTicket(c)
  BY <1>5, <1>6 DEF RemoveTicket, BeginReschedule, Goto
<1>7. CASE RescheduleEnd(c)
  BY <1>5, <1>7 DEF RescheduleEnd
<1> QED
  BY <1>6, <1>7

\* The request that reschedule_waiters() looks at is in the queue.
LEMMA NextWaiter ==
  ASSUME IInv, IterOK, NEW c \in Ctx, pc[c] = "resched",
         iter[c] <= Len(lock[LockKey(c)].waiting)
  PROVE  /\ LockKey(c) \in Key
         /\ lock[LockKey(c)].waiting[iter[c]] \in Range(lock[LockKey(c)].waiting)
<1>0. Types /\ Control(c)
  BY CtxFacts
<1>1. PICK k : k = LockKey(c)
  OBVIOUS
<1>2. k \in Key
  <2>1. call[c].new # 0 => Has(c, call[c].new)
    BY <1>0 DEF Control
  <2>2. call[c].new = 0 => Has(c, call[c].old)
    BY <1>0 DEF Control
  <2> QED
    BY <1>1, <2>1, <2>2, TicketFacts DEF LockKey, NewTicket, OldTicket
<1>3. lock[k].waiting \in Seq(Ticket)
  <2>1. PICK G, B, C :
           LockType(k) = [granted : G, waiting : Seq(Ticket), hog : Nat, bitmap : B, count : C]
    BY DEF LockType
  <2> QED
    BY <1>2, <2>1, LockFacts
<1>4. iter[c] \in 1..Len(lock[k].waiting)
  BY <1>1, <1>3, SMT DEF IterOK
<1> QED
  BY <1>1, <1>2, <1>3, <1>4, SMT DEF Range

\* reschedule_waiters() grants the request of a context that is in its wait, or about to
\* take the request back.
LEMMA SlotsGrant ==
  ASSUME IInv, IterOK, SlotOK, NEW c \in Ctx, RescheduleWaiter(c)
  PROVE  SlotOK'
<1>0. m_wait_status \in [Ctx -> WaitStatus]
  BY DEF IInv, Types
<1>1. UNCHANGED <<pc, call, m_waiting_for, m_deadlock_overweight, stack, victim>>
  BY DEF RescheduleWaiter, RescheduleOne, searchVars
<1>2. SUFFICES ASSUME NEW d \in Ctx, Away(d) PROVE m_wait_status'[d] = "EMPTY"
  <2>1. \A d \in Ctx : Away(d)' => Away(d)
    BY <1>1 DEF Away
  <2> QED
    BY <1>1, <1>2, <2>1 DEF SlotOK
<1>3. m_wait_status[d] = "EMPTY"
  BY <1>2 DEF SlotOK
<1>4. PICK t : t = lock[LockKey(c)].waiting[iter[c]]
  OBVIOUS
<1>5. /\ LockKey(c) \in Key /\ t \in Range(lock[LockKey(c)].waiting)
  BY <1>4, NextWaiter DEF RescheduleWaiter, RescheduleOne
<1>6. \/ UNCHANGED m_wait_status
      \/ m_wait_status' = [m_wait_status EXCEPT ![t[1]] = "GRANTED"]
  BY <1>4 DEF RescheduleWaiter, RescheduleOne
<1>7. IsWaiting(t)
  BY <1>5 DEF IInv, LockOK, Lists
<1>8. t[1] # d
  BY <1>2, <1>7 DEF IsWaiting, Queued, Away
<1> QED
  BY <1>0, <1>3, <1>6, <1>8

\* A step from one place of the wait to another, or into it, that tells nobody anything.
LEMMA SlotsWait ==
  ASSUME SlotOK, NEW c \in Ctx, pc \in [Ctx -> PCs],
         \E l \in WaitPC : pc' = [pc EXCEPT ![c] = l],
         m_waiting_for'[c] => pc'[c] \in Announced,
         m_waiting_for' \in [Ctx -> BOOLEAN],
         \A d \in Ctx \ {c} : m_waiting_for'[d] = m_waiting_for[d],
         \A d \in Ctx \ {c} : m_wait_status'[d] = m_wait_status[d],
         UNCHANGED call
  PROVE  /\ \A d \in Ctx : m_waiting_for'[d] => pc'[d] \in Announced
         /\ \A d \in Ctx : Away(d)' => m_wait_status'[d] = "EMPTY"
<1>1. pc'[c] \in WaitPC /\ \A d \in Ctx \ {c} : pc'[d] = pc[d]
  OBVIOUS
<1>2. \A d \in Ctx : m_waiting_for'[d] => pc'[d] \in Announced
  BY <1>1 DEF SlotOK
<1>3. ASSUME NEW d \in Ctx, Away(d)' PROVE m_wait_status'[d] = "EMPTY"
  BY <1>1, <1>3 DEF SlotOK, Away
<1> QED
  BY <1>2, <1>3

\* will_wait_for() and the returns of timed_wait().
LEMMA SlotsReturn ==
  ASSUME IInv, SlotOK, NEW c \in Ctx,
         WillWaitFor(c) \/ WaitEnds(c) \/ Timeout(c) \/ Kill(c) \/ Disconnect(c)
  PROVE  SlotOK'
<1>0. pc \in [Ctx -> PCs] /\ m_wait_status \in [Ctx -> WaitStatus]
  BY DEF IInv, Types
<1>1. UNCHANGED <<call, m_deadlock_overweight, stack, victim>>
  BY DEF WillWaitFor, WaitEnds, Timeout, Kill, Disconnect, WaitReturns, searchVars
<1>2. /\ \E l \in {"search", "done"} : pc' = [pc EXCEPT ![c] = l]
      /\ UNCHANGED m_waiting_for \/ m_waiting_for' = [m_waiting_for EXCEPT ![c] = TRUE]
      /\ UNCHANGED m_wait_status \/ \E st : m_wait_status' = [m_wait_status EXCEPT ![c] = st]
  <2>1. CASE WillWaitFor(c)
    BY <2>1 DEF WillWaitFor, Goto
  <2>2. ASSUME NEW status, NEW slot, WaitReturns(c, status, slot)
        PROVE  /\ pc' = [pc EXCEPT ![c] = "done"] /\ UNCHANGED m_waiting_for
               /\ m_wait_status' = [m_wait_status EXCEPT ![c] = slot]
    BY <2>2 DEF WaitReturns, Goto
  <2>3. CASE ~WillWaitFor(c)
    <3>1. PICK status, slot : WaitReturns(c, status, slot)
      BY <2>3 DEF WaitEnds, Timeout, Kill, Disconnect
    <3> QED
      BY <2>2, <3>1
  <2> QED
    BY <2>1, <2>3
<1>3. /\ m_waiting_for \in [Ctx -> BOOLEAN] /\ m_waiting_for' \in [Ctx -> BOOLEAN]
      /\ \A d \in Ctx : m_waiting_for[d] => m_waiting_for'[d]
      /\ \A d \in Ctx \ {c} : m_waiting_for'[d] = m_waiting_for[d]
      /\ \A d \in Ctx \ {c} : m_wait_status'[d] = m_wait_status[d]
  BY <1>0, <1>2 DEF SlotOK
<1>4. pc'[c] \in Announced /\ \E l \in WaitPC : pc' = [pc EXCEPT ![c] = l]
  BY <1>0, <1>2 DEF Announced, WaitPC
<1>5. /\ \A d \in Ctx : m_waiting_for'[d] => pc'[d] \in Announced
      /\ \A d \in Ctx : Away(d)' => m_wait_status'[d] = "EMPTY"
  BY <1>0, <1>1, <1>3, <1>4, SlotsWait
<1>6. /\ \A d \in Ctx : \A i \in 1..Len(stack'[d]) : m_waiting_for'[stack'[d][i].ctx]
      /\ \A d \in Ctx : victim'[d] \in Ctx => m_waiting_for'[victim'[d]]
  <2>1. \A d \in Ctx : \A i \in 1..Len(stack[d]) : stack[d][i].ctx \in Ctx
    BY OnPath
  <2> QED
    BY <1>1, <1>3, <2>1, ZenonT(40) DEF SlotOK
<1> QED
  BY <1>1, <1>3, <1>5, <1>6 DEF SlotOK

\* done_waiting_for() waits until no search has the context on its path.
LEMMA SlotsDone ==
  ASSUME IInv, SlotOK, NEW c \in Ctx, DoneWaiting(c)
  PROVE  SlotOK'
<1>0. /\ pc \in [Ctx -> PCs] /\ call \in [Ctx -> CallType]
      /\ m_wait_status \in [Ctx -> WaitStatus] /\ m_waiting_for \in [Ctx -> BOOLEAN]
  BY DEF IInv, Types, SlotOK
<1>1. /\ CanUpdateWaitingFor(c) /\ m_waiting_for' = [m_waiting_for EXCEPT ![c] = FALSE]
      /\ UNCHANGED <<m_deadlock_overweight, stack, victim>>
  BY DEF DoneWaiting, searchVars
<1>2. /\ \E l : pc' = [pc EXCEPT ![c] = l]
      /\ UNCHANGED call \/ \E cl : call' = [call EXCEPT ![c] = cl]
      /\ \/ m_wait_status' = [m_wait_status EXCEPT ![c] = "EMPTY"]
         \/ UNCHANGED m_wait_status /\ call' = [call EXCEPT ![c].op = "abort"]
  BY DEF DoneWaiting, Acquired, Return, Goto
<1>3. /\ \A d \in Ctx \ {c} : /\ pc'[d] = pc[d] /\ call'[d] = call[d]
                              /\ m_wait_status'[d] = m_wait_status[d]
                              /\ m_waiting_for'[d] = m_waiting_for[d]
      /\ ~m_waiting_for'[c] /\ m_waiting_for' \in [Ctx -> BOOLEAN]
  BY <1>0, <1>1, <1>2
<1>4. m_wait_status'[c] = "EMPTY" \/ call'[c].op = "abort"
  BY <1>0, <1>2, SMT DEF CallType
<1>5. /\ \A d \in Ctx : m_waiting_for'[d] => pc'[d] \in Announced
      /\ \A d \in Ctx : Away(d)' => m_wait_status'[d] = "EMPTY"
  <2>1. m_waiting_for'[c] => pc'[c] \in Announced
    BY <1>3
  <2>2. Away(c)' => m_wait_status'[c] = "EMPTY"
    BY <1>4 DEF Away
  <2>3. ASSUME NEW d \in Ctx \ {c}
        PROVE  /\ m_waiting_for'[d] => pc'[d] \in Announced
               /\ Away(d)' => m_wait_status'[d] = "EMPTY"
    <3>1. /\ m_waiting_for[d] => pc[d] \in Announced
          /\ Away(d) => m_wait_status[d] = "EMPTY"
      BY DEF SlotOK
    <3> QED
      BY <1>3, <3>1 DEF Away
  <2> QED
    BY <2>1, <2>2, <2>3
<1>6. /\ \A d \in Ctx : \A i \in 1..Len(stack'[d]) : m_waiting_for'[stack'[d][i].ctx]
      /\ \A d \in Ctx : victim'[d] \in Ctx => m_waiting_for'[victim'[d]]
  <2>1. \A d \in Ctx : \A i \in 1..Len(stack[d]) : stack[d][i].ctx \in Ctx
    BY OnPath
  <2> QED
    <3>1. ASSUME NEW d \in Ctx, NEW i \in 1..Len(stack[d]) PROVE m_waiting_for'[stack[d][i].ctx]
      <4>1. stack[d][i].ctx \in Ctx \ {c} /\ m_waiting_for[stack[d][i].ctx]
        BY <1>1, <2>1 DEF SlotOK, CanUpdateWaitingFor
      <4> QED
        BY <1>3, <4>1
    <3>2. ASSUME NEW d \in Ctx, victim[d] \in Ctx PROVE m_waiting_for'[victim[d]]
      <4>1. victim[d] \in Ctx \ {c} /\ m_waiting_for[victim[d]]
        BY <1>1, <3>2 DEF SlotOK, CanUpdateWaitingFor
      <4> QED
        BY <1>3, <4>1
    <3> QED
      BY <1>1, <3>1, <3>2
<1> QED
  BY <1>1, <1>3, <1>5, <1>6 DEF SlotOK

\* Facts about the constants.
LEMMA OverweightLimit == MaxOverweight \in Nat
BY MdlConstants

\* No context has the name that stands for none.
LEMMA NoCtxOutside == NoCtx \notin Ctx
BY MdlConstants

\* The weight of a context in a search.
LEMMA WeightType ==
  ASSUME SlotOK, NEW c \in Ctx
  PROVE  Weight(c) \in Nat
<1>1. m_deadlock_overweight[c] \in Nat
  BY DEF SlotOK
<1> QED
  BY <1>1, SMT DEF Weight, DEADLOCK_WEIGHT_FTWRL1, DEADLOCK_WEIGHT_DDL, DEADLOCK_WEIGHT_DML

\* SetVictim writes to the slot of a context that waits.
LEMMA SlotsVictim ==
  ASSUME IInv, SlotOK, NEW c \in Ctx, SetVictim(c)
  PROVE  SlotOK'
<1>0. /\ pc \in [Ctx -> PCs] /\ m_wait_status \in [Ctx -> WaitStatus]
      /\ m_deadlock_overweight \in [Ctx -> Nat] /\ DOMAIN victim = Ctx
  BY DEF IInv, Types, SlotOK
<1> USE <1>0
<1>1. PICK v, slot, n :
         /\ v = victim[c]
         /\ pc[c] = "victim" /\ \E l \in {"wait", "search"} : pc' = [pc EXCEPT ![c] = l]
         /\ m_wait_status' = [m_wait_status EXCEPT ![v] = slot]
         /\ n = Min({m_deadlock_overweight[v] + 1, MaxOverweight})
         /\ m_deadlock_overweight' = [m_deadlock_overweight EXCEPT ![v] = n]
         /\ victim' = [victim EXCEPT ![c] = NoCtx]
         /\ UNCHANGED <<call, m_waiting_for, stack>>
  BY DEF SetVictim, Goto
<1> USE <1>1
<1>2. v \in Ctx => m_waiting_for[v] /\ pc[v] \in WaitPC
  BY DEF SlotOK, Announced, WaitPC
<1>3. pc'[c] \in Announced /\ pc'[c] \in WaitPC /\ \A d \in Ctx \ {c} : pc'[d] = pc[d]
  BY DEF Announced, WaitPC
<1>4. \A d \in Ctx : d # v => m_wait_status'[d] = m_wait_status[d]
  OBVIOUS
<1>5. /\ \A d \in Ctx : m_waiting_for'[d] => pc'[d] \in Announced
      /\ \A d \in Ctx : Away(d)' => m_wait_status'[d] = "EMPTY"
  <2>1. ASSUME NEW d \in Ctx, Away(d)' PROVE m_wait_status'[d] = "EMPTY"
    <3>1. Away(d) /\ d # v
      BY <1>2, <1>3, <2>1 DEF Away
    <3> QED
      BY <1>4, <3>1 DEF SlotOK
  <2> QED
    BY <1>3, <2>1 DEF SlotOK
<1>6. m_deadlock_overweight' \in [Ctx -> Nat]
  <2>1. CASE v \in Ctx
    <3>1. n \in Nat
      <4>1. m_deadlock_overweight[v] + 1 \in Nat /\ MaxOverweight \in Nat
        BY <2>1, OverweightLimit, SMT
      <4> QED
        BY <4>1, MinOfTwo
    <3> QED
      BY <2>1, <3>1
  <2>2. CASE v \notin Ctx
    BY <2>2
  <2> QED
    BY <2>1, <2>2
<1>7. ASSUME NEW d \in Ctx, victim'[d] \in Ctx PROVE m_waiting_for'[victim'[d]]
  <2>1. d # c => victim'[d] = victim[d]
    OBVIOUS
  <2>2. d = c => victim'[d] = NoCtx
    OBVIOUS
  <2> QED
    BY <1>7, <2>1, <2>2, NoCtxOutside DEF SlotOK
<1> QED
  BY <1>5, <1>6, <1>7 DEF SlotOK

\* A search goes to contexts that wait, and chooses its victim among those on its path.
LEMMA SlotsVisit ==
  ASSUME IInv, SlotOK, NEW c \in Ctx, pc[c] = "search", NEW d \in Ctx,
         NEW st \in Seq(NodeType), \A i \in 1..Len(st) : m_waiting_for[st[i].ctx],
         Visit(c, d, st)
  PROVE  /\ stack' \in [Ctx -> Seq(NodeType)]
         /\ \A i \in 1..Len(stack'[c]) : m_waiting_for[stack'[c][i].ctx]
         /\ \A e \in Ctx \ {c} : stack'[e] = stack[e]
         /\ UNCHANGED pc \/ \E l \in {"wait", "victim"} : pc' = [pc EXCEPT ![c] = l]
         /\ \/ UNCHANGED victim
            \/ \E v : victim' = [victim EXCEPT ![c] = v] /\ m_waiting_for[v]
<1>0. stack \in [Ctx -> Seq(NodeType)]
  BY DEF SlotOK
<1>1. ASSUME NEW new \in Seq(NodeType), stack' = [stack EXCEPT ![c] = new],
             \A i \in 1..Len(new) : m_waiting_for[new[i].ctx]
      PROVE  /\ stack' \in [Ctx -> Seq(NodeType)]
             /\ \A i \in 1..Len(stack'[c]) : m_waiting_for[stack'[c][i].ctx]
             /\ \A e \in Ctx \ {c} : stack'[e] = stack[e]
  BY <1>0, <1>1
<1>2. CASE ~m_waiting_for[d]
  <2>1. stack' = [stack EXCEPT ![c] = st] /\ UNCHANGED <<victim, pc>>
    BY <1>2 DEF Visit
  <2> QED
    BY <1>1, <2>1
<1>3. CASE m_waiting_for[d]
  <2>0. PICK t, next, path :
           /\ t = NewTicket(d) /\ next = Blockers(t)
           /\ path = [i \in 1..Len(st) + 1 |-> IF i <= Len(st) THEN st[i].ctx ELSE d]
    OBVIOUS
  <2>1. \/ /\ stack' = [stack EXCEPT ![c] = st]
           /\ UNCHANGED victim /\ (UNCHANGED pc \/ pc' = [pc EXCEPT ![c] = "wait"])
        \/ /\ victim' = [victim EXCEPT ![c] = LightestOf(path)]
           /\ stack' = [stack EXCEPT ![c] = <<>>]
           /\ pc' = [pc EXCEPT ![c] = "victim"]
        \/ /\ stack' = [stack EXCEPT ![c] =
                            Append(st, [ctx |-> d, key |-> KeyOf(t), todo |-> next])]
           /\ UNCHANGED <<victim, pc>>
    BY <1>3, <2>0 DEF Visit, Goto
  <2>2. CASE /\ stack' = [stack EXCEPT ![c] = st]
             /\ UNCHANGED victim /\ (UNCHANGED pc \/ pc' = [pc EXCEPT ![c] = "wait"])
    BY <1>1, <2>2
  <2>3. CASE /\ victim' = [victim EXCEPT ![c] = LightestOf(path)]
             /\ stack' = [stack EXCEPT ![c] = <<>>]
             /\ pc' = [pc EXCEPT ![c] = "victim"]
    <3>1. /\ <<>> \in Seq(NodeType) /\ \A i \in 1..Len(<<>>) : m_waiting_for[<<>>[i].ctx]
      BY SMT
    <3>2. m_waiting_for[LightestOf(path)]
      <4>1. /\ Len(path) = Len(st) + 1 /\ Len(path) \in Nat /\ Len(path) > 0
            /\ \A i \in 1..Len(path) : path[i] \in Ctx /\ m_waiting_for[path[i]]
        <5>1. PICK k : k = Len(st)
          OBVIOUS
        <5>2. k \in Nat /\ \A i \in 1..k : st[i] \in NodeType /\ m_waiting_for[st[i].ctx]
          BY <5>1, SMT
        <5>3. \A i \in 1..k : st[i].ctx \in Ctx
          BY <5>2 DEF NodeType
        <5>4. path = [i \in 1..k + 1 |-> IF i <= k THEN st[i].ctx ELSE d]
          BY <2>0, <5>1
        <5>5. Len(path) = k + 1 /\ DOMAIN path = 1..k + 1
          BY <5>2, <5>4, SMT
        <5>6. ASSUME NEW i \in 1..k + 1 PROVE path[i] \in Ctx /\ m_waiting_for[path[i]]
          <6>1. path[i] = IF i <= k THEN st[i].ctx ELSE d
            BY <5>4
          <6>2. i <= k => i \in 1..k
            BY <5>2, SMT
          <6> QED
            BY <1>3, <5>2, <5>3, <6>1, <6>2
        <5> QED
          BY <5>1, <5>2, <5>5, <5>6, SMT
      <4>2. PICK n : n = Len(path)
        OBVIOUS
      <4>3. [i \in 1..n |-> Weight(path[i])] \in [1..n -> Nat]
        BY <4>1, <4>2, WeightType
      <4>4. \E i \in 1..n : \A j \in 1..n :
               \/ Weight(path[i]) < Weight(path[j])
               \/ Weight(path[i]) = Weight(path[j]) /\ i <= j
        <5>1. PICK w : w = [i \in 1..n |-> Weight(path[i])]
          OBVIOUS
        <5>2. \E i \in 1..n : \A j \in 1..n : w[i] < w[j] \/ (w[i] = w[j] /\ i <= j)
          <6>1. n \in Nat /\ n > 0 /\ w \in [1..n -> Nat]
            BY <4>1, <4>2, <4>3, <5>1
          <6> QED
            BY <6>1, Lightest
        <5>3. \A i \in 1..n : w[i] = Weight(path[i])
          BY <5>1
        <5> QED
          BY <5>2, <5>3
      <4>5. \E i \in 1..n : LightestOf(path) = path[i]
        BY <4>2, <4>4 DEF LightestOf
      <4> QED
        BY <4>1, <4>2, <4>5
    <3> QED
      BY <1>1, <2>3, <3>1, <3>2
  <2>4. CASE /\ stack' = [stack EXCEPT ![c] =
                              Append(st, [ctx |-> d, key |-> KeyOf(t), todo |-> next])]
             /\ UNCHANGED <<victim, pc>>
    <3>1. PICK node : node = [ctx |-> d, key |-> KeyOf(t), todo |-> next]
      OBVIOUS
    <3>2. node \in NodeType /\ node.ctx = d
      <4>1. pc[d] \in WaitPC
        BY <1>3 DEF SlotOK, Announced, WaitPC
      <4>2. Has(d, call[d].new)
        BY <4>1, CtxFacts DEF Control
      <4>3. KeyOf(t) \in Key
        BY <2>0, <4>2, TicketFacts DEF NewTicket
      <4>4. next \subseteq Ticket
        BY <2>0, <4>3, LockFacts DEF Blockers
      <4> QED
        BY <3>1, <4>3, <4>4 DEF NodeType
    <3>3. Append(st, node) \in Seq(NodeType)
      BY <3>2, SMT
    <3>4. ASSUME NEW i \in 1..Len(Append(st, node))
          PROVE  m_waiting_for[Append(st, node)[i].ctx]
      <4>1. (i \in 1..Len(st) /\ Append(st, node)[i] = st[i]) \/ Append(st, node)[i] = node
        BY <3>2, SMT
      <4> QED
        BY <1>3, <3>2, <4>1
    <3> QED
      BY <1>1, <2>4, <3>1, <3>3, <3>4
  <2> QED
    BY <2>1, <2>2, <2>3, <2>4
<1> QED
  BY <1>2, <1>3

\* A step of find_deadlock().
LEMMA SlotsSearch ==
  ASSUME IInv, SlotOK, NEW c \in Ctx, FindDeadlock(c)
  PROVE  SlotOK'
<1>0. /\ pc \in [Ctx -> PCs] /\ pc[c] = "search"
      /\ UNCHANGED <<call, m_wait_status, m_waiting_for, m_deadlock_overweight>>
  BY DEF IInv, Types, FindDeadlock, waitVars
<1>1. PICK st : st = stack[c]
  OBVIOUS
<1>2. PICK n : n = Len(st)
  OBVIOUS
<1>3. /\ stack \in [Ctx -> Seq(NodeType)] /\ st \in Seq(NodeType) /\ n \in Nat
      /\ \A i \in 1..n : m_waiting_for[st[i].ctx]
  BY <1>1, <1>2, Elements DEF SlotOK
<1>4. /\ stack' \in [Ctx -> Seq(NodeType)]
      /\ \A i \in 1..Len(stack'[c]) : m_waiting_for[stack'[c][i].ctx]
      /\ \A e \in Ctx \ {c} : stack'[e] = stack[e]
      /\ UNCHANGED pc \/ \E l \in {"wait", "victim"} : pc' = [pc EXCEPT ![c] = l]
      /\ \/ UNCHANGED victim
         \/ \E v : victim' = [victim EXCEPT ![c] = v] /\ m_waiting_for[v]
  <2>1. \/ Visit(c, c, <<>>)
        \/ st # <<>> /\ \E u \in st[n].todo : Visit(c, u[1], [st EXCEPT ![n].todo = @ \ {u}])
        \/ /\ st # <<>> /\ stack' = [stack EXCEPT ![c] = SubSeq(st, 1, n - 1)]
           /\ UNCHANGED pc \/ pc' = [pc EXCEPT ![c] = "wait"]
           /\ UNCHANGED victim
    BY <1>1, <1>2 DEF FindDeadlock, Goto
  <2>2. CASE Visit(c, c, <<>>)
    <3>1. <<>> \in Seq(NodeType) /\ \A i \in 1..Len(<<>>) : m_waiting_for[<<>>[i].ctx]
      BY SMT
    <3> QED
      BY <1>0, <2>2, <3>1, SlotsVisit
  <2>3. CASE st # <<>> /\ \E u \in st[n].todo :
                             Visit(c, u[1], [st EXCEPT ![n].todo = @ \ {u}])
    <3>1. PICK u \in st[n].todo : Visit(c, u[1], [st EXCEPT ![n].todo = @ \ {u}])
      BY <2>3
    <3>2. n \in 1..n /\ st[n] \in NodeType
      BY <1>2, <1>3, <2>3, Pop
    <3>3. u \in Ticket /\ u[1] \in Ctx
      BY <3>1, <3>2 DEF NodeType, Ticket
    <3>4. PICK new : new = [st EXCEPT ![n].todo = @ \ {u}]
      OBVIOUS
    <3>5. /\ new \in Seq(NodeType) /\ Len(new) = n
          /\ \A i \in 1..n : new[i].ctx = st[i].ctx
      <4>1. PICK node : node = [st[n] EXCEPT !.todo = @ \ {u}]
        OBVIOUS
      <4>2. node \in NodeType /\ node.ctx = st[n].ctx
        BY <3>2, <4>1 DEF NodeType
      <4>3. new = [st EXCEPT ![n] = node]
        BY <3>4, <4>1
      <4>4. /\ new \in Seq(NodeType) /\ Len(new) = n
            /\ \A i \in 1..n : new[i] = IF i = n THEN node ELSE st[i]
        <5>1. n \in 1..Len(st)
          BY <1>2, <3>2
        <5>2. /\ new \in Seq(NodeType) /\ Len(new) = Len(st)
              /\ \A i \in 1..Len(st) : new[i] = IF i = n THEN node ELSE st[i]
          BY <1>3, <4>2, <4>3, <5>1, Replace, SMT
        <5> QED
          BY <1>2, <5>2
      <4> QED
        BY <4>2, <4>4
    <3>6. Visit(c, u[1], new) /\ \A i \in 1..Len(new) : m_waiting_for[new[i].ctx]
      BY <1>3, <3>1, <3>4, <3>5
    <3> QED
      BY <1>0, <3>3, <3>5, <3>6, SlotsVisit
  <2>4. CASE /\ st # <<>> /\ stack' = [stack EXCEPT ![c] = SubSeq(st, 1, n - 1)]
             /\ UNCHANGED pc \/ pc' = [pc EXCEPT ![c] = "wait"]
             /\ UNCHANGED victim
    <3>1. PICK new : new = SubSeq(st, 1, n - 1)
      OBVIOUS
    <3>2. /\ new \in Seq(NodeType) /\ Len(new) = n - 1
          /\ \A i \in 1..n - 1 : i \in 1..n /\ new[i] = st[i]
      BY <1>2, <1>3, <2>4, <3>1, Pop
    <3>3. \A i \in 1..Len(new) : m_waiting_for[new[i].ctx]
      BY <1>3, <3>2
    <3> QED
      BY <1>3, <2>4, <3>1, <3>2, <3>3
  <2> QED
    BY <2>1, <2>2, <2>3, <2>4
<1>5. pc'[c] \in Announced /\ pc'[c] \in WaitPC /\ \A d \in Ctx \ {c} : pc'[d] = pc[d]
  BY <1>0, <1>4 DEF Announced, WaitPC
<1>6. /\ \A d \in Ctx : m_waiting_for'[d] => pc'[d] \in Announced
      /\ \A d \in Ctx : Away(d)' => m_wait_status'[d] = "EMPTY"
  BY <1>0, <1>5 DEF SlotOK, Away
<1>7. ASSUME NEW d \in Ctx, victim'[d] \in Ctx PROVE m_waiting_for'[victim'[d]]
  <2>1. DOMAIN victim = Ctx
    BY DEF SlotOK
  <2>2. victim'[d] = victim[d] \/ m_waiting_for[victim'[d]]
    BY <1>4, <2>1
  <2> QED
    BY <1>0, <1>7, <2>2 DEF SlotOK
<1>8. ASSUME NEW d \in Ctx, NEW i \in 1..Len(stack'[d]) PROVE m_waiting_for'[stack'[d][i].ctx]
  BY <1>0, <1>4, <1>8 DEF SlotOK
<1> QED
  BY <1>0, <1>4, <1>6, <1>7, <1>8 DEF SlotOK

\* The invariant of the wait slots holds at all times.
LEMMA SlotsNext ==
  ASSUME IInv, IterOK, SlotOK, [Next]_vars
  PROVE  SlotOK'
<1>1. CASE UNCHANGED vars
  BY <1>1 DEF vars, waitVars, searchVars, SlotOK, Away
<1>2. ASSUME NEW c \in Ctx, Proceed(c) PROVE SlotOK'
  BY <1>2, NoLaneSteps, SlotsOpen, SlotsClose, SlotsGrant, SlotsReturn, SlotsDone,
     SlotsSearch, SlotsVictim DEF Proceed
<1> QED
  BY <1>1, <1>2, SlotsOpen, SlotsReturn DEF Next

----------------------------------------------------------------------------
(* Sequences, types and counters *)

\* Removing an element of a list takes it out and leaves the others.
LEMMA WithoutElement ==
  ASSUME NEW S, NEW s \in Seq(S), NEW e, IsInjective(s)
  PROVE  /\ Without(s, e) \in Seq(S)
         /\ IsInjective(Without(s, e))
         /\ Range(Without(s, e)) = Range(s) \ {e}
<1> DEFINE i == CHOOSE i \in DOMAIN s : s[i] = e
           w == [j \in 1..Len(s) - 1 |-> IF j < i THEN s[j] ELSE s[j + 1]]
<1>0. Len(s) \in Nat /\ DOMAIN s = 1..Len(s) /\ \A j \in 1..Len(s) : s[j] \in S
  BY SMT
<1>1. CASE e \notin Range(s)
  BY <1>1, SMT DEF Without
<1>2. CASE e \in Range(s)
  <2>1. i \in 1..Len(s) /\ s[i] = e
    BY <1>0, <1>2, SMT DEF Range
  <2>2. Without(s, e) = w
    BY <1>2, SMT DEF Without
  <2> HIDE DEF i
  <2>3. Len(s) - 1 \in Nat
    BY <1>0, <2>1, SMT
  <2>4. w \in Seq(S) /\ Len(w) = Len(s) - 1 /\ DOMAIN w = 1..Len(s) - 1
    BY <1>0, <2>1, <2>3, SMT
  <2>5. \A j, l \in DOMAIN w : w[j] = w[l] => j = l
    BY <1>0, <2>1, <2>3, SMT DEF IsInjective
  <2>6. \A x : x \in Range(w) <=> x \in Range(s) /\ x # e
    <3>1. ASSUME NEW j \in 1..Len(s) - 1
          PROVE  w[j] \in Range(s) /\ w[j] # e
      BY <1>0, <2>1, <2>3, SMT DEF IsInjective, Range
    <3>2. ASSUME NEW l \in 1..Len(s), s[l] # e
          PROVE  \E j \in 1..Len(s) - 1 : w[j] = s[l]
      <4>1. CASE l < i
        BY <1>0, <2>1, <2>3, <4>1, SMT
      <4>2. CASE l > i
        <5>1. l - 1 \in 1..Len(s) - 1 /\ ~(l - 1 < i) /\ (l - 1) + 1 = l
          BY <1>0, <2>1, <2>3, <4>2, SMT
        <5> QED
          BY <5>1, SMT
      <4> QED
        BY <2>1, <3>2, <4>1, <4>2, SMT
    <3> HIDE DEF w
    <3>3. ASSUME NEW x \in Range(w) PROVE x \in Range(s) /\ x # e
      <4>1. PICK j \in 1..Len(s) - 1 : x = w[j]
        BY <2>4, SMT DEF Range
      <4> QED
        BY <3>1, <4>1, SMT
    <3>4. ASSUME NEW x \in Range(s), x # e PROVE x \in Range(w)
      <4>1. PICK l \in 1..Len(s) : x = s[l]
        BY <1>0, SMT DEF Range
      <4>2. PICK j \in 1..Len(s) - 1 : w[j] = s[l]
        BY <3>2, <3>4, <4>1, SMT
      <4> QED
        BY <2>4, <4>1, <4>2 DEF Range
    <3> QED
      BY <3>3, <3>4, SMT
  <2> HIDE DEF w
  <2> QED
    BY <2>2, <2>4, <2>5, <2>6, SMT DEF IsInjective
<1> QED
  BY <1>1, <1>2, SMT

\* Adding an element that is not there.
LEMMA AppendElement ==
  ASSUME NEW S, NEW s \in Seq(S), NEW e \in S, IsInjective(s), e \notin Range(s)
  PROVE  /\ Append(s, e) \in Seq(S)
         /\ IsInjective(Append(s, e))
         /\ Range(Append(s, e)) = Range(s) \cup {e}
<1>1. /\ Len(s) \in Nat /\ DOMAIN s = 1..Len(s)
      /\ DOMAIN Append(s, e) = 1..Len(s) + 1
      /\ \A j \in 1..Len(s) : Append(s, e)[j] = s[j]
      /\ Append(s, e)[Len(s) + 1] = e
  BY SMT
<1>2. \A j \in 1..Len(s) + 1 : j \in 1..Len(s) \/ j = Len(s) + 1
  BY <1>1, SMT
<1>3. 1..Len(s) \subseteq 1..Len(s) + 1 /\ Len(s) + 1 \in 1..Len(s) + 1
  BY <1>1, SMT
<1> QED
  BY <1>1, <1>2, <1>3, SMT DEF IsInjective, Range

\* The rules for tables and schemas are symmetric.
LEMMA IncompatibleSymmetric ==
  ASSUME Backup = {}, NEW k \in Key, NEW ty \in TypesOf(k), NEW tz \in TypesOf(k)
  PROVE  ty \in GrantedIncompatible(k, tz) <=> tz \in GrantedIncompatible(k, ty)
<1>1. CASE k \in Table
  BY <1>1, SMT DEF TypesOf, GrantedIncompatible, Rule, ObjectGrantedIncompatible, ObjectType
<1>2. CASE k \notin Table
  BY <1>2, SMT DEF Key, TypesOf, GrantedIncompatible, Rule, ScopedGrantedIncompatible, ScopedType
<1> QED
  BY <1>1, <1>2, SMT

\* The numbers of tickets of a type.
LEMMA TicketsFinite == IsFiniteSet(Ticket) /\ Cardinality(Ticket) \in Nat
<1>1. IsFiniteSet(Slot)
  BY MdlConstants, FS_Interval, SMT DEF Slot
<1> QED
  BY <1>1, MdlConstants, FS_Product, FS_CardinalityType, SMT DEF Ticket

\* The number of tickets of a type is a natural number, positive if there is such a ticket.
LEMMA NumberBounds ==
  ASSUME NEW ts \in SUBSET Ticket, NEW type, NEW ty
  PROVE  /\ Number(ts, type, ty) \in Nat
         /\ Number(ts, type, ty) <= Cardinality(Ticket)
         /\ \A t \in ts : type[t] = ty => Number(ts, type, ty) > 0
         /\ Number(ts, type, ty) > 0 => \E t \in ts : type[t] = ty
<1> DEFINE S == {t \in ts : type[t] = ty}
<1>1. S \in SUBSET Ticket
  BY SMT
<1>2. IsFiniteSet(S) /\ Cardinality(S) \in Nat /\ Cardinality(S) <= Cardinality(Ticket)
  BY <1>1, TicketsFinite, FS_Subset, FS_CardinalityType, SMT
<1>3. Cardinality(S) = 0 <=> S = {}
  BY <1>2, FS_EmptySet, SMT
<1> QED
  BY <1>2, <1>3, SMT DEF Number

\* Without disconnects the bitmaps and counters describe the lists.
LEMMA ExactBitmaps ==
  ASSUME Disconnecting = {}, IInv
  PROVE  BitmapsExact
<1>1. gone = {} /\ Lost = {} /\ Cardinality(Lost) = 0
  BY FS_EmptySet DEF IInv, Types, Lost
<1>2. SUFFICES ASSUME NEW k \in Key
               PROVE  /\ lock[k].bitmap.granted = {TypeOf(t) : t \in lock[k].granted}
                      /\ lock[k].bitmap.waiting = {TypeOf(t) : t \in Range(lock[k].waiting)}
                      /\ \A ty \in TypesOf(k) :
                            /\ lock[k].count.granted[ty] =
                               Cardinality({t \in lock[k].granted : TypeOf(t) = ty})
                            /\ lock[k].count.waiting[ty] =
                               Cardinality({t \in Range(lock[k].waiting) : TypeOf(t) = ty})
  BY DEF BitmapsExact
<1>3. /\ lock[k] \in LockType(k)
      /\ lock[k].granted \in SUBSET Ticket /\ Range(lock[k].waiting) \in SUBSET Ticket
      /\ \A u \in lock[k].granted \cup Range(lock[k].waiting) : TypeOf(u) \in TypesOf(k)
      /\ GrantedTally(k, lock[k], types, 0) /\ WaitingTally(k, lock[k], types)
  BY <1>1, LockFacts
<1> USE <1>3
<1>4. /\ lock[k].bitmap.granted \subseteq TypesOf(k)
      /\ lock[k].bitmap.waiting \subseteq TypesOf(k)
      /\ \A ty \in TypesOf(k) : lock[k].count.granted[ty] \in Nat
  <2>1. lock[k].bitmap \in [granted : SUBSET TypesOf(k), waiting : SUBSET TypesOf(k)]
    BY DEF LockType
  <2>2. lock[k].count.granted \in Counters(k)
    BY DEF LockType
  <2>3. 0 .. CounterRange - 1 \subseteq Nat
    BY SMT
  <2> QED
    BY <2>1, <2>2, <2>3 DEF Counters
<1>5. ASSUME NEW ts \in SUBSET Ticket, NEW bits, bits \subseteq TypesOf(k),
             \A u \in ts : TypeOf(u) \in TypesOf(k),
             \A ty \in TypesOf(k) : ty \in bits <=> Number(ts, types, ty) > 0
      PROVE  bits = {TypeOf(t) : t \in ts}
  <2>1. \A t \in ts : types[t] = TypeOf(t)
    BY DEF types
  <2>2. ASSUME NEW ty \in TypesOf(k)
        PROVE  ty \in bits <=> \E t \in ts : TypeOf(t) = ty
    <3>1. Number(ts, types, ty) > 0 <=> \E t \in ts : types[t] = ty
      BY NumberBounds, SMT
    <3> QED
      BY <1>5, <2>1, <3>1
  <2> QED
    BY <1>5, <2>2
<1>6. ASSUME NEW ts \in SUBSET Ticket, NEW ty
      PROVE  Number(ts, types, ty) = Cardinality({t \in ts : TypeOf(t) = ty})
  <2>1. {t \in ts : types[t] = ty} = {t \in ts : TypeOf(t) = ty}
    BY SMT DEF types
  <2> QED
    BY <2>1 DEF Number
<1>7. ASSUME NEW ty \in TypesOf(k)
      PROVE  /\ lock[k].count.granted[ty] = Number(lock[k].granted, types, ty)
             /\ ty \in lock[k].bitmap.granted <=> Number(lock[k].granted, types, ty) > 0
             /\ lock[k].count.waiting[ty] = Number(Range(lock[k].waiting), types, ty)
             /\ ty \in lock[k].bitmap.waiting <=> Number(Range(lock[k].waiting), types, ty) > 0
  <2>1. Number(lock[k].granted, types, ty) \in Nat
    BY NumberBounds
  <2>2. /\ Number(lock[k].granted, types, ty) <= lock[k].count.granted[ty]
        /\ lock[k].count.granted[ty] <= Number(lock[k].granted, types, ty) + 0
        /\ ty \in lock[k].bitmap.granted <=> lock[k].count.granted[ty] > 0
    BY DEF GrantedTally
  <2>3. lock[k].count.granted[ty] = Number(lock[k].granted, types, ty)
    <3>1. \A a, b \in Nat : a <= b /\ b <= a + 0 => b = a
      BY SMT
    <3> QED
      BY <1>4, <2>1, <2>2, <3>1
  <2> QED
    BY <2>2, <2>3 DEF WaitingTally
<1>8. lock[k].bitmap.granted = {TypeOf(t) : t \in lock[k].granted}
  BY <1>4, <1>5, <1>7
<1>9. lock[k].bitmap.waiting = {TypeOf(t) : t \in Range(lock[k].waiting)}
  BY <1>4, <1>5, <1>7
<1>10. ASSUME NEW ty \in TypesOf(k)
       PROVE  /\ lock[k].count.granted[ty] =
                 Cardinality({t \in lock[k].granted : TypeOf(t) = ty})
              /\ lock[k].count.waiting[ty] =
                 Cardinality({t \in Range(lock[k].waiting) : TypeOf(t) = ty})
  BY <1>6, <1>7
<1> QED
  BY <1>8, <1>9, <1>10

\* It depends on the types of the tickets counted only.
LEMMA NumberSame ==
  ASSUME NEW ts, NEW type, NEW new, NEW ty, \A t \in ts : type[t] = new[t]
  PROVE  Number(ts, type, ty) = Number(ts, new, ty)
<1>1. {t \in ts : type[t] = ty} = {t \in ts : new[t] = ty}
  BY SMT
<1> QED
  BY <1>1, SMT DEF Number

\* A ticket that joins a list counts once, for its type.
LEMMA NumberAdd ==
  ASSUME NEW ts \in SUBSET Ticket, NEW type, NEW ty, NEW t \in Ticket, t \notin ts
  PROVE  Number(ts \cup {t}, type, ty) =
         Number(ts, type, ty) + IF type[t] = ty THEN 1 ELSE 0
<1> DEFINE S == {u \in ts : type[u] = ty}
<1>1. S \in SUBSET Ticket
  BY SMT
<1>2. IsFiniteSet(S) /\ Cardinality(S) \in Nat
  BY <1>1, TicketsFinite, FS_Subset, FS_CardinalityType, SMT
<1>3. CASE type[t] = ty
  <2>1. {u \in ts \cup {t} : type[u] = ty} = S \cup {t}
    BY <1>3, SMT
  <2>2. Cardinality(S \cup {t}) = Cardinality(S) + 1
    BY <1>2, FS_AddElement
  <2> QED
    BY <1>3, <2>1, <2>2, SMT DEF Number
<1>4. CASE type[t] # ty
  <2>1. {u \in ts \cup {t} : type[u] = ty} = S
    BY <1>4, SMT
  <2> QED
    BY <1>2, <1>4, <2>1, SMT DEF Number
<1> QED
  BY <1>3, <1>4, SMT

\* A ticket that leaves a list no longer counts.
LEMMA NumberRemove ==
  ASSUME NEW ts \in SUBSET Ticket, NEW type, NEW ty, NEW t \in ts
  PROVE  Number(ts \ {t}, type, ty) =
         Number(ts, type, ty) - IF type[t] = ty THEN 1 ELSE 0
<1>1. ts \ {t} \in SUBSET Ticket /\ t \in Ticket /\ t \notin ts \ {t} /\ (ts \ {t}) \cup {t} = ts
  BY SMT
<1>2. Number(ts, type, ty) = Number(ts \ {t}, type, ty) + IF type[t] = ty THEN 1 ELSE 0
  BY <1>1, NumberAdd, SMT
<1>3. Number(ts, type, ty) \in Nat /\ Number(ts \ {t}, type, ty) \in Nat
  BY <1>1, NumberBounds, SMT
<1> QED
  BY <1>2, <1>3, SMT

----------------------------------------------------------------------------
(* The operations on a lock *)

\* The counters stay in their range.
LEMMA Modulo ==
  ASSUME NEW n \in 0 .. CounterRange - 1
  PROVE  /\ (n + 1) % CounterRange \in 0 .. CounterRange - 1
         /\ (n - 1) % CounterRange \in 0 .. CounterRange - 1
         /\ n + 1 < CounterRange => (n + 1) % CounterRange = n + 1
         /\ n > 0 => (n - 1) % CounterRange = n - 1
<1>1. CounterRange \in Nat /\ CounterRange > 0
  BY MdlConstants, SMT
<1> QED
  BY <1>1, SMT

\* What the operations on the lists do to the parts of a lock.
GrantedAdded(k, lk, r, t, ty) ==
    /\ r \in LockType(k)
    /\ r.granted = lk.granted \cup {t} /\ r.waiting = lk.waiting
    /\ r.bitmap.granted = lk.bitmap.granted \cup {ty}
    /\ r.bitmap.waiting = lk.bitmap.waiting
    /\ r.count.granted =
          [lk.count.granted EXCEPT ![ty] = (lk.count.granted[ty] + 1) % CounterRange]
    /\ r.count.waiting = lk.count.waiting
\* The same for m_waiting, and for remove_ticket().
WaitingAdded(k, lk, r, t, ty) ==
    /\ r \in LockType(k)
    /\ r.granted = lk.granted /\ r.waiting = Append(lk.waiting, t)
    /\ r.bitmap.waiting = lk.bitmap.waiting \cup {ty}
    /\ r.bitmap.granted = lk.bitmap.granted
    /\ r.count.waiting =
          [lk.count.waiting EXCEPT ![ty] = (lk.count.waiting[ty] + 1) % CounterRange]
    /\ r.count.granted = lk.count.granted
GrantedRemoved(k, lk, r, t, ty) ==
    /\ r \in LockType(k)
    /\ r.granted = lk.granted \ {t} /\ r.waiting = Without(lk.waiting, t)
    /\ r.bitmap.granted = (IF (lk.count.granted[ty] - 1) % CounterRange = 0
                          THEN lk.bitmap.granted \ {ty} ELSE lk.bitmap.granted)
    /\ r.bitmap.waiting = lk.bitmap.waiting
    /\ r.count.granted =
          [lk.count.granted EXCEPT ![ty] = (lk.count.granted[ty] - 1) % CounterRange]
    /\ r.count.waiting = lk.count.waiting
WaitingRemoved(k, lk, r, t, ty) ==
    /\ r \in LockType(k)
    /\ r.granted = lk.granted \ {t} /\ r.waiting = Without(lk.waiting, t)
    /\ r.bitmap.waiting = (IF (lk.count.waiting[ty] - 1) % CounterRange = 0
                          THEN lk.bitmap.waiting \ {ty} ELSE lk.bitmap.waiting)
    /\ r.bitmap.granted = lk.bitmap.granted
    /\ r.count.waiting =
          [lk.count.waiting EXCEPT ![ty] = (lk.count.waiting[ty] - 1) % CounterRange]
    /\ r.count.granted = lk.count.granted

\* Ticket_list::add_ticket() on m_granted,
LEMMA AddGrantedIs ==
  ASSUME NEW k, NEW lk \in LockType(k), NEW t \in Ticket, NEW ty \in TypesOf(k)
  PROVE  GrantedAdded(k, lk, AddGranted(lk, t, ty), t, ty)
<1> DEFINE b == lk.bitmap.granted \cup {ty}
           n == (lk.count.granted[ty] + 1) % CounterRange
           m == CountAdd(lk, "granted", ty)
<1>1. b \in SUBSET TypesOf(k) /\ lk.count.granted[ty] \in 0 .. CounterRange - 1
  BY SMT DEF LockType, Counters
<1>2. n \in 0 .. CounterRange - 1
  BY <1>1, Modulo, SMT
<1>3. m = [lk EXCEPT !.bitmap["granted"] = b, !.count["granted"][ty] = n]
  BY SMT DEF CountAdd, LockType
<1> HIDE DEF b, n, m
<1>4. /\ m \in LockType(k)
      /\ m.granted = lk.granted /\ m.waiting = lk.waiting
      /\ m.bitmap.granted = b /\ m.bitmap.waiting = lk.bitmap.waiting
      /\ m.count.granted = [lk.count.granted EXCEPT ![ty] = n]
      /\ m.count.waiting = lk.count.waiting
  BY <1>1, <1>2, <1>3 DEF LockType, Counters
<1>5. AddGranted(lk, t, ty) = [m EXCEPT !.granted = @ \cup {t}]
  BY SMT DEF AddGranted, m
<1> QED
  BY <1>4, <1>5, SMT DEF LockType, GrantedAdded, b, n

\* add_ticket() on m_waiting,
LEMMA AddWaitingIs ==
  ASSUME NEW k, NEW lk \in LockType(k), NEW t \in Ticket, NEW ty \in TypesOf(k)
  PROVE  WaitingAdded(k, lk, AddWaiting(lk, t, ty), t, ty)
<1> DEFINE b == lk.bitmap.waiting \cup {ty}
           n == (lk.count.waiting[ty] + 1) % CounterRange
           m == CountAdd(lk, "waiting", ty)
<1>1. b \in SUBSET TypesOf(k) /\ lk.count.waiting[ty] \in 0 .. CounterRange - 1
  BY SMT DEF LockType, Counters
<1>2. n \in 0 .. CounterRange - 1
  BY <1>1, Modulo, SMT
<1>3. m = [lk EXCEPT !.bitmap["waiting"] = b, !.count["waiting"][ty] = n]
  BY SMT DEF CountAdd, LockType
<1> HIDE DEF b, n, m
<1>4. /\ m \in LockType(k)
      /\ m.granted = lk.granted /\ m.waiting = lk.waiting
      /\ m.bitmap.waiting = b /\ m.bitmap.granted = lk.bitmap.granted
      /\ m.count.waiting = [lk.count.waiting EXCEPT ![ty] = n]
      /\ m.count.granted = lk.count.granted
  BY <1>1, <1>2, <1>3 DEF LockType, Counters
<1> DEFINE w == Append(lk.waiting, t)
<1>5. AddWaiting(lk, t, ty) = [m EXCEPT !.waiting = w]
  BY <1>4 DEF AddWaiting, m
<1>6. w \in Seq(Ticket)
  BY SMT DEF LockType
<1> HIDE DEF w
<1>7. [m EXCEPT !.waiting = w] \in LockType(k)
  BY <1>4, <1>6 DEF LockType
<1> QED
  BY <1>4, <1>5, <1>7 DEF LockType, WaitingAdded, b, n, w

\* Ticket_list::remove_ticket() on m_granted,
LEMMA RemoveGrantedIs ==
  ASSUME NEW k, NEW lk \in LockType(k), NEW t \in Ticket, NEW ty \in TypesOf(k),
         IsInjective(lk.waiting)
  PROVE  GrantedRemoved(k, lk, Remove(lk, "granted", t, ty), t, ty)
<1> DEFINE b == (IF (lk.count.granted[ty] - 1) % CounterRange = 0
                               THEN lk.bitmap.granted \ {ty} ELSE lk.bitmap.granted)
           n == (lk.count.granted[ty] - 1) % CounterRange
           m == CountRemove(lk, "granted", ty)
<1>1. b \in SUBSET TypesOf(k) /\ lk.count.granted[ty] \in 0 .. CounterRange - 1
  BY SMT DEF LockType, Counters
<1>2. n \in 0 .. CounterRange - 1
  BY <1>1, Modulo
<1>3. m = [lk EXCEPT !.bitmap["granted"] = b, !.count["granted"][ty] = n]
  BY SMT DEF CountRemove, LockType
<1> HIDE DEF b, n, m
<1>4. /\ m \in LockType(k)
      /\ m.granted = lk.granted /\ m.waiting = lk.waiting
      /\ m.bitmap.granted = b /\ m.bitmap.waiting = lk.bitmap.waiting
      /\ m.count.granted = [lk.count.granted EXCEPT ![ty] = n]
      /\ m.count.waiting = lk.count.waiting
  BY <1>1, <1>2, <1>3 DEF LockType, Counters
<1>5. Remove(lk, "granted", t, ty) =
         [m EXCEPT !.granted = lk.granted \ {t}, !.waiting = Without(lk.waiting, t)]
  BY <1>4 DEF Remove, m
<1>6. Without(lk.waiting, t) \in Seq(Ticket)
  BY WithoutElement, SMT DEF LockType
<1> QED
  BY <1>4, <1>5, <1>6 DEF LockType, GrantedRemoved, b, n

\* and on m_waiting.
LEMMA RemoveWaitingIs ==
  ASSUME NEW k, NEW lk \in LockType(k), NEW t \in Ticket, NEW ty \in TypesOf(k),
         IsInjective(lk.waiting)
  PROVE  WaitingRemoved(k, lk, Remove(lk, "waiting", t, ty), t, ty)
<1> DEFINE b == (IF (lk.count.waiting[ty] - 1) % CounterRange = 0
                               THEN lk.bitmap.waiting \ {ty} ELSE lk.bitmap.waiting)
           n == (lk.count.waiting[ty] - 1) % CounterRange
           m == CountRemove(lk, "waiting", ty)
<1>1. b \in SUBSET TypesOf(k) /\ lk.count.waiting[ty] \in 0 .. CounterRange - 1
  BY SMT DEF LockType, Counters
<1>2. n \in 0 .. CounterRange - 1
  BY <1>1, Modulo, SMT
<1>3. m = [lk EXCEPT !.bitmap["waiting"] = b, !.count["waiting"][ty] = n]
  BY SMT DEF CountRemove, LockType
<1> HIDE DEF b, n, m
<1>4. /\ m \in LockType(k)
      /\ m.granted = lk.granted /\ m.waiting = lk.waiting
      /\ m.bitmap.waiting = b /\ m.bitmap.granted = lk.bitmap.granted
      /\ m.count.waiting = [lk.count.waiting EXCEPT ![ty] = n]
      /\ m.count.granted = lk.count.granted
  BY <1>1, <1>2, <1>3 DEF LockType, Counters
<1>5. Remove(lk, "waiting", t, ty) =
         [m EXCEPT !.granted = lk.granted \ {t}, !.waiting = Without(lk.waiting, t)]
  BY <1>4 DEF Remove, m
<1>6. Without(lk.waiting, t) \in Seq(Ticket)
  BY WithoutElement, SMT DEF LockType
<1> QED
  BY <1>4, <1>5, <1>6 DEF LockType, WaitingRemoved, b, n


----------------------------------------------------------------------------
(* Counters and bitmaps *)

\* How far a counter may be too high.
Room == Cardinality(Disconnecting)

\* Room is a number.
LEMMA RoomNat == Room \in Nat /\ 0 \in 0..Room /\ \A n \in 0..Room : n \in Nat /\ n <= n
<1>1. Room \in Nat
  BY MdlConstants, FS_Subset, FS_CardinalityType DEF Room
<1>2. ASSUME NEW r \in Nat PROVE 0 \in 0..r /\ \A n \in 0..r : n \in Nat /\ n <= n
  BY SMT
<1> QED
  BY <1>1, <1>2

\* There is room for one more ticket in a counter that is not more than Room too high.
LEMMA CounterHasRoom ==
  ASSUME NEW ts \in SUBSET Ticket, NEW type, NEW ty, NEW t \in Ticket, t \notin ts,
         type[t] = ty, NEW n \in 0..Room
  PROVE  /\ Number(ts, type, ty) + n + 1 < CounterRange
         /\ Number(ts \cup {t}, type, ty) = Number(ts, type, ty) + 1
         /\ Number(ts, type, ty) \in Nat
<1>1. Number(ts \cup {t}, type, ty) = Number(ts, type, ty) + 1
  BY NumberAdd, SMT
<1>2. Number(ts, type, ty) \in Nat /\ Number(ts \cup {t}, type, ty) <= Cardinality(Ticket)
  BY NumberBounds, SMT
<1>3. Cardinality(Ticket) \in Nat /\ CounterRange \in Nat /\ Room \in Nat
      /\ Cardinality(Ticket) + Room < CounterRange
  BY MdlConstants, TicketsFinite, FS_Subset, FS_CardinalityType, SMT DEF Room
<1> QED
  BY <1>1, <1>2, <1>3, SMT

\* What happens to a counter that is at most n too high, and to one that is exact,
\* when a ticket is added or removed.
LEMMA CountUp ==
  ASSUME NEW c \in 0 .. CounterRange - 1, NEW x \in Nat, NEW n \in Nat,
         x <= c, c <= x + n, x + n + 1 < CounterRange
  PROVE  /\ (c + 1) % CounterRange = c + 1 /\ c + 1 > 0
         /\ x + 1 <= c + 1 /\ c + 1 <= (x + 1) + n
  BY MdlConstants, Modulo, SMT

LEMMA CountDown ==
  ASSUME NEW c \in 0 .. CounterRange - 1, NEW x \in Nat, NEW n \in Nat,
         x <= c, c <= x + n, x > 0
  PROVE  /\ (c - 1) % CounterRange = c - 1 /\ c > 0
         /\ x - 1 <= c - 1 /\ c - 1 <= (x - 1) + n
         /\ c - 1 = 0 <=> ~(c - 1 > 0)
  BY MdlConstants, Modulo, SMT

LEMMA ExactUp ==
  ASSUME NEW c \in 0 .. CounterRange - 1, c + 0 + 1 < CounterRange
  PROVE  (c + 1) % CounterRange = c + 1 /\ c + 1 > 0
  BY MdlConstants, Modulo, SMT

LEMMA ExactDown ==
  ASSUME NEW c \in 0 .. CounterRange - 1, c > 0
  PROVE  (c - 1) % CounterRange = c - 1 /\ (c - 1 = 0 <=> ~(c - 1 > 0))
  BY MdlConstants, Modulo, SMT

LEMMA NoChange ==
  ASSUME NEW x \in Nat
  PROVE  x + 0 = x /\ x - 0 = x
  BY SMT

LEMMA OneTooHigh ==
  ASSUME NEW c \in 0 .. CounterRange - 1, NEW x \in Nat, NEW n \in Nat, NEW p,
         x <= c, c <= x + n
  PROVE  /\ x - (IF p THEN 1 ELSE 0) <= c
         /\ c <= x - (IF p THEN 1 ELSE 0) + (n + 1)
<1>1. x - 1 <= c /\ c <= x - 1 + (n + 1) /\ x - 0 <= c /\ c <= x - 0 + (n + 1)
  BY MdlConstants, SMT
<1> QED
  BY <1>1

\* Adding a ticket to m_granted and removing one keep its counters right.
LEMMA AddGrantedTally ==
  ASSUME NEW k, NEW lk \in LockType(k), NEW t \in Ticket, NEW ty \in TypesOf(k),
         NEW type, type[t] = ty, t \notin lk.granted, NEW n \in 0..Room,
         GrantedTally(k, lk, type, n)
  PROVE  GrantedTally(k, AddGranted(lk, t, ty), type, n)
<1> DEFINE r == AddGranted(lk, t, ty)
<1>r. GrantedAdded(k, lk, r, t, ty)
  BY AddGrantedIs, SMT
<1> HIDE DEF r
<1>0. Room \in Nat /\ n \in Nat
  BY RoomNat
<1>1. /\ r.granted = lk.granted \cup {t}
      /\ r.bitmap.granted = lk.bitmap.granted \cup {ty}
      /\ r.count.granted =
            [lk.count.granted EXCEPT ![ty] = (lk.count.granted[ty] + 1) % CounterRange]
  BY <1>r DEF GrantedAdded
<1>2. lk.granted \in SUBSET Ticket /\ lk.count.granted \in [TypesOf(k) -> 0 .. CounterRange - 1]
  BY DEF LockType, Counters
<1> SUFFICES ASSUME NEW tz \in TypesOf(k)
             PROVE  /\ Number(r.granted, type, tz) <= r.count.granted[tz]
                    /\ r.count.granted[tz] <= Number(r.granted, type, tz) + n
                    /\ tz \in r.bitmap.granted <=> r.count.granted[tz] > 0
  BY DEF GrantedTally, r
<1>3. /\ Number(lk.granted, type, tz) <= lk.count.granted[tz]
      /\ lk.count.granted[tz] <= Number(lk.granted, type, tz) + n
      /\ tz \in lk.bitmap.granted <=> lk.count.granted[tz] > 0
  BY SMT DEF GrantedTally
<1>4. CASE tz = ty
  <2>1. /\ Number(lk.granted, type, ty) + n + 1 < CounterRange
        /\ Number(lk.granted \cup {t}, type, ty) = Number(lk.granted, type, ty) + 1
        /\ Number(lk.granted, type, ty) \in Nat
    BY <1>2, CounterHasRoom
  <2>2. lk.count.granted[ty] \in 0 .. CounterRange - 1 /\ CounterRange \in Nat
    BY <1>2, MdlConstants
  <2>3. r.count.granted[ty] = (lk.count.granted[ty] + 1) % CounterRange
    BY <1>1, <1>2
  <2>4. r.count.granted[ty] = lk.count.granted[ty] + 1
    BY <1>0, <1>3, <1>4, <2>1, <2>2, <2>3, CountUp
  <2>5. /\ lk.count.granted[ty] + 1 > 0
        /\ Number(lk.granted, type, ty) + 1 <= lk.count.granted[ty] + 1
        /\ lk.count.granted[ty] + 1 <= (Number(lk.granted, type, ty) + 1) + n
    BY <1>0, <1>3, <1>4, <2>1, <2>2, CountUp
  <2>6. ty \in r.bitmap.granted
    BY <1>1
  <2> QED
    BY <1>1, <1>4, <2>1, <2>4, <2>5, <2>6
<1>5. CASE tz # ty
  <2>1. Number(lk.granted \cup {t}, type, tz) = Number(lk.granted, type, tz) + 0
    BY <1>2, <1>5, NumberAdd
  <2>2. Number(lk.granted, type, tz) \in Nat
    BY <1>2, NumberBounds
  <2>3. r.count.granted[tz] = lk.count.granted[tz]
    BY <1>1, <1>2, <1>5
  <2> QED
    BY <1>1, <1>3, <1>5, <2>1, <2>2, <2>3, NoChange
<1> QED
  BY <1>4, <1>5

\* remove_ticket() of a granted ticket keeps the counters of m_granted right.
LEMMA RemoveGrantedTally ==
  ASSUME NEW k, NEW lk \in LockType(k), NEW t \in Ticket, NEW ty \in TypesOf(k),
         NEW type, type[t] = ty, t \in lk.granted, NEW n \in 0..Room,
         IsInjective(lk.waiting), GrantedTally(k, lk, type, n)
  PROVE  GrantedTally(k, Remove(lk, "granted", t, ty), type, n)
<1> DEFINE r == Remove(lk, "granted", t, ty)
<1>r. GrantedRemoved(k, lk, r, t, ty)
  BY RemoveGrantedIs, SMT
<1> HIDE DEF r
<1>0. Room \in Nat /\ n \in Nat
  BY RoomNat
<1>1. /\ r.granted = lk.granted \ {t}
      /\ r.bitmap.granted = IF (lk.count.granted[ty] - 1) % CounterRange = 0
                            THEN lk.bitmap.granted \ {ty} ELSE lk.bitmap.granted
      /\ r.count.granted =
            [lk.count.granted EXCEPT ![ty] = (lk.count.granted[ty] - 1) % CounterRange]
  BY <1>r DEF GrantedRemoved
<1>2. lk.granted \in SUBSET Ticket /\ lk.count.granted \in [TypesOf(k) -> 0 .. CounterRange - 1]
  BY DEF LockType, Counters
<1> SUFFICES ASSUME NEW tz \in TypesOf(k)
             PROVE  /\ Number(r.granted, type, tz) <= r.count.granted[tz]
                    /\ r.count.granted[tz] <= Number(r.granted, type, tz) + n
                    /\ tz \in r.bitmap.granted <=> r.count.granted[tz] > 0
  BY DEF GrantedTally, r
<1>3. /\ Number(lk.granted, type, tz) <= lk.count.granted[tz]
      /\ lk.count.granted[tz] <= Number(lk.granted, type, tz) + n
      /\ tz \in lk.bitmap.granted <=> lk.count.granted[tz] > 0
  BY DEF GrantedTally
<1>4. CASE tz = ty
  <2>1. /\ Number(lk.granted \ {t}, type, ty) = Number(lk.granted, type, ty) - 1
        /\ Number(lk.granted, type, ty) \in Nat /\ Number(lk.granted, type, ty) > 0
    <3>1. Number(lk.granted \ {t}, type, ty) = Number(lk.granted, type, ty) - 1
      BY <1>2, NumberRemove
    <3> QED
      BY <1>2, <3>1, NumberBounds
  <2>2. lk.count.granted[ty] \in 0 .. CounterRange - 1 /\ CounterRange \in Nat
    BY <1>2, MdlConstants
  <2>3. r.count.granted[ty] = (lk.count.granted[ty] - 1) % CounterRange
    BY <1>1, <1>2
  <2>4. /\ r.count.granted[ty] = lk.count.granted[ty] - 1
        /\ (lk.count.granted[ty] - 1) % CounterRange = lk.count.granted[ty] - 1
    BY <1>0, <1>3, <1>4, <2>1, <2>2, <2>3, CountDown
  <2>5. /\ lk.count.granted[ty] > 0
        /\ Number(lk.granted, type, ty) - 1 <= lk.count.granted[ty] - 1
        /\ lk.count.granted[ty] - 1 <= (Number(lk.granted, type, ty) - 1) + n
        /\ lk.count.granted[ty] - 1 = 0 <=> ~(lk.count.granted[ty] - 1 > 0)
    BY <1>0, <1>3, <1>4, <2>1, <2>2, CountDown
  <2>6. ty \in r.bitmap.granted <=> lk.count.granted[ty] - 1 > 0
    BY <1>1, <1>3, <1>4, <2>4, <2>5
  <2> QED
    BY <1>1, <1>4, <2>1, <2>4, <2>5, <2>6
<1>5. CASE tz # ty
  <2>1. Number(lk.granted \ {t}, type, tz) = Number(lk.granted, type, tz) - 0
    BY <1>2, <1>5, NumberRemove
  <2>2. Number(lk.granted, type, tz) \in Nat
    BY <1>2, NumberBounds
  <2>3. r.count.granted[tz] = lk.count.granted[tz]
    BY <1>1, <1>2, <1>5
  <2> QED
    BY <1>1, <1>3, <1>5, <2>1, <2>2, <2>3, NoChange
<1> QED
  BY <1>4, <1>5

\* Adding a request to m_waiting and removing one keep its counters right.
LEMMA AddWaitingTally ==
  ASSUME NEW k, NEW lk \in LockType(k), NEW t \in Ticket, NEW ty \in TypesOf(k),
         NEW type, type[t] = ty, t \notin Range(lk.waiting), IsInjective(lk.waiting),
         WaitingTally(k, lk, type)
  PROVE  WaitingTally(k, AddWaiting(lk, t, ty), type)
<1> DEFINE r == AddWaiting(lk, t, ty)
           S == Range(lk.waiting)
<1>r. WaitingAdded(k, lk, r, t, ty)
  BY AddWaitingIs, SMT
<1> HIDE DEF r
<1>0. Room \in Nat /\ 0 \in 0..Room
  BY RoomNat
<1>1. /\ r.waiting = Append(lk.waiting, t)
      /\ r.bitmap.waiting = lk.bitmap.waiting \cup {ty}
      /\ r.count.waiting =
            [lk.count.waiting EXCEPT ![ty] = (lk.count.waiting[ty] + 1) % CounterRange]
  BY <1>r DEF WaitingAdded
<1>2. S \in SUBSET Ticket /\ lk.count.waiting \in [TypesOf(k) -> 0 .. CounterRange - 1]
  BY LockParts
<1>3. Range(r.waiting) = S \cup {t}
  <2>1. lk.waiting \in Seq(Ticket)
    BY LockParts
  <2>2. Range(Append(lk.waiting, t)) = S \cup {t}
    BY <2>1, AppendElement, SMT
  <2> QED
    BY <1>1, <2>2
<1> HIDE DEF S
<1> SUFFICES ASSUME NEW tz \in TypesOf(k)
             PROVE  /\ r.count.waiting[tz] = Number(S \cup {t}, type, tz)
                    /\ tz \in r.bitmap.waiting <=> r.count.waiting[tz] > 0
  BY <1>3 DEF WaitingTally, r
<1>4. /\ lk.count.waiting[tz] = Number(S, type, tz)
      /\ tz \in lk.bitmap.waiting <=> lk.count.waiting[tz] > 0
  BY DEF WaitingTally, S
<1>5. CASE tz = ty
  <2>1. /\ Number(S, type, ty) + 0 + 1 < CounterRange
        /\ Number(S \cup {t}, type, ty) = Number(S, type, ty) + 1
        /\ Number(S, type, ty) \in Nat
    BY <1>0, <1>2, CounterHasRoom DEF S
  <2>2. lk.count.waiting[ty] \in 0 .. CounterRange - 1 /\ CounterRange \in Nat
    BY <1>2, MdlConstants
  <2>3. r.count.waiting[ty] = (lk.count.waiting[ty] + 1) % CounterRange
    BY <1>1, <1>2
  <2>4. /\ r.count.waiting[ty] = lk.count.waiting[ty] + 1
        /\ (lk.count.waiting[ty] + 1) % CounterRange = lk.count.waiting[ty] + 1
    BY <1>4, <1>5, <2>1, <2>2, <2>3, ExactUp
  <2> QED
    BY <1>1, <1>4, <1>5, <2>1, <2>2, <2>4, ExactUp
<1>6. CASE tz # ty
  <2>1. Number(S \cup {t}, type, tz) = Number(S, type, tz) + 0
    BY <1>2, <1>6, NumberAdd DEF S
  <2>2. Number(S, type, tz) \in Nat
    BY <1>2, NumberBounds
  <2>3. r.count.waiting[tz] = lk.count.waiting[tz]
    BY <1>1, <1>2, <1>6
  <2> QED
    BY <1>1, <1>4, <1>6, <2>1, <2>2, <2>3, NoChange
<1> QED
  BY <1>5, <1>6

\* remove_ticket() of a waiting ticket keeps the counters of m_waiting right.
LEMMA RemoveWaitingTally ==
  ASSUME NEW k, NEW lk \in LockType(k), NEW t \in Ticket, NEW ty \in TypesOf(k),
         NEW type, type[t] = ty, t \in Range(lk.waiting), IsInjective(lk.waiting),
         WaitingTally(k, lk, type)
  PROVE  WaitingTally(k, Remove(lk, "waiting", t, ty), type)
<1> DEFINE r == Remove(lk, "waiting", t, ty)
           S == Range(lk.waiting)
<1>r. WaitingRemoved(k, lk, r, t, ty)
  BY RemoveWaitingIs, SMT
<1> HIDE DEF r
<1>0. Room \in Nat /\ 0 \in 0..Room
  BY RoomNat
<1>1. /\ r.waiting = Without(lk.waiting, t)
      /\ r.bitmap.waiting = IF (lk.count.waiting[ty] - 1) % CounterRange = 0
                            THEN lk.bitmap.waiting \ {ty} ELSE lk.bitmap.waiting
      /\ r.count.waiting =
            [lk.count.waiting EXCEPT ![ty] = (lk.count.waiting[ty] - 1) % CounterRange]
  BY <1>r DEF WaitingRemoved
<1>2. S \in SUBSET Ticket /\ lk.count.waiting \in [TypesOf(k) -> 0 .. CounterRange - 1]
  BY LockParts
<1>3. Range(r.waiting) = S \ {t}
  <2>1. lk.waiting \in Seq(Ticket)
    BY LockParts
  <2>2. Range(Without(lk.waiting, t)) = S \ {t}
    BY <2>1, WithoutElement, SMT
  <2> QED
    BY <1>1, <2>2
<1> HIDE DEF S
<1> SUFFICES ASSUME NEW tz \in TypesOf(k)
             PROVE  /\ r.count.waiting[tz] = Number(S \ {t}, type, tz)
                    /\ tz \in r.bitmap.waiting <=> r.count.waiting[tz] > 0
  BY <1>3 DEF WaitingTally, r
<1>4. /\ lk.count.waiting[tz] = Number(S, type, tz)
      /\ tz \in lk.bitmap.waiting <=> lk.count.waiting[tz] > 0
  BY DEF WaitingTally, S
<1>5. CASE tz = ty
  <2>1. /\ Number(S \ {t}, type, ty) = Number(S, type, ty) - 1
        /\ Number(S, type, ty) \in Nat /\ Number(S, type, ty) > 0
    <3>1. Number(S \ {t}, type, ty) = Number(S, type, ty) - 1
      BY <1>2, NumberRemove DEF S
    <3> QED
      BY <1>2, <3>1, NumberBounds DEF S
  <2>2. lk.count.waiting[ty] \in 0 .. CounterRange - 1 /\ CounterRange \in Nat
    BY <1>2, MdlConstants
  <2>3. r.count.waiting[ty] = (lk.count.waiting[ty] - 1) % CounterRange
    BY <1>1, <1>2
  <2>4. /\ r.count.waiting[ty] = lk.count.waiting[ty] - 1
        /\ (lk.count.waiting[ty] - 1) % CounterRange = lk.count.waiting[ty] - 1
    BY <1>4, <1>5, <2>1, <2>2, <2>3, ExactDown
  <2> QED
    BY <1>1, <1>4, <1>5, <2>1, <2>2, <2>4, ExactDown
<1>6. CASE tz # ty
  <2>1. Number(S \ {t}, type, tz) = Number(S, type, tz) - 0
    BY <1>2, <1>6, NumberRemove DEF S
  <2>2. Number(S, type, tz) \in Nat
    BY <1>2, NumberBounds
  <2>3. r.count.waiting[tz] = lk.count.waiting[tz]
    BY <1>1, <1>2, <1>6
  <2> QED
    BY <1>1, <1>4, <1>6, <2>1, <2>2, <2>3, NoChange
<1> QED
  BY <1>5, <1>6

\* A granted ticket that is removed as if it were waiting leaves a counter of
\* m_granted one too high.
LEMMA AbortGrantedTally ==
  ASSUME NEW k, NEW lk \in LockType(k), NEW t \in Ticket, NEW ty \in TypesOf(k),
         NEW type, t \in lk.granted, NEW n \in 0..Room,
         IsInjective(lk.waiting), GrantedTally(k, lk, type, n)
  PROVE  GrantedTally(k, Remove(lk, "waiting", t, ty), type, n + 1)
<1> DEFINE r == Remove(lk, "waiting", t, ty)
<1>r. WaitingRemoved(k, lk, r, t, ty)
  BY RemoveWaitingIs
<1> HIDE DEF r
<1>0. Room \in Nat /\ n \in Nat
  BY RoomNat
<1>1. /\ r.granted = lk.granted \ {t} /\ r.bitmap.granted = lk.bitmap.granted
      /\ r.count.granted = lk.count.granted
  BY <1>r DEF WaitingRemoved
<1>2. lk.granted \in SUBSET Ticket /\ lk.count.granted \in [TypesOf(k) -> 0 .. CounterRange - 1]
  BY SMT DEF LockType, Counters
<1> SUFFICES ASSUME NEW tz \in TypesOf(k)
             PROVE  /\ Number(r.granted, type, tz) <= r.count.granted[tz]
                    /\ r.count.granted[tz] <= Number(r.granted, type, tz) + (n + 1)
                    /\ tz \in r.bitmap.granted <=> r.count.granted[tz] > 0
  BY DEF GrantedTally, r
<1>3. /\ Number(lk.granted, type, tz) <= lk.count.granted[tz]
      /\ lk.count.granted[tz] <= Number(lk.granted, type, tz) + n
      /\ tz \in lk.bitmap.granted <=> lk.count.granted[tz] > 0
  BY DEF GrantedTally
<1>4. Number(lk.granted \ {t}, type, tz) =
      Number(lk.granted, type, tz) - IF type[t] = tz THEN 1 ELSE 0
  BY <1>2, NumberRemove
<1>5. Number(lk.granted, type, tz) \in Nat /\ lk.count.granted[tz] \in 0 .. CounterRange - 1
      /\ CounterRange \in Nat
  BY <1>2, NumberBounds, MdlConstants
<1> QED
  BY <1>0, <1>1, <1>3, <1>4, <1>5, OneTooHigh

\* Tickets whose types do not change are counted as before; the error may grow.
LEMMA GrantedTallySame ==
  ASSUME NEW k, NEW lk \in LockType(k), NEW type, NEW new, NEW n \in 0..Room, NEW m \in 0..Room,
         n <= m, GrantedTally(k, lk, type, n), \A u \in lk.granted : type[u] = new[u]
  PROVE  GrantedTally(k, lk, new, m)
<1> SUFFICES ASSUME NEW ty \in TypesOf(k)
             PROVE  /\ Number(lk.granted, new, ty) <= lk.count.granted[ty]
                    /\ lk.count.granted[ty] <= Number(lk.granted, new, ty) + m
                    /\ ty \in lk.bitmap.granted <=> lk.count.granted[ty] > 0
  BY DEF GrantedTally
<1>1. Number(lk.granted, new, ty) = Number(lk.granted, type, ty)
  <2>1. ASSUME NEW ts, \A u \in ts : type[u] = new[u]
        PROVE  Number(ts, type, ty) = Number(ts, new, ty)
    BY <2>1, NumberSame
  <2> QED
    BY <2>1
<1>2. /\ Number(lk.granted, type, ty) <= lk.count.granted[ty]
      /\ lk.count.granted[ty] <= Number(lk.granted, type, ty) + n
      /\ ty \in lk.bitmap.granted <=> lk.count.granted[ty] > 0
  BY DEF GrantedTally
<1>3. /\ Number(lk.granted, type, ty) \in Nat /\ lk.count.granted[ty] \in 0 .. CounterRange - 1
      /\ CounterRange \in Nat
  BY NumberBounds, MdlConstants DEF LockType, Counters
<1>4. Room \in Nat
  BY MdlConstants, FS_Subset, FS_CardinalityType DEF Room
<1> QED
  BY <1>1, <1>2, <1>3, <1>4, SMT

\* The counters of m_waiting stay right while the types of its tickets do.
LEMMA WaitingTallySame ==
  ASSUME NEW k, NEW lk, NEW type, NEW new,
         WaitingTally(k, lk, type), \A u \in Range(lk.waiting) : type[u] = new[u]
  PROVE  WaitingTally(k, lk, new)
<1>1. \A ty : Number(Range(lk.waiting), new, ty) = Number(Range(lk.waiting), type, ty)
  BY NumberSame
<1> QED
  BY <1>1 DEF WaitingTally

\* At most as many requests are in the wrong list as there are contexts that disconnect.
LEMMA LostBound ==
  ASSUME NEW S \in SUBSET Disconnecting, NEW T \in SUBSET S
  PROVE  /\ Cardinality(S) \in 0..Room /\ Cardinality(T) \in 0..Room
         /\ Cardinality(T) <= Cardinality(S)
<1>1. IsFiniteSet(Disconnecting) /\ Room \in Nat
  BY MdlConstants, FS_Subset, FS_CardinalityType DEF Room
<1>2. /\ IsFiniteSet(S) /\ Cardinality(S) \in Nat /\ Cardinality(S) <= Room
  BY <1>1, FS_Subset, FS_CardinalityType, SMT DEF Room
<1>3. IsFiniteSet(T) /\ Cardinality(T) \in Nat /\ Cardinality(T) <= Cardinality(S)
  BY <1>2, FS_Subset, FS_CardinalityType, SMT
<1> QED
  BY <1>1, <1>2, <1>3, SMT

\* A ticket joins the owners of a lock if they let it in.
LEMMA CompatibleAdd ==
  ASSUME Backup = {}, NEW k \in Key, NEW ts, NEW t, NEW type,
         \A u \in ts \cup {t} : type[u] \in TypesOf(k),
         Compatible(k, ts, type),
         \A u \in ts : u[1] = t[1] \/ type[u] \notin GrantedIncompatible(k, type[t])
  PROVE  Compatible(k, ts \cup {t}, type)
<1>1. ASSUME NEW u \in ts, u[1] # t[1]
      PROVE  /\ type[u] \notin GrantedIncompatible(k, type[t])
             /\ type[t] \notin GrantedIncompatible(k, type[u])
  <2>1. type[u] \in TypesOf(k) /\ type[t] \in TypesOf(k)
    OBVIOUS
  <2>2. type[u] \notin GrantedIncompatible(k, type[t])
    BY <1>1
  <2> QED
    BY <2>1, <2>2, IncompatibleSymmetric
<1> QED
  BY <1>1 DEF Compatible

\* A granted ticket is in the bitmap, so can_grant_lock() does not overlook it.
LEMMA CanGrantSees ==
  ASSUME NEW k, NEW lk \in LockType(k), NEW n, GrantedTally(k, lk, types, n),
         \A u \in lk.granted : TypeOf(u) \in TypesOf(k),
         NEW ty, NEW c, NEW ign, CanGrant(k, lk, ty, c, ign)
  PROVE  \A u \in lk.granted : u[1] = c \/ TypeOf(u) \notin GrantedIncompatible(k, ty)
<1> SUFFICES ASSUME NEW u \in lk.granted PROVE TypeOf(u) \in lk.bitmap.granted
  BY DEF CanGrant
<1>1. u \in Ticket /\ types[u] = TypeOf(u) /\ lk.granted \in SUBSET Ticket
  BY DEF LockType, types
<1>2. Number(lk.granted, types, TypeOf(u)) > 0 /\ Number(lk.granted, types, TypeOf(u)) \in Nat
  BY <1>1, NumberBounds
<1>3. lk.count.granted[TypeOf(u)] \in Nat
  BY LockParts
<1> QED
  BY <1>2, <1>3, SMT DEF GrantedTally

----------------------------------------------------------------------------
(* Steps that move at most one ticket *)

\* A ticket stays where it is.
Stays(t) ==
    /\ IsGranted(t)' <=> IsGranted(t)
    /\ IsWaiting(t)' <=> IsWaiting(t)
    /\ IsGranted(t) \/ IsWaiting(t) => ticket'[t] = ticket[t]
\* A ticket is in no list of k, before and after.
Apart(t, k) ==
    /\ IsGranted(t) \/ IsWaiting(t) => KeyOf(t) # k
    /\ IsGranted(t)' \/ IsWaiting(t)' => KeyOf(t)' # k

\* Those who were taken out of the wrong list stay so.
LostStays == gone \subseteq gone' /\ Lost \subseteq Lost'

\* A lock whose tickets stay stays right.
LEMMA LockStays ==
  ASSUME IInv, Types', LostStays, NEW k \in Key,
         lock'[k].granted = lock[k].granted, lock'[k].waiting = lock[k].waiting,
         lock'[k].bitmap = lock[k].bitmap, lock'[k].count = lock[k].count,
         \A t \in Ticket : Stays(t) \/ Apart(t, k)
  PROVE  LockOK(k)'
<1>1. LockOK(k) /\ lock[k] \in LockType(k) /\ lock'[k] \in LockType(k)
  BY DEF IInv, Types
<1>2. lock[k].granted \in SUBSET Ticket /\ Range(lock[k].waiting) \in SUBSET Ticket
  BY <1>1, LockParts
<1>3. \A t \in Ticket : IsGranted(t)' /\ KeyOf(t)' = k <=> IsGranted(t) /\ KeyOf(t) = k
  BY DEF Stays, Apart, KeyOf
<1>4. \A t \in Ticket : IsWaiting(t)' /\ KeyOf(t)' = k <=> IsWaiting(t) /\ KeyOf(t) = k
  BY DEF Stays, Apart, KeyOf
<1>5. Lists(k)'
  BY <1>1, <1>3, <1>4 DEF LockOK, Lists
<1>6. \A t \in lock[k].granted \cup Range(lock[k].waiting) : types'[t] = types[t]
  <2> SUFFICES ASSUME NEW t \in lock[k].granted \cup Range(lock[k].waiting)
               PROVE  types'[t] = types[t]
    OBVIOUS
  <2>1. t \in Ticket /\ (IsGranted(t) \/ IsWaiting(t)) /\ KeyOf(t) = k
    BY <1>1, <1>2 DEF LockOK, Lists
  <2>2. ticket'[t] = ticket[t]
    BY <2>1 DEF Stays, Apart
  <2> QED
    BY <2>1, <2>2 DEF types, TypeOf
<1>7. Compatible(k, lock'[k].granted, types')
  BY <1>1, <1>6 DEF LockOK, Compatible
<1>8. /\ Cardinality(Lost) \in 0..Room /\ Cardinality(Lost') \in 0..Room
      /\ Cardinality(Lost) <= Cardinality(Lost')
  BY LostBound DEF LostStays, Lost, Types
<1>9. GrantedTally(k, lock[k], types', Cardinality(Lost'))
  BY <1>1, <1>6, <1>8, GrantedTallySame DEF LockOK
<1>10. gone' = {} => WaitingTally(k, lock[k], types')
  BY <1>1, <1>6, WaitingTallySame DEF LockOK, LostStays
<1> QED
  BY <1>5, <1>7, <1>9, <1>10 DEF LockOK, GrantedTally, WaitingTally
----------------------------------------------------------------------------

\* A step moves or changes only tickets of S, which are all of lock k.
Moves(S, k) ==
    /\ \A u \in Ticket \ S : Stays(u)
    /\ \A u \in S : /\ IsGranted(u) \/ IsWaiting(u) => KeyOf(u) = k
                    /\ IsGranted(u)' \/ IsWaiting(u)' => KeyOf(u)' = k
    /\ \A j \in Key \ {k} : lock'[j] = lock[j]
    /\ LostStays

\* The other locks stay right.
LEMMA OtherLocksStay ==
  ASSUME IInv, Types', NEW S, NEW k, Moves(S, k), NEW j \in Key \ {k}
  PROVE  LockOK(j)'
<1>1. \A u \in Ticket : Stays(u) \/ Apart(u, j)
  BY SMT DEF Moves, Apart
<1>2. lock'[j] = lock[j] /\ LostStays
  BY DEF Moves
<1> QED
  BY <1>1, <1>2, LockStays

\* The lists of k are right again if they are for the tickets of S.
LEMMA ListsBecome ==
  ASSUME IInv, Types', NEW S, NEW k \in Key, Moves(S, k),
         lock'[k].granted \ S = lock[k].granted \ S,
         Range(lock'[k].waiting) \ S = Range(lock[k].waiting) \ S,
         IsInjective(lock'[k].waiting),
         \A u \in S : u \in lock'[k].granted <=> u \in Ticket /\ IsGranted(u)',
         \A u \in S : u \in Range(lock'[k].waiting) <=> u \in Ticket /\ IsWaiting(u)'
  PROVE  Lists(k)'
<1>1. Lists(k) /\ lock'[k] \in LockType(k)
  BY DEF IInv, LockOK, Types
<1>2. lock'[k].granted \in SUBSET Ticket /\ Range(lock'[k].waiting) \in SUBSET Ticket
  BY <1>1, LockParts
<1>3. ASSUME NEW u \in Ticket
      PROVE  /\ u \in lock'[k].granted <=> IsGranted(u)' /\ KeyOf(u)' = k
             /\ u \in Range(lock'[k].waiting) <=> IsWaiting(u)' /\ KeyOf(u)' = k
  <2>1. CASE u \in S
    BY <2>1 DEF Moves
  <2>2. CASE u \notin S
    <3>1. Stays(u)
      BY <2>2 DEF Moves
    <3>2. /\ u \in lock'[k].granted <=> u \in lock[k].granted
          /\ u \in Range(lock'[k].waiting) <=> u \in Range(lock[k].waiting)
      BY <2>2
    <3> QED
      BY <1>1, <3>1, <3>2 DEF Lists, Stays, KeyOf
  <2> QED
    BY <2>1, <2>2
<1> QED
  BY <1>2, <1>3 DEF Lists

\* Tickets of the lists that are not in S keep their types.
LEMMA TypesStay ==
  ASSUME IInv, NEW S, NEW k \in Key, Moves(S, k),
         NEW u \in (lock[k].granted \cup Range(lock[k].waiting)) \ S
  PROVE  u \in Ticket /\ types'[u] = types[u]
<1>1. u \in Ticket /\ (IsGranted(u) \/ IsWaiting(u))
  BY DEF IInv, LockOK, Lists
<1> QED
  BY <1>1 DEF Moves, Stays, types, TypeOf

\* A lock that differs only in tickets of S from a lock whose counters were right.
LEMMA LockBecomes ==
  ASSUME IInv, Types', NEW S, NEW k \in Key, Moves(S, k), Lists(k)',
         NEW r \in LockType(k),
         lock'[k].granted = r.granted, lock'[k].waiting = r.waiting,
         lock'[k].bitmap = r.bitmap, lock'[k].count = r.count,
         Compatible(k, r.granted, types'),
         NEW n \in 0..Room, n <= Cardinality(Lost'),
         GrantedTally(k, r, types', n),
         gone = {} /\ gone' = {} => WaitingTally(k, r, types')
  PROVE  LockOK(k)'
<1>1. Cardinality(Lost') \in 0..Room
  BY LostBound DEF Lost, Types
<1>2. GrantedTally(k, r, types', Cardinality(Lost'))
  BY <1>1, GrantedTallySame
<1>3. gone' = {} => gone = {}
  BY DEF Moves, LostStays
<1> QED
  BY <1>2, <1>3 DEF LockOK, GrantedTally, WaitingTally

\* The tickets of a lock that do not move keep their types.
LEMMA TypesOfOthersStay ==
  ASSUME IInv, NEW S, NEW k \in Key, Moves(S, k)
  PROVE  \A u \in lock[k].granted \cup Range(lock[k].waiting) : u \in S \/ types'[u] = types[u]
BY TypesStay

\* The owners of a lock stay compatible, and are counted as before, while their types
\* stay.
LEMMA CompatibleSame ==
  ASSUME NEW k, NEW ts, NEW type, NEW new, Compatible(k, ts, type),
         \A u \in ts : new[u] = type[u]
  PROVE  Compatible(k, ts, new)
BY DEF Compatible

LEMMA GrantedTallyKept ==
  ASSUME NEW k, NEW lk \in LockType(k), NEW type, NEW new, NEW n \in 0..Room,
         GrantedTally(k, lk, type, n), \A u \in lk.granted : new[u] = type[u]
  PROVE  GrantedTally(k, lk, new, n)
<1>1. n <= n /\ \A u \in lk.granted : type[u] = new[u]
  BY RoomNat
<1> QED
  BY <1>1, GrantedTallySame

\* What m_waiting holds after a request is queued and after one leaves.
LEMMA AppendQueue ==
  ASSUME NEW k, NEW lk \in LockType(k), NEW t \in Ticket,
         IsInjective(lk.waiting), t \notin Range(lk.waiting)
  PROVE  /\ Range(Append(lk.waiting, t)) = Range(lk.waiting) \cup {t}
         /\ IsInjective(Append(lk.waiting, t))
<1>1. lk.waiting \in Seq(Ticket)
  BY LockParts
<1> QED
  BY <1>1, AppendElement, SMT

LEMMA WithoutQueue ==
  ASSUME NEW k, NEW lk \in LockType(k), NEW t, IsInjective(lk.waiting)
  PROVE  /\ Range(Without(lk.waiting, t)) = Range(lk.waiting) \ {t}
         /\ IsInjective(Without(lk.waiting, t))
<1>1. lk.waiting \in Seq(Ticket)
  BY LockParts
<1> QED
  BY <1>1, WithoutElement, SMT

LEMMA OutsideSame ==
  ASSUME NEW A, NEW S, NEW t \in S
  PROVE  ((A \ S) \cup {t}) \ S = A \ S
OBVIOUS

\* A step of a context forgets no request that may be in the wrong list.
LEMMA LostGrows ==
  ASSUME IInv, Types', NEW S, NEW k, Moves(S, k)
  PROVE  /\ Cardinality(Lost) \in 0..Room /\ Cardinality(Lost') \in 0..Room
         /\ Cardinality(Lost) <= Cardinality(Lost')
BY LostBound DEF Moves, LostStays, Lost, Types

\* A new ticket is granted: try_acquire_lock(), add_cloned_ticket().
LEMMA Grant ==
  ASSUME IInv, Types', NEW t \in Ticket, NEW k \in Key, Moves({t}, k),
         ~IsGranted(t), ~IsWaiting(t), IsGranted(t)', ~IsWaiting(t)',
         ticket'[t] = ticket[t], TypeOf(t) \in TypesOf(k),
         lock'[k] = AddGranted(lock[k], t, TypeOf(t)),
         \A u \in lock[k].granted :
             u[1] = t[1] \/ TypeOf(u) \notin GrantedIncompatible(k, TypeOf(t))
  PROVE  \A j \in Key : LockOK(j)'
<1> DEFINE r == AddGranted(lock[k], t, TypeOf(t))
<1>0. /\ lock[k] \in LockType(k) /\ IsInjective(lock[k].waiting)
      /\ lock[k].granted \in SUBSET Ticket /\ Range(lock[k].waiting) \in SUBSET Ticket
      /\ \A u \in lock[k].granted \cup Range(lock[k].waiting) : TypeOf(u) \in TypesOf(k)
      /\ Compatible(k, lock[k].granted, types)
      /\ GrantedTally(k, lock[k], types, Cardinality(Lost))
      /\ gone = {} => WaitingTally(k, lock[k], types)
  BY LockFacts
<1>1. GrantedAdded(k, lock[k], r, t, TypeOf(t))
  BY <1>0, AddGrantedIs
<1>2. /\ Cardinality(Lost) \in 0..Room /\ Cardinality(Lost') \in 0..Room
      /\ Cardinality(Lost) <= Cardinality(Lost')
  BY LostGrows
<1>3. t \notin lock[k].granted /\ t \notin Range(lock[k].waiting)
  BY DEF IInv, LockOK, Lists
<1>4. types[t] = TypeOf(t)
  BY DEF types
<1>5. GrantedTally(k, r, types, Cardinality(Lost))
  BY <1>0, <1>2, <1>3, <1>4, AddGrantedTally
<1>6. lock'[k] = r
  OBVIOUS
<1> HIDE DEF r
<1>7. /\ r \in LockType(k) /\ r.granted = lock[k].granted \cup {t}
      /\ r.waiting = lock[k].waiting
  BY <1>1 DEF GrantedAdded
<1>8. Lists(k)'
  <2>1. /\ lock'[k].granted \ {t} = lock[k].granted \ {t}
        /\ Range(lock'[k].waiting) \ {t} = Range(lock[k].waiting) \ {t}
        /\ IsInjective(lock'[k].waiting)
    BY <1>0, <1>6, <1>7
  <2>2. /\ \A u \in {t} : u \in lock'[k].granted <=> u \in Ticket /\ IsGranted(u)'
        /\ \A u \in {t} : u \in Range(lock'[k].waiting) <=> u \in Ticket /\ IsWaiting(u)'
    BY <1>3, <1>6, <1>7
  <2> QED
    BY <2>1, <2>2, ListsBecome
<1>9. \A u \in r.granted \cup Range(r.waiting) : types'[u] = types[u]
  <2>1. types'[t] = types[t]
    BY DEF types, TypeOf
  <2> QED
    <3>1. \A u \in lock[k].granted \cup Range(lock[k].waiting) :
              u \in {t} \/ types'[u] = types[u]
      BY TypesOfOthersStay
    <3> QED
      BY <1>7, <2>1, <3>1
<1>10. Compatible(k, r.granted, types)
  <2>1. Backup = {}
    BY DEF IInv
  <2>2. \A u \in lock[k].granted \cup {t} : types[u] = TypeOf(u)
    BY <1>0 DEF types
  <2>3. /\ \A u \in lock[k].granted \cup {t} : types[u] \in TypesOf(k)
        /\ \A u \in lock[k].granted :
              u[1] = t[1] \/ types[u] \notin GrantedIncompatible(k, types[t])
    BY <1>0, <2>2
  <2>4. Compatible(k, lock[k].granted, types)
    BY <1>0
  <2>5. Compatible(k, lock[k].granted \cup {t}, types)
    BY <2>1, <2>3, <2>4, CompatibleAdd
  <2> QED
    BY <1>7, <2>5
<1>11. Compatible(k, r.granted, types')
  BY <1>9, <1>10 DEF Compatible
<1>12. GrantedTally(k, r, types', Cardinality(Lost))
  BY <1>2, <1>5, <1>7, <1>9, GrantedTallyKept
<1>13. WaitingTally(k, lock[k], types) => WaitingTally(k, r, types)
  BY <1>1 DEF WaitingTally, GrantedAdded
<1>14. gone = {} /\ gone' = {} => WaitingTally(k, r, types')
  BY <1>0, <1>9, <1>13, WaitingTallySame
<1>15. LockOK(k)'
  BY <1>2, <1>6, <1>7, <1>8, <1>11, <1>12, <1>14, LockBecomes
<1> QED
  BY <1>15, OtherLocksStay

\* A request is queued: the rest of acquire_lock()'s first half.
LEMMA Enqueue ==
  ASSUME IInv, Types', NEW t \in Ticket, NEW k \in Key, Moves({t}, k),
         ~IsGranted(t), ~IsWaiting(t), ~IsGranted(t)', IsWaiting(t)',
         ticket'[t] = ticket[t], TypeOf(t) \in TypesOf(k),
         lock'[k] = AddWaiting(lock[k], t, TypeOf(t))
  PROVE  \A j \in Key : LockOK(j)'
<1> DEFINE r == AddWaiting(lock[k], t, TypeOf(t))
<1>0. /\ lock[k] \in LockType(k) /\ IsInjective(lock[k].waiting)
      /\ lock[k].granted \in SUBSET Ticket /\ Range(lock[k].waiting) \in SUBSET Ticket
      /\ Compatible(k, lock[k].granted, types)
      /\ GrantedTally(k, lock[k], types, Cardinality(Lost))
      /\ gone = {} => WaitingTally(k, lock[k], types)
  BY LockFacts
<1>1. WaitingAdded(k, lock[k], r, t, TypeOf(t))
  BY <1>0, AddWaitingIs
<1>2. /\ Cardinality(Lost) \in 0..Room /\ Cardinality(Lost') \in 0..Room
      /\ Cardinality(Lost) <= Cardinality(Lost')
  BY LostGrows
<1>3. t \notin lock[k].granted /\ t \notin Range(lock[k].waiting)
  BY DEF IInv, LockOK, Lists
<1>4. types[t] = TypeOf(t)
  BY DEF types
<1>5. gone = {} => WaitingTally(k, r, types)
  BY <1>0, <1>3, <1>4, AddWaitingTally
<1>6. lock'[k] = r
  OBVIOUS
<1> HIDE DEF r
<1>7. /\ r \in LockType(k) /\ r.granted = lock[k].granted
      /\ r.waiting = Append(lock[k].waiting, t)
  BY <1>1 DEF WaitingAdded
<1>8. lock[k].waiting \in Seq(Ticket)
  BY <1>0 DEF LockType
<1>9. Range(r.waiting) = Range(lock[k].waiting) \cup {t} /\ IsInjective(r.waiting)
  <2>1. /\ Range(Append(lock[k].waiting, t)) = Range(lock[k].waiting) \cup {t}
        /\ IsInjective(Append(lock[k].waiting, t))
    BY <1>0, <1>3, AppendQueue
  <2> QED
    BY <1>7, <2>1
<1>10. Lists(k)'
  <2>1. /\ lock'[k].granted \ {t} = lock[k].granted \ {t}
        /\ Range(lock'[k].waiting) \ {t} = Range(lock[k].waiting) \ {t}
        /\ IsInjective(lock'[k].waiting)
        /\ \A u \in {t} : u \in lock'[k].granted <=> u \in Ticket /\ IsGranted(u)'
        /\ \A u \in {t} : u \in Range(lock'[k].waiting) <=> u \in Ticket /\ IsWaiting(u)'
    BY <1>3, <1>6, <1>7, <1>9
  <2> QED
    BY <2>1, ListsBecome
<1>11. \A u \in r.granted \cup Range(r.waiting) : types'[u] = types[u]
  <2>1. types'[t] = types[t]
    BY DEF types, TypeOf
  <2> QED
    <3>1. \A u \in lock[k].granted \cup Range(lock[k].waiting) :
              u \in {t} \/ types'[u] = types[u]
      BY TypesOfOthersStay
    <3> QED
      BY <1>7, <1>9, <2>1, <3>1
<1>12. Compatible(k, r.granted, types')
  BY <1>0, <1>7, <1>11, CompatibleSame
<1>13. GrantedTally(k, r, types, Cardinality(Lost))
  BY <1>0, <1>1 DEF GrantedTally, WaitingAdded
<1>14. GrantedTally(k, r, types', Cardinality(Lost))
  BY <1>2, <1>7, <1>11, <1>13, GrantedTallyKept
<1>15. gone = {} /\ gone' = {} => WaitingTally(k, r, types')
  BY <1>5, <1>11, WaitingTallySame
<1>16. LockOK(k)'
  BY <1>2, <1>6, <1>7, <1>10, <1>12, <1>14, <1>15, LockBecomes
<1> QED
  BY <1>16, OtherLocksStay

\* A ticket leaves the lists; r is the lock without it.
LEMMA Leave ==
  ASSUME IInv, Types', NEW t \in Ticket, NEW k \in Key, Moves({t}, k),
         ~IsGranted(t)', ~IsWaiting(t)',
         NEW r \in LockType(k), lock'[k] = r,
         r.granted = lock[k].granted \ {t}, IsInjective(r.waiting),
         Range(r.waiting) = Range(lock[k].waiting) \ {t},
         NEW n \in 0..Room, n <= Cardinality(Lost'),
         GrantedTally(k, r, types, n),
         gone = {} /\ gone' = {} => WaitingTally(k, r, types)
  PROVE  \A j \in Key : LockOK(j)'
<1>1. Lists(k)'
  <2>1. /\ lock'[k].granted \ {t} = lock[k].granted \ {t}
        /\ Range(lock'[k].waiting) \ {t} = Range(lock[k].waiting) \ {t}
        /\ IsInjective(lock'[k].waiting)
        /\ \A u \in {t} : u \in lock'[k].granted <=> u \in Ticket /\ IsGranted(u)'
        /\ \A u \in {t} : u \in Range(lock'[k].waiting) <=> u \in Ticket /\ IsWaiting(u)'
    OBVIOUS
  <2> QED
    BY <2>1, ListsBecome
<1>2. \A u \in r.granted \cup Range(r.waiting) : types'[u] = types[u]
  BY TypesStay
<1>3. Compatible(k, r.granted, types')
  BY <1>2, LockFacts DEF Compatible
<1>4. GrantedTally(k, r, types', n)
  <2>1. n <= n
    BY RoomNat
  <2> QED
    BY <1>2, <2>1, GrantedTallySame
<1>5. gone = {} /\ gone' = {} => WaitingTally(k, r, types')
  BY <1>2, WaitingTallySame
<1>6. LockOK(k)'
  BY <1>1, <1>3, <1>4, <1>5, LockBecomes
<1>7. \A j \in Key \ {k} : LockOK(j)'
  BY OtherLocksStay
<1> QED
  BY <1>6, <1>7

\* A new lock has no tickets, and its counters are right.
LEMMA EmptyLockOK ==
  ASSUME NEW k \in Key, NEW type, NEW n \in 0..Room
  PROVE  /\ EmptyLock(k) \in LockType(k)
         /\ EmptyLock(k).granted = {} /\ EmptyLock(k).waiting = <<>>
         /\ EmptyLock(k).bitmap = [granted |-> {}, waiting |-> {}]
         /\ Range(EmptyLock(k).waiting) = {} /\ IsInjective(EmptyLock(k).waiting)
         /\ GrantedTally(k, EmptyLock(k), type, n) /\ WaitingTally(k, EmptyLock(k), type)
<1>1. /\ EmptyLock(k).granted = {} /\ EmptyLock(k).waiting = <<>>
      /\ EmptyLock(k).bitmap = [granted |-> {}, waiting |-> {}]
      /\ EmptyLock(k).count = [granted |-> NoCounts(k), waiting |-> NoCounts(k)]
  BY DEF EmptyLock
<1>2. Range(<<>>) = {} /\ IsInjective(<<>>)
  BY SMT DEF Range, IsInjective
<1>3. NoCounts(k) \in Counters(k) /\ \A ty \in TypesOf(k) : NoCounts(k)[ty] = 0
  BY MdlConstants, TicketsFinite, FS_Subset, FS_CardinalityType, SMT DEF NoCounts, Counters, Room
<1>4. EmptyLock(k) \in LockType(k)
  BY <1>3, SMT DEF EmptyLock, LockType
<1>5. \A ty : Number({}, type, ty) = 0
  BY FS_EmptySet DEF Number
<1>6. n \in Nat
  BY RoomNat
<1>7. GrantedTally(k, EmptyLock(k), type, n)
  BY <1>1, <1>3, <1>5, <1>6, SMT DEF GrantedTally
<1>8. WaitingTally(k, EmptyLock(k), type)
  <2>1. Range(EmptyLock(k).waiting) = {}
    BY <1>1, <1>2
  <2>2. \A ty \in TypesOf(k) : EmptyLock(k).count.waiting[ty] = 0
    BY <1>1, <1>3, SMT
  <2>3. EmptyLock(k).bitmap.waiting = {}
    BY <1>1, SMT
  <2>4. \A ty : Number(Range(EmptyLock(k).waiting), type, ty) = 0
    BY <1>5, <2>1
  <2> QED
    BY <2>2, <2>3, <2>4, SMT DEF WaitingTally
<1> QED
  BY <1>1, <1>2, <1>4, <1>7, <1>8

\* No lock and no ticket at the start.
LEMMA InitOK ==
  ASSUME Backup = {}, Init
  PROVE  IInv /\ IterOK
<1>1. Types
  <2>1. \A k \in Key : lock[k] \in LockType(k)
    <3>1. 0 \in 0..Room
      BY LostBound, FS_EmptySet
    <3> QED
      BY <3>1, EmptyLockOK DEF Init
  <2>2. pc \in [Ctx -> PCs] /\ call \in [Ctx -> CallType]
    BY NoCallType DEF Init, PCs
  <2>3. m_wait_status \in [Ctx -> WaitStatus] /\ wait_status \in [Ctx -> WaitStatus]
    BY DEF Init, WaitStatus
  <2>4. /\ ticket \in [Ticket -> TicketType \cup {NoTicket}] /\ DOMAIN lock = Key
        /\ m_fast_lane = [t \in Ticket |-> NoLane] /\ gone \in SUBSET Disconnecting
        /\ m_tickets \in [Ctx -> Seq(Slot)]
    <3>1. <<>> \in Seq(Slot)
      BY SMT
    <3> QED
      BY <3>1 DEF Init
  <2> QED
    BY <2>1, <2>2, <2>3, <2>4 DEF Types
<1>2. ASSUME NEW c \in Ctx PROVE CtxOK(c)
  <2>1. pc[c] = "idle" /\ call[c] = NoCall /\ m_tickets[c] = <<>> /\ m_wait_status[c] = "EMPTY"
        /\ c \notin gone
    BY DEF Init
  <2>2. Control(c) /\ Justified(c)
    BY <2>1, NoCallType DEF Control, Justified, WaitPC
  <2>3. Transactional(c)
    BY <2>1, SMT DEF Transactional, Range, IsInjective
  <2>4. Slots(c)
    BY <2>1 DEF Slots
  <2> QED
    BY <2>2, <2>3, <2>4 DEF CtxOK
<1>3. ASSUME NEW k \in Key PROVE LockOK(k)
  <2>0. 0 \in 0..Room /\ Lost = {} /\ Cardinality(Lost) = 0
    BY LostBound, FS_EmptySet DEF Init, Lost
  <2>1. lock[k] = EmptyLock(k)
    BY DEF Init
  <2>2. /\ lock[k].granted = {} /\ Range(lock[k].waiting) = {} /\ IsInjective(lock[k].waiting)
        /\ GrantedTally(k, lock[k], types, Cardinality(Lost)) /\ WaitingTally(k, lock[k], types)
    BY <2>0, <2>1, EmptyLockOK
  <2>3. \A t \in Ticket : ~IsGranted(t) /\ ~IsWaiting(t)
    BY DEF Init, IsGranted, IsWaiting, Queued, WaitPC, Ticket
  <2> QED
    BY <2>2, <2>3 DEF LockOK, Lists, Compatible
<1>4. IterOK
  BY DEF Init, IterOK
<1> QED
  BY <1>1, <1>2, <1>3, <1>4 DEF IInv

\* The lock after remove_ticket(), before reschedule_waiters(): the lock without the
\* ticket, or a new one if no ticket is left.
AfterRemove(k, r) == lock'[k] = r \/ (IsEmpty(r) /\ lock'[k] = EmptyLock(k))

\* A ticket leaves the lists in remove_ticket(), whether the lock stays or is reclaimed.
LEMMA LeaveOrReset ==
  ASSUME IInv, Types', NEW t \in Ticket, NEW k \in Key, Moves({t}, k),
         ~IsGranted(t)', ~IsWaiting(t)',
         NEW r \in LockType(k), AfterRemove(k, r),
         r.granted = lock[k].granted \ {t}, IsInjective(r.waiting),
         Range(r.waiting) = Range(lock[k].waiting) \ {t},
         NEW n \in 0..Room, n <= Cardinality(Lost'),
         GrantedTally(k, r, types, n),
         gone = {} /\ gone' = {} => WaitingTally(k, r, types)
  PROVE  \A j \in Key : LockOK(j)'
<1>1. CASE lock'[k] = r
  BY <1>1, Leave
<1>2. CASE IsEmpty(r) /\ lock'[k] = EmptyLock(k)
  <2> DEFINE e == EmptyLock(k)
  <2>1. /\ e \in LockType(k) /\ e.granted = {} /\ e.waiting = <<>>
        /\ Range(e.waiting) = {} /\ IsInjective(e.waiting)
        /\ GrantedTally(k, e, types, n) /\ WaitingTally(k, e, types)
    BY EmptyLockOK
  <2>2. r.granted = {} /\ r.waiting = <<>> /\ lock'[k] = e
    BY <1>2 DEF IsEmpty
  <2> HIDE DEF e
  <2>3. /\ e.granted = lock[k].granted \ {t}
        /\ Range(e.waiting) = Range(lock[k].waiting) \ {t}
    BY <2>1, <2>2
  <2> QED
    BY <2>1, <2>2, <2>3, Leave
<1> QED
  BY <1>1, <1>2 DEF AfterRemove

\* A granted ticket is released.
LEMMA Depart ==
  ASSUME IInv, Types', NEW t \in Ticket, NEW k \in Key, Moves({t}, k),
         IsGranted(t), KeyOf(t) = k, ~IsGranted(t)', ~IsWaiting(t)',
         AfterRemove(k, Remove(lock[k], "granted", t, TypeOf(t)))
  PROVE  \A j \in Key : LockOK(j)'
<1> DEFINE r == Remove(lock[k], "granted", t, TypeOf(t))
<1>0. /\ lock[k] \in LockType(k) /\ IsInjective(lock[k].waiting)
      /\ \A u \in lock[k].granted \cup Range(lock[k].waiting) : TypeOf(u) \in TypesOf(k)
      /\ GrantedTally(k, lock[k], types, Cardinality(Lost))
      /\ gone = {} => WaitingTally(k, lock[k], types)
  BY LockFacts
<1>1. t \in lock[k].granted /\ t \notin Range(lock[k].waiting)
  <2>1. ~IsWaiting(t)
    BY DEF IsGranted, IsWaiting
  <2> QED
    BY <2>1 DEF IInv, LockOK, Lists
<1>2. /\ Cardinality(Lost) \in 0..Room /\ Cardinality(Lost') \in 0..Room
      /\ Cardinality(Lost) <= Cardinality(Lost')
  BY LostGrows
<1>3. types[t] = TypeOf(t) /\ TypeOf(t) \in TypesOf(k)
  BY <1>0, <1>1 DEF types
<1>4. GrantedRemoved(k, lock[k], r, t, TypeOf(t))
  BY <1>0, <1>3, RemoveGrantedIs
<1>5. GrantedTally(k, r, types, Cardinality(Lost))
  BY <1>0, <1>1, <1>2, <1>3, RemoveGrantedTally
<1>6. AfterRemove(k, r)
  OBVIOUS
<1> HIDE DEF r
<1>7. lock[k].waiting \in Seq(Ticket)
  BY <1>0 DEF LockType
<1>8. Without(lock[k].waiting, t) = lock[k].waiting
  BY <1>1 DEF Without
<1>9. /\ r \in LockType(k) /\ r.granted = lock[k].granted \ {t}
      /\ r.waiting = lock[k].waiting
  BY <1>4, <1>8 DEF GrantedRemoved
<1>10. gone = {} => WaitingTally(k, r, types)
  BY <1>0, <1>4, <1>9 DEF WaitingTally, GrantedRemoved
<1>11. Range(r.waiting) = Range(lock[k].waiting) \ {t} /\ IsInjective(r.waiting)
  BY <1>0, <1>1, <1>9
<1> QED
  BY <1>2, <1>5, <1>6, <1>9, <1>10, <1>11, LeaveOrReset

\* A request is given up: it is still in the queue,
LEMMA AbortWaiting ==
  ASSUME IInv, Types', NEW t \in Ticket, NEW k \in Key, Moves({t}, k),
         IsWaiting(t), KeyOf(t) = k, ~IsGranted(t)', ~IsWaiting(t)',
         AfterRemove(k, Remove(lock[k], "waiting", t, TypeOf(t)))
  PROVE  \A j \in Key : LockOK(j)'
<1> DEFINE r == Remove(lock[k], "waiting", t, TypeOf(t))
<1>0. /\ lock[k] \in LockType(k) /\ IsInjective(lock[k].waiting)
      /\ \A u \in lock[k].granted \cup Range(lock[k].waiting) : TypeOf(u) \in TypesOf(k)
      /\ GrantedTally(k, lock[k], types, Cardinality(Lost))
      /\ gone = {} => WaitingTally(k, lock[k], types)
  BY LockFacts
<1>1. t \notin lock[k].granted /\ t \in Range(lock[k].waiting)
  <2>1. ~IsGranted(t)
    BY DEF IsGranted, IsWaiting
  <2> QED
    BY <2>1 DEF IInv, LockOK, Lists
<1>2. /\ Cardinality(Lost) \in 0..Room /\ Cardinality(Lost') \in 0..Room
      /\ Cardinality(Lost) <= Cardinality(Lost')
  BY LostGrows
<1>3. types[t] = TypeOf(t) /\ TypeOf(t) \in TypesOf(k)
  BY <1>0, <1>1 DEF types
<1>4. WaitingRemoved(k, lock[k], r, t, TypeOf(t))
  BY <1>0, <1>3, RemoveWaitingIs
<1>5. gone = {} => WaitingTally(k, r, types)
  BY <1>0, <1>1, <1>3, RemoveWaitingTally
<1>6. AfterRemove(k, r)
  OBVIOUS
<1> HIDE DEF r
<1>7. lock[k].waiting \in Seq(Ticket)
  BY <1>0 DEF LockType
<1>8. /\ r \in LockType(k) /\ r.granted = lock[k].granted \ {t} /\ r.granted = lock[k].granted
      /\ r.waiting = Without(lock[k].waiting, t)
  BY <1>1, <1>4 DEF WaitingRemoved
<1>9. GrantedTally(k, r, types, Cardinality(Lost))
  BY <1>0, <1>4, <1>8 DEF GrantedTally, WaitingRemoved
<1>10. Range(r.waiting) = Range(lock[k].waiting) \ {t} /\ IsInjective(r.waiting)
  <2>1. /\ Range(Without(lock[k].waiting, t)) = Range(lock[k].waiting) \ {t}
        /\ IsInjective(Without(lock[k].waiting, t))
    BY <1>0, WithoutQueue
  <2> QED
    BY <1>8, <2>1
<1> QED
  BY <1>2, <1>5, <1>6, <1>8, <1>9, <1>10, LeaveOrReset

\* or it was granted after its client was found to be gone.
LEMMA AbortGranted ==
  ASSUME IInv, Types', NEW t \in Ticket, NEW k \in Key, Moves({t}, k),
         IsGranted(t), KeyOf(t) = k, ~IsGranted(t)', ~IsWaiting(t)',
         AfterRemove(k, Remove(lock[k], "waiting", t, TypeOf(t))),
         NEW c \in Lost', c \notin Lost
  PROVE  \A j \in Key : LockOK(j)'
<1> DEFINE r == Remove(lock[k], "waiting", t, TypeOf(t))
           n == Cardinality(Lost)
<1>0. /\ lock[k] \in LockType(k) /\ IsInjective(lock[k].waiting)
      /\ \A u \in lock[k].granted \cup Range(lock[k].waiting) : TypeOf(u) \in TypesOf(k)
      /\ GrantedTally(k, lock[k], types, n)
  BY LockFacts
<1>1. t \in lock[k].granted /\ t \notin Range(lock[k].waiting)
  <2>1. ~IsWaiting(t)
    BY DEF IsGranted, IsWaiting
  <2> QED
    BY <2>1 DEF IInv, LockOK, Lists
<1>2. n \in 0..Room /\ n + 1 \in 0..Room /\ n + 1 <= Cardinality(Lost')
  <2>1. Lost \cup {c} \subseteq Lost' /\ Lost' \subseteq Disconnecting
    BY DEF Moves, LostStays, Lost, Types
  <2>2. /\ Cardinality(Lost \cup {c}) \in 0..Room /\ n \in 0..Room
        /\ Cardinality(Lost \cup {c}) <= Cardinality(Lost')
    BY <2>1, LostBound
  <2>3. IsFiniteSet(Lost)
    BY <2>1, MdlConstants, FS_Subset
  <2>4. Cardinality(Lost \cup {c}) = n + 1
    BY <2>3, FS_AddElement
  <2> QED
    BY <2>2, <2>4
<1>3. TypeOf(t) \in TypesOf(k)
  BY <1>0, <1>1
<1>4. WaitingRemoved(k, lock[k], r, t, TypeOf(t))
  BY <1>0, <1>3, RemoveWaitingIs
<1>5. GrantedTally(k, r, types, n + 1)
  BY <1>0, <1>1, <1>2, <1>3, AbortGrantedTally
<1>6. AfterRemove(k, r)
  OBVIOUS
<1> HIDE DEF r, n
<1>7. Without(lock[k].waiting, t) = lock[k].waiting
  BY <1>1 DEF Without
<1>8. /\ r \in LockType(k) /\ r.granted = lock[k].granted \ {t}
      /\ r.waiting = lock[k].waiting
  BY <1>4, <1>7 DEF WaitingRemoved
<1>9. Range(r.waiting) = Range(lock[k].waiting) \ {t} /\ IsInjective(r.waiting)
  BY <1>0, <1>1, <1>8
<1>10. gone' # {}
  BY DEF Lost
<1> QED
  BY <1>2, <1>5, <1>6, <1>8, <1>9, <1>10, LeaveOrReset

\* reschedule_waiters() moves a request from the queue to the owners.
LEMMA GrantWaiting ==
  ASSUME IInv, Types', NEW t \in Ticket, NEW k \in Key, Moves({t}, k),
         IsWaiting(t), KeyOf(t) = k, IsGranted(t)', ~IsWaiting(t)', ticket'[t] = ticket[t],
         NEW r, r = AddGranted(Remove(lock[k], "waiting", t, TypeOf(t)), t, TypeOf(t)),
         lock'[k].granted = r.granted, lock'[k].waiting = r.waiting,
         lock'[k].bitmap = r.bitmap, lock'[k].count = r.count,
         \A u \in lock[k].granted :
             u[1] = t[1] \/ TypeOf(u) \notin GrantedIncompatible(k, TypeOf(t))
  PROVE  \A j \in Key : LockOK(j)'
<1> DEFINE m == Remove(lock[k], "waiting", t, TypeOf(t))
<1>0. /\ lock[k] \in LockType(k) /\ IsInjective(lock[k].waiting)
      /\ lock[k].granted \in SUBSET Ticket /\ Range(lock[k].waiting) \in SUBSET Ticket
      /\ \A u \in lock[k].granted \cup Range(lock[k].waiting) : TypeOf(u) \in TypesOf(k)
      /\ Compatible(k, lock[k].granted, types)
      /\ GrantedTally(k, lock[k], types, Cardinality(Lost))
      /\ gone = {} => WaitingTally(k, lock[k], types)
  BY LockFacts
<1>1. t \notin lock[k].granted /\ t \in Range(lock[k].waiting)
  <2>1. ~IsGranted(t)
    BY DEF IsGranted, IsWaiting
  <2> QED
    BY <2>1 DEF IInv, LockOK, Lists
<1>2. /\ Cardinality(Lost) \in 0..Room /\ Cardinality(Lost') \in 0..Room
      /\ Cardinality(Lost) <= Cardinality(Lost')
  BY LostGrows
<1>3. types[t] = TypeOf(t) /\ TypeOf(t) \in TypesOf(k)
  BY <1>0, <1>1 DEF types
<1>4. WaitingRemoved(k, lock[k], m, t, TypeOf(t))
  BY <1>0, <1>3, RemoveWaitingIs
<1>5. gone = {} => WaitingTally(k, m, types)
  BY <1>0, <1>1, <1>3, RemoveWaitingTally
<1>6. r = AddGranted(m, t, TypeOf(t))
  OBVIOUS
<1> HIDE DEF m
<1>7. lock[k].waiting \in Seq(Ticket)
  BY <1>0 DEF LockType
<1>8. /\ m \in LockType(k) /\ m.granted = lock[k].granted
      /\ m.waiting = Without(lock[k].waiting, t)
  BY <1>1, <1>4 DEF WaitingRemoved
<1>9. GrantedTally(k, m, types, Cardinality(Lost))
  BY <1>0, <1>4, <1>8 DEF GrantedTally, WaitingRemoved
<1>10. Range(m.waiting) = Range(lock[k].waiting) \ {t} /\ IsInjective(m.waiting)
  <2>1. /\ Range(Without(lock[k].waiting, t)) = Range(lock[k].waiting) \ {t}
        /\ IsInjective(Without(lock[k].waiting, t))
    BY <1>0, WithoutQueue
  <2> QED
    BY <1>8, <2>1
<1>11. GrantedAdded(k, m, r, t, TypeOf(t))
  BY <1>3, <1>6, <1>8, AddGrantedIs
<1>12. GrantedTally(k, r, types, Cardinality(Lost))
  BY <1>1, <1>2, <1>3, <1>6, <1>8, <1>9, AddGrantedTally
<1>13. r \in LockType(k) /\ r.granted = lock[k].granted \cup {t} /\ r.waiting = m.waiting
  BY <1>8, <1>11 DEF GrantedAdded
<1>14. Lists(k)'
  <2>1. /\ lock'[k].granted \ {t} = lock[k].granted \ {t}
        /\ Range(lock'[k].waiting) \ {t} = Range(lock[k].waiting) \ {t}
        /\ IsInjective(lock'[k].waiting)
        /\ \A u \in {t} : u \in lock'[k].granted <=> u \in Ticket /\ IsGranted(u)'
        /\ \A u \in {t} : u \in Range(lock'[k].waiting) <=> u \in Ticket /\ IsWaiting(u)'
    BY <1>10, <1>13
  <2> QED
    BY <2>1, ListsBecome
<1>15. \A u \in r.granted \cup Range(r.waiting) : types'[u] = types[u]
  <2>1. types'[t] = types[t]
    BY DEF types, TypeOf
  <2> QED
    <3>1. \A u \in lock[k].granted \cup Range(lock[k].waiting) :
              u \in {t} \/ types'[u] = types[u]
      BY TypesOfOthersStay
    <3> QED
      BY <1>10, <1>13, <2>1, <3>1
<1>16. Compatible(k, r.granted, types)
  <2>1. Backup = {}
    BY DEF IInv
  <2>2. \A u \in lock[k].granted \cup {t} : types[u] = TypeOf(u)
    BY <1>0 DEF types
  <2>3. /\ \A u \in lock[k].granted \cup {t} : types[u] \in TypesOf(k)
        /\ \A u \in lock[k].granted :
              u[1] = t[1] \/ types[u] \notin GrantedIncompatible(k, types[t])
    BY <1>0, <1>3, <2>2
  <2>4. Compatible(k, lock[k].granted, types)
    BY <1>0
  <2>5. Compatible(k, lock[k].granted \cup {t}, types)
    BY <2>1, <2>3, <2>4, CompatibleAdd
  <2> QED
    BY <1>13, <2>5
<1>17. Compatible(k, r.granted, types')
  <2>1. \A u \in r.granted : types'[u] = types[u]
    BY <1>15
  <2> QED
    BY <1>16, <2>1, CompatibleSame
<1>18. GrantedTally(k, r, types', Cardinality(Lost))
  <2>1. \A u \in r.granted : types'[u] = types[u]
    BY <1>15
  <2>2. r \in LockType(k) /\ Cardinality(Lost) \in 0..Room
    BY <1>2, <1>13
  <2> QED
    BY <1>12, <2>1, <2>2, GrantedTallyKept
<1>19. WaitingTally(k, m, types) => WaitingTally(k, r, types)
  BY <1>11, <1>13 DEF WaitingTally, GrantedAdded
<1>20. gone = {} /\ gone' = {} => WaitingTally(k, r, types')
  BY <1>5, <1>15, <1>19, WaitingTallySame
<1>21. LockOK(k)'
  BY <1>2, <1>13, <1>14, <1>17, <1>18, <1>20, LockBecomes
<1> QED
  BY <1>21, OtherLocksStay

\* A granted ticket t gets another type: downgrade(), upgrade().  In an upgrade the
\* other tickets of S have left the lock already; lk is the lock without them.
LEMMA Change ==
  ASSUME IInv, Types', NEW S \in SUBSET Ticket, NEW t \in S, NEW k \in Key, Moves(S, k),
         IsGranted(t), KeyOf(t) = k, IsGranted(t)', ~IsWaiting(t)',
         \A u \in S \ {t} : ~IsGranted(u)' /\ ~IsWaiting(u)' /\ ~IsWaiting(u),
         NEW ty \in TypesOf(k), TypeOf(t)' = ty,
         NEW lk \in LockType(k), lk.waiting = lock[k].waiting,
         lk.granted = lock[k].granted \ (S \ {t}),
         GrantedTally(k, lk, types, Cardinality(Lost)),
         gone = {} => WaitingTally(k, lk, types),
         lock'[k] = AddGranted(Remove(lk, "granted", t, TypeOf(t)), t, ty),
         \A u \in lock[k].granted \ {t} :
             u[1] = t[1] \/ TypeOf(u) \notin GrantedIncompatible(k, ty)
  PROVE  \A j \in Key : LockOK(j)'
<1> DEFINE m == Remove(lk, "granted", t, TypeOf(t))
           r == AddGranted(m, t, ty)
           n == Cardinality(Lost)
<1>0. /\ IsInjective(lock[k].waiting)
      /\ lock[k].granted \in SUBSET Ticket /\ Range(lock[k].waiting) \in SUBSET Ticket
      /\ \A u \in lock[k].granted \cup Range(lock[k].waiting) : TypeOf(u) \in TypesOf(k)
      /\ Compatible(k, lock[k].granted, types)
  BY LockFacts
<1>1. t \in lk.granted /\ t \in lock[k].granted /\ t \notin Range(lock[k].waiting)
  <2>1. ~IsWaiting(t)
    BY DEF IsGranted, IsWaiting
  <2> QED
    BY <2>1 DEF IInv, LockOK, Lists
<1>2. \A u \in S : u \notin Range(lock[k].waiting)
  BY <1>1 DEF IInv, LockOK, Lists
<1>3. n \in 0..Room /\ n <= n /\ Cardinality(Lost') \in 0..Room /\ n <= Cardinality(Lost')
  BY LostGrows, RoomNat
<1>4. types[t] = TypeOf(t) /\ TypeOf(t) \in TypesOf(k) /\ types'[t] = ty
  BY <1>0, <1>1 DEF types
<1>5. GrantedRemoved(k, lk, m, t, TypeOf(t))
  BY <1>0, <1>4, RemoveGrantedIs
<1>6. GrantedTally(k, m, types, n)
  BY <1>0, <1>1, <1>3, <1>4, RemoveGrantedTally
<1>7. lock'[k] = r
  OBVIOUS
<1> HIDE DEF n
<1>8. Without(lk.waiting, t) = lk.waiting
  BY <1>1 DEF Without
<1> HIDE DEF m
<1>9. /\ m \in LockType(k) /\ m.granted = lk.granted \ {t} /\ m.waiting = lk.waiting
      /\ m.granted = lock[k].granted \ S
  BY <1>5, <1>8 DEF GrantedRemoved
<1>10. \A u \in m.granted \cup Range(m.waiting) : types'[u] = types[u]
  <2>1. \A u \in lock[k].granted \cup Range(lock[k].waiting) :
            u \in S \/ types'[u] = types[u]
    BY TypesOfOthersStay
  <2> QED
    BY <1>2, <1>9, <2>1
<1>11. GrantedTally(k, m, types', n)
  BY <1>3, <1>6, <1>9, <1>10, GrantedTallySame
<1>12. GrantedAdded(k, m, r, t, ty)
  BY <1>9, AddGrantedIs
<1>13. GrantedTally(k, r, types', n)
  BY <1>3, <1>4, <1>9, <1>11, AddGrantedTally
<1> HIDE DEF r
<1>14. /\ r \in LockType(k) /\ r.granted = m.granted \cup {t} /\ r.waiting = lock[k].waiting
  BY <1>9, <1>12 DEF GrantedAdded
<1>15. Lists(k)'
  <2>1. /\ lock'[k].granted \ S = lock[k].granted \ S
        /\ Range(lock'[k].waiting) \ S = Range(lock[k].waiting) \ S
        /\ IsInjective(lock'[k].waiting)
    <3>1. r.granted \ S = lock[k].granted \ S
      BY <1>9, <1>14, OutsideSame
    <3> QED
      BY <1>0, <1>7, <1>14, <3>1
  <2>2. /\ \A u \in S : u \in lock'[k].granted <=> u \in Ticket /\ IsGranted(u)'
        /\ \A u \in S : u \in Range(lock'[k].waiting) <=> u \in Ticket /\ IsWaiting(u)'
    BY <1>2, <1>7, <1>9, <1>14
  <2> QED
    BY <2>1, <2>2, ListsBecome
<1>16. Compatible(k, r.granted, types')
  <2>1. Backup = {}
    BY DEF IInv
  <2>2. \A u \in m.granted : types'[u] = TypeOf(u)
    BY <1>0, <1>9, <1>10 DEF types
  <2>3. /\ \A u \in m.granted \cup {t} : types'[u] \in TypesOf(k)
        /\ \A u \in m.granted :
              u[1] = t[1] \/ types'[u] \notin GrantedIncompatible(k, types'[t])
    <3>1. \A u \in m.granted : u \in lock[k].granted /\ u # t
      BY <1>9
    <3> QED
      <4>1. \A u \in m.granted \cup {t} : types'[u] \in TypesOf(k)
        BY <1>0, <1>4, <2>2, <3>1
      <4>2. \A u \in m.granted : u[1] = t[1] \/ TypeOf(u) \notin GrantedIncompatible(k, ty)
        BY <3>1
      <4> QED
        BY <1>4, <2>2, <4>1, <4>2
  <2>4. Compatible(k, m.granted, types')
    BY <1>0, <1>9, <1>10 DEF Compatible
  <2>5. Compatible(k, m.granted \cup {t}, types')
    BY <2>1, <2>3, <2>4, CompatibleAdd
  <2> QED
    BY <1>14, <2>5
<1>17. WaitingTally(k, lk, types) => WaitingTally(k, r, types)
  <2>1. /\ r.waiting = lk.waiting /\ r.bitmap.waiting = lk.bitmap.waiting
        /\ r.count.waiting = lk.count.waiting
    BY <1>5, <1>12, <1>14 DEF GrantedAdded, GrantedRemoved
  <2> QED
    BY <2>1 DEF WaitingTally
<1>18. gone = {} /\ gone' = {} => WaitingTally(k, r, types')
  BY <1>9, <1>10, <1>14, <1>17, WaitingTallySame
<1>19. LockOK(k)'
  BY <1>3, <1>7, <1>13, <1>14, <1>15, <1>16, <1>18, LockBecomes
<1> QED
  BY <1>19, OtherLocksStay
====
