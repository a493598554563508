------------------------------ MODULE MdlSteps ------------------------------
(***************************************************************************)
(* The steps of a context that acquires and waits for a metadata lock, and *)
(* the beginning of a release, keep the invariant.                         *)
(***************************************************************************)
EXTENDS MdlInv

\* Most leaves are first-order; those that need arithmetic or sequences cite SMT.
USE Zenon

\* A step of c leaves the other contexts alone, but may choose one as a victim.
OthersSame(c) ==
    \A d \in Ctx \ {c} :
        /\ pc'[d] = pc[d] /\ call'[d] = call[d] /\ wait_status'[d] = wait_status[d]
        /\ m_tickets'[d] = m_tickets[d]
        /\ \/ m_wait_status'[d] = m_wait_status[d]
           \/ m_wait_status[d] = "EMPTY" /\ m_wait_status'[d] = "VICTIM"
        /\ d \in gone' <=> d \in gone
        /\ \A s \in Slot : ticket'[<<d, s>>] = ticket[<<d, s>>]

\* Their part of the invariant still holds, and their tickets stay.
LEMMA OthersStay ==
  ASSUME IInv, NEW c \in Ctx, OthersSame(c), NEW d \in Ctx \ {c}
  PROVE  /\ CtxOK(d)' /\ \A s \in Slot : Stays(<<d, s>>)
         /\ d \in Lost <=> d \in Lost'
<1>1. /\ pc'[d] = pc[d] /\ call'[d] = call[d] /\ wait_status'[d] = wait_status[d]
      /\ m_tickets'[d] = m_tickets[d]
      /\ \/ m_wait_status'[d] = m_wait_status[d]
         \/ m_wait_status[d] = "EMPTY" /\ m_wait_status'[d] = "VICTIM"
      /\ d \in gone' <=> d \in gone
      /\ \A s \in Slot : ticket'[<<d, s>>] = ticket[<<d, s>>]
  BY SMT DEF OthersSame
<1> USE <1>1
<1>2. Control(d) /\ Justified(d) /\ Transactional(d) /\ Slots(d)
  BY SMT DEF IInv, CtxOK
<1> USE <1>2
<1>3. \A s : Has(d, s)' <=> Has(d, s)
  BY SMT DEF Has
<1>4. Control(d)'
  BY <1>3 DEF Control
<1>5. Transactional(d)'
  BY <1>3, SMT DEF Transactional
<1>6. Slots(d)'
  BY SMT DEF Slots, Queued, NewOutside
<1>7. \A s : s \in Slot => KeyOf(<<d, s>>)' = KeyOf(<<d, s>>) /\ TypeOf(<<d, s>>)' = TypeOf(<<d, s>>)
  BY SMT DEF KeyOf, TypeOf
<1>8. /\ call[d].op \in {"upgrade", "downgrade"} => call[d].old \in Slot
      /\ call[d].new # 0 => call[d].new \in Slot
      /\ pc[d] = "clone" => call[d].new # 0
      /\ pc[d] = "merge" => call[d].old \in Slot
      /\ pc[d] = "downgrade" => call[d].old \in Slot
  BY DEF Control, Has
<1>9. Justified(d)'
  <2>1. \A k, ty : Stronger(d, k, ty)' <=> Stronger(d, k, ty)
    BY <1>3, <1>7 DEF Stronger
  <2> QED
    BY <1>7, <1>8, <2>1 DEF Justified, NewTicket, OldTicket
<1>10. ASSUME NEW s \in Slot PROVE Stays(<<d, s>>)
  BY DEF Stays, IsGranted, IsWaiting, Queued, NewOutside, OldOutside
<1>11. d \in Lost <=> d \in Lost'
  BY DEF Lost
<1> QED
  BY <1>4, <1>5, <1>6, <1>9, <1>10, <1>11, SMT DEF CtxOK

\* What remains to be shown of a step of c.
LEMMA Step ==
  ASSUME IInv, NEW c \in Ctx, OthersSame(c), Types', CtxOK(c)',
         \A k \in Key : LockOK(k)'
  PROVE  IInv'
<1>1. \A d \in Ctx : CtxOK(d)'
  BY OthersStay, SMT
<1> QED
  BY <1>1, SMT DEF IInv

\* c itself is not forgotten as one whose request was in the wrong list.
StaysLost(c) == (c \in gone => c \in gone') /\ (c \in Lost => c \in Lost')

\* If the acting context stays among those whose request may be in the wrong list, all do.
LEMMA LostOf ==
  ASSUME IInv, NEW c \in Ctx, OthersSame(c), StaysLost(c)
  PROVE  LostStays
<1>1. gone \subseteq Ctx
  BY MdlConstants, SMT DEF IInv, Types
<1>2. \A d \in Lost : d \in Ctx
  BY <1>1, SMT DEF Lost
<1>3. \A d \in Lost : d \in Lost'
  BY <1>2, OthersStay, SMT DEF StaysLost
<1>4. gone \subseteq gone'
  BY <1>1, SMT DEF OthersSame, StaysLost
<1> QED
  BY <1>3, <1>4, SMT DEF LostStays

\* A step that moves no ticket.
LEMMA NothingMoves ==
  ASSUME IInv, NEW c \in Ctx, OthersSame(c), StaysLost(c), Types', CtxOK(c)',
         \A s \in Slot : Stays(<<c, s>>),
         \A k \in Key : /\ lock'[k].granted = lock[k].granted
                        /\ lock'[k].waiting = lock[k].waiting
                        /\ lock'[k].bitmap = lock[k].bitmap
                        /\ lock'[k].count = lock[k].count
  PROVE  IInv'
<1>1. \A t \in Ticket : Stays(t)
  <2> SUFFICES ASSUME NEW t \in Ticket PROVE Stays(t)
    BY SMT
  <2>1. PICK d \in Ctx, s \in Slot : t = <<d, s>>
    BY SMT DEF Ticket
  <2>2. Stays(<<d, s>>)
    BY <2>1, OthersStay, SMT
  <2> QED
    BY <2>1, <2>2, SMT
<1>2. LostStays
  BY LostOf, SMT
<1>3. \A k \in Key : LockOK(k)'
  BY <1>1, <1>2, LockStays, SMT
<1> QED
  BY <1>3, Step, SMT

\* A step that moves tickets of c on lock k.
LEMMA MovesOf ==
  ASSUME IInv, NEW c \in Ctx, OthersSame(c), StaysLost(c), NEW T \in SUBSET Slot, NEW k,
         \A s \in Slot \ T : Stays(<<c, s>>),
         \A s \in T :
             /\ IsGranted(<<c, s>>) \/ IsWaiting(<<c, s>>) => KeyOf(<<c, s>>) = k
             /\ IsGranted(<<c, s>>)' \/ IsWaiting(<<c, s>>)' => KeyOf(<<c, s>>)' = k,
         \A j \in Key \ {k} : lock'[j] = lock[j]
  PROVE  Moves({<<c, s>> : s \in T}, k)
<1> DEFINE S == {<<c, s>> : s \in T}
<1>1. ASSUME NEW t \in Ticket \ S PROVE Stays(t)
  <2>1. PICK d \in Ctx, s \in Slot : t = <<d, s>>
    BY SMT DEF Ticket
  <2>2. Stays(<<d, s>>)
    <3>1. CASE d = c
      BY <2>1, <3>1, SMT
    <3>2. CASE d # c
      BY <3>2, OthersStay
    <3> QED
      BY <3>1, <3>2, SMT
  <2> QED
    BY <2>1, <2>2, SMT
<1>2. ASSUME NEW t \in S
      PROVE  /\ IsGranted(t) \/ IsWaiting(t) => KeyOf(t) = k
             /\ IsGranted(t)' \/ IsWaiting(t)' => KeyOf(t)' = k
  <2>1. PICK s \in T : t = <<c, s>>
    BY SMT
  <2> QED
    BY <2>1, SMT
<1>3. LostStays
  BY LostOf, SMT
<1> HIDE DEF S
<1>4. Moves(S, k)
  BY <1>1, <1>2, <1>3, SMT DEF Moves
<1> QED
  BY <1>4, SMT DEF S

----------------------------------------------------------------------------
(* The steps of a context that waits *)

\* A step from one place of acquire_lock()'s wait to another.
LEMMA OnlyWaits ==
  ASSUME IInv, NEW c \in Ctx, Types', OthersSame(c), StaysLost(c), Slots(c)',
         pc[c] \in WaitPC, pc'[c] \in WaitPC, UNCHANGED <<ticket, lock, m_tickets, call>>,
         m_wait_status'[c] = "GRANTED" <=> m_wait_status[c] = "GRANTED"
  PROVE  IInv'
<1>1. Control(c) /\ Justified(c) /\ Transactional(c)
  BY CtxFacts
<1>2. Control(c)'
  <2>1. \A s : Has(c, s)' <=> Has(c, s)
    BY DEF Has
  <2> QED
    BY <1>1, <2>1 DEF Control, WaitPC
<1>3. Justified(c)'
  BY <1>1 DEF Justified, WaitPC, KeyOf, TypeOf, NewTicket, OldTicket
<1>4. Transactional(c)'
  BY <1>1 DEF Transactional, WaitPC, Has
<1>5. ASSUME NEW s \in Slot PROVE Stays(<<c, s>>)
  BY DEF Stays, IsGranted, IsWaiting, Queued, NewOutside, OldOutside, WaitPC
<1>6. CtxOK(c)'
  BY <1>2, <1>3, <1>4 DEF CtxOK
<1> QED
  BY <1>5, <1>6, NothingMoves

\* will_wait_for() keeps the invariant.
LEMMA WillWaitForStep ==
  ASSUME IInv, NEW c \in Ctx, WillWaitFor(c)
  PROVE  IInv'
<1>0. Types /\ Slots(c)
  BY CtxFacts
<1>1. /\ pc[c] = "will_wait" /\ pc' = [pc EXCEPT ![c] = "search"]
      /\ UNCHANGED <<ticket, m_fast_lane, lock, m_tickets, call, m_wait_status, wait_status, gone>>
  BY SMT DEF WillWaitFor, Goto, ticketVars, lockVars
<1> USE <1>1
<1>2. Types' /\ pc'[c] = "search"
  BY <1>0, SMT DEF Types, PCs, WaitPC
<1> USE <1>2
<1>3. OthersSame(c)
  BY <1>0, SMT DEF OthersSame, Types
<1>4. StaysLost(c)
  BY SMT DEF StaysLost, Lost
<1>5. Slots(c)'
  BY <1>0 DEF Slots, Queued, NewOutside, WaitPC
<1>6. pc[c] \in WaitPC /\ pc'[c] \in WaitPC
  BY SMT DEF WaitPC
<1> QED
  BY <1>3, <1>4, <1>5, <1>6, OnlyWaits, SMT

\* timed_wait() returns; only a disconnect leaves the slot as if nothing had happened.
LEMMA WaitReturnsStep ==
  ASSUME IInv, NEW c \in Ctx, NEW status \in WaitStatus, NEW slot \in WaitStatus,
         WaitReturns(c, status, slot),
         slot = "GRANTED" <=> m_wait_status[c] = "GRANTED",
         status = "GRANTED" => slot = "GRANTED",
         \/ gone' = gone /\ slot = status /\ status # "EMPTY"
         \/ gone' = gone \cup {c} /\ c \in Disconnecting /\ status # "GRANTED"
  PROVE  IInv'
<1>0. Types /\ Slots(c)
  BY CtxFacts
<1> USE <1>0
<1>1. /\ pc[c] = "wait" /\ pc' = [pc EXCEPT ![c] = "done"]
      /\ wait_status' = [wait_status EXCEPT ![c] = status]
      /\ m_wait_status' = [m_wait_status EXCEPT ![c] = slot]
      /\ UNCHANGED <<ticket, m_fast_lane, lock, m_tickets, call>>
  BY SMT DEF WaitReturns, Goto, ticketVars, lockVars
<1> USE <1>1
<1>2. /\ Types' /\ pc'[c] = "done" /\ wait_status'[c] = status /\ m_wait_status'[c] = slot
  BY DEF Types, PCs, WaitPC
<1> USE <1>2
<1>3. OthersSame(c)
  BY DEF OthersSame, Types
<1>4. StaysLost(c)
  BY DEF StaysLost, Lost, Slots
<1>5. Slots(c)'
  BY DEF Slots, Queued, NewOutside, WaitPC
<1>6. pc[c] \in WaitPC /\ pc'[c] \in WaitPC
  BY SMT DEF WaitPC
<1> QED
  BY <1>3, <1>4, <1>5, <1>6, OnlyWaits, SMT

\* The end of timed_wait(), however it comes, keeps the invariant.
LEMMA WaitEndsStep ==
  ASSUME IInv, NEW c \in Ctx, WaitEnds(c) \/ Timeout(c) \/ Kill(c) \/ Disconnect(c)
  PROVE  IInv'
<1>1. m_wait_status[c] \in WaitStatus
  BY SMT DEF IInv, Types
<1>2. CASE WaitEnds(c)
  BY <1>1, <1>2, WaitReturnsStep, SMT DEF WaitEnds
<1>3. CASE Timeout(c)
  BY <1>3, WaitReturnsStep, SMT DEF Timeout, WaitStatus
<1>4. CASE Kill(c)
  BY <1>4, WaitReturnsStep, SMT DEF Kill, WaitStatus
<1>5. CASE Disconnect(c)
  BY <1>5, WaitReturnsStep, SMT DEF Disconnect, WaitStatus
<1> QED
  BY <1>2, <1>3, <1>4, <1>5, SMT

\* A step of find_deadlock() keeps the invariant.
LEMMA FindDeadlockStep ==
  ASSUME IInv, NEW c \in Ctx, FindDeadlock(c)
  PROVE  IInv'
<1>0. Types /\ Slots(c)
  BY CtxFacts, SMT
<1>1. /\ pc[c] = "search"
      /\ UNCHANGED <<ticket, m_fast_lane, lock, m_tickets, call, m_wait_status, wait_status, gone>>
  BY DEF FindDeadlock, ticketVars, lockVars, waitVars
<1> USE <1>1
<1>2. pc' = pc \/ \E l \in {"wait", "victim"} : pc' = [pc EXCEPT ![c] = l]
  <2>1. CASE \E d, st : Visit(c, d, st)
    <3>1. PICK d, st : Visit(c, d, st)
      BY <2>1, SMT
    <3> QED
      BY <3>1, SMT DEF Visit, Goto
  <2> QED
    BY <2>1 DEF FindDeadlock, Goto
<1>3. Types' /\ pc'[c] \in {"search", "wait", "victim"}
  BY <1>0, <1>2 DEF Types, PCs, WaitPC
<1> USE <1>3
<1>4. OthersSame(c)
  BY <1>0, <1>2 DEF OthersSame, Types
<1>5. StaysLost(c)
  BY DEF StaysLost, Lost
<1>6. Slots(c)'
  BY <1>0 DEF Slots, Queued, NewOutside, WaitPC
<1>7. pc[c] \in WaitPC /\ pc'[c] \in WaitPC
  BY SMT DEF WaitPC
<1> QED
  BY <1>4, <1>5, <1>6, <1>7, OnlyWaits, SMT

\* The choice of a victim, of this or of another context, keeps the invariant.
LEMMA SetVictimStep ==
  ASSUME IInv, NEW c \in Ctx, SetVictim(c)
  PROVE  IInv'
<1> DEFINE v == victim[c]
           slot == IF m_wait_status[v] = "EMPTY" THEN "VICTIM" ELSE m_wait_status[v]
<1>0. Types /\ Slots(c)
  BY CtxFacts, SMT
<1>1. /\ pc[c] = "victim" /\ \E l \in {"wait", "search"} : pc' = [pc EXCEPT ![c] = l]
      /\ m_wait_status' = [m_wait_status EXCEPT ![v] = slot]
      /\ UNCHANGED <<ticket, m_fast_lane, lock, m_tickets, call, wait_status, gone>>
  BY DEF SetVictim, Goto, ticketVars, lockVars
<1> HIDE DEF v
<1>2. \A d \in Ctx : /\ m_wait_status[d] \in WaitStatus
                     /\ \/ m_wait_status'[d] = m_wait_status[d]
                        \/ m_wait_status[d] = "EMPTY" /\ m_wait_status'[d] = "VICTIM"
  BY <1>0, <1>1 DEF Types
<1>3. m_wait_status' \in [Ctx -> WaitStatus]
  BY <1>0, <1>1, <1>2 DEF Types, WaitStatus
<1>4. Types' /\ pc'[c] \in {"search", "wait"}
  BY <1>0, <1>1, <1>3 DEF Types, PCs, WaitPC
<1>5. OthersSame(c)
  BY <1>0, <1>1, <1>2 DEF OthersSame, Types
<1>6. StaysLost(c)
  BY <1>1, <1>4 DEF StaysLost, Lost
<1>7. Slots(c)'
  BY <1>0, <1>1, <1>2, <1>4 DEF Slots, Queued, NewOutside, WaitPC
<1>8. pc[c] \in WaitPC /\ pc'[c] \in WaitPC
  BY <1>1, <1>4, SMT DEF WaitPC
<1> QED
  BY <1>1, <1>2, <1>4, <1>5, <1>6, <1>7, <1>8, OnlyWaits

----------------------------------------------------------------------------
(* The beginning of an operation *)

\* Release, rollback, upgrade and downgrade begin with a ticket the context has.
LEMMA Begins ==
  ASSUME IInv, NEW c \in Ctx, pc[c] = "idle", NEW cl \in CallType, NEW l,
         call' = [call EXCEPT ![c] = cl], pc' = [pc EXCEPT ![c] = l],
         UNCHANGED <<ticket, m_fast_lane, lock, m_tickets, m_wait_status, wait_status, gone>>,
         cl.new = 0, Has(c, cl.old),
         \/ l = "remove" /\ cl.op \in {"release", "rollback"}
         \/ l \in {"upgrade", "downgrade"} /\ cl.op = l /\ c \notin gone,
         l # "remove" => cl.type \in TypesOf(KeyOf(<<c, cl.old>>)),
         l = "downgrade" => HasStrongerOrEqualType(KeyOf(<<c, cl.old>>), TypeOf(<<c, cl.old>>), cl.type)
  PROVE  IInv'
<1>0. Types /\ Control(c) /\ Transactional(c) /\ Slots(c)
  BY CtxFacts
<1> USE <1>0
<1>1. pc'[c] = l /\ call'[c] = cl /\ call[c] = NoCall /\ cl.old # 0
  <2>1. 0 \notin Slot
    BY SMT DEF Slot
  <2> QED
    BY <2>1 DEF Types, Control, Has
<1> USE <1>1
<1>2. Types'
  BY DEF Types, PCs
<1>3. OthersSame(c)
  BY DEF OthersSame, Types
<1>4. StaysLost(c)
  BY DEF StaysLost, Lost
<1>5. Control(c)'
  BY DEF Control, Has, WaitPC
<1>6. Justified(c)'
  <2>1. l = "downgrade" => Stronger(c, KeyOf(<<c, cl.old>>), cl.type)'
    BY DEF Stronger, Has, KeyOf, TypeOf
  <2> QED
    BY <2>1 DEF Justified, OldTicket, NewTicket, KeyOf
<1>7. Transactional(c)'
  <2>1. 0 \notin Slot
    BY SMT DEF Slot
  <2> QED
    BY <2>1 DEF Transactional, Has
<1>8. Slots(c)'
  BY DEF Slots, Queued, NewOutside, WaitPC
<1>9. ASSUME NEW s \in Slot PROVE Stays(<<c, s>>)
  <2>1. s # 0 /\ NoCall.new = 0 /\ NoCall.op = "none"
    BY SMT DEF Slot, NoCall
  <2> QED
    BY <2>1 DEF Stays, IsGranted, IsWaiting, OldOutside
<1>10. CtxOK(c)'
  BY <1>5, <1>6, <1>7, <1>8 DEF CtxOK
<1> QED
  BY <1>2, <1>3, <1>4, <1>9, <1>10, NothingMoves

\* 0 stands for "no ticket".
LEMMA SlotRange == /\ 0 \in 0..MaxTickets /\ 0 \notin Slot
                   /\ \A s \in Slot : s \in 0..MaxTickets /\ s # 0
BY MdlConstants, SMT DEF Slot

\* The beginning of upgrade_shared_lock() keeps the invariant.
LEMMA UpgradeSharedLockStep ==
  ASSUME IInv, NEW c \in Ctx, UpgradeSharedLock(c)
  PROVE  IInv'
<1>1. PICK u \in Upgrades, s \in Slot :
         /\ ticket[<<c, s>>] # NoTicket
         /\ KeyOf(<<c, s>>) = u.key /\ TypeOf(<<c, s>>) = u.from
         /\ call' = [call EXCEPT ![c] =
                        [NoCall EXCEPT !.op = "upgrade", !.old = s, !.type = u.to]]
         /\ Goto(c, FirstStep(<<c, s>>, "upgrade"))
  BY DEF UpgradeSharedLock
<1> DEFINE cl == [NoCall EXCEPT !.op = "upgrade", !.old = s, !.type = u.to]
<1>2. u.to \in TypesOf(u.key) /\ u.to \in MdlType
  BY MdlConstants, NoCallType
<1>3. /\ cl \in CallType /\ cl.new = 0 /\ cl.old = s /\ cl.op = "upgrade" /\ cl.type = u.to
  BY <1>2, NoCallType, SlotRange DEF CallType, Ops
<1>4. pc' = [pc EXCEPT ![c] = "upgrade"] /\ call' = [call EXCEPT ![c] = cl]
  BY <1>1, NoLanes DEF Goto, Ticket
<1>5. /\ pc[c] = "idle" /\ c \notin gone
      /\ UNCHANGED <<ticket, m_fast_lane, lock, m_tickets, m_wait_status, wait_status, gone>>
  BY SMT DEF UpgradeSharedLock, ticketVars, lockVars, waitVars
<1>6. Has(c, s)
  BY <1>1, SMT DEF Has
<1> HIDE DEF cl
<1> QED
  BY <1>1, <1>2, <1>3, <1>4, <1>5, <1>6, Begins

\* The beginning of downgrade_lock() keeps the invariant.
LEMMA DowngradeLockStep ==
  ASSUME IInv, NEW c \in Ctx, DowngradeLock(c)
  PROVE  IInv'
<1>1. PICK d \in Downgrades, s \in Slot :
         /\ ticket[<<c, s>>] # NoTicket
         /\ KeyOf(<<c, s>>) = d.key /\ TypeOf(<<c, s>>) = d.from
         /\ HasStrongerOrEqualType(d.key, d.from, d.to)
         /\ call' = [call EXCEPT ![c] =
                        [NoCall EXCEPT !.op = "downgrade", !.old = s, !.type = d.to]]
         /\ Goto(c, FirstStep(<<c, s>>, "downgrade"))
  BY DEF DowngradeLock
<1> DEFINE cl == [NoCall EXCEPT !.op = "downgrade", !.old = s, !.type = d.to]
<1>2. d.to \in TypesOf(d.key) /\ d.to \in MdlType
  BY MdlConstants, NoCallType
<1>3. /\ cl \in CallType /\ cl.new = 0 /\ cl.old = s /\ cl.op = "downgrade" /\ cl.type = d.to
  BY <1>2, NoCallType, SlotRange DEF CallType, Ops
<1>4. pc' = [pc EXCEPT ![c] = "downgrade"] /\ call' = [call EXCEPT ![c] = cl]
  BY <1>1, NoLanes DEF Goto, Ticket
<1>5. /\ pc[c] = "idle" /\ c \notin gone
      /\ UNCHANGED <<ticket, m_fast_lane, lock, m_tickets, m_wait_status, wait_status, gone>>
  BY SMT DEF DowngradeLock, ticketVars, lockVars, waitVars
<1>6. Has(c, s)
  BY <1>1, SMT DEF Has
<1> HIDE DEF cl
<1> QED
  BY <1>1, <1>2, <1>3, <1>4, <1>5, <1>6, Begins

\* The beginning of release_lock() keeps the invariant.
LEMMA ReleaseLockStep ==
  ASSUME IInv, NEW c \in Ctx, ReleaseLock(c)
  PROVE  IInv'
<1>1. PICK s \in Slot :
         /\ ticket[<<c, s>>] # NoTicket
         /\ call' = [call EXCEPT ![c] = [NoCall EXCEPT !.op = "release", !.old = s]]
         /\ Goto(c, FirstStep(<<c, s>>, "remove"))
  BY DEF ReleaseLock
<1> DEFINE cl == [NoCall EXCEPT !.op = "release", !.old = s]
<1>2. /\ cl \in CallType /\ cl.new = 0 /\ cl.old = s /\ cl.op = "release"
  BY NoCallType, SlotRange DEF CallType, Ops
<1>3. pc' = [pc EXCEPT ![c] = "remove"] /\ call' = [call EXCEPT ![c] = cl]
  BY <1>1, NoLanes DEF Goto, Ticket
<1>4. /\ pc[c] = "idle"
      /\ UNCHANGED <<ticket, m_fast_lane, lock, m_tickets, m_wait_status, wait_status, gone>>
  BY SMT DEF ReleaseLock, ticketVars, lockVars, waitVars
<1>5. Has(c, s)
  BY <1>1, SMT DEF Has
<1> HIDE DEF cl
<1> QED
  BY <1>2, <1>3, <1>4, <1>5, Begins

\* Each turn of release_locks_stored_before() keeps the invariant.
LEMMA RollbackStep ==
  ASSUME IInv, NEW c \in Ctx, NEW keep \in 0..MaxTickets, RollbackToSavepoint(c, keep)
  PROVE  IInv'
<1> DEFINE n == Len(m_tickets[c])
           s == m_tickets[c][n]
           cl == [NoCall EXCEPT !.op = "rollback", !.keep = keep, !.old = s]
<1>1. m_tickets[c] \in Seq(Slot) /\ Transactional(c)
  BY CtxFacts DEF Types
<1>2. n \in Nat /\ keep < n
  BY <1>1, SMT DEF RollbackToSavepoint
<1>3. s \in Slot /\ Has(c, s)
  <2>1. n \in 1..n
    BY <1>2, MdlConstants, SMT
  <2>2. s \in Slot /\ s \in Range(m_tickets[c])
    BY <1>1, <2>1, SMT DEF Range
  <2> QED
    BY <1>1, <2>2 DEF Transactional
<1>4. /\ pc[c] = "idle" /\ call' = [call EXCEPT ![c] = cl]
      /\ Goto(c, FirstStep(<<c, s>>, "remove"))
      /\ UNCHANGED <<ticket, m_fast_lane, lock, m_tickets, m_wait_status, wait_status, gone>>
  BY SMT DEF RollbackToSavepoint, ticketVars, lockVars, waitVars
<1> HIDE DEF s
<1>5. /\ cl \in CallType /\ cl.new = 0 /\ cl.old = s /\ cl.op = "rollback"
  BY <1>3, NoCallType, SlotRange DEF CallType, Ops
<1>6. pc' = [pc EXCEPT ![c] = "remove"]
  BY <1>3, <1>4, NoLanes DEF Goto, Ticket
<1> HIDE DEF cl
<1> QED
  BY <1>3, <1>4, <1>5, <1>6, Begins

\* The first part of try_acquire_lock_impl(): a ticket is reused, or a new one is made
\* that is in no list yet.
LEMMA BeginAcquireStep ==
  ASSUME IInv, NEW c \in Ctx, NEW r, NEW cl \in CallType, BeginAcquire(c, r, cl),
         pc[c] \in {"idle", "upgrade"}, c \notin gone, cl.new = 0,
         r.key \in Key, r.type \in TypesOf(r.key), r.duration \in Duration,
         r.wait \in BOOLEAN,
         \/ cl.op = "acquire" /\ cl.old = 0
         \/ /\ cl.op = "upgrade" /\ cl.old # 0 /\ Has(c, cl.old)
            /\ r.key = KeyOf(<<c, cl.old>>) /\ r.type = cl.type
  PROVE  IInv'
<1> DEFINE found == Found(c, r.key, r.type)
<1>0. /\ Types /\ Control(c) /\ Justified(c) /\ Transactional(c) /\ Slots(c)
      /\ call[c] \in CallType
  BY CtxFacts
<1>1. call[c].new = 0 /\ m_wait_status[c] # "GRANTED"
  BY <1>0, NoCallType DEF Control, Slots, Queued, NewOutside, WaitPC
<1>2. UNCHANGED <<m_fast_lane, lock, m_tickets, m_wait_status, wait_status, gone>>
  BY DEF BeginAcquire, ticketVars, lockVars, waitVars
<1>3. CASE /\ found # {} /\ cl.op = "upgrade" /\ UNCHANGED ticket
           /\ pc' = [pc EXCEPT ![c] = "merge"] /\ call' = [call EXCEPT ![c] = cl]
  <2>1. pc'[c] = "merge" /\ call'[c] = cl
    BY <1>0, <1>3 DEF Types
  <2>2. Types'
    BY <1>0, <1>2, <1>3 DEF Types, PCs
  <2>3. OthersSame(c)
    BY <1>0, <1>2, <1>3 DEF OthersSame, Types
  <2>4. StaysLost(c)
    BY <1>2 DEF StaysLost, Lost
  <2>5. Control(c)'
    BY <1>3, <2>1 DEF Control, Has, WaitPC
  <2>6. Justified(c)'
    <3>1. PICK s \in Slot : /\ ticket[<<c, s>>] # NoTicket /\ KeyOf(<<c, s>>) = r.key
                            /\ HasStrongerOrEqualType(r.key, TypeOf(<<c, s>>), r.type)
      BY <1>3 DEF Found
    <3>2. Stronger(c, r.key, r.type)'
      BY <1>3, <2>1, <3>1, SlotRange DEF Stronger, Has, KeyOf, TypeOf
    <3> QED
      BY <1>3, <2>1, <3>2 DEF Justified, NewTicket, OldTicket, KeyOf, TypeOf
  <2>7. Transactional(c)'
    BY <1>0, <1>2, <1>3, <2>1 DEF Transactional, Has
  <2>8. Slots(c)'
    BY <1>0, <1>1, <1>2, <2>1 DEF Slots
  <2>9. ASSUME NEW s \in Slot PROVE Stays(<<c, s>>)
    BY <1>1, <1>3, <2>1, SlotRange DEF Stays, IsGranted, IsWaiting, OldOutside
  <2>10. CtxOK(c)'
    BY <2>5, <2>6, <2>7, <2>8 DEF CtxOK
  <2> QED
    BY <1>2, <2>2, <2>3, <2>4, <2>9, <2>10, NothingMoves
<1>4. CASE \E s \in Slot, l \in {"lock", "clone"} :
              /\ ticket[<<c, s>>] = NoTicket
              /\ ticket' = [ticket EXCEPT ![<<c, s>>] =
                     [key |-> r.key, type |-> r.type, duration |-> r.duration]]
              /\ call' = [call EXCEPT ![c] = [cl EXCEPT !.new = s, !.wait = r.wait]]
              /\ pc' = [pc EXCEPT ![c] = l]
              /\ l = "clone" => found # {}
  <2>1. PICK s \in Slot, l \in {"lock", "clone"} :
              /\ ticket[<<c, s>>] = NoTicket
              /\ ticket' = [ticket EXCEPT ![<<c, s>>] =
                     [key |-> r.key, type |-> r.type, duration |-> r.duration]]
              /\ call' = [call EXCEPT ![c] = [cl EXCEPT !.new = s, !.wait = r.wait]]
              /\ pc' = [pc EXCEPT ![c] = l]
              /\ l = "clone" => found # {}
    BY <1>4
  <2> DEFINE nt == [key |-> r.key, type |-> r.type, duration |-> r.duration]
             nc == [cl EXCEPT !.new = s, !.wait = r.wait]
  <2>2. nt \in TicketType /\ nt.key = r.key /\ nt.type = r.type
    BY NoCallType DEF TicketType
  <2>3. nc \in CallType /\ nc.new = s /\ nc.op = cl.op /\ nc.old = cl.old /\ nc.type = cl.type
    BY SlotRange DEF CallType
  <2>4. nt # NoTicket
    <3>1. nt.duration # "none"
      BY DEF Duration
    <3> QED
      BY <3>1 DEF NoTicket
  <2>5. /\ ticket' = [ticket EXCEPT ![<<c, s>>] = nt]
        /\ call' = [call EXCEPT ![c] = nc]
    BY <2>1
  <2> HIDE DEF nt, nc
  <2>6. /\ pc'[c] = l /\ call'[c] = nc /\ ticket'[<<c, s>>] = nt
        /\ \A p \in Slot \ {s} : ticket'[<<c, p>>] = ticket[<<c, p>>]
    BY <1>0, <2>1, <2>5, SMT DEF Types, Ticket
  <2>7. Types'
    BY <1>0, <1>2, <2>1, <2>2, <2>3, <2>5, SMT DEF Types, PCs, Ticket
  <2>8. OthersSame(c)
    BY <1>0, <1>2, <2>1, <2>5 DEF OthersSame, Types, Ticket
  <2>9. StaysLost(c)
    BY <1>2 DEF StaysLost, Lost
  <2>10. \A p : Has(c, p) => Has(c, p)' /\ p # s
    BY <2>1, <2>6 DEF Has
  <2>11. Has(c, s)'
    BY <2>4, <2>6 DEF Has
  <2>12. Control(c)'
    BY <2>1, <2>3, <2>6, <2>10, <2>11, SlotRange DEF Control, WaitPC
  <2>13. Justified(c)'
    <3>1. KeyOf(<<c, s>>)' = r.key /\ TypeOf(<<c, s>>)' = r.type
      BY <2>2, <2>6 DEF KeyOf, TypeOf
    <3>2. l = "clone" => Stronger(c, r.key, r.type)'
      <4>1. SUFFICES ASSUME l = "clone" PROVE Stronger(c, r.key, r.type)'
        OBVIOUS
      <4>2. PICK p \in Slot : /\ ticket[<<c, p>>] # NoTicket /\ KeyOf(<<c, p>>) = r.key
                              /\ HasStrongerOrEqualType(r.key, TypeOf(<<c, p>>), r.type)
        BY <2>1, <4>1, SMT DEF Found
      <4>3. Has(c, p)' /\ p # s
        BY <2>10, <4>2 DEF Has
      <4> QED
        BY <2>3, <2>6, <4>2, <4>3 DEF Stronger, KeyOf, TypeOf
    <3>3. cl.op = "upgrade" => KeyOf(<<c, cl.old>>)' = r.key /\ cl.type = r.type
      BY <2>6, <2>10 DEF KeyOf, Has
    <3> QED
      BY <2>1, <2>3, <2>6, <3>1, <3>2, <3>3 DEF Justified, NewTicket, OldTicket
  <2>14. Transactional(c)'
    BY <1>0, <1>2, <2>3, <2>6, <2>10 DEF Transactional
  <2>15. Slots(c)'
    BY <1>0, <1>1, <1>2, <2>1, <2>6 DEF Slots
  <2>16. ASSUME NEW p \in Slot PROVE Stays(<<c, p>>)
    <3>1. ~IsWaiting(<<c, p>>) /\ ~IsWaiting(<<c, p>>)'
      BY <1>1, <2>1, <2>6, SlotRange DEF IsWaiting, Queued, WaitPC
    <3>2. CASE p = s
      BY <2>1, <2>3, <2>6, <3>1, <3>2 DEF Stays, IsGranted, NewOutside
    <3>3. CASE p # s
      BY <1>1, <2>1, <2>3, <2>6, <3>1, <3>3, SlotRange DEF Stays, IsGranted, OldOutside
    <3> QED
      BY <3>2, <3>3
  <2>17. CtxOK(c)'
    BY <2>12, <2>13, <2>14, <2>15 DEF CtxOK
  <2> QED
    BY <1>2, <2>7, <2>8, <2>9, <2>16, <2>17, NothingMoves
<1> QED
  BY <1>3, <1>4, NoLanes DEF BeginAcquire, Goto, ticketVars

\* The beginning of acquire_lock() and try_acquire_lock() keeps the invariant.
LEMMA AcquireLockStep ==
  ASSUME IInv, NEW c \in Ctx, AcquireLock(c)
  PROVE  IInv'
<1>1. PICK r \in Requests[c] : BeginAcquire(c, r, [NoCall EXCEPT !.op = "acquire"])
  BY SMT DEF AcquireLock
<1> DEFINE cl == [NoCall EXCEPT !.op = "acquire"]
<1>2. cl \in CallType /\ cl.op = "acquire" /\ cl.new = 0 /\ cl.old = 0
  BY NoCallType DEF CallType, Ops
<1>3. /\ r.key \in Key /\ r.type \in TypesOf(r.key)
      /\ r.duration \in Duration /\ r.wait \in BOOLEAN
  BY MdlConstants
<1> HIDE DEF cl
<1>4. pc[c] = "idle" /\ c \notin gone
  BY SMT DEF AcquireLock
<1>5. BeginAcquire(c, r, cl)
  BY <1>1 DEF cl
<1> QED
  BY <1>2, <1>3, <1>4, <1>5, BeginAcquireStep

\* The acquire_lock() that upgrade_shared_lock() calls keeps the invariant.
LEMMA AcquireForUpgradeStep ==
  ASSUME IInv, NEW c \in Ctx, AcquireForUpgrade(c)
  PROVE  IInv'
<1> DEFINE cl == call[c]
           r == [key |-> KeyOf(OldTicket(c)), type |-> cl.type,
                 duration |-> "TRANSACTION", wait |-> TRUE]
<1>0. Types /\ Control(c) /\ Justified(c) /\ Slots(c) /\ cl \in CallType
  BY CtxFacts
<1>1. pc[c] = "upgrade" /\ BeginAcquire(c, r, cl)
  BY DEF AcquireForUpgrade
<1>2. cl.op = "upgrade" /\ cl.new = 0 /\ cl.old # 0 /\ Has(c, cl.old) /\ c \notin gone
  BY <1>0, <1>1 DEF Control, Slots
<1>3. KeyOf(<<c, cl.old>>) \in Key /\ cl.type \in TypesOf(KeyOf(<<c, cl.old>>))
  BY <1>0, <1>2 DEF Types, Has, Ticket, TicketType, KeyOf, Justified, OldTicket
<1>4. /\ r.key = KeyOf(<<c, cl.old>>) /\ r.type = cl.type
      /\ r.duration \in Duration /\ r.wait \in BOOLEAN
  BY DEF OldTicket, Duration
<1> HIDE DEF r
<1> QED
  BY <1>0, <1>1, <1>2, <1>3, <1>4, BeginAcquireStep

----------------------------------------------------------------------------
(* Granting and queueing *)

LEMMA MovesOne ==
  ASSUME IInv, NEW c \in Ctx, OthersSame(c), StaysLost(c), NEW n \in Slot, NEW k,
         \A s \in Slot \ {n} : Stays(<<c, s>>),
         IsGranted(<<c, n>>) \/ IsWaiting(<<c, n>>) => KeyOf(<<c, n>>) = k,
         IsGranted(<<c, n>>)' \/ IsWaiting(<<c, n>>)' => KeyOf(<<c, n>>)' = k,
         \A j \in Key \ {k} : lock'[j] = lock[j]
  PROVE  Moves({<<c, n>>}, k)
<1> DEFINE T == {n}
<1>0. /\ T \in SUBSET Slot
      /\ \A s \in Slot \ T : Stays(<<c, s>>)
      /\ \A s \in T :
             /\ IsGranted(<<c, s>>) \/ IsWaiting(<<c, s>>) => KeyOf(<<c, s>>) = k
             /\ IsGranted(<<c, s>>)' \/ IsWaiting(<<c, s>>)' => KeyOf(<<c, s>>)' = k
  OBVIOUS
<1> HIDE DEF T
<1>1. Moves({<<c, s>> : s \in T}, k)
  BY <1>0, MovesOf
<1>2. {<<c, s>> : s \in T} = {<<c, n>>}
  BY DEF T
<1> QED
  BY <1>1, <1>2

\* A context that has a lock may have any weaker one as far as the others are concerned.
LEMMA StrongerLock ==
  ASSUME IInv, NEW c \in Ctx, NEW s \in Slot, NEW k \in Key, NEW ty,
         IsGranted(<<c, s>>), KeyOf(<<c, s>>) = k,
         HasStrongerOrEqualType(k, TypeOf(<<c, s>>), ty)
  PROVE  \A u \in lock[k].granted : u[1] = c \/ TypeOf(u) \notin GrantedIncompatible(k, ty)
<1>0. Compatible(k, lock[k].granted, types) /\ lock[k].granted \in SUBSET Ticket
  BY LockFacts
<1>1. <<c, s>> \in Ticket
  BY DEF Ticket
<1>2. <<c, s>> \in lock[k].granted
  BY <1>1 DEF IInv, LockOK, Lists
<1>3. \A u \in lock[k].granted : types[u] = TypeOf(u)
  BY <1>0 DEF types
<1>4. \A u \in lock[k].granted :
         u[1] = c \/ TypeOf(u) \notin GrantedIncompatible(k, TypeOf(<<c, s>>))
  <2>1. <<c, s>>[1] = c
    BY SMT
  <2> QED
    BY <1>0, <1>2, <1>3, <2>1 DEF Compatible
<1> QED
  BY <1>4 DEF HasStrongerOrEqualType

\* An action that changes one lock leaves the others as they are.
LEMMA ChangeLock ==
  ASSUME IInv, NEW k \in Key, NEW r \in LockType(k), lock' = [lock EXCEPT ![k] = r]
  PROVE  /\ DOMAIN lock' = Key /\ \A j \in Key : lock'[j] \in LockType(j)
         /\ lock'[k] = r /\ \A j \in Key \ {k} : lock'[j] = lock[j]
BY DEF IInv, Types

\* The end of a successful request.
LEMMA AcquiredOK ==
  ASSUME IInv, NEW c \in Ctx, Acquired(c), pc[c] \in {"lock", "clone", "done"}, c \notin gone,
         NEW n, n = call[c].new,
         UNCHANGED <<ticket, m_fast_lane, gone>>,
         m_wait_status' \in [Ctx -> WaitStatus], m_wait_status'[c] # "GRANTED",
         \A d \in Ctx \ {c} : m_wait_status'[d] = m_wait_status[d],
         wait_status' \in [Ctx -> WaitStatus],
         \A d \in Ctx \ {c} : wait_status'[d] = wait_status[d],
         DOMAIN lock' = Key, \A k \in Key : lock'[k] \in LockType(k)
  PROVE  /\ n \in Slot /\ Types' /\ CtxOK(c)' /\ OthersSame(c) /\ StaysLost(c)
         /\ IsGranted(<<c, n>>)' /\ ~IsWaiting(<<c, n>>)'
         /\ \A s \in Slot \ {n} : Stays(<<c, s>>)
<1>0. /\ Types /\ Control(c) /\ Justified(c) /\ Transactional(c) /\ Slots(c)
      /\ call[c] \in CallType
  BY CtxFacts
<1>1. /\ n # 0 /\ Has(c, n) /\ n \in Slot /\ n \notin Range(m_tickets[c])
      /\ call[c].op \in {"acquire", "upgrade"}
  BY <1>0 DEF Control, WaitPC, Has, Transactional
<1>2. \/ m_tickets' = [m_tickets EXCEPT ![c] = Append(@, n)]
      \/ m_tickets' = m_tickets
  BY DEF Acquired
<1>3. \/ call[c].op = "upgrade" /\ pc' = [pc EXCEPT ![c] = "merge"] /\ call' = call
      \/ /\ call[c].op = "acquire" /\ pc' = [pc EXCEPT ![c] = "idle"]
         /\ call' = [call EXCEPT ![c] = NoCall]
  BY <1>1 DEF Acquired, Goto, Return
<1>4. \/ pc'[c] = "merge" /\ call'[c] = call[c] /\ call[c].op = "upgrade"
      \/ pc'[c] = "idle" /\ call'[c] = NoCall
  BY <1>0, <1>3 DEF Types
<1>5. m_tickets[c] \in Seq(Slot) /\ IsInjective(m_tickets[c])
  BY <1>0 DEF Types, Transactional
<1>6. /\ m_tickets'[c] \in Seq(Slot) /\ IsInjective(m_tickets'[c])
      /\ Range(m_tickets'[c]) \subseteq Range(m_tickets[c]) \cup {n}
      /\ m_tickets' \in [Ctx -> Seq(Slot)] /\ \A d \in Ctx \ {c} : m_tickets'[d] = m_tickets[d]
  <2>1. CASE m_tickets' = m_tickets
    BY <1>0, <1>5, <2>1 DEF Types
  <2>2. CASE m_tickets' = [m_tickets EXCEPT ![c] = Append(@, n)]
    <3>1. m_tickets'[c] = Append(m_tickets[c], n)
      BY <1>0, <2>2 DEF Types
    <3>2. /\ Append(m_tickets[c], n) \in Seq(Slot) /\ IsInjective(Append(m_tickets[c], n))
          /\ Range(Append(m_tickets[c], n)) = Range(m_tickets[c]) \cup {n}
      <4>1. PICK q : q = m_tickets[c]
        OBVIOUS
      <4>2. q \in Seq(Slot) /\ IsInjective(q) /\ n \notin Range(q) /\ n \in Slot
        BY <1>1, <1>5, <4>1
      <4>3. /\ Append(q, n) \in Seq(Slot) /\ IsInjective(Append(q, n))
            /\ Range(Append(q, n)) = Range(q) \cup {n}
        BY <4>2, AppendElement, SMT
      <4> QED
        BY <4>1, <4>3
    <3> QED
      BY <1>0, <2>2, <3>1, <3>2 DEF Types
  <2> QED
    BY <1>2, <2>1, <2>2
<1>7. call' \in [Ctx -> CallType] /\ pc' \in [Ctx -> PCs]
  BY <1>0, <1>3, NoCallType DEF Types, PCs
<1>8. Types'
  BY <1>0, <1>6, <1>7 DEF Types
<1>9. OthersSame(c)
  BY <1>0, <1>3, <1>6 DEF OthersSame, Types
<1>10. StaysLost(c)
  BY DEF StaysLost, Lost
<1>11. \A s : Has(c, s)' <=> Has(c, s)
  BY DEF Has
<1>12. Control(c)'
  BY <1>0, <1>1, <1>4, <1>11, NoCallType DEF Control, WaitPC
<1>13. Justified(c)'
  BY <1>0, <1>1, <1>4, NoCallType DEF Justified, KeyOf, TypeOf, NewTicket, OldTicket
<1>14. Transactional(c)'
  BY <1>0, <1>1, <1>4, <1>6, <1>11, NoCallType, SlotRange DEF Transactional, Has
<1>15. Slots(c)'
  BY <1>4 DEF Slots
<1>16. IsGranted(<<c, n>>)' /\ ~IsWaiting(<<c, n>>)'
  BY <1>1, <1>4 DEF Has, IsGranted, IsWaiting, Queued, NewOutside, OldOutside, WaitPC
<1>17. ASSUME NEW s \in Slot \ {n} PROVE Stays(<<c, s>>)
  BY <1>1, <1>4, NoCallType, SlotRange DEF Stays, IsGranted, IsWaiting, OldOutside
<1> QED
  BY <1>1, <1>8, <1>9, <1>10, <1>12, <1>13, <1>14, <1>15, <1>16, <1>17 DEF CtxOK

\* Before a new ticket is in a list.
LEMMA NewFacts ==
  ASSUME IInv, NEW c \in Ctx, pc[c] \in {"lock", "clone"}, NEW n, n = call[c].new
  PROVE  /\ n \in Slot /\ <<c, n>> \in Ticket /\ c \notin gone /\ Has(c, n)
         /\ ticket[<<c, n>>] \in TicketType /\ m_wait_status[c] # "GRANTED"
         /\ KeyOf(<<c, n>>) \in Key /\ TypeOf(<<c, n>>) \in TypesOf(KeyOf(<<c, n>>))
         /\ ~IsGranted(<<c, n>>) /\ ~IsWaiting(<<c, n>>)
<1>0. Types /\ Control(c) /\ Slots(c)
  BY CtxFacts
<1>1. n \in Slot /\ Has(c, n) /\ c \notin gone /\ <<c, n>> \in Ticket
      /\ m_wait_status[c] # "GRANTED"
  BY <1>0 DEF Control, Has, Slots, Ticket
<1>2. ticket[<<c, n>>] \in TicketType
  BY <1>0, <1>1 DEF Types, Has
<1>3. KeyOf(<<c, n>>) \in Key /\ TypeOf(<<c, n>>) \in TypesOf(KeyOf(<<c, n>>))
  BY <1>2 DEF TicketType, KeyOf, TypeOf
<1>4. ~IsGranted(<<c, n>>) /\ ~IsWaiting(<<c, n>>)
  BY DEF IsGranted, IsWaiting, NewOutside, Queued, WaitPC
<1> QED
  BY <1>1, <1>2, <1>3, <1>4

\* A ticket that is granted at once.
LEMMA GrantStep ==
  ASSUME IInv, NEW c \in Ctx, Acquired(c), pc[c] \in {"lock", "clone"},
         NEW n, n = call[c].new, NEW k, k = KeyOf(<<c, n>>),
         UNCHANGED <<ticket, m_fast_lane, gone, m_wait_status, wait_status>>,
         lock' = [lock EXCEPT ![k] = AddGranted(@, <<c, n>>, TypeOf(<<c, n>>))],
         \A u \in lock[k].granted :
             u[1] = c \/ TypeOf(u) \notin GrantedIncompatible(k, TypeOf(<<c, n>>))
  PROVE  IInv'
<1> DEFINE t == <<c, n>>
           r == AddGranted(lock[k], t, TypeOf(t))
<1>0. /\ n \in Slot /\ t \in Ticket /\ c \notin gone /\ m_wait_status[c] # "GRANTED"
      /\ k \in Key /\ TypeOf(t) \in TypesOf(k) /\ ~IsGranted(t) /\ ~IsWaiting(t)
  BY NewFacts
<1> USE <1>0
<1>1. Types /\ lock[k] \in LockType(k)
  BY DEF IInv, Types
<1>2. r \in LockType(k)
  BY <1>1, AddGrantedIs DEF GrantedAdded
<1>3. lock' = [lock EXCEPT ![k] = r]
  BY <1>1
<1>4. /\ DOMAIN lock' = Key /\ \A j \in Key : lock'[j] \in LockType(j)
      /\ lock'[k] = r /\ \A j \in Key \ {k} : lock'[j] = lock[j]
  BY <1>2, <1>3, ChangeLock
<1>5. m_wait_status' \in [Ctx -> WaitStatus] /\ wait_status' \in [Ctx -> WaitStatus]
  BY <1>1 DEF Types
<1>6. /\ Types' /\ CtxOK(c)' /\ OthersSame(c) /\ StaysLost(c)
      /\ IsGranted(t)' /\ ~IsWaiting(t)' /\ \A s \in Slot \ {n} : Stays(<<c, s>>)
  BY <1>4, <1>5, AcquiredOK
<1>7. KeyOf(t)' = k /\ ticket'[t] = ticket[t] /\ t[1] = c
  BY DEF KeyOf
<1>8. Moves({t}, k)
  BY <1>4, <1>6, <1>7, MovesOne
<1> HIDE DEF t
<1>9. \A j \in Key : LockOK(j)'
  BY <1>4, <1>6, <1>7, <1>8, Grant DEF t
<1> QED
  BY <1>6, <1>9, Step

\* A request that is queued.
LEMMA EnqueueStep ==
  ASSUME IInv, NEW c \in Ctx, pc[c] = "lock", NEW n, n = call[c].new,
         NEW k, k = KeyOf(<<c, n>>), pc' = [pc EXCEPT ![c] = "will_wait"],
         UNCHANGED <<ticket, m_fast_lane, gone, m_wait_status, wait_status, m_tickets, call>>,
         lock' = [lock EXCEPT ![k] = AddWaiting(@, <<c, n>>, TypeOf(<<c, n>>))]
  PROVE  IInv'
<1> DEFINE t == <<c, n>>
           r == AddWaiting(lock[k], t, TypeOf(t))
<1>0. /\ n \in Slot /\ t \in Ticket /\ c \notin gone /\ m_wait_status[c] # "GRANTED"
      /\ k \in Key /\ TypeOf(t) \in TypesOf(k) /\ ~IsGranted(t) /\ ~IsWaiting(t)
  BY NewFacts
<1> USE <1>0
<1>1. Types /\ lock[k] \in LockType(k)
  BY DEF IInv, Types
<1> USE <1>1
<1>2. r \in LockType(k)
  BY AddWaitingIs DEF WaitingAdded
<1>3. lock' = [lock EXCEPT ![k] = r]
  OBVIOUS
<1>4. /\ DOMAIN lock' = Key /\ \A j \in Key : lock'[j] \in LockType(j)
      /\ lock'[k] = r /\ \A j \in Key \ {k} : lock'[j] = lock[j]
  BY <1>2, <1>3, ChangeLock
<1>5. Types' /\ pc'[c] = "will_wait"
  BY <1>4 DEF Types, PCs, WaitPC
<1> USE <1>5
<1>6. OthersSame(c)
  BY DEF OthersSame, Types
<1>7. StaysLost(c)
  BY DEF StaysLost, Lost
<1>8. CtxOK(c)'
  <2>0. Control(c) /\ Justified(c) /\ Transactional(c)
    BY CtxFacts
  <2>1. Control(c)'
    BY <2>0 DEF Control, Has, WaitPC
  <2>2. Justified(c)'
    BY <2>0 DEF Justified, NewTicket, OldTicket, KeyOf, TypeOf
  <2>3. Transactional(c)'
    BY <2>0 DEF Transactional, Has
  <2>4. Slots(c)'
    BY DEF Slots
  <2> QED
    BY <2>1, <2>2, <2>3, <2>4 DEF CtxOK
<1>9. ~IsGranted(t)' /\ IsWaiting(t)'
  BY DEF IsGranted, IsWaiting, Queued, WaitPC
<1>10. \A s \in Slot \ {n} : Stays(<<c, s>>)
  BY DEF Stays, IsGranted, IsWaiting, OldOutside
<1>11. KeyOf(t)' = k /\ ticket'[t] = ticket[t]
  BY DEF KeyOf
<1>12. Moves({t}, k)
  BY <1>4, <1>6, <1>7, <1>9, <1>10, <1>11, MovesOne
<1> HIDE DEF t
<1>13. \A j \in Key : LockOK(j)'
  BY <1>4, <1>9, <1>11, <1>12, Enqueue
<1> QED
  BY <1>6, <1>8, <1>13, Step

\* A request that is refused: its ticket is deleted.
LEMMA RefuseStep ==
  ASSUME IInv, NEW c \in Ctx, pc[c] = "lock", NEW n, n = call[c].new,
         Return(c), ticket' = [ticket EXCEPT ![<<c, n>>] = NoTicket],
         UNCHANGED <<lock, m_fast_lane, gone, m_wait_status, wait_status, m_tickets>>
  PROVE  IInv'
<1> DEFINE t == <<c, n>>
<1>0. /\ n \in Slot /\ t \in Ticket /\ c \notin gone /\ m_wait_status[c] # "GRANTED"
      /\ ~IsGranted(t) /\ ~IsWaiting(t)
  BY NewFacts
<1>1. Types /\ Transactional(c)
  BY CtxFacts
<1>2. pc' = [pc EXCEPT ![c] = "idle"] /\ call' = [call EXCEPT ![c] = NoCall]
  BY DEF Return, Goto
<1>3. /\ pc'[c] = "idle" /\ call'[c] = NoCall /\ ticket'[t] = NoTicket
      /\ \A s \in Slot \ {n} : ticket'[<<c, s>>] = ticket[<<c, s>>]
  BY <1>0, <1>1, <1>2 DEF Types, Ticket
<1>4. Types'
  BY <1>1, <1>2, NoCallType DEF Types, PCs
<1>5. OthersSame(c)
  BY <1>1, <1>2 DEF OthersSame, Types, Ticket
<1>6. StaysLost(c)
  BY <1>0 DEF StaysLost, Lost
<1>7. Control(c)'
  BY <1>3, NoCallType DEF Control, WaitPC
<1>8. Justified(c)'
  BY <1>3, NoCallType DEF Justified
<1>9. Transactional(c)'
  <2>1. \A s \in Range(m_tickets[c]) : Has(c, s) /\ s # n
    BY <1>1 DEF Transactional
  <2>2. \A s \in Range(m_tickets[c]) : Has(c, s)'
    BY <1>3, <2>1 DEF Has
  <2> QED
    BY <1>1, <1>3, <2>1, <2>2, NoCallType, SlotRange DEF Transactional, Has
<1>10. Slots(c)'
  BY <1>0, <1>3 DEF Slots
<1>11. ASSUME NEW s \in Slot PROVE Stays(<<c, s>>)
  <2>1. ~IsWaiting(<<c, s>>) /\ ~IsWaiting(<<c, s>>)'
    BY <1>3 DEF IsWaiting, Queued, WaitPC
  <2>2. CASE s = n
    BY <1>0, <1>3, <2>1, <2>2 DEF Stays, IsGranted
  <2>3. CASE s # n
    BY <1>3, <2>1, <2>3, NoCallType, SlotRange DEF Stays, IsGranted, OldOutside
  <2> QED
    BY <2>2, <2>3
<1>12. CtxOK(c)'
  BY <1>7, <1>8, <1>9, <1>10 DEF CtxOK
<1> QED
  BY <1>4, <1>5, <1>6, <1>11, <1>12, NothingMoves

\* try_acquire_lock_impl() keeps the invariant, granted, queued or refused.
LEMMA LockForAcquireStep ==
  ASSUME IInv, NEW c \in Ctx, LockForAcquire(c)
  PROVE  IInv'
<1> DEFINE n == call[c].new
           k == KeyOf(<<c, n>>)
           ty == TypeOf(<<c, n>>)
<1>1. /\ pc[c] = "lock" /\ Decide(c)
      /\ UNCHANGED <<m_fast_lane, m_wait_status, wait_status, gone>>
  BY NoLanes DEF LockForAcquire, waitVars
<1> USE <1>1
<1>2. CASE /\ CanGrant(k, lock[k], ty, c, FALSE)
           /\ lock' = [lock EXCEPT ![k] = AddGranted(@, <<c, n>>, ty)]
           /\ Acquired(c) /\ UNCHANGED ticket
  <2>1. k \in Key
    BY NewFacts
  <2>2. /\ lock[k] \in LockType(k) /\ GrantedTally(k, lock[k], types, Cardinality(Lost))
        /\ \A u \in lock[k].granted : TypeOf(u) \in TypesOf(k)
    BY <2>1, LockFacts
  <2>3. \A u \in lock[k].granted : u[1] = c \/ TypeOf(u) \notin GrantedIncompatible(k, ty)
    BY <1>2, <2>2, CanGrantSees
  <2> QED
    BY <1>2, <2>3, GrantStep
<1>3. CASE /\ lock' = [lock EXCEPT ![k] = AddWaiting(@, <<c, n>>, ty)]
           /\ Goto(c, "will_wait") /\ UNCHANGED <<ticket, m_tickets, call>>
  BY <1>3, EnqueueStep DEF Goto
<1>4. CASE /\ ticket' = [ticket EXCEPT ![<<c, n>>] = NoTicket]
           /\ Return(c) /\ UNCHANGED <<lock, m_tickets>>
  BY <1>4, RefuseStep
<1> QED
  BY <1>2, <1>3, <1>4, NoLanes DEF Decide, NewTicket

\* clone_ticket() keeps the invariant.
LEMMA AddClonedTicketStep ==
  ASSUME IInv, NEW c \in Ctx, AddClonedTicket(c)
  PROVE  IInv'
<1> DEFINE n == call[c].new
           k == KeyOf(<<c, n>>)
           ty == TypeOf(<<c, n>>)
<1>1. /\ pc[c] = "clone" /\ Acquired(c)
      /\ lock' = [lock EXCEPT ![k] = AddGranted(@, <<c, n>>, ty)]
      /\ UNCHANGED <<ticket, m_fast_lane, m_wait_status, wait_status, gone>>
  BY DEF AddClonedTicket, waitVars, NewTicket
<1> USE <1>1
<1>2. k \in Key
  BY NewFacts
<1>3. Stronger(c, k, ty)
  BY CtxFacts DEF Justified, NewTicket
<1>4. PICK s \in Slot : /\ Has(c, s) /\ s # n /\ KeyOf(<<c, s>>) = k
                        /\ HasStrongerOrEqualType(k, TypeOf(<<c, s>>), ty)
  BY <1>3 DEF Stronger
<1>5. IsGranted(<<c, s>>)
  BY <1>4 DEF IsGranted, OldOutside, Has
<1>6. \A u \in lock[k].granted : u[1] = c \/ TypeOf(u) \notin GrantedIncompatible(k, ty)
  BY <1>2, <1>4, <1>5, StrongerLock
<1> QED
  BY <1>6, GrantStep

\* done_waiting_for() and what acquire_lock() does with the result of the wait.
LEMMA DoneWaitingStep ==
  ASSUME IInv, NEW c \in Ctx, DoneWaiting(c)
  PROVE  IInv'
<1>0. /\ Types /\ Control(c) /\ Justified(c) /\ Transactional(c) /\ Slots(c)
      /\ call[c] \in CallType
  BY CtxFacts
<1> USE <1>0
<1>1. /\ pc[c] = "done" /\ wait_status' = [wait_status EXCEPT ![c] = "EMPTY"]
      /\ UNCHANGED <<ticket, m_fast_lane, lock, gone>>
  BY SMT DEF DoneWaiting, lockVars
<1> USE <1>1
<1>2. /\ wait_status' \in [Ctx -> WaitStatus] /\ wait_status'[c] = "EMPTY"
      /\ \A d \in Ctx \ {c} : wait_status'[d] = wait_status[d]
  BY DEF Types, WaitStatus
<1>3. CASE /\ wait_status[c] = "GRANTED" /\ Acquired(c)
           /\ m_wait_status' = [m_wait_status EXCEPT ![c] = "EMPTY"]
  <2>0. PICK n : n = call[c].new
    BY SMT
  <2>1. c \notin gone /\ m_wait_status[c] = "GRANTED"
    BY <1>3 DEF Slots
  <2>2. /\ m_wait_status' \in [Ctx -> WaitStatus] /\ m_wait_status'[c] # "GRANTED"
        /\ \A d \in Ctx \ {c} : m_wait_status'[d] = m_wait_status[d]
    BY <1>3 DEF Types, WaitStatus
  <2>3. DOMAIN lock' = Key /\ \A k \in Key : lock'[k] \in LockType(k)
    BY DEF Types
  <2>4. /\ n \in Slot /\ Types' /\ CtxOK(c)' /\ OthersSame(c) /\ StaysLost(c)
        /\ IsGranted(<<c, n>>)' /\ ~IsWaiting(<<c, n>>)'
        /\ \A s \in Slot \ {n} : Stays(<<c, s>>)
    BY <1>2, <1>3, <2>0, <2>1, <2>2, <2>3, AcquiredOK
  <2> USE <2>4
  <2>5. IsGranted(<<c, n>>) /\ ~IsWaiting(<<c, n>>)
    BY <2>0, <2>1, SlotRange
       DEF Control, Has, WaitPC, IsGranted, IsWaiting, NewOutside, OldOutside
  <2>6. Stays(<<c, n>>)
    BY <2>5 DEF Stays
  <2>7. \A s \in Slot : Stays(<<c, s>>)
    BY <2>6
  <2> QED
    BY <2>7, NothingMoves
<1>4. CASE /\ wait_status[c] # "GRANTED" /\ call' = [call EXCEPT ![c].op = "abort"]
           /\ pc' = [pc EXCEPT ![c] = "remove"] /\ UNCHANGED <<m_wait_status, m_tickets>>
  <2> USE <1>4
  <2> DEFINE cl == [call[c] EXCEPT !.op = "abort"]
  <2>1. /\ cl \in CallType /\ cl.op = "abort" /\ cl.new = call[c].new /\ cl.old = call[c].old
    BY SMT DEF CallType, Ops
  <2> USE <2>1
  <2>2. call' = [call EXCEPT ![c] = cl]
    OBVIOUS
  <2> HIDE DEF cl
  <2>3. pc'[c] = "remove" /\ call'[c] = cl
    BY <2>2, SMT DEF Types
  <2> USE <2>3
  <2>4. Types'
    BY <1>2, <2>2 DEF Types, PCs
  <2>5. OthersSame(c)
    BY <1>2, <2>2, SMT DEF OthersSame, Types
  <2>6. StaysLost(c)
    BY DEF StaysLost, Lost
  <2>7. Control(c)'
    BY DEF Control, WaitPC, Has
  <2>8. Justified(c)'
    BY DEF Justified
  <2>9. Transactional(c)'
    BY SMT DEF Transactional, Has
  <2>10. Slots(c)'
    BY SMT DEF Slots, Queued, NewOutside, WaitPC
  <2>11. \A s \in Slot : Stays(<<c, s>>)
    BY
       DEF Stays, IsGranted, IsWaiting, Queued, NewOutside, OldOutside, WaitPC
  <2>12. CtxOK(c)'
    BY <2>7, <2>8, <2>9, <2>10, SMT DEF CtxOK
  <2> QED
    BY <2>4, <2>5, <2>6, <2>11, <2>12, NothingMoves
<1> QED
  BY <1>3, <1>4, SMT DEF DoneWaiting, Goto

----------------------------------------------------------------------------
(* Releasing tickets *)

\* The last element of a list is one of its elements.
LEMMA LastElement ==
  ASSUME NEW S, NEW s \in Seq(S), Len(s) \in 1..Len(s)
  PROVE  s[Len(s)] \in S /\ s[Len(s)] \in Range(s)
  BY SMT DEF Range

\* A step after which ticket n of c is in no list.
Leaves(c, n) ==
    /\ n \in Slot /\ Types' /\ CtxOK(c)' /\ OthersSame(c) /\ StaysLost(c)
    /\ ~IsGranted(<<c, n>>)' /\ ~IsWaiting(<<c, n>>)'
    /\ \A s \in Slot \ {n} : Stays(<<c, s>>)

\* The end of release_lock(), and the next one of release_locks_stored_before().
LEMMA ReleasedOK ==
  ASSUME IInv, NEW c \in Ctx, Released(c), pc[c] \in {"remove", "resched"},
         call[c].op \in {"release", "rollback"}, NEW n, n = call[c].old,
         UNCHANGED <<m_fast_lane, gone, m_wait_status, wait_status>>,
         DOMAIN lock' = Key, \A k \in Key : lock'[k] \in LockType(k)
  PROVE  Leaves(c, n)
<1>0. /\ Types /\ Control(c) /\ Transactional(c) /\ Slots(c) /\ call[c] \in CallType
      /\ m_tickets[c] \in Seq(Slot)
  BY CtxFacts DEF Types
<1>1. n \in Slot /\ n # 0 /\ call[c].new = 0 /\ <<c, n>> \in Ticket
  BY <1>0, SlotRange DEF Control, Has, Ticket
<1>2. PICK rest : rest = Without(m_tickets[c], n)
  OBVIOUS
<1>3. /\ rest \in Seq(Slot) /\ IsInjective(rest) /\ Range(rest) = Range(m_tickets[c]) \ {n}
  <2>1. IsInjective(m_tickets[c])
    BY <1>0 DEF Transactional
  <2> QED
    BY <1>0, <1>2, <2>1, WithoutElement, SMT
<1>4. /\ ticket' = [ticket EXCEPT ![<<c, n>>] = NoTicket]
      /\ m_tickets' = [m_tickets EXCEPT ![c] = rest]
      /\ \/ /\ call[c].op = "rollback" /\ Len(rest) > call[c].keep
            /\ call' = [call EXCEPT ![c].old = rest[Len(rest)]]
            /\ Goto(c, FirstStep(<<c, rest[Len(rest)]>>, "remove"))
         \/ Return(c)
  BY <1>2 DEF Released, OldTicket
<1>5. /\ ticket'[<<c, n>>] = NoTicket /\ m_tickets'[c] = rest
      /\ \A s \in Slot \ {n} : ticket'[<<c, s>>] = ticket[<<c, s>>]
  BY <1>0, <1>1, <1>4 DEF Types, Ticket
<1>6. \A s \in Range(rest) : Has(c, s)'
  BY <1>0, <1>3, <1>5 DEF Transactional, Has
<1>7. \E cl \in CallType, l \in {"idle", "remove"} :
         /\ call' = [call EXCEPT ![c] = cl] /\ pc' = [pc EXCEPT ![c] = l]
         /\ cl.new = 0
         /\ \/ l = "idle" /\ cl = NoCall
            \/ l = "remove" /\ cl.op = "rollback" /\ cl.old # 0 /\ Has(c, cl.old)'
  <2>1. CASE Return(c)
    BY <2>1, NoCallType DEF Return, Goto
  <2>2. CASE /\ call[c].op = "rollback" /\ Len(rest) > call[c].keep
             /\ call' = [call EXCEPT ![c].old = rest[Len(rest)]]
             /\ Goto(c, FirstStep(<<c, rest[Len(rest)]>>, "remove"))
    <3>1. call[c].keep \in 0..MaxTickets
      BY <1>0 DEF CallType
    <3>2. Len(rest) \in 1..Len(rest)
      BY <1>3, <2>2, <3>1, SMT
    <3>3. PICK s : s = rest[Len(rest)]
      OBVIOUS
    <3>4. s \in Slot /\ s \in Range(rest)
      BY <1>3, <3>2, <3>3, LastElement
    <3> DEFINE cl == [call[c] EXCEPT !.old = s]
    <3>5. /\ cl \in CallType /\ cl.new = 0 /\ cl.op = "rollback" /\ cl.old = s
      BY <1>0, <1>1, <2>2, <3>4, SlotRange DEF CallType
    <3>6. call' = [call EXCEPT ![c] = cl]
      BY <2>2, <3>3, SMT
    <3> HIDE DEF cl
    <3>7. pc' = [pc EXCEPT ![c] = "remove"]
      BY <2>2, <3>3, <3>4, NoLanes DEF Goto, Ticket
    <3>8. s # 0 /\ Has(c, s)'
      BY <1>6, <3>4, SlotRange
    <3> QED
      BY <3>5, <3>6, <3>7, <3>8
  <2> QED
    BY <1>4, <2>1, <2>2
<1>8. PICK cl \in CallType, l \in {"idle", "remove"} :
         /\ call' = [call EXCEPT ![c] = cl] /\ pc' = [pc EXCEPT ![c] = l]
         /\ cl.new = 0
         /\ \/ l = "idle" /\ cl = NoCall
            \/ l = "remove" /\ cl.op = "rollback" /\ cl.old # 0 /\ Has(c, cl.old)'
  BY <1>7
<1>9. pc'[c] = l /\ call'[c] = cl
  BY <1>0, <1>8 DEF Types
<1>10. Types'
  BY <1>0, <1>3, <1>4, <1>8 DEF Types, PCs
<1>11. OthersSame(c)
  BY <1>0, <1>4, <1>8 DEF OthersSame, Types, Ticket
<1>12. StaysLost(c)
  BY <1>8, <1>9 DEF StaysLost, Lost
<1>13. Control(c)'
  BY <1>8, <1>9, NoCallType DEF Control, WaitPC
<1>14. Justified(c)'
  BY <1>8, <1>9, NoCallType DEF Justified
<1>15. Transactional(c)'
  <2>1. 0 \notin Range(rest)
    BY <1>6, SlotRange DEF Has
  <2> QED
    BY <1>3, <1>5, <1>6, <1>8, <1>9, <2>1 DEF Transactional
<1>16. Slots(c)'
  BY <1>0, <1>8, <1>9 DEF Slots, Queued, NewOutside, WaitPC
<1>17. ~IsGranted(<<c, n>>)' /\ ~IsWaiting(<<c, n>>)'
  BY <1>1, <1>5, <1>8, <1>9 DEF IsGranted, IsWaiting
<1>18. ASSUME NEW s \in Slot \ {n} PROVE Stays(<<c, s>>)
  BY <1>1, <1>5, <1>8, <1>9, SlotRange DEF Stays, IsGranted, IsWaiting, OldOutside
<1> QED
  BY <1>1, <1>10, <1>11, <1>12, <1>13, <1>14, <1>15, <1>16, <1>17, <1>18 DEF CtxOK, Leaves

\* The end of a request that was not granted: the ticket is deleted, the slot is reset.
LEMMA AbortedOK ==
  ASSUME IInv, NEW c \in Ctx, pc[c] \in {"remove", "resched"}, call[c].op = "abort",
         NEW n, n = call[c].new, ticket' = [ticket EXCEPT ![<<c, n>>] = NoTicket],
         m_wait_status' = [m_wait_status EXCEPT ![c] = "EMPTY"], Return(c),
         UNCHANGED <<m_fast_lane, gone, m_tickets, wait_status>>,
         DOMAIN lock' = Key, \A k \in Key : lock'[k] \in LockType(k)
  PROVE  Leaves(c, n)
<1>0. Types /\ Control(c) /\ Transactional(c) /\ Slots(c)
  BY CtxFacts
<1>1. n \in Slot /\ <<c, n>> \in Ticket /\ n \notin Range(m_tickets[c])
  BY <1>0 DEF Control, Has, Ticket, Transactional
<1>2. pc' = [pc EXCEPT ![c] = "idle"] /\ call' = [call EXCEPT ![c] = NoCall]
  BY DEF Return, Goto
<1>3. /\ pc'[c] = "idle" /\ call'[c] = NoCall /\ m_wait_status'[c] = "EMPTY"
      /\ ticket'[<<c, n>>] = NoTicket
      /\ \A s \in Slot \ {n} : ticket'[<<c, s>>] = ticket[<<c, s>>]
  BY <1>0, <1>1, <1>2 DEF Types, Ticket
<1>4. Types'
  BY <1>0, <1>2, NoCallType DEF Types, PCs, WaitStatus
<1>5. OthersSame(c)
  BY <1>0, <1>2 DEF OthersSame, Types, Ticket
<1>6. StaysLost(c)
  BY <1>3 DEF StaysLost, Lost
<1>7. Control(c)'
  BY <1>3, NoCallType DEF Control, WaitPC
<1>8. Justified(c)'
  BY <1>3, NoCallType DEF Justified
<1>9. Transactional(c)'
  <2>1. \A s \in Range(m_tickets[c]) : Has(c, s)'
    BY <1>0, <1>1, <1>3 DEF Transactional, Has
  <2> QED
    BY <1>0, <1>3, <2>1, NoCallType, SlotRange DEF Transactional, Has
<1>10. Slots(c)'
  BY <1>3 DEF Slots
<1>11. ~IsGranted(<<c, n>>)' /\ ~IsWaiting(<<c, n>>)'
  BY <1>3 DEF IsGranted, IsWaiting, Queued, WaitPC
<1>12. ASSUME NEW s \in Slot \ {n} PROVE Stays(<<c, s>>)
  BY <1>3, NoCallType, SlotRange DEF Stays, IsGranted, IsWaiting, OldOutside
<1> QED
  BY <1>1, <1>4, <1>5, <1>6, <1>7, <1>8, <1>9, <1>10, <1>11, <1>12 DEF CtxOK, Leaves

\* remove_ticket() goes on with reschedule_waiters().
LEMMA ToReschedule ==
  ASSUME IInv, NEW c \in Ctx, pc[c] = "remove", pc' = [pc EXCEPT ![c] = "resched"],
         NEW n, n = IF call[c].op = "abort" THEN call[c].new ELSE call[c].old,
         UNCHANGED <<ticket, m_fast_lane, m_tickets, m_wait_status, wait_status, gone, call>>,
         DOMAIN lock' = Key, \A k \in Key : lock'[k] \in LockType(k)
  PROVE  Leaves(c, n)
<1>0. Types /\ Control(c) /\ Justified(c) /\ Transactional(c) /\ Slots(c)
  BY CtxFacts
<1> USE <1>0
<1>1. /\ call[c].op \in {"abort", "release", "rollback"} /\ n \in Slot
      /\ call[c].op # "abort" => call[c].new = 0
  BY DEF Control, Has
<1> USE <1>1
<1>2. Types' /\ pc'[c] = "resched"
  BY DEF Types, PCs
<1> USE <1>2
<1>3. OthersSame(c)
  BY DEF OthersSame, Types
<1>4. StaysLost(c)
  BY DEF StaysLost, Lost
<1>5. Control(c)'
  BY DEF Control, Has, WaitPC
<1>6. Justified(c)'
  BY DEF Justified
<1>7. Transactional(c)'
  BY DEF Transactional, Has
<1>8. Slots(c)'
  BY DEF Slots, Queued, NewOutside, WaitPC
<1>9. ~IsGranted(<<c, n>>)' /\ ~IsWaiting(<<c, n>>)'
  BY DEF IsGranted, IsWaiting, Queued, NewOutside, OldOutside, WaitPC
<1>10. ASSUME NEW s \in Slot \ {n} PROVE Stays(<<c, s>>)
  BY SlotRange DEF Stays, IsGranted, IsWaiting, OldOutside, NewOutside
<1> QED
  BY <1>3, <1>4, <1>5, <1>6, <1>7, <1>8, <1>9, <1>10 DEF CtxOK, Leaves
=============================================================================
