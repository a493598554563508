----------------------------- MODULE MdlProofs ------------------------------
(***************************************************************************)
(* The end of a release, changes of the type of a ticket and               *)
(* reschedule_waiters(); and the theorems: the owners of a table or schema *)
(* lock are compatible, the bitmaps are exact, and the slot of a context   *)
(* that does not wait is empty.                                            *)
(***************************************************************************)
EXTENDS MdlSteps

\* Most leaves are first-order; those that need arithmetic or sequences cite SMT.
USE Zenon

----------------------------------------------------------------------------
(* The end of a release *)

\* MDL_lock::remove_ticket(), from the queue or from m_granted.
LEMMA RemoveTicketStep ==
  ASSUME IInv, NEW c \in Ctx, RemoveTicket(c)
  PROVE  IInv'
<1>0. Types /\ Control(c) /\ Slots(c)
  BY CtxFacts
<1> USE <1>0
<1>1. PICK n : n = IF call[c].op = "abort" THEN call[c].new ELSE call[c].old
  OBVIOUS
<1> USE <1>1
<1>2. PICK k : k = KeyOf(<<c, n>>)
  BY SMT
<1> USE <1>2
<1> DEFINE t == <<c, n>>
           list == IF call[c].op = "abort" THEN "waiting" ELSE "granted"
           r == Remove(lock[k], list, t, TypeOf(t))
<1>3. /\ pc[c] = "remove" /\ call[c].op \in {"abort", "release", "rollback"} /\ Has(c, n)
      /\ call[c].op # "abort" => call[c].new = 0
      /\ call[c].op = "abort" => n # call[c].old
  BY DEF RemoveTicket, Control
<1> USE <1>3
<1>4. /\ n \in Slot /\ t \in Ticket /\ k \in Key /\ TypeOf(t) \in TypesOf(k) /\ n # 0
  BY TicketFacts, SlotRange
<1> USE <1>4
<1>5. t = IF call[c].op = "abort" THEN NewTicket(c) ELSE OldTicket(c)
  BY DEF NewTicket, OldTicket
<1>6. UNCHANGED <<m_fast_lane, wait_status, gone>>
  BY DEF RemoveTicket
<1> USE <1>6
<1>7. \/ /\ IsEmpty(r)
         /\ \E e \in {r, EmptyLock(k)} : lock' = [lock EXCEPT ![k] = e]
         /\ EndSection(c, k, TypeOf(t))
      \/ /\ lock' = [lock EXCEPT ![k] = r] /\ pc' = [pc EXCEPT ![c] = "resched"]
         /\ UNCHANGED <<ticket, m_tickets, m_wait_status, call>>
  BY <1>5 DEF RemoveTicket, BeginReschedule, Goto
<1>8. lock[k] \in LockType(k) /\ IsInjective(lock[k].waiting)
  BY LockFacts
<1>9. r \in LockType(k)
  BY <1>8, RemoveGrantedIs, RemoveWaitingIs DEF GrantedRemoved, WaitingRemoved
<1> HIDE DEF r
<1>10. /\ DOMAIN lock' = Key /\ \A j \in Key : lock'[j] \in LockType(j)
       /\ AfterRemove(k, r) /\ \A j \in Key \ {k} : lock'[j] = lock[j]
  <2>1. PICK e \in {r, EmptyLock(k)} :
            lock' = [lock EXCEPT ![k] = e] /\ (e = r \/ IsEmpty(r))
    BY <1>7
  <2>2. 0 \in 0..Room
    BY LostBound, FS_EmptySet
  <2>3. e \in LockType(k)
    BY <1>9, <2>2, EmptyLockOK
  <2>4. /\ DOMAIN lock' = Key /\ \A j \in Key : lock'[j] \in LockType(j)
        /\ lock'[k] = e /\ \A j \in Key \ {k} : lock'[j] = lock[j]
    BY <2>1, <2>3, ChangeLock
  <2> QED
    BY <2>1, <2>4 DEF AfterRemove
<1> USE <1>10
<1>11. Leaves(c, n) /\ (call[c].op = "abort" => pc'[c] \in {"idle", "resched"})
  <2>1. CASE /\ pc' = [pc EXCEPT ![c] = "resched"]
             /\ UNCHANGED <<ticket, m_tickets, m_wait_status, call>>
    <3>1. Leaves(c, n)
      BY <2>1, ToReschedule
    <3> QED
      BY <2>1, <3>1 DEF Types
  <2>2. CASE EndSection(c, k, TypeOf(t))
    <3>1. AfterReopen(c, k)
      BY <2>2, NoLanes DEF EndSection
    <3>2. CASE call[c].op = "abort"
      <4>1. /\ ticket' = [ticket EXCEPT ![<<c, n>>] = NoTicket]
            /\ m_wait_status' = [m_wait_status EXCEPT ![c] = "EMPTY"]
            /\ Return(c) /\ UNCHANGED m_tickets
        BY <1>5, <3>1, <3>2, SMT DEF AfterReopen
      <4>2. Leaves(c, n)
        BY <3>2, <4>1, AbortedOK
      <4> QED
        BY <4>1, <4>2 DEF Types, Return, Goto
    <3>3. CASE call[c].op # "abort"
      <4>1. Released(c) /\ UNCHANGED m_wait_status
        BY <3>1, <3>3, SMT DEF AfterReopen
      <4> QED
        BY <3>3, <4>1, ReleasedOK
    <3> QED
      BY <3>2, <3>3
  <2> QED
    BY <1>7, <2>1, <2>2
<1>12. /\ Types' /\ CtxOK(c)' /\ OthersSame(c) /\ StaysLost(c)
       /\ ~IsGranted(t)' /\ ~IsWaiting(t)' /\ \A s \in Slot \ {n} : Stays(<<c, s>>)
  BY <1>11 DEF Leaves
<1> USE <1>12
<1>13. Moves({t}, k)
  BY MovesOne
<1>14. \A j \in Key : LockOK(j)'
  <2>1. CASE call[c].op # "abort"
    <3>1. IsGranted(t) /\ KeyOf(t) = k
      BY <2>1 DEF IsGranted, OldOutside, Has
    <3>2. AfterRemove(k, Remove(lock[k], "granted", t, TypeOf(t)))
      BY <2>1 DEF r
    <3> HIDE DEF t
    <3> QED
      BY <1>13, <3>1, <3>2, Depart
  <2>2. CASE call[c].op = "abort"
    <3> USE <2>2
    <3>0. AfterRemove(k, Remove(lock[k], "waiting", t, TypeOf(t))) /\ KeyOf(t) = k
      BY DEF r
    <3>1. CASE m_wait_status[c] # "GRANTED"
      <4>1. IsWaiting(t)
        BY <3>1 DEF IsWaiting, Queued
      <4> HIDE DEF t
      <4> QED
        BY <1>13, <3>0, <4>1, AbortWaiting
    <3>2. CASE m_wait_status[c] = "GRANTED"
      <4>1. IsGranted(t)
        BY <3>2 DEF IsGranted, IsWaiting, NewOutside, Has
      <4>2. c \in gone
        BY <3>2 DEF Slots
      <4>3. c \in Lost' /\ c \notin Lost
        BY <1>11, <4>2 DEF Lost
      <4> HIDE DEF t
      <4> QED
        BY <1>13, <3>0, <4>1, <4>3, AbortGranted
    <3> QED
      BY <3>1, <3>2
  <2> QED
    BY <2>1, <2>2
<1> QED
  BY <1>14, Step

\* The end of reschedule_waiters(): only the count of hogs of the lock may change.
LEMMA RescheduleEndStep ==
  ASSUME IInv, NEW c \in Ctx, RescheduleEnd(c)
  PROVE  IInv'
<1>0. Types /\ Control(c) /\ Justified(c) /\ Transactional(c) /\ Slots(c)
  BY CtxFacts
<1> USE <1>0
<1>1. PICK n : n = IF call[c].op = "abort" THEN call[c].new ELSE call[c].old
  BY SMT
<1> USE <1>1
<1>2. PICK k : k = LockKey(c)
  BY SMT
<1>3. /\ pc[c] = "resched" /\ call[c].op \in {"abort", "release", "rollback", "downgrade"}
      /\ Has(c, n) /\ k = KeyOf(<<c, n>>)
  BY <1>2 DEF RescheduleEnd, Control, LockKey, NewTicket, OldTicket
<1> USE <1>3
<1>4. n \in Slot /\ k \in Key
  BY TicketFacts
<1>5. UNCHANGED <<m_fast_lane, wait_status, gone>> /\ AfterReopen(c, k)
  BY <1>2, NoLanes DEF RescheduleEnd, EndSection
<1> USE <1>5
<1>6. /\ DOMAIN lock' = Key /\ \A j \in Key : lock'[j] \in LockType(j)
      /\ \A j \in Key : /\ lock'[j].granted = lock[j].granted
                        /\ lock'[j].waiting = lock[j].waiting
                        /\ lock'[j].bitmap = lock[j].bitmap
                        /\ lock'[j].count = lock[j].count
  <2>1. CASE lock' = lock
    BY <2>1 DEF Types
  <2>2. CASE lock' = [lock EXCEPT ![k].hog = 0]
    <3> DEFINE r == [lock[k] EXCEPT !.hog = 0]
    <3>1. lock[k] \in LockType(k)
      BY <1>4 DEF Types
    <3>2. /\ r \in LockType(k) /\ r.granted = lock[k].granted /\ r.waiting = lock[k].waiting
          /\ r.bitmap = lock[k].bitmap /\ r.count = lock[k].count
      BY <3>1 DEF LockType
    <3>3. lock' = [lock EXCEPT ![k] = r]
      BY <2>2, SMT
    <3> HIDE DEF r
    <3>4. /\ DOMAIN lock' = Key /\ \A j \in Key : lock'[j] \in LockType(j)
          /\ lock'[k] = r /\ \A j \in Key \ {k} : lock'[j] = lock[j]
      BY <1>4, <3>2, <3>3, ChangeLock
    <3> QED
      BY <3>2, <3>4
  <2> QED
    BY <1>2, <2>1, <2>2 DEF RescheduleEnd
<1> USE <1>6
<1>7. CASE call[c].op = "downgrade"
  <2> USE <1>7
  <2>0. call[c].new = 0
    BY DEF Control
  <2>1. Return(c) /\ UNCHANGED <<ticket, m_tickets, m_wait_status>>
    BY SMT DEF AfterReopen
  <2> USE <2>1
  <2>2. pc'[c] = "idle" /\ call'[c] = NoCall /\ Types'
    BY NoCallType DEF Types, Return, Goto, PCs
  <2> USE <2>2
  <2>3. OthersSame(c)
    BY DEF OthersSame, Types, Return, Goto
  <2>4. StaysLost(c)
    BY DEF StaysLost, Lost
  <2>5. Control(c)'
    BY NoCallType DEF Control, WaitPC
  <2>6. Justified(c)'
    BY NoCallType DEF Justified
  <2>7. Transactional(c)'
    BY NoCallType, SlotRange DEF Transactional, Has
  <2>8. Slots(c)'
    BY DEF Slots, Queued, NewOutside, WaitPC
  <2>9. ASSUME NEW s \in Slot PROVE Stays(<<c, s>>)
    BY <2>0, NoCallType, SlotRange
       DEF Stays, IsGranted, IsWaiting, OldOutside, NewOutside
  <2>10. CtxOK(c)'
    BY <2>5, <2>6, <2>7, <2>8, SMT DEF CtxOK
  <2> QED
    BY <2>3, <2>4, <2>9, <2>10, NothingMoves
<1>8. CASE call[c].op # "downgrade"
  <2>1. Leaves(c, n)
    <3>1. CASE call[c].op = "abort"
      <4>1. /\ ticket' = [ticket EXCEPT ![<<c, n>>] = NoTicket]
            /\ m_wait_status' = [m_wait_status EXCEPT ![c] = "EMPTY"]
            /\ Return(c) /\ UNCHANGED m_tickets
        BY <3>1, SMT DEF AfterReopen, NewTicket
      <4> QED
        BY <3>1, <4>1, AbortedOK
    <3>2. CASE call[c].op # "abort"
      <4>1. Released(c) /\ UNCHANGED m_wait_status
        BY <1>8, <3>2, SMT DEF AfterReopen
      <4> QED
        BY <1>8, <3>2, <4>1, ReleasedOK
    <3> QED
      BY <3>1, <3>2
  <2>2. ~IsGranted(<<c, n>>) /\ ~IsWaiting(<<c, n>>)
    BY <1>8
       DEF IsGranted, IsWaiting, Queued, NewOutside, OldOutside, WaitPC
  <2>3. \A s \in Slot : Stays(<<c, s>>)
    BY <2>1, <2>2 DEF Leaves, Stays
  <2> QED
    BY <2>1, <2>3, NothingMoves DEF Leaves
<1> QED
  BY <1>7, <1>8
----------------------------------------------------------------------------
(* Changing the type of a ticket *)

\* A ticket that gets another type of its lock is still a ticket.
LEMMA NewType ==
  ASSUME NEW x \in TicketType, NEW ty \in TypesOf(x.key)
  PROVE  /\ [x EXCEPT !.type = ty] \in TicketType /\ [x EXCEPT !.type = ty] # NoTicket
         /\ [x EXCEPT !.type = ty].key = x.key /\ [x EXCEPT !.type = ty].type = ty
<1>1. ty \in MdlType
  BY NoCallType
<1>2. x \in [key : Key, type : MdlType, duration : Duration]
  BY DEF TicketType
<1> DEFINE y == [x EXCEPT !.type = ty]
<1>3. /\ y \in [key : Key, type : MdlType, duration : Duration]
      /\ y.key = x.key /\ y.type = ty /\ y.duration = x.duration
  BY <1>1, <1>2, SMT
<1>4. y.duration # "none"
  BY <1>2, <1>3, SMT DEF Duration
<1> HIDE DEF y
<1>5. y \in TicketType /\ y # NoTicket /\ y.key = x.key /\ y.type = ty
  <2>1. NoTicket.duration = "none"
    BY SMT DEF NoTicket
  <2> QED
    BY <1>2, <1>3, <1>4, <2>1 DEF TicketType
<1> QED
  BY <1>5, SMT DEF y

\* The lock after a ticket t was taken out of m_granted and put back with type ty.
LEMMA RetypedLock ==
  ASSUME NEW k, NEW lk \in LockType(k), NEW t \in Ticket, NEW tz \in TypesOf(k),
         NEW ty \in TypesOf(k), IsInjective(lk.waiting)
  PROVE  AddGranted(Remove(lk, "granted", t, tz), t, ty) \in LockType(k)
<1> DEFINE r == Remove(lk, "granted", t, tz)
<1>1. r \in LockType(k)
  BY RemoveGrantedIs DEF GrantedRemoved
<1> HIDE DEF r
<1>2. AddGranted(r, t, ty) \in LockType(k)
  BY <1>1, AddGrantedIs DEF GrantedAdded
<1> QED
  BY <1>2 DEF r

\* MDL_lock::downgrade().
LEMMA DowngradeTicketStep ==
  ASSUME IInv, NEW c \in Ctx, DowngradeTicket(c)
  PROVE  IInv'
<1>0. Types /\ Control(c) /\ Justified(c) /\ Transactional(c) /\ Slots(c)
  BY CtxFacts
<1>1. PICK n : n = call[c].old
  BY SMT
<1>2. PICK k : k = KeyOf(<<c, n>>)
  BY SMT
<1>3. PICK ty : ty = call[c].type
  OBVIOUS
<1> DEFINE t == <<c, n>>
<1>4. /\ pc[c] = "downgrade" /\ call[c].op = "downgrade" /\ call[c].new = 0 /\ Has(c, n)
      /\ ty \in TypesOf(k) /\ Stronger(c, k, ty) /\ c \notin gone
      /\ m_wait_status[c] # "GRANTED"
  BY <1>0, <1>1, <1>2, <1>3
     DEF DowngradeTicket, Control, Justified, Slots, Queued, NewOutside, OldTicket, WaitPC
<1>5. /\ n \in Slot /\ t \in Ticket /\ ticket[t] \in TicketType /\ k \in Key
      /\ TypeOf(t) \in TypesOf(k) /\ n # 0
  BY <1>2, <1>4, TicketFacts, SlotRange
<1>6. /\ ticket' = [ticket EXCEPT ![t].type = ty] /\ pc' = [pc EXCEPT ![c] = "resched"]
      /\ lock' = [lock EXCEPT ![k] =
                     AddGranted(Remove(lock[k], "granted", t, TypeOf(t)), t, ty)]
      /\ UNCHANGED <<m_fast_lane, m_tickets, m_wait_status, wait_status, gone, call>>
  BY <1>1, <1>2, <1>3 DEF DowngradeTicket, OldTicket, BeginReschedule, Goto, waitVars
<1>7. /\ ticket' \in [Ticket -> TicketType \cup {NoTicket}]
      /\ ticket'[t] # NoTicket /\ ticket'[t].key = k /\ ticket'[t].type = ty
      /\ \A u \in Ticket \ {t} : ticket'[u] = ticket[u]
  <2> DEFINE y == [ticket[t] EXCEPT !.type = ty]
  <2>1. y \in TicketType /\ y # NoTicket /\ y.key = k /\ y.type = ty
    BY <1>2, <1>4, <1>5, NewType DEF KeyOf
  <2>2. ticket' = [ticket EXCEPT ![t] = y]
    BY <1>6, SMT
  <2> HIDE DEF y, t
  <2> QED
    BY <1>0, <1>5, <2>1, <2>2 DEF Types
<1>8. lock[k] \in LockType(k) /\ IsInjective(lock[k].waiting)
      /\ GrantedTally(k, lock[k], types, Cardinality(Lost))
      /\ (gone = {} => WaitingTally(k, lock[k], types))
  BY <1>5, LockFacts
<1>9. /\ DOMAIN lock' = Key /\ \A j \in Key : lock'[j] \in LockType(j)
      /\ lock'[k] = AddGranted(Remove(lock[k], "granted", t, TypeOf(t)), t, ty)
      /\ \A j \in Key \ {k} : lock'[j] = lock[j]
  <2> DEFINE r == AddGranted(Remove(lock[k], "granted", t, TypeOf(t)), t, ty)
  <2>1. r \in LockType(k) /\ lock' = [lock EXCEPT ![k] = r]
    BY <1>4, <1>5, <1>6, <1>8, RetypedLock
  <2> HIDE DEF r
  <2>2. /\ DOMAIN lock' = Key /\ \A j \in Key : lock'[j] \in LockType(j)
        /\ lock'[k] = r /\ \A j \in Key \ {k} : lock'[j] = lock[j]
    BY <1>5, <2>1, ChangeLock
  <2> QED
    BY <2>2 DEF r
<1>10. Types' /\ pc'[c] = "resched"
  BY <1>0, <1>6, <1>7, <1>9 DEF Types, PCs
<1>11. OthersSame(c)
  <2>1. \A d \in Ctx \ {c} : \A s \in Slot : ticket'[<<d, s>>] = ticket[<<d, s>>]
    BY <1>7 DEF Ticket
  <2> QED
    BY <1>0, <1>6, <2>1 DEF OthersSame, Types
<1>12. StaysLost(c)
  BY <1>4 DEF StaysLost, Lost
<1>13. \A s \in Slot : Has(c, s) => Has(c, s)'
  BY <1>7 DEF Has, Ticket
<1>14. CtxOK(c)'
  <2>1. Control(c)'
    BY <1>0, <1>1, <1>4, <1>6, <1>10, <1>13 DEF Control, WaitPC, Has
  <2>2. Justified(c)'
    BY <1>1, <1>3, <1>4, <1>6, <1>7, <1>10 DEF Justified, KeyOf, OldTicket
  <2>3. Transactional(c)'
    BY <1>0, <1>4, <1>6, <1>13 DEF Transactional, Has
  <2>4. Slots(c)'
    BY <1>4, <1>6, <1>10, SMT DEF Slots
  <2> QED
    BY <2>1, <2>2, <2>3, <2>4, SMT DEF CtxOK
<1>15. ASSUME NEW s \in Slot \ {n} PROVE Stays(<<c, s>>)
  <2>1. ticket'[<<c, s>>] = ticket[<<c, s>>]
    BY <1>7 DEF Ticket
  <2> QED
    BY <1>4, <1>6, <1>10, <2>1, SlotRange DEF Stays, IsGranted, IsWaiting, OldOutside, NewOutside
<1>16. IsGranted(t) /\ IsGranted(t)' /\ ~IsWaiting(t) /\ ~IsWaiting(t)'
  BY <1>4, <1>5, <1>6, <1>7, <1>10 DEF IsGranted, IsWaiting, OldOutside, Has
<1>17. KeyOf(t) = k /\ KeyOf(t)' = k /\ TypeOf(t)' = ty
  BY <1>2, <1>7 DEF KeyOf, TypeOf
<1>18. Moves({t}, k)
  BY <1>5, <1>9, <1>11, <1>12, <1>15, <1>17, MovesOne
<1>19. \A u \in lock[k].granted : u[1] = c \/ TypeOf(u) \notin GrantedIncompatible(k, ty)
  <2>1. PICK s \in Slot : /\ Has(c, s) /\ s # call[c].new /\ KeyOf(<<c, s>>) = k
                          /\ HasStrongerOrEqualType(k, TypeOf(<<c, s>>), ty)
    BY <1>4 DEF Stronger
  <2>2. IsGranted(<<c, s>>)
    BY <1>4, <2>1 DEF IsGranted, OldOutside, Has
  <2> QED
    BY <1>5, <2>1, <2>2, StrongerLock
<1>20. /\ {t} \in SUBSET Ticket /\ t \in {t} /\ t[1] = c
       /\ lock[k].granted = lock[k].granted \ ({t} \ {t})
  BY <1>5
<1>21. \A j \in Key : LockOK(j)'
  <2> HIDE DEF t
  <2> QED
    BY <1>4, <1>5, <1>8, <1>9, <1>10, <1>16, <1>17, <1>18, <1>19, <1>20, Change
<1> QED
  BY <1>10, <1>11, <1>14, <1>21, Step

\* The lock after MDL_lock::upgrade() took the new ticket out.
LEMMA WithoutNew ==
  ASSUME IInv, NEW t \in Ticket, NEW k \in Key, IsGranted(t), KeyOf(t) = k,
         NEW lk, lk = Remove(lock[k], "granted", t, TypeOf(t))
  PROVE  /\ lk \in LockType(k) /\ lk.waiting = lock[k].waiting
         /\ lk.granted = lock[k].granted \ {t}
         /\ GrantedTally(k, lk, types, Cardinality(Lost))
         /\ gone = {} => WaitingTally(k, lk, types)
<1>0. /\ lock[k] \in LockType(k) /\ IsInjective(lock[k].waiting)
      /\ \A u \in lock[k].granted \cup Range(lock[k].waiting) : TypeOf(u) \in TypesOf(k)
      /\ GrantedTally(k, lock[k], types, Cardinality(Lost))
      /\ gone = {} => WaitingTally(k, lock[k], types)
  BY LockFacts
<1> USE <1>0
<1>1. t \in lock[k].granted /\ t \notin Range(lock[k].waiting)
  <2>1. ~IsWaiting(t)
    BY DEF IsGranted, IsWaiting
  <2> QED
    BY <2>1 DEF IInv, LockOK, Lists
<1>2. Cardinality(Lost) \in 0..Room
  BY LostBound, gone \in SUBSET Disconnecting, Lost \in SUBSET gone DEF IInv, Types, Lost
<1>3. types[t] = TypeOf(t) /\ TypeOf(t) \in TypesOf(k)
  BY <1>1 DEF types
<1>4. GrantedRemoved(k, lock[k], lk, t, TypeOf(t))
  BY <1>3, RemoveGrantedIs
<1>5. GrantedTally(k, lk, types, Cardinality(Lost))
  BY <1>1, <1>2, <1>3, RemoveGrantedTally
<1>6. Without(lock[k].waiting, t) = lock[k].waiting
  BY <1>1 DEF Without
<1>7. lk \in LockType(k) /\ lk.granted = lock[k].granted \ {t} /\ lk.waiting = lock[k].waiting
  BY <1>4, <1>6 DEF GrantedRemoved
<1>8. gone = {} => WaitingTally(k, lk, types)
  BY <1>4, <1>7 DEF WaitingTally, GrantedRemoved
<1> QED
  BY <1>5, <1>7, <1>8

\* MDL_lock::upgrade() and the end of upgrade_shared_lock().
LEMMA RetypeStep ==
  ASSUME IInv, NEW c \in Ctx, pc[c] = "merge", Retype(c),
         UNCHANGED <<m_wait_status, wait_status, gone>>
  PROVE  IInv'
<1>0. Types /\ Control(c) /\ Justified(c) /\ Transactional(c) /\ Slots(c)
  BY CtxFacts
<1>1. PICK n : n = call[c].old
  OBVIOUS
<1>2. PICK m : m = call[c].new
  OBVIOUS
<1>3. PICK k : k = KeyOf(<<c, n>>)
  OBVIOUS
<1>4. PICK ty : ty = call[c].type
  OBVIOUS
<1> DEFINE t == <<c, n>>
           T == IF m = 0 THEN {n} ELSE {n, m}
           S == {<<c, s>> : s \in T}
<1>5. /\ Has(c, n) /\ ty \in TypesOf(k) /\ c \notin gone /\ m_wait_status[c] # "GRANTED"
      /\ m # 0 => Has(c, m) /\ m # n /\ KeyOf(<<c, m>>) = k /\ TypeOf(<<c, m>>) = ty
      /\ m = 0 => Stronger(c, k, ty)
  BY <1>0, <1>1, <1>2, <1>3, <1>4
     DEF Control, Justified, Slots, Queued, NewOutside, OldTicket, NewTicket, WaitPC
<1>6. /\ n \in Slot /\ t \in Ticket /\ ticket[t] \in TicketType /\ k \in Key
      /\ TypeOf(t) \in TypesOf(k) /\ n # 0
      /\ m # 0 => m \in Slot /\ <<c, m>> \in Ticket
  BY <1>3, <1>5, TicketFacts, SlotRange
<1>7. PICK lk : lk = IF m # 0 THEN Remove(lock[k], "granted", <<c, m>>, TypeOf(<<c, m>>))
                     ELSE lock[k]
  OBVIOUS
<1>8. /\ lock' = [lock EXCEPT ![k] = AddGranted(Remove(lk, "granted", t, TypeOf(t)), t, ty)]
      /\ ticket' = [u \in Ticket |->
                     IF u = t THEN [ticket[u] EXCEPT !.type = ty]
                     ELSE IF u = <<c, m>> THEN NoTicket ELSE ticket[u]]
      /\ m_fast_lane' = [u \in Ticket |-> IF u = <<c, m>> THEN NoLane ELSE m_fast_lane[u]]
      /\ m_tickets' = [m_tickets EXCEPT ![c] = Without(m_tickets[c], m)]
      /\ pc' = [pc EXCEPT ![c] = "idle"] /\ call' = [call EXCEPT ![c] = NoCall]
  <2>1. m # 0 => m_fast_lane[<<c, m>>] = NoLane
    BY <1>6, NoLanes
  <2> QED
    BY <1>1, <1>2, <1>3, <1>4, <1>7, <2>1 DEF Retype, OldTicket, NewTicket, Return, Goto
<1>9. /\ ticket' \in [Ticket -> TicketType \cup {NoTicket}]
      /\ ticket'[t] # NoTicket /\ ticket'[t].key = k /\ ticket'[t].type = ty
      /\ \A u \in Ticket \ {t, <<c, m>>} : ticket'[u] = ticket[u]
      /\ m # 0 => ticket'[<<c, m>>] = NoTicket
  <2> DEFINE y == [ticket[t] EXCEPT !.type = ty]
  <2>1. y \in TicketType /\ y # NoTicket /\ y.key = k /\ y.type = ty
    BY <1>3, <1>5, <1>6, NewType DEF KeyOf
  <2>2. ticket' = [u \in Ticket |-> IF u = t THEN y
                                    ELSE IF u = <<c, m>> THEN NoTicket ELSE ticket[u]]
    BY <1>8
  <2>3. m # 0 => <<c, m>> # t
    BY <1>5
  <2> HIDE DEF y, t
  <2> QED
    BY <1>0, <1>6, <2>1, <2>2, <2>3 DEF Types
<1>10. IsGranted(t) /\ ~IsWaiting(t) /\ (m # 0 => IsGranted(<<c, m>>) /\ ~IsWaiting(<<c, m>>))
  BY <1>5 DEF IsGranted, IsWaiting, Queued, NewOutside, OldOutside, Has, WaitPC
<1>11. /\ lk \in LockType(k) /\ lk.waiting = lock[k].waiting
       /\ lk.granted = lock[k].granted \ (S \ {t})
       /\ GrantedTally(k, lk, types, Cardinality(Lost))
       /\ gone = {} => WaitingTally(k, lk, types)
  <2>1. CASE m = 0
    <3>1. S \ {t} = {}
      BY <2>1
    <3> HIDE DEF S
    <3> QED
      BY <1>6, <1>7, <2>1, <3>1, LockFacts
  <2>2. CASE m # 0
    <3>1. S \ {t} = {<<c, m>>}
      BY <1>5, <2>2, SMT
    <3>2. PICK u : u = <<c, m>>
      OBVIOUS
    <3>3. u \in Ticket /\ IsGranted(u) /\ KeyOf(u) = k
      BY <1>5, <1>6, <1>10, <2>2, <3>2
    <3>4. lk = Remove(lock[k], "granted", u, TypeOf(u))
      BY <1>7, <2>2, <3>2
    <3> HIDE DEF S
    <3>5. /\ lk \in LockType(k) /\ lk.waiting = lock[k].waiting
          /\ lk.granted = lock[k].granted \ {u}
          /\ GrantedTally(k, lk, types, Cardinality(Lost))
          /\ gone = {} => WaitingTally(k, lk, types)
      BY <1>6, <3>3, <3>4, WithoutNew, SMT
    <3> QED
      BY <3>1, <3>2, <3>5
  <2> QED
    BY <2>1, <2>2
<1>12. lk \in LockType(k) /\ IsInjective(lk.waiting)
  BY <1>6, <1>11, LockFacts
<1>13. /\ DOMAIN lock' = Key /\ \A j \in Key : lock'[j] \in LockType(j)
       /\ lock'[k] = AddGranted(Remove(lk, "granted", t, TypeOf(t)), t, ty)
       /\ \A j \in Key \ {k} : lock'[j] = lock[j]
  <2> DEFINE r == AddGranted(Remove(lk, "granted", t, TypeOf(t)), t, ty)
  <2>1. r \in LockType(k) /\ lock' = [lock EXCEPT ![k] = r]
    BY <1>5, <1>6, <1>8, <1>12, RetypedLock
  <2> HIDE DEF r
  <2>2. /\ DOMAIN lock' = Key /\ \A j \in Key : lock'[j] \in LockType(j)
        /\ lock'[k] = r /\ \A j \in Key \ {k} : lock'[j] = lock[j]
    BY <1>6, <2>1, ChangeLock
  <2> QED
    BY <2>2 DEF r
<1>14. /\ m_tickets' \in [Ctx -> Seq(Slot)] /\ IsInjective(m_tickets'[c])
       /\ Range(m_tickets'[c]) = Range(m_tickets[c]) \ {m}
       /\ \A d \in Ctx \ {c} : m_tickets'[d] = m_tickets[d]
  <2>1. m_tickets[c] \in Seq(Slot) /\ IsInjective(m_tickets[c])
    BY <1>0 DEF Types, Transactional
  <2>2. /\ Without(m_tickets[c], m) \in Seq(Slot) /\ IsInjective(Without(m_tickets[c], m))
        /\ Range(Without(m_tickets[c], m)) = Range(m_tickets[c]) \ {m}
    BY <2>1, WithoutElement
  <2> QED
    BY <1>0, <1>8, <2>2 DEF Types
<1>15. Types' /\ pc'[c] = "idle" /\ call'[c] = NoCall
  <2>1. m_fast_lane' = [u \in Ticket |-> NoLane]
    BY <1>0, <1>8, SMT DEF Types
  <2> QED
    BY <1>0, <1>8, <1>9, <1>13, <1>14, <2>1, NoCallType DEF Types, PCs
<1>16. OthersSame(c)
  <2>1. \A d \in Ctx \ {c} : \A s \in Slot : ticket'[<<d, s>>] = ticket[<<d, s>>]
    BY <1>9 DEF Ticket
  <2> QED
    BY <1>0, <1>8, <1>14, <2>1 DEF OthersSame, Types
<1>17. StaysLost(c)
  BY <1>5 DEF StaysLost, Lost
<1>18. CtxOK(c)'
  <2>1. Control(c)'
    BY <1>15, NoCallType DEF Control, WaitPC
  <2>2. Justified(c)'
    BY <1>15, NoCallType DEF Justified
  <2>3. \A s \in Slot \ {m} : Has(c, s) => Has(c, s)'
    BY <1>9 DEF Has, Ticket
  <2>4. Transactional(c)'
    <3>1. \A s \in Range(m_tickets'[c]) : Has(c, s)'
      BY <1>0, <1>14, <2>3 DEF Transactional, Has
    <3> QED
      BY <1>14, <1>15, <3>1, NoCallType, SlotRange DEF Transactional, Has
  <2>5. Slots(c)'
    BY <1>5, <1>15 DEF Slots
  <2> QED
    BY <2>1, <2>2, <2>4, <2>5 DEF CtxOK
<1>19. ASSUME NEW s \in Slot \ T PROVE Stays(<<c, s>>)
  <2>1. s # n /\ s # m /\ s # 0
    BY SlotRange
  <2>2. ticket'[<<c, s>>] = ticket[<<c, s>>]
    BY <1>9, <2>1 DEF Ticket
  <2> QED
    BY <1>1, <1>2, <1>15, <2>1, <2>2, NoCallType
       DEF Stays, IsGranted, IsWaiting, OldOutside, NewOutside
<1>20. IsGranted(t)' /\ ~IsWaiting(t)' /\ KeyOf(t) = k /\ KeyOf(t)' = k /\ TypeOf(t)' = ty
  BY <1>3, <1>6, <1>9, <1>15, NoCallType DEF IsGranted, IsWaiting, KeyOf, TypeOf
<1>21. m # 0 => ~IsGranted(<<c, m>>)' /\ ~IsWaiting(<<c, m>>)'
  BY <1>9, <1>15, NoCallType DEF IsGranted, IsWaiting
<1>22. Moves(S, k)
  <2>1. T \in SUBSET Slot
    BY <1>6
  <2>2. \A s \in T :
            /\ IsGranted(<<c, s>>) \/ IsWaiting(<<c, s>>) => KeyOf(<<c, s>>) = k
            /\ IsGranted(<<c, s>>)' \/ IsWaiting(<<c, s>>)' => KeyOf(<<c, s>>)' = k
    BY <1>5, <1>20, <1>21
  <2>3. \A s \in Slot \ T : Stays(<<c, s>>)
    BY <1>19
  <2> HIDE DEF T
  <2> QED
    BY <1>13, <1>16, <1>17, <2>1, <2>2, <2>3, MovesOf
<1>23. \A u \in lock[k].granted : u[1] = c \/ TypeOf(u) \notin GrantedIncompatible(k, ty)
  <2>1. PICK s \in Slot : /\ Has(c, s) /\ IsGranted(<<c, s>>) /\ KeyOf(<<c, s>>) = k
                          /\ HasStrongerOrEqualType(k, TypeOf(<<c, s>>), ty)
    <3>1. CASE m = 0
      <4>1. PICK s \in Slot : /\ Has(c, s) /\ s # call[c].new /\ KeyOf(<<c, s>>) = k
                              /\ HasStrongerOrEqualType(k, TypeOf(<<c, s>>), ty)
        BY <1>5, <3>1 DEF Stronger
      <4>2. IsGranted(<<c, s>>)
        BY <4>1 DEF IsGranted, OldOutside, Has
      <4> QED
        BY <4>1, <4>2
    <3>2. CASE m # 0
      BY <1>5, <1>6, <1>10, <3>2 DEF HasStrongerOrEqualType
    <3> QED
      BY <3>1, <3>2
  <2> QED
    BY <1>6, <2>1, StrongerLock
<1>24. /\ S \in SUBSET Ticket /\ t \in S /\ t[1] = c
       /\ \A u \in S \ {t} : ~IsGranted(u)' /\ ~IsWaiting(u)' /\ ~IsWaiting(u)
  BY <1>6, <1>10, <1>21
<1>25. \A j \in Key : LockOK(j)'
  <2> HIDE DEF t, S
  <2> QED
    BY <1>5, <1>6, <1>10, <1>11, <1>13, <1>15, <1>20, <1>22, <1>23, <1>24, Change
<1> QED
  BY <1>15, <1>16, <1>18, <1>25, Step

\* MDL_lock::upgrade(), when no lanes are to be reopened first.
LEMMA MergeStep ==
  ASSUME IInv, NEW c \in Ctx, Merge(c)
  PROVE  IInv'
<1>1. /\ pc[c] = "merge" /\ Retype(c) /\ UNCHANGED <<m_wait_status, wait_status, gone>>
  BY NoLanes DEF Merge, waitVars
<1> QED
  BY <1>1, RetypeStep

----------------------------------------------------------------------------
(* reschedule_waiters() *)

\* The number of hogs is apart from the rest of a lock.
LEMMA NewHog ==
  ASSUME NEW k, NEW r \in LockType(k), NEW h \in Nat
  PROVE  /\ r.hog \in Nat /\ [r EXCEPT !.hog = h] \in LockType(k)
         /\ [r EXCEPT !.hog = h].granted = r.granted /\ [r EXCEPT !.hog = h].waiting = r.waiting
         /\ [r EXCEPT !.hog = h].bitmap = r.bitmap /\ [r EXCEPT !.hog = h].count = r.count
<1>1. PICK A, W, B, C : LockType(k) = [granted : A, waiting : W, hog : Nat, bitmap : B, count : C]
  BY DEF LockType
<1> QED
  BY <1>1, SMT

\* There is a limit to the number of hogs.
LEMMA HogLimit == MaxHogs \in Nat
  BY MdlConstants

\* A request that is granted is a step of the context that waits.
LEMMA GrantWaitingStep ==
  ASSUME IInv, NEW d \in Ctx, NEW n \in Slot, NEW k \in Key, n = call[d].new,
         IsWaiting(<<d, n>>), KeyOf(<<d, n>>) = k, <<d, n>> \in lock[k].granted \cup Range(lock[k].waiting),
         m_wait_status[d] = "EMPTY",
         m_wait_status' = [m_wait_status EXCEPT ![d] = "GRANTED"],
         NEW r, r = AddGranted(Remove(lock[k], "waiting", <<d, n>>, TypeOf(<<d, n>>)),
                               <<d, n>>, TypeOf(<<d, n>>)),
         NEW h \in Nat, lock' = [lock EXCEPT ![k] = [r EXCEPT !.hog = h]],
         \A u \in lock[k].granted :
             u[1] = d \/ TypeOf(u) \notin GrantedIncompatible(k, TypeOf(<<d, n>>)),
         UNCHANGED <<ticket, m_fast_lane, m_tickets, wait_status, gone, pc, call>>
  PROVE  IInv'
<1>0. Types /\ Control(d) /\ Justified(d) /\ Transactional(d) /\ Slots(d)
  BY CtxFacts
<1> USE <1>0
<1> DEFINE t == <<d, n>>
<1>1. /\ t \in Ticket /\ ticket[t] # NoTicket /\ TypeOf(t) \in TypesOf(k) /\ t[1] = d
      /\ lock[k] \in LockType(k) /\ IsInjective(lock[k].waiting)
  BY LockFacts DEF Ticket
<1> USE <1>1
<1>2. Queued(d)
  BY SMT DEF IsWaiting
<1>3. r \in LockType(k)
  <2> DEFINE q == Remove(lock[k], "waiting", t, TypeOf(t))
  <2>1. q \in LockType(k)
    BY RemoveWaitingIs DEF WaitingRemoved
  <2> HIDE DEF q
  <2>2. AddGranted(q, t, TypeOf(t)) \in LockType(k)
    BY <2>1, AddGrantedIs DEF GrantedAdded
  <2> QED
    BY <2>2, SMT DEF q
<1>4. PICK e : e = [r EXCEPT !.hog = h]
  OBVIOUS
<1>5. /\ e \in LockType(k) /\ e.granted = r.granted /\ e.waiting = r.waiting
      /\ e.bitmap = r.bitmap /\ e.count = r.count
  BY <1>3, <1>4, NewHog, SMT
<1>6. /\ DOMAIN lock' = Key /\ \A j \in Key : lock'[j] \in LockType(j)
      /\ lock'[k] = e /\ \A j \in Key \ {k} : lock'[j] = lock[j]
  BY <1>4, <1>5, ChangeLock
<1>7. m_wait_status' \in [Ctx -> WaitStatus] /\ m_wait_status'[d] = "GRANTED"
      /\ \A b \in Ctx \ {d} : m_wait_status'[b] = m_wait_status[b]
  BY SMT DEF Types, WaitStatus
<1> USE <1>7
<1>8. Types'
  BY <1>6 DEF Types
<1>9. OthersSame(d)
  BY DEF OthersSame
<1>10. StaysLost(d)
  BY SMT DEF StaysLost, Lost
<1>11. CtxOK(d)'
  <2>1. Control(d)'
    BY DEF Control, Has
  <2>2. Justified(d)'
    BY DEF Justified, Stronger, Has, KeyOf, TypeOf, NewTicket, OldTicket
  <2>3. Transactional(d)'
    BY SMT DEF Transactional, Has
  <2>4. Slots(d)'
    BY <1>2 DEF Slots, Queued, WaitPC
  <2> QED
    BY <2>1, <2>2, <2>3, <2>4, SMT DEF CtxOK
<1>12. ASSUME NEW s \in Slot \ {n} PROVE Stays(<<d, s>>)
  BY DEF Stays, IsGranted, IsWaiting, NewOutside, OldOutside
<1>13. IsGranted(t)' /\ ~IsWaiting(t)'
  <2>1. ~NewOutside(d)' /\ ~OldOutside(d)'
    BY <1>2, SMT DEF Queued, NewOutside, OldOutside, WaitPC
  <2> QED
    BY <2>1 DEF IsGranted, IsWaiting
<1>14. KeyOf(t)' = k
  BY SMT DEF KeyOf
<1>15. Moves({t}, k)
  BY <1>6, <1>9, <1>10, <1>12, <1>14, MovesOne
<1>16. \A j \in Key : LockOK(j)'
  <2>1. PICK x : x = t
    OBVIOUS
  <2>2. /\ x \in Ticket /\ Moves({x}, k) /\ IsWaiting(x) /\ KeyOf(x) = k
        /\ ticket'[x] = ticket[x]
        /\ r = AddGranted(Remove(lock[k], "waiting", x, TypeOf(x)), x, TypeOf(x))
    BY <1>15, <2>1
  <2>3. IsGranted(x)' /\ ~IsWaiting(x)'
    BY <1>13, <2>1
  <2>4. /\ lock'[k].granted = r.granted /\ lock'[k].waiting = r.waiting
        /\ lock'[k].bitmap = r.bitmap /\ lock'[k].count = r.count
    BY <1>5, <1>6
  <2>5. \A u \in lock[k].granted :
            u[1] = x[1] \/ TypeOf(u) \notin GrantedIncompatible(k, TypeOf(x))
    BY <2>1, SMT
  <2> QED
    BY <1>8, <2>2, <2>3, <2>4, <2>5, GrantWaiting
<1> QED
  BY <1>8, <1>9, <1>11, <1>16, Step, SMT

\* One round of the loop.
LEMMA RescheduleWaiterStep ==
  ASSUME IInv, IterOK, NEW c \in Ctx, RescheduleWaiter(c)
  PROVE  IInv'
<1>0. Types /\ Control(c)
  BY CtxFacts
<1>1. PICK k : k = LockKey(c)
  BY SMT
<1>2. PICK t : t = lock[k].waiting[iter[c]]
  OBVIOUS
<1>3. k \in Key
  <2>1. call[c].new # 0 => Has(c, call[c].new)
    BY <1>0 DEF Control
  <2>2. call[c].new = 0 => Has(c, call[c].old)
    BY <1>0 DEF Control, RescheduleWaiter, RescheduleOne
  <2> QED
    BY <1>1, <2>1, <2>2, TicketFacts DEF LockKey, NewTicket, OldTicket
<1> USE <1>3
<1>4. /\ lock[k] \in LockType(k) /\ GrantedTally(k, lock[k], types, Cardinality(Lost))
      /\ \A u \in lock[k].granted \cup Range(lock[k].waiting) : TypeOf(u) \in TypesOf(k)
  BY LockFacts
<1> USE <1>4
<1>5. t \in Range(lock[k].waiting)
  <2>1. /\ lock[k].waiting \in Seq(Ticket) /\ Len(lock[k].waiting) \in Nat
        /\ DOMAIN lock[k].waiting = 1..Len(lock[k].waiting)
    <3>1. PICK G, B, C :
             LockType(k) = [granted : G, waiting : Seq(Ticket), hog : Nat, bitmap : B, count : C]
      BY DEF LockType
    <3>2. lock[k].waiting \in Seq(Ticket)
      BY <3>1, SMT
    <3> QED
      BY <3>2, SMT
  <2>2. pc[c] = "resched" /\ iter[c] <= Len(lock[k].waiting)
    BY <1>1 DEF RescheduleWaiter, RescheduleOne
  <2>3. iter[c] \in Nat /\ iter[c] # 0
    BY <2>2 DEF IterOK
  <2>4. iter[c] \in DOMAIN lock[k].waiting
    BY <2>1, <2>2, <2>3, SMT
  <2> QED
    BY <1>2, <2>4 DEF Range
<1>6. t \in Ticket /\ IsWaiting(t) /\ KeyOf(t) = k
  BY <1>5 DEF IInv, LockOK, Lists
<1> USE <1>6
<1>7. PICK d \in Ctx, n \in Slot : t = <<d, n>>
  BY SMT DEF Ticket
<1>8. n = call[d].new /\ t[1] = d
  BY <1>7 DEF IsWaiting
<1>9. UNCHANGED <<ticket, m_fast_lane, m_tickets, wait_status, gone, pc, call>>
  BY DEF RescheduleWaiter, RescheduleOne, ticketVars
<1> USE <1>9
<1>10. CASE UNCHANGED <<m_wait_status, lock>>
  <2> USE <1>10
  <2>1. OthersSame(c)
    BY DEF OthersSame
  <2>2. StaysLost(c)
    BY DEF StaysLost, Lost
  <2>3. Types' /\ CtxOK(c)'
    BY DEF IInv, Types, CtxOK, Control, Justified, Transactional, Slots, Has,
       Stronger, KeyOf, TypeOf, NewTicket, OldTicket, Queued, NewOutside
  <2>4. \A s \in Slot : Stays(<<c, s>>)
    BY DEF Stays, IsGranted, IsWaiting, Queued, NewOutside, OldOutside
  <2> QED
    BY <2>1, <2>2, <2>3, <2>4, NothingMoves
<1>11. CASE ~UNCHANGED <<m_wait_status, lock>>
  <2>1. /\ CanGrant(k, lock[k], TypeOf(t), d, skip_high_priority[c])
        /\ m_wait_status[d] = "EMPTY" /\ m_wait_status' = [m_wait_status EXCEPT ![d] = "GRANTED"]
        /\ lock' = [lock EXCEPT ![k] =
              [AddGranted(Remove(lock[k], "waiting", t, TypeOf(t)), t, TypeOf(t)) EXCEPT
                  !.hog = IF TypeOf(t) \in HogTypes(k) THEN Min({@ + 1, MaxHogs}) ELSE @]]
    BY <1>1, <1>2, <1>8, <1>11 DEF RescheduleWaiter, RescheduleOne
  <2>2. PICK r : r = AddGranted(Remove(lock[k], "waiting", t, TypeOf(t)), t, TypeOf(t))
    OBVIOUS
  <2>3. r \in LockType(k)
    <3> DEFINE q == Remove(lock[k], "waiting", t, TypeOf(t))
    <3>1. IsInjective(lock[k].waiting) /\ TypeOf(t) \in TypesOf(k)
      BY <1>5, LockFacts
    <3>2. q \in LockType(k)
      BY <3>1, RemoveWaitingIs DEF WaitingRemoved
    <3> HIDE DEF q
    <3>3. AddGranted(q, t, TypeOf(t)) \in LockType(k)
      BY <3>1, <3>2, AddGrantedIs DEF GrantedAdded
    <3> QED
      BY <2>2, <3>3 DEF q
  <2>4. PICK h : h = IF TypeOf(t) \in HogTypes(k) THEN Min({r.hog + 1, MaxHogs}) ELSE r.hog
    OBVIOUS
  <2>5. h \in Nat
    <3>1. r.hog \in Nat
      BY <2>3, NewHog
    <3>2. r.hog + 1 \in Nat /\ MaxHogs \in Nat
      BY <3>1, HogLimit, SMT
    <3>3. Min({r.hog + 1, MaxHogs}) \in Nat
      BY <3>2, MinOfTwo
    <3> QED
      BY <2>4, <3>1, <3>3
  <2>6. lock' = [lock EXCEPT ![k] = [r EXCEPT !.hog = h]]
    BY <2>1, <2>2, <2>4, SMT
  <2>7. \A u \in lock[k].granted :
            u[1] = d \/ TypeOf(u) \notin GrantedIncompatible(k, TypeOf(t))
    BY <2>1, CanGrantSees
  <2>8. /\ IsWaiting(<<d, n>>) /\ KeyOf(<<d, n>>) = k /\ n = call[d].new
        /\ <<d, n>> \in lock[k].granted \cup Range(lock[k].waiting)
        /\ r = AddGranted(Remove(lock[k], "waiting", <<d, n>>, TypeOf(<<d, n>>)),
                          <<d, n>>, TypeOf(<<d, n>>))
        /\ \A u \in lock[k].granted :
               u[1] = d \/ TypeOf(u) \notin GrantedIncompatible(k, TypeOf(<<d, n>>))
    BY <1>5, <1>7, <1>8, <2>2, <2>7
  <2>9. m_wait_status[d] = "EMPTY" /\ m_wait_status' = [m_wait_status EXCEPT ![d] = "GRANTED"]
    BY <2>1, SMT
  <2> QED
    BY <2>5, <2>6, <2>8, <2>9, GrantWaitingStep
<1> QED
  BY <1>10, <1>11

----------------------------------------------------------------------------
(* The invariant and what follows from it *)

\* Every step preserves the invariant.
LEMMA NextOK ==
  ASSUME IInv, IterOK, [Next]_vars
  PROVE  IInv'
<1>1. ASSUME NEW c \in Ctx, Proceed(c) PROVE IInv'
  BY <1>1, AcquireForUpgradeStep, LockForAcquireStep, AddClonedTicketStep, RemoveTicketStep,
     DowngradeTicketStep, RescheduleWaiterStep, RescheduleEndStep, MergeStep, WillWaitForStep,
     WaitEndsStep, DoneWaitingStep, FindDeadlockStep, SetVictimStep, NoLaneSteps DEF Proceed
<1>2. ASSUME NEW c \in Ctx, Timeout(c) \/ Kill(c) \/ Disconnect(c) PROVE IInv'
  BY <1>2, WaitEndsStep
<1> QED
  BY <1>1, <1>2, Stutter, AcquireLockStep, UpgradeSharedLockStep, DowngradeLockStep,
     ReleaseLockStep, RollbackStep DEF Next

\* In the namespaces without fast lanes the lists of every lock are exactly the tickets
\* that the connections' operations put there, however requests, wait timeouts, kills,
\* disconnects and deadlock searches interleave.
THEOREM Invariance == Backup = {} /\ Spec => [](IInv /\ IterOK)
<1>1. Backup = {} /\ Init => IInv /\ IterOK
  BY InitOK
<1>2. (IInv /\ IterOK) /\ [Next]_vars => (IInv /\ IterOK)'
  BY NextOK, IterNext
<1> QED
  BY <1>1, <1>2, PTL DEF Spec

\* The exclusion MDL_lock promises: on tables and schemas no two connections ever own
\* locks that exclude each other.
THEOREM Exclusion == Backup = {} /\ Spec => []GrantedCompatible
<1>1. ASSUME IInv PROVE GrantedCompatible
  <2>1. SUFFICES ASSUME NEW k \in Key, NEW t \in Owned(k), NEW u \in Owned(k), t[1] # u[1]
                 PROVE  TypeOf(t) \notin GrantedIncompatible(k, TypeOf(u))
    BY DEF GrantedCompatible
  <2>2. t \in lock[k].granted /\ u \in lock[k].granted
    BY <1>1 DEF Owned, IInv
  <2>3. Compatible(k, lock[k].granted, types) /\ lock[k].granted \in SUBSET Ticket
    BY <1>1, LockFacts
  <2> QED
    BY <2>1, <2>2, <2>3 DEF Compatible, types
<1> QED
  BY <1>1, Invariance, PTL

\* As long as no client goes away while its connection waits, the bitmaps and the
\* counters by which can_grant_lock() decides describe the lists.
THEOREM Bitmaps == Backup = {} /\ Disconnecting = {} /\ Spec => []BitmapsExact
<1>1. ASSUME Disconnecting = {}, IInv PROVE BitmapsExact
  BY <1>1, ExactBitmaps
<1> SUFFICES ASSUME Disconnecting = {} PROVE Backup = {} /\ Spec => []BitmapsExact
  OBVIOUS
<1>2. IInv /\ IterOK => BitmapsExact
  BY <1>1
<1> QED
  BY <1>2, Invariance, PTL

\* "DBUG_ASSERT(m_wait.get_status() == MDL_wait::EMPTY)" of acquire_lock() holds: neither
\* reschedule_waiters() nor a deadlock search of another connection writes to the slot
\* of a context after its wait is over.
THEOREM WaitSlots == Backup = {} /\ Spec => []SlotEmptyWhenNotWaiting
<1>1. ASSUME Backup = {}, Init PROVE SlotOK
  BY <1>1, NoCtxOutside, SMT DEF Init, SlotOK
<1>2. IInv /\ IterOK /\ SlotOK => SlotEmptyWhenNotWaiting
  <2>1. SUFFICES ASSUME IInv, SlotOK, NEW c \in Ctx,
                        pc[c] \in {"idle", "upgrade", "fast", "lock", "clone", "merge"}
                 PROVE  m_wait_status[c] = "EMPTY"
    BY DEF SlotEmptyWhenNotWaiting
  <2>2. pc[c] # "fast"
    BY <2>1, CtxFacts DEF PCs, WaitPC
  <2> QED
    BY <2>1, <2>2, SlotIsEmpty
<1>3. IInv /\ IterOK /\ SlotOK /\ [Next]_vars => SlotOK'
  BY SlotsNext
<1>4. Backup = {} /\ Init => SlotOK
  BY <1>1
<1> QED
  BY <1>2, <1>3, <1>4, Invariance, PTL DEF Spec
=============================================================================
