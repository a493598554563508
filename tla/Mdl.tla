-------------------------------- MODULE Mdl ---------------------------------
(***************************************************************************)
(* Metadata locking (sql/mdl.cc): contexts acquire, upgrade, downgrade and *)
(* release tickets on locks.  A lock that cannot be granted at once puts   *)
(* the ticket in a queue; whoever removes a ticket grants the queue; a     *)
(* context that starts to wait searches the wait-for graph for a deadlock. *)
(* Light locks of the BACKUP namespace use fast lanes, each with a mutex,  *)
(* instead of the lock's m_rwlock.                                         *)
(*                                                                         *)
(* A step is one critical section.  Sections under m_rwlock that take      *)
(* other mutexes one after the other (the lanes, the wait slots) are       *)
(* several steps, with the context as writer[k] in between.  The locks     *)
(* live as long as the model; their creation and removal are left out.     *)
(***************************************************************************)
EXTENDS Integers, Sequences, FiniteSets, Functions, FiniteSetsExt, MdlTypes

CONSTANTS
    Ctx, NoCtx,         \* MDL_context: one for each connection
    Table, Schema,      \* the keys
    Backup,             \* {} or the key of the BACKUP namespace
    Lane,               \* 0 .. mdl_instances - 1, or {} if lanes are disabled
    ThreadLane,         \* thread_id % mdl_instances of each context
    Requests,           \* the locks each context may ask for: [key, type, duration, wait]
    Upgrades,           \* its calls of upgrade_shared_lock(): [key, from, to]
    Downgrades,         \* its calls of downgrade_lock(): [key, from, to]
    Impatient,          \* the contexts that may time out or be killed
    Disconnecting,      \* the contexts whose client may go away
    MaxTickets,         \* bound on the tickets of a context
    MAX_SEARCH_DEPTH,   \* 32 in the code
    MaxOverweight,      \* bound on m_deadlock_overweight
    max_write_lock_count,
    MaxHogs,            \* bound on m_hog_lock_count; less than max_write_lock_count if
                        \* that is out of reach, as it is by default
    CounterRange        \* m_type_counters are computed modulo this; 2^32 in the code

Key == Table \cup Schema \cup Backup
Slot == 1..MaxTickets
Ticket == Ctx \X Slot
NoTicket == [key |-> "none", type |-> "none", duration |-> "none"]
NoLane == -1
Duration == {"TRANSACTION", "EXPLICIT"}
WaitStatus == {"EMPTY", "GRANTED", "VICTIM", "TIMEOUT", "KILLED"}

VARIABLES
    ticket,             \* MDL_ticket: its key, type and duration
    m_fast_lane,        \* the lane a ticket is in
    lock,               \* MDL_lock: its two lists, their bitmaps and counters
    writer,             \* the context that write-locks m_rwlock over several steps
    lane_list, m_close_count,   \* Lane::m_list and m_close_count
    m_tickets,          \* the transactional tickets of a context, oldest first
    m_wait_status,      \* MDL_wait: the wait slot
    m_waiting_for,      \* whether m_waiting_for is set (to the ticket being acquired)
    m_deadlock_overweight,
    gone,               \* the contexts whose client went away: they begin nothing new
    pc,
    call,               \* the operation, its new and its old ticket, new type, savepoint
    iter,               \* the loop variable of a loop over lanes or over m_waiting
    skip_high_priority,
    wait_status,        \* the local variable of acquire_lock()
    stack, victim       \* the deadlock search: nodes entered, victim

ticketVars == <<ticket, m_fast_lane, m_tickets>>
lockVars == <<lock, writer>>
laneVars == <<lane_list, m_close_count>>
waitVars == <<m_wait_status, m_waiting_for, m_deadlock_overweight, wait_status, gone>>
loopVars == <<iter, skip_high_priority>>
searchVars == <<stack, victim>>
vars == <<ticketVars, lockVars, laneVars, waitVars, pc, call, loopVars, searchVars>>

-----------------------------------------------------------------------------
(* Types and compatibility *)

Rule(k, ofTable, ofSchema, ofBackup) ==
    IF k \in Table THEN ofTable ELSE IF k \in Schema THEN ofSchema ELSE ofBackup

TypesOf(k) == Rule(k, ObjectType, ScopedType, BackupType)

\* A counter of type uint has room for all tickets of a list, and for those that
\* RemoveTicket takes out of the wrong list when the client of a request is gone.
ASSUME MdlConstants ==
    /\ IsFiniteSet(Ctx) /\ NoCtx \notin Ctx
    /\ Lane \subseteq Nat /\ (Lane # {} => 0 \in Lane)
    /\ ThreadLane \in [Ctx -> Lane \cup {NoLane}]
    /\ \A c \in Ctx : \A r \in Requests[c] :
          /\ r.key \in Key /\ r.type \in TypesOf(r.key)
          /\ r.duration \in Duration /\ r.wait \in BOOLEAN
    /\ \A u \in Upgrades \cup Downgrades :
          u.key \in Key /\ {u.from, u.to} \subseteq TypesOf(u.key)
    /\ Disconnecting \subseteq Ctx
    /\ MaxTickets \in Nat \ {0} /\ MAX_SEARCH_DEPTH \in Nat \ {0}
    /\ MaxOverweight \in Nat /\ max_write_lock_count \in Nat \ {0} /\ MaxHogs \in Nat
    /\ CounterRange \in Nat
    /\ Cardinality(Ticket) + Cardinality(Disconnecting) < CounterRange

GrantedIncompatible(k, ty) ==
    Rule(k, ObjectGrantedIncompatible, ScopedGrantedIncompatible,
         BackupGrantedIncompatible)[ty]
WaitingIncompatible(k, ty) ==
    Rule(k, ObjectWaitingIncompatible, ScopedWaitingIncompatible,
         BackupWaitingIncompatible)[ty]
HogTypes(k) == Rule(k, ObjectHogType, {}, {})
HasStrongerOrEqualType(k, has, ty) ==
    GrantedIncompatible(k, ty) \subseteq GrantedIncompatible(k, has)

\* Fast_road::supported_type(); no lane of another namespace is enabled.
Supported(k, ty) == k \in Backup /\ Lane # {} /\ ty \in FastType
ClosesLanes(k, ty) == k \in Backup /\ Lane # {} /\ ty \notin FastType

KeyOf(t) == ticket[t].key
TypeOf(t) == ticket[t].type

\* MDL_ticket::get_deadlock_weight() and MDL_context::get_deadlock_weight().
Weight(c) ==
    LET t == <<c, call[c].new>> IN
    m_deadlock_overweight[c] +
    (IF KeyOf(t) \in Backup
     THEN IF TypeOf(t) = "FTWRL1" THEN DEADLOCK_WEIGHT_FTWRL1 ELSE DEADLOCK_WEIGHT_DDL
     ELSE IF TypeOf(t) \in {"SU", "SRO", "SNW", "SNRW", "X"}
          THEN DEADLOCK_WEIGHT_DDL ELSE DEADLOCK_WEIGHT_DML)

-----------------------------------------------------------------------------
(* MDL_lock::Ticket_list, on the value of a lock; list is "granted" or     *)
(* "waiting".  The lists are intrusive: removing a ticket takes it out of  *)
(* the list it is in, whatever list the counters are adjusted for.         *)

NoCounts(k) == [ty \in TypesOf(k) |-> 0]
EmptyLock(k) ==
    [granted |-> {}, waiting |-> <<>>, hog |-> 0,
     bitmap |-> [granted |-> {}, waiting |-> {}],
     count |-> [granted |-> NoCounts(k), waiting |-> NoCounts(k)]]

\* The list s after the removal of its element e.
Without(s, e) ==
    IF e \notin Range(s) THEN s
    ELSE LET i == CHOOSE i \in DOMAIN s : s[i] = e
         IN  [j \in 1..Len(s) - 1 |-> IF j < i THEN s[j] ELSE s[j + 1]]
IsEmpty(lk) == lk.granted = {} /\ lk.waiting = <<>>

\* The bitmap and the counters after a ticket of type ty is added to, removed from, list.
CountAdd(lk, list, ty) ==
    [lk EXCEPT !.bitmap[list] = @ \cup {ty},
               !.count[list][ty] = (@ + 1) % CounterRange]
\* Mutant: the bit is cleared one removal too late.
CountRemoveLate(lk, list, ty) ==
    [lk EXCEPT !.bitmap[list] = IF lk.count[list][ty] = 0 THEN @ \ {ty} ELSE @,
               !.count[list][ty] = (@ - 1) % CounterRange]

CountRemove(lk, list, ty) ==
    [lk EXCEPT !.bitmap[list] =
                   IF (lk.count[list][ty] - 1) % CounterRange = 0 THEN @ \ {ty} ELSE @,
               !.count[list][ty] = (@ - 1) % CounterRange]

\* Mutant: the bitmap and the counters of m_granted miss the ticket.
AddGrantedUncounted(lk, t, ty) == [lk EXCEPT !.granted = @ \cup {t}]

AddGranted(lk, t, ty) == [CountAdd(lk, "granted", ty) EXCEPT !.granted = @ \cup {t}]
AddWaiting(lk, t, ty) == [CountAdd(lk, "waiting", ty) EXCEPT !.waiting = Append(@, t)]
Remove(lk, list, t, ty) ==
    [CountRemove(lk, list, ty) EXCEPT
         !.granted = @ \ {t}, !.waiting = Without(@, t)]

\* Mutant: one ticket of the same context is taken for all of them.
CanGrantOwner(k, lk, ty, c, ignore_lock_priority) ==
    /\ ignore_lock_priority \/ lk.bitmap.waiting \cap WaitingIncompatible(k, ty) = {}
    /\ \/ lk.bitmap.granted \cap GrantedIncompatible(k, ty) = {}
       \/ \E u \in lk.granted : u[1] = c

\* MDL_lock::can_grant_lock() without Galera.
CanGrant(k, lk, ty, c, ignore_lock_priority) ==
    /\ ignore_lock_priority \/ lk.bitmap.waiting \cap WaitingIncompatible(k, ty) = {}
    /\ \/ lk.bitmap.granted \cap GrantedIncompatible(k, ty) = {}
       \/ \A u \in lk.granted : u[1] = c \/ TypeOf(u) \notin GrantedIncompatible(k, ty)

-----------------------------------------------------------------------------
(* Locks inside the subsystem, and the end of an operation *)

NoCall == [op |-> "none", new |-> 0, old |-> 0, type |-> "none",
           wait |-> FALSE, keep |-> 0]
NewTicket(c) == <<c, call[c].new>>
OldTicket(c) == <<c, call[c].old>>

\* m_rwlock of k and m_LOCK_waiting_for of c, which searches read-lock, are free.
CanRead(k) == writer[k] = NoCtx
CanWrite(k) ==
    /\ writer[k] = NoCtx
    /\ \A d \in Ctx : \A i \in 1..Len(stack[d]) : stack[d][i].key # k
CanUpdateWaitingFor(c) ==
    \A d \in Ctx : victim[d] # c /\ \A i \in 1..Len(stack[d]) : stack[d][i].ctx # c

Goto(c, label) == pc' = [pc EXCEPT ![c] = label]
Return(c) == Goto(c, "idle") /\ call' = [call EXCEPT ![c] = NoCall]

\* The lock was acquired: try_acquire_lock_impl(), end of acquire_lock(), clone_ticket().
Acquired(c) ==
    /\ m_tickets' = IF ticket[NewTicket(c)].duration = "TRANSACTION"
                    THEN [m_tickets EXCEPT ![c] = Append(@, call[c].new)]
                    ELSE m_tickets
    /\ IF call[c].op = "upgrade" THEN Goto(c, "merge") /\ UNCHANGED call ELSE Return(c)

\* Where the release or change of ticket t begins: Fast_road::lane_action().
FirstStep(t, conventional) == IF m_fast_lane[t] # NoLane THEN "lane" ELSE conventional

\* MDL_context::release_lock() removes the ticket from the context; the loop of
\* release_locks_stored_before() goes on with the newest one after the savepoint.
Released(c) ==
    LET rest == Without(m_tickets[c], call[c].old) IN
    /\ ticket' = [ticket EXCEPT ![OldTicket(c)] = NoTicket]
    /\ m_tickets' = [m_tickets EXCEPT ![c] = rest]
    /\ IF call[c].op = "rollback" /\ Len(rest) > call[c].keep
       THEN /\ call' = [call EXCEPT ![c].old = rest[Len(rest)]]
            /\ Goto(c, FirstStep(<<c, rest[Len(rest)]>>, "remove"))
       ELSE Return(c)

-----------------------------------------------------------------------------
(* Requests: MDL_context::try_acquire_lock(), acquire_lock(), upgrade_shared_lock() *)

\* MDL_context::find_ticket().
Found(c, k, ty) ==
    {s \in Slot : /\ ticket[<<c, s>>] # NoTicket
                  /\ KeyOf(<<c, s>>) = k
                  /\ HasStrongerOrEqualType(k, TypeOf(<<c, s>>), ty)}

\* try_acquire_lock_impl(): use a ticket the context has, clone it, or take a new one.
BeginAcquire(c, r, cl) ==
    LET found == Found(c, r.key, r.type)
        reuse == \E s \in found : /\ ticket[<<c, s>>].duration = r.duration
                                  /\ r.duration # "EXPLICIT"
    IN  \/ /\ reuse
           /\ cl.op = "upgrade"
           /\ Goto(c, "merge")
           /\ call' = [call EXCEPT ![c] = cl]
           /\ UNCHANGED <<ticketVars, lockVars, laneVars, waitVars, loopVars, searchVars>>
        \/ /\ ~reuse
           /\ \E s \in Slot :
                 /\ ticket[<<c, s>>] = NoTicket
                 /\ \A p \in Slot : p < s => ticket[<<c, p>>] # NoTicket
                 /\ ticket' = [ticket EXCEPT ![<<c, s>>] =
                        [key |-> r.key, type |-> r.type, duration |-> r.duration]]
                 /\ call' = [call EXCEPT ![c] = [cl EXCEPT !.new = s, !.wait = r.wait]]
           /\ Goto(c, CASE found # {} /\ ClosesLanes(r.key, r.type) -> "clone_close"
                        [] found # {} /\ ~ClosesLanes(r.key, r.type) -> "clone"
                        [] found = {} /\ Supported(r.key, r.type) -> "fast"
                        [] OTHER -> "lock")
           /\ UNCHANGED <<m_fast_lane, m_tickets, lockVars, laneVars, waitVars,
                          loopVars, searchVars>>

AcquireLock(c) ==
    /\ pc[c] = "idle"
    /\ c \notin gone
    /\ \E r \in Requests[c] : BeginAcquire(c, r, [NoCall EXCEPT !.op = "acquire"])

\* upgrade_shared_lock() up to try_fast_upgrade().
UpgradeSharedLock(c) ==
    /\ pc[c] = "idle"
    /\ c \notin gone
    /\ \E u \in Upgrades, s \in Slot :
          /\ ticket[<<c, s>>] # NoTicket
          /\ \E p \in Slot : ticket[<<c, p>>] = NoTicket
          /\ KeyOf(<<c, s>>) = u.key /\ TypeOf(<<c, s>>) = u.from
          /\ u.key \notin Backup => ~HasStrongerOrEqualType(u.key, u.from, u.to)
          /\ call' = [call EXCEPT ![c] =
                         [NoCall EXCEPT !.op = "upgrade", !.old = s, !.type = u.to]]
          /\ Goto(c, FirstStep(<<c, s>>, "upgrade"))
    /\ UNCHANGED <<ticketVars, lockVars, laneVars, waitVars, loopVars, searchVars>>

\* Its acquire_lock() of the new type.
AcquireForUpgrade(c) ==
    /\ pc[c] = "upgrade"
    /\ BeginAcquire(c, [key |-> KeyOf(OldTicket(c)), type |-> call[c].type,
                        duration |-> "TRANSACTION", wait |-> TRUE], call[c])

-----------------------------------------------------------------------------
(* MDL_lock::try_acquire_lock() and add_cloned_ticket() *)

\* Lane::try_acquire_lock().
FastAcquire(c) ==
    /\ pc[c] = "fast"
    /\ LET l == ThreadLane[c] t == NewTicket(c) IN
       IF m_close_count[l] = 0
       THEN /\ lane_list' = [lane_list EXCEPT ![l] = @ \cup {t}]
            /\ m_fast_lane' = [m_fast_lane EXCEPT ![t] = l]
            /\ Acquired(c)
       ELSE Goto(c, "lock") /\ UNCHANGED <<lane_list, m_fast_lane, m_tickets, call>>
    /\ UNCHANGED <<ticket, lockVars, m_close_count, waitVars, loopVars, searchVars>>

\* The decision under m_rwlock.  A refused ticket of a type that closed the lanes
\* is deleted after reopening them.
Decide(c) ==
    LET t == NewTicket(c) k == KeyOf(t) ty == TypeOf(t) IN
    \/ /\ CanGrant(k, lock[k], ty, c, FALSE)
       /\ lock' = [lock EXCEPT ![k] = AddGranted(@, t, ty)]
       /\ writer' = [writer EXCEPT ![k] = NoCtx]
       /\ Acquired(c)
       /\ UNCHANGED ticket
    \/ /\ ~CanGrant(k, lock[k], ty, c, FALSE)
       /\ call[c].wait
       /\ lock' = [lock EXCEPT ![k] = AddWaiting(@, t, ty)]
       /\ writer' = [writer EXCEPT ![k] = NoCtx]
       /\ Goto(c, "will_wait")
       /\ UNCHANGED <<ticket, m_tickets, call>>
    \/ /\ ~CanGrant(k, lock[k], ty, c, FALSE)
       /\ ~call[c].wait
       /\ IF ClosesLanes(k, ty)
          THEN /\ Goto(c, "reopen")
               /\ UNCHANGED <<ticket, writer, call>>
          ELSE /\ ticket' = [ticket EXCEPT ![t] = NoTicket]
               /\ writer' = [writer EXCEPT ![k] = NoCtx]
               /\ Return(c)
       /\ UNCHANGED <<lock, m_tickets>>

\* Lock m_rwlock; a type that is not for lanes closes them first.
LockForAcquire(c) ==
    LET k == KeyOf(NewTicket(c)) IN
    /\ pc[c] = "lock"
    /\ CanWrite(k)
    /\ IF ClosesLanes(k, TypeOf(NewTicket(c)))
       THEN /\ writer' = [writer EXCEPT ![k] = c]
            /\ Goto(c, "close")
            /\ UNCHANGED <<ticket, m_tickets, lock, call>>
       ELSE Decide(c)
    /\ UNCHANGED <<m_fast_lane, laneVars, waitVars, loopVars, searchVars>>

DecideAfterClose(c) ==
    /\ pc[c] = "decide"
    /\ Decide(c)
    /\ UNCHANGED <<m_fast_lane, laneVars, waitVars, loopVars, searchVars>>

-----------------------------------------------------------------------------
(* Fast_road: closing and reopening the lanes one after the other *)

LastLane == Cardinality(Lane) - 1

\* Mutant: the bitmap and the counters of m_granted miss the tickets of the lane.
MoveUncounted(lk, ts) == [lk EXCEPT !.granted = @ \cup ts]

\* The tickets ts of a lane are appended to m_granted.
MoveToGranted(lk, ts) ==
    [lk EXCEPT
        !.granted = @ \cup ts,
        !.bitmap.granted = @ \cup {TypeOf(t) : t \in ts},
        !.count.granted = [ty \in DOMAIN @ |->
            (@[ty] + Cardinality({t \in ts : TypeOf(t) = ty})) % CounterRange]]

\* Lane::close(), called under m_rwlock, or without it by add_cloned_ticket().
CloseLane(c) ==
    LET l == iter[c] ts == lane_list[l] k == KeyOf(NewTicket(c)) IN
    /\ pc[c] \in {"close", "clone_close"}
    /\ m_close_count' = [m_close_count EXCEPT ![l] = @ + 1]
    /\ lock' = [lock EXCEPT ![k] = MoveToGranted(@, ts)]
    /\ lane_list' = [lane_list EXCEPT ![l] = {}]
    /\ m_fast_lane' = [t \in Ticket |-> IF t \in ts THEN NoLane ELSE m_fast_lane[t]]
    /\ IF l < LastLane
       THEN iter' = [iter EXCEPT ![c] = l + 1] /\ UNCHANGED pc
       ELSE /\ Goto(c, IF pc[c] = "close" THEN "decide" ELSE "clone")
            /\ iter' = [iter EXCEPT ![c] = 0]
    /\ UNCHANGED <<ticket, m_tickets, writer, waitVars, call, skip_high_priority, searchVars>>

\* add_cloned_ticket() under m_rwlock.
AddClonedTicket(c) ==
    LET t == NewTicket(c) k == KeyOf(t) IN
    /\ pc[c] = "clone"
    /\ CanWrite(k)
    /\ lock' = [lock EXCEPT ![k] = AddGranted(@, t, TypeOf(t))]
    /\ Acquired(c)
    /\ UNCHANGED <<ticket, m_fast_lane, writer, laneVars, waitVars, loopVars, searchVars>>

\* Mutant: reset_status() is missing after abort_wait().
AfterReopenNoReset(c, k) ==
    IF call[c].op = "upgrade"
    THEN Goto(c, "retype") /\ UNCHANGED <<ticket, m_tickets, writer, m_wait_status, call>>
    ELSE /\ writer' = [writer EXCEPT ![k] = NoCtx]
         /\ UNCHANGED m_wait_status
         /\ CASE call[c].op \in {"release", "rollback"} -> Released(c)
              [] call[c].op = "downgrade" -> Return(c) /\ UNCHANGED <<ticket, m_tickets>>
              [] OTHER -> /\ ticket' = [ticket EXCEPT ![NewTicket(c)] = NoTicket]
                          /\ Return(c)
                          /\ UNCHANGED m_tickets

\* What follows the last reopen() of a critical section: a merge goes on, the other
\* operations unlock m_rwlock and are done with their ticket.
AfterReopen(c, k) ==
    IF call[c].op = "upgrade"
    THEN Goto(c, "retype") /\ UNCHANGED <<ticket, m_tickets, writer, m_wait_status, call>>
    ELSE /\ writer' = [writer EXCEPT ![k] = NoCtx]
         /\ CASE call[c].op \in {"release", "rollback"} ->
                     Released(c) /\ UNCHANGED m_wait_status
              [] call[c].op = "downgrade" ->
                     Return(c) /\ UNCHANGED <<ticket, m_tickets, m_wait_status>>
              [] OTHER ->
                     /\ ticket' = [ticket EXCEPT ![NewTicket(c)] = NoTicket]
                     /\ m_wait_status' = [m_wait_status EXCEPT ![c] = "EMPTY"]
                     /\ Return(c)
                     /\ UNCHANGED m_tickets

\* The lock whose m_rwlock the context works under.
LockKey(c) == KeyOf(IF call[c].new # 0 THEN NewTicket(c) ELSE OldTicket(c))

\* Lane::reopen().
ReopenLane(c) ==
    LET l == iter[c] IN
    /\ pc[c] = "reopen"
    /\ m_close_count' = [m_close_count EXCEPT ![l] = @ - 1]
    /\ IF l < LastLane
       THEN /\ iter' = [iter EXCEPT ![c] = l + 1]
            /\ UNCHANGED <<ticket, m_tickets, writer, m_wait_status, pc, call>>
       ELSE AfterReopen(c, LockKey(c)) /\ iter' = [iter EXCEPT ![c] = 0]
    /\ UNCHANGED <<m_fast_lane, lock, lane_list, m_waiting_for, m_deadlock_overweight,
                   wait_status, gone, skip_high_priority, searchVars>>

-----------------------------------------------------------------------------
(* Releasing and changing tickets *)

\* MDL_context::release_lock() of a ticket with explicit duration.
ReleaseLock(c) ==
    /\ pc[c] = "idle"
    /\ \E s \in Slot :
          /\ ticket[<<c, s>>] # NoTicket
          /\ ticket[<<c, s>>].duration = "EXPLICIT"
          /\ call' = [call EXCEPT ![c] = [NoCall EXCEPT !.op = "release", !.old = s]]
          /\ Goto(c, FirstStep(<<c, s>>, "remove"))
    /\ UNCHANGED <<ticketVars, lockVars, laneVars, waitVars, loopVars, searchVars>>

\* release_transactional_locks() (keep = 0) and rollback_to_savepoint().
RollbackToSavepoint(c, keep) ==
    LET n == Len(m_tickets[c]) IN
    /\ pc[c] = "idle"
    /\ keep < n
    /\ call' = [call EXCEPT ![c] = [NoCall EXCEPT !.op = "rollback", !.keep = keep,
                                                  !.old = m_tickets[c][n]]]
    /\ Goto(c, FirstStep(<<c, m_tickets[c][n]>>, "remove"))
    /\ UNCHANGED <<ticketVars, lockVars, laneVars, waitVars, loopVars, searchVars>>

\* MDL_ticket::downgrade_lock().
DowngradeLock(c) ==
    /\ pc[c] = "idle"
    /\ c \notin gone
    /\ \E d \in Downgrades, s \in Slot :
          /\ ticket[<<c, s>>] # NoTicket
          /\ KeyOf(<<c, s>>) = d.key /\ TypeOf(<<c, s>>) = d.from
          /\ d.from # d.to /\ HasStrongerOrEqualType(d.key, d.from, d.to)
          /\ call' = [call EXCEPT ![c] =
                         [NoCall EXCEPT !.op = "downgrade", !.old = s, !.type = d.to]]
          /\ Goto(c, FirstStep(<<c, s>>, "downgrade"))
    /\ UNCHANGED <<ticketVars, lockVars, laneVars, waitVars, loopVars, searchVars>>

\* Lane::ticket_action(): the lane may have been closed since lane_action() read it.
LaneAction(c) ==
    LET t == OldTicket(c) l == m_fast_lane[t] IN
    /\ pc[c] = "lane"
    /\ CASE l = NoLane ->
              /\ Goto(c, CASE call[c].op = "upgrade" -> "upgrade"
                           [] call[c].op = "downgrade" -> "downgrade"
                           [] OTHER -> "remove")
              /\ UNCHANGED <<ticketVars, lane_list, call>>
         [] l # NoLane /\ call[c].op \in {"release", "rollback"} ->
              /\ lane_list' = [lane_list EXCEPT ![l] = @ \ {t}]
              /\ m_fast_lane' = [m_fast_lane EXCEPT ![t] = NoLane]
              /\ Released(c)
         [] OTHER ->
              /\ ticket' = [ticket EXCEPT ![t].type = call[c].type]
              /\ Return(c)
              /\ UNCHANGED <<m_fast_lane, m_tickets, lane_list>>
    /\ UNCHANGED <<lockVars, m_close_count, waitVars, loopVars, searchVars>>

\* Mutant: a downgrade reopens the lanes too.
EndSectionReopen(c, k, ty) ==
    IF ClosesLanes(k, ty)
    THEN /\ writer' = [writer EXCEPT ![k] = c]
         /\ Goto(c, "reopen")
         /\ UNCHANGED <<ticket, m_tickets, m_wait_status, call>>
    ELSE AfterReopen(c, k)

\* The end of a critical section that removed a ticket of type ty: reopen the lanes.
EndSection(c, k, ty) ==
    IF ClosesLanes(k, ty) /\ call[c].op # "downgrade"
    THEN /\ writer' = [writer EXCEPT ![k] = c]
         /\ Goto(c, "reopen")
         /\ UNCHANGED <<ticket, m_tickets, m_wait_status, call>>
    ELSE AfterReopen(c, k)

\* The beginning of reschedule_waiters() on the lock lk.
BeginReschedule(c, k, lk) ==
    /\ writer' = [writer EXCEPT ![k] = c]
    /\ Goto(c, "resched")
    /\ iter' = [iter EXCEPT ![c] = 1]
    /\ skip_high_priority' = [skip_high_priority EXCEPT ![c] =
           /\ lk.hog >= max_write_lock_count
           /\ lk.bitmap.waiting \ HogTypes(k) # {}]

\* MDL_lock::remove_ticket().  The memory of an empty lock may become the next lock
\* of this key: its counters are not initialised again.
RemoveTicket(c) ==
    LET aborted == call[c].op = "abort"
        t  == IF aborted THEN NewTicket(c) ELSE OldTicket(c)
        k  == KeyOf(t)
        lk == Remove(lock[k], IF aborted THEN "waiting" ELSE "granted", t, TypeOf(t))
    IN
    /\ pc[c] = "remove"
    /\ CanWrite(k)
    /\ IF IsEmpty(lk)
       THEN /\ \E empty \in IF k \in Backup THEN {lk} ELSE {lk, EmptyLock(k)} :
                  lock' = [lock EXCEPT ![k] = empty]
            /\ EndSection(c, k, TypeOf(t))
            /\ UNCHANGED loopVars
       ELSE /\ lock' = [lock EXCEPT ![k] = lk]
            /\ BeginReschedule(c, k, lk)
            /\ UNCHANGED <<ticket, m_tickets, m_wait_status, call>>
    /\ UNCHANGED <<m_fast_lane, laneVars, m_waiting_for, m_deadlock_overweight,
                   wait_status, gone, searchVars>>

\* MDL_lock::downgrade().
DowngradeTicket(c) ==
    LET t  == OldTicket(c)
        k  == KeyOf(t)
        lk == AddGranted(Remove(lock[k], "granted", t, TypeOf(t)), t, call[c].type)
    IN
    /\ pc[c] = "downgrade"
    /\ CanWrite(k)
    /\ lock' = [lock EXCEPT ![k] = lk]
    /\ ticket' = [ticket EXCEPT ![t].type = call[c].type]
    /\ BeginReschedule(c, k, lk)
    /\ UNCHANGED <<m_fast_lane, m_tickets, laneVars, waitVars, call, searchVars>>

\* What reschedule_waiters() does with the request iter points at; hogs is what is
\* added to the count of hogs and next to iter when it is granted.
RescheduleOne(c, hogs, next) ==
    LET k  == LockKey(c)
        lk == lock[k]
        t  == lk.waiting[iter[c]]
        ty == TypeOf(t)
    IN
    /\ pc[c] = "resched"
    /\ iter[c] <= Len(lk.waiting)
    /\ IF /\ ~(skip_high_priority[c] /\ ty \in HogTypes(k))
          /\ CanGrant(k, lk, ty, t[1], skip_high_priority[c])
          /\ m_wait_status[t[1]] = "EMPTY"
       THEN /\ m_wait_status' = [m_wait_status EXCEPT ![t[1]] = "GRANTED"]
            /\ lock' = [lock EXCEPT ![k] =
                  [AddGranted(Remove(lk, "waiting", t, ty), t, ty) EXCEPT
                      !.hog = IF ty \in HogTypes(k) THEN Min({@ + hogs, MaxHogs}) ELSE @]]
            /\ iter' = [iter EXCEPT ![c] = @ + next]
       ELSE iter' = [iter EXCEPT ![c] = @ + 1] /\ UNCHANGED <<m_wait_status, lock>>
    /\ UNCHANGED <<ticketVars, writer, laneVars, m_waiting_for, m_deadlock_overweight,
                   wait_status, gone, pc, call, skip_high_priority, searchVars>>

\* Mutants: the loop skips the request after one it granted; hogs are not counted.
RescheduleSkipping(c) == RescheduleOne(c, 1, 1)
RescheduleUncounted(c) == RescheduleOne(c, 0, 0)

\* The loop of reschedule_waiters(): grant the request iter points at, if possible.
RescheduleWaiter(c) == RescheduleOne(c, 1, 0)

\* The end of reschedule_waiters() and of its caller.
RescheduleEnd(c) ==
    LET k == LockKey(c) IN
    /\ pc[c] = "resched"
    /\ iter[c] > Len(lock[k].waiting)
    /\ lock' = IF lock[k].bitmap.waiting \ HogTypes(k) = {}
               THEN [lock EXCEPT ![k].hog = 0] ELSE lock
    /\ EndSection(c, k, TypeOf(IF call[c].op = "abort" THEN NewTicket(c) ELSE OldTicket(c)))
    /\ iter' = [iter EXCEPT ![c] = 0]
    /\ skip_high_priority' = [skip_high_priority EXCEPT ![c] = FALSE]
    /\ UNCHANGED <<m_fast_lane, laneVars, m_waiting_for, m_deadlock_overweight,
                   wait_status, gone, searchVars>>

\* MDL_lock::upgrade(): the lists after the new ticket (if any, and not in a lane) is
\* taken out and the old one gets the new type; upgrade_shared_lock() deletes the former.
Retype(c) ==
    LET old == OldTicket(c)
        new == NewTicket(c)
        k   == KeyOf(old)
        lk  == IF call[c].new # 0 /\ m_fast_lane[new] = NoLane
               THEN Remove(lock[k], "granted", new, TypeOf(new)) ELSE lock[k]
    IN
    /\ lock' = [lock EXCEPT ![k] =
                   AddGranted(Remove(lk, "granted", old, TypeOf(old)), old, call[c].type)]
    /\ ticket' = [t \in Ticket |->
                     IF t = old THEN [ticket[t] EXCEPT !.type = call[c].type]
                     ELSE IF t = new THEN NoTicket ELSE ticket[t]]
    /\ m_fast_lane' = [t \in Ticket |-> IF t = new THEN NoLane ELSE m_fast_lane[t]]
    /\ lane_list' = [l \in Lane |-> lane_list[l] \ {new}]
    /\ m_tickets' = [m_tickets EXCEPT ![c] = Without(@, call[c].new)]
    /\ writer' = [writer EXCEPT ![k] = NoCtx]
    /\ Return(c)

\* Mutant: the lanes the new ticket closed are not reopened.
MergeNoReopen(c) ==
    /\ pc[c] = "merge"
    /\ CanWrite(KeyOf(OldTicket(c)))
    /\ Retype(c)
    /\ UNCHANGED <<m_close_count, waitVars, loopVars, searchVars>>

Merge(c) ==
    LET new == NewTicket(c) k == KeyOf(OldTicket(c)) IN
    /\ pc[c] = "merge"
    /\ CanWrite(k)
    /\ IF call[c].new # 0 /\ ClosesLanes(k, call[c].type)
       THEN /\ writer' = [writer EXCEPT ![k] = c]
            /\ Goto(c, "reopen")
            /\ UNCHANGED <<ticketVars, lock, lane_list, call>>
       ELSE Retype(c)
    /\ UNCHANGED <<m_close_count, waitVars, loopVars, searchVars>>

RetypeAfterReopen(c) ==
    /\ pc[c] = "retype"
    /\ Retype(c)
    /\ UNCHANGED <<m_close_count, waitVars, loopVars, searchVars>>

-----------------------------------------------------------------------------
(* Waiting: the second half of MDL_context::acquire_lock() *)

\* will_wait_for(), before find_deadlock().
WillWaitFor(c) ==
    /\ pc[c] = "will_wait"
    /\ CanUpdateWaitingFor(c)
    /\ m_waiting_for' = [m_waiting_for EXCEPT ![c] = TRUE]
    /\ Goto(c, "search")
    /\ UNCHANGED <<ticketVars, lockVars, laneVars, m_wait_status, m_deadlock_overweight,
                   wait_status, gone, call, loopVars, searchVars>>

\* timed_wait() returns status; slot is what it leaves in the wait slot.
WaitReturns(c, status, slot) ==
    /\ pc[c] = "wait"
    /\ wait_status' = [wait_status EXCEPT ![c] = status]
    /\ m_wait_status' = [m_wait_status EXCEPT ![c] = slot]
    /\ Goto(c, "done")
    /\ UNCHANGED <<ticketVars, lockVars, laneVars, m_waiting_for, m_deadlock_overweight,
                   call, loopVars, searchVars>>

WaitEnds(c) ==
    /\ m_wait_status[c] # "EMPTY"
    /\ WaitReturns(c, m_wait_status[c], m_wait_status[c])
    /\ UNCHANGED gone

Timeout(c) ==
    /\ c \in Impatient
    /\ m_wait_status[c] = "EMPTY"
    /\ WaitReturns(c, "TIMEOUT", "TIMEOUT")
    /\ UNCHANGED gone

Kill(c) ==
    /\ c \in Impatient
    /\ m_wait_status[c] = "EMPTY"
    /\ WaitReturns(c, "KILLED", "KILLED")
    /\ UNCHANGED gone

\* A short wait ended and thd_is_connected() is false: the slot stays as it is.
Disconnect(c) ==
    /\ c \in Disconnecting
    /\ m_wait_status[c] = "EMPTY"
    /\ WaitReturns(c, "TIMEOUT", "EMPTY")
    /\ gone' = gone \cup {c}

\* done_waiting_for(); a request that was not granted is taken out of the queue next.
DoneWaiting(c) ==
    /\ pc[c] = "done"
    /\ CanUpdateWaitingFor(c)
    /\ m_waiting_for' = [m_waiting_for EXCEPT ![c] = FALSE]
    /\ wait_status' = [wait_status EXCEPT ![c] = "EMPTY"]
    /\ IF wait_status[c] = "GRANTED"
       THEN /\ m_wait_status' = [m_wait_status EXCEPT ![c] = "EMPTY"]
            /\ Acquired(c)
       ELSE /\ call' = [call EXCEPT ![c].op = "abort"]
            /\ Goto(c, "remove")
            /\ UNCHANGED <<m_wait_status, m_tickets>>
    /\ UNCHANGED <<ticket, m_fast_lane, lockVars, laneVars, m_deadlock_overweight, gone,
                   loopVars, searchVars>>

-----------------------------------------------------------------------------
(* The deadlock search: MDL_context::find_deadlock(), MDL_lock::visit_subgraph() *)

\* The tickets a waiting ticket t waits for, by the lists of its lock.
Blockers(t) ==
    LET k == KeyOf(t) lk == lock[k] IN
    {u \in lk.granted : u[1] # t[1] /\ TypeOf(u) \in GrantedIncompatible(k, TypeOf(t))}
    \cup
    {u \in Range(lk.waiting) :
        u[1] # t[1] /\ TypeOf(u) \in WaitingIncompatible(k, TypeOf(t))}

\* opt_change_victim_to() on the way back from the last node of a path to the first.
LightestOf(path) ==
    path[CHOOSE i \in 1..Len(path) : \A j \in 1..Len(path) :
            \/ Weight(path[i]) < Weight(path[j])
            \/ Weight(path[i]) = Weight(path[j]) /\ i <= j]

\* Mutant: the wait slot of the node is not looked at.
VisitGranted(c, d, st) ==
    LET t    == NewTicket(d)
        next == Blockers(t)
        path == [i \in 1..Len(st) + 1 |-> IF i <= Len(st) THEN st[i].ctx ELSE d]
    IN
    IF ~m_waiting_for[d]
    THEN stack' = [stack EXCEPT ![c] = st] /\ UNCHANGED <<victim, pc>>
    ELSE /\ CanRead(KeyOf(t))
         /\ IF Len(path) >= MAX_SEARCH_DEPTH \/ \E u \in next : u[1] = c
            THEN /\ victim' = [victim EXCEPT ![c] = LightestOf(path)]
                 /\ stack' = [stack EXCEPT ![c] = <<>>]
                 /\ Goto(c, "victim")
            ELSE /\ stack' = [stack EXCEPT ![c] =
                        Append(st, [ctx |-> d, key |-> KeyOf(t), todo |-> next])]
                 /\ UNCHANGED <<victim, pc>>

\* Visit the context d from the node on top of st.  It is entered if it waits; then a
\* deadlock is found at an edge back to c or at the maximum depth.
Visit(c, d, st) ==
    LET t    == NewTicket(d)
        next == Blockers(t)
        path == [i \in 1..Len(st) + 1 |-> IF i <= Len(st) THEN st[i].ctx ELSE d]
    IN
    IF ~m_waiting_for[d]
    THEN stack' = [stack EXCEPT ![c] = st] /\ UNCHANGED <<victim, pc>>
    ELSE /\ CanRead(KeyOf(t))
         /\ CASE m_wait_status[d] # "EMPTY" ->
                     /\ stack' = [stack EXCEPT ![c] = st]
                     /\ IF st = <<>> THEN Goto(c, "wait") ELSE UNCHANGED pc
                     /\ UNCHANGED victim
              [] /\ m_wait_status[d] = "EMPTY"
                 /\ Len(path) >= MAX_SEARCH_DEPTH \/ \E u \in next : u[1] = c ->
                     /\ victim' = [victim EXCEPT ![c] = LightestOf(path)]
                     /\ stack' = [stack EXCEPT ![c] = <<>>]
                     /\ Goto(c, "victim")
              [] OTHER ->
                     /\ stack' = [stack EXCEPT ![c] =
                            Append(st, [ctx |-> d, key |-> KeyOf(t), todo |-> next])]
                     /\ UNCHANGED <<victim, pc>>

\* Begin a search at c, go to a node the top node waits for, or leave the top node.
FindDeadlock(c) ==
    LET st == stack[c] n == Len(st) IN
    /\ pc[c] = "search"
    /\ \/ st = <<>> /\ Visit(c, c, <<>>)
       \/ /\ st # <<>>
          /\ \E u \in st[n].todo :
                Visit(c, u[1], [st EXCEPT ![n].todo = @ \ {u}])
       \/ /\ st # <<>>
          /\ st[n].todo = {}
          /\ stack' = [stack EXCEPT ![c] = SubSeq(st, 1, n - 1)]
          /\ IF n = 1 THEN Goto(c, "wait") ELSE UNCHANGED pc
          /\ UNCHANGED victim
    /\ UNCHANGED <<ticketVars, lockVars, laneVars, waitVars, call, loopVars>>

\* Mutant: a search that chooses its own context does not mark the wait slot.
SetVictimOthers(c) ==
    LET v == victim[c] IN
    /\ pc[c] = "victim"
    /\ m_wait_status' = [m_wait_status EXCEPT ![v] =
                             IF @ = "EMPTY" /\ v # c THEN "VICTIM" ELSE @]
    /\ m_deadlock_overweight' =
           [m_deadlock_overweight EXCEPT ![v] = Min({@ + 1, MaxOverweight})]
    /\ victim' = [victim EXCEPT ![c] = NoCtx]
    /\ Goto(c, IF v = c THEN "wait" ELSE "search")
    /\ UNCHANGED <<ticketVars, lockVars, laneVars, m_waiting_for, wait_status, gone, call,
                   loopVars, stack>>

\* set_status(VICTIM), inc_deadlock_overweight(), unlock_deadlock_victim().
SetVictim(c) ==
    LET v == victim[c] IN
    /\ pc[c] = "victim"
    /\ m_wait_status' = [m_wait_status EXCEPT ![v] = IF @ = "EMPTY" THEN "VICTIM" ELSE @]
    /\ m_deadlock_overweight' =
           [m_deadlock_overweight EXCEPT ![v] = Min({@ + 1, MaxOverweight})]
    /\ victim' = [victim EXCEPT ![c] = NoCtx]
    /\ Goto(c, IF v = c THEN "wait" ELSE "search")
    /\ UNCHANGED <<ticketVars, lockVars, laneVars, m_waiting_for, wait_status, gone, call,
                   loopVars, stack>>

-----------------------------------------------------------------------------
Init ==
    /\ ticket = [t \in Ticket |-> NoTicket]
    /\ m_fast_lane = [t \in Ticket |-> NoLane]
    /\ lock = [k \in Key |-> EmptyLock(k)]
    /\ writer = [k \in Key |-> NoCtx]
    /\ lane_list = [l \in Lane |-> {}]
    /\ m_close_count = [l \in Lane |-> 0]
    /\ m_tickets = [c \in Ctx |-> <<>>]
    /\ m_wait_status = [c \in Ctx |-> "EMPTY"]
    /\ m_waiting_for = [c \in Ctx |-> FALSE]
    /\ m_deadlock_overweight = [c \in Ctx |-> 0]
    /\ gone = {}
    /\ pc = [c \in Ctx |-> "idle"]
    /\ call = [c \in Ctx |-> NoCall]
    /\ iter = [c \in Ctx |-> 0]
    /\ skip_high_priority = [c \in Ctx |-> FALSE]
    /\ wait_status = [c \in Ctx |-> "EMPTY"]
    /\ stack = [c \in Ctx |-> <<>>]
    /\ victim = [c \in Ctx |-> NoCtx]

\* A step of an operation that is under way.
Proceed(c) ==
    \/ AcquireForUpgrade(c) \/ FastAcquire(c) \/ LockForAcquire(c) \/ DecideAfterClose(c)
    \/ CloseLane(c) \/ AddClonedTicket(c) \/ ReopenLane(c) \/ LaneAction(c)
    \/ RemoveTicket(c) \/ DowngradeTicket(c) \/ RescheduleWaiter(c) \/ RescheduleEnd(c)
    \/ Merge(c) \/ RetypeAfterReopen(c)
    \/ WillWaitFor(c) \/ WaitEnds(c) \/ DoneWaiting(c)
    \/ FindDeadlock(c) \/ SetVictim(c)

Next ==
    \E c \in Ctx :
        \/ Proceed(c)
        \/ Timeout(c) \/ Kill(c) \/ Disconnect(c)
        \/ AcquireLock(c) \/ UpgradeSharedLock(c) \/ DowngradeLock(c)
        \/ ReleaseLock(c)
        \/ \E keep \in 0..MaxTickets : RollbackToSavepoint(c, keep)

Spec == Init /\ [][Next]_vars

\* A thread that is in an operation goes on, and a connection ends its transaction.
FairSpec ==
    /\ Spec
    /\ \A c \in Ctx : WF_vars(Proceed(c)) /\ WF_vars(RollbackToSavepoint(c, 0))

-----------------------------------------------------------------------------
(* Properties *)

\* The tickets a context owns on k: granted, or in a fast lane.
Owned(k) == lock[k].granted \cup
            (IF k \in Backup THEN UNION {lane_list[l] : l \in Lane} ELSE {})

\* No two connections ever own locks of an object that exclude each other: not in
\* m_granted, not in the lanes, and not one in m_granted and the other in a lane.
GrantedCompatible ==
    \A k \in Key : \A t, u \in Owned(k) :
        t[1] # u[1] => \/ TypeOf(t) \notin GrantedIncompatible(k, TypeOf(u))
                       \/ TypeOf(u) \notin GrantedIncompatible(k, TypeOf(t))

\* In the BACKUP namespace a type may let owners be that it does not let in (FLUSH
\* and DML).  A step gives a connection a lock only if every other owner lets it in,
\* or as a clone of a lock it has.
GrantsCompatible ==
    [][\A k \in Key : \A t \in Owned(k)' \ Owned(k), u \in Owned(k) \cap Owned(k)' :
          \/ t[1] = u[1]
          \/ TypeOf(u)' \notin GrantedIncompatible(k, TypeOf(t)')
          \/ \E o \in Owned(k) : /\ o[1] = t[1]
                                  /\ HasStrongerOrEqualType(k, TypeOf(o), TypeOf(t)')]_vars

\* "Bitmap of types of tickets in this list" (Ticket_list::m_bitmap): the bitmap and
\* the counters of a list describe its tickets.
BitmapsExact ==
    \A k \in Key : \A list \in {"granted", "waiting"} :
        LET ts == IF list = "granted" THEN lock[k].granted ELSE Range(lock[k].waiting)
        IN  /\ lock[k].bitmap[list] = {TypeOf(t) : t \in ts}
            /\ \A ty \in TypesOf(k) :
                  lock[k].count[list][ty] = Cardinality({t \in ts : TypeOf(t) = ty})

\* No request is forgotten: when nobody is inside m_rwlock, a waiting request that
\* was not woken up has an owner or an earlier kind of request in its way, or is
\* passed over for max_write_lock_count.
NoForgottenWaiter ==
    \A k \in Key : writer[k] = NoCtx =>
        \A t \in Range(lock[k].waiting) :
            m_wait_status[t[1]] = "EMPTY" =>
                \/ Blockers(t) # {}
                \/ /\ TypeOf(t) \in HogTypes(k)
                   /\ lock[k].hog >= max_write_lock_count

\* When the searches are over, no set of connections waits for one another with
\* nobody to break the cycle.
NoUndetectedDeadlock ==
    ~\E S \in SUBSET Ctx \ {{}} : \A c \in S :
        /\ pc[c] = "wait" /\ m_wait_status[c] = "EMPTY"
        /\ \E u \in Blockers(NewTicket(c)) : u[1] \in S

\* "DBUG_ASSERT(m_wait.get_status() == MDL_wait::EMPTY)" of acquire_lock(): no late
\* GRANTED or VICTIM is left in the slot of a context that does not wait.
SlotEmptyWhenNotWaiting ==
    \A c \in Ctx : pc[c] \in {"idle", "upgrade", "fast", "lock", "clone", "merge"} =>
                       m_wait_status[c] = "EMPTY"

HeavyTickets(k) == {t \in lock[k].granted \cup Range(lock[k].waiting) :
                      TypeOf(t) \notin FastType}

\* A heavy BACKUP lock, granted or waiting, keeps every lane closed and empty.  A
\* lane is closed once for each heavy ticket and reopened as often: when nobody is
\* closing or opening lanes, none stays closed for a lock that is gone.
LanesClosed ==
    \A k \in Backup : \A l \in Lane :
        /\ lane_list[l] # {} => m_close_count[l] = 0
        /\ writer[k] = NoCtx /\ HeavyTickets(k) # {} => m_close_count[l] > 0
        /\ writer[k] = NoCtx /\ (\A c \in Ctx : pc[c] \notin {"clone_close", "clone"})
             => m_close_count[l] = Cardinality(HeavyTickets(k))

\* add_cloned_ticket() closes the lanes without m_rwlock.  It may do so because the
\* lock it clones keeps them closed: there is nothing to move to m_granted.
CloneMovesNothing ==
    \A c \in Ctx : pc[c] = "clone_close" => \A l \in Lane : lane_list[l] = {}

\* find_deadlock() blames nobody for nothing: unless it gave up at the maximum depth,
\* the victim is on a cycle of contexts none of which was granted its lock.
NoFalseDeadlock ==
    [][\A c \in Ctx :
          /\ victim[c] # victim'[c] /\ victim'[c] # NoCtx
          /\ Len(stack[c]) + 1 < MAX_SEARCH_DEPTH
          => \E S \in SUBSET Ctx :
                /\ {c, victim'[c]} \subseteq S
                /\ \A d \in S : /\ m_waiting_for[d] /\ m_wait_status[d] # "GRANTED"
                                /\ \E u \in Blockers(NewTicket(d)) : u[1] \in S]_vars

\* "Note that it is not an issue if we fail to wake up any pending waiters for weak
\* locks" (reschedule_waiters()): no set of connections waits for one another, counting
\* also that a strong request waits for the weak ones it is made to give way to.  This
\* does not hold when max_write_lock_count is reached (README.md, Findings).
GivesWayTo(t) ==
    LET k == KeyOf(t) IN
    IF TypeOf(t) \in HogTypes(k) /\ lock[k].hog >= max_write_lock_count
    THEN {u \in Range(lock[k].waiting) : TypeOf(u) \notin HogTypes(k)} ELSE {}
NoDeadlockOfGivingWay ==
    ~\E S \in SUBSET Ctx \ {{}} : \A c \in S :
        /\ pc[c] = "wait" /\ m_wait_status[c] = "EMPTY"
        /\ \E u \in Blockers(NewTicket(c)) \cup GivesWayTo(NewTicket(c)) : u[1] \in S

\* "After this many write locks, allow some read locks to run in between" (the option
\* max_write_lock_count): if connections end their transactions, every request is
\* answered, the weak ones too, however many strong ones keep coming.
EveryWaitEnds ==
    \A c \in Ctx : pc[c] = "wait" ~> pc[c] # "wait"
=============================================================================
