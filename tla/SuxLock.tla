------------------------------- MODULE SuxLock -------------------------------
(***************************************************************************)
(* InnoDB's sux_lock (storage/innobase/include/sux_lock.h), the recursive  *)
(* latch of buffer pages and index trees, over the contract Latch of the   *)
(* ssux_lock_impl inside it, and its callers: mini-transactions, which     *)
(* remember what they latched and release it in reverse order              *)
(* (mtr/mtr0mtr.cc), and page I/O, whose latch another thread releases.    *)
(*                                                                         *)
(* writer and recursive are not part of the inner latch: every access to   *)
(* them is a step of its own.  A thread compares writer with its own id    *)
(* before it has any latch, while other threads change it.                 *)
(***************************************************************************)
EXTENDS Integers, Sequences, FiniteSets

CONSTANTS
    Thread,
    NoThread,     \* writer = 0
    FOR_IO,       \* the owner of a latch that the I/O completion releases
    RECURSIVE_U,  \* the multiplier of U latches in recursive; 2^16 in the code
    MaxDepth      \* bound on the latches one mini-transaction takes

ASSUME SuxConstants ==
    /\ NoThread \notin Thread /\ FOR_IO \notin Thread /\ FOR_IO # NoThread
    /\ RECURSIVE_U \in Nat /\ MaxDepth \in 1..RECURSIVE_U - 2

RECURSIVE_X == 1
RECURSIVE_MAX == RECURSIVE_U - 1

VARIABLES
    holdS, holdW,  \* the inner latch; FOR_IO stands for the page I/O
    writer, recursive,
    pc,            \* where a thread is in an operation
    slot,          \* the latch mode the operation is about
    memo,          \* the m_memo entries of each thread's mini-transaction
    io             \* the page I/O in flight: "none", the mode of its latch, or
                   \* "claimed" for a read whose latch recovery took over

latch == <<holdS, holdW>>
vars == <<latch, writer, recursive, pc, slot, memo, io>>

Holder == Thread \cup {FOR_IO}
L == INSTANCE Latch WITH Thread <- Holder

Init ==
    /\ L!Init
    /\ writer = NoThread /\ recursive = 0
    /\ pc = [t \in Thread |-> "idle"]
    /\ slot = [t \in Thread |-> "none"]
    /\ memo = [t \in Thread |-> <<>>]
    /\ io = "none"

Goto(t, label) == pc' = [pc EXCEPT ![t] = label]
Multiplier(mode) == IF mode = "U" THEN RECURSIVE_U ELSE RECURSIVE_X
XCount == recursive % RECURSIVE_U
Has(t, mode) == \E i \in DOMAIN memo[t] : memo[t][i] = mode
MemoPush(t, mode) == memo' = [memo EXCEPT ![t] = Append(@, mode)]
MemoPop(t) == memo' = [memo EXCEPT ![t] = SubSeq(@, 1, Len(@) - 1)]
MayLatch(t) == pc[t] = "idle" /\ Len(memo[t]) < MaxDepth

----------------------------------------------------------------------------
(* Acquiring *)

\* s_lock() and s_lock_try(), with their assertions !have_x() and !have_s()
SLock(t) ==
    /\ MayLatch(t) /\ ~Has(t, "S") /\ ~Has(t, "X")
    /\ writer = t => XCount = 0
    /\ L!GrantS(t)
    /\ MemoPush(t, "S")
    /\ UNCHANGED <<writer, recursive, pc, slot, io>>

\* writer_recurse() in u_lock(), u_lock_try(), x_lock(), x_lock_try() and
\* x_lock_upgraded() of a thread that finds itself to be the owner
Recurse(t, mode) ==
    /\ MayLatch(t)
    /\ writer = t
    /\ mode = "X" => XCount # 0
    /\ recursive' = recursive + Multiplier(mode)
    /\ MemoPush(t, mode)
    /\ UNCHANGED <<latch, writer, pc, slot, io>>

\* The same calls of a thread that is not the owner: the inner latch is granted.
FirstLatch(t, h, mode) ==
    /\ MayLatch(t) /\ memo[t] = <<>>
    /\ writer # t
    /\ IF mode = "U" THEN L!GrantU(h) ELSE L!GrantX(h)
    /\ slot' = [slot EXCEPT ![t] = mode]
    /\ Goto(t, IF h = t THEN "granted" ELSE "granted_io")
    /\ UNCHANGED <<writer, recursive, memo, io>>

UOrXLock(t, mode) == FirstLatch(t, t, mode)

\* x_lock(true) for a page read, u_lock_try(true) for a page write
LatchForIO(t, mode) == FirstLatch(t, FOR_IO, mode)

\* recursive= RECURSIVE_X or RECURSIVE_U
SetRecursive(t) ==
    /\ pc[t] \in {"granted", "granted_io"}
    /\ recursive' = Multiplier(slot[t])
    /\ Goto(t, IF pc[t] = "granted" THEN "set_owner" ELSE "set_owner_io")
    /\ UNCHANGED <<latch, writer, slot, memo, io>>

\* set_first_owner(for_io ? FOR_IO : id)
SetFirstOwner(t) ==
    /\ \/ /\ pc[t] = "set_owner"
          /\ writer' = t
          /\ MemoPush(t, slot[t])
          /\ UNCHANGED io
       \/ /\ pc[t] = "set_owner_io"
          /\ writer' = FOR_IO
          /\ io' = slot[t]
          /\ UNCHANGED memo
    /\ slot' = [slot EXCEPT ![t] = "none"]
    /\ Goto(t, "idle")
    /\ UNCHANGED <<latch, recursive>>

----------------------------------------------------------------------------
(* Converting *)

AllTo(t, mode) == [memo EXCEPT ![t] = [i \in DOMAIN memo[t] |-> mode]]

\* x_lock_upgraded() and u_x_upgrade() of an owner of U latches only; the
\* mini-transaction turns all its U entries into X (mtr_t::page_lock_upgrade).
UXUpgrade(t) ==
    /\ pc[t] = "idle" /\ ~Has(t, "S") /\ memo[t] # <<>>
    /\ writer = t /\ XCount = 0
    /\ L!UpgradeU(t)
    /\ Goto(t, "upgraded")
    /\ UNCHANGED <<writer, recursive, slot, memo, io>>

\* MUTANT of UXUpgraded: the count of U latches is lost.
UXUpgradedToOne(t) ==
    /\ pc[t] = "upgraded"
    /\ recursive' = RECURSIVE_X
    /\ memo' = AllTo(t, "X")
    /\ Goto(t, "idle")
    /\ UNCHANGED <<latch, writer, slot, io>>

UXUpgraded(t) ==
    /\ pc[t] = "upgraded"
    /\ recursive' = recursive \div RECURSIVE_U
    /\ memo' = AllTo(t, "X")
    /\ Goto(t, "idle")
    /\ UNCHANGED <<latch, writer, slot, io>>

\* x_u_downgrade(): recursive*= RECURSIVE_U, then wr_u_downgrade()
XUDowngrade(t) ==
    /\ pc[t] = "idle" /\ memo[t] = <<"X">>
    /\ writer = t /\ recursive <= RECURSIVE_MAX /\ holdW[t] = "X"
    /\ recursive' = recursive * RECURSIVE_U
    /\ Goto(t, "downgrade")
    /\ UNCHANGED <<latch, writer, slot, memo, io>>

XUDowngraded(t) ==
    /\ pc[t] = "downgrade"
    /\ L!DowngradeX(t)
    /\ memo' = AllTo(t, "U")
    /\ Goto(t, "idle")
    /\ UNCHANGED <<writer, recursive, slot, io>>

\* u_s_downgrade(): recursive= 0, set_new_owner(0), u_rd_downgrade()
USDowngrade(t) ==
    /\ pc[t] = "idle" /\ memo[t] = <<"U">>
    /\ writer = t /\ recursive = RECURSIVE_U
    /\ recursive' = 0
    /\ Goto(t, "u_s_owner")
    /\ UNCHANGED <<latch, writer, slot, memo, io>>

USOwner(t) ==
    /\ pc[t] = "u_s_owner"
    /\ writer' = NoThread
    /\ Goto(t, "u_s_latch")
    /\ UNCHANGED <<latch, recursive, slot, memo, io>>

USDowngraded(t) ==
    /\ pc[t] = "u_s_latch"
    /\ L!DowngradeU(t)
    /\ memo' = AllTo(t, "S")
    /\ Goto(t, "idle")
    /\ UNCHANGED <<writer, recursive, slot, io>>

\* s_x_upgrade_try(): rd_u_upgrade_try(), claim_ownership(), s_unlock(),
\* u_wr_upgrade(), recursive= RECURSIVE_X.  When the first fails, s_x_upgrade()
\* is a release of S followed by x_lock().
SXUpgrade(t) ==
    /\ pc[t] = "idle" /\ memo[t] = <<"S">>
    /\ L!GrantU(t)
    /\ Goto(t, "s_x_owner")
    /\ UNCHANGED <<writer, recursive, slot, memo, io>>

\* MUTANT of SXOwner: no claim_ownership()
SXOwnerNot(t) ==
    /\ pc[t] = "s_x_owner"
    /\ Goto(t, "s_x_unlock")
    /\ UNCHANGED <<latch, writer, recursive, slot, memo, io>>

SXOwner(t) ==
    /\ pc[t] = "s_x_owner"
    /\ writer' = t
    /\ Goto(t, "s_x_unlock")
    /\ UNCHANGED <<latch, recursive, slot, memo, io>>

SXUnlock(t) ==
    /\ pc[t] = "s_x_unlock"
    /\ L!ReleaseS(t)
    /\ Goto(t, "s_x_upgrade")
    /\ UNCHANGED <<writer, recursive, slot, memo, io>>

\* MUTANT of SXUpgraded: no u_wr_upgrade()
SXUpgradedNot(t) ==
    /\ pc[t] = "s_x_upgrade"
    /\ Goto(t, "s_x_recursive")
    /\ UNCHANGED <<latch, writer, recursive, slot, memo, io>>

SXUpgraded(t) ==
    /\ pc[t] = "s_x_upgrade"
    /\ L!UpgradeU(t)
    /\ Goto(t, "s_x_recursive")
    /\ UNCHANGED <<writer, recursive, slot, memo, io>>

SXRecursive(t) ==
    /\ pc[t] = "s_x_recursive"
    /\ recursive' = RECURSIVE_X
    /\ memo' = AllTo(t, "X")
    /\ Goto(t, "idle")
    /\ UNCHANGED <<latch, writer, slot, io>>

----------------------------------------------------------------------------
(* Releasing *)

PhysicalHolder(t) == IF holdW[FOR_IO] # "none" THEN FOR_IO ELSE t

\* u_or_x_unlock(): one latch less; the last one erases the owner and then
\* releases the inner latch in the mode that the caller names.
Unlock(t, mode) ==
    /\ recursive' = recursive - Multiplier(mode)
    /\ slot' = [slot EXCEPT ![t] = IF recursive' = 0 THEN mode ELSE "none"]
    /\ Goto(t, IF recursive' = 0 THEN "clear_owner" ELSE "idle")
    /\ UNCHANGED <<latch, writer>>

\* MUTANT of Release: the oldest entry goes first.
ReleaseOldest(t) ==
    /\ pc[t] = "idle" /\ memo[t] # <<>>
    /\ memo' = [memo EXCEPT ![t] = Tail(@)]
    /\ IF memo[t][1] = "S"
       THEN L!ReleaseS(t) /\ UNCHANGED <<writer, recursive, pc, slot>>
       ELSE Unlock(t, memo[t][1])
    /\ UNCHANGED io

\* mtr_memo_slot_t::release() of the newest entry of the mini-transaction
Release(t) ==
    /\ pc[t] = "idle" /\ memo[t] # <<>>
    /\ MemoPop(t)
    /\ LET mode == memo[t][Len(memo[t])] IN
       IF mode = "S"
       THEN L!ReleaseS(t) /\ UNCHANGED <<writer, recursive, pc, slot>>
       ELSE Unlock(t, mode)
    /\ UNCHANGED io

\* set_new_owner(0)
ClearOwner(t) ==
    /\ pc[t] = "clear_owner"
    /\ writer' = NoThread
    /\ Goto(t, "unlock")
    /\ UNCHANGED <<latch, recursive, slot, memo, io>>

\* lock.u_unlock() or lock.wr_unlock()
UnlockLatch(t) ==
    /\ pc[t] = "unlock"
    /\ L!ReleaseW(PhysicalHolder(t))
    /\ slot' = [slot EXCEPT ![t] = "none"]
    /\ Goto(t, "idle")
    /\ UNCHANGED <<writer, recursive, memo, io>>

----------------------------------------------------------------------------
(* Page I/O *)

\* Crash recovery applies log to a page just read, in the completion of the
\* read: claim_ownership() ...
ClaimOwnership(t) ==
    /\ pc[t] = "idle" /\ memo[t] = <<>>
    /\ io = "X" /\ writer = FOR_IO
    /\ writer' = t
    /\ io' = "claimed"
    /\ Goto(t, "claimed")
    /\ UNCHANGED <<latch, recursive, slot, memo>>

\* ... and x_lock_recursive(), registered in the recovery's mini-transaction
XLockRecursive(t) ==
    /\ pc[t] = "claimed"
    /\ recursive' = recursive + RECURSIVE_X
    /\ MemoPush(t, "X")
    /\ Goto(t, "idle")
    /\ UNCHANGED <<latch, writer, slot, io>>

\* The completion of page I/O: x_unlock(true) or u_unlock(true) by any thread;
\* if recovery claimed the latch, by that thread after its mini-transaction.
IoComplete(t) ==
    /\ pc[t] = "idle" /\ memo[t] = <<>>
    /\ \/ io \in {"U", "X"}
       \/ io = "claimed" /\ writer = t
    /\ Unlock(t, IF io = "U" THEN "U" ELSE "X")
    /\ io' = "none"
    /\ UNCHANGED memo

----------------------------------------------------------------------------

Acquire(t) ==
    \/ SLock(t)
    \/ \E mode \in {"U", "X"} :
           Recurse(t, mode) \/ UOrXLock(t, mode) \/ LatchForIO(t, mode)
    \/ SetRecursive(t) \/ SetFirstOwner(t)

Convert(t) ==
    \/ UXUpgrade(t) \/ UXUpgraded(t)
    \/ XUDowngrade(t) \/ XUDowngraded(t)
    \/ USDowngrade(t) \/ USOwner(t) \/ USDowngraded(t)
    \/ SXUpgrade(t) \/ SXOwner(t) \/ SXUnlock(t) \/ SXUpgraded(t)
    \/ SXRecursive(t)

Give(t) == Release(t) \/ ClearOwner(t) \/ UnlockLatch(t)
PageIO(t) == ClaimOwnership(t) \/ XLockRecursive(t) \/ IoComplete(t)

Next == \E t \in Thread : Acquire(t) \/ Convert(t) \/ Give(t) \/ PageIO(t)
Spec == Init /\ [][Next]_vars

----------------------------------------------------------------------------
(* Properties *)

Count(t, mode) == Cardinality({i \in DOMAIN memo[t] : memo[t][i] = mode})
Claimed(t) == io = "claimed" /\ writer = t

\* have_u_or_x(), have_x() and have_u_not_x() are right whenever a thread may call
\* them: writer, read with no latch at all, names the thread exactly when it has U
\* or X latches to release, and the counter then tells the mode of the inner latch.
OwnerIsRight ==
    \A t \in Thread :
        pc[t] = "idle" =>
            /\ writer = t <=> Has(t, "U") \/ Has(t, "X") \/ Claimed(t)
            /\ writer = t => (XCount # 0 <=> holdW[PhysicalHolder(t)] = "X")

\* recursive counts the latches of the owner: X in the low half, U in the high
\* half, with the latch of a page read that recovery claimed; neither half overflows.
RecursiveCounts ==
    /\ recursive \in 0 .. RECURSIVE_U * RECURSIVE_U - 1
    /\ \A t \in Thread :
          pc[t] = "idle" /\ writer = t =>
              recursive = Count(t, "X") + RECURSIVE_U * Count(t, "U")
                          + IF Claimed(t) THEN RECURSIVE_X ELSE 0

\* The last release calls wr_unlock() on an X latch and u_unlock() on a U latch
\* (the assertion is_write_locked() of ssux_lock_impl::wr_unlock()).
UnlockMatches ==
    \A t \in Thread :
        pc[t] \in {"clear_owner", "unlock"} =>
            holdW[PhysicalHolder(t)] = slot[t]

\* What mini-transactions believe to hold is compatible: X on a page excludes
\* every entry for it of another mini-transaction, U excludes U, and none has a
\* page that is being read into the buffer pool, not even one of the thread that
\* started the read (for_io of x_lock()).
MemosExclude ==
    /\ \A t, u \in Thread : t # u =>
          /\ Has(t, "X") => memo[u] = <<>>
          /\ Has(t, "U") => ~Has(u, "U")
    /\ io = "X" => \A t \in Thread : memo[t] = <<>>
=============================================================================
