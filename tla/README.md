# A TLA+ development of MariaDB Server's concurrency core

This directory models the parts of MariaDB Server on which the durability and
the consistency of data rest and which tests hardly reach: the protocols
between threads. It starts at the bottom of InnoDB, with the latch and the log
write protocol under every commit, goes on to the metadata locks of the SQL
layer, and to what joins the two: group commit of the binary log and the storage
engines with crash recovery, and the ordered commits of parallel replication.

All modules are translated from the source, never from comments; `PROJECT.json`
gives, for each definition, the lines it stands for.

## The system and its parts

| Part | State it keeps | Operations | Modelled by |
|---|---|---|---|
| Group commit lock (`log/log0sync.cc`) | value, pending value, lock flag, list of sleeping waiters, pending callbacks | `acquire`, `set_pending`, `release` | `GroupCommitLock` |
| Redo log write and flush (`log/log0log.cc`) | LSNs of the log, of the last write and of the last flush; `flush_lock`, `write_lock`, `log_sys.latch` | `log_write_up_to`, `write_buf`, `log_flush`, `log_write_and_flush`, resize latching, `set_recovered_lsn` | `LogWrite` |
| Futex latch (`include/srw_lock.h`, `sync/srw_lock.cc`) | two words: a mutex with a count of waiters, a count of readers with a writer flag | S, U and X lock, try, upgrade, downgrade, unlock | `SsuxLock`, contract `Latch` |
| Recursive latch (`include/sux_lock.h`) | the owner, a counter of U and X latches | the same, recursively; ownership by page I/O | `SuxLock` |
| Metadata locks (`sql/mdl.cc`) | per object: granted and waiting tickets, fast lanes; per connection: tickets, wait slot, what it waits for | acquire, clone, upgrade, downgrade, release, grant, time out, deadlock search | `Mdl`, `MdlTypes` |
| Binary log group commit, two-phase commit (`sql/log.cc`, `sql/handler.cc`) | the commit queue, the binary log files and their index, counts of unfinished XIDs per file, checkpoint requests | queue, lead, write and sync, rotate, commit in order, checkpoint, `PURGE`, `RESET MASTER`, recover | `BinlogCommit`, contract `CommitOutcome` |
| Commit ordering, parallel replication (`sql/sql_class.cc`, `sql/rpl_parallel.cc`) | `wait_for_commit` of each event group, counts per batch, last committed group | register, wait, wake, queue with waiters, kill, retry, finish | `ParallelCommit` |
| Semi-synchronous replication (`sql/semisync_master.cc`) | active transactions, reply position, on/off | wait, report, time out, switch | planned |
| Read views and purge (`read/read0read.cc`, `trx/trx0purge.cc`) | active transactions, views | open, close, clone oldest | planned |
| Record locks (`lock/lock0lock.cc`) | lock queues, wait-for edges | lock, wait, grant, deadlock check | planned |
| Doublewrite and flushing (`buf/buf0dblwr.cc`, `buf/buf0flu.cc`) | batches, flush list | add, write, complete, recover | planned |
| Thread pool (`tpool/`) | tasks, workers, timers | submit, wake, retire | planned |

How they interact: a mini-transaction latches pages (`SuxLock` over `SsuxLock`),
appends its log under the shared `log_sys.latch`, and releases its latches. A
commit calls `log_write_up_to()`, which writes and flushes the log for a whole
group of commits under the two group commit locks (`LogWrite` over two
instances of `GroupCommitLock`). The binary log decides which prepared
transactions commit and in which order (`BinlogCommit`); that an engine's prepare
is durable and that an unflushed commit may be lost is what `LogWrite` provides.
On a replica, transactions that are applied in parallel enter that pipeline in
the order of the master (`ParallelCommit`). Metadata locks (`Mdl`) keep table
definitions stable while statements and transactions use them, and hold writes
and DDL back in the stages of a backup.

Parser, optimizer, executor, B-tree and page formats, networking and the other
engines are listed in `PROJECT.json` as not modelled, with the reason: their
state is data that TLC cannot enumerate, or they are input and output.

## Modules

**GroupCommitLock.** One action per critical section of `m_mtx` or per unlocked
atomic access: the spin on value and pending value, the loop test, the four
outcomes under the mutex (expire, take the lock, queue a callback, join the
list), the semaphore, and `release()` followed by its unlocked tail (wake the
leader, run the callbacks, wake the others). The vectors of callbacks are sets
of records with an index; the waiters list is a sequence, and the wakeup list is
linked through the waiters' own `m_next`, as in the code. Spurious returns of
the futex are absorbed by the semaphore's loop. Any caller may use the lock as
`log0log.cc` does: the owner sets a pending value and releases with at least the
value it asked for. `ran` and `asked` are history variables.

**LogWrite.** Two instances of `GroupCommitLock`; the locals of a lock call are
shared since a thread is inside one of them at a time. An LSN is a count of
records. The file is `disk_written`, what fsync has covered is `disk_durable`;
an fsync covers what was in the file when it began. A crash loses at most what
is not in `disk_durable`, and the server starts at any recovered LSN, which is
how `Init` is stated. File operations and shrinking (`write_and_flush`) and
resizing and checkpoints (`resize`) hold both locks and the latch. The end of a
circular or archived log file, the buffers, and the memory-mapped log are left
out.

**Latch** is the contract: S beside S and U, X alone. **SsuxLock** is the code:
every atomic access of the two words and every futex call is a step, spurious
wake-ups are possible at any time, and `FUTEX_WAKE` of one thread wakes any
sleeper. `WRITER` is 2^31 in the code and any number greater than the number of
threads here. The spin loops are the choice to look again in place of sleeping.

**SuxLock** uses `Latch` for the inner latch; loads and stores of `writer` and
`recursive` are steps of their own. Its callers are mini-transactions, which
keep their entries in `memo` and release the newest first (`m_memo.rbegin()`),
and page I/O, whose latch belongs to `FOR_IO` until its completion, or until
crash recovery claims it. `RECURSIVE_U` is 2^16 in the code.

**MdlTypes** holds the types of metadata locks and the six arrays of what waits
for what; a bitmap is a set. **Mdl** is the protocol. A connection is an
`MDL_context` with a program counter; a ticket is named by its owner and a slot.
One action stands for one critical section of a lane's mutex, of the wait slot's
mutex or of `m_rwlock`; a section under `m_rwlock` that takes other mutexes one
by one (closing lanes, granting the queue) is several steps with the connection
as `writer`. Unlocking is part of the last step. Both the reading of
`m_fast_lane` before the lane's mutex (`FirstStep`) and the second look
(`LaneAction`) are modelled, as are the two halves of an upgrade (acquire, then
merge). The counters of a list are kept apart from the list and are computed
modulo `CounterRange`, 2^32 in the code; the lists are intrusive, so that a
ticket can be unlinked from one list and counted in the other. The memory of a
lock that becomes empty may become the next lock of its key, with its counters,
since `lf_hash_initializer()` sets the key and the strategy only; or the next
lock is a fresh one. A deadlock search
holds the nodes it entered (`stack`) read-locked, visits the successors of a node
in any order, and evaluates the weights on the way back in one step. A timeout, a
kill and the loss of the client end a wait in the connections that are
`Impatient` or `Disconnecting`.
Left out: the creation and removal of locks in the hash, the notification of
owners (it kills delayed inserts and aborts waits for table locks), `MDL_STATEMENT`,
changes of duration, and Galera. `acquire_locks()` is no action of its own: it is
`acquire_lock()` in the order of the keys and, on failure, a rollback to a
savepoint, which connections do here in any order. A search
that waits for `m_rwlock` holds the `m_LOCK_waiting_for` it passed, which is not
kept: who holds `m_rwlock` exclusively never takes that lock.

**CommitOutcome** is the contract of a commit: a transaction is in the binary log
and then in each of its engines, in the order of the log for engines with
`commit_ordered`; a client is told of a commit that is in all of them, or of a
failure that is in none. **BinlogCommit** is the code. The binary log is one sequence
of events over all files, with the length that is synced; the InnoDB log is the
sequence of commit records with the length that is flushed. Transactions, the
binlog background thread and an administrator's session run one critical
section per action; `LOCK_log`, `LOCK_after_binlog_sync` and
`LOCK_commit_ordered` are variables with their owner, `LOCK_xid_list` covers one
action. `mark_xid_done()` is called from several places, so that its position is
kept apart in `call`. A crash keeps any part of what is not synced or flushed and
loses the memory; recovery scans from the file that the last checkpoint event
names, gives up if the index does not list that file, and commits or rolls back
what is prepared, in one engine after the other. A file's number stands for its
name and its id. `InnoDB` are the transactions that write in InnoDB, `Legacy` those
that write in an engine without `commit_checkpoint_request` and need `unlog()`; a
transaction may be both. `missed` is a history variable: the last checkpoint event
could not be written. `sync_binlog=1` and
`innodb_flush_log_at_trx_commit=1` are assumed. InnoDB answers checkpoint
requests in the order of their LSNs; its list may be out of order in the code,
which only delays answers. `RESET MASTER` deletes its files in one step, so that
the crash described at `log.cc:5562` is not seen. Recovery runs at every start after
a crash: the flag `LOG_EVENT_BINLOG_IN_USE_F`, without which `do_binlog_recovery()`
skips it (`log.cc:14674`) and which a rotation clears in the old file only after the
new one is in the index (`log.cc:6957`), is not kept. The flush of a group succeeds: the
branch at `log.cc:10890` that gives every entry an error after a failed
`flush_and_sync()`, with events that may be on disk, is left out, and
`ImplementsOutcome` says nothing of it. Also left out: failures of a rotation after
the new file exists, `delayed_error`,
semi-synchronous hooks, commit by rotation, Galera, the binary log inside
InnoDB, and `binlog_optimize_thread_scheduling=OFF`.

**ParallelCommit.** Event group `t` waits for `t-1`. The module keeps the
pointers and lists of `wait_for_commit` as the code does: a waiter is on the list
of its waitee, on the list a waker took along, or in the commit group of a
leader, and takes itself off by hand. `wakeup_subsequent_commits2()` takes the list,
wakes one waiter after the other and clears its flag at the end, with no mutex held
(`BeginWakeup`, `WakeNext`, `EndWakeup`): those woken may go on before that, and one
that registers then is not listed. `committing` is the counter that
`mark_start_commit()` raises and `unmark_start_commit()` lowers.
`LOCK_wait_commit` and
`LOCK_parallel_entry` cover one action each, but for the wait in
`queue_for_group_commit()`, whose mutex is held from the test to the sleep (`arm`).
Batches (`group_commit_orderer`) hold a group back until enough groups have
started to commit, errors pass on through `wakeup_error` and
`stop_on_error_sub_id`. What a leader does between taking the queue and waking
its followers is one write and the ordered loop; the rest is in `BinlogCommit`.
A kill stands for `KILL` and for the kill of a group that holds a row lock an
earlier one needs; it may come at any time, which is more than the code does, or,
with `LateKill = FALSE`, at any time but in a commit that no longer waits for the
prior one.
Left out: the driver thread and its queues, speculative execution and the errors it
turns into deadlocks (`rpl_parallel.cc:817`), `STOP SLAVE`,
the pause of `FLUSH TABLES WITH READ LOCK`, the freeing of
`group_commit_orderer`s, Galera.

The definitions marked as mutants each change one mapped definition the way a
plausible mistake would; they show that a property can fail.

## Runs

| Run | Instance | What it shows |
|---|---|---|
| `group_commit_lock` | 3 threads, 1 callback, values to 2, room for 1 callback in the array | one owner; `EXPIRED` and callbacks never early; each callback is in one place until it runs; each sleeper has one waker; no stall |
| `log_write` | 2 threads, durable and other callers, 1 callback, 1 stopping operation | the flushed LSN is durable; returns and callbacks mean written; the assertions of the locks hold; dropped results are 0; no stall |
| `log_write_live` | 2 threads, 1 record | calls return and callbacks run |
| `ssux_lock` | 3 threads | exclusion, accounting of the words, no lost wake-up, refinement of `Latch`; an announced writer gets in although readers keep coming |
| `sux_lock` | 4 threads, 6 entries | the owner, the counter and the mode agree with the inner latch; memos are compatible with one another and with page reads |
| `mdl_tables` | DML that may time out or be killed, two `ALTER TABLE`s, on a table and its schema; 2 tickets each | owners exclude each other; bitmaps and counters describe the lists; no request is forgotten; no deadlock is missed or invented; the wait slot is clean |
| `mdl_backup` | backup stages; DDL with its copying phase or `FLUSH TABLES WITH READ LOCK`, refused if it would wait; DML; 2 lanes | a lock is granted only if every owner lets it in; lanes are closed and reopened once for each heavy ticket; clones move nothing |
| `mdl_live` | a weak request, whose client may go away, and two connections with strong ones | every wait ends although strong requests keep coming; owners exclude each other in spite of the race described under *Findings* |
| `binlog_commit` | 1 transaction in InnoDB, 1 in InnoDB and another engine, 3 files, 1 crash | what is synced in the binary log can be recovered at every moment, or recovery refuses to start while a checkpoint event is due; the list of files is exact; nothing gets stuck and no file is kept for ever; refinement of `CommitOutcome` |
| `parallel_commit` | 3 event groups in 2 batches, the second group with temporary tables, the first and the third may fail to be written; 1 kill, 1 retry | the binary log has the order of the master with no gap but a failed write; a worker reports an error for a logged group only after a failed write of an earlier one; each waiter is once on one list; every worker ends |
| `parallel_rolled_back` | 2 event groups, the first may fail to be written, a kill at any time | violated: see *Findings* |
| `mdl_stale_bits` | 3 connections on 1 table, one client goes away | violated: see *Findings* |

*Bounds.* Three threads give an owner, a leader-to-be and a third request in
every order; values or LSNs up to 2 distinguish reached, promised and beyond.
`CallbackSlots` of 0 or 1 makes the limit of 950 reachable. Three threads on the
futex latch give a holder and two waiters of different kinds on the same word;
the accounting and the exclusion are proved for any number. Symmetry is over
threads and interchangeable callbacks and is not used with liveness. Deadlock is checked except in the runs of `BinlogCommit` and
`ParallelCommit`, whose transactions are finitely many and end; there `NoStall`
and `EveryoneFinishes` say that they do not end early. Three event groups give a leader, a follower and one of the next batch. In
`binlog_commit`, two transactions make a leader and a follower or two groups that
overlap, and the second one has a part in each engine. Three files make an older
one, one left behind and a current one, so that the choice of the file named by a
first checkpoint matters, and a list that changes while `mark_xid_done()` waits for
`LOCK_log`; `RESET MASTER` can come with two files in the list and threads on their
way to `LOCK_log`. `MaxFlush` leaves the third file to a leader, to `RESET MASTER`
or to recovery: with it also for `FLUSH BINARY LOGS` the run passes too and takes
twice the states.
Three connections give a granted, a pending and a third request in every order,
and two lanes of which one is still open; two tickets are what an upgrade and a deadlock take. `max_write_lock_count` is
`UINT_MAX` by default: runs that are not about it keep `MaxHogs` below it.

*Fairness.* `log_write_live`: weak fairness of each thread's steps inside an
operation; the operating system schedules it and mutexes are held for bounded
times. `ssux_lock`: in addition holders release. `parallel_commit`: weak fairness
of each worker's steps, for the same reason; none for kills. `mdl_live`: in
addition to scheduling, connections, of one ticket each, end their transactions;
nobody times out, so a wait ends by a grant, as a deadlock victim, or with its
client. With connections that are killed and ask again at once, or that keep a
first ticket for ever, `EveryWaitEnds` fails under this fairness: the former can
keep another thread from `m_rwlock`, whose fairness the code does not state. No
fairness is assumed for new calls, log records, or spurious wake-ups.

## Findings

Two runs show that statements in comments do not hold for the code.

* `mdl_stale_bits`: `acquire_lock()` finds the client gone after a short wait and
  sets only its local variable to `TIMEOUT`. The slot stays empty, so
  `reschedule_waiters()` can grant the request; `abort_wait()` then unlinks the
  ticket from `m_granted` with the counters of `m_waiting`, and the counter of
  its type wraps around. The next request of that type that waits sets the bit
  and brings the counter back to 0; its removal wraps it again and leaves the bit
  set. In the run an SRO request then waits although both lists are empty. The
  bit left in `m_granted` does no harm: `can_grant_lock()` looks at the tickets
  before it refuses. Owners still exclude each other (`mdl_live`).
* `parallel_rolled_back`: event group 2 queues behind group 1 as soon as
  `commit_started` of 1 is set, and is in the same commit group. The write of group 1
  fails; the leader goes on and writes group 2, and `commit_ordered()` runs for it.
  Group 2 has been woken with the error of group 1, and returns it from its last
  `wait_for_prior_commit()` (`log.cc:10697`): `ha_commit_trans()` takes the path of a
  rollback for a group that is in the binary log, after a gap, and in the engine. No
  kill is needed. The comment at `sql_class.cc:8650` says that the error of a prior
  commit keeps a transaction from committing. With `MayFail = {}` the same instance
  shows a second way: group 2 registers with group 1 after the leader woke the waiters
  of 1 and before `finish_event_group()` of 1 raises `last_committed_sub_id`, is
  queued, written and committed, and a kill ends its last wait with an error; the
  worker fails or, after a deadlock kill, retries a group that is in the binary log.

`CommitOrder` and `OutcomeIsReported` of `parallel_commit`, where no kill comes after
the wait for the prior commit (`LateKill = FALSE`), state what is left: a gap in the
binary log is a failed write, and a worker reports an error for a group in the log
only if an earlier one could not be written.

Two more were found with the same modules on other instances; no run is kept.

* `RestartIsPossible` of `BinlogCommit` (one InnoDB transaction, two files, no crash,
  12 states): `mark_xid_done()` drops the entry of a file before it has synced the
  checkpoint event that names a newer one, so that `PURGE` may remove the file that
  the last durable checkpoint names. A crash then makes `recover()` refuse to start
  (`log.cc:14428`). The comment at `log.cc:10023` says that the sync of the event
  prevents this. If the event cannot be written the state lasts until the next one,
  whereas the comment at `log.cc:10039` says that the failure "does not compromise
  the ability to do crash recovery". `LoggedIsRecoverable` bounds it: recovery
  refuses to start only while such an event is due (`CheckpointDue`), and loses
  nothing that is in the binary log when it starts.
* `NoDeadlockOfGivingWay` of `Mdl`: with `max_write_lock_count` reached, an upgrade
  from SU to X is passed over for a pending SU, which waits for the SU of the
  upgrading connection. The search knows no such edge: both wait until a timeout.
  It needs a `max_write_lock_count` far below its default.

Two more comments differ from the code. `log0sync.h:46`
says that `acquire()` returns `ACQUIRED` if the value has not been reached; a
leader that `release()` took from the wakeup list gets it when it has, which the
callers tolerate, since they release with at least the value. The matrix at
`mdl.cc:2295` and `mdl.cc:2317` lets `BLOCK_DDL` wait for granted START and DDL
only; the arrays also name FLUSH to WAIT_COMMIT and BLOCK_DDL itself, and a
pending START.

## Proofs

`GroupCommitLockProofs` proves for any sets of threads and callbacks and any
bound on values:

* `Invariance`: the inductive invariant `IInv`, which is the type invariant, the
  fact that a thread between `ACQUIRED` and `release()` excludes every other
  and makes `m_lock` true, and the numbers of callbacks: those in a releaser's
  array have been reached, those pending carry the number that was asked for.
  The properties are not inductive alone: that a callback is not early depends
  on the numbers stored beside it in the two vectors;
* `MutualExclusion` (`OneOwner`), `ExpiredSound` (`ExpiredIsReached`) and
  `CallbackSound` (`CallbackNotEarly`) follow from it;
* `CallbackOnce` (`CallbackConserved`): a callback that was passed to `acquire()` is
  in one place, which is the call that brought it, the vector, the array of a
  `release()`, or among those that have run. The argument follows the one callback
  that a step moves: `LeaveAcquire`, `PushKeepsPlaces`, `ReleaseKeepsPlaces` and
  `RunKeepsPlaces` each show that it leaves one place and arrives at one other. The
  invariant `CInv` adds that only a thread inside `release()` has anything in its
  array; without that, the array that a `release()` fills could be one still in use.

The assumptions are those of `GroupCommitLock` on its constants.

`LogWriteProofs` proves the three safety properties of `LogWrite` that are state
predicates without `ENABLED`, for any sets of threads and callbacks, any bounds on
LSNs and on stops of the log, and any LSN at which recovery ended (`LogConstants`):

* `Invariance`: the inductive invariant `IInv` of `LogWriteLocks`. `Shared` orders
  what the log knows: `f_value` is at most `flushed_to_disk_lsn`, that is at most what
  is durable, and so on to `write_lsn` and `log_lsn`, and the same for the numbers of
  the callbacks in the vectors of the two locks. `Owners` says that each lock has one
  owner. `Thr` says of each thread where it is in both locks at each step of its call
  (`Where`), what it is writing or flushing (`Wrote`), how far its request has been
  served (`Served`), whose callback it carries (`Called`) and what its `release()`
  still has to run (`Releasing`). `FlushedIsDurable` alone is not inductive: that the
  LSN released is one that the fsync covers depends on `write_lock.value()` having
  been read by the owner of `flush_lock`, and on nobody else moving `syncing`.
  A step changes the locals of one thread, so each action has a lemma that its step
  is `Good`: right for that thread, and for the others, what they rely on as owners
  of a lock, of the latch or of a callback stays (`OthersKept`, `ThreadStays`). The
  steps inside the locks are in `LogWriteLocks`, the others in `LogWriteProofs`;
* `Durability` (`FlushedIsDurable`), `NoEarlyAnswer` (`AnsweredMeansWritten`) and
  `NoAssertionFails` (`AssertionsHold`) follow from it.

`SsuxLockProofs` proves for any finite set of threads and any `WRITER` greater than
their number (`SsuxConstants`; 2^31 in the code):

* `CountsAreExact` (`WordsCount`): both words count exactly the threads that hold,
  wait for or are leaving the latch. The inductive invariant `IInv` adds to it what
  a thread's position says about who owns the mutex (`Control`) and that the owner
  is alone (`Discipline`). The argument is one of accounting: a thread's role
  counts for a number in each word, and each action pays into the words what its
  change of role counts for; lemmas about sums and cardinalities reduce this to
  the one thread that moves;
* `LatchExcludes` (`Exclusion`), `TypeCorrect` (the words stay in their ranges, so
  that neither count runs into the flag beside it) and `LatchImplemented`
  (`ImplementsLatch`) follow from it: every step is a step of `Latch` or changes
  nothing in it;
* `SleepersAreWoken` (`NoLostWakeup`): a thread sleeps on a word only while the latch
  is in its way or somebody is about to wake it. The strengthening `WakeInv` names
  those who really will: for the sleepers on `writer`, the owner of the mutex, a thread
  about to wake the next one (an owner that has left, or a reader that queued there and
  has its S latch now), or an enlisted thread that is awake; a thread at the start of a call does not count, since it may leave again
  without having woken anybody. The step that could lose a wake-up is the last
  decrement of `writer` by an owner that sees no waiter, and there the exact counts of
  `IInv` say that there is none.

The four properties of `SuxLock` are proved for any set of threads, any multiplier
`RECURSIVE_U` (2^16 in the code) and any depth of mini-transactions below
`RECURSIVE_MAX` (`SuxConstants`), over the contract that `LatchImplemented` shows
the futex latch to keep:

* `Invariance`: the inductive invariant `IInv`. A thread is *in
  charge* from the grant of U or X, when `writer` does not name it yet, until the
  release of the inner latch, when `writer` has forgotten it; at most one thread is.
  `Busy` says what the counter, the owner, the inner latch and the memo are at each
  intermediate step of an operation, `IdleOwner` what they are between operations,
  and every other thread is a `Bystander` with one S latch or none. When nobody is
  in charge the latch is free or belongs to page I/O. The properties are not
  inductive: they are about states between operations, which depend on what every
  intermediate step leaves behind. One lemma for each action shows that it keeps
  `IInv`; they rest on lemmas about counting the entries of a memo and about the two
  halves of the counter;
* `OwnerRight` (`OwnerIsRight`), `RecursiveRight` (`RecursiveCounts`), `UnlockRight`
  (`UnlockMatches`) and `MemosRight` (`MemosExclude`) follow from it.

Three properties of `Mdl` are proved for locks on tables and schemas (`Backup = {}`),
for any finite set of connections, any keys, requests, upgrades and downgrades, any
number of tickets per connection, any depth of the deadlock search and any
`max_write_lock_count` (`MdlConstants`). A counter of a list (`CounterRange`, 2^32 in
the code) is assumed to have room for all tickets.

* `Invariance`: the inductive invariant `IInv` of `MdlInv`. It says which list a
  ticket is in as a function of what its owner is doing and of its wait slot
  (`IsGranted`, `IsWaiting`), and that the two lists of each lock are exactly that
  (`Lists`); what the arguments of an operation are at each of its steps
  (`Control`); and that the tickets of different owners in `m_granted` are
  compatible. That alone is not inductive. A ticket that is cloned, merged into
  another or downgraded enters the list without a look at it, and is right only
  because its owner already has a lock that is as strong (`Justified`). A ticket
  that is granted is checked against the bitmap only, so that the bitmap must not
  miss a ticket: `GrantedTally` bounds the counters of `m_granted` from below by the
  tickets, and from above by the tickets and the number of clients that went away
  while their request was being granted (`Lost`). Such a
  client leaves a count that is too high, which only delays requests, never one that
  is too low. `IterOK` adds that
  `reschedule_waiters()` looks at an element of the queue;
* `Exclusion` (`GrantedCompatible`), also when clients go away, and `Bitmaps`
  (`BitmapsExact`) when none does, follow from it; the run `mdl_stale_bits` shows
  that `BitmapsExact` needs that hypothesis;
* `WaitSlots` (`SlotEmptyWhenNotWaiting`): a connection starts no wait with an answer
  to an earlier one in its slot. The answer that could come late is that of a
  deadlock search of another connection, which chooses its victim long before it sets
  the slot. The strengthening `SlotOK` follows the path of each search: its
  contexts, and the victim, are still announced as waiting, since the search holds
  the locks on their `m_waiting_for`. That a search finds a victim on its path needs
  that a finite path has a lightest context, which is proved from the
  well-foundedness of the natural numbers (`Least`, `Lightest`).

`MdlInv` has the invariants, the initial state, the steps of the loop of
`reschedule_waiters()` and of the wait slots, lemmas on lists, counters and bitmaps, and
what a step has to show of the locks it does not touch; `MdlSteps` the steps of a
connection that acquires and waits, and the beginning of a release; `MdlProofs` the end
of a release, changes of the type of a ticket, `reschedule_waiters()`, and the theorems.

Model-checked only:

* liveness, and the absence of stalls (`NoStall` of `GroupCommitLock`, `LogWrite` and
  `BinlogCommit`), which uses `ENABLED`: out of the prover's reach;
* `SleeperHasOneWaker` of `GroupCommitLock`, and the properties of `BinlogCommit` and
  `ParallelCommit`: their lists are split with `SelectSeq`, which is defined by
  recursion. What it computes for every list would have to be shown by induction
  first, for which the prover's induction theorems cannot be used as they stand;
* the remaining properties of `Mdl`. `NoForgottenWaiter`, `NoUndetectedDeadlock` and
  `NoFalseDeadlock` are about paths of waits through any number of connections.
  `LanesClosed`, `CloneMovesNothing` and `GrantsCompatible` are about the BACKUP
  namespace, whose lanes the invariant leaves out.

## Plan

1. Extend the invariant of `Mdl` to the lanes of the BACKUP namespace.
2. `SemiSync` (acknowledgements against timeouts) between `BinlogCommit` and the
   replica; `ReadView` and purge; record lock waits; doublewrite; thread pool.
3. The creation and removal of metadata locks in the hash; changes of duration.

## Not modelled

`PROJECT.json` lists every part with the reason. In short: semi-synchronous
replication, read views and purge, record locks, doublewrite and the thread pool
are systems of their own, on the plan above; the parser, the optimizer, B-trees,
page formats and the parsing of redo log are sequential work on data that TLC
cannot enumerate; networking, plug-ins and clients are input and output; other
storage engines bring their own files and locks.
