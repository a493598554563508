---------------------------- MODULE BinlogCommit ----------------------------
(***************************************************************************)
(* Two-phase commit between the binary log and the storage engines         *)
(* (sql/log.cc): group commit, rotation, the XID count list that decides   *)
(* from which file crash recovery has to scan, binlog checkpoints, PURGE   *)
(* and RESET MASTER, a crash at any point, and recovery.                   *)
(*                                                                         *)
(* A transaction prepares durably in its engine, is written to the binary  *)
(* log by the leader of its group, and is then committed in the engine.    *)
(* InnoDB runs commit_ordered in the order of the binary log and does not  *)
(* flush; another engine, called legacy here, has no                       *)
(* commit_checkpoint_request, flushes in commit, and needs unlog().  A     *)
(* transaction may write in one of them or in both.                        *)
(* sync_binlog=1 and innodb_flush_log_at_trx_commit=1 are assumed.         *)
(***************************************************************************)
EXTENDS Integers, Sequences, FiniteSets, SequencesExt, FiniteSetsExt

CONSTANTS Trx,                 \* transactions, each committed once
          InnoDB,              \* those that write in InnoDB
          Legacy,              \* those that write in an engine that needs unlog()
          Bg,                  \* the binlog background thread
          Adm,                 \* a session running FLUSH, PURGE, RESET MASTER
          None,                \* no owner of a mutex
          MaxFile,             \* bound: binary log files ever created
          MaxFlush,            \* bound: the last file FLUSH BINARY LOGS creates
          MaxCrash             \* bound: crashes

ASSUME ConstantsOK == /\ InnoDB \cup Legacy = Trx
                      /\ IsFiniteSet(Trx)
                      /\ {Bg, Adm, None} \cap Trx = {}
                      /\ Cardinality({Bg, Adm, None}) = 3
                      /\ MaxFile \in Nat \ {0} /\ MaxFlush \in 0 .. MaxFile
                      /\ MaxCrash \in Nat

Proc == Trx \cup {Bg, Adm}

VARIABLES
  \* durable, but for the ends of binlog and innodb
  binlog,     \* all events ever written, over all files
  synced,     \* length of the synced part of binlog
  index,      \* files listed in the index
  innodb,     \* commits in the InnoDB log, in order
  flushed,    \* length of the flushed part of innodb
  legacy,     \* commits in the legacy engine
  prepared,   \* transactions prepared durably
  \* the server
  up, crashes,
  missed,     \* history: the last checkpoint event could not be written
  pc,         \* where each thread is
  call,       \* where it is in a call of mark_xid_done, None if in none
  error, binlogId, checkPurge,
  queue,      \* group_commit_queue, oldest first
  group,      \* entries a leader still has to handle
  lockLog, lockAfter, lockOrdered,
  current,    \* current_binlog_id
  xidList,    \* binlog_xid_count_list
  waiting,    \* mark_xid_done_waiting
  resetting,  \* reset_master_pending
  requests,   \* checkpoint requests InnoDB has not answered
  notified    \* answers queued for the background thread

disk == <<binlog, synced, index, innodb, flushed, legacy, prepared>>
locks == <<lockLog, lockAfter, lockOrdered>>
entries == <<error, binlogId, checkPurge, queue, group>>
xids == <<current, xidList, waiting, resetting>>
engine == <<requests, notified>>
vars == <<disk, up, crashes, missed, pc, call, entries, locks, xids, engine>>

-----------------------------------------------------------------------------
(* Events, the list of counts, and what recovery reads.                    *)

XidEvent(f, t) == [type |-> "XID", file |-> f, xid |-> t]
CheckpointEvent(f, name) == [type |-> "CHECKPOINT", file |-> f, name |-> name]

\* files are numbered in the order they are created
NewestFile == Last(binlog).file
NextFile == NewestFile + 1

Logged(log) == {log[i].xid : i \in {j \in DOMAIN log : log[j].type = "XID"}}
DurableLog == SubSeq(binlog, 1, synced)

\* the engines a transaction writes in, and the commits they hold
Parts == [t \in Trx |-> {e \in {"innodb", "legacy"} :
                           t \in IF e = "innodb" THEN InnoDB ELSE Legacy}]
Commits(log) == [innodb |-> Range(log), legacy |-> legacy]
Committed(log) == {t \in Trx : \A e \in Parts[t] : t \in Commits(log)[e]}
DurablyCommitted == Committed(SubSeq(innodb, 1, flushed))

Ids == {xidList[i].id : i \in DOMAIN xidList}
Count(id) == LET i == CHOOSE i \in DOMAIN xidList : xidList[i].id = id
             IN  xidList[i].count

\* mark_xids_active(id, n), and the decrement of mark_xid_done with n = -1
AddCount(list, id, n) ==
  [i \in DOMAIN list |-> IF list[i].id = id
                         THEN [list[i] EXCEPT !.count = @ + n] ELSE list[i]]

\* drop the initial entries whose count is zero, but never the entry of keep
DropDone(list, keep) ==
  LET stay == {i \in DOMAIN list : list[i].count > 0 \/ list[i].id = keep}
  IN  IF stay = {} THEN <<>> ELSE SubSeq(list, Min(stay), Len(list))

\* Mutant of InitialCheckpoint: recovery need only read the new file.
InitialCheckpointNew(list, new) == new

\* the name in the checkpoint event a new file starts with
InitialCheckpoint(list, new) ==
  LET pending == {i \in DOMAIN list : list[i].count # 0}
  IN  IF pending = {} THEN new ELSE list[Min(pending)].id

\* the last checkpoint event of file f in log
LastCheckpoint(log, f) ==
  LET at == {i \in DOMAIN log : log[i].type = "CHECKPOINT" /\ log[i].file = f}
  IN  log[Max(at)].name

\* recover() gives up if the file named by the last checkpoint of the last file
\* is not in the index
CanRecover(log) == LastCheckpoint(log, Max(index)) \in index

\* the transactions it finds: it scans from that file on
Scanned(log) ==
  LET from == LastCheckpoint(log, Max(index))
  IN  {log[i].xid : i \in {j \in DOMAIN log : /\ CanRecover(log)
                                              /\ log[j].type = "XID"
                                              /\ log[j].file \in index
                                              /\ log[j].file >= from}}

At(p, l) == pc[p] = l /\ call[p] = None
Goto(p, l) == pc' = [pc EXCEPT ![p] = l]
InCall(p, l) == call' = [call EXCEPT ![p] = l]

-----------------------------------------------------------------------------
Init ==
  /\ binlog = <<CheckpointEvent(1, 1)>> /\ synced = 1 /\ index = {1}
  /\ innodb = <<>> /\ flushed = 0 /\ legacy = {} /\ prepared = {}
  /\ up = TRUE /\ crashes = 0 /\ missed = FALSE
  /\ pc = [p \in Proc |-> "idle"] /\ call = [p \in Proc |-> None]
  /\ error = [t \in Trx |-> FALSE]
  /\ binlogId = [p \in Proc |-> 0]
  /\ checkPurge = [p \in Proc |-> FALSE]
  /\ queue = <<>> /\ group = [p \in Proc |-> <<>>]
  /\ lockLog = None /\ lockAfter = None /\ lockOrdered = None
  /\ current = 1 /\ xidList = <<[id |-> 1, count |-> 0]>>
  /\ waiting = 0 /\ resetting = FALSE
  /\ requests = <<>> /\ notified = <<>>

-----------------------------------------------------------------------------
(* InnoDB: flushing its log answers the checkpoint requests it covers.     *)

FlushTo(n) ==
  /\ flushed' = n
  /\ requests' = SelectSeq(requests, LAMBDA r : r.lsn > n)
  /\ LET answered == SelectSeq(requests, LAMBDA r : r.lsn <= n)
     IN  notified' = notified \o [i \in DOMAIN answered |-> answered[i].id]

\* the log is flushed on behalf of anyone: another commit, a page write, the
\* master thread once a second
Flush ==
  /\ \E n \in flushed + 1 .. Len(innodb) : FlushTo(n)
  /\ UNCHANGED <<binlog, synced, index, innodb, legacy, prepared, up, crashes, missed,
                 pc, call, entries, locks, xids>>

-----------------------------------------------------------------------------
(* A transaction up to the group commit queue.                             *)

\* ha_prepare: InnoDB flushes its log up to and with the prepare record
Prepare(t) ==
  /\ At(t, "idle") /\ Goto(t, "prepared")
  /\ prepared' = prepared \cup {t}
  /\ IF t \in InnoDB THEN FlushTo(Len(innodb)) ELSE UNCHANGED <<flushed, engine>>
  /\ UNCHANGED <<binlog, synced, index, innodb, legacy, up, crashes, missed, call,
                 entries, locks, xids>>

\* queue_for_group_commit: who finds the queue empty leads the group
Enqueue(t) ==
  /\ At(t, "prepared")
  /\ Goto(t, IF queue = <<>> THEN "leader" ELSE "follower")
  /\ queue' = Append(queue, t)
  /\ UNCHANGED <<disk, up, crashes, missed, call, error, binlogId, checkPurge, group,
                 locks, xids, engine>>

-----------------------------------------------------------------------------
(* The leader, holding LOCK_log.                                           *)

\* take the queue and write every entry; one whose write fails gets an error
WriteGroup(t) ==
  /\ At(t, "leader") /\ lockLog = None /\ Goto(t, "sync")
  /\ lockLog' = t
  /\ group' = [group EXCEPT ![t] = queue] /\ queue' = <<>>
  /\ \E failed \in SUBSET Range(queue) :
       LET good == SelectSeq(queue, LAMBDA e : e \notin failed)
       IN  /\ binlog' = binlog \o [i \in DOMAIN good |-> XidEvent(current, good[i])]
           /\ error' = [e \in Trx |-> error[e] \/ e \in failed]
  /\ binlogId' = [p \in Proc |-> IF p \in Range(queue) THEN current
                                 ELSE binlogId[p]]
  /\ UNCHANGED <<synced, index, innodb, flushed, legacy, prepared, up, crashes, missed,
                 call, checkPurge, lockAfter, lockOrdered, xids, engine>>

\* flush_and_sync, then mark_xids_active for the entries that need unlog()
SyncGroup(t) ==
  /\ At(t, "sync") /\ Goto(t, "rotate")
  /\ synced' = Len(binlog)
  /\ xidList' = AddCount(xidList, current, Cardinality(Range(group[t]) \cap Legacy))
  /\ UNCHANGED <<binlog, index, innodb, flushed, legacy, prepared, up, crashes, missed,
                 call, entries, locks, current, waiting, resetting, engine>>

-----------------------------------------------------------------------------
(* rotate(), by a leader or by FLUSH BINARY LOGS, holding LOCK_log.        *)

\* the file is not full yet, or the new name cannot be generated: in that case
\* the count marked for the checkpoint is taken back
NoRotate(p) ==
  /\ At(p, "rotate") /\ Goto(p, "after")
  /\ checkPurge' = [checkPurge EXCEPT ![p] = FALSE]
  /\ UNCHANGED <<disk, up, crashes, missed, call, error, binlogId, queue, group, locks,
                 xids, engine>>

\* Mutant of CreateFile: nothing keeps the old file until its checkpoint.
CreateFileUncounted(p) ==
  /\ At(p, "rotate") /\ NextFile <= MaxFile /\ Goto(p, "link")
  /\ binlog' = Append(binlog, CheckpointEvent(NextFile,
                                InitialCheckpoint(xidList, NextFile)))
  /\ synced' = Len(binlog')
  /\ UNCHANGED <<index, innodb, flushed, legacy, prepared, up, crashes, missed, call,
                 entries, locks, xids, engine>>

\* new_file_impl and open() up to the sync of the new file, which starts with
\* a checkpoint event; the count of the old file is raised for the checkpoint
\* that will be requested
CreateFile(p) ==
  /\ At(p, "rotate") /\ NextFile <= MaxFile /\ Goto(p, "link")
  /\ xidList' = AddCount(xidList, current, 1)
  /\ binlog' = Append(binlog, CheckpointEvent(NextFile,
                                InitialCheckpoint(xidList', NextFile)))
  /\ synced' = Len(binlog')
  /\ UNCHANGED <<index, innodb, flushed, legacy, prepared, up, crashes, missed, call,
                 entries, locks, current, waiting, resetting, engine>>

\* open() from there: the position under LOCK_commit_ordered, the index, the
\* entry of the new file in the list
LinkFile(p) ==
  /\ At(p, "link") /\ lockOrdered = None /\ Goto(p, "after")
  /\ index' = index \cup {NewestFile}
  /\ current' = NewestFile
  /\ xidList' = Append(DropDone(xidList, None), [id |-> NewestFile, count |-> 0])
  /\ missed' = FALSE
  /\ checkPurge' = [checkPurge EXCEPT ![p] = TRUE]
  /\ UNCHANGED <<binlog, synced, innodb, flushed, legacy, prepared, up, crashes,
                 call, error, binlogId, queue, group, locks, waiting, resetting,
                 engine>>

-----------------------------------------------------------------------------
(* From LOCK_log over LOCK_after_binlog_sync to LOCK_commit_ordered.       *)

\* Mutant of PassAfterSync: the mutex is not kept until the next one is held.
PassAfterSyncNotHeld(p) ==
  /\ At(p, "after") /\ lockAfter = None
  /\ lockLog' = None
  /\ Goto(p, "order")
  /\ UNCHANGED <<disk, up, crashes, missed, call, entries, lockAfter, lockOrdered, xids,
                 engine>>

PassAfterSync(p) ==
  /\ At(p, "after") /\ lockAfter = None
  /\ lockAfter' = p /\ lockLog' = None
  /\ Goto(p, "order")
  /\ UNCHANGED <<disk, up, crashes, missed, call, entries, lockOrdered, xids,
                 engine>>

\* a leader keeps LOCK_commit_ordered; rotate_and_purge releases it at once
PassCommitOrdered(p) ==
  /\ At(p, "order") /\ lockOrdered = None
  /\ lockAfter' = None
  /\ \/ /\ p = Adm
        /\ Goto(p, IF checkPurge[p] THEN "request" ELSE "idle")
        /\ UNCHANGED lockOrdered
     \/ /\ p # Adm
        /\ lockOrdered' = p /\ Goto(p, "ordered")
  /\ UNCHANGED <<disk, up, crashes, missed, call, entries, lockLog, xids, engine>>

\* what run_commit_ordered adds to the log of InnoDB for entry e
CommitRecord(e) == IF error[e] \/ e \notin InnoDB THEN <<>> ELSE <<e>>

\* where a thread goes after the last commit_ordered of its group
AfterGroup(t) == IF checkPurge[t] THEN "request" ELSE "finish"

\* the loop of the leader: commit_ordered for the next entry, wake its thread;
\* after the last one LOCK_commit_ordered is released
CommitOrdered(t) ==
  /\ At(t, "ordered")
  /\ LET e == Head(group[t])
         rest == Tail(group[t])
     IN  /\ innodb' = innodb \o CommitRecord(e)
         /\ pc' = [p \in Proc |-> CASE p = t /\ rest = <<>> -> AfterGroup(t)
                                    [] p = e /\ e # t -> "finish"
                                    [] OTHER -> pc[p]]
         /\ lockOrdered' = IF rest = <<>> THEN None ELSE t
         /\ group' = [group EXCEPT ![t] = rest]
  /\ UNCHANGED <<binlog, synced, index, flushed, legacy, prepared, up, crashes, missed,
                 call, error, binlogId, checkPurge, queue, lockLog, lockAfter,
                 xids, engine>>

-----------------------------------------------------------------------------
(* The end of a commit: ha_commit_trans after log_and_order.               *)

\* commit_one_phase_2 and unlog(), or the rollback after a write error; both
\* take the XID out of the count of its file
Finish(t) ==
  /\ At(t, "finish") /\ Goto(t, IF error[t] THEN "failed" ELSE "acked")
  /\ error' = [error EXCEPT ![t] = FALSE]
  /\ IF t \in Legacy
     THEN /\ legacy' = IF error[t] THEN legacy ELSE legacy \cup {t}
          /\ InCall(t, "mark")
          /\ UNCHANGED binlogId
     ELSE /\ binlogId' = [binlogId EXCEPT ![t] = 0]
          /\ UNCHANGED <<legacy, call>>
  /\ UNCHANGED <<binlog, synced, index, innodb, flushed, prepared, up, crashes, missed,
                 checkPurge, queue, group, locks, xids, engine>>

-----------------------------------------------------------------------------
(* Checkpoints.                                                            *)

\* do_checkpoint_request: InnoDB answers at once what it has flushed already
Request(p) ==
  /\ At(p, "request") /\ InCall(p, "mark")
  /\ Goto(p, CASE p \in Trx -> "finish"
               [] p = Adm /\ resetting -> "resetFlush"
               [] OTHER -> "idle")
  /\ checkPurge' = [checkPurge EXCEPT ![p] = FALSE]
  /\ xidList' = AddCount(xidList, binlogId[p], 1)
  /\ IF flushed = Len(innodb)
     THEN notified' = Append(notified, binlogId[p]) /\ UNCHANGED requests
     ELSE /\ requests' = Append(requests, [id |-> binlogId[p], lsn |-> Len(innodb)])
          /\ UNCHANGED notified
  /\ UNCHANGED <<disk, up, crashes, missed, error, binlogId, queue, group, locks,
                 current, waiting, resetting>>

\* the background thread takes an answer and runs mark_xid_done for it
TakeNotify ==
  /\ At(Bg, "idle") /\ notified # <<>> /\ InCall(Bg, "mark")
  /\ binlogId' = [binlogId EXCEPT ![Bg] = Head(notified)]
  /\ notified' = Tail(notified)
  /\ UNCHANGED <<disk, up, crashes, missed, pc, error, checkPurge, queue, group, locks,
                 xids, requests>>

\* mark_xid_done up to the release of LOCK_xid_list
MarkXidDone(p) ==
  /\ call[p] = "mark"
  /\ xidList' = AddCount(xidList, binlogId[p], -1)
  /\ LET last == /\ ~resetting
                 /\ binlogId[p] # current
                 /\ Head(xidList').id = binlogId[p]
                 /\ Head(xidList').count = 0
     IN  /\ waiting' = IF last THEN waiting + 1 ELSE waiting
         /\ InCall(p, IF last THEN "reached" ELSE None)
  /\ binlogId' = IF pc[p] = "finish" THEN binlogId
                 ELSE [binlogId EXCEPT ![p] = 0]
  /\ UNCHANGED <<disk, up, crashes, missed, pc, error, checkPurge, queue, group, locks,
                 current, resetting, engine>>

\* LOCK_log, then LOCK_xid_list again: the files at zero leave the list
ForgetFiles(p) ==
  /\ call[p] = "reached" /\ lockLog = None /\ InCall(p, "checkpoint")
  /\ lockLog' = p
  /\ waiting' = waiting - 1
  /\ xidList' = DropDone(xidList, current)
  /\ UNCHANGED <<disk, up, crashes, missed, pc, entries, lockAfter, lockOrdered, current, resetting, engine>>

\* write_binlog_checkpoint_event_already_locked: written and synced, or the
\* write fails, which is only reported
WriteCheckpoint(p) ==
  /\ call[p] = "checkpoint" /\ InCall(p, "position")
  /\ \/ /\ binlog' = Append(binlog, CheckpointEvent(current, Head(xidList).id))
        /\ synced' = Len(binlog') /\ missed' = FALSE
     \/ UNCHANGED <<binlog, synced>> /\ missed' = TRUE
  /\ UNCHANGED <<index, innodb, flushed, legacy, prepared, up, crashes, pc,
                 entries, locks, xids, engine>>

\* the position under LOCK_commit_ordered
SetPosition(p) ==
  /\ call[p] = "position" /\ lockOrdered = None /\ InCall(p, None)
  /\ lockLog' = None
  /\ UNCHANGED <<disk, up, crashes, missed, pc, entries, lockAfter, lockOrdered, xids, engine>>

-----------------------------------------------------------------------------
(* FLUSH BINARY LOGS, PURGE BINARY LOGS and RESET MASTER.                  *)

\* rotate_and_purge: LOCK_log, then as a leader with nothing to write
FlushLogs ==
  /\ At(Adm, "idle") /\ lockLog = None /\ NextFile <= MaxFlush
  /\ lockLog' = Adm /\ Goto(Adm, "rotate")
  /\ binlogId' = [binlogId EXCEPT ![Adm] = current]
  /\ UNCHANGED <<disk, up, crashes, missed, call, error, checkPurge, queue, group,
                 lockAfter, lockOrdered, xids, engine>>

\* LOCK_index is held from new_file_impl to the link of the file, and by
\* RESET MASTER as long as LOCK_log
IndexLocked == \/ \E p \in Proc : pc[p] = "link"
               \/ resetting /\ lockLog = Adm

\* purge_logs: the oldest file leaves the index if can_purge_log allows it,
\* which looks at the active file and at the list of counts
Purge ==
  /\ up /\ ~IndexLocked
  /\ Min(index) \notin Ids \cup {current}
  /\ index' = index \ {Min(index)}
  /\ UNCHANGED <<binlog, synced, innodb, flushed, legacy, prepared, up, crashes, missed,
                 pc, call, entries, locks, xids, engine>>

\* reset_logs announces itself, so that mark_xid_done keeps off LOCK_log
ResetBegin ==
  /\ At(Adm, "idle") /\ NextFile <= MaxFile /\ Goto(Adm, "reset")
  /\ resetting' = TRUE
  /\ UNCHANGED <<disk, up, crashes, missed, call, entries, locks, current, xidList,
                 waiting, engine>>

\* Mutant of ResetLock: those already on their way to LOCK_log are not awaited.
ResetLockNoWait ==
  /\ At(Adm, "reset") /\ lockLog = None
  /\ lockLog' = Adm /\ Goto(Adm, "resetLocked")
  /\ UNCHANGED <<disk, up, crashes, missed, call, entries, lockAfter, lockOrdered, xids, engine>>

\* LOCK_log is taken once nobody is on the way to it from mark_xid_done
ResetLock ==
  /\ At(Adm, "reset") /\ waiting = 0 /\ lockLog = None
  /\ lockLog' = Adm /\ Goto(Adm, "resetLocked")
  /\ UNCHANGED <<disk, up, crashes, missed, call, entries, lockAfter, lockOrdered, xids, engine>>

\* take and release LOCK_after_binlog_sync and LOCK_commit_ordered, then
\* request a checkpoint of the current file
ResetPassLocks ==
  /\ At(Adm, "resetLocked") /\ lockAfter = None /\ lockOrdered = None
  /\ xidList' = AddCount(xidList, current, 1)
  /\ binlogId' = [binlogId EXCEPT ![Adm] = current]
  /\ Goto(Adm, "request")
  /\ UNCHANGED <<disk, up, crashes, missed, call, error, checkPurge, queue, group, locks,
                 current, waiting, resetting, engine>>

\* ha_flush_logs
ResetFlush ==
  /\ At(Adm, "resetFlush") /\ Goto(Adm, "resetIdle")
  /\ FlushTo(Len(innodb))
  /\ UNCHANGED <<binlog, synced, index, innodb, legacy, prepared, up, crashes, missed,
                 call, entries, locks, xids>>

\* once the list is idle and the background thread has passed the sentinel:
\* delete every file, open a new one, drop the old entries
ResetDelete ==
  /\ At(Adm, "resetIdle") /\ lockOrdered = None
  /\ \A i \in DOMAIN xidList : xidList[i].count = 0
  /\ notified = <<>> /\ At(Bg, "idle")
  /\ binlog' = Append(binlog, CheckpointEvent(NextFile, NextFile))
  /\ synced' = Len(binlog') /\ index' = {NextFile}
  /\ current' = NextFile /\ xidList' = <<[id |-> NextFile, count |-> 0]>>
  /\ missed' = FALSE /\ resetting' = FALSE /\ lockLog' = None
  /\ Goto(Adm, "idle")
  /\ UNCHANGED <<innodb, flushed, legacy, prepared, up, crashes, call, entries,
                 lockAfter, lockOrdered, waiting, engine>>

-----------------------------------------------------------------------------
(* A crash, and recovery at the next start.                                *)

\* the client of t has its answer
Ended(t) == pc[t] \in {"acked", "failed"} /\ call[t] = None

\* an unsynced end of the binary log and an unflushed end of the InnoDB log
\* survive in part; the server's memory is lost
Crash ==
  /\ up /\ crashes < MaxCrash
  /\ up' = FALSE /\ crashes' = crashes + 1 /\ missed' = FALSE
  /\ \E n \in synced .. Len(binlog) : /\ binlog' = SubSeq(binlog, 1, n)
                                      /\ synced' = n
  /\ \E n \in flushed .. Len(innodb) : /\ innodb' = SubSeq(innodb, 1, n)
                                       /\ flushed' = n
  /\ pc' = [p \in Proc |-> CASE p \notin Trx -> "idle"
                             [] Ended(p) \/ pc[p] = "idle" -> pc[p]
                             [] OTHER -> "crashed"]
  /\ call' = [p \in Proc |-> None]
  /\ error' = [t \in Trx |-> FALSE] /\ binlogId' = [p \in Proc |-> 0]
  /\ checkPurge' = [p \in Proc |-> FALSE]
  /\ queue' = <<>> /\ group' = [p \in Proc |-> <<>>]
  /\ lockLog' = None /\ lockAfter' = None /\ lockOrdered' = None
  /\ current' = 0 /\ xidList' = <<>> /\ waiting' = 0
  /\ resetting' = FALSE /\ requests' = <<>> /\ notified' = <<>>
  /\ UNCHANGED <<index, legacy, prepared>>

\* a prepared transaction found in the binary log is committed in each engine
\* that does not have it, durably
RecoverCommit(e, t) ==
  /\ ~up /\ t \in prepared \cap Scanned(binlog)
  /\ t \notin Commits(innodb)[e]
  /\ \/ /\ e = "innodb"
        /\ innodb' = Append(innodb, t) /\ flushed' = Len(innodb')
        /\ UNCHANGED legacy
     \/ /\ e = "legacy"
        /\ legacy' = legacy \cup {t} /\ UNCHANGED <<innodb, flushed>>
  /\ UNCHANGED <<binlog, synced, index, prepared, up, crashes, missed, pc, call, entries,
                 locks, xids, engine>>

\* the other prepared ones are rolled back; the server opens a new file
RecoverOpen ==
  /\ ~up /\ CanRecover(binlog)
  /\ prepared \cap Scanned(binlog) \subseteq Committed(innodb)
  /\ up' = TRUE
  /\ prepared' = prepared \cap Committed(innodb)
  /\ binlog' = Append(binlog, CheckpointEvent(NextFile, NextFile))
  /\ synced' = Len(binlog') /\ index' = index \cup {NextFile}
  /\ current' = NextFile /\ xidList' = <<[id |-> NextFile, count |-> 0]>>
  /\ UNCHANGED <<innodb, flushed, legacy, crashes, missed, pc, call, entries, locks,
                 waiting, resetting, engine>>

-----------------------------------------------------------------------------
TrxNext(t) == \/ Enqueue(t) \/ WriteGroup(t) \/ SyncGroup(t)
              \/ CommitOrdered(t) \/ Finish(t)

ProcNext(p) ==
  \/ NoRotate(p) \/ CreateFile(p) \/ LinkFile(p)
  \/ PassAfterSync(p) \/ PassCommitOrdered(p)
  \/ Request(p) \/ MarkXidDone(p) \/ ForgetFiles(p) \/ WriteCheckpoint(p)
  \/ SetPosition(p)

AdmNext == ResetLock \/ ResetPassLocks \/ ResetFlush \/ ResetDelete

\* what threads do to finish what has been started
Work == \/ \E t \in Trx : TrxNext(t)
        \/ \E p \in Proc : ProcNext(p)
        \/ TakeNotify \/ Flush \/ AdmNext

\* what clients start
Command == \/ \E t \in Trx : Prepare(t)
           \/ FlushLogs \/ ResetBegin \/ Purge

Next == \/ up /\ (Work \/ Command)
        \/ Crash \/ RecoverOpen
        \/ \E t \in Trx : \E e \in Parts[t] : RecoverCommit(e, t)

Spec == Init /\ [][Next]_vars

-----------------------------------------------------------------------------
(* Properties.                                                             *)

\* a thread still owes the log the checkpoint event for files that have left the
\* list, or the event could not be written
CheckpointDue == \/ missed \/ resetting
                 \/ \E p \in Proc : call[p] \in {"reached", "checkpoint"}

\* A crash at this very moment loses nothing that is durable in the binary log:
\* if recover() goes on, every such transaction is durably committed in all its
\* engines, or prepared and in a file that is scanned; and recover() gives up
\* only as long as a checkpoint event is due.  (mark_xid_done, rotate and
\* reset_logs forget or delete a file only when no transaction depends on it.)
LoggedIsRecoverable ==
  up => IF CanRecover(DurableLog)
        THEN Logged(DurableLog) \subseteq
               DurablyCommitted \cup (prepared \cap Scanned(DurableLog))
        ELSE CheckpointDue

\* A file needed by nobody yet referred to by somebody keeps its entry: the
\* entry that do_checkpoint_request and mark_xid_done look up is in the list
\* and counted (their DBUG_ASSERTs), and so is the entry behind every cookie
\* an engine or the background thread still holds; the current file is last.
EntryStays ==
  LET held == {binlogId[p] : p \in {q \in Proc : \/ At(q, "request")
                                              \/ call[q] = "mark"}}
              \cup {requests[i].id : i \in DOMAIN requests}
              \cup Range(notified)
  IN  /\ \A id \in held : id \in Ids /\ Count(id) > 0
      /\ up => xidList # <<>> /\ Last(xidList).id = current

\* A running server can always be started again after a crash: the file named by
\* the last durable checkpoint is in the index, as the comments of
\* write_binlog_checkpoint_event_already_locked have it.  This does not hold
\* (README.md, Findings).
RestartIsPossible == up => CanRecover(DurableLog)

\* Nothing gets stuck: as long as a commit, a checkpoint or RESET MASTER is under
\* way some thread can go on with it, whatever the order in which LOCK_log,
\* LOCK_after_binlog_sync, LOCK_commit_ordered and the two waits of reset_logs
\* are met; and when all is done only the current file is left in the list, so
\* that no old file is kept from PURGE for ever.
AtRest == /\ \A t \in Trx : pc[t] \in {"idle", "crashed"} \/ Ended(t)
          /\ At(Adm, "idle") /\ At(Bg, "idle")
          /\ requests = <<>> /\ notified = <<>>

NoStall == up => IF AtRest THEN Len(xidList) = 1 ELSE ENABLED Work

\* The order of the durable part of the binary log.
LogOrder == LET events == SelectSeq(DurableLog, LAMBDA e : e.type = "XID")
            IN  [i \in DOMAIN events |-> events[i].xid]

Outcome == INSTANCE CommitOutcome WITH
             Engine  <- {"innodb", "legacy"},
             Ordered <- {"innodb"},
             log     <- LogOrder,
             engine  <- Commits(innodb),
             reply   <- [t \in Trx |-> IF Ended(t)
                                       THEN pc[t] ELSE "none"]

\* Binary log and engines agree: the commit pipeline with its crashes and
\* recoveries implements the atomic commitment of CommitOutcome.
ImplementsOutcome == Outcome!Spec

=============================================================================
