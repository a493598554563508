------------------------------ MODULE MdlTypes ------------------------------
(***************************************************************************)
(* The types of metadata locks and the rules of the three kinds of objects *)
(* they are taken on (sql/mdl.cc): tables and other objects, schemas, and  *)
(* the one lock of the BACKUP namespace.  A bitmap of types is a set.      *)
(***************************************************************************)

ObjectType == {"S", "SH", "SR", "SW", "SU", "SRO", "SNW", "SNRW", "X"}
ScopedType == {"IX", "S", "X"}
BackupType == {"START", "FLUSH", "WAIT_FLUSH", "WAIT_DDL", "WAIT_COMMIT",
               "FTWRL1", "FTWRL2", "DML", "TRANS_DML", "SYS_DML", "DDL",
               "BLOCK_DDL", "ALTER_COPY", "COMMIT"}
MdlType == ObjectType \cup ScopedType \cup BackupType

\* MDL_object_lock::m_granted_incompatible: the granted types a request waits for.
ObjectGrantedIncompatible ==
    [S    |-> {"X"},
     SH   |-> {"X"},
     SR   |-> {"X", "SNRW"},
     SW   |-> {"X", "SNRW", "SNW", "SRO"},
     SU   |-> {"X", "SNRW", "SNW", "SU"},
     SRO  |-> {"X", "SNRW", "SW"},
     SNW  |-> {"X", "SNRW", "SNW", "SU", "SW"},
     SNRW |-> {"X", "SNRW", "SNW", "SRO", "SU", "SW", "SR"},
     X    |-> ObjectType]

\* MDL_object_lock::m_waiting_incompatible: the pending types a request lets pass.
ObjectWaitingIncompatible ==
    [S    |-> {"X"},
     SH   |-> {},
     SR   |-> {"X", "SNRW"},
     SW   |-> {"X", "SNRW", "SNW"},
     SU   |-> {"X"},
     SRO  |-> {"X", "SNRW", "SW"},
     SNW  |-> {"X"},
     SNRW |-> {"X"},
     X    |-> {}]

\* MDL_scoped_lock::m_granted_incompatible.
ScopedGrantedIncompatible ==
    [IX |-> {"X", "S"}, S |-> {"X", "IX"}, X |-> {"X", "S", "IX"}]

\* MDL_scoped_lock::m_waiting_incompatible.
ScopedWaitingIncompatible ==
    [IX |-> {"X", "S"}, S |-> {"X"}, X |-> {}]

BackupStages == {"FLUSH", "WAIT_FLUSH", "WAIT_DDL", "WAIT_COMMIT"}

\* MDL_backup_lock::m_granted_incompatible.
BackupGrantedIncompatible ==
    [START       |-> BackupStages \cup {"START", "BLOCK_DDL"},
     FLUSH       |-> {"START"},
     WAIT_FLUSH  |-> {"START", "DML"},
     WAIT_DDL    |-> {"START", "DML", "DDL"},
     WAIT_COMMIT |-> {"START", "DML", "SYS_DML", "DDL", "COMMIT"},
     FTWRL1      |-> {"DML", "TRANS_DML", "SYS_DML", "DDL", "ALTER_COPY"},
     FTWRL2      |-> {"DML", "TRANS_DML", "SYS_DML", "DDL", "ALTER_COPY", "COMMIT"},
     DML         |-> BackupStages \cup {"FTWRL1", "FTWRL2"},
     TRANS_DML   |-> {"FTWRL1", "FTWRL2"},
     SYS_DML     |-> {"WAIT_COMMIT", "FTWRL1", "FTWRL2"},
     DDL         |-> {"WAIT_DDL", "WAIT_COMMIT", "FTWRL1", "FTWRL2", "BLOCK_DDL"},
     BLOCK_DDL   |-> BackupStages \cup {"START", "BLOCK_DDL", "DDL"},
     ALTER_COPY  |-> {"FTWRL1", "FTWRL2"},
     COMMIT      |-> {"WAIT_COMMIT", "FTWRL2"}]

\* MDL_backup_lock::m_waiting_incompatible.
BackupWaitingIncompatible ==
    [START       |-> BackupStages \cup {"BLOCK_DDL"},
     FLUSH       |-> {},
     WAIT_FLUSH  |-> {},
     WAIT_DDL    |-> {},
     WAIT_COMMIT |-> {},
     FTWRL1      |-> {},
     FTWRL2      |-> {},
     DML         |-> BackupStages \cup {"FTWRL1", "FTWRL2"},
     TRANS_DML   |-> {"FTWRL1", "FTWRL2"},
     SYS_DML     |-> {"WAIT_COMMIT", "FTWRL1", "FTWRL2"},
     DDL         |-> {"WAIT_DDL", "WAIT_COMMIT", "FTWRL1", "FTWRL2", "BLOCK_DDL"},
     BLOCK_DDL   |-> {"START"},
     ALTER_COPY  |-> {"FTWRL1", "FTWRL2"},
     COMMIT      |-> {"WAIT_COMMIT", "FTWRL2"}]

\* The types the fast lanes of the BACKUP lock serve.
FastType == {"DML", "TRANS_DML", "SYS_DML", "DDL", "ALTER_COPY", "COMMIT"}

\* hog_lock_types_bitmap(): the types that may starve others.
ObjectHogType == {"SNW", "SNRW", "X"}

DEADLOCK_WEIGHT_FTWRL1 == 0
DEADLOCK_WEIGHT_DML == 1
DEADLOCK_WEIGHT_DDL == 100
=============================================================================
