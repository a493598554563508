------------------------------- MODULE MCMdl --------------------------------
(***************************************************************************)
(* Instances of Mdl: what each connection asks for.  The upgrades and      *)
(* downgrades are those of the callers: ALTER TABLE on a table, and        *)
(* backup.cc and lock.cc in the BACKUP namespace.                          *)
(***************************************************************************)
EXTENDS Mdl, TLC

CONSTANTS a, b, c1, c2, c3

Trans(k, ty) == [key |-> k, type |-> ty, duration |-> "TRANSACTION", wait |-> TRUE]
Explicit(k, ty) == [Trans(k, ty) EXCEPT !.duration = "EXPLICIT"]
NoWait(k, ty) == [Trans(k, ty) EXCEPT !.wait = FALSE]
Change(k, ty, to) == [key |-> k, from |-> ty, to |-> to]

NoLanes == [c \in Ctx |-> NoLane]
TwoLanes == c1 :> 0 @@ c2 :> 0 @@ c3 :> 1

\* DML, and ALTER TABLE by two connections, one of which also locks the schema.
TableAndSchema == c1 :> {Trans(a, "SW"), Trans(b, "IX")}
               @@ c2 :> {Trans(a, "SU"), Trans(b, "IX")}
               @@ c3 :> {Trans(a, "SU"), Trans(b, "X")}
AlterUp == {Change(a, "SU", "X")}
AlterDown == {Change(a, "X", "SU")}

\* BACKUP STAGE, DDL with a copying phase or a FLUSH TABLES WITH READ LOCK that does
\* not wait for its first lock, and DML.
BackupServer == c1 :> {Explicit(b, "BLOCK_DDL")}
             @@ c2 :> {Trans(b, "DDL"), NoWait(b, "FTWRL1")}
             @@ c3 :> {Trans(b, "DML")}
BackupUp == {Change(b, "START", "FLUSH"), Change(b, "FLUSH", "WAIT_FLUSH"),
             Change(b, "WAIT_FLUSH", "WAIT_DDL"), Change(b, "WAIT_DDL", "WAIT_COMMIT"),
             Change(b, "ALTER_COPY", "DDL"), Change(b, "FTWRL1", "FTWRL2")}
BackupDown == {Change(b, "BLOCK_DDL", "START"), Change(b, "WAIT_FLUSH", "FLUSH"),
               Change(b, "DDL", "ALTER_COPY")}

\* One weak request against strong ones that keep coming.
Hogs == c1 :> {Trans(a, "SW")}
     @@ c2 :> {Trans(a, "X")}
     @@ c3 :> {Trans(a, "SNW"), Trans(a, "SRO")}

\* DML beside two ALTER TABLEs.
OneTable == c1 :> {Trans(a, "SW")} @@ c2 :> {Trans(a, "SU")} @@ c3 :> {Trans(a, "SU")}
\* A request whose client goes away.
StaleBits == c1 :> {Trans(a, "SW")}
          @@ c2 :> {Trans(a, "X"), Trans(a, "SRO")}
          @@ c3 :> {Trans(a, "SW")}
=============================================================================
