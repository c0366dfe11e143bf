------------------------------- MODULE DumpText -------------------------------
(***************************************************************************)
(* Every text a dump may be, one token after the other, and what is promised   *)
(* of each (SqlPreparation).                                                   *)
(***************************************************************************)
EXTENDS SqlPreparation

VARIABLE sql  \* the dump

Lengthen(t) == sql' = Append(sql, t)

DumpSpec == sql = <<>> /\ [][\E t \in Token : Lengthen(t)]_sql

\* What passes the checks keeps its literals and is normalised, however many definers the
\* database is known to have, with or without a history table (restore_prepare.py 284-297).
StagedIsSound ==
    \A definers \in 0 .. Len(sql), recorded \in BOOLEAN : Accepted(sql, definers, recorded)
        => LiteralsKept(sql) /\ CodeIsNormalised(sql, recorded)

\* docs/BACKUP-RESTORE.md 36: "It preserves quoted SQL values and migration-history text".
\* False of the lines behind a character that only str.splitlines takes for the end of one
\* (restore_prepare.py 126-133, sql_audit.py 71-74).
HistoryTextKept ==
    \A definers \in 0 .. Len(sql) : Accepted(sql, definers, TRUE) /\ ~EndsEarly(sql)
        => HistoryKept(sql, TRUE)
=============================================================================
