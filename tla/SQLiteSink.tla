----------------------------- MODULE SQLiteSink -----------------------------
(***************************************************************************)
(* sink/db/sqlite.go: SQLiteSink takes its columns from the first record   *)
(* and creates a table for them; later records are inserted.               *)
(*                                                                         *)
(* The database is external: a statement works or fails, and an INSERT     *)
(* whose answer is lost may have worked.  Records are numbered in the      *)
(* order they are written.                                                 *)
(***************************************************************************)
EXTENDS Naturals, Sequences

VARIABLES
    headers,   \* "nil" or "set"
    table,     \* "absent" or "present" in the database
    rows       \* the records inserted, in order

sink == <<headers, table, rows>>

SinkInit ==
    /\ headers = "nil"
    /\ table \in {"absent", "present"}
    /\ rows = <<>>

(* Mutant: the error of the CREATE TABLE is dropped. *)
CreateErrorDropped(answer) == answer = "nil" /\ table' \in {table, "present"}

CreateTable(answer) ==
    \/ answer = "nil" /\ table' = "present"
    \/ answer = "error" /\ UNCHANGED table

(* The first Write: the columns are taken and the table is created; the    *)
(* record itself is not inserted, and the headers stay if that fails.      *)
WriteFirst(answer) ==
    /\ headers = "nil"
    /\ headers' = "set"
    /\ CreateTable(answer)
    /\ UNCHANGED rows

(* Mutant: the error of the INSERT is dropped. *)
InsertErrorDropped(r, answer) ==
    answer = "nil" /\ rows' \in {rows, Append(rows, r)}

Insert(r, answer) ==
    \/ table = "present" /\ rows' = Append(rows, r)
    \/ answer = "error" /\ UNCHANGED rows

WriteNext(r, answer) ==
    /\ headers = "set"
    /\ Insert(r, answer)
    /\ UNCHANGED <<headers, table>>

Write(r, answer) == WriteFirst(answer) \/ WriteNext(r, answer)

SinkTypeOK ==
    /\ headers \in {"nil", "set"} /\ table \in {"absent", "present"}
    /\ rows \in Seq(Nat)
=============================================================================
