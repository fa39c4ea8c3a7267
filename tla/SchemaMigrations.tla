---------------------------- MODULE SchemaMigrations ----------------------------
(*****************************************************************************)
(* The migrations of table uploads that every start of a server runs         *)
(* (schema.go), and the process dying between two of their statements.       *)
(*                                                                           *)
(* sql-migrate runs each migration in a transaction and records it there.    *)
(* SQLite undoes all of an unfinished transaction; in MySQL a CREATE, ALTER, *)
(* DROP or RENAME commits implicitly, so every statement is durable.  The    *)
(* database may come from any older version of the program.                  *)
(*****************************************************************************)
EXTENDS Integers, Sequences

CONSTANTS Upload,      \* uploads that may get a record
          MaxCrashes,  \* bound on the crashes in a behaviour
          None         \* a table that does not exist

ASSUME MigrationsAssumption == MaxCrashes \in Nat

VARIABLES
  driver,       \* "sqlite3" or "mysql"
  tables,       \* the durable tables
  work,         \* the tables as the open transaction sees them
  applied,      \* how many migrations are recorded
  statement,    \* statements done of the migration in progress
  state,        \* of the server: "down", "migrating", "up", "fatal"
  crashes,      \* number of crashes so far
  wrote,        \* history: per upload with a record, the columns written
  interrupted   \* history: a crash has hit a migration

vars == <<driver, tables, work, applied, statement, state, crashes, wrote, interrupted>>

(*****************************************************************************)
(* Tables: their columns, and per record the columns with the values written *)
(*****************************************************************************)
Name == {"uploads", "new_uploads"}
FirstColumns == {"id", "uploader_ip", "sha256sum", "created_at"}
DeletedColumns == FirstColumns \union {"deleted"}
JwtColumns == DeletedColumns \union {"jwt_account", "jwt_issuer"}

\* The columns with a value, per upload with a record.
Rows == UNION {[S -> SUBSET JwtColumns] : S \in SUBSET Upload}
Table == [cols : SUBSET JwtColumns, rows : Rows]

ASSUME NoneAssumption == None \notin Table

Exists(t, name) == t[name] # None

\* A statement: whether it succeeds on tables t, and its effect on them.
Create(name, cols) ==
  [do |-> "create", table |-> name, from |-> name, cols |-> cols]
Add(name, col) == [do |-> "add", table |-> name, from |-> name, cols |-> {col}]
Copy(from, name, cols) == [do |-> "copy", table |-> name, from |-> from, cols |-> cols]
Drop(name) == [do |-> "drop", table |-> name, from |-> name, cols |-> {}]
Rename(from, name) == [do |-> "rename", table |-> name, from |-> from, cols |-> {}]

Succeeds(s, t) ==
  CASE s.do = "create" -> ~Exists(t, s.table)
    [] s.do = "add" -> Exists(t, s.table) /\ s.cols \intersect t[s.table].cols = {}
    [] s.do = "copy" -> /\ Exists(t, s.table) /\ Exists(t, s.from)
                        /\ s.cols \subseteq t[s.table].cols \intersect t[s.from].cols
    [] s.do = "drop" -> Exists(t, s.table)
    [] s.do = "rename" -> Exists(t, s.from) /\ ~Exists(t, s.table)

Effect(s, t) ==
  CASE s.do = "create" -> [t EXCEPT ![s.table] = [cols |-> s.cols, rows |-> <<>>]]
    [] s.do = "add" -> [t EXCEPT ![s.table].cols = @ \union s.cols]
    [] s.do = "copy" ->
         LET rows == t[s.from].rows
         IN  [t EXCEPT ![s.table].rows = [u \in DOMAIN rows |-> rows[u] \intersect s.cols]]
    [] s.do = "drop" -> [t EXCEPT ![s.table] = None]
    [] s.do = "rename" -> [t EXCEPT ![s.table] = t[s.from], ![s.from] = None]

\* (variant: sha256sum is missing in INSERT ... SELECT)
Rebuild_ForgetsDigest(cols, copied) ==
  << Create("new_uploads", cols), Copy("uploads", "new_uploads", copied \ {"sha256sum"}),
     Drop("uploads"), Rename("new_uploads", "uploads") >>

\* Copy the table, for SQLite cannot change a column.
Rebuild(cols, copied) ==
  << Create("new_uploads", cols), Copy("uploads", "new_uploads", copied),
     Drop("uploads"), Rename("new_uploads", "uploads") >>

Migrations == << << Create("uploads", FirstColumns) >>,
                 << Add("uploads", "deleted") >>,
                 Rebuild(DeletedColumns, DeletedColumns \ {"uploader_ip"}),
                 Rebuild(JwtColumns, DeletedColumns) >>

(*****************************************************************************)
(* The database an older version has left                                    *)
(*****************************************************************************)
VersionColumns == << FirstColumns, DeletedColumns, DeletedColumns, JwtColumns >>

\* The third migration gives uploader_ip another type and drops its values.
Lasting(version, cols) == IF version < 3 THEN cols \ {"uploader_ip"} ELSE cols

Init ==
  /\ driver \in {"sqlite3", "mysql"}
  /\ applied \in 0 .. Len(Migrations)
  /\ IF applied = 0 THEN tables = [n \in Name |-> None] /\ wrote = <<>>
     ELSE LET cols == VersionColumns[applied]
          IN  \E S \in SUBSET Upload :
                /\ tables = [n \in Name |->
                     IF n = "uploads" THEN [cols |-> cols, rows |-> [u \in S |-> cols]]
                                      ELSE None]
                /\ wrote = [u \in S |-> Lasting(applied, cols)]
  /\ work = tables
  /\ statement = 0 /\ state = "down" /\ crashes = 0 /\ interrupted = FALSE

(*****************************************************************************)
(* initDB                                                                    *)
(*****************************************************************************)
Start ==
  /\ state \in {"down", "fatal"}
  /\ state' = "migrating" /\ statement' = 0 /\ work' = tables
  /\ UNCHANGED <<driver, tables, applied, crashes, wrote, interrupted>>

Pending == state = "migrating" /\ applied < Len(Migrations)
Migration == Migrations[applied + 1]

\* (variant: the migrations run with DisableTransactionUp)
Durable_AtOnce(before, after) == after

\* What a statement leaves on disk before its transaction ends.
Durable(before, after) == IF driver = "mysql" THEN after ELSE before

Exec ==
  /\ Pending /\ statement < Len(Migration)
  /\ LET s == Migration[statement + 1]
     IN  /\ Succeeds(s, work)
         /\ work' = Effect(s, work)
         /\ tables' = Durable(tables, work')
  /\ statement' = statement + 1
  /\ UNCHANGED <<driver, applied, state, crashes, wrote, interrupted>>

\* log.Fatal
ExecFails ==
  /\ Pending /\ statement < Len(Migration)
  /\ ~Succeeds(Migration[statement + 1], work)
  /\ state' = "fatal" /\ work' = tables
  /\ UNCHANGED <<driver, tables, applied, statement, crashes, wrote, interrupted>>

\* The migration is recorded and its transaction commits.
Commit ==
  /\ Pending /\ statement = Len(Migration)
  /\ applied' = applied + 1
  /\ tables' = work /\ statement' = 0
  /\ UNCHANGED <<driver, work, state, crashes, wrote, interrupted>>

Up ==
  /\ state = "migrating" /\ applied = Len(Migrations)
  /\ state' = "up"
  /\ UNCHANGED <<driver, tables, work, applied, statement, crashes, wrote, interrupted>>

(*****************************************************************************)
(* The server at work, and its end at any moment                             *)
(*****************************************************************************)
AddUpload ==
  /\ state = "up"
  /\ \E u \in Upload \ DOMAIN wrote :
       LET with(f) == [v \in DOMAIN f \union {u} |-> IF v = u THEN JwtColumns ELSE f[v]]
       IN  /\ tables' = [tables EXCEPT !["uploads"].rows = with(@)]
           /\ wrote' = with(wrote)
  /\ work' = tables'
  /\ UNCHANGED <<driver, applied, statement, state, crashes, interrupted>>

Crash ==
  /\ state \in {"migrating", "up"} /\ crashes < MaxCrashes
  /\ crashes' = crashes + 1
  /\ state' = "down" /\ work' = tables
  /\ interrupted' = (interrupted \/ Pending)
  /\ UNCHANGED <<driver, tables, applied, statement, wrote>>

Next == Start \/ Exec \/ ExecFails \/ Commit \/ Up \/ AddUpload \/ Crash

Spec == Init /\ [][Next]_vars

(*****************************************************************************)
(* Properties                                                                *)
(*****************************************************************************)

\* At no moment is a record without its values on disk: every upload ever
\* recorded is, with all that was written to it, in uploads or in the copy being
\* made of it, whatever statement the process dies after (schema.go).
RecordsSurvive ==
  \A u \in DOMAIN wrote : \E n \in Name :
    /\ Exists(tables, n)
    /\ u \in DOMAIN tables[n].rows /\ wrote[u] \subseteq tables[n].rows[u]

\* A server that is up has the columns of its queries and no copy left over,
\* from whatever version; it fails to start only on a MySQL database on which a
\* migration has been interrupted, never on SQLite.
StartsWithItsSchema ==
  /\ state = "up" => /\ Exists(tables, "uploads") /\ ~Exists(tables, "new_uploads")
                     /\ tables["uploads"].cols = JwtColumns
  /\ state = "fatal" => driver = "mysql" /\ interrupted
================================================================================
