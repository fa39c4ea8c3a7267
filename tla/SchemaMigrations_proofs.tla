------------------------- MODULE SchemaMigrations_proofs -------------------------
(*****************************************************************************)
(* Proofs about the migrations, for every set of uploads and any number of   *)
(* crashes: no statement and no crash loses a record, and a server starts    *)
(* with its schema from whatever database, unless a migration has been       *)
(* interrupted in MySQL.                                                     *)
(*                                                                           *)
(* Neither property is inductive.  Shape(t, s) says what the tables are      *)
(* after s statements of the migration in progress, and that each table that *)
(* is to last holds every record.  A SQLite database always looks as between *)
(* two migrations; a MySQL database that was interrupted may look as after   *)
(* any statement (Found), and the first statement then fails, or the whole   *)
(* migration was done and can be done again.                                 *)
(*****************************************************************************)
EXTENDS SchemaMigrations, TLAPS

Tables == [Name -> Table \union {None}]

TypeOK ==
  /\ driver \in {"sqlite3", "mysql"}
  /\ tables \in Tables /\ work \in Tables
  /\ applied \in 0 .. 4 /\ statement \in 0 .. 4
  /\ state \in {"down", "migrating", "up", "fatal"}
  /\ crashes \in 0 .. MaxCrashes
  /\ wrote \in Rows
  /\ interrupted \in BOOLEAN

(*****************************************************************************)
(* The inductive invariant                                                   *)
(*****************************************************************************)

\* The columns of a record that the migrations after a of them still copy.
Copied(a) == CASE a \in {0, 1, 2} -> DeletedColumns \ {"uploader_ip"}
               [] a = 3 -> DeletedColumns
               [] a = 4 -> JwtColumns

\* What has been written, w, is among them.
Lasts(a, w) == /\ \A u \in DOMAIN w : w[u] \subseteq Copied(a)
               /\ a = 0 => DOMAIN w = {}

\* Table name has columns cols; and every record, with what was written to it.
Has(t, name, cols) == t[name] \in Table /\ t[name].cols = cols
Holds(t, name, w) == /\ DOMAIN w \subseteq DOMAIN t[name].rows
                     /\ \A u \in DOMAIN w : w[u] \subseteq t[name].rows[u]

Plain(t, cols, w) == /\ Has(t, "uploads", cols) /\ Holds(t, "uploads", w)
                     /\ t["new_uploads"] = None

\* The tables while the table is rebuilt, after s statements.
Rebuilding(s, t, w, old, new) ==
  \/ s = 0 /\ Plain(t, old, w)
  \/ /\ s \in {1, 2}
     /\ Has(t, "uploads", old) /\ Holds(t, "uploads", w) /\ Has(t, "new_uploads", new)
     /\ s = 2 => Holds(t, "new_uploads", w)
  \/ /\ s = 3 /\ t["uploads"] = None
     /\ Has(t, "new_uploads", new) /\ Holds(t, "new_uploads", w)
  \/ s = 4 /\ Plain(t, new, w)

\* The tables when a migrations are recorded, after s statements of the next.
Shape(a, s, t, w) ==
  \/ a = 0 /\ s = 0 /\ t["uploads"] = None /\ t["new_uploads"] = None
  \/ a = 0 /\ s = 1 /\ Plain(t, FirstColumns, w)
  \/ a = 1 /\ s = 0 /\ Plain(t, FirstColumns, w)
  \/ a = 1 /\ s = 1 /\ Plain(t, DeletedColumns, w)
  \/ a = 2 /\ Rebuilding(s, t, w, DeletedColumns, DeletedColumns)
  \/ a = 3 /\ Rebuilding(s, t, w, DeletedColumns, JwtColumns)
  \/ a = 3 /\ Rebuilding(s, t, w, JwtColumns, JwtColumns)
  \/ a = 4 /\ s = 0 /\ Plain(t, JwtColumns, w)

\* What a server that starts may find in tables t.
Found(t) ==
  \/ Shape(applied, 0, t, wrote)
  \/ driver = "mysql" /\ interrupted /\ \E s \in 1 .. 4 : Shape(applied, s, t, wrote)

Progress ==
  /\ IF state = "migrating" /\ statement # 0 THEN Shape(applied, statement, work, wrote)
                                             ELSE Found(work) /\ work = tables
  /\ IF driver = "mysql" THEN tables = work ELSE Shape(applied, 0, tables, wrote)
  /\ state = "up" => applied = 4
  /\ state = "fatal" => driver = "mysql" /\ interrupted

MigrationInv == TypeOK /\ Lasts(applied, wrote) /\ Progress

(*****************************************************************************)
(* The statements of each migration                                          *)
(*****************************************************************************)

LEMMA NamesAndColumns ==
  /\ Name = {"uploads", "new_uploads"} /\ "uploads" # "new_uploads"
  /\ FirstColumns \subseteq DeletedColumns /\ DeletedColumns \subseteq JwtColumns
  /\ "deleted" \notin FirstColumns /\ FirstColumns \union {"deleted"} = DeletedColumns
  /\ "deleted" \in JwtColumns
  BY DEF Name, FirstColumns, DeletedColumns, JwtColumns

LEMMA FourMigrations == Len(Migrations) = 4
  BY DEF Migrations

LEMMA FirstMigration ==
  ASSUME NEW a, a = 0
  PROVE  Len(Migrations[a + 1]) = 1 /\ Migrations[a + 1][1] = Create("uploads", FirstColumns)
  BY DEF Migrations

LEMMA SecondMigration ==
  ASSUME NEW a, a = 1
  PROVE  Len(Migrations[a + 1]) = 1 /\ Migrations[a + 1][1] = Add("uploads", "deleted")
  BY DEF Migrations

LEMMA ThirdMigration ==
  ASSUME NEW a, a = 2
  PROVE  Migrations[a + 1] = Rebuild(DeletedColumns, DeletedColumns \ {"uploader_ip"})
  BY DEF Migrations

LEMMA FourthMigration ==
  ASSUME NEW a, a = 3
  PROVE  Migrations[a + 1] = Rebuild(JwtColumns, DeletedColumns)
  BY DEF Migrations

LEMMA FourStatements ==
  ASSUME NEW cols, NEW copied
  PROVE  /\ Len(Rebuild(cols, copied)) = 4
         /\ Rebuild(cols, copied)[1] = Create("new_uploads", cols)
         /\ Rebuild(cols, copied)[2] = Copy("uploads", "new_uploads", copied)
         /\ Rebuild(cols, copied)[3] = Drop("uploads")
         /\ Rebuild(cols, copied)[4] = Rename("new_uploads", "uploads")
  BY DEF Rebuild

LEMMA Lengths ==
  ASSUME NEW a \in 0 .. 3
  PROVE  Len(Migrations[a + 1]) = IF a \in {0, 1} THEN 1 ELSE 4
  <1>1. CASE a = 0  BY <1>1, FirstMigration
  <1>2. CASE a = 1  BY <1>2, SecondMigration
  <1>3. CASE a = 2  BY <1>3, ThirdMigration, FourStatements
  <1>4. CASE a = 3  BY <1>4, FourthMigration, FourStatements
  <1> QED BY <1>1, <1>2, <1>3, <1>4

(*****************************************************************************)
(* What each statement does to the tables                                    *)
(*****************************************************************************)

LEMMA NoRows == <<>> \in Rows /\ DOMAIN <<>> = {}
  <1>1. <<>> \in [{} -> SUBSET JwtColumns] /\ DOMAIN <<>> = {}
    OBVIOUS
  <1> QED BY <1>1 DEF Rows

LEMMA RowsAre ==
  /\ \A r : r \in Rows <=> \E S \in SUBSET Upload : r \in [S -> SUBSET JwtColumns]
  /\ \A r \in Rows : /\ DOMAIN r \subseteq Upload
                     /\ r \in [DOMAIN r -> SUBSET JwtColumns]
                     /\ \A u \in DOMAIN r : r[u] \subseteq JwtColumns
  BY DEF Rows

LEMMA TableFields ==
  ASSUME NEW x \in Table
  PROVE  /\ x.cols \subseteq JwtColumns /\ x.rows \in Rows /\ x # None
         /\ x = [cols |-> x.cols, rows |-> x.rows]
  BY NoneAssumption DEF Table

LEMMA MakeTable ==
  ASSUME NEW cols \in SUBSET JwtColumns, NEW rows \in Rows
  PROVE  [cols |-> cols, rows |-> rows] \in Table
  BY DEF Table

LEMMA Created ==
  ASSUME NEW t \in Tables, NEW name \in Name, NEW cols \in SUBSET JwtColumns
  PROVE  LET s == Create(name, cols)
             a == Effect(s, t)
         IN  /\ Succeeds(s, t) <=> t[name] = None
             /\ a \in Tables
             /\ a[name] \in Table /\ a[name].cols = cols /\ a[name].rows = <<>>
             /\ \A n \in Name \ {name} : a[n] = t[n]
  <1> DEFINE x == [cols |-> cols, rows |-> <<>>]
             s == Create(name, cols)
  <1>1. x \in Table
    BY NoRows, MakeTable
  <1>2. Effect(s, t) = [t EXCEPT ![name] = x]
    BY DEF Effect, Create
  <1>3. Succeeds(s, t) <=> t[name] = None
    BY DEF Succeeds, Create, Exists
  <1>4. x.cols = cols /\ x.rows = <<>>
    OBVIOUS
  <1> HIDE DEF x, s
  <1>5. [t EXCEPT ![name] = x] \in Tables
    BY <1>1 DEF Tables
  <1>6. /\ [t EXCEPT ![name] = x][name] = x
        /\ \A n \in Name \ {name} : [t EXCEPT ![name] = x][n] = t[n]
    BY DEF Tables
  <1> QED BY <1>1, <1>2, <1>3, <1>4, <1>5, <1>6 DEF s

LEMMA Added ==
  ASSUME NEW t \in Tables, NEW name \in Name, t[name] \in Table, NEW col \in JwtColumns
  PROVE  LET s == Add(name, col)
             a == Effect(s, t)
         IN  /\ Succeeds(s, t) <=> col \notin t[name].cols
             /\ a \in Tables
             /\ a[name] \in Table /\ a[name].cols = t[name].cols \union {col}
             /\ a[name].rows = t[name].rows
             /\ \A n \in Name \ {name} : a[n] = t[n]
  <1> DEFINE x == [t[name] EXCEPT !.cols = @ \union {col}]
             s == Add(name, col)
  <1>1. /\ x \in Table /\ x.cols = t[name].cols \union {col}
        /\ x.rows = t[name].rows
    BY DEF Table
  <1>2. Effect(s, t) = [t EXCEPT ![name] = x]
    BY DEF Effect, Add
  <1>3. Succeeds(s, t) <=> col \notin t[name].cols
    BY TableFields DEF Succeeds, Add, Exists
  <1> HIDE DEF x, s
  <1>5. [t EXCEPT ![name] = x] \in Tables
    BY <1>1 DEF Tables
  <1>6. /\ [t EXCEPT ![name] = x][name] = x
        /\ \A n \in Name \ {name} : [t EXCEPT ![name] = x][n] = t[n]
    BY DEF Tables
  <1> QED BY <1>1, <1>2, <1>3, <1>5, <1>6 DEF s

LEMMA CopiedTo ==
  ASSUME NEW t \in Tables, NEW from \in Name, NEW name \in Name,
         t[name] \in Table, t[from] \in Table, NEW cols \in SUBSET JwtColumns,
         cols \subseteq t[name].cols, cols \subseteq t[from].cols
  PROVE  LET s == Copy(from, name, cols)
             a == Effect(s, t)
         IN  /\ Succeeds(s, t)
             /\ a \in Tables
             /\ a[name] \in Table /\ a[name].cols = t[name].cols
             /\ DOMAIN a[name].rows = DOMAIN t[from].rows
             /\ \A u \in DOMAIN t[from].rows :
                  a[name].rows[u] = t[from].rows[u] \intersect cols
             /\ \A n \in Name \ {name} : a[n] = t[n]
  <1> DEFINE r == t[from].rows
             c == [u \in DOMAIN r |-> r[u] \intersect cols]
             x == [t[name] EXCEPT !.rows = c]
             s == Copy(from, name, cols)
  <1>1. r \in Rows
    BY TableFields
  <1>2. c \in Rows
    BY <1>1, RowsAre
  <1>3. /\ x \in Table /\ x.cols = t[name].cols /\ x.rows = c
    BY <1>2 DEF Table
  <1>4. Effect(s, t) = [t EXCEPT ![name] = x]
    BY DEF Effect, Copy
  <1>5. Succeeds(s, t)
    BY TableFields DEF Succeeds, Copy, Exists
  <1> HIDE DEF x, s
  <1>6. [t EXCEPT ![name] = x] \in Tables
    BY <1>3 DEF Tables
  <1>7. /\ [t EXCEPT ![name] = x][name] = x
        /\ \A n \in Name \ {name} : [t EXCEPT ![name] = x][n] = t[n]
    BY DEF Tables
  <1> QED BY <1>3, <1>4, <1>5, <1>6, <1>7 DEF s

LEMMA Dropped ==
  ASSUME NEW t \in Tables, NEW name \in Name
  PROVE  LET s == Drop(name)
             a == Effect(s, t)
         IN  /\ Succeeds(s, t) <=> t[name] # None
             /\ a \in Tables /\ a[name] = None
             /\ \A n \in Name \ {name} : a[n] = t[n]
  BY DEF Succeeds, Effect, Drop, Exists, Tables

LEMMA Renamed ==
  ASSUME NEW t \in Tables, NEW from \in Name, NEW name \in Name \ {from}
  PROVE  LET s == Rename(from, name)
             a == Effect(s, t)
         IN  /\ Succeeds(s, t) <=> t[from] # None /\ t[name] = None
             /\ a \in Tables /\ a[name] = t[from] /\ a[from] = None
  BY DEF Succeeds, Effect, Rename, Exists, Tables

(*****************************************************************************)
(* One statement of a migration takes the tables to their next shape         *)
(*****************************************************************************)

LEMMA RebuildStep ==
  ASSUME NEW s \in 0 .. 3, NEW t \in Tables, NEW w,
         NEW old \in SUBSET JwtColumns, NEW new \in SUBSET JwtColumns,
         NEW copied, copied \subseteq old, copied \subseteq new,
         \A u \in DOMAIN w : w[u] \subseteq copied,
         Rebuilding(s, t, w, old, new)
  PROVE  LET st == Rebuild(new, copied)[s + 1]
         IN  /\ Succeeds(st, t)
             /\ Effect(st, t) \in Tables
             /\ Rebuilding(s + 1, Effect(st, t), w, old, new)
  <1> DEFINE st == Rebuild(new, copied)[s + 1]
             a == Effect(st, t)
  <1> USE NamesAndColumns
  <1>1. CASE s = 0
    <2>1. st = Create("new_uploads", new)
      BY <1>1, FourStatements
    <2>2. Plain(t, old, w)
      BY <1>1 DEF Rebuilding
    <2> HIDE DEF st
    <2>3. /\ Succeeds(st, t) /\ a \in Tables
          /\ a["new_uploads"] \in Table /\ a["new_uploads"].cols = new
          /\ a["uploads"] = t["uploads"]
      BY <2>1, <2>2, Created DEF Plain
    <2> HIDE DEF a
    <2>4. Rebuilding(1, a, w, old, new)
      BY <2>2, <2>3 DEF Rebuilding, Plain, Has, Holds
    <2> QED BY <1>1, <2>3, <2>4 DEF st, a
  <1>2. CASE s = 1
    <2>1. st = Copy("uploads", "new_uploads", copied)
      BY <1>2, FourStatements
    <2>2. /\ Has(t, "uploads", old) /\ Holds(t, "uploads", w)
          /\ Has(t, "new_uploads", new)
      BY <1>2 DEF Rebuilding
    <2> HIDE DEF st
    <2>3. /\ Succeeds(st, t) /\ a \in Tables
          /\ a["new_uploads"] \in Table /\ a["new_uploads"].cols = new
          /\ DOMAIN a["new_uploads"].rows = DOMAIN t["uploads"].rows
          /\ \A u \in DOMAIN t["uploads"].rows :
               a["new_uploads"].rows[u] = t["uploads"].rows[u] \intersect copied
          /\ a["uploads"] = t["uploads"]
      BY <2>1, <2>2, CopiedTo DEF Has
    <2> HIDE DEF a
    <2>4. Holds(a, "new_uploads", w)
      BY <2>2, <2>3 DEF Holds
    <2>5. Rebuilding(2, a, w, old, new)
      BY <2>2, <2>3, <2>4 DEF Rebuilding, Has, Holds
    <2> QED BY <1>2, <2>3, <2>5 DEF st, a
  <1>3. CASE s = 2
    <2>1. st = Drop("uploads")
      BY <1>3, FourStatements
    <2>2. /\ Has(t, "uploads", old)
          /\ Has(t, "new_uploads", new) /\ Holds(t, "new_uploads", w)
      BY <1>3 DEF Rebuilding
    <2> HIDE DEF st
    <2>3. t["uploads"] # None
      BY <2>2, TableFields DEF Has
    <2>4. /\ Succeeds(st, t) /\ a \in Tables /\ a["uploads"] = None
          /\ a["new_uploads"] = t["new_uploads"]
      BY <2>1, <2>3, Dropped
    <2> HIDE DEF a
    <2>5. Rebuilding(3, a, w, old, new)
      BY <2>2, <2>4 DEF Rebuilding, Has, Holds
    <2> QED BY <1>3, <2>4, <2>5 DEF st, a
  <1>4. CASE s = 3
    <2>1. st = Rename("new_uploads", "uploads")
      BY <1>4, FourStatements
    <2>2. /\ t["uploads"] = None
          /\ Has(t, "new_uploads", new) /\ Holds(t, "new_uploads", w)
      BY <1>4 DEF Rebuilding
    <2> HIDE DEF st
    <2>3. t["new_uploads"] # None
      BY <2>2, TableFields DEF Has
    <2>4. /\ Succeeds(st, t) /\ a \in Tables
          /\ a["uploads"] = t["new_uploads"] /\ a["new_uploads"] = None
      BY <2>1, <2>2, <2>3, Renamed
    <2> HIDE DEF a
    <2>5. Rebuilding(4, a, w, old, new)
      BY <2>2, <2>4 DEF Rebuilding, Plain, Has, Holds
    <2> QED BY <1>4, <2>4, <2>5 DEF st, a
  <1> QED BY <1>1, <1>2, <1>3, <1>4

LEMMA StatementStep ==
  ASSUME NEW a \in 0 .. 3, NEW s \in 0 .. 4, NEW t \in Tables, NEW w \in Rows,
         Lasts(a, w), Shape(a, s, t, w), s < Len(Migrations[a + 1])
  PROVE  LET st == Migrations[a + 1][s + 1]
         IN  /\ Succeeds(st, t)
             /\ Effect(st, t) \in Tables
             /\ Shape(a, s + 1, Effect(st, t), w)
  <1> DEFINE st == Migrations[a + 1][s + 1]
             after == Effect(st, t)
  <1>0. (a \in {0, 1} => s < 1) /\ s < 4
    <2>1. Len(Migrations[a + 1]) = IF a \in {0, 1} THEN 1 ELSE 4
      BY Lengths
    <2> HIDE DEF st, after
    <2> QED BY <2>1
  <1>1. CASE a = 0
    <2>0. s = 0
      BY <1>0, <1>1
    <2>1. s = 0 /\ st = Create("uploads", FirstColumns)
      BY <1>1, <2>0, FirstMigration
    <2>2. t["uploads"] = None /\ t["new_uploads"] = None
      BY <1>1, <2>1 DEF Shape
    <2> HIDE DEF st
    <2>3. /\ Succeeds(st, t) /\ after \in Tables
          /\ after["uploads"] \in Table /\ after["uploads"].cols = FirstColumns
          /\ after["new_uploads"] = None
      BY <2>1, <2>2, Created, NamesAndColumns
    <2> HIDE DEF after
    <2>4. Plain(after, FirstColumns, w)
      <3>1. DOMAIN w = {}
        BY <1>1 DEF Lasts
      <3> QED BY <2>3, <3>1 DEF Plain, Has, Holds
    <2> QED BY <1>1, <2>1, <2>3, <2>4 DEF st, after, Shape
  <1>2. CASE a = 1
    <2>1. s = 0 /\ st = Add("uploads", "deleted")
      BY <1>2, SecondMigration
    <2>2. Plain(t, FirstColumns, w)
      BY <1>2, <2>1 DEF Shape
    <2> HIDE DEF st
    <2>3. /\ Succeeds(st, t) /\ after \in Tables
          /\ after["uploads"] \in Table /\ after["uploads"].cols = DeletedColumns
          /\ after["uploads"].rows = t["uploads"].rows
          /\ after["new_uploads"] = None
      <3>1. /\ t["uploads"] \in Table /\ t["uploads"].cols = FirstColumns
            /\ t["new_uploads"] = None
        BY <2>2 DEF Plain, Has
      <3>2. "deleted" \notin FirstColumns /\ "deleted" \in JwtColumns
        BY NamesAndColumns
      <3>3. /\ Succeeds(st, t) /\ after \in Tables
            /\ after["uploads"] \in Table
            /\ after["uploads"].cols = FirstColumns \union {"deleted"}
            /\ after["uploads"].rows = t["uploads"].rows
            /\ \A n \in Name \ {"uploads"} : after[n] = t[n]
        BY <2>1, <3>1, <3>2, Added DEF Name
      <3> QED BY <3>1, <3>3, NamesAndColumns
    <2> HIDE DEF after
    <2>4. Plain(after, DeletedColumns, w)
      BY <2>2, <2>3 DEF Plain, Has, Holds
    <2> QED BY <1>2, <2>1, <2>3, <2>4 DEF st, after, Shape
  <1>3. CASE a = 2
    <2> DEFINE copied == DeletedColumns \ {"uploader_ip"}
    <2>0. s \in 0 .. 3
      BY <1>0, <1>3
    <2>1. st = Rebuild(DeletedColumns, copied)[s + 1]
      BY <1>3, ThirdMigration
    <2>2. Rebuilding(s, t, w, DeletedColumns, DeletedColumns)
      BY <1>3 DEF Shape
    <2>3. \A u \in DOMAIN w : w[u] \subseteq copied
      BY <1>3 DEF Lasts, Copied
    <2>4. copied \subseteq DeletedColumns
      OBVIOUS
    <2> HIDE DEF st, copied
    <2>5. /\ Succeeds(st, t) /\ after \in Tables
          /\ Rebuilding(s + 1, after, w, DeletedColumns, DeletedColumns)
      BY <2>0, <2>1, <2>2, <2>3, <2>4, RebuildStep, NamesAndColumns
    <2> QED BY <1>3, <2>5 DEF st, after, Shape
  <1>4. CASE a = 3
    <2>1. s \in 0 .. 3 /\ st = Rebuild(JwtColumns, DeletedColumns)[s + 1]
      BY <1>4, Lengths, FourthMigration
    <2>2. PICK old \in {DeletedColumns, JwtColumns} : Rebuilding(s, t, w, old, JwtColumns)
      BY <1>4 DEF Shape
    <2>3. \A u \in DOMAIN w : w[u] \subseteq DeletedColumns
      BY <1>4 DEF Lasts, Copied
    <2> HIDE DEF st
    <2>5. /\ Succeeds(st, t) /\ after \in Tables
          /\ Rebuilding(s + 1, after, w, old, JwtColumns)
      BY <2>1, <2>2, <2>3, RebuildStep, NamesAndColumns
    <2> QED BY <1>4, <2>2, <2>5 DEF st, after, Shape
  <1> QED BY <1>1, <1>2, <1>3, <1>4

\* After an interrupted migration the first statement fails, or the migration had
\* been done and its tables are as before it.
LEMMA DoneAgain ==
  ASSUME NEW a \in 0 .. 3, NEW s \in 1 .. 4, NEW t \in Tables, NEW w,
         Shape(a, s, t, w), Succeeds(Migrations[a + 1][1], t)
  PROVE  Shape(a, 0, t, w)
  <1> USE NamesAndColumns
  <1>1. CASE a = 0
    <2>1. t["uploads"] \in Table
      BY <1>1 DEF Shape, Plain, Has
    <2>2. Migrations[a + 1][1] = Create("uploads", FirstColumns)
      BY <1>1, FirstMigration
    <2> QED BY <2>1, <2>2, TableFields, Created
  <1>2. CASE a = 1
    <2>1. t["uploads"] \in Table /\ "deleted" \in t["uploads"].cols
      BY <1>2 DEF Shape, Plain, Has
    <2>2. Migrations[a + 1][1] = Add("uploads", "deleted")
      BY <1>2, SecondMigration
    <2> QED BY <2>1, <2>2, Added
  <1>3. CASE a \in {2, 3}
    <2>1. PICK cols \in SUBSET JwtColumns : Migrations[a + 1][1] = Create("new_uploads", cols)
      BY <1>3, ThirdMigration, FourthMigration, FourStatements
    <2>2. t["new_uploads"] = None
      BY <2>1, Created
    <2>3. t["new_uploads"] \notin Table
      BY <2>2, TableFields
    <2> QED BY <1>3, <2>3 DEF Shape, Rebuilding, Has
  <1> QED BY <1>1, <1>2, <1>3

\* A migration that is recorded leaves what the next one finds.
LEMMA NextMigration ==
  ASSUME NEW a \in 0 .. 3, NEW s \in 1 .. 4, NEW t \in Tables, NEW w,
         Shape(a, s, t, w), s = Len(Migrations[a + 1])
  PROVE  Shape(a + 1, 0, t, w)
  <1>1. s = IF a \in {0, 1} THEN 1 ELSE 4
    BY Lengths
  <1> QED BY <1>1 DEF Shape, Rebuilding

LEMMA LastsNext ==
  ASSUME NEW a \in 0 .. 3, NEW w, Lasts(a, w)
  PROVE  Lasts(a + 1, w)
  BY NamesAndColumns DEF Lasts, Copied

\* Whatever has been done, some table holds every record.
LEMMA ShapeHolds ==
  ASSUME NEW a \in 0 .. 4, NEW s \in 0 .. 4, NEW t \in Tables, NEW w,
         Lasts(a, w), Shape(a, s, t, w)
  PROVE  DOMAIN w = {} \/ \E n \in Name : t[n] \in Table /\ Holds(t, n, w)
  BY NamesAndColumns DEF Shape, Rebuilding, Plain, Has, Lasts

(*****************************************************************************)
(* MigrationInv is inductive                                                 *)
(*****************************************************************************)

LEMMA InitMigration == Init => MigrationInv
  <1> SUFFICES ASSUME Init
               PROVE  MigrationInv
    OBVIOUS
  <1> USE NamesAndColumns
  <1>1. /\ applied \in 0 .. 4 /\ statement = 0 /\ state = "down" /\ work = tables
        /\ driver \in {"sqlite3", "mysql"} /\ crashes = 0 /\ interrupted = FALSE
    BY FourMigrations DEF Init
  <1>2. /\ tables \in Tables /\ wrote \in Rows
        /\ Lasts(applied, wrote) /\ Shape(applied, 0, tables, wrote)
    <2>1. CASE applied = 0
      <3>1. tables = [n \in Name |-> None] /\ wrote = <<>>
        BY <2>1 DEF Init
      <3> QED BY <2>1, <3>1, NoRows DEF Tables, Lasts, Shape
    <2>2. CASE applied # 0
      <3> DEFINE cols == VersionColumns[applied]
      <3>1. PICK S \in SUBSET Upload :
              /\ tables = [n \in Name |->
                   IF n = "uploads" THEN [cols |-> cols, rows |-> [u \in S |-> cols]]
                                    ELSE None]
              /\ wrote = [u \in S |-> Lasting(applied, cols)]
        BY <2>2 DEF Init
      <3>2. /\ applied = 1 => cols = FirstColumns
            /\ applied \in {2, 3} => cols = DeletedColumns
            /\ applied = 4 => cols = JwtColumns
        BY <1>1, <2>2 DEF VersionColumns
      <3>3. cols \subseteq JwtColumns /\ Lasting(applied, cols) \subseteq cols
        BY <1>1, <2>2, <3>2 DEF Lasting
      <3>4. Lasting(applied, cols) \subseteq Copied(applied)
        BY <1>1, <2>2, <3>2 DEF Lasting, Copied
      <3> HIDE DEF cols
      <3>5. [u \in S |-> cols] \in Rows /\ wrote \in Rows
        BY <3>1, <3>3, RowsAre
      <3>6. /\ tables["uploads"] = [cols |-> cols, rows |-> [u \in S |-> cols]]
            /\ tables["new_uploads"] = None /\ tables \in [Name -> {tables["uploads"], None}]
        BY <3>1
      <3>7. tables["uploads"] \in Table
        BY <3>3, <3>5, <3>6, MakeTable
      <3>8. tables \in Tables
        BY <3>6, <3>7 DEF Tables
      <3>9. Plain(tables, cols, wrote)
        BY <3>1, <3>3, <3>6, <3>7 DEF Plain, Has, Holds
      <3>10. Lasts(applied, wrote)
        BY <2>2, <3>1, <3>4 DEF Lasts
      <3>11. Shape(applied, 0, tables, wrote)
        BY <1>1, <2>2, <3>2, <3>9 DEF Shape, Rebuilding
      <3> QED BY <3>5, <3>8, <3>10, <3>11
    <2> QED BY <2>1, <2>2
  <1>3. crashes \in 0 .. MaxCrashes /\ statement \in 0 .. 4
    <2>1. 0 \in 0 .. MaxCrashes /\ 0 \in 0 .. 4
      BY MigrationsAssumption
    <2> QED BY <1>1, <2>1
  <1>4. TypeOK
    BY <1>1, <1>2, <1>3, Zenon DEF TypeOK
  <1>5. Progress
    BY <1>1, <1>2 DEF Progress, Found
  <1> QED BY <1>2, <1>4, <1>5 DEF MigrationInv

\* What an action needs of MigrationInv, in cases.
LEMMA Facts ==
  ASSUME MigrationInv
  PROVE  /\ TypeOK /\ Lasts(applied, wrote) /\ Progress
         /\ tables \in Tables /\ work \in Tables /\ wrote \in Rows
         /\ applied \in 0 .. 4 /\ statement \in 0 .. 4
         /\ Pending => applied \in 0 .. 3
         /\ applied = 4 => \A t, s : Shape(applied, s, t, wrote) => s = 0
  BY FourMigrations DEF MigrationInv, TypeOK, Pending, Shape

LEMMA StartStep ==
  ASSUME MigrationInv, Start
  PROVE  MigrationInv'
  <1> USE Facts
  <1>1. TypeOK'
    BY DEF TypeOK, Start
  <1>2. Lasts(applied, wrote)'
    BY DEF Start
  <1>3. Progress'
    BY DEF Start, Progress, Found
  <1> QED BY <1>1, <1>2, <1>3 DEF MigrationInv

LEMMA ExecStep ==
  ASSUME MigrationInv, Exec
  PROVE  MigrationInv'
  <1> USE Facts
  <1> DEFINE st == Migration[statement + 1]
  <1>1. /\ Pending /\ state = "migrating" /\ applied \in 0 .. 3
        /\ statement \in 0 .. 4 /\ statement < Len(Migrations[applied + 1])
        /\ st = Migrations[applied + 1][statement + 1]
        /\ Succeeds(st, work) /\ work' = Effect(st, work)
        /\ tables' = IF driver = "mysql" THEN work' ELSE tables
        /\ statement' = statement + 1
        /\ UNCHANGED <<driver, applied, state, crashes, wrote, interrupted>>
    BY DEF Exec, Pending, Migration, Durable
  <1>2. Len(Migrations[applied + 1]) \in {1, 4}
    BY <1>1, Lengths
  <1> HIDE DEF st
  <1>3. Shape(applied, statement, work, wrote)
    <2>1. CASE statement # 0
      BY <1>1, <2>1 DEF Progress
    <2>2. CASE statement = 0 /\ ~Shape(applied, 0, work, wrote)
      <3>1. PICK s \in 1 .. 4 : Shape(applied, s, work, wrote)
        BY <1>1, <2>2 DEF Progress, Found
      <3>2. Succeeds(Migrations[applied + 1][1], work)
        BY <1>1, <2>2
      <3>3. Shape(applied, 0, work, wrote)
        BY <1>1, <3>1, <3>2, DoneAgain
      <3> QED BY <2>2, <3>3
    <2> QED BY <2>1, <2>2
  <1>4. Effect(st, work) \in Tables /\ Shape(applied, statement + 1, Effect(st, work), wrote)
    BY <1>1, <1>3, StatementStep
  <1>5. work' \in Tables /\ Shape(applied, statement', work', wrote)
    BY <1>1, <1>4
  <1>6. TypeOK'
    BY <1>1, <1>2, <1>5 DEF TypeOK
  <1>7. Lasts(applied, wrote)'
    BY <1>1
  <1>8. Progress'
    BY <1>1, <1>5 DEF Progress
  <1> QED BY <1>6, <1>7, <1>8 DEF MigrationInv

LEMMA ExecFailsStep ==
  ASSUME MigrationInv, ExecFails
  PROVE  MigrationInv'
  <1> USE Facts
  <1> DEFINE st == Migrations[applied + 1][statement + 1]
  <1>1. /\ Pending /\ state = "migrating" /\ applied \in 0 .. 3
        /\ statement \in 0 .. 4 /\ statement < Len(Migrations[applied + 1])
        /\ ~Succeeds(st, work)
        /\ state' = "fatal" /\ work' = tables
        /\ UNCHANGED <<driver, tables, applied, statement, crashes, wrote, interrupted>>
    BY DEF ExecFails, Pending, Migration
  <1>2. ~Shape(applied, statement, work, wrote)
    BY <1>1, StatementStep
  <1> HIDE DEF st
  <1>3. statement = 0 /\ Found(work) /\ work = tables
    BY <1>1, <1>2 DEF Progress
  <1>4. driver = "mysql" /\ interrupted
    BY <1>2, <1>3 DEF Found
  <1>5. TypeOK'
    BY <1>1 DEF TypeOK
  <1>6. Lasts(applied, wrote)'
    BY <1>1
  <1>7. Progress'
    BY <1>1, <1>3, <1>4 DEF Progress, Found
  <1> QED BY <1>5, <1>6, <1>7 DEF MigrationInv

LEMMA CommitStep ==
  ASSUME MigrationInv, Commit
  PROVE  MigrationInv'
  <1> USE Facts
  <1>1. /\ Pending /\ state = "migrating" /\ applied \in 0 .. 3
        /\ statement \in 0 .. 4 /\ statement = Len(Migrations[applied + 1])
        /\ applied' = applied + 1 /\ tables' = work /\ statement' = 0
        /\ UNCHANGED <<driver, work, state, crashes, wrote, interrupted>>
    BY DEF Commit, Pending, Migration
  <1>2. statement \in 1 .. 4
    BY <1>1, Lengths
  <1>3. Shape(applied, statement, work, wrote)
    <2>1. statement # 0
      BY <1>2
    <2> QED BY <1>1, <2>1 DEF Progress
  <1>4. Shape(applied + 1, 0, work, wrote)
    BY <1>1, <1>2, <1>3, NextMigration
  <1>5. Lasts(applied, wrote)'
    <2>1. Lasts(applied + 1, wrote)
      BY <1>1, LastsNext
    <2> QED BY <1>1, <2>1
  <1>6. TypeOK'
    BY <1>1 DEF TypeOK
  <1>7. Progress'
    BY <1>1, <1>4 DEF Progress, Found
  <1> QED BY <1>5, <1>6, <1>7 DEF MigrationInv

LEMMA UpStep ==
  ASSUME MigrationInv, Up
  PROVE  MigrationInv'
  <1> USE Facts
  <1>1. TypeOK'
    BY DEF TypeOK, Up
  <1>2. Lasts(applied, wrote)'
    BY DEF Up
  <1>3. Progress'
    BY FourMigrations DEF Up, Progress, Found
  <1> QED BY <1>1, <1>2, <1>3 DEF MigrationInv

LEMMA AddUploadStep ==
  ASSUME MigrationInv, AddUpload
  PROVE  MigrationInv'
  <1> USE Facts
  <1>1. state = "up" /\ work' = tables'
        /\ UNCHANGED <<driver, applied, statement, state, crashes, interrupted>>
    BY DEF AddUpload
  <1>2. applied = 4 /\ Plain(tables, JwtColumns, wrote)
    BY <1>1 DEF Progress, Found, Shape
  <1> DEFINE Rec == tables["uploads"]
             With(f, u) == [v \in DOMAIN f \union {u} |-> IF v = u THEN JwtColumns ELSE f[v]]
  <1>3. PICK u \in Upload \ DOMAIN wrote :
          /\ tables' = [tables EXCEPT !["uploads"].rows = With(@, u)]
          /\ wrote' = With(wrote, u)
    BY DEF AddUpload
  <1>4. /\ Rec \in Table /\ Rec.cols = JwtColumns /\ Rec.rows \in Rows
    BY <1>2, TableFields DEF Plain, Has
  <1>5. \A f \in Rows : With(f, u) \in Rows
    BY RowsAre
  <1> DEFINE new == [Rec EXCEPT !.rows = With(Rec.rows, u)]
  <1>6. new \in Table /\ new.cols = JwtColumns /\ new.rows = With(Rec.rows, u)
    BY <1>4, <1>5 DEF Table
  <1>7. tables' = [tables EXCEPT !["uploads"] = new]
    BY <1>3
  <1> HIDE DEF new
  <1>8. tables'["uploads"] = new /\ tables'["new_uploads"] = None /\ tables' \in Tables
    BY <1>2, <1>6, <1>7, NamesAndColumns DEF Tables, Plain
  <1>9. Plain(tables', JwtColumns, wrote')
    BY <1>2, <1>3, <1>6, <1>8 DEF Plain, Has, Holds
  <1>10. wrote' \in Rows
    BY <1>3, <1>5
  <1>11. TypeOK'
    BY <1>1, <1>8, <1>10 DEF TypeOK
  <1>12. Lasts(applied', wrote')
    BY <1>1, <1>2, <1>3 DEF Lasts, Copied
  <1>13. Shape(applied', 0, tables', wrote')
    BY <1>1, <1>2, <1>9 DEF Shape
  <1>14. Progress'
    BY <1>1, <1>2, <1>13 DEF Progress, Found
  <1> QED BY <1>11, <1>12, <1>14 DEF MigrationInv

LEMMA CrashStep ==
  ASSUME MigrationInv, Crash
  PROVE  MigrationInv'
  <1> USE Facts
  <1>1. /\ state \in {"migrating", "up"} /\ state' = "down" /\ work' = tables
        /\ interrupted' = (interrupted \/ Pending)
        /\ crashes < MaxCrashes /\ crashes' = crashes + 1
        /\ UNCHANGED <<driver, tables, applied, statement, wrote>>
    BY DEF Crash
  <1>2. TypeOK'
    BY <1>1, MigrationsAssumption DEF TypeOK
  <1>3. Lasts(applied, wrote)'
    BY <1>1
  <1>4. Found(tables)'
    <2>1. CASE driver # "mysql"
      BY <1>1, <2>1 DEF Progress, Found
    <2>2. CASE driver = "mysql" /\ Found(work)
      BY <1>1, <2>2 DEF Progress, Found
    <2>3. CASE driver = "mysql" /\ ~Found(work)
      <3>1. state = "migrating" /\ statement \in 1 .. 4 /\ Shape(applied, statement, work, wrote)
        BY <2>3 DEF Progress
      <3>2. applied # 4
        BY <3>1
      <3>3. Pending
        BY <3>1, <3>2, FourMigrations DEF Pending
      <3> QED BY <1>1, <2>3, <3>1, <3>3 DEF Progress, Found
    <2> QED BY <2>1, <2>2, <2>3
  <1>5. Progress'
    BY <1>1, <1>4 DEF Progress, Found
  <1> QED BY <1>2, <1>3, <1>5 DEF MigrationInv

\* The process dies and starts at any moment, and the tables always look as after
\* some statement of the migration the records say is next.
THEOREM MigrationInvariant == Spec => []MigrationInv
  <1>1. Init => MigrationInv
    BY InitMigration
  <1>2. MigrationInv /\ [Next]_vars => MigrationInv'
    <2> SUFFICES ASSUME MigrationInv, [Next]_vars
                 PROVE  MigrationInv'
      OBVIOUS
    <2>1. CASE Start  BY <2>1, StartStep
    <2>2. CASE Exec  BY <2>2, ExecStep
    <2>3. CASE ExecFails  BY <2>3, ExecFailsStep
    <2>4. CASE Commit  BY <2>4, CommitStep
    <2>5. CASE Up  BY <2>5, UpStep
    <2>6. CASE AddUpload  BY <2>6, AddUploadStep
    <2>7. CASE Crash  BY <2>7, CrashStep
    <2>8. CASE UNCHANGED vars
      BY <2>8 DEF vars, MigrationInv, TypeOK, Progress, Found
    <2> QED BY <2>1, <2>2, <2>3, <2>4, <2>5, <2>6, <2>7, <2>8 DEF Next
  <1> QED BY <1>1, <1>2, PTL DEF Spec

(*****************************************************************************)
(* The properties                                                            *)
(*****************************************************************************)

\* No record is ever without its values on disk, whatever statement of a
\* migration the process dies after, in either database.
THEOREM RecordsLast == Spec => []RecordsSurvive
  <1>1. MigrationInv => RecordsSurvive
    <2> SUFFICES ASSUME MigrationInv, NEW u \in DOMAIN wrote
                 PROVE  \E n \in Name :
                          /\ Exists(tables, n)
                          /\ u \in DOMAIN tables[n].rows
                          /\ wrote[u] \subseteq tables[n].rows[u]
      BY DEF RecordsSurvive
    <2> USE Facts
    <2>1. PICK s \in 0 .. 4 : Shape(applied, s, tables, wrote)
      BY DEF Progress, Found
    <2>2. PICK n \in Name : tables[n] \in Table /\ Holds(tables, n, wrote)
      BY <2>1, ShapeHolds
    <2> QED BY <2>2, TableFields DEF Holds, Exists
  <1> QED BY <1>1, MigrationInvariant, PTL

\* A server that is up has the columns it queries; one that could not start has a
\* MySQL database in which a migration was interrupted.
THEOREM SchemaIsReady == Spec => []StartsWithItsSchema
  <1>1. MigrationInv => StartsWithItsSchema
    <2> SUFFICES ASSUME MigrationInv
                 PROVE  StartsWithItsSchema
      OBVIOUS
    <2> USE Facts
    <2>1. ASSUME state = "up"
          PROVE  /\ Exists(tables, "uploads") /\ ~Exists(tables, "new_uploads")
                 /\ tables["uploads"].cols = JwtColumns
      <3>1. Plain(tables, JwtColumns, wrote)
        BY <2>1 DEF Progress, Found, Shape
      <3> QED BY <3>1, TableFields DEF Plain, Has, Exists
    <2> QED BY <2>1 DEF StartsWithItsSchema, Progress
  <1> QED BY <1>1, MigrationInvariant, PTL
================================================================================
