---------------------------- MODULE ShardDirs_proofs ----------------------------
(*****************************************************************************)
(* Proofs about ShardDirs, for any number of uploads, goroutines and shard   *)
(* layers: the tree stays a tree with BasePath at its root, an operation     *)
(* finds a directory missing only if another one has removed some directory, *)
(* and removals that overlap leave no empty directory behind.                *)
(*****************************************************************************)
EXTENDS ShardDirs, TLAPS

Path == Seq(Name)
Steps == {"idle", "mkmeta", "mkincomplete", "mkcomplete", "create", "info", "rename",
          "getinfo", "unlock", "stat", "remove", "check", "rmdir", "mark"}
Kinds == {"info", "lock", "bin"}
FileType == [dir : Path, kind : Kinds \union {"none"}, id : Id \union {None}]
ProcType == [at : Steps, op : {"none", "POST", "PATCH", "DELETE", "gc"},
             id : Id \union {None}, level : Nat, bin : FileType, target : FileType,
             dir : Path, hurt : BOOLEAN]

(*****************************************************************************)
(* What a goroutine knows of the tree D as long as nothing was removed       *)
(*****************************************************************************)
GoalOf(r) == CASE r.at = "mkmeta" -> MetaDir(r.id)
               [] r.at = "mkincomplete" -> IncompleteBinDir
               [] r.at = "mkcomplete" -> CompleteBinDir(r.id)

MakingOf(r) == r.at \in {"mkmeta", "mkincomplete", "mkcomplete"}

Knows(r, D) ==
  /\ MakingOf(r) /\ r.level > 0 => SubSeq(GoalOf(r), 1, r.level - 1) \in D
  /\ r.at \in {"mkincomplete", "create", "info"} => MetaDir(r.id) \in D
  /\ r.at = "create" => IncompleteBinDir \in D
  /\ r.at = "rename" => CompleteBinDir(r.id) \in D
  /\ r.at = "remove" => r.target.dir \in D
  /\ r.at \in {"check", "rmdir"} => r.dir \in D

Sane(r) == /\ IF r.at = "idle" THEN r.op = "none" ELSE r.id \in Id
           /\ IF MakingOf(r) THEN r.level <= Len(GoalOf(r)) ELSE r.level = 0
           /\ r.at = "rmdir" => r.dir # <<>>

Tree(D) == /\ <<>> \in D /\ D \subseteq Path
           /\ \A d \in D \ {<<>>} : Front(d) \in D

InTree(f) == f \in FileType /\ f.dir \in dirs /\ f.kind \in Kinds /\ f.id \in Id

Files == \A f \in files : InTree(f)

Holds(r, id) == r.id = id /\ r.op \in {"PATCH", "DELETE"}

Locks == \A id \in Id : Lock(id) \in files => \E w \in Worker : Holds(proc[w], id)

Recorded(r, R, H) ==
  /\ r.at \in {"getinfo", "stat", "remove", "check", "rmdir", "mark"} => r.id \in R
  /\ r.at \in {"mkcomplete", "rename"} => r.id \in H

Rows == /\ rows \subseteq Id /\ marked \subseteq rows /\ hashed \subseteq rows
        /\ \A p \in Proc : Recorded(proc[p], rows, hashed)

Procs == /\ proc \in [Proc -> ProcType]
         /\ \A p \in Proc : Sane(proc[p]) /\ (~proc[p].hurt => Knows(proc[p], dirs))

IndInv == Tree(dirs) /\ Files /\ Locks /\ Rows /\ Procs

(*****************************************************************************)
(* Paths                                                                     *)
(*****************************************************************************)
LEMMA OneName ==
  ASSUME NEW name \in Name
  PROVE  <<name>> \in Path /\ Len(<<name>>) = 1
BY DEF Path

LEMMA Paths ==
  ASSUME NEW id \in Id
  PROVE  /\ MetaDir(id) \in Path /\ Len(MetaDir(id)) >= 1
         /\ CompleteBinDir(id) \in Path /\ Len(CompleteBinDir(id)) >= 1
<1>1. IdShards[id] \in Path /\ HashShards[id] \in Path
  BY DirsAssumption DEF Path
<1>2. /\ <<"meta">> \in Path /\ Len(<<"meta">>) = 1
      /\ <<"complete">> \in Path /\ Len(<<"complete">>) = 1
  BY OneName, DirsAssumption
<1> QED BY <1>1, <1>2 DEF MetaDir, CompleteBinDir, Path

LEMMA IncompletePath == IncompleteBinDir \in Path /\ Len(IncompleteBinDir) >= 1
BY OneName, DirsAssumption DEF IncompleteBinDir

LEMMA FrontIsShorter ==
  ASSUME NEW d \in Path, d # <<>>
  PROVE  Front(d) \in Path /\ Front(d) # d
<1>1. Len(d) \in Nat /\ Len(d) >= 1
  BY DEF Path
<1>2. Front(d) = SubSeq(d, 1, Len(d) - 1)
  BY DEF Front
<1> QED BY <1>1, <1>2 DEF Path

\* The directories above a goal are its prefixes.
LEMMA PrefixLength ==
  ASSUME NEW goal \in Path, NEW n \in 0 .. Len(goal)
  PROVE  SubSeq(goal, 1, n) \in Path /\ Len(SubSeq(goal, 1, n)) = n
BY DEF Path

LEMMA PrefixOfPrefix ==
  ASSUME NEW goal \in Path, NEW n \in 1 .. Len(goal)
  PROVE  SubSeq(SubSeq(goal, 1, n), 1, n - 1) = SubSeq(goal, 1, n - 1)
BY DEF Path

LEMMA FrontOfPrefix ==
  ASSUME NEW goal \in Path, NEW n \in 1 .. Len(goal)
  PROVE  Front(SubSeq(goal, 1, n)) = SubSeq(goal, 1, n - 1)
<1>1. Front(SubSeq(goal, 1, n)) = SubSeq(SubSeq(goal, 1, n), 1, n - 1)
  BY DEF Path, Front
<1>2. QED BY <1>1, PrefixOfPrefix

LEMMA WholePrefix ==
  ASSUME NEW goal \in Path
  PROVE  SubSeq(goal, 1, Len(goal)) = goal
BY DEF Path

LEMMA Goals ==
  ASSUME NEW r \in ProcType, Sane(r), MakingOf(r)
  PROVE  GoalOf(r) \in Path /\ Len(GoalOf(r)) \in Nat /\ Len(GoalOf(r)) >= 1
<1>1. r.id \in Id
  BY DEF Sane, MakingOf
<1>2. GoalOf(r) \in Path /\ Len(GoalOf(r)) >= 1
  <2>1. CASE r.at = "mkmeta"
    BY <1>1, <2>1, Paths DEF GoalOf
  <2>2. CASE r.at = "mkincomplete"
    BY <2>2, IncompletePath DEF GoalOf
  <2>3. CASE r.at = "mkcomplete"
    BY <1>1, <2>3, Paths DEF GoalOf
  <2> QED BY <2>1, <2>2, <2>3 DEF MakingOf
<1> QED BY <1>2 DEF Path

\* New directories take nothing away from what a goroutine knows.
LEMMA KnowsMore ==
  ASSUME NEW r, NEW D, NEW E, D \subseteq E, Knows(r, D)
  PROVE  Knows(r, E)
BY DEF Knows

LEMMA IndInvInit == Init => IndInv
<1> SUFFICES ASSUME Init PROVE IndInv
  OBVIOUS
<1>1. Tree(dirs)
  BY DEF Init, Tree, Path
<1>2. Files /\ Locks
  BY DEF Init, Files, Locks
<1>3. Idle \in ProcType
  <2>1. <<>> \in Path
    BY DEF Path
  <2>2. NoFile \in FileType
    BY <2>1 DEF NoFile, File, FileType
  <2> QED BY <2>1, <2>2 DEF Idle, ProcType, Steps
<1>4. Sane(Idle) /\ Knows(Idle, dirs)
  BY DEF Sane, Knows, Idle, MakingOf
<1>5. Procs /\ Rows
  BY <1>3, <1>4 DEF Init, Procs, Rows, Recorded, Idle
<1> QED BY <1>1, <1>2, <1>5 DEF IndInv

\* BasePath is kept, lock files are held, and who finds a directory missing was
\* hurt.
LEMMA IndInvImplies == IndInv => TypeOK /\ FailsOnlyByRemoval
<1> SUFFICES ASSUME IndInv PROVE TypeOK /\ FailsOnlyByRemoval
  OBVIOUS
<1>1. TypeOK
  BY DEF IndInv, TypeOK, Tree, Files, InTree, Locks, Holds, Rows, Kinds
<1>2. ASSUME NEW p \in Proc, FindsDirMissing(p), ~proc[p].hurt PROVE FALSE
  <2>1. Knows(proc[p], dirs)
    BY <1>2 DEF IndInv, Procs
  <2>2. Making(p) => GoalOf(proc[p]) = Goal(p) /\ MakingOf(proc[p])
    BY DEF Making, MakingOf, Goal, GoalOf
  <2> QED BY <1>2, <2>1, <2>2 DEF FindsDirMissing, Knows
<1> QED BY <1>1, <1>2 DEF FailsOnlyByRemoval, IndInv, Procs, ProcType

(*****************************************************************************)
(* One goroutine's step                                                      *)
(*****************************************************************************)
\* r can be the next record of p.
Fits(r, p) == /\ r \in ProcType /\ Sane(r)
              /\ ~r.hurt => Knows(r, dirs')
              /\ Recorded(r, rows', hashed')
              /\ \A id \in Id : Holds(proc[p], id) => Holds(r, id) \/ Lock(id)' \notin files'

LEMMA OneStep ==
  ASSUME IndInv, NEW p \in Proc, NEW r, Fits(r, p),
         proc' = [proc EXCEPT ![p] = r],
         dirs \subseteq dirs', rows \subseteq rows', hashed \subseteq hashed',
         rows' \subseteq Id, hashed' \subseteq rows', marked' \subseteq rows',
         \A id \in Id : Lock(id) \in files' =>
                          Lock(id) \in files \/ (p \in Worker /\ Holds(r, id))
  PROVE  Procs' /\ Rows' /\ Locks'
<1>1. /\ proc \in [Proc -> ProcType] /\ proc' \in [Proc -> ProcType]
      /\ proc'[p] = r
      /\ \A q \in Proc : q # p => proc'[q] = proc[q]
  BY DEF IndInv, Procs, Fits
<1>2. ASSUME NEW q \in Proc
      PROVE  /\ Sane(proc'[q]) /\ (~proc'[q].hurt => Knows(proc'[q], dirs'))
             /\ Recorded(proc'[q], rows', hashed')
  <2>1. CASE q = p
    BY <1>1, <2>1 DEF Fits
  <2>2. CASE q # p
    <3>1. proc'[q] = proc[q] /\ Sane(proc[q]) /\ Recorded(proc[q], rows, hashed)
      BY <1>1, <2>2 DEF IndInv, Procs, Rows
    <3>2. ~proc[q].hurt => Knows(proc[q], dirs')
      BY KnowsMore DEF IndInv, Procs
    <3> QED BY <3>1, <3>2 DEF Recorded
  <2> QED BY <2>1, <2>2
<1>3. Procs' /\ Rows'
  BY <1>1, <1>2 DEF Procs, Rows
<1>4. ASSUME NEW id \in Id, Lock(id) \in files' PROVE \E w \in Worker : Holds(proc'[w], id)
  <2>1. Lock(id)' = Lock(id)
    BY DEF Lock, File, MetaDir
  <2>2. CASE Lock(id) \in files
    <3>1. PICK w \in Worker : Holds(proc[w], id)
      BY <2>2 DEF IndInv, Locks
    <3>2. Holds(proc'[w], id)
      BY <1>1, <1>4, <2>1, <3>1 DEF Fits, Proc
    <3> QED BY <3>2
  <2>3. CASE Lock(id) \notin files
    <3>1. p \in Worker /\ Holds(proc'[p], id)
      BY <1>1, <1>4, <2>3
    <3> QED BY <3>1
  <2> QED BY <2>2, <2>3
<1>5. Locks'
  BY <1>4 DEF Locks, Lock, File, MetaDir
<1> QED BY <1>3, <1>5

\* The record of an operation that ends.
Ended(r) == IF r.op \in {"PATCH", "DELETE"} THEN [Begin(r.op, r.id) EXCEPT !.at = "unlock"]
                                            ELSE Idle

LEMMA IdleRecord == /\ <<>> \in Path /\ NoFile \in FileType /\ Idle \in ProcType
                    /\ Sane(Idle) /\ \A D : Knows(Idle, D)
<1>1. <<>> \in Path
  BY DEF Path
<1>2. NoFile \in FileType
  BY <1>1 DEF NoFile, File, FileType
<1>3. Idle \in ProcType
  BY <1>1, <1>2 DEF Idle, ProcType, Steps
<1> QED BY <1>1, <1>2, <1>3 DEF Sane, Knows, Idle, MakingOf

LEMMA EndFits ==
  ASSUME IndInv, NEW p \in Proc, proc[p].at # "idle", End(p)
  PROVE  Fits(Ended(proc[p]), p) /\ proc' = [proc EXCEPT ![p] = Ended(proc[p])]
<1>1. proc[p] \in ProcType /\ proc[p].id \in Id
  BY DEF IndInv, Procs, Sane
<1>2. proc' = [proc EXCEPT ![p] = Ended(proc[p])]
  BY DEF End, Ended
<1>3. CASE proc[p].op \in {"PATCH", "DELETE"}
  <2> DEFINE r == [Begin(proc[p].op, proc[p].id) EXCEPT !.at = "unlock"]
  <2>1. /\ r.at = "unlock" /\ r.op = proc[p].op /\ r.id = proc[p].id /\ r.level = 0
        /\ r \in ProcType
    BY <1>1, <1>3, IdleRecord DEF Begin, Idle, ProcType, Steps
  <2>2. Ended(proc[p]) = r
    BY <1>3 DEF Ended
  <2> HIDE DEF r
  <2>3. Fits(r, p)
    BY <1>1, <2>1 DEF Fits, Sane, Knows, Recorded, Holds, MakingOf
  <2> QED BY <1>2, <2>2, <2>3
<1>4. CASE proc[p].op \notin {"PATCH", "DELETE"}
  <2>1. Ended(proc[p]) = Idle /\ Idle.at = "idle"
    BY <1>4 DEF Ended, Idle
  <2> QED BY <1>2, <1>4, <2>1, IdleRecord DEF Fits, Recorded, Holds
<1> QED BY <1>3, <1>4
(*****************************************************************************)
(* os.MkdirAll                                                               *)
(*****************************************************************************)
\* The directories of a goal are the goal itself and its prefixes.
LEMMA GoalFacts ==
  ASSUME IndInv, NEW p \in Proc, Making(p)
  PROVE  /\ proc[p] \in ProcType /\ Sane(proc[p]) /\ MakingOf(proc[p])
         /\ Goal(p) = GoalOf(proc[p])
         /\ Goal(p) \in Path /\ Len(Goal(p)) \in Nat /\ Len(Goal(p)) >= 1
         /\ proc[p].id \in Id /\ proc[p].level \in 0 .. Len(Goal(p))
<1>1. proc[p] \in ProcType /\ Sane(proc[p]) /\ MakingOf(proc[p])
  BY DEF IndInv, Procs, Making, MakingOf
<1>2. Goal(p) = GoalOf(proc[p])
  BY DEF Goal, GoalOf
<1>3. GoalOf(proc[p]) \in Path /\ Len(GoalOf(proc[p])) \in Nat /\ Len(GoalOf(proc[p])) >= 1
  BY <1>1, Goals
<1>4. proc[p].id \in Id /\ proc[p].level \in Nat /\ proc[p].level <= Len(GoalOf(proc[p]))
  BY <1>1 DEF Sane, MakingOf, ProcType
<1> QED BY <1>1, <1>2, <1>3, <1>4

\* When the goal is there, the goroutine knows it.
LEMMA MadeAllFits ==
  ASSUME IndInv, NEW p \in Proc, Making(p),
         ~proc[p].hurt => Goal(p) \in dirs', dirs \subseteq dirs',
         rows' = rows, hashed' = hashed
  PROVE  Fits(MadeAll(p), p)
<1> DEFINE r == MadeAll(p)
<1>1. /\ proc[p] \in ProcType /\ Sane(proc[p]) /\ proc[p].id \in Id
      /\ ~proc[p].hurt => Knows(proc[p], dirs')
      /\ Recorded(proc[p], rows, hashed)
  BY GoalFacts, KnowsMore DEF IndInv, Procs, Rows
<1>2. AfterMkdirAll(p) \in Steps
  BY DEF AfterMkdirAll, Making, Steps
<1>3. /\ r \in ProcType /\ r.at = AfterMkdirAll(p) /\ r.level = 0 /\ r.op = proc[p].op
      /\ r.id = proc[p].id /\ r.hurt = proc[p].hurt
  BY <1>1, <1>2 DEF MadeAll, ProcType
<1>4. \A id \in Id : Holds(proc[p], id) => Holds(r, id)
  BY <1>3 DEF Holds
<1> HIDE DEF r
<1>5. ASSUME proc[p].at = "mkmeta" PROVE Fits(r, p)
  <2>1. r.at = "mkincomplete" /\ Goal(p) = MetaDir(r.id)
    BY <1>3, <1>5 DEF AfterMkdirAll, Goal
  <2>2. Len(IncompleteBinDir) \in Nat /\ 0 <= Len(IncompleteBinDir)
    BY IncompletePath
  <2>3. Sane(r) /\ (~r.hurt => Knows(r, dirs'))
    BY <1>1, <1>3, <2>1, <2>2 DEF Sane, Knows, MakingOf, GoalOf
  <2> QED BY <1>3, <1>4, <2>1, <2>3 DEF Fits, Recorded
<1>6. ASSUME proc[p].at = "mkincomplete" PROVE Fits(r, p)
  <2>1. r.at = "create" /\ Goal(p) = IncompleteBinDir
    BY <1>3, <1>6 DEF AfterMkdirAll, Goal
  <2>2. Sane(r) /\ (~r.hurt => Knows(r, dirs'))
    BY <1>1, <1>3, <1>6, <2>1 DEF Sane, Knows, MakingOf
  <2> QED BY <1>3, <1>4, <2>1, <2>2 DEF Fits, Recorded
<1>7. ASSUME proc[p].at = "mkcomplete" PROVE Fits(r, p)
  <2>1. r.at = "rename" /\ Goal(p) = CompleteBinDir(r.id)
    BY <1>3, <1>7 DEF AfterMkdirAll, Goal
  <2>2. Sane(r) /\ (~r.hurt => Knows(r, dirs'))
    BY <1>1, <1>3, <2>1 DEF Sane, Knows, MakingOf
  <2> QED BY <1>1, <1>3, <1>4, <1>7, <2>1, <2>2 DEF Fits, Recorded
<1> QED BY <1>5, <1>6, <1>7 DEF Making, r

\* One level further.
LEMMA NextLevelFits ==
  ASSUME IndInv, NEW p \in Proc, Making(p),
         NEW n \in Nat, n + 1 <= Len(Goal(p)),
         ~proc[p].hurt => SubSeq(Goal(p), 1, n) \in dirs', dirs \subseteq dirs',
         rows' = rows, hashed' = hashed
  PROVE  Fits([proc[p] EXCEPT !.level = n + 1], p)
<1> DEFINE r == [proc[p] EXCEPT !.level = n + 1]
<1>1. /\ proc[p] \in ProcType /\ Sane(proc[p]) /\ MakingOf(proc[p])
      /\ ~proc[p].hurt => Knows(proc[p], dirs')
      /\ Recorded(proc[p], rows, hashed) /\ Goal(p) = GoalOf(proc[p])
  BY GoalFacts, KnowsMore DEF IndInv, Procs, Rows
<1>2. /\ r \in ProcType /\ r.at = proc[p].at /\ r.level = n + 1 /\ r.op = proc[p].op
      /\ r.id = proc[p].id /\ r.hurt = proc[p].hurt
  BY <1>1 DEF ProcType
<1> HIDE DEF r
<1>3. MakingOf(r) /\ GoalOf(r) = Goal(p) /\ r.level - 1 = n
  BY <1>1, <1>2 DEF MakingOf, GoalOf
<1>4. Sane(r)
  BY <1>1, <1>2, <1>3 DEF Sane, MakingOf
<1>5. ~r.hurt => Knows(r, dirs')
  <2> SUFFICES ASSUME ~r.hurt PROVE Knows(r, dirs')
    OBVIOUS
  <2>1. SubSeq(GoalOf(r), 1, r.level - 1) \in dirs'
    BY <1>2, <1>3
  <2>2. r.at \in {"mkincomplete", "create", "info"} => MetaDir(r.id) \in dirs'
    BY <1>1, <1>2 DEF Knows
  <2> QED BY <1>3, <2>1, <2>2 DEF Knows, MakingOf
<1> QED BY <1>1, <1>2, <1>4, <1>5 DEF Fits, Recorded, Holds, r

LEMMA StatDirsKeeps ==
  ASSUME IndInv, NEW p \in Proc, StatDirs(p)
  PROVE  IndInv'
<1>1. PICK n \in 0 .. Len(Goal(p)) :
        /\ SubSeq(Goal(p), 1, n) \in dirs
        /\ proc' = [proc EXCEPT ![p] = IF n = Len(Goal(p)) THEN MadeAll(p)
                                       ELSE [proc[p] EXCEPT !.level = n + 1]]
  BY DEF StatDirs
<1>2. Making(p) /\ UNCHANGED <<dirs, files, table>>
  BY DEF StatDirs
<1>3. Goal(p) \in Path /\ Len(Goal(p)) \in Nat
  BY <1>2, GoalFacts
<1>4. Procs' /\ Rows' /\ Locks'
  <2>1. CASE n = Len(Goal(p))
    <3>1. Goal(p) \in dirs
      BY <1>1, <1>3, <2>1, WholePrefix
    <3>2. Fits(MadeAll(p), p)
      BY <1>2, <3>1, MadeAllFits DEF table
    <3> QED BY <1>1, <1>2, <2>1, <3>2, OneStep DEF table, IndInv, Rows
  <2>2. CASE n # Len(Goal(p))
    <3>1. n \in Nat /\ n + 1 <= Len(Goal(p))
      BY <1>3, <2>2
    <3>2. Fits([proc[p] EXCEPT !.level = n + 1], p)
      BY <1>1, <1>2, <3>1, NextLevelFits DEF table
    <3> QED BY <1>1, <1>2, <2>2, <3>2, OneStep DEF table, IndInv, Rows
  <2> QED BY <2>1, <2>2
<1>5. Tree(dirs') /\ Files'
  BY <1>2 DEF IndInv, Files, InTree
<1> QED BY <1>4, <1>5 DEF IndInv

LEMMA MkdirKeeps ==
  ASSUME IndInv, NEW p \in Proc, Mkdir(p)
  PROVE  IndInv'
<1> DEFINE n == proc[p].level
           d == SubSeq(Goal(p), 1, n)
<1>1. /\ Making(p) /\ n > 0 /\ SubSeq(Goal(p), 1, n - 1) \in dirs
      /\ dirs' = dirs \union {d}
      /\ proc' = [proc EXCEPT ![p] = IF n = Len(Goal(p)) THEN MadeAll(p)
                                     ELSE [proc[p] EXCEPT !.level = n + 1]]
      /\ UNCHANGED <<files, table>>
  BY DEF Mkdir
<1>2. Goal(p) \in Path /\ Len(Goal(p)) \in Nat /\ n \in 1 .. Len(Goal(p))
  BY <1>1, GoalFacts
<1>3. d \in Path /\ Front(d) = SubSeq(Goal(p), 1, n - 1)
  BY <1>2, PrefixLength, FrontOfPrefix
<1> HIDE DEF n
<1>4. Procs' /\ Rows' /\ Locks'
  <2>1. CASE n = Len(Goal(p))
    <3>1. d = Goal(p)
      BY <1>2, <2>1, WholePrefix
    <3>2. Fits(MadeAll(p), p)
      BY <1>1, <3>1, MadeAllFits DEF table
    <3> HIDE DEF d
    <3> QED BY <1>1, <2>1, <3>2, OneStep DEF table, IndInv, Rows
  <2>2. CASE n # Len(Goal(p))
    <3>1. n \in Nat /\ n + 1 <= Len(Goal(p))
      BY <1>2, <2>2
    <3>2. Fits([proc[p] EXCEPT !.level = n + 1], p)
      BY <1>1, <3>1, NextLevelFits DEF table
    <3> HIDE DEF d
    <3> QED BY <1>1, <2>2, <3>2, OneStep DEF table, IndInv, Rows
  <2> QED BY <2>1, <2>2
<1>5. Tree(dirs')
  <2> HIDE DEF d
  <2> QED BY <1>1, <1>3 DEF IndInv, Tree, d
<1>6. Files'
  <2> HIDE DEF d
  <2> QED BY <1>1 DEF IndInv, Files, InTree
<1> QED BY <1>4, <1>5, <1>6 DEF IndInv
(*****************************************************************************)
(* The end of an operation                                                   *)
(*****************************************************************************)
LEMMA FileFacts ==
  ASSUME NEW id \in Id, NEW dir \in Path, NEW kind \in Kinds
  PROVE  File(dir, kind, id) \in FileType /\ File(dir, kind, id).dir = dir
         /\ File(dir, kind, id).kind = kind /\ File(dir, kind, id).id = id
BY DEF File, FileType

LEMMA TheFiles ==
  ASSUME NEW id \in Id
  PROVE  /\ Bin(id) \in FileType /\ Bin(id).kind = "bin" /\ Bin(id).id = id
         /\ Info(id) \in FileType /\ Info(id).kind = "info" /\ Info(id).id = id
         /\ Lock(id) \in FileType /\ Lock(id).kind = "lock" /\ Lock(id).id = id
         /\ Info(id).dir = MetaDir(id) /\ Lock(id).dir = MetaDir(id)
         /\ Bin(id).dir = IF id \in hashed THEN CompleteBinDir(id) ELSE IncompleteBinDir
<1>1. MetaDir(id) \in Path /\ CompleteBinDir(id) \in Path /\ IncompleteBinDir \in Path
  BY Paths, IncompletePath
<1> QED BY <1>1 DEF Bin, Info, Lock, File, FileType, Kinds

LEMMA EndKeeps ==
  ASSUME IndInv, NEW p \in Proc, proc[p].at # "idle", End(p), dirs' = dirs, Files',
         rows \subseteq rows', hashed \subseteq hashed',
         rows' \subseteq Id, hashed' \subseteq rows', marked' \subseteq rows',
         \A id \in Id : Lock(id) \in files' => Lock(id) \in files
  PROVE  IndInv'
<1>1. Fits(Ended(proc[p]), p) /\ proc' = [proc EXCEPT ![p] = Ended(proc[p])]
  BY EndFits
<1>2. Procs' /\ Rows' /\ Locks'
  <2> DEFINE r == Ended(proc[p])
  <2>1. Fits(r, p) /\ proc' = [proc EXCEPT ![p] = r]
    BY <1>1
  <2> HIDE DEF r
  <2> QED BY <2>1, OneStep
<1>3. Tree(dirs')
  BY DEF IndInv
<1> QED BY <1>2, <1>3 DEF IndInv

LEMMA SameFiles ==
  ASSUME Files, files' \subseteq files, dirs \subseteq dirs'
  PROVE  Files'
BY DEF Files, InTree

LEMMA MkdirFailsKeeps ==
  ASSUME IndInv, NEW p \in Proc, MkdirFails(p)
  PROVE  IndInv'
<1>1. /\ Making(p) /\ proc[p].level > 0
      /\ SubSeq(Goal(p), 1, proc[p].level - 1) \notin dirs
      /\ UNCHANGED <<dirs, files, table>>
  BY DEF MkdirFails
<1>2. Files'
  BY <1>1, SameFiles DEF IndInv
<1>3. CASE proc[p].at = "mkcomplete"
  <2>1. proc' = [proc EXCEPT ![p] = MadeAll(p)]
    BY <1>3 DEF MkdirFails
  <2>2. proc[p].hurt
    <3>1. MakingOf(proc[p]) /\ Goal(p) = GoalOf(proc[p]) /\ proc[p] \in ProcType
      BY <1>1, GoalFacts
    <3> QED BY <1>1, <3>1 DEF IndInv, Procs, Knows, ProcType
  <2>3. Fits(MadeAll(p), p)
    BY <1>1, <2>2, MadeAllFits DEF table
  <2>4. Procs' /\ Rows' /\ Locks'
    BY <1>1, <2>1, <2>3, OneStep DEF table, IndInv, Rows
  <2> QED BY <1>1, <1>2, <2>4 DEF IndInv
<1>4. CASE proc[p].at # "mkcomplete"
  <2>1. End(p) /\ proc[p].at # "idle"
    BY <1>1, <1>4 DEF MkdirFails, Making
  <2> QED BY <1>1, <1>2, <2>1, EndKeeps DEF table, IndInv, Rows
<1> QED BY <1>3, <1>4

(*****************************************************************************)
(* Requests                                                                  *)
(*****************************************************************************)
LEMMA NewUploadKeeps ==
  ASSUME IndInv, NEW w \in Worker, NewUpload(w)
  PROVE  IndInv'
<1>1. PICK id \in Id : proc' = [proc EXCEPT ![w] = [Begin("POST", id) EXCEPT !.at = "mkmeta"]]
  BY DEF NewUpload
<1>2. proc[w].at = "idle" /\ UNCHANGED <<dirs, files, table>> /\ w \in Proc
  BY DEF NewUpload, Proc
<1> DEFINE r == [Begin("POST", id) EXCEPT !.at = "mkmeta"]
<1>3. r \in ProcType /\ r.at = "mkmeta" /\ r.id = id /\ r.level = 0
  BY IdleRecord DEF Begin, Idle, ProcType, Steps
<1>4. proc[w].op = "none"
  BY <1>2 DEF IndInv, Procs, Sane
<1>5. proc' = [proc EXCEPT ![w] = r]
  BY <1>1
<1> HIDE DEF r
<1>6. Fits(r, w)
  <2>1. GoalOf(r) = MetaDir(id) /\ Len(MetaDir(id)) \in Nat
    BY <1>3, Paths DEF GoalOf, Path
  <2> QED BY <1>3, <1>4, <2>1 DEF Fits, Sane, Knows, MakingOf, Recorded, Holds
<1>7. Procs' /\ Rows' /\ Locks'
  BY <1>2, <1>5, <1>6, OneStep DEF table, IndInv, Rows
<1> QED BY <1>2, <1>7, SameFiles DEF IndInv
LEMMA CreateFileKeeps ==
  ASSUME IndInv, NEW w \in Worker, CreateFile(w)
  PROVE  IndInv'
<1> DEFINE id == proc[w].id
           f == IF proc[w].at = "create" THEN Bin(id) ELSE Info(id)
<1>1. /\ proc[w].at \in {"create", "info"} /\ w \in Proc
      /\ rows' = rows \union {id}
      /\ UNCHANGED <<dirs, hashed, marked>>
  BY DEF CreateFile, Proc
<1>2. proc[w] \in ProcType /\ id \in Id
  BY <1>1 DEF IndInv, Procs, Sane
<1>3. f \in FileType /\ f.kind \in {"bin", "info"} /\ f.id = id
  BY <1>1, <1>2, TheFiles
<1>4. \A i \in Id : Lock(i) # f
  <2> SUFFICES ASSUME NEW i \in Id PROVE Lock(i) # f
    OBVIOUS
  <2>1. Lock(i).kind = "lock"
    BY TheFiles
  <2> HIDE DEF f
  <2> QED BY <1>3, <2>1
<1>5. /\ rows' \subseteq Id /\ rows \subseteq rows' /\ hashed' \subseteq rows' /\ marked' \subseteq rows'
  BY <1>1, <1>2 DEF IndInv, Rows
<1>6. \/ /\ f.dir \in dirs /\ files' = files \union {f}
         /\ IF proc[w].at = "create" THEN Goto(w, "info") ELSE End(w)
      \/ End(w) /\ UNCHANGED files
  BY DEF CreateFile
<1>7. CASE End(w) /\ UNCHANGED files
  BY <1>1, <1>5, <1>7, SameFiles, EndKeeps DEF IndInv
<1>8. CASE f.dir \in dirs /\ files' = files \union {f}
  <2> HIDE DEF f
  <2>1. Files'
    BY <1>1, <1>2, <1>3, <1>8 DEF IndInv, Files, InTree, Kinds
  <2>2. \A i \in Id : Lock(i) \in files' => Lock(i) \in files
    BY <1>4, <1>8
  <2>3. CASE End(w)
    BY <1>1, <1>5, <2>1, <2>2, <2>3, EndKeeps
  <2>4. CASE proc[w].at = "create" /\ Goto(w, "info")
    <3> DEFINE r == [proc[w] EXCEPT !.at = "info"]
    <3>1. proc' = [proc EXCEPT ![w] = r]
      BY <2>4 DEF Goto
    <3>2. /\ r \in ProcType /\ r.at = "info" /\ r.id = id /\ r.op = proc[w].op
          /\ r.hurt = proc[w].hurt /\ r.level = proc[w].level
      BY <1>2 DEF ProcType, Steps
    <3>3. ~proc[w].hurt => MetaDir(id) \in dirs
      BY <1>1, <2>4 DEF IndInv, Procs, Knows
    <3> HIDE DEF r
    <3>4. r.level = 0
      BY <1>1, <3>2 DEF IndInv, Procs, Sane, MakingOf
    <3>5. Fits(r, w)
      BY <1>1, <1>2, <3>2, <3>3, <3>4 DEF Fits, Sane, Knows, MakingOf, Recorded, Holds
    <3>6. Procs' /\ Rows' /\ Locks'
      BY <1>1, <1>5, <2>2, <3>1, <3>5, OneStep
    <3> QED BY <1>1, <2>1, <3>6 DEF IndInv
  <2> QED BY <1>6, <1>7, <1>8, <2>3, <2>4
<1> QED BY <1>6, <1>7, <1>8

LEMMA LockUploadKeeps ==
  ASSUME IndInv, NEW w \in Worker, LockUpload(w)
  PROVE  IndInv'
<1>1. PICK id \in rows, op \in Methods[w] \ {"POST"} :
        /\ MetaDir(id) \in dirs
        /\ files' = files \union {Lock(id)}
        /\ proc' = [proc EXCEPT ![w] = [Begin(op, id) EXCEPT !.at = "getinfo"]]
  BY DEF LockUpload
<1>2. proc[w].at = "idle" /\ UNCHANGED <<dirs, table>> /\ w \in Proc
  BY DEF LockUpload, Proc
<1>3. id \in Id /\ op \in {"PATCH", "DELETE"}
  <2>1. Methods[w] \subseteq {"POST", "PATCH", "DELETE"}
    BY DirsAssumption
  <2> QED BY <1>1, <2>1 DEF IndInv, Rows
<1> DEFINE r == [Begin(op, id) EXCEPT !.at = "getinfo"]
<1>4. r \in ProcType /\ r.at = "getinfo" /\ r.id = id /\ r.op = op /\ r.level = 0
  BY <1>3, IdleRecord DEF Begin, Idle, ProcType, Steps
<1>5. proc[w].op = "none"
  BY <1>2 DEF IndInv, Procs, Sane
<1>6. proc' = [proc EXCEPT ![w] = r]
  BY <1>1
<1> HIDE DEF r
<1>7. Fits(r, w) /\ Holds(r, id)
  BY <1>1, <1>2, <1>3, <1>4, <1>5 DEF Fits, Sane, Knows, MakingOf, Recorded, Holds, table
<1>8. ASSUME NEW i \in Id, Lock(i) \in files' PROVE Lock(i) \in files \/ Holds(r, i)
  <2>1. Lock(i).id = i /\ Lock(id).id = id
    BY <1>3, TheFiles
  <2> QED BY <1>1, <1>7, <1>8, <2>1
<1>9. Procs' /\ Rows' /\ Locks'
  BY <1>2, <1>6, <1>7, <1>8, OneStep DEF table, IndInv, Rows
<1>10. InTree(Lock(id))
  BY <1>1, <1>3, TheFiles DEF InTree, Kinds
<1>11. Files'
  BY <1>1, <1>2, <1>10 DEF IndInv, Files, InTree
<1> QED BY <1>2, <1>9, <1>11 DEF IndInv
\* A step that changes nothing but the goroutine's record and the digests.
LEMMA RecordKeeps ==
  ASSUME IndInv, NEW p \in Proc, NEW r, Fits(r, p), proc' = [proc EXCEPT ![p] = r],
         UNCHANGED <<dirs, files, rows, marked>>, hashed \subseteq hashed', hashed' \subseteq rows
  PROVE  IndInv'
<1>1. Procs' /\ Rows' /\ Locks'
  BY OneStep DEF IndInv, Rows
<1> QED BY <1>1, SameFiles DEF IndInv

LEMMA TerminatingFits ==
  ASSUME IndInv, NEW p \in Proc, NEW id \in rows, NEW op \in {"DELETE", "gc"},
         proc[p].at \in {"idle", "getinfo"},
         proc[p].at = "idle" \/ (proc[p].id = id /\ proc[p].op = op),
         UNCHANGED <<dirs, rows, hashed>>
  PROVE  Fits(Terminating(p, id, op), p)
<1> DEFINE r == Terminating(p, id, op)
<1>1. proc[p] \in ProcType /\ Sane(proc[p]) /\ id \in Id
  BY DEF IndInv, Procs, Rows
<1>2. /\ r \in ProcType /\ r.at = "stat" /\ r.op = op /\ r.id = id
      /\ r.level = proc[p].level
  BY <1>1, TheFiles DEF Terminating, ProcType, Steps
<1> HIDE DEF r
<1>3. r.level = 0
  BY <1>1, <1>2 DEF Sane, MakingOf
<1>4. Fits(r, p)
  BY <1>1, <1>2, <1>3 DEF Fits, Sane, Knows, MakingOf, Recorded, Holds
<1> QED BY <1>4 DEF r

LEMMA GetInfoKeeps ==
  ASSUME IndInv, NEW w \in Worker, GetInfo(w)
  PROVE  IndInv'
<1> DEFINE id == proc[w].id
<1>1. /\ proc[w].at = "getinfo" /\ w \in Proc /\ UNCHANGED <<dirs, files, rows, marked>>
      /\ \/ End(w) /\ UNCHANGED hashed
         \/ hashed' = hashed \union {id} /\ Goto(w, "mkcomplete")
         \/ /\ proc[w].op = "DELETE" /\ UNCHANGED hashed
            /\ proc' = [proc EXCEPT ![w] = Terminating(w, id, "DELETE")]
  BY DEF GetInfo, Proc
<1>2. proc[w] \in ProcType /\ Sane(proc[w]) /\ id \in rows
  BY <1>1 DEF IndInv, Procs, Rows, Recorded
<1>3. CASE End(w) /\ UNCHANGED hashed
  BY <1>1, <1>3, SameFiles, EndKeeps DEF IndInv, Rows
<1>4. CASE hashed' = hashed \union {id} /\ Goto(w, "mkcomplete")
  <2> DEFINE r == [proc[w] EXCEPT !.at = "mkcomplete"]
  <2>1. proc' = [proc EXCEPT ![w] = r]
    BY <1>4 DEF Goto
  <2>2. /\ r \in ProcType /\ r.at = "mkcomplete" /\ r.id = id /\ r.op = proc[w].op
        /\ r.level = proc[w].level
    BY <1>2 DEF ProcType, Steps
  <2> HIDE DEF r
  <2>3. r.level = 0 /\ id \in Id
    BY <1>1, <1>2, <2>2 DEF Sane, MakingOf
  <2>4. GoalOf(r) = CompleteBinDir(id) /\ Len(CompleteBinDir(id)) \in Nat
    BY <2>2, <2>3, Paths DEF GoalOf, Path
  <2>5. Fits(r, w)
    BY <1>4, <2>2, <2>3, <2>4 DEF Fits, Sane, Knows, MakingOf, Recorded, Holds
  <2>6. hashed \subseteq hashed' /\ hashed' \subseteq rows
    BY <1>2, <1>4 DEF IndInv, Rows
  <2> QED BY <1>1, <2>1, <2>5, <2>6, RecordKeeps
<1>5. CASE /\ proc[w].op = "DELETE" /\ UNCHANGED hashed
           /\ proc' = [proc EXCEPT ![w] = Terminating(w, id, "DELETE")]
  <2>1. Fits(Terminating(w, id, "DELETE"), w)
    BY <1>1, <1>2, <1>5, TerminatingFits
  <2> QED BY <1>1, <1>5, <2>1, RecordKeeps DEF IndInv, Rows
<1> QED BY <1>1, <1>3, <1>4, <1>5

LEMMA RenameKeeps ==
  ASSUME IndInv, NEW w \in Worker, Rename(w)
  PROVE  IndInv'
<1> DEFINE id == proc[w].id
           old == File(IncompleteBinDir, "bin", id)
<1>1. /\ proc[w].at = "rename" /\ w \in Proc /\ UNCHANGED <<dirs, table>> /\ End(w)
      /\ \/ UNCHANGED files
         \/ CompleteBinDir(id) \in dirs /\ files' = (files \ {old}) \union {Bin(id)}
  BY DEF Rename, Proc
<1>2. id \in Id /\ id \in hashed
  BY <1>1 DEF IndInv, Procs, Sane, Rows, Recorded
<1>3. Bin(id).kind = "bin" /\ (CompleteBinDir(id) \in dirs => InTree(Bin(id)))
  BY <1>2, TheFiles DEF InTree, Kinds
<1>4. Files'
  <2> HIDE DEF old
  <2> QED BY <1>1, <1>3 DEF IndInv, Files, InTree
<1>5. ASSUME NEW i \in Id, Lock(i) \in files' PROVE Lock(i) \in files
  <2>1. Lock(i).kind = "lock"
    BY TheFiles
  <2> HIDE DEF old
  <2> QED BY <1>1, <1>3, <1>5, <2>1
<1> QED BY <1>1, <1>4, <1>5, EndKeeps DEF IndInv, Rows, table

LEMMA UnlockUploadKeeps ==
  ASSUME IndInv, NEW w \in Worker, UnlockUpload(w)
  PROVE  IndInv'
<1> DEFINE id == proc[w].id
<1>1. /\ proc[w].at = "unlock" /\ w \in Proc /\ UNCHANGED <<dirs, table>>
      /\ files' = files \ {Lock(id)} /\ proc' = [proc EXCEPT ![w] = Idle]
  BY DEF UnlockUpload, Proc
<1>2. Files'
  BY <1>1, SameFiles DEF IndInv
<1>3. Idle.at = "idle"
  BY DEF Idle
<1>4. \A i \in Id : Holds(proc[w], i) => Lock(i)' \notin files'
  BY <1>1 DEF Holds, Lock, File, MetaDir
<1>5. Fits(Idle, w)
  BY <1>3, <1>4, IdleRecord DEF Fits, Recorded
<1>6. Procs' /\ Rows' /\ Locks'
  BY <1>1, <1>5, OneStep DEF table, IndInv, Rows
<1> QED BY <1>1, <1>2, <1>6 DEF IndInv
(*****************************************************************************)
(* Terminate                                                                 *)
(*****************************************************************************)
LEMMA RemovedFits ==
  ASSUME IndInv, NEW p \in Proc, proc[p].at \in {"stat", "check"}, Removed(p),
         UNCHANGED <<dirs, rows, hashed>>
  PROVE  \E r : Fits(r, p) /\ proc' = [proc EXCEPT ![p] = r]
<1> DEFINE r == [proc[p] EXCEPT !.at = IF RemovesInfo(p) THEN "stat" ELSE "mark",
                                !.target = proc[p].bin, !.dir = <<>>]
<1>1. proc[p] \in ProcType /\ Sane(proc[p]) /\ Recorded(proc[p], rows, hashed)
  BY DEF IndInv, Procs, Rows
<1>2. proc' = [proc EXCEPT ![p] = r]
  BY DEF Removed
<1>3. /\ r \in ProcType /\ r.at \in {"stat", "mark"} /\ r.id = proc[p].id
      /\ r.op = proc[p].op /\ r.level = proc[p].level
  BY <1>1, IdleRecord DEF ProcType, Steps
<1> HIDE DEF r
<1>4. Fits(r, p)
  BY <1>1, <1>3 DEF Fits, Sane, Knows, MakingOf, Recorded, Holds
<1> QED BY <1>2, <1>4

\* Another step of RemoveWithDirs, at a directory.
LEMMA DirFits ==
  ASSUME IndInv, NEW p \in Proc, proc[p].at \in {"remove", "check", "rmdir"},
         NEW at \in {"check", "rmdir"}, NEW dir \in Path, at = "rmdir" => dir # <<>>,
         ~proc[p].hurt => dir \in dirs', rows' = rows, hashed' = hashed
  PROVE  Fits([proc[p] EXCEPT !.at = at, !.dir = dir], p)
<1> DEFINE r == [proc[p] EXCEPT !.at = at, !.dir = dir]
<1>1. proc[p] \in ProcType /\ Sane(proc[p]) /\ Recorded(proc[p], rows, hashed)
  BY DEF IndInv, Procs, Rows
<1>2. /\ r \in ProcType /\ r.at = at /\ r.id = proc[p].id /\ r.dir = dir
      /\ r.op = proc[p].op /\ r.level = proc[p].level /\ r.hurt = proc[p].hurt
  BY <1>1 DEF ProcType, Steps
<1> HIDE DEF r
<1>3. Fits(r, p)
  BY <1>1, <1>2 DEF Fits, Sane, Knows, MakingOf, Recorded, Holds
<1> QED BY <1>3 DEF r

LEMMA StatFileKeeps ==
  ASSUME IndInv, NEW p \in Proc, StatFile(p)
  PROVE  IndInv'
<1>1. /\ proc[p].at = "stat" /\ UNCHANGED <<dirs, files, rows, hashed, marked>>
      /\ IF proc[p].target \in files THEN Goto(p, "remove") ELSE Removed(p)
  BY DEF StatFile, NotThere, table
<1>2. CASE proc[p].target \in files
  <2> DEFINE r == [proc[p] EXCEPT !.at = "remove"]
  <2>1. proc[p] \in ProcType /\ Sane(proc[p]) /\ Recorded(proc[p], rows, hashed)
    BY DEF IndInv, Procs, Rows
  <2>2. proc' = [proc EXCEPT ![p] = r]
    BY <1>1, <1>2 DEF Goto
  <2>3. /\ r \in ProcType /\ r.at = "remove" /\ r.id = proc[p].id
        /\ r.op = proc[p].op /\ r.level = proc[p].level /\ r.target = proc[p].target
    BY <2>1 DEF ProcType, Steps
  <2>4. proc[p].target.dir \in dirs
    BY <1>2 DEF IndInv, Files, InTree
  <2> HIDE DEF r
  <2>5. Fits(r, p)
    BY <1>1, <2>1, <2>3, <2>4 DEF Fits, Sane, Knows, MakingOf, Recorded, Holds
  <2> QED BY <1>1, <2>2, <2>5, RecordKeeps DEF IndInv, Rows
<1>3. CASE proc[p].target \notin files
  <2>1. PICK r : Fits(r, p) /\ proc' = [proc EXCEPT ![p] = r]
    BY <1>1, <1>3, RemovedFits
  <2> QED BY <1>1, <2>1, RecordKeeps DEF IndInv, Rows
<1> QED BY <1>2, <1>3

LEMMA RemoveFileKeeps ==
  ASSUME IndInv, NEW p \in Proc, RemoveFile(p)
  PROVE  IndInv'
<1> DEFINE dir == proc[p].target.dir
           r == [proc[p] EXCEPT !.at = "check", !.dir = dir]
<1>1. /\ proc[p].at = "remove" /\ UNCHANGED <<dirs, table>>
      /\ files' = files \ {proc[p].target} /\ proc' = [proc EXCEPT ![p] = r]
  BY DEF RemoveFile
<1>2. proc[p] \in ProcType /\ (~proc[p].hurt => Knows(proc[p], dirs))
  BY DEF IndInv, Procs
<1>3. dir \in Path /\ (~proc[p].hurt => dir \in dirs)
  BY <1>1, <1>2 DEF ProcType, FileType, Knows
<1> HIDE DEF dir
<1>4. Fits(r, p)
  BY <1>1, <1>3, DirFits DEF table
<1> HIDE DEF r
<1>5. Procs' /\ Rows' /\ Locks'
  BY <1>1, <1>4, OneStep DEF table, IndInv, Rows
<1> QED BY <1>1, <1>5, SameFiles DEF IndInv

LEMMA ParentFacts ==
  ASSUME Tree(dirs), NEW dir \in Path, dir # <<>>
  PROVE  /\ Parent(dir) \in Path /\ Parent(dir) # dir
         /\ dir \in dirs => Parent(dir) \in dirs
BY FrontIsShorter DEF Parent, Tree

LEMMA CheckDirKeeps ==
  ASSUME IndInv, NEW p \in Proc, CheckDir(p)
  PROVE  IndInv'
<1> DEFINE dir == proc[p].dir
<1>1. /\ proc[p].at = "check" /\ UNCHANGED <<dirs, files, rows, hashed, marked>>
      /\ \/ dir = <<>> /\ Removed(p)
         \/ End(p)
         \/ dir # <<>> /\ dir \in dirs /\ Goto(p, "rmdir")
         \/ /\ dir # <<>> /\ dir \in dirs
            /\ proc' = [proc EXCEPT ![p].dir = Parent(dir)]
  BY DEF CheckDir, ReachedBase, table
<1>2. proc[p] \in ProcType /\ dir \in Path /\ (~proc[p].hurt => dir \in dirs)
  BY <1>1 DEF IndInv, Procs, ProcType, Knows
<1>3. CASE dir = <<>> /\ Removed(p)
  <2>1. PICK r : Fits(r, p) /\ proc' = [proc EXCEPT ![p] = r]
    BY <1>1, <1>3, RemovedFits
  <2> QED BY <1>1, <2>1, RecordKeeps DEF IndInv, Rows
<1>4. CASE End(p)
  BY <1>1, <1>4, SameFiles, EndKeeps DEF IndInv, Rows
<1>5. CASE dir # <<>> /\ dir \in dirs /\ Goto(p, "rmdir")
  <2>1. Fits([proc[p] EXCEPT !.at = "rmdir", !.dir = dir], p)
    BY <1>1, <1>2, <1>5, DirFits
  <2>2. proc' = [proc EXCEPT ![p] = [proc[p] EXCEPT !.at = "rmdir", !.dir = dir]]
    BY <1>2, <1>5 DEF Goto, ProcType
  <2> QED BY <1>1, <2>1, <2>2, RecordKeeps DEF IndInv, Rows
<1>6. CASE /\ dir # <<>> /\ dir \in dirs
           /\ proc' = [proc EXCEPT ![p].dir = Parent(dir)]
  <2>1. Parent(dir) \in Path /\ Parent(dir) \in dirs
    BY <1>2, <1>6, ParentFacts DEF IndInv
  <2>2. Fits([proc[p] EXCEPT !.at = "check", !.dir = Parent(dir)], p)
    BY <1>1, <2>1, DirFits
  <2>3. proc' = [proc EXCEPT ![p] = [proc[p] EXCEPT !.at = "check", !.dir = Parent(dir)]]
    BY <1>1, <1>2, <1>6 DEF ProcType
  <2> QED BY <1>1, <2>2, <2>3, RecordKeeps DEF IndInv, Rows
<1> QED BY <1>1, <1>3, <1>4, <1>5, <1>6
\* The one action that takes a directory away: every other operation in progress
\* is hurt by it, and what was empty was nobody's parent.
LEMMA RmdirKeeps ==
  ASSUME IndInv, NEW p \in Proc, Rmdir(p)
  PROVE  IndInv'
<1> DEFINE dir == proc[p].dir
           r == [proc[p] EXCEPT !.at = "check", !.dir = Parent(dir)]
<1>1. /\ proc[p].at = "rmdir" /\ dir \in dirs /\ IsDirEmpty(dir)
      /\ dirs' = dirs \ {dir}
      /\ proc' = [q \in Proc |->
                   IF q = p THEN r ELSE [proc[q] EXCEPT !.hurt = proc[q].at # "idle"]]
      /\ UNCHANGED <<files, table>>
  BY DEF Rmdir
<1>2. proc[p] \in ProcType /\ dir \in Path /\ dir # <<>>
  BY <1>1 DEF IndInv, Procs, ProcType, Sane
<1>3. Parent(dir) \in Path /\ Parent(dir) \in dirs'
  BY <1>1, <1>2, ParentFacts DEF IndInv
<1>4. Fits(r, p)
  BY <1>1, <1>2, <1>3, DirFits DEF table
<1> HIDE DEF r, dir
<1>5. ASSUME NEW q \in Proc
      PROVE  /\ proc'[q] \in ProcType /\ Sane(proc'[q])
             /\ ~proc'[q].hurt => Knows(proc'[q], dirs')
             /\ Recorded(proc'[q], rows', hashed')
             /\ \A id \in Id : Holds(proc[q], id) /\ Lock(id)' \in files' => Holds(proc'[q], id)
  <2>1. CASE q = p
    BY <1>1, <1>4, <2>1 DEF Fits
  <2>2. CASE q # p
    <3>1. proc[q] \in ProcType /\ Sane(proc[q]) /\ Recorded(proc[q], rows, hashed)
      BY DEF IndInv, Procs, Rows
    <3>2. proc'[q] = [proc[q] EXCEPT !.hurt = proc[q].at # "idle"]
      BY <1>1, <2>2
    <3>3. /\ proc'[q] \in ProcType /\ proc'[q].at = proc[q].at /\ proc'[q].id = proc[q].id
          /\ proc'[q].op = proc[q].op /\ proc'[q].level = proc[q].level
          /\ proc'[q].hurt = (proc[q].at # "idle")
      BY <3>1, <3>2 DEF ProcType
    <3>4. Sane(proc'[q]) /\ Recorded(proc'[q], rows', hashed')
      <4>1. MakingOf(proc'[q]) = MakingOf(proc[q]) /\ GoalOf(proc'[q]) = GoalOf(proc[q])
        BY <3>3 DEF MakingOf, GoalOf
      <4>2. proc'[q].dir = proc[q].dir
        BY <3>1, <3>2 DEF ProcType
      <4> QED BY <1>1, <3>1, <3>3, <4>1, <4>2 DEF Sane, Recorded, table
    <3>5. ~proc'[q].hurt => Knows(proc'[q], dirs')
      BY <3>3 DEF Knows, MakingOf
    <3> QED BY <3>3, <3>4, <3>5 DEF Holds
  <2> QED BY <2>1, <2>2
<1>6. proc' \in [Proc -> ProcType]
  BY <1>1, <1>5
<1>7. Procs' /\ Rows'
  BY <1>1, <1>5, <1>6 DEF Procs, Rows, IndInv, table
<1>8. Locks'
  <2> SUFFICES ASSUME NEW id \in Id, Lock(id)' \in files'
               PROVE  \E w \in Worker : Holds(proc'[w], id)
    BY DEF Locks
  <2>1. Lock(id) \in files
    BY <1>1 DEF Lock, File, MetaDir
  <2>2. PICK w \in Worker : Holds(proc[w], id)
    BY <2>1 DEF IndInv, Locks
  <2>3. Holds(proc'[w], id)
    BY <1>5, <2>2 DEF Proc
  <2> QED BY <2>3
<1>9. Tree(dirs')
  <2>1. <<>> \in dirs' /\ dirs' \subseteq Path
    BY <1>1, <1>2 DEF IndInv, Tree
  <2>2. \A d \in dirs' \ {<<>>} : Front(d) \in dirs'
    BY <1>1 DEF IndInv, Tree, IsDirEmpty
  <2> QED BY <2>1, <2>2 DEF Tree
<1>10. Files'
  BY <1>1 DEF IndInv, Files, InTree, IsDirEmpty
<1> QED BY <1>7, <1>8, <1>9, <1>10 DEF IndInv

LEMMA RmdirFailsKeeps ==
  ASSUME IndInv, NEW p \in Proc, RmdirFails(p)
  PROVE  IndInv'
<1>1. End(p) /\ proc[p].at # "idle" /\ UNCHANGED <<dirs, files, rows, hashed, marked>>
  BY DEF RmdirFails, table
<1> QED BY <1>1, SameFiles, EndKeeps DEF IndInv, Rows

LEMMA MarkDeletedKeeps ==
  ASSUME IndInv, NEW p \in Proc, MarkDeleted(p)
  PROVE  IndInv'
<1>1. /\ End(p) /\ proc[p].at = "mark" /\ UNCHANGED <<dirs, files, rows, hashed>>
      /\ marked' = marked \union {proc[p].id}
  BY DEF MarkDeleted
<1>2. marked' \subseteq rows'
  BY <1>1 DEF IndInv, Rows, Recorded
<1> QED BY <1>1, <1>2, SameFiles, EndKeeps DEF IndInv, Rows

LEMMA NextExpiredKeeps ==
  ASSUME IndInv, NEW g \in Gc, NextExpired(g)
  PROVE  IndInv'
<1>1. PICK id \in rows : proc' = [proc EXCEPT ![g] = Terminating(g, id, "gc")]
  BY DEF NextExpired
<1>2. proc[g].at = "idle" /\ g \in Proc /\ UNCHANGED <<dirs, files, rows, hashed, marked>>
  BY DEF NextExpired, table, Proc
<1>3. Fits(Terminating(g, id, "gc"), g)
  BY <1>2, TerminatingFits
<1> QED BY <1>1, <1>2, <1>3, RecordKeeps DEF IndInv, Rows

(*****************************************************************************)
(* The theorems                                                              *)
(*****************************************************************************)
LEMMA IndInvNext == IndInv /\ [Next]_vars => IndInv'
<1> SUFFICES ASSUME IndInv, [Next]_vars PROVE IndInv'
  OBVIOUS
<1>1. CASE UNCHANGED vars
  <2>1. UNCHANGED <<dirs, files, rows, hashed, marked, proc>>
    BY <1>1 DEF vars
  <2>2. \A id \in Id : Lock(id)' = Lock(id)
    BY DEF Lock, File, MetaDir
  <2>3. Locks'
    BY <2>1, <2>2 DEF IndInv, Locks
  <2> QED BY <2>1, <2>3 DEF IndInv, Files, InTree, Rows, Procs
<1>2. ASSUME NEW p \in Proc, MkdirAll(p) PROVE IndInv'
  BY <1>2, StatDirsKeeps, MkdirKeeps, MkdirFailsKeeps DEF MkdirAll
<1>3. ASSUME NEW p \in Proc, RemoveWithDirs(p) PROVE IndInv'
  BY <1>3, StatFileKeeps, RemoveFileKeeps, CheckDirKeeps, RmdirKeeps, RmdirFailsKeeps
     DEF RemoveWithDirs
<1>4. ASSUME NEW w \in Worker, NewUpload(w) \/ LockUpload(w) \/ Serve(w) PROVE IndInv'
  BY <1>2, <1>3, <1>4, NewUploadKeeps, LockUploadKeeps, CreateFileKeeps, GetInfoKeeps,
     RenameKeeps, MarkDeletedKeeps, UnlockUploadKeeps DEF Serve, Proc
<1>5. ASSUME NEW g \in Gc, Collect(g) PROVE IndInv'
  BY <1>3, <1>5, NextExpiredKeeps, MarkDeletedKeeps DEF Collect, Proc
<1> QED BY <1>1, <1>4, <1>5 DEF Next

\* The tree, the files, the locks and what each goroutine knows (IndInv).
THEOREM Invariant == Spec => []IndInv
<1> QED BY IndInvInit, IndInvNext, PTL DEF Spec

\* The tree stays a tree with BasePath at its root, for any number of uploads
\* that share shard directories and any number of goroutines.
THEOREM Typed == Spec => []TypeOK
<1> QED BY Invariant, IndInvImplies, PTL

\* NewUpload and FinishUpload have made every directory they count on: one that
\* is missing was removed by another operation while they were under way.
THEOREM FailuresComeFromRemovals == Spec => []FailsOnlyByRemoval
<1> QED BY Invariant, IndInvImplies, PTL
(*****************************************************************************)
(* Empty directories: each one is left, or a goroutine is at it and will     *)
(* fill it or take it away                                                   *)
(*****************************************************************************)
\* The directories that p's operation in progress counts on or looks at.
Claims(r, d) ==
  \/ r.at \in {"check", "rmdir"} /\ d = r.dir
  \/ MakingOf(r) /\ r.level > 0 /\ d = SubSeq(GoalOf(r), 1, r.level - 1)
  \/ r.at \in {"mkincomplete", "create", "info"} /\ d = MetaDir(r.id)
  \/ r.at = "create" /\ d = IncompleteBinDir
  \/ r.at = "rename" /\ d = CompleteBinDir(r.id)

Explained == \A d \in dirs \ {<<>>} :
               IsDirEmpty(d) => d \in left \/ \E p \in Proc : Claims(proc[p], d)

\* NewUpload before the record of its upload is there.
Creating(r) == r.at \in {"mkmeta", "mkincomplete", "create"}

\* An id is created once, and has no record or digest until it is.
Posts ==
  /\ \A p \in Proc : Creating(proc[p]) => proc[p].op = "POST" /\ proc[p].id \notin rows
  /\ \A p \in Proc : proc[p].at = "info" => proc[p].op = "POST"
  /\ \A p \in Proc : proc[p].op = "POST" => p \in Worker
  /\ \A p, q \in Proc : /\ proc[p].op = "POST" /\ proc[q].op = "POST"
                        /\ proc[p].id = proc[q].id
                        => p = q

\* p's operation goes on as the one it was.
GoesOn(p) ==
  /\ proc'[p].op = "POST" => proc[p].op = "POST" /\ proc'[p].id = proc[p].id
  /\ Creating(proc'[p]) => Creating(proc[p]) /\ proc'[p].op = "POST"
  /\ proc'[p].at = "info" => proc'[p].op = "POST"

LEMMA PostsGoOn ==
  ASSUME Posts, NEW p \in Proc, GoesOn(p), \A q \in Proc \ {p} : /\ proc'[q].at = proc[q].at
                                                                /\ proc'[q].op = proc[q].op
                                                                /\ proc'[q].id = proc[q].id,
         rows' = rows \/ (/\ rows' = rows \union {proc[p].id}
                          /\ proc[p].op = "POST" /\ ~Creating(proc'[p]))
  PROVE  Posts'
<1>1. \A q \in Proc \ {p} : Creating(proc'[q]) <=> Creating(proc[q])
  BY DEF Creating
<1>2. ASSUME NEW q \in Proc, Creating(proc'[q])
      PROVE  proc'[q].op = "POST" /\ proc'[q].id \notin rows'
  <2>1. Creating(proc[q]) /\ proc'[q].op = "POST" /\ proc'[q].id = proc[q].id
    BY <1>1, <1>2 DEF GoesOn, Posts
  <2> QED BY <1>2, <2>1 DEF Posts
<1>3. ASSUME NEW q \in Proc, proc'[q].op = "POST"
      PROVE  proc[q].op = "POST" /\ proc'[q].id = proc[q].id
  BY <1>3 DEF GoesOn
<1>4. \A q \in Proc : proc'[q].at = "info" => proc'[q].op = "POST"
  BY DEF GoesOn, Posts
<1> QED BY <1>2, <1>3, <1>4 DEF Posts

\* What has become empty, or is no longer claimed, is in S or claimed by p now.
LEMMA StillExplained ==
  ASSUME Explained, NEW p \in Proc, NEW S,
         \A q \in Proc \ {p}, d \in dirs : Claims(proc[q], d) => Claims(proc'[q], d),
         \A d \in left \union S : d \in dirs' /\ IsDirEmpty(d)' => d \in left',
         \A d \in dirs' \ {<<>>} : IsDirEmpty(d)' =>
            \/ d \in dirs /\ IsDirEmpty(d) /\ ~Claims(proc[p], d)
            \/ d \in S
            \/ Claims(proc'[p], d)
  PROVE  Explained'
<1> SUFFICES ASSUME NEW d \in dirs' \ {<<>>}, IsDirEmpty(d)'
             PROVE  d \in left' \/ \E q \in Proc : Claims(proc'[q], d)
  BY DEF Explained
<1>1. CASE d \in S \/ Claims(proc'[p], d)
  BY <1>1
<1>2. CASE d \in dirs /\ IsDirEmpty(d) /\ ~Claims(proc[p], d)
  <2>1. CASE d \in left
    BY <2>1
  <2>2. CASE \E q \in Proc : Claims(proc[q], d)
    BY <1>2, <2>2
  <2> QED BY <1>2, <2>1, <2>2 DEF Explained
<1> QED BY <1>1, <1>2

\* One goroutine's record becomes r.
LEMMA MovesTo ==
  ASSUME IndInv, NEW p \in Proc, NEW r, proc' = [proc EXCEPT ![p] = r]
  PROVE  proc'[p] = r /\ \A q \in Proc \ {p} : proc'[q] = proc[q]
BY DEF IndInv, Procs

\* A step that leaves the tree alone keeps what p claims, or it is not empty.
LEMMA TreeStays ==
  ASSUME IndInv, Explained, NEW p \in Proc, NEW r, proc' = [proc EXCEPT ![p] = r],
         UNCHANGED <<dirs, files, left>>,
         \A d \in dirs : IsDirEmpty(d) /\ Claims(proc[p], d) => Claims(r, d)
  PROVE  Explained'
<1>1. proc'[p] = r /\ \A q \in Proc \ {p} : proc'[q] = proc[q]
  BY MovesTo
<1>2. \A d \in dirs : IsDirEmpty(d)' <=> IsDirEmpty(d)
  BY DEF IsDirEmpty
<1> QED BY <1>1, <1>2, StillExplained

LEMMA EndedRecord ==
  ASSUME NEW r
  PROVE  Ended(r).at \in {"idle", "unlock"} /\ Ended(r).op \in {"none", "PATCH", "DELETE"}
BY DEF Ended, Begin, Idle

\* An operation that ends claims nothing any more.
LEMMA EndGoesOn ==
  ASSUME IndInv, Posts, NEW p \in Proc, proc[p].at # "idle", End(p),
         rows' = rows \/ (rows' = rows \union {proc[p].id} /\ proc[p].op = "POST")
  PROVE  /\ Posts' /\ proc' = [proc EXCEPT ![p] = Ended(proc[p])]
         /\ \A d : ~Claims(Ended(proc[p]), d)
<1> DEFINE r == Ended(proc[p])
<1>1. proc' = [proc EXCEPT ![p] = r]
  BY EndFits
<1>2. r.at \in {"idle", "unlock"} /\ r.op \in {"none", "PATCH", "DELETE"}
  BY EndedRecord
<1> HIDE DEF r
<1>3. proc'[p] = r /\ \A q \in Proc \ {p} : proc'[q] = proc[q]
  BY <1>1, MovesTo
<1>4. GoesOn(p) /\ ~Creating(proc'[p])
  BY <1>2, <1>3 DEF GoesOn, Creating
<1>5. Posts'
  BY <1>3, <1>4, PostsGoOn
<1>6. \A d : ~Claims(r, d)
  BY <1>2 DEF Claims, MakingOf
<1> QED BY <1>1, <1>5, <1>6 DEF r

\* End of an operation that has filled, lost or left what it claimed.
LEMMA EndExplained ==
  ASSUME IndInv, Explained, Posts, NEW p \in Proc, proc[p].at # "idle", End(p), NEW S,
         rows' = rows \/ (rows' = rows \union {proc[p].id} /\ proc[p].op = "POST"),
         \A d \in left \union S : d \in dirs' /\ IsDirEmpty(d)' => d \in left',
         dirs' = dirs,
         \A d \in dirs \ {<<>>} : IsDirEmpty(d)' =>
            d \in S \/ (IsDirEmpty(d) /\ ~Claims(proc[p], d))
  PROVE  Explained' /\ Posts'
<1> DEFINE r == Ended(proc[p])
<1>1. Posts' /\ proc' = [proc EXCEPT ![p] = r] /\ \A d : ~Claims(r, d)
  BY EndGoesOn
<1> HIDE DEF r
<1>2. proc'[p] = r /\ \A q \in Proc \ {p} : proc'[q] = proc[q]
  BY <1>1, MovesTo
<1> QED BY <1>1, <1>2, StillExplained

LEMMA LeaveExplains ==
  ASSUME NEW S, Leave(S)
  PROVE  \A d \in left \union S : d \in dirs' /\ IsDirEmpty(d)' => d \in left'
BY DEF Leave

LEMMA SameTree ==
  ASSUME UNCHANGED <<dirs, files>>
  PROVE  \A d : IsDirEmpty(d)' <=> IsDirEmpty(d)
BY DEF IsDirEmpty

(*****************************************************************************)
(* MkdirAll makes directories that it claims, or somebody fills              *)
(*****************************************************************************)
LEMMA MadeAllRecord ==
  ASSUME IndInv, NEW p \in Proc, Making(p)
  PROVE  /\ MadeAll(p).at = AfterMkdirAll(p) /\ MadeAll(p).level = 0
         /\ MadeAll(p).op = proc[p].op /\ MadeAll(p).id = proc[p].id
         /\ proc[p].at \in {"mkmeta", "mkincomplete", "mkcomplete"}
<1>1. proc[p] \in ProcType
  BY GoalFacts
<1> QED BY <1>1 DEF MadeAll, ProcType, Making

LEMMA MadeAllClaims ==
  ASSUME IndInv, NEW p \in Proc, Making(p)
  PROVE  /\ Claims(MadeAll(p), Goal(p))
         /\ proc[p].at = "mkincomplete" => Claims(MadeAll(p), MetaDir(proc[p].id))
         /\ Creating(MadeAll(p)) => Creating(proc[p])
         /\ MadeAll(p).at # "info"
<1>1. /\ MadeAll(p).at = AfterMkdirAll(p) /\ MadeAll(p).id = proc[p].id
      /\ proc[p].at \in {"mkmeta", "mkincomplete", "mkcomplete"}
  BY MadeAllRecord
<1> QED BY <1>1 DEF AfterMkdirAll, Claims, Goal, Creating

\* What p claims when it makes a directory.
LEMMA MakingClaims ==
  ASSUME IndInv, NEW p \in Proc, Making(p), NEW d, Claims(proc[p], d)
  PROVE  \/ proc[p].level > 0 /\ d = SubSeq(Goal(p), 1, proc[p].level - 1)
         \/ proc[p].at = "mkincomplete" /\ d = MetaDir(proc[p].id)
<1>1. Goal(p) = GoalOf(proc[p])
  BY GoalFacts
<1> QED BY <1>1 DEF Claims, Making

LEMMA LevelRecord ==
  ASSUME IndInv, NEW p \in Proc, Making(p), NEW n \in Nat
  PROVE  LET r == [proc[p] EXCEPT !.level = n + 1]
         IN  /\ r.at = proc[p].at /\ r.op = proc[p].op /\ r.id = proc[p].id
             /\ Claims(r, SubSeq(Goal(p), 1, n))
             /\ proc[p].at = "mkincomplete" => Claims(r, MetaDir(proc[p].id))
             /\ Creating(r) <=> Creating(proc[p])
<1> DEFINE r == [proc[p] EXCEPT !.level = n + 1]
<1>1. proc[p] \in ProcType /\ MakingOf(proc[p]) /\ Goal(p) = GoalOf(proc[p])
  BY GoalFacts
<1>2. /\ r.at = proc[p].at /\ r.level = n + 1 /\ r.op = proc[p].op /\ r.id = proc[p].id
  BY <1>1 DEF ProcType
<1> HIDE DEF r
<1>3. MakingOf(r) /\ GoalOf(r) = Goal(p) /\ r.level - 1 = n /\ r.level > 0
  BY <1>1, <1>2 DEF MakingOf, GoalOf
<1>4. Claims(r, SubSeq(Goal(p), 1, n))
  BY <1>3 DEF Claims
<1>5. Creating(r) <=> Creating(proc[p])
  BY <1>2 DEF Creating
<1>6. proc[p].at = "mkincomplete" => Claims(r, MetaDir(proc[p].id))
  BY <1>2 DEF Claims
<1> QED BY <1>2, <1>4, <1>5, <1>6 DEF r

\* A step of MkdirAll to the record r keeps the order of creations.
LEMMA MakingGoesOn ==
  ASSUME IndInv, Posts, NEW p \in Proc, Making(p), NEW r, proc' = [proc EXCEPT ![p] = r],
         rows' = rows, r.op = proc[p].op, r.id = proc[p].id, r.at # "info",
         Creating(r) => Creating(proc[p])
  PROVE  Posts'
<1>1. proc'[p] = r /\ \A q \in Proc \ {p} : proc'[q] = proc[q]
  BY MovesTo
<1>2. GoesOn(p)
  BY <1>1 DEF GoesOn, Posts
<1> QED BY <1>1, <1>2, PostsGoOn

LEMMA StatDirsExplained ==
  ASSUME IndInv, Explained, Posts, NEW p \in Proc, StatDirs(p)
  PROVE  Explained' /\ Posts'
<1>1. PICK n \in 0 .. Len(Goal(p)) :
        proc' = [proc EXCEPT ![p] = IF n = Len(Goal(p)) THEN MadeAll(p)
                                    ELSE [proc[p] EXCEPT !.level = n + 1]]
  BY DEF StatDirs
<1>2. Making(p) /\ proc[p].level = 0 /\ UNCHANGED <<dirs, files, rows, left>>
  BY DEF StatDirs, table
<1>3. proc[p].at \in {"mkmeta", "mkincomplete", "mkcomplete"}
  BY <1>2 DEF Making
<1>4. ASSUME NEW d, Claims(proc[p], d)
      PROVE  proc[p].at = "mkincomplete" /\ d = MetaDir(proc[p].id)
  <2>1. ~(proc[p].level > 0)
    BY <1>2
  <2> QED BY <1>2, <1>4, <2>1, MakingClaims
<1>5. CASE n = Len(Goal(p))
  <2> DEFINE r == MadeAll(p)
  <2>1. /\ proc' = [proc EXCEPT ![p] = r]
        /\ r.op = proc[p].op /\ r.id = proc[p].id /\ r.at # "info"
        /\ Creating(r) => Creating(proc[p])
        /\ proc[p].at = "mkincomplete" => Claims(r, MetaDir(proc[p].id))
    BY <1>1, <1>2, <1>5, MadeAllRecord, MadeAllClaims
  <2> HIDE DEF r
  <2>2. Posts'
    BY <1>2, <2>1, MakingGoesOn
  <2>3. \A d \in dirs : IsDirEmpty(d) /\ Claims(proc[p], d) => Claims(r, d)
    BY <1>4, <2>1
  <2> QED BY <1>2, <2>1, <2>2, <2>3, TreeStays
<1>6. CASE n # Len(Goal(p))
  <2> DEFINE r == [proc[p] EXCEPT !.level = n + 1]
  <2>1. /\ proc' = [proc EXCEPT ![p] = r]
        /\ r.op = proc[p].op /\ r.id = proc[p].id /\ r.at = proc[p].at
        /\ Creating(r) => Creating(proc[p])
        /\ proc[p].at = "mkincomplete" => Claims(r, MetaDir(proc[p].id))
    <3>1. n \in Nat
      BY <1>2, GoalFacts
    <3> QED BY <1>1, <1>2, <1>6, <3>1, LevelRecord
  <2> HIDE DEF r
  <2>2. Posts'
    BY <1>2, <1>3, <2>1, MakingGoesOn
  <2>3. \A d \in dirs : IsDirEmpty(d) /\ Claims(proc[p], d) => Claims(r, d)
    BY <1>4, <2>1
  <2> QED BY <1>2, <2>1, <2>2, <2>3, TreeStays
<1> QED BY <1>5, <1>6

\* The new directory is claimed; its parent, claimed before, has an entry now.
LEMMA MkdirExplained ==
  ASSUME IndInv, Explained, Posts, NEW p \in Proc, Mkdir(p)
  PROVE  Explained' /\ Posts'
<1> DEFINE n == proc[p].level
           new == SubSeq(Goal(p), 1, n)
           r == IF n = Len(Goal(p)) THEN MadeAll(p) ELSE [proc[p] EXCEPT !.level = n + 1]
<1>1. /\ Making(p) /\ n > 0 /\ dirs' = dirs \union {new} /\ Leave({})
      /\ proc' = [proc EXCEPT ![p] = r] /\ UNCHANGED <<files, rows>>
  BY DEF Mkdir, table
<1>2. /\ Goal(p) \in Path /\ Len(Goal(p)) \in Nat /\ n \in 1 .. Len(Goal(p))
      /\ proc[p].at \in {"mkmeta", "mkincomplete", "mkcomplete"}
  BY <1>1, GoalFacts DEF Making
<1>3. Front(new) = SubSeq(Goal(p), 1, n - 1) /\ new # <<>>
  <2>1. new \in Path /\ Len(new) = n
    BY <1>2, PrefixLength
  <2> QED BY <1>2, <2>1, FrontOfPrefix
<1>4. /\ r.op = proc[p].op /\ r.id = proc[p].id /\ r.at # "info"
      /\ Creating(r) => Creating(proc[p])
      /\ Claims(r, new)
      /\ proc[p].at = "mkincomplete" => Claims(r, MetaDir(proc[p].id))
  <2>1. CASE n = Len(Goal(p))
    <3>1. new = Goal(p)
      BY <1>2, <2>1, WholePrefix
    <3> QED BY <1>1, <2>1, <3>1, MadeAllRecord, MadeAllClaims
  <2>2. CASE n # Len(Goal(p))
    BY <1>1, <1>2, <2>2, LevelRecord
  <2> QED BY <2>1, <2>2
<1> HIDE DEF r, new
<1>5. Posts'
  BY <1>1, <1>4, MakingGoesOn
<1>6. proc'[p] = r /\ \A q \in Proc \ {p} : proc'[q] = proc[q]
  BY <1>1, MovesTo
<1>7. ASSUME NEW d \in dirs' \ {<<>>}, IsDirEmpty(d)'
      PROVE  \/ d \in dirs /\ IsDirEmpty(d) /\ ~Claims(proc[p], d)
             \/ Claims(proc'[p], d)
  <2>1. d # Front(new)
    BY <1>1, <1>3, <1>7 DEF IsDirEmpty
  <2>2. IsDirEmpty(d)
    BY <1>1, <1>7 DEF IsDirEmpty
  <2>3. CASE d = new
    BY <1>4, <1>6, <2>3
  <2>4. CASE d # new
    BY <1>1, <1>3, <1>4, <1>6, <2>1, <2>2, <2>4, MakingClaims
  <2> QED BY <2>3, <2>4
<1>8. \A d \in left \union {} : d \in dirs' /\ IsDirEmpty(d)' => d \in left'
  BY <1>1, LeaveExplains
<1> QED BY <1>5, <1>6, <1>7, <1>8, StillExplained

LEMMA MkdirFailsExplained ==
  ASSUME IndInv, Explained, Posts, NEW p \in Proc, MkdirFails(p)
  PROVE  Explained' /\ Posts'
<1>1. /\ Making(p) /\ proc[p].level > 0
      /\ SubSeq(Goal(p), 1, proc[p].level - 1) \notin dirs
      /\ UNCHANGED <<dirs, files, rows>>
      /\ Leave(IF proc[p].at = "mkincomplete" THEN {MetaDir(proc[p].id)} ELSE {})
  BY DEF MkdirFails, table
<1>2. ASSUME NEW d \in dirs, Claims(proc[p], d)
      PROVE  proc[p].at = "mkincomplete" /\ d = MetaDir(proc[p].id)
  BY <1>1, <1>2, MakingClaims
<1> DEFINE S == IF proc[p].at = "mkincomplete" THEN {MetaDir(proc[p].id)} ELSE {}
<1>3. \A d \in left \union S : d \in dirs' /\ IsDirEmpty(d)' => d \in left'
  BY <1>1, LeaveExplains
<1>4. \A d : IsDirEmpty(d)' <=> IsDirEmpty(d)
  BY <1>1, SameTree
<1>5. \A d \in dirs \ {<<>>} : IsDirEmpty(d)' =>
         d \in S \/ (IsDirEmpty(d) /\ ~Claims(proc[p], d))
  BY <1>2, <1>4
<1>6. CASE proc[p].at = "mkcomplete"
  <2> DEFINE r == MadeAll(p)
  <2>1. /\ proc' = [proc EXCEPT ![p] = r]
        /\ r.op = proc[p].op /\ r.id = proc[p].id /\ r.at # "info"
        /\ Creating(r) => Creating(proc[p])
    BY <1>1, <1>6, MadeAllRecord, MadeAllClaims DEF MkdirFails
  <2> HIDE DEF r, S
  <2>2. Posts'
    BY <1>1, <2>1, MakingGoesOn
  <2>3. proc'[p] = r /\ \A q \in Proc \ {p} : proc'[q] = proc[q]
    BY <2>1, MovesTo
  <2> QED BY <1>1, <1>3, <1>5, <2>2, <2>3, StillExplained
<1>7. CASE proc[p].at # "mkcomplete"
  <2>1. End(p) /\ proc[p].at # "idle"
    BY <1>1, <1>7 DEF MkdirFails, Making
  <2> HIDE DEF S
  <2> QED BY <1>1, <1>3, <1>5, <2>1, EndExplained
<1> QED BY <1>6, <1>7

(*****************************************************************************)
(* Requests                                                                  *)
(*****************************************************************************)
LEMMA NewUploadExplained ==
  ASSUME IndInv, Explained, Posts, NEW w \in Worker, NewUpload(w)
  PROVE  Explained' /\ Posts'
<1>1. PICK id \in Id \ rows :
        /\ ~Posting(id)
        /\ proc' = [proc EXCEPT ![w] = [Begin("POST", id) EXCEPT !.at = "mkmeta"]]
  BY DEF NewUpload
<1>2. w \in Proc /\ proc[w].at = "idle" /\ UNCHANGED <<dirs, files, rows, left>>
  BY DEF NewUpload, Proc, table
<1> DEFINE r == [Begin("POST", id) EXCEPT !.at = "mkmeta"]
<1>3. r.at = "mkmeta" /\ r.op = "POST" /\ r.id = id
  BY DEF Begin, Idle
<1>4. proc' = [proc EXCEPT ![w] = r]
  BY <1>1
<1> HIDE DEF r
<1>5. proc'[w] = r /\ \A q \in Proc \ {w} : proc'[q] = proc[q]
  BY <1>2, <1>4, MovesTo
<1>6. \A d : ~Claims(proc[w], d)
  BY <1>2 DEF Claims, MakingOf
<1>7. Explained'
  BY <1>2, <1>4, <1>6, TreeStays
<1>8. \A q \in Proc : proc[q].op = "POST" => proc[q].id # id
  BY <1>1 DEF Posts, Posting
<1>9. Posts'
  <2>1. \A q \in Proc : Creating(proc'[q]) => proc'[q].op = "POST" /\ proc'[q].id \notin rows'
    <3> SUFFICES ASSUME NEW q \in Proc, Creating(proc'[q])
                 PROVE  proc'[q].op = "POST" /\ proc'[q].id \notin rows'
      OBVIOUS
    <3>1. CASE q = w
      <4>1. proc'[q].op = "POST" /\ proc'[q].id = id
        BY <1>3, <1>5, <3>1
      <4>2. id \notin rows'
        BY <1>1, <1>2
      <4> QED BY <4>1, <4>2
    <3>2. CASE q # w
      <4>1. proc'[q] = proc[q]
        BY <1>5, <3>2
      <4> QED BY <1>2, <4>1 DEF Posts
    <3> QED BY <3>1, <3>2
  <2>2. \A q \in Proc : proc'[q].at = "info" => proc'[q].op = "POST"
    BY <1>3, <1>5 DEF Posts
  <2>3. \A q \in Proc : proc'[q].op = "POST" => q \in Worker
    BY <1>5 DEF Posts
  <2>4. ASSUME NEW q \in Proc, NEW u \in Proc, proc'[q].op = "POST", proc'[u].op = "POST",
               proc'[q].id = proc'[u].id
        PROVE  q = u
    BY <1>3, <1>5, <1>8, <2>4 DEF Posts
  <2> QED BY <2>1, <2>2, <2>3, <2>4 DEF Posts
<1> QED BY <1>7, <1>9

\* The record and the .bin, or the .info, fill the directory that was made for
\* them; without an open file the directories are left.
LEMMA CreateFileExplained ==
  ASSUME IndInv, Explained, Posts, NEW w \in Worker, CreateFile(w)
  PROVE  Explained' /\ Posts'
<1> DEFINE id == proc[w].id
           f == IF proc[w].at = "create" THEN Bin(id) ELSE Info(id)
           S == {MetaDir(id), IncompleteBinDir}
<1>1. /\ proc[w].at \in {"create", "info"} /\ w \in Proc
      /\ rows' = rows \union {id} /\ dirs' = dirs
  BY DEF CreateFile, Proc
<1>2. /\ id \in Id /\ proc[w].op = "POST"
      /\ proc[w].at = "create" => id \notin hashed
  BY <1>1 DEF IndInv, Procs, Sane, Posts, Creating, Rows
<1>3. f.dir = IF proc[w].at = "create" THEN IncompleteBinDir ELSE MetaDir(id)
  BY <1>1, <1>2, TheFiles
<1>4. ASSUME NEW d, Claims(proc[w], d)
      PROVE  d = MetaDir(id) \/ (proc[w].at = "create" /\ d = IncompleteBinDir)
  BY <1>1, <1>4 DEF Claims, MakingOf
<1>5. \/ /\ f.dir \in dirs /\ files' = files \union {f}
         /\ IF proc[w].at = "create" THEN Goto(w, "info") ELSE End(w)
         /\ Leave({})
      \/ End(w) /\ UNCHANGED files /\ Leave(S)
  BY DEF CreateFile
<1> HIDE DEF f
<1>6. CASE End(w) /\ UNCHANGED files /\ Leave(S)
  <2>1. \A d \in left \union S : d \in dirs' /\ IsDirEmpty(d)' => d \in left'
    BY <1>6, LeaveExplains
  <2>2. \A d : IsDirEmpty(d)' <=> IsDirEmpty(d)
    BY <1>1, <1>6, SameTree
  <2>3. \A d \in dirs \ {<<>>} : IsDirEmpty(d)' =>
           d \in S \/ (IsDirEmpty(d) /\ ~Claims(proc[w], d))
    BY <1>4, <2>2
  <2> HIDE DEF S
  <2> QED BY <1>1, <1>2, <1>6, <2>1, <2>3, EndExplained
<1>7. CASE f.dir \in dirs /\ files' = files \union {f} /\ Leave({})
  <2>1. \A d \in left \union {} : d \in dirs' /\ IsDirEmpty(d)' => d \in left'
    BY <1>7, LeaveExplains
  <2>2. ASSUME NEW d, IsDirEmpty(d)'
        PROVE  IsDirEmpty(d) /\ d # f.dir
    BY <1>1, <1>7, <2>2 DEF IsDirEmpty
  <2>3. CASE proc[w].at = "info" /\ End(w)
    <3>1. \A d \in dirs \ {<<>>} : IsDirEmpty(d)' =>
             d \in {} \/ (IsDirEmpty(d) /\ ~Claims(proc[w], d))
      BY <1>3, <1>4, <2>2, <2>3
    <3> QED BY <1>1, <1>2, <2>1, <2>3, <3>1, EndExplained
  <2>4. CASE proc[w].at = "create" /\ Goto(w, "info")
    <3> DEFINE r == [proc[w] EXCEPT !.at = "info"]
    <3>1. proc' = [proc EXCEPT ![w] = r]
      BY <2>4 DEF Goto
    <3>2. r.at = "info" /\ r.id = id /\ r.op = "POST"
      BY <1>1, <1>2 DEF IndInv, Procs, ProcType
    <3> HIDE DEF r
    <3>3. proc'[w] = r /\ \A q \in Proc \ {w} : proc'[q] = proc[q]
      BY <1>1, <3>1, MovesTo
    <3>4. Claims(r, MetaDir(id)) /\ ~Creating(r)
      BY <3>2 DEF Claims, Creating
    <3>5. GoesOn(w)
      BY <1>2, <3>2, <3>3, <3>4 DEF GoesOn
    <3>6. Posts'
      BY <1>1, <1>2, <3>3, <3>4, <3>5, PostsGoOn
    <3>7. \A d \in dirs \ {<<>>} : IsDirEmpty(d)' =>
             (IsDirEmpty(d) /\ ~Claims(proc[w], d)) \/ Claims(r, d)
      BY <1>3, <1>4, <2>2, <2>4, <3>4
    <3> QED BY <1>1, <2>1, <3>3, <3>6, <3>7, StillExplained
  <2> QED BY <1>1, <1>5, <1>6, <2>3, <2>4
<1> QED BY <1>5, <1>6, <1>7

LEMMA LockUploadExplained ==
  ASSUME IndInv, Explained, Posts, NEW w \in Worker, LockUpload(w)
  PROVE  Explained' /\ Posts'
<1>1. PICK id \in rows, op \in Methods[w] \ {"POST"} :
        /\ files' = files \union {Lock(id)}
        /\ proc' = [proc EXCEPT ![w] = [Begin(op, id) EXCEPT !.at = "getinfo"]]
  BY DEF LockUpload
<1>2. /\ w \in Proc /\ proc[w].at = "idle" /\ UNCHANGED <<dirs, rows>> /\ Leave({})
  BY DEF LockUpload, Proc, table
<1> DEFINE r == [Begin(op, id) EXCEPT !.at = "getinfo"]
<1>3. r.at = "getinfo" /\ r.op = op /\ op # "POST"
  BY <1>1 DEF Begin, Idle
<1>4. proc' = [proc EXCEPT ![w] = r]
  BY <1>1
<1> HIDE DEF r
<1>5. proc'[w] = r /\ \A q \in Proc \ {w} : proc'[q] = proc[q]
  BY <1>2, <1>4, MovesTo
<1>6. GoesOn(w)
  BY <1>3, <1>5 DEF GoesOn, Creating
<1>7. Posts'
  BY <1>2, <1>5, <1>6, PostsGoOn
<1>8. \A d \in dirs \ {<<>>} : IsDirEmpty(d)' => IsDirEmpty(d) /\ ~Claims(proc[w], d)
  <2>1. \A d : ~Claims(proc[w], d)
    BY <1>2 DEF Claims, MakingOf
  <2>2. \A d : IsDirEmpty(d)' => IsDirEmpty(d)
    BY <1>1, <1>2 DEF IsDirEmpty
  <2> QED BY <2>1, <2>2
<1>9. \A d \in left \union {} : d \in dirs' /\ IsDirEmpty(d)' => d \in left'
  BY <1>2, LeaveExplains
<1> QED BY <1>2, <1>5, <1>7, <1>8, <1>9, StillExplained

\* A step to a record that claims nothing, from one that claims nothing that
\* could be empty, by an operation that is not a POST or stays what it is.
LEMMA QuietStep ==
  ASSUME IndInv, Explained, Posts, NEW p \in Proc, NEW r, proc' = [proc EXCEPT ![p] = r],
         UNCHANGED <<dirs, files, rows, left>>,
         \A d \in dirs \ {<<>>} : IsDirEmpty(d) /\ Claims(proc[p], d) => Claims(r, d),
         ~Creating(r), r.at # "info",
         r.op = "POST" => proc[p].op = "POST" /\ r.id = proc[p].id
  PROVE  Explained' /\ Posts'
<1>1. proc'[p] = r /\ \A q \in Proc \ {p} : proc'[q] = proc[q]
  BY MovesTo
<1>2. GoesOn(p)
  BY <1>1 DEF GoesOn
<1>3. Posts'
  BY <1>1, <1>2, PostsGoOn
<1>4. \A d : IsDirEmpty(d)' <=> IsDirEmpty(d)
  BY SameTree
<1> QED BY <1>1, <1>3, <1>4, StillExplained

LEMMA QuietEnd ==
  ASSUME IndInv, Explained, Posts, NEW p \in Proc, proc[p].at # "idle", End(p),
         UNCHANGED <<dirs, files, rows, left>>,
         \A d \in dirs \ {<<>>} : IsDirEmpty(d) => ~Claims(proc[p], d)
  PROVE  Explained' /\ Posts'
<1>1. \A d : IsDirEmpty(d)' <=> IsDirEmpty(d)
  BY SameTree
<1>2. \A d \in left \union {} : d \in dirs' /\ IsDirEmpty(d)' => d \in left'
  OBVIOUS
<1>3. \A d \in dirs \ {<<>>} : IsDirEmpty(d)' =>
         d \in {} \/ (IsDirEmpty(d) /\ ~Claims(proc[p], d))
  BY <1>1
<1> QED BY <1>2, <1>3, EndExplained

LEMMA TerminatingRecord ==
  ASSUME NEW p \in Proc, proc[p] \in ProcType, NEW id, NEW op
  PROVE  LET r == Terminating(p, id, op)
         IN  r.at = "stat" /\ r.op = op /\ r.id = id /\ r.level = proc[p].level
BY DEF Terminating, ProcType

LEMMA StatClaimsNothing ==
  ASSUME NEW r, r.at \in {"idle", "getinfo", "unlock", "stat", "remove", "mark"}
  PROVE  \A d : ~Claims(r, d)
BY DEF Claims, MakingOf

LEMMA GetInfoExplained ==
  ASSUME IndInv, Explained, Posts, NEW w \in Worker, GetInfo(w)
  PROVE  Explained' /\ Posts'
<1>1. /\ w \in Proc /\ proc[w].at = "getinfo" /\ UNCHANGED <<dirs, files, rows, left>>
      /\ \/ End(w)
         \/ proc[w].op = "PATCH" /\ Goto(w, "mkcomplete")
         \/ proc' = [proc EXCEPT ![w] = Terminating(w, proc[w].id, "DELETE")]
  BY DEF GetInfo, Proc
<1>2. proc[w] \in ProcType /\ \A d : ~Claims(proc[w], d)
  BY <1>1, StatClaimsNothing DEF IndInv, Procs
<1>3. CASE End(w)
  BY <1>1, <1>2, <1>3, QuietEnd
<1>4. CASE proc[w].op = "PATCH" /\ Goto(w, "mkcomplete")
  <2> DEFINE r == [proc[w] EXCEPT !.at = "mkcomplete"]
  <2>1. proc' = [proc EXCEPT ![w] = r]
    BY <1>4 DEF Goto
  <2>2. r.at = "mkcomplete" /\ r.op = "PATCH"
    BY <1>2, <1>4 DEF ProcType
  <2> HIDE DEF r
  <2>3. ~Creating(r)
    BY <2>2 DEF Creating
  <2> QED BY <1>1, <1>2, <2>1, <2>2, <2>3, QuietStep
<1>5. CASE proc' = [proc EXCEPT ![w] = Terminating(w, proc[w].id, "DELETE")]
  <2> DEFINE r == Terminating(w, proc[w].id, "DELETE")
  <2>1. r.at = "stat" /\ r.op = "DELETE"
    BY <1>1, <1>2, TerminatingRecord
  <2>2. proc' = [proc EXCEPT ![w] = r]
    BY <1>5
  <2> HIDE DEF r
  <2>3. ~Creating(r)
    BY <2>1 DEF Creating
  <2> QED BY <1>1, <1>2, <2>1, <2>2, <2>3, QuietStep
<1> QED BY <1>1, <1>3, <1>4, <1>5

\* The .bin moves into the directory that was made for it; what it leaves behind
\* is left.
LEMMA RenameExplained ==
  ASSUME IndInv, Explained, Posts, NEW w \in Worker, Rename(w)
  PROVE  Explained' /\ Posts'
<1> DEFINE id == proc[w].id
           old == File(IncompleteBinDir, "bin", id)
<1>1. /\ proc[w].at = "rename" /\ w \in Proc /\ UNCHANGED <<dirs, table>> /\ End(w)
      /\ \/ /\ CompleteBinDir(id) \in dirs
            /\ files' = (files \ {old}) \union {Bin(id)}
            /\ Leave({IncompleteBinDir})
         \/ CompleteBinDir(id) \notin dirs /\ UNCHANGED <<files, left>>
         \/ UNCHANGED files /\ Leave({CompleteBinDir(id)})
  BY DEF Rename, Proc
<1>2. id \in Id /\ id \in hashed
  BY <1>1 DEF IndInv, Procs, Sane, Rows, Recorded
<1>3. ASSUME NEW d, Claims(proc[w], d)
      PROVE  d = CompleteBinDir(id)
  BY <1>1, <1>3 DEF Claims, MakingOf
<1>4. CASE /\ CompleteBinDir(id) \in dirs
           /\ files' = (files \ {old}) \union {Bin(id)}
           /\ Leave({IncompleteBinDir})
  <2> DEFINE S == {IncompleteBinDir}
  <2>1. Bin(id).dir = CompleteBinDir(id) /\ old.dir = IncompleteBinDir
    BY <1>2, TheFiles DEF File
  <2>2. ASSUME NEW d, IsDirEmpty(d)'
        PROVE  d # CompleteBinDir(id) /\ (d = IncompleteBinDir \/ IsDirEmpty(d))
    <3> HIDE DEF old
    <3> QED BY <1>1, <1>4, <2>1, <2>2 DEF IsDirEmpty
  <2>3. \A d \in dirs \ {<<>>} : IsDirEmpty(d)' =>
           d \in S \/ (IsDirEmpty(d) /\ ~Claims(proc[w], d))
    BY <1>3, <2>2
  <2>4. \A d \in left \union S : d \in dirs' /\ IsDirEmpty(d)' => d \in left'
    BY <1>4, LeaveExplains
  <2> HIDE DEF S
  <2> QED BY <1>1, <2>3, <2>4, EndExplained DEF table
<1>5. CASE CompleteBinDir(id) \notin dirs /\ UNCHANGED <<files, left>>
  BY <1>1, <1>3, <1>5, QuietEnd DEF table
<1>6. CASE UNCHANGED files /\ Leave({CompleteBinDir(id)})
  <2> DEFINE S == {CompleteBinDir(id)}
  <2>1. \A d : IsDirEmpty(d)' <=> IsDirEmpty(d)
    BY <1>1, <1>6, SameTree
  <2>2. \A d \in dirs \ {<<>>} : IsDirEmpty(d)' =>
           d \in S \/ (IsDirEmpty(d) /\ ~Claims(proc[w], d))
    BY <1>3, <2>1
  <2>3. \A d \in left \union S : d \in dirs' /\ IsDirEmpty(d)' => d \in left'
    BY <1>6, LeaveExplains
  <2> HIDE DEF S
  <2> QED BY <1>1, <2>2, <2>3, EndExplained DEF table
<1> QED BY <1>1, <1>4, <1>5, <1>6

LEMMA UnlockUploadExplained ==
  ASSUME IndInv, Explained, Posts, NEW w \in Worker, UnlockUpload(w)
  PROVE  Explained' /\ Posts'
<1> DEFINE id == proc[w].id
           S == {MetaDir(id)}
<1>1. /\ proc[w].at = "unlock" /\ w \in Proc /\ UNCHANGED <<dirs, table>> /\ Leave(S)
      /\ files' = files \ {Lock(id)} /\ proc' = [proc EXCEPT ![w] = Idle]
  BY DEF UnlockUpload, Proc
<1>2. Idle.at = "idle" /\ Idle.op = "none" /\ Lock(id).dir = MetaDir(id)
  BY DEF Idle, Lock, File
<1>3. proc'[w] = Idle /\ \A q \in Proc \ {w} : proc'[q] = proc[q]
  BY <1>1, MovesTo
<1>4. GoesOn(w)
  BY <1>2, <1>3 DEF GoesOn, Creating
<1>5. Posts'
  BY <1>1, <1>3, <1>4, PostsGoOn DEF table
<1>6. \A d : ~Claims(proc[w], d)
  BY <1>1, StatClaimsNothing
<1>7. ASSUME NEW d, IsDirEmpty(d)' PROVE d \in S \/ IsDirEmpty(d)
  BY <1>1, <1>2, <1>7 DEF IsDirEmpty
<1>8. \A d \in left \union S : d \in dirs' /\ IsDirEmpty(d)' => d \in left'
  BY <1>1, LeaveExplains
<1> HIDE DEF S
<1> QED BY <1>1, <1>3, <1>5, <1>6, <1>7, <1>8, StillExplained

(*****************************************************************************)
(* RemoveWithDirs holds on to the directory it has just emptied              *)
(*****************************************************************************)
LEMMA RemovedRecord ==
  ASSUME NEW p \in Proc, proc[p] \in ProcType,
         NEW r, r = [proc[p] EXCEPT !.at = IF RemovesInfo(p) THEN "stat" ELSE "mark",
                                    !.target = proc[p].bin, !.dir = <<>>]
  PROVE  r.at \in {"stat", "mark"} /\ r.op = proc[p].op /\ r.id = proc[p].id
BY DEF ProcType

LEMMA RemovedExplained ==
  ASSUME IndInv, Explained, Posts, NEW p \in Proc, Removed(p),
         UNCHANGED <<dirs, files, rows, left>>,
         \A d \in dirs \ {<<>>} : IsDirEmpty(d) => ~Claims(proc[p], d)
  PROVE  Explained' /\ Posts'
<1> DEFINE r == [proc[p] EXCEPT !.at = IF RemovesInfo(p) THEN "stat" ELSE "mark",
                                !.target = proc[p].bin, !.dir = <<>>]
<1>1. proc' = [proc EXCEPT ![p] = r] /\ proc[p] \in ProcType
  BY DEF Removed, IndInv, Procs
<1>2. r.at \in {"stat", "mark"} /\ r.op = proc[p].op /\ r.id = proc[p].id
  BY <1>1, RemovedRecord
<1> HIDE DEF r
<1>3. ~Creating(r)
  BY <1>2 DEF Creating
<1> QED BY <1>1, <1>2, <1>3, QuietStep

LEMMA StatFileExplained ==
  ASSUME IndInv, Explained, Posts, NEW p \in Proc, StatFile(p)
  PROVE  Explained' /\ Posts'
<1>1. /\ proc[p].at = "stat" /\ UNCHANGED <<dirs, files, rows, left>>
      /\ Goto(p, "remove") \/ Removed(p)
  BY DEF StatFile, NotThere, table
<1>2. proc[p] \in ProcType /\ \A d : ~Claims(proc[p], d)
  BY <1>1, StatClaimsNothing DEF IndInv, Procs
<1>3. CASE Goto(p, "remove")
  <2> DEFINE r == [proc[p] EXCEPT !.at = "remove"]
  <2>1. proc' = [proc EXCEPT ![p] = r]
    BY <1>3 DEF Goto
  <2>2. r.at = "remove" /\ r.op = proc[p].op /\ r.id = proc[p].id
    BY <1>2 DEF ProcType
  <2> HIDE DEF r
  <2>3. ~Creating(r)
    BY <2>2 DEF Creating
  <2> QED BY <1>1, <1>2, <2>1, <2>2, <2>3, QuietStep
<1>4. CASE Removed(p)
  BY <1>1, <1>2, <1>4, RemovedExplained
<1> QED BY <1>1, <1>3, <1>4

\* At the directory dir: it is claimed.
LEMMA DirClaims ==
  ASSUME NEW p \in Proc, proc[p] \in ProcType, NEW at \in {"check", "rmdir"}, NEW dir,
         NEW r, r = [proc[p] EXCEPT !.at = at, !.dir = dir]
  PROVE  /\ r.op = proc[p].op /\ r.id = proc[p].id /\ Claims(r, dir)
         /\ ~Creating(r) /\ r.at # "info"
<1>1. r.at = at /\ r.dir = dir /\ r.op = proc[p].op /\ r.id = proc[p].id
  BY DEF ProcType
<1> QED BY <1>1 DEF Claims, Creating

LEMMA RemoveFileExplained ==
  ASSUME IndInv, Explained, Posts, NEW p \in Proc, RemoveFile(p)
  PROVE  Explained' /\ Posts'
<1> DEFINE target == proc[p].target
           r == [proc[p] EXCEPT !.at = "check", !.dir = target.dir]
<1>1. /\ proc[p].at = "remove" /\ UNCHANGED <<dirs, rows>> /\ Leave({})
      /\ files' = files \ {target} /\ proc' = [proc EXCEPT ![p] = r]
  BY DEF RemoveFile, table
<1>2. proc[p] \in ProcType /\ \A d : ~Claims(proc[p], d)
  BY <1>1, StatClaimsNothing DEF IndInv, Procs
<1>3. /\ r.op = proc[p].op /\ r.id = proc[p].id /\ Claims(r, target.dir)
      /\ ~Creating(r) /\ r.at # "info"
  <2> DEFINE d == target.dir
  <2>1. r = [proc[p] EXCEPT !.at = "check", !.dir = d]
    OBVIOUS
  <2> HIDE DEF r, d
  <2>2. proc[p] \in ProcType /\ "check" \in {"check", "rmdir"}
    BY <1>2
  <2>3. /\ r.op = proc[p].op /\ r.id = proc[p].id /\ Claims(r, d)
        /\ ~Creating(r) /\ r.at # "info"
    BY <2>1, <2>2, DirClaims
  <2> QED BY <2>3 DEF d
<1> HIDE DEF r, target
<1>4. proc'[p] = r /\ \A q \in Proc \ {p} : proc'[q] = proc[q]
  BY <1>1, MovesTo
<1>5. GoesOn(p)
  BY <1>3, <1>4 DEF GoesOn
<1>6. Posts'
  BY <1>1, <1>4, <1>5, PostsGoOn
<1>7. ASSUME NEW d, IsDirEmpty(d)' PROVE d = target.dir \/ IsDirEmpty(d)
  BY <1>1, <1>7 DEF IsDirEmpty
<1>8. \A d \in left \union {} : d \in dirs' /\ IsDirEmpty(d)' => d \in left'
  BY <1>1, LeaveExplains
<1>9. \A d \in dirs' \ {<<>>} : IsDirEmpty(d)' =>
         \/ d \in dirs /\ IsDirEmpty(d) /\ ~Claims(proc[p], d)
         \/ Claims(proc'[p], d)
  BY <1>1, <1>2, <1>3, <1>4, <1>7
<1> QED BY <1>1, <1>4, <1>6, <1>8, <1>9, StillExplained

LEMMA CheckDirExplained ==
  ASSUME IndInv, Explained, Posts, NEW p \in Proc, CheckDir(p)
  PROVE  Explained' /\ Posts'
<1> DEFINE dir == proc[p].dir
<1>1. /\ proc[p].at = "check" /\ UNCHANGED <<dirs, files, rows, left>>
      /\ \/ dir = <<>> /\ Removed(p)
         \/ dir \notin dirs /\ End(p)
         \/ Goto(p, "rmdir")
         \/ ~IsDirEmpty(dir) /\ proc' = [proc EXCEPT ![p].dir = Parent(dir)]
  BY DEF CheckDir, ReachedBase, table
<1>2. proc[p] \in ProcType
  BY DEF IndInv, Procs
<1>3. ASSUME NEW d, Claims(proc[p], d) PROVE d = dir
  BY <1>1, <1>3 DEF Claims, MakingOf
<1>4. CASE dir = <<>> /\ Removed(p)
  BY <1>1, <1>3, <1>4, RemovedExplained
<1>5. CASE dir \notin dirs /\ End(p)
  BY <1>1, <1>3, <1>5, QuietEnd
<1>6. CASE Goto(p, "rmdir")
  <2> DEFINE r == [proc[p] EXCEPT !.at = "rmdir", !.dir = dir]
  <2>1. proc' = [proc EXCEPT ![p] = r]
    BY <1>2, <1>6 DEF Goto, ProcType
  <2>2. /\ r.op = proc[p].op /\ r.id = proc[p].id /\ Claims(r, dir)
        /\ ~Creating(r) /\ r.at # "info"
    BY <1>2, DirClaims
  <2> HIDE DEF r, dir
  <2> QED BY <1>1, <1>3, <2>1, <2>2, QuietStep
<1>7. CASE ~IsDirEmpty(dir) /\ proc' = [proc EXCEPT ![p].dir = Parent(dir)]
  <2> DEFINE up == Parent(dir)
             r == [proc[p] EXCEPT !.at = "check", !.dir = up]
  <2>1. proc' = [proc EXCEPT ![p] = r]
    BY <1>1, <1>2, <1>7 DEF ProcType
  <2>2. /\ r.op = proc[p].op /\ r.id = proc[p].id
        /\ ~Creating(r) /\ r.at # "info"
    <3> HIDE DEF up
    <3> QED BY <1>2, DirClaims
  <2> HIDE DEF r, dir
  <2> QED BY <1>1, <1>3, <1>7, <2>1, <2>2, QuietStep
<1> QED BY <1>1, <1>4, <1>5, <1>6, <1>7

\* With a directory gone its parent may be empty: the next one to look at.
LEMMA RmdirExplained ==
  ASSUME IndInv, Explained, Posts, NEW p \in Proc, Rmdir(p)
  PROVE  Explained' /\ Posts'
<1> DEFINE dir == proc[p].dir
           up == Parent(dir)
           r == [proc[p] EXCEPT !.at = "check", !.dir = up]
<1>1. /\ proc[p].at = "rmdir" /\ dir \in dirs /\ dirs' = dirs \ {dir} /\ Leave({})
      /\ proc' = [q \in Proc |->
                   IF q = p THEN r ELSE [proc[q] EXCEPT !.hurt = proc[q].at # "idle"]]
      /\ UNCHANGED <<files, rows>>
  BY DEF Rmdir, table
<1>2. proc[p] \in ProcType /\ dir # <<>>
  BY <1>1 DEF IndInv, Procs, Sane
<1>3. up = Front(dir)
  BY <1>2 DEF Parent
<1>4. ASSUME NEW d, Claims(proc[p], d) PROVE d = dir
  BY <1>1, <1>4 DEF Claims, MakingOf
<1>5. /\ r.op = proc[p].op /\ r.id = proc[p].id /\ Claims(r, up)
      /\ ~Creating(r) /\ r.at # "info"
  <2> HIDE DEF up
  <2>1. r.at = "check" /\ r.dir = up /\ r.op = proc[p].op /\ r.id = proc[p].id
    BY <1>2 DEF ProcType
  <2> HIDE DEF r
  <2> QED BY <2>1 DEF Claims, Creating
<1> HIDE DEF r, up, dir
<1>6. proc'[p] = r
  BY <1>1
<1>7. ASSUME NEW q \in Proc \ {p}
      PROVE  /\ proc'[q].at = proc[q].at /\ proc'[q].op = proc[q].op
             /\ proc'[q].id = proc[q].id
             /\ \A d : Claims(proc[q], d) => Claims(proc'[q], d)
  <2>1. proc[q] \in ProcType /\ proc'[q] = [proc[q] EXCEPT !.hurt = proc[q].at # "idle"]
    BY <1>1 DEF IndInv, Procs
  <2>2. /\ proc'[q].at = proc[q].at /\ proc'[q].op = proc[q].op
        /\ proc'[q].id = proc[q].id /\ proc'[q].dir = proc[q].dir
        /\ proc'[q].level = proc[q].level
    BY <2>1 DEF ProcType
  <2>3. MakingOf(proc'[q]) = MakingOf(proc[q]) /\ GoalOf(proc'[q]) = GoalOf(proc[q])
    BY <2>2 DEF MakingOf, GoalOf
  <2>4. \A d : Claims(proc[q], d) => Claims(proc'[q], d)
    BY <2>2, <2>3 DEF Claims
  <2> QED BY <2>2, <2>4
<1>8. GoesOn(p)
  BY <1>5, <1>6 DEF GoesOn
<1>9. Posts'
  BY <1>1, <1>7, <1>8, PostsGoOn
<1>10. ASSUME NEW d, IsDirEmpty(d)' PROVE d = up \/ IsDirEmpty(d)
  BY <1>1, <1>3, <1>10 DEF IsDirEmpty
<1>11. \A d \in dirs' \ {<<>>} : IsDirEmpty(d)' =>
          \/ d \in dirs /\ IsDirEmpty(d) /\ ~Claims(proc[p], d)
          \/ Claims(proc'[p], d)
  BY <1>1, <1>4, <1>5, <1>6, <1>10
<1>12. \A d \in left \union {} : d \in dirs' /\ IsDirEmpty(d)' => d \in left'
  BY <1>1, LeaveExplains
<1> QED BY <1>7, <1>9, <1>11, <1>12, StillExplained

LEMMA RmdirFailsExplained ==
  ASSUME IndInv, Explained, Posts, NEW p \in Proc, RmdirFails(p)
  PROVE  Explained' /\ Posts'
<1>1. /\ End(p) /\ proc[p].at = "rmdir" /\ UNCHANGED <<dirs, files, rows, left>>
      /\ proc[p].dir \notin dirs \/ ~IsDirEmpty(proc[p].dir)
  BY DEF RmdirFails, table
<1>2. ASSUME NEW d, Claims(proc[p], d) PROVE d = proc[p].dir
  BY <1>1, <1>2 DEF Claims, MakingOf
<1> QED BY <1>1, <1>2, QuietEnd

LEMMA MarkDeletedExplained ==
  ASSUME IndInv, Explained, Posts, NEW p \in Proc, MarkDeleted(p)
  PROVE  Explained' /\ Posts'
<1>1. /\ End(p) /\ proc[p].at = "mark" /\ UNCHANGED <<dirs, files, rows, left>>
  BY DEF MarkDeleted
<1>2. \A d : ~Claims(proc[p], d)
  BY <1>1, StatClaimsNothing
<1> QED BY <1>1, <1>2, QuietEnd

LEMMA NextExpiredExplained ==
  ASSUME IndInv, Explained, Posts, NEW g \in Gc, NextExpired(g)
  PROVE  Explained' /\ Posts'
<1>1. PICK id \in rows : proc' = [proc EXCEPT ![g] = Terminating(g, id, "gc")]
  BY DEF NextExpired
<1>2. proc[g].at = "idle" /\ g \in Proc /\ UNCHANGED <<dirs, files, rows, left>>
  BY DEF NextExpired, table, Proc
<1>3. proc[g] \in ProcType /\ \A d : ~Claims(proc[g], d)
  BY <1>2, StatClaimsNothing DEF IndInv, Procs
<1> DEFINE r == Terminating(g, id, "gc")
<1>4. r.at = "stat" /\ r.op = "gc"
  BY <1>2, <1>3, TerminatingRecord
<1>5. proc' = [proc EXCEPT ![g] = r]
  BY <1>1
<1> HIDE DEF r
<1>6. ~Creating(r)
  BY <1>4 DEF Creating
<1> QED BY <1>2, <1>3, <1>4, <1>5, <1>6, QuietStep

LEMMA ExplainedInit == Init => Explained /\ Posts
<1> SUFFICES ASSUME Init PROVE Explained /\ Posts
  OBVIOUS
<1>1. \A p \in Proc : proc[p].at = "idle" /\ proc[p].op = "none"
  BY DEF Init, Idle
<1> QED BY <1>1 DEF Init, Explained, Posts, Creating

LEMMA ExplainedNext == IndInv /\ Explained /\ Posts /\ [Next]_vars => (Explained /\ Posts)'
<1> SUFFICES ASSUME IndInv, Explained, Posts, [Next]_vars PROVE Explained' /\ Posts'
  OBVIOUS
<1>1. CASE UNCHANGED vars
  <2>1. UNCHANGED <<dirs, files, rows, proc, left>>
    BY <1>1 DEF vars
  <2>2. \A d : IsDirEmpty(d)' <=> IsDirEmpty(d)
    BY <2>1, SameTree
  <2> QED BY <2>1, <2>2 DEF Explained, Posts, Creating
<1>2. ASSUME NEW p \in Proc, MkdirAll(p) PROVE Explained' /\ Posts'
  BY <1>2, StatDirsExplained, MkdirExplained, MkdirFailsExplained DEF MkdirAll
<1>3. ASSUME NEW p \in Proc, RemoveWithDirs(p) PROVE Explained' /\ Posts'
  BY <1>3, StatFileExplained, RemoveFileExplained, CheckDirExplained, RmdirExplained,
     RmdirFailsExplained DEF RemoveWithDirs
<1>4. ASSUME NEW w \in Worker, NewUpload(w) \/ LockUpload(w) \/ Serve(w)
      PROVE  Explained' /\ Posts'
  BY <1>2, <1>3, <1>4, NewUploadExplained, LockUploadExplained, CreateFileExplained,
     GetInfoExplained, RenameExplained, MarkDeletedExplained, UnlockUploadExplained
     DEF Serve, Proc
<1>5. ASSUME NEW g \in Gc, Collect(g) PROVE Explained' /\ Posts'
  BY <1>3, <1>5, NextExpiredExplained, MarkDeletedExplained DEF Collect, Proc
<1> QED BY <1>1, <1>4, <1>5 DEF Next

LEMMA IdleClaimsNothing == Explained => EmptyDirsAreExplained
<1> SUFFICES ASSUME Explained, AllIdle, NEW d \in dirs \ {<<>>}, IsDirEmpty(d)
             PROVE  d \in left
  BY DEF EmptyDirsAreExplained
<1>1. \A p \in Proc : ~Claims(proc[p], d)
  BY StatClaimsNothing DEF AllIdle
<1> QED BY <1>1 DEF Explained

\* Removals that overlap never leave an empty directory between them, each
\* counting on the other, for any number of removals, uploads and shard layers:
\* a directory that is empty is one that a goroutine has just made or looks at
\* (Claims), or one that an operation without pruning has left.
THEOREM RemovalsPrune == Spec => []EmptyDirsAreExplained
<1>1. Spec => [](Explained /\ Posts)
  BY Invariant, ExplainedInit, ExplainedNext, PTL DEF Spec
<1> QED BY <1>1, IdleClaimsNothing, PTL
================================================================================
