-------------------------------- MODULE ShardDirs --------------------------------
(*****************************************************************************)
(* The directory tree of the upload store.  NewUpload and FinishUpload make  *)
(* the directories they need with os.MkdirAll and then create a file there;  *)
(* Terminate removes files with RemoveWithDirs, which takes every parent     *)
(* directory along that has become empty.  Nothing locks a directory, and    *)
(* uploads share their shard directories and incomplete/.                    *)
(*                                                                           *)
(* ShardedFileStore has the table, the bytes and the sharing of blobs; here  *)
(* uploads have different contents, a file is just an entry of a directory,  *)
(* and an action is one system call on the tree.  A path is the sequence of  *)
(* names below BasePath, which is <<>>.                                      *)
(*****************************************************************************)
EXTENDS Integers, Sequences, SequencesExt

CONSTANTS
  Id,          \* upload ids
  Worker,      \* goroutines serving HTTP requests
  Gc,          \* expirer goroutines
  Methods,     \* the HTTP methods each worker serves
  Name,        \* names of directories
  IdShards,    \* shards(id): the shard directories of an id
  HashShards,  \* the shard directories of its digest
  None

Proc == Worker \union Gc

ASSUME DirsAssumption == /\ Worker \intersect Gc = {}
                         /\ Methods \in [Worker -> SUBSET {"POST", "PATCH", "DELETE"}]
                         /\ {"meta", "incomplete", "complete"} \subseteq Name
                         /\ IdShards \in [Id -> Seq(Name)]
                         /\ HashShards \in [Id -> Seq(Name)]
                         /\ None \notin Id

VARIABLES
  dirs,     \* the directories, with BasePath
  files,    \* the files: records [dir, kind, id]
  rows,     \* ids with a record in table uploads
  hashed,   \* ids whose record has a digest
  marked,   \* ids whose record has deleted = 1
  proc,     \* per goroutine: the call it is at
  left      \* history: directories left by an operation that does not prune

vars == <<dirs, files, rows, hashed, marked, proc, left>>
table == <<rows, hashed, marked>>

(*****************************************************************************)
(* Paths                                                                     *)
(*****************************************************************************)
IncompleteBinDir == <<"incomplete">>
CompleteBinDir(id) == <<"complete">> \o HashShards[id]
MetaDir(id) == <<"meta">> \o IdShards[id]

File(dir, kind, id) == [dir |-> dir, kind |-> kind, id |-> id]
Info(id) == File(MetaDir(id), "info", id)
Lock(id) == File(MetaDir(id), "lock", id)
Bin(id) == File(IF id \in hashed THEN CompleteBinDir(id) ELSE IncompleteBinDir, "bin", id)

IsDirEmpty(dir) == /\ \A f \in files : f.dir # dir
                   /\ \A d \in dirs : d = <<>> \/ Front(d) # dir

(*****************************************************************************)
(* Goroutines                                                                *)
(*****************************************************************************)
NoFile == File(<<>>, "none", None)

\* level: how far MkdirAll has come; bin, target, dir: what RemoveWithDirs has to
\* remove; hurt (history): a directory was removed since the operation began.
Idle == [at |-> "idle", op |-> "none", id |-> None, level |-> 0, bin |-> NoFile,
         target |-> NoFile, dir |-> <<>>, hurt |-> FALSE]

Begin(op, id) == [Idle EXCEPT !.op = op, !.id = id]

Goto(p, step) == proc' = [proc EXCEPT ![p].at = step]

\* The operation ends, well or not: PATCH and DELETE give the lock back.
End(p) == proc' = [proc EXCEPT ![p] =
            IF @.op \in {"PATCH", "DELETE"} THEN [Begin(@.op, @.id) EXCEPT !.at = "unlock"]
                                            ELSE Idle]

\* S is left as it is; what has been removed or has got an entry is not left.
Leave(S) == left' = {d \in (left \union S) \intersect dirs' : IsDirEmpty(d)'}

Init == /\ dirs = {<<>>} /\ files = {} /\ rows = {} /\ hashed = {}
        /\ marked = {} /\ left = {}
        /\ proc = [p \in Proc |-> Idle]

(*****************************************************************************)
(* os.MkdirAll: find the deepest directory that is there, then make the      *)
(* missing ones one by one.  A directory that has appeared meanwhile is      *)
(* accepted, a parent that has disappeared is an error.                      *)
(*****************************************************************************)
Goal(p) == CASE proc[p].at = "mkmeta" -> MetaDir(proc[p].id)
             [] proc[p].at = "mkincomplete" -> IncompleteBinDir
             [] proc[p].at = "mkcomplete" -> CompleteBinDir(proc[p].id)

\* (variant: NewUpload makes the meta directory only)
AfterMkdirAll_Meta(p) == CASE proc[p].at = "mkmeta" -> "create"
                           [] proc[p].at = "mkincomplete" -> "create"
                           [] proc[p].at = "mkcomplete" -> "rename"

AfterMkdirAll(p) == CASE proc[p].at = "mkmeta" -> "mkincomplete"
                      [] proc[p].at = "mkincomplete" -> "create"
                      [] proc[p].at = "mkcomplete" -> "rename"

Making(p) == proc[p].at \in {"mkmeta", "mkincomplete", "mkcomplete"}

MadeAll(p) == [proc[p] EXCEPT !.at = AfterMkdirAll(p), !.level = 0]

StatDirs(p) ==
  /\ Making(p) /\ proc[p].level = 0
  /\ LET goal == Goal(p)
     IN  \E n \in 0 .. Len(goal) :
           /\ SubSeq(goal, 1, n) \in dirs
           /\ \A k \in n + 1 .. Len(goal) : SubSeq(goal, 1, k) \notin dirs
           /\ proc' = [proc EXCEPT ![p] = IF n = Len(goal) THEN MadeAll(p)
                                          ELSE [proc[p] EXCEPT !.level = n + 1]]
  /\ UNCHANGED <<dirs, files, table, left>>

Mkdir(p) ==
  /\ Making(p) /\ proc[p].level > 0
  /\ LET goal == Goal(p)
         n == proc[p].level
     IN  /\ SubSeq(goal, 1, n - 1) \in dirs
         /\ dirs' = dirs \union {SubSeq(goal, 1, n)}
         /\ proc' = [proc EXCEPT ![p] = IF n = Len(goal) THEN MadeAll(p)
                                        ELSE [proc[p] EXCEPT !.level = n + 1]]
  /\ UNCHANGED <<files, table>>
  /\ Leave({})

\* FinishUpload does not look at MkdirAll's error.
MkdirFails(p) ==
  /\ Making(p) /\ proc[p].level > 0
  /\ SubSeq(Goal(p), 1, proc[p].level - 1) \notin dirs
  /\ IF proc[p].at = "mkcomplete" THEN proc' = [proc EXCEPT ![p] = MadeAll(p)]
                                  ELSE End(p)
  /\ UNCHANGED <<dirs, files, table>>
  /\ Leave(IF proc[p].at = "mkincomplete" THEN {MetaDir(proc[p].id)} ELSE {})

(*****************************************************************************)
(* NewUpload                                                                 *)
(*****************************************************************************)
Posting(id) == \E w \in Worker : proc[w].op = "POST" /\ proc[w].id = id

NewUpload(w) ==
  /\ proc[w].at = "idle" /\ "POST" \in Methods[w]
  /\ \E id \in Id \ rows :
       /\ ~Posting(id)
       /\ proc' = [proc EXCEPT ![w] = [Begin("POST", id) EXCEPT !.at = "mkmeta"]]
  /\ UNCHANGED <<dirs, files, table, left>>

\* The record and the .bin, then the .info; open fails where the directory is gone.
CreateFile(w) ==
  /\ proc[w].at \in {"create", "info"}
  /\ rows' = rows \union {proc[w].id}
  /\ UNCHANGED <<dirs, hashed, marked>>
  /\ LET id == proc[w].id
         f == IF proc[w].at = "create" THEN Bin(id) ELSE Info(id)
     IN  IF f.dir \in dirs
         THEN /\ files' = files \union {f}
              /\ IF proc[w].at = "create" THEN Goto(w, "info") ELSE End(w)
              /\ Leave({})
         ELSE /\ End(w)
              /\ UNCHANGED files
              /\ Leave({MetaDir(id), IncompleteBinDir})

(*****************************************************************************)
(* PATCH and DELETE hold the lock file, which is an entry of the meta        *)
(* directory; a request that cannot make it has no effect.  GetInfo,         *)
(* WriteChunk and hashFile leave the tree alone: what follows them is one    *)
(* step with them.                                                           *)
(*****************************************************************************)
LockUpload(w) ==
  /\ proc[w].at = "idle"
  /\ \E id \in rows, op \in Methods[w] \ {"POST"} :
       /\ ~Posting(id) /\ Lock(id) \notin files /\ MetaDir(id) \in dirs
       /\ files' = files \union {Lock(id)}
       /\ proc' = [proc EXCEPT ![w] = [Begin(op, id) EXCEPT !.at = "getinfo"]]
  /\ UNCHANGED <<dirs, table>>
  /\ Leave({})

\* Terminate begins: binPath is looked up, .info is to be removed.
Terminating(p, id, op) ==
  [proc[p] EXCEPT !.at = "stat", !.op = op, !.id = id, !.bin = Bin(id), !.target = Info(id)]

GetInfo(w) ==
  /\ proc[w].at = "getinfo"
  /\ LET id == proc[w].id
         found == Info(id) \in files /\ Bin(id) \in files
     IN  \/ /\ found => proc[w].op = "PATCH" /\ id \in hashed
            /\ End(w) /\ UNCHANGED hashed
         \/ /\ found /\ proc[w].op = "PATCH" /\ id \notin hashed
            /\ hashed' = hashed \union {id} /\ Goto(w, "mkcomplete")
         \/ /\ found /\ proc[w].op = "DELETE"
            /\ proc' = [proc EXCEPT ![w] = Terminating(w, id, "DELETE")]
            /\ UNCHANGED hashed
  /\ UNCHANGED <<dirs, files, rows, marked, left>>

Rename(w) ==
  /\ proc[w].at = "rename"
  /\ UNCHANGED <<dirs, table>>
  /\ LET id == proc[w].id
         old == File(IncompleteBinDir, "bin", id)
     IN  \/ /\ CompleteBinDir(id) \in dirs /\ old \in files
            /\ files' = (files \ {old}) \union {Bin(id)}
            /\ Leave({IncompleteBinDir}) /\ End(w)
         \/ /\ CompleteBinDir(id) \notin dirs
            /\ End(w) /\ UNCHANGED <<files, left>>
         \/ /\ CompleteBinDir(id) \in dirs /\ old \notin files
            /\ UNCHANGED files /\ Leave({CompleteBinDir(id)}) /\ End(w)

\* UnlockUpload removes the lock file and nothing else.
UnlockUpload(w) ==
  /\ proc[w].at = "unlock"
  /\ files' = files \ {Lock(proc[w].id)}
  /\ proc' = [proc EXCEPT ![w] = Idle]
  /\ UNCHANGED <<dirs, table>>
  /\ Leave({MetaDir(proc[w].id)})

(*****************************************************************************)
(* Terminate: RemoveWithDirs of the .info and of the .bin, then the UPDATE   *)
(*****************************************************************************)
RemovesInfo(p) == proc[p].target.kind = "info"

\* RemoveWithDirs returns nil.
Removed(p) == proc' = [proc EXCEPT
                ![p].at = IF RemovesInfo(p) THEN "stat" ELSE "mark",
                ![p].target = proc[p].bin, ![p].dir = <<>>]

\* (variant: a file that is not there is an error)
NotThere_Error(p) == End(p)

NotThere(p) == Removed(p)

StatFile(p) ==
  /\ proc[p].at = "stat"
  /\ IF proc[p].target \in files THEN Goto(p, "remove") ELSE NotThere(p)
  /\ UNCHANGED <<dirs, files, table, left>>

\* The error of os.Remove is lost, also when the file has gone meanwhile.
RemoveFile(p) ==
  /\ proc[p].at = "remove"
  /\ files' = files \ {proc[p].target}
  /\ proc' = [proc EXCEPT ![p].at = "check", ![p].dir = proc[p].target.dir]
  /\ UNCHANGED <<dirs, table>>
  /\ Leave({})

\* (variant: the loop over the parents takes BasePath as well)
ReachedBase_TakesIt(p) == proc[p].dir = <<>> /\ (<<>> \in dirs => ~IsDirEmpty(<<>>))

ReachedBase(p) == proc[p].dir = <<>>

\* (variant: the loop ends at the first directory)
Parent_Base(dir) == <<>>

Parent(dir) == IF dir = <<>> THEN <<>> ELSE Front(dir)

\* isDirEmpty, or the end of the loop.
CheckDir(p) ==
  /\ proc[p].at = "check"
  /\ IF ReachedBase(p) THEN Removed(p)
     ELSE IF proc[p].dir \notin dirs THEN End(p)
     ELSE IF IsDirEmpty(proc[p].dir) THEN Goto(p, "rmdir")
     ELSE proc' = [proc EXCEPT ![p].dir = Parent(proc[p].dir)]
  /\ UNCHANGED <<dirs, files, table, left>>

Rmdir(p) ==
  /\ proc[p].at = "rmdir" /\ proc[p].dir \in dirs /\ IsDirEmpty(proc[p].dir)
  /\ dirs' = dirs \ {proc[p].dir}
  /\ proc' = [q \in Proc |->
       IF q = p THEN [proc[p] EXCEPT !.at = "check", !.dir = Parent(proc[p].dir)]
       ELSE [proc[q] EXCEPT !.hurt = proc[q].at # "idle"]]
  /\ UNCHANGED <<files, table>>
  /\ Leave({})

RmdirFails(p) ==
  /\ proc[p].at = "rmdir"
  /\ \/ proc[p].dir \notin dirs /\ End(p)
     \/ proc[p].dir \in dirs /\ ~IsDirEmpty(proc[p].dir) /\ End(p)
  /\ UNCHANGED <<dirs, files, table, left>>

\* UpdateRow: whether a second UPDATE of the row fails depends on the driver,
\* and changes nothing.
MarkDeleted(p) ==
  /\ proc[p].at = "mark"
  /\ marked' = marked \union {proc[p].id}
  /\ End(p)
  /\ UNCHANGED <<dirs, files, rows, hashed, left>>

\* gc calls Terminate without the lock.  An upload may be past its maximum age
\* at any time after its POST, and every upload is some time.
NextExpired(g) ==
  /\ proc[g].at = "idle"
  /\ \E id \in rows \ marked :
       ~Posting(id) /\ proc' = [proc EXCEPT ![g] = Terminating(g, id, "gc")]
  /\ UNCHANGED <<dirs, files, table, left>>

(*****************************************************************************)
(* Specification                                                             *)
(*****************************************************************************)
MkdirAll(p) == StatDirs(p) \/ Mkdir(p) \/ MkdirFails(p)
RemoveWithDirs(p) == \/ StatFile(p) \/ RemoveFile(p) \/ CheckDir(p)
                     \/ Rmdir(p) \/ RmdirFails(p)

Serve(w) == \/ MkdirAll(w) \/ CreateFile(w) \/ GetInfo(w) \/ Rename(w)
            \/ RemoveWithDirs(w) \/ MarkDeleted(w) \/ UnlockUpload(w)
Collect(g) == NextExpired(g) \/ RemoveWithDirs(g) \/ MarkDeleted(g)

Next == \/ \E w \in Worker : NewUpload(w) \/ LockUpload(w) \/ Serve(w)
        \/ \E g \in Gc : Collect(g)

Spec == Init /\ [][Next]_vars

FairSpec == /\ Spec
            /\ \A w \in Worker : WF_vars(Serve(w))
            /\ \A g \in Gc : WF_vars(Collect(g))

(*****************************************************************************)
(* Properties                                                                *)
(*****************************************************************************)
FindsDirMissing(p) ==
  \/ Making(p) /\ proc[p].level > 0 /\ SubSeq(Goal(p), 1, proc[p].level - 1) \notin dirs
  \/ proc[p].at = "create" /\ IncompleteBinDir \notin dirs
  \/ proc[p].at = "info" /\ MetaDir(proc[p].id) \notin dirs
  \/ proc[p].at = "rename" /\ CompleteBinDir(proc[p].id) \notin dirs
  \/ proc[p].at \in {"check", "rmdir"} /\ proc[p].dir \notin dirs

AllIdle == \A p \in Proc : proc[p].at = "idle"

\* The tree is a tree: BasePath is never removed, every directory and every file
\* is in a directory that is there, and a lock file has a request that holds it.
TypeOK ==
  /\ <<>> \in dirs
  /\ \A d \in dirs \ {<<>>} : Front(d) \in dirs
  /\ \A f \in files : f.dir \in dirs /\ f.kind \in {"info", "lock", "bin"} /\ f.id \in Id
  /\ marked \subseteq rows /\ hashed \subseteq rows
  /\ rows \subseteq Id
  /\ \A id \in Id : Lock(id) \in files =>
       \E w \in Worker : proc[w].id = id /\ proc[w].op \in {"PATCH", "DELETE"}

\* An operation finds a directory missing only if another one has removed a
\* directory since it began: NewUpload and FinishUpload make all that they need,
\* whatever earlier removals have taken away (MkdirAll, RemoveWithDirs).
FailsOnlyByRemoval == \A p \in Proc : FindsDirMissing(p) => proc[p].hurt

\* "RemoveWithDirs deletes the given path and its empty parent directories":
\* when nothing is in progress, an empty directory is one that a removed lock
\* file, a rename or a creation that failed has left; removals that overlap
\* never leave one, each counting on the other.
EmptyDirsAreExplained ==
  AllIdle => \A d \in dirs \ {<<>>} : IsDirEmpty(d) => d \in left

\* Terminate comes to its end: an attempt that fails because a directory has
\* gone or has been filled again is followed by one that succeeds (gc).
TerminationCompletes == \A id \in Id : id \in rows ~> id \in marked
================================================================================
