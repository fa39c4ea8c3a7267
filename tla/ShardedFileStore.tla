---------------------------- MODULE ShardedFileStore ----------------------------
(*****************************************************************************)
(* The upload store: shardedfilestore.go, the tusd request handlers that     *)
(* call it under the upload's lock file, and the expirer, which calls        *)
(* Terminate without that lock.                                              *)
(*                                                                           *)
(* An action is one call that other goroutines can observe: one statement on *)
(* the uploads table, one system call on a file.  The record proc[p] holds   *)
(* the local variables of goroutine p between two such calls.                *)
(*                                                                           *)
(* Abstractions.  A file is the sequence of its chunks; sha256 is free of    *)
(* collisions, so the digest of a file is its chunk sequence.  Directories   *)
(* are not state here: a directory that disappears between MkdirAll and the  *)
(* call that needs it shows as a failing call ("fs" in FaultKinds).  An      *)
(* .info file that cannot be parsed counts as absent, as it does in GetInfo. *)
(*****************************************************************************)
EXTENDS Integers, Sequences, SequencesExt

CONSTANTS
  Id,          \* upload ids; uid.Uid() never returns the same one twice
  Worker,      \* goroutines serving HTTP requests
  Gc,          \* expirer goroutines: one per server instance, two across a reload
  Byte,        \* what files are made of
  ClientFile,  \* the files the client of each upload may send
  Methods,     \* HTTP methods in use
  FaultKinds,  \* which calls may fail: "db", "fs", "unlink", "crash"
  MaxFaults,   \* bound on the number of failures in a behaviour
  None         \* SQL NULL, and "no such value"

Bytes == Seq(Byte)
Proc == Worker \union Gc

ASSUME StoreAssumption ==
  /\ Worker \intersect Gc = {}
  /\ ClientFile \in [Id -> SUBSET Bytes]
  /\ Methods \subseteq {"POST", "HEAD", "GET", "PATCH", "DELETE"}
  /\ FaultKinds \subseteq {"db", "fs", "unlink", "crash"}
  /\ MaxFaults \in Nat
  /\ None \notin Id \union Bytes \union Worker

VARIABLES
  rows,       \* ids with a record in table uploads
  sha256sum,  \* column sha256sum: a digest, or None for NULL
  deleted,    \* ids whose record has deleted = 1
  info,       \* ids with a readable .info file
  bins,       \* the .bin files on disk: records [path, bytes]
  lockfile,   \* the request holding <id>.lock, or None
  client,     \* the file the client of an upload sends, None before its POST
  expired,    \* ids whose created_at plus maximum age has passed
  proc,       \* per goroutine: the step it is at and its local variables
  todo,       \* per expirer: ids still to terminate in this cycle
  faults      \* number of failures so far

vars == <<rows, sha256sum, deleted, info, bins, lockfile, client, expired,
          proc, todo, faults>>
table == <<rows, sha256sum, deleted>>
disk == <<info, bins>>

(*****************************************************************************)
(* Paths and files                                                           *)
(*****************************************************************************)
IncompleteBinPath(id) == <<"incomplete", id>>
CompleteBinPath(hash) == <<"complete", hash>>
BinPath(id) == IF sha256sum[id] = None THEN IncompleteBinPath(id)
                                       ELSE CompleteBinPath(sha256sum[id])

At(path) == {b \in bins : b.path = path}

Renamed(old, new) ==
  {b \in bins : b.path \notin {old, new}}
    \union {[path |-> new, bytes |-> b.bytes] : b \in At(old)}

Appended(path, bytes) ==
  {IF b.path = path THEN [path |-> path, bytes |-> b.bytes \o bytes] ELSE b :
     b \in bins}

(*****************************************************************************)
(* Goroutines                                                                *)
(*****************************************************************************)
Creating == {"insert", "create", "info"}
Finishing == {"hash", "update", "rename"}
Terminating == {"count", "lookup", "rminfo", "rmbin", "mark"}
Steps == {"idle", "getinfo", "open", "copy", "read", "respond"}
           \union Creating \union Finishing \union Terminating

Idle == [at |-> "idle", op |-> "none", id |-> None, off |-> 0, hash |-> None,
         shared |-> FALSE, path |-> None]

Goto(p, step) == proc' = [proc EXCEPT ![p].at = step]

\* (variant: Terminate ignores the error of removing .info)
Returned_IgnoresError(p) ==
  IF proc[p].at = "rminfo" THEN [proc[p] EXCEPT !.at = "mark"]
  ELSE IF p \in Gc THEN Idle
  ELSE [Idle EXCEPT !.at = "respond", !.op = proc[p].op, !.id = proc[p].id]

\* The store returns to its caller, with an error or without: a request answers,
\* gc takes its next id.
Returned(p) == IF p \in Gc THEN Idle
               ELSE [Idle EXCEPT !.at = "respond", !.op = proc[p].op, !.id = proc[p].id]

Return(p) == proc' = [proc EXCEPT ![p] = Returned(p)]

Fault(kind) == /\ kind \in FaultKinds
               /\ faults < MaxFaults
               /\ faults' = faults + 1

Init == /\ rows = {} /\ deleted = {} /\ info = {} /\ bins = {} /\ expired = {}
        /\ sha256sum = [id \in Id |-> None]
        /\ lockfile = [id \in Id |-> None]
        /\ client = [id \in Id |-> None]
        /\ proc = [p \in Proc |-> Idle]
        /\ todo = [g \in Gc |-> {}]
        /\ faults = 0

(*****************************************************************************)
(* POST: ShardedFileStore.NewUpload.  tusd finishes an upload of size 0      *)
(* inside the POST, and takes no lock for that.                              *)
(*****************************************************************************)
NewUpload(w) ==
  /\ proc[w].at = "idle"
  /\ "POST" \in Methods
  /\ \E id \in Id : \E file \in ClientFile[id] :
       /\ client[id] = None
       /\ client' = [client EXCEPT ![id] = file]
       /\ proc' = [proc EXCEPT ![w].at = "insert", ![w].op = "POST", ![w].id = id]
  /\ UNCHANGED <<table, disk, lockfile, expired, todo, faults>>

InsertRow(w) ==
  /\ proc[w].at = "insert"
  /\ rows' = rows \union {proc[w].id}
  /\ Goto(w, "create")
  /\ UNCHANGED <<sha256sum, deleted, disk, lockfile, client, expired, todo, faults>>

CreateBin(w) ==
  /\ proc[w].at = "create"
  /\ LET path == BinPath(proc[w].id)
     IN  bins' = IF At(path) = {} THEN bins \union {[path |-> path, bytes |-> <<>>]}
                                  ELSE bins
  /\ Goto(w, "info")
  /\ UNCHANGED <<table, info, lockfile, client, expired, todo, faults>>

WriteInfo(w) ==
  /\ proc[w].at = "info"
  /\ info' = info \union {proc[w].id}
  /\ IF Len(client[proc[w].id]) = 0 THEN Goto(w, "hash") ELSE Return(w)
  /\ UNCHANGED <<table, bins, lockfile, client, expired, todo, faults>>

(*****************************************************************************)
(* HEAD, GET, PATCH, DELETE: tusd locks the upload, reads its info and       *)
(* unlocks it when it has answered.  A client knows an id once its POST has  *)
(* been answered.  A request that finds the upload locked has no effect.     *)
(*****************************************************************************)
Posting(id) == \E w \in Worker : proc[w].op = "POST" /\ proc[w].id = id

\* (variant: TryLock's ErrBusy is ignored)
LockIsFree_Ignored(id) == TRUE

LockIsFree(id) == lockfile[id] = None

LockUpload(w) ==
  /\ proc[w].at = "idle"
  /\ \E id \in rows, op \in Methods \ {"POST"} :
       /\ ~Posting(id)
       /\ LockIsFree(id)
       /\ lockfile' = [lockfile EXCEPT ![id] = w]
       /\ \E off \in IF op = "PATCH" THEN 0 .. Len(client[id]) ELSE {0} :
            proc' = [proc EXCEPT ![w].at = "getinfo", ![w].op = op,
                                 ![w].id = id, ![w].off = off]
  /\ UNCHANGED <<table, disk, client, expired, todo, faults>>

\* (variant: the offset of the PATCH is not compared with the file's size)
MayAppend_AnyOffset(off, b, id) == off # Len(client[id])

\* tusd appends only at the current end of an unfinished file.
MayAppend(off, b, id) == off = Len(b.bytes) /\ off # Len(client[id])

\* What a request does with an upload whose .bin file is b.
AfterGetInfo(w, b) ==
  LET op == proc[w].op
  IN  CASE op = "DELETE" -> Goto(w, "count")
        [] op = "GET" /\ b.bytes # <<>> -> Goto(w, "read")
        [] op = "PATCH" /\ MayAppend(proc[w].off, b, proc[w].id) -> Goto(w, "open")
        [] OTHER -> Return(w)

GetInfo(w) ==
  /\ proc[w].at = "getinfo"
  /\ LET id == proc[w].id
     IN  \/ \E b \in At(BinPath(id)) : id \in info /\ AfterGetInfo(w, b)
         \/ (id \notin info \/ At(BinPath(id)) = {}) /\ Return(w)
  /\ UNCHANGED <<table, disk, lockfile, client, expired, todo, faults>>

GetReader(w) ==
  /\ proc[w].at = "read"
  /\ Return(w)
  /\ UNCHANGED <<table, disk, lockfile, client, expired, todo, faults>>

(*****************************************************************************)
(* PATCH: ShardedFileStore.WriteChunk.  io.Copy appends what arrives piece   *)
(* by piece, to a file that may have been unlinked since it was opened, and  *)
(* ends when the body does.                                                  *)
(*****************************************************************************)
OpenBin(w) ==
  /\ proc[w].at = "open"
  /\ LET path == BinPath(proc[w].id)
     IN  IF At(path) = {} THEN Return(w)
         ELSE proc' = [proc EXCEPT ![w].at = "copy", ![w].path = path]
  /\ UNCHANGED <<table, disk, lockfile, client, expired, todo, faults>>

CopyPiece(w) ==
  /\ proc[w].at = "copy"
  /\ LET off == proc[w].off
         file == client[proc[w].id]
     IN  \E n \in off + 1 .. Len(file) :
           /\ bins' = Appended(proc[w].path, SubSeq(file, off + 1, n))
           /\ proc' = [proc EXCEPT ![w].off = n]
  /\ UNCHANGED <<table, info, lockfile, client, expired, todo, faults>>

\* (variant: every chunk finishes the upload)
IsComplete_Always(off, id) == TRUE

IsComplete(off, id) == off = Len(client[id])

CopyEnds(w) ==
  /\ proc[w].at = "copy"
  /\ IF IsComplete(proc[w].off, proc[w].id) THEN Goto(w, "hash") ELSE Return(w)
  /\ UNCHANGED <<table, disk, lockfile, client, expired, todo, faults>>

(*****************************************************************************)
(* ShardedFileStore.FinishUpload                                             *)
(*****************************************************************************)
\* (variant: hashFile returns before it sets its result)
HashFile_NoDigest(w) ==
  /\ proc[w].at = "hash"
  /\ Goto(w, "update")
  /\ UNCHANGED <<table, disk, lockfile, client, expired, todo, faults>>

HashFile(w) ==
  /\ proc[w].at = "hash"
  /\ LET path == BinPath(proc[w].id)
     IN  \/ \E b \in At(path) :
              proc' = [proc EXCEPT ![w].at = "update", ![w].hash = b.bytes]
         \/ At(path) = {} /\ Return(w)
  /\ UNCHANGED <<table, disk, lockfile, client, expired, todo, faults>>

UpdateHash(w) ==
  /\ proc[w].at = "update"
  /\ sha256sum' = [sha256sum EXCEPT ![proc[w].id] = proc[w].hash]
  /\ Goto(w, "rename")
  /\ UNCHANGED <<rows, deleted, disk, lockfile, client, expired, todo, faults>>

RenameBin(w) ==
  /\ proc[w].at = "rename"
  /\ LET old == IncompleteBinPath(proc[w].id)
         new == CompleteBinPath(proc[w].hash)
     IN  bins' = IF At(old) = {} THEN bins ELSE Renamed(old, new)
  /\ Return(w)
  /\ UNCHANGED <<table, info, lockfile, client, expired, todo, faults>>

(*****************************************************************************)
(* ShardedFileStore.Terminate, called by a DELETE under the upload's lock    *)
(* and by the expirer without it.                                            *)
(*****************************************************************************)

\* (variant: AND deleted = 0 is missing from the query)
Duplicates_Deleted(id) == IF sha256sum[id] = None THEN {}
                          ELSE {j \in rows \ {id} : sha256sum[j] = sha256sum[id]}

\* The uploads getDuplicateCount counts: none for a NULL digest.
Duplicates(id) == IF sha256sum[id] = None THEN {}
                  ELSE {j \in rows \ (deleted \union {id}) : sha256sum[j] = sha256sum[id]}

CountDuplicates(p) ==
  /\ proc[p].at = "count"
  /\ proc' = [proc EXCEPT ![p].at = "lookup", ![p].shared = Duplicates(proc[p].id) # {}]
  /\ UNCHANGED <<table, disk, lockfile, client, expired, todo, faults>>

\* (variant: the .bin is removed before the .info)
LookupBinPath_BinFirst(p) ==
  /\ proc[p].at = "lookup"
  /\ proc' = [proc EXCEPT ![p].at = "rmbin", ![p].path = BinPath(proc[p].id)]
  /\ UNCHANGED <<table, disk, lockfile, client, expired, todo, faults>>

LookupBinPath(p) ==
  /\ proc[p].at = "lookup"
  /\ proc' = [proc EXCEPT ![p].at = "rminfo", ![p].path = BinPath(proc[p].id)]
  /\ UNCHANGED <<table, disk, lockfile, client, expired, todo, faults>>

\* (variant: the count of duplicates is not looked at)
KeepsBin_Never(p) == FALSE

\* The .bin file goes with the last upload that shares it.
KeepsBin(p) == proc[p].shared

AfterRemoveInfo(p) == IF KeepsBin(p) THEN "mark" ELSE "rmbin"

RemoveInfo(p) ==
  /\ proc[p].at = "rminfo"
  /\ info' = info \ {proc[p].id}
  /\ Goto(p, AfterRemoveInfo(p))
  /\ UNCHANGED <<table, bins, lockfile, client, expired, todo, faults>>

RemoveBin(p) ==
  /\ proc[p].at = "rmbin"
  /\ bins' = bins \ At(proc[p].path)
  /\ Goto(p, "mark")
  /\ UNCHANGED <<table, info, lockfile, client, expired, todo, faults>>

MarkDeleted(p) ==
  /\ proc[p].at = "mark"
  /\ deleted' = deleted \union {proc[p].id}
  /\ Return(p)
  /\ UNCHANGED <<rows, sha256sum, disk, lockfile, client, expired, todo, faults>>

\* The handler returns and the deferred UnlockUpload runs.
Respond(w) ==
  /\ proc[w].at = "respond"
  /\ lockfile' = IF proc[w].op = "POST" THEN lockfile
                 ELSE [lockfile EXCEPT ![proc[w].id] = None]
  /\ proc' = [proc EXCEPT ![w] = Idle]
  /\ UNCHANGED <<table, disk, client, expired, todo, faults>>

(*****************************************************************************)
(* The expirer                                                               *)
(*****************************************************************************)

\* created_at + maximum age passes.  An upload does not expire during its POST.
Expire(id) ==
  /\ id \in rows \ expired
  /\ ~Posting(id)
  /\ expired' = expired \union {id}
  /\ UNCHANGED <<table, disk, lockfile, client, proc, todo, faults>>

\* (variant: getExpired skips uploads whose .info is gone)
Tick_OnlyWithInfo(g) ==
  /\ proc[g].at = "idle" /\ todo[g] = {}
  /\ todo' = [todo EXCEPT ![g] = (expired \ deleted) \intersect info]
  /\ UNCHANGED <<table, disk, lockfile, client, expired, proc, faults>>

Tick(g) ==
  /\ proc[g].at = "idle" /\ todo[g] = {}
  /\ todo' = [todo EXCEPT ![g] = expired \ deleted]
  /\ UNCHANGED <<table, disk, lockfile, client, expired, proc, faults>>

NextExpired(g) ==
  /\ proc[g].at = "idle"
  /\ \E id \in todo[g] :
       /\ todo' = [todo EXCEPT ![g] = @ \ {id}]
       /\ proc' = [proc EXCEPT ![g].at = "count", ![g].op = "gc", ![g].id = id]
  /\ UNCHANGED <<table, disk, lockfile, client, expired, faults>>

(*****************************************************************************)
(* Failures, at most MaxFaults of them                                       *)
(*****************************************************************************)

\* A call fails without effect.
CallFails(p) ==
  /\ \/ proc[p].at \in {"insert", "count", "update", "mark"} /\ Fault("db")
     \/ proc[p].at \in {"create", "info", "getinfo", "read", "open", "copy", "hash",
                        "rename", "rminfo", "rmbin"} /\ Fault("fs")
  /\ Return(p)
  /\ UNCHANGED <<table, disk, lockfile, client, expired, todo>>

\* RemoveWithDirs has removed the file, then fails on a parent directory.
RemoveDirFails(p) ==
  /\ Fault("fs")
  /\ \/ /\ proc[p].at = "rminfo" /\ proc[p].id \in info
        /\ info' = info \ {proc[p].id} /\ UNCHANGED bins
     \/ /\ proc[p].at = "rmbin" /\ At(proc[p].path) # {}
        /\ bins' = bins \ At(proc[p].path) /\ UNCHANGED info
  /\ Return(p)
  /\ UNCHANGED <<table, lockfile, client, expired, todo>>

\* os.Remove fails inside RemoveWithDirs: its error is assigned to a variable
\* of an inner scope, so the file stays and Terminate goes on.
UnlinkFails(p) ==
  /\ Fault("unlink")
  /\ \/ /\ proc[p].at = "rminfo" /\ proc[p].id \in info
        /\ Goto(p, AfterRemoveInfo(p))
     \/ /\ proc[p].at = "rmbin" /\ At(proc[p].path) # {}
        /\ Goto(p, "mark")
  /\ UNCHANGED <<table, disk, lockfile, client, expired, todo>>

\* The process dies (binPath's log.Fatal on a failed query is one way) and is
\* started again.  A lock file names its owner's process id, so a lock of a
\* dead process counts as free.
Crash ==
  /\ Fault("crash")
  /\ proc' = [p \in Proc |-> Idle]
  /\ lockfile' = [id \in Id |-> None]
  /\ todo' = [g \in Gc |-> {}]
  /\ UNCHANGED <<table, disk, client, expired>>

(*****************************************************************************)
(* Specification                                                             *)
(*****************************************************************************)
Terminate(p) == \/ CountDuplicates(p) \/ LookupBinPath(p) \/ RemoveInfo(p)
                \/ RemoveBin(p) \/ MarkDeleted(p)

\* The steps a goroutine takes by itself once it has begun, except those of
\* WriteChunk, which wait for the client.
Serve(w) == \/ InsertRow(w) \/ CreateBin(w) \/ WriteInfo(w)
            \/ GetInfo(w) \/ GetReader(w) \/ OpenBin(w)
            \/ HashFile(w) \/ UpdateHash(w) \/ RenameBin(w)
            \/ Terminate(w) \/ Respond(w)

Collect(g) == Tick(g) \/ NextExpired(g) \/ Terminate(g)

Next == \/ \E w \in Worker : \/ NewUpload(w) \/ LockUpload(w)
                             \/ CopyPiece(w) \/ CopyEnds(w) \/ Serve(w)
        \/ \E g \in Gc : Collect(g)
        \/ \E id \in Id : Expire(id)
        \/ \E p \in Proc : CallFails(p) \/ RemoveDirFails(p) \/ UnlinkFails(p)
        \/ Crash

Spec == Init /\ [][Next]_vars

FairSpec == /\ Spec
            /\ \A w \in Worker : WF_vars(Serve(w))
            /\ \A g \in Gc : WF_vars(Collect(g))

(*****************************************************************************)
(* Safety                                                                    *)
(*****************************************************************************)
Path == ({"incomplete"} \X Id) \union ({"complete"} \X Bytes)
Locals == [at : Steps,
           op : {"none", "POST", "HEAD", "GET", "PATCH", "DELETE", "gc"},
           id : Id \union {None}, off : Nat, hash : Bytes \union {None},
           shared : BOOLEAN, path : Path \union {None}]

\* The variables keep their types, and no two files have the same path.
TypeOK ==
  /\ rows \subseteq Id /\ deleted \subseteq Id /\ info \subseteq Id
  /\ expired \subseteq Id
  /\ sha256sum \in [Id -> Bytes \union {None}]
  /\ bins \subseteq [path : Path, bytes : Bytes]
  /\ \A a, b \in bins : a.path = b.path => a = b
  /\ lockfile \in [Id -> Worker \union {None}]
  /\ client \in [Id -> Bytes \union {None}]
  /\ proc \in [Proc -> Locals]
  /\ todo \in [Gc -> SUBSET Id]
  /\ faults \in 0 .. MaxFaults

\* Whatever requests, expirers and failures interleave, the file binPath(id)
\* names holds a prefix of what the client of id sends: no chunk is appended
\* twice, out of order or to another upload's file, and deduplication never
\* gives an upload other bytes than its own (WriteChunk, FinishUpload).
ServesOwnBytes ==
  \A id \in rows : \A b \in At(BinPath(id)) :
    client[id] # None /\ IsPrefix(b.bytes, client[id])

\* A file under complete/ is named by the digest of what it holds, always: no
\* request appends to a file that is or becomes shared (FinishUpload).
BlobsAreContentAddressed ==
  \A b \in bins : b.path[1] = "complete" => b.bytes = b.path[2]

\* FinishUpload records the digest of the whole file, never of a part.
HashIsOfWholeFile ==
  \A id \in Id : sha256sum[id] # None => sha256sum[id] = client[id]

\* An upload that GetInfo can still find and that has no digest has its .bin:
\* NewUpload writes .info last, Terminate removes it first, and a rename
\* follows the digest.  Needs os.Remove to work ("unlink" not in FaultKinds).
UnfinishedHasBin ==
  \A id \in info : sha256sum[id] = None => At(IncompleteBinPath(id)) # {}

\* A record marked deleted has no .info left: a deletion is never recorded
\* while the upload can still be fetched or appended to (Terminate).  Needs
\* os.Remove to work.
DeletedHasNoInfo == deleted \intersect info = {}

\* The bytes of an upload that GetInfo can find are on disk, in the file that
\* was its own or in the blob of its digest.  Holds of uploads whose contents
\* differ, and of uploads with the same contents whose calls do not overlap.
NoDataLoss ==
  \A id \in info : \/ At(IncompleteBinPath(id)) # {}
                   \/ sha256sum[id] # None /\ At(CompleteBinPath(sha256sum[id])) # {}

\* "delete .bin if there are no other upload records using it": Terminate
\* removes no file that is the .bin of another upload that is not deleted.
KeepsSharedBin ==
  [][\A p \in Proc : RemoveBin(p) =>
       \A id \in rows \ (deleted \union {proc[p].id}) : BinPath(id) # proc[p].path]_vars

AllIdle == \A p \in Proc : proc[p].at = "idle"

\* When nothing is in progress, every .bin is the file of a record that is not
\* deleted, so that some later Terminate will remove it.
NoOrphanBin ==
  AllIdle => \A b \in bins : \E id \in rows \ deleted : BinPath(id) = b.path

\* "binPath returns the path to the .bin storing the binary data": when nothing
\* is in progress, an upload GetInfo can find has its .bin there.
BinPathStoresData == AllIdle => \A id \in info : At(BinPath(id)) # {}

(*****************************************************************************)
(* Liveness                                                                  *)
(*****************************************************************************)

\* An upload past its maximum age is eventually marked deleted, in spite of
\* requests, failed calls and crashes (Expirer.gc retries in its next cycle).
ExpiredIsDeleted == \A id \in Id : id \in expired ~> id \in deleted

(*****************************************************************************)
(* Refinement of UploadHosting: what each client sees of its own upload      *)
(*****************************************************************************)
BeingCreated(id) == \E w \in Worker : proc[w].at \in Creating /\ proc[w].id = id

Phase(id) == IF id \in info THEN IF sha256sum[id] = None THEN "open" ELSE "final"
             ELSE IF client[id] = None \/ BeingCreated(id) THEN "new" ELSE "gone"

\* The bytes stored for an upload, wherever they are.
Content(id) ==
  LET own == At(IncompleteBinPath(id))
      blob == IF sha256sum[id] = None THEN {} ELSE At(CompleteBinPath(sha256sum[id]))
  IN  IF id \notin info THEN <<>>
      ELSE IF own # {} THEN (CHOOSE b \in own : TRUE).bytes
      ELSE IF blob # {} THEN (CHOOSE b \in blob : TRUE).bytes ELSE None

Hosting == INSTANCE UploadHosting WITH
             phase <- [id \in Id |-> Phase(id)],
             content <- [id \in Id |-> Content(id)],
             file <- client

HidesSharing == Hosting!Spec
================================================================================
