-------------------------- MODULE ConcatUploads_proofs --------------------------
(*****************************************************************************)
(* Proofs about a store that concatenates uploads beside its other requests: *)
(* a final upload that was answered is whole, and what ShardedFileStore      *)
(* keeps and promises it keeps and promises here too.                        *)
(*                                                                           *)
(* ConcatUploads holds no lock of its parts.  ConcatIsWhole holds because a  *)
(* part was whole when tusd read its size, and what is left of a whole file  *)
(* is whole (Final, WholeStays): a Terminate may take a part away, in which  *)
(* case the open fails, but nobody shortens or extends it, and the path the  *)
(* loop has looked up names the part or nothing (NamesPart), though a        *)
(* FinishUpload may rename it meanwhile.  So what the loop has copied is     *)
(* always the parts before the next one (Copies, Upto), and once the client  *)
(* was told, no POST touches the upload again and no other request may       *)
(* append to it or finish it (Told, Untouched).                              *)
(*                                                                           *)
(* A step of ConcatSpec is a step of ShardedFileStore or appends some of a   *)
(* part (ConcatSteps).  The first kind keeps every invariant proved before;  *)
(* of the second kind Grown says all there is to know.                       *)
(*****************************************************************************)
EXTENDS ShardedFileStore_proofs, ConcatUploads

(*****************************************************************************)
(* What a step may do to an upload                                           *)
(*****************************************************************************)
LEMMA ClientSteps ==
  ASSUME [Next]_vars
  PROVE  UNCHANGED client \/ \E w \in Worker : NewUpload(w)
<1>1. ASSUME NEW w \in Worker, LockUpload(w) \/ CopyPiece(w) \/ CopyEnds(w) \/ Serve(w)
      PROVE  UNCHANGED client
  BY <1>1 DEF Serve, Terminate, LockUpload, CopyPiece, CopyEnds, InsertRow, CreateBin,
              WriteInfo, GetInfo, GetReader, OpenBin, HashFile, UpdateHash, RenameBin,
              Respond, CountDuplicates, LookupBinPath, RemoveInfo, RemoveBin, MarkDeleted
<1>2. ASSUME NEW g \in Gc, Collect(g)
      PROVE  UNCHANGED client
  BY <1>2 DEF Collect, Terminate, Tick, NextExpired, CountDuplicates, LookupBinPath,
              RemoveInfo, RemoveBin, MarkDeleted
<1>3. ASSUME NEW p \in Proc, CallFails(p) \/ RemoveDirFails(p) \/ UnlinkFails(p)
      PROVE  UNCHANGED client
  BY <1>3 DEF CallFails, RemoveDirFails, UnlinkFails
<1>4. ASSUME Crash \/ UNCHANGED vars \/ \E id \in Id : Expire(id)
      PROVE  UNCHANGED client
  BY <1>4 DEF Crash, vars, Expire
<1> QED BY <1>1, <1>2, <1>3, <1>4 DEF Next

\* A client sends one file.
LEMMA ClientKept ==
  ASSUME IndInv, [Next]_vars, NEW id \in Id, client[id] # None
  PROVE  client'[id] = client[id]
<1>1. ASSUME NEW w \in Worker, NewUpload(w) PROVE client'[id] = client[id]
  BY <1>1 DEF NewUpload, IndInv, TypeOK
<1> QED BY <1>1, ClientSteps

\* What there is of the upload's own file is the whole file.
Whole(id) == client[id] # None /\ \A b \in Own(id) : b.bytes = client[id]

\* No NewUpload is under way for the upload.
Made(id) == \A w \in Worker : proc[w].at \in Creating => proc[w].id # id

\* Only NewUpload creates a file of an upload's own, and WriteChunk finds
\* nothing to append to a whole one.
LEMMA OwnShrinks ==
  ASSUME IndInv, [Next]_vars, NEW id \in Id, Made(id),
         \A w \in Worker : proc[w].at = "copy" /\ proc[w].id = id => Whole(id)
  PROVE  Own(id)' \subseteq Own(id)
<1>1. CASE bins' \subseteq bins
  BY <1>1 DEF Own, At, IncompleteBinPath
<1>2. ASSUME NEW w \in Worker, CreateBin(w) PROVE Own(id)' \subseteq Own(id)
  <2>1. Knows(w, proc[w]) /\ proc[w].at = "create" /\ proc[w].at \in Creating
    BY <1>2 DEF IndInv, Proc, CreateBin, Creating
  <2>2. sha256sum[proc[w].id] = None /\ proc[w].id # id
    BY <2>1 DEF Knows, Finishes, Made
  <2>3. bins' \subseteq bins \union {[path |-> IncompleteBinPath(proc[w].id), bytes |-> <<>>]}
    BY <1>2, <2>2 DEF CreateBin, BinPath
  <2>4. IncompleteBinPath(id) # IncompleteBinPath(proc[w].id)
    BY <2>2 DEF IncompleteBinPath
  <2> QED BY <2>3, <2>4 DEF Own, At
<1>3. ASSUME NEW w \in Worker, CopyPiece(w) PROVE Own(id)' \subseteq Own(id)
  <2>1. /\ Knows(w, proc[w]) /\ proc[w].at = "copy" /\ proc[w].id \in Id
        /\ proc[w].off \in Nat /\ client[proc[w].id] \in Bytes
    BY <1>3 DEF IndInv, TypeOK, Locals, Proc, CopyPiece, Knows, Working
  <2>2. /\ proc[w].path = IncompleteBinPath(proc[w].id)
        /\ \A b \in Own(proc[w].id) : Len(b.bytes) = proc[w].off
    BY <2>1 DEF Knows, Appends
  <2>3. PICK n, bytes : /\ n \in proc[w].off + 1 .. Len(client[proc[w].id])
                        /\ bins' = Appended(IncompleteBinPath(proc[w].id), bytes)
    BY <1>3, <2>2 DEF CopyPiece
  <2>4. CASE proc[w].id # id
    <3>1. IncompleteBinPath(id) # IncompleteBinPath(proc[w].id)
      BY <2>4 DEF IncompleteBinPath
    <3> QED BY <2>3, <3>1 DEF Own, At, Appended
  <2>5. CASE proc[w].id = id
    <3>1. proc[w].off # Len(client[id])
      BY <2>1, <2>3, <2>5 DEF Bytes
    <3>2. Own(id) = {}
      BY <2>1, <2>2, <2>5, <3>1 DEF Whole
    <3> QED BY <2>3, <2>5, <3>2 DEF Own, At, Appended
  <2> QED BY <2>4, <2>5
<1>4. ASSUME NEW w \in Worker, RenameBin(w) PROVE Own(id)' \subseteq Own(id)
  BY <1>4 DEF RenameBin, Renamed, Own, At, IncompleteBinPath, CompleteBinPath
<1>5. ASSUME NEW p \in Proc, RemoveInfo(p) \/ RemoveBin(p) \/ RemoveDirFails(p)
      PROVE  bins' \subseteq bins
  BY <1>5 DEF RemoveInfo, RemoveBin, RemoveDirFails
<1>6. ASSUME UNCHANGED disk \/ \E w \in Worker : WriteInfo(w)
      PROVE  bins' \subseteq bins
  BY <1>6 DEF disk, WriteInfo
<1> QED BY <1>1, <1>2, <1>3, <1>4, <1>5, <1>6, DiskSteps

\* What a request does in a step that does not end it: a POST begins, another
\* method takes the lock, or it goes on.
Begins(w) == /\ proc[w].at = "idle" /\ proc'[w].at = "insert" /\ proc'[w].op = "POST"
             /\ proc'[w].id \in Id /\ client[proc'[w].id] = None /\ faults' = faults

Locks(w) == /\ proc[w].at = "idle" /\ proc'[w].at = "getinfo" /\ proc'[w].op # "POST"
            /\ faults' = faults

\* A request at work goes on with its upload.
GoesAhead(w) ==
  /\ proc[w].at \notin {"idle", "respond"}
  /\ proc'[w].id = proc[w].id /\ proc'[w].op = proc[w].op
  /\ proc'[w].at \in Creating => proc[w].at \in Creating /\ faults' = faults
  /\ proc'[w].at \in Finishing =>
       \/ proc[w].at \in Finishing \union {"copy"}
       \/ proc[w].at = "info" /\ Len(client[proc[w].id]) = 0
  /\ proc'[w].at = "respond" /\ proc[w].at \in Creating => faults' # faults \/ WriteInfo(w)

LEMMA WorkerMoves ==
  ASSUME IndInv, [Next]_vars, NEW w \in Worker, proc'[w] # proc[w], proc'[w].at # "idle"
  PROVE  Begins(w) \/ Locks(w) \/ GoesAhead(w)
<1>1. w \in Proc /\ proc[w] \in Locals /\ proc \in [Proc -> Locals] /\ faults \in Nat
  BY DEF IndInv, TypeOK, Proc
<1> DEFINE Ahead == /\ proc[w].at \notin {"idle", "respond"}
                    /\ proc'[w].id = proc[w].id /\ proc'[w].op = proc[w].op
<1>2. ASSUME Return(w), proc[w].at \notin {"idle", "respond"}
      PROVE  Ahead /\ proc'[w].at = "respond"
  <2>1. w \notin Gc
    BY StoreAssumption
  <2>2. proc'[w] = [Idle EXCEPT !.at = "respond", !.op = proc[w].op, !.id = proc[w].id]
    BY <1>1, <1>2, <2>1 DEF Return, Returned
  <2> QED BY <1>2, <2>2 DEF Idle
<1>3. ASSUME NEW step, Goto(w, step), proc[w].at \notin {"idle", "respond"}
      PROVE  Ahead /\ proc'[w].at = step
  BY <1>1, <1>3, GoesOn
<1>4. CASE NewUpload(w)
  <2>1. PICK id \in Id : /\ client[id] = None
                         /\ proc' = [proc EXCEPT ![w].at = "insert", ![w].op = "POST",
                                                 ![w].id = id]
    BY <1>4 DEF NewUpload
  <2>2. proc'[w].at = "insert" /\ proc'[w].op = "POST" /\ proc'[w].id = id
    BY <1>1, <2>1 DEF Locals
  <2> QED BY <1>4, <2>1, <2>2 DEF NewUpload, Begins
<1>5. CASE LockUpload(w)
  <2>1. PICK id \in rows, op \in Methods \ {"POST"} :
          \E off \in IF op = "PATCH" THEN 0 .. Len(client[id]) ELSE {0} :
            proc' = [proc EXCEPT ![w].at = "getinfo", ![w].op = op,
                                 ![w].id = id, ![w].off = off]
    BY <1>5 DEF LockUpload
  <2>2. PICK off : proc' = [proc EXCEPT ![w].at = "getinfo", ![w].op = op,
                                        ![w].id = id, ![w].off = off]
    BY <2>1
  <2>3. proc'[w].at = "getinfo" /\ proc'[w].op = op
    BY <1>1, <2>2 DEF Locals
  <2> QED BY <1>5, <2>1, <2>3 DEF LockUpload, Locks
<1>6. CASE InsertRow(w) \/ CreateBin(w)
  <2>1. faults' = faults /\ proc[w].at \in Creating
    BY <1>6 DEF InsertRow, CreateBin, Creating
  <2>2. Ahead /\ proc'[w].at \in {"create", "info"}
    BY <1>3, <1>6 DEF InsertRow, CreateBin
  <2> QED BY <2>1, <2>2 DEF GoesAhead, Creating, Finishing
<1>7. CASE WriteInfo(w)
  <2>1. proc[w].at = "info"
    BY <1>7 DEF WriteInfo
  <2>2. \/ Ahead /\ proc'[w].at = "respond"
        \/ Ahead /\ proc'[w].at = "hash" /\ Len(client[proc[w].id]) = 0
    <3>1. CASE Return(w)
      BY <1>2, <2>1, <3>1
    <3>2. CASE Goto(w, "hash") /\ Len(client[proc[w].id]) = 0
      BY <1>3, <2>1, <3>2
    <3> QED BY <1>7, <3>1, <3>2 DEF WriteInfo
  <2> QED BY <1>7, <2>1, <2>2 DEF GoesAhead, Creating, Finishing
<1>8. CASE GetInfo(w) \/ GetReader(w)
  <2>1. proc[w].at \in {"getinfo", "read"}
    BY <1>8 DEF GetInfo, GetReader
  <2>2. Ahead /\ proc'[w].at \in {"count", "read", "open", "respond"}
    BY <1>2, <1>3, <1>8 DEF GetInfo, GetReader, AfterGetInfo
  <2> QED BY <2>1, <2>2 DEF GoesAhead, Creating, Finishing
<1>9. CASE OpenBin(w)
  <2>1. Ahead /\ proc'[w].at \in {"respond", "copy"}
    BY <1>1, <1>2, <1>9 DEF OpenBin, Locals
  <2> QED BY <1>9, <2>1 DEF OpenBin, GoesAhead, Creating, Finishing
<1>10. CASE CopyPiece(w)
  <2>1. PICK n : proc' = [proc EXCEPT ![w].off = n]
    BY <1>10 DEF CopyPiece
  <2>2. Ahead /\ proc'[w].at = "copy"
    BY <1>1, <1>10, <2>1 DEF CopyPiece, Locals
  <2> QED BY <2>2 DEF GoesAhead, Creating, Finishing
<1>11. CASE CopyEnds(w)
  <2>1. Ahead /\ proc'[w].at \in {"respond", "hash"} /\ proc[w].at = "copy"
    BY <1>2, <1>3, <1>11 DEF CopyEnds
  <2> QED BY <2>1 DEF GoesAhead, Creating, Finishing
<1>12. CASE HashFile(w) \/ UpdateHash(w) \/ RenameBin(w)
  <2>1. proc[w].at \in Finishing
    BY <1>12 DEF HashFile, UpdateHash, RenameBin, Finishing
  <2>2. CASE HashFile(w)
    <3>1. Ahead /\ proc'[w].at \in {"respond", "update"}
      BY <1>1, <1>2, <2>2 DEF HashFile, Locals
    <3> QED BY <2>1, <3>1 DEF GoesAhead, Creating, Finishing
  <2>3. CASE UpdateHash(w) \/ RenameBin(w)
    <3>1. Ahead /\ proc'[w].at \in {"respond", "rename"}
      BY <1>2, <1>3, <2>3 DEF UpdateHash, RenameBin
    <3> QED BY <2>1, <3>1 DEF GoesAhead, Creating, Finishing
  <2> QED BY <1>12, <2>2, <2>3
<1>13. CASE Terminate(w)
  <2>1. proc[w].at \in Terminating
    BY <1>13 DEF Terminate, CountDuplicates, LookupBinPath, RemoveInfo, RemoveBin,
                 MarkDeleted, Terminating
  <2>2. Ahead /\ proc'[w].at \in Terminating \union {"respond"}
    <3>1. CASE CountDuplicates(w)
      BY <1>1, <3>1 DEF CountDuplicates, Locals, Terminating
    <3>2. CASE LookupBinPath(w)
      BY <1>1, <3>2 DEF LookupBinPath, Locals, Terminating
    <3>3. CASE RemoveInfo(w) \/ RemoveBin(w) \/ MarkDeleted(w)
      BY <1>2, <1>3, <3>3 DEF RemoveInfo, AfterRemoveInfo, RemoveBin, MarkDeleted, Terminating
    <3> QED BY <1>13, <3>1, <3>2, <3>3 DEF Terminate
  <2> QED BY <2>1, <2>2 DEF GoesAhead, Creating, Finishing, Terminating
<1>14. CASE Respond(w)
  BY <1>1, <1>14 DEF Respond, Idle
<1>15. CASE CallFails(w) \/ RemoveDirFails(w) \/ UnlinkFails(w)
  <2>1. faults' # faults
    BY <1>1, <1>15 DEF CallFails, RemoveDirFails, UnlinkFails, Fault
  <2>2. Ahead /\ proc'[w].at \in Terminating \union {"respond"}
    BY <1>2, <1>3, <1>15
       DEF CallFails, RemoveDirFails, UnlinkFails, AfterRemoveInfo, Terminating
  <2> QED BY <2>1, <2>2 DEF GoesAhead, Creating, Finishing, Terminating
<1>16. CASE Crash
  BY <1>1, <1>16 DEF Crash, Idle
<1>17. w \notin Gc
  BY StoreAssumption
<1> QED BY <1>1, <1>4, <1>5, <1>6, <1>7, <1>8, <1>9, <1>10, <1>11, <1>12, <1>13, <1>14,
           <1>15, <1>16, <1>17, Acting DEF Does, Serve

LEMMA MadeStays ==
  ASSUME IndInv, [Next]_vars, NEW id \in Id, client[id] # None, Made(id)
  PROVE  Made(id)'
<1> SUFFICES ASSUME NEW w \in Worker, proc'[w].at \in Creating PROVE proc'[w].id # id
  BY DEF Made
<1>1. CASE proc'[w] = proc[w]
  BY <1>1 DEF Made
<1>2. CASE proc'[w] # proc[w]
  <2>1. Begins(w) \/ GoesAhead(w)
    BY <1>2, WorkerMoves DEF Creating, Locks
  <2> QED BY <2>1 DEF Begins, GoesAhead, Made
<1> QED BY <1>1, <1>2

\* An upload that is whole and past its creation stays so.
LEMMA WholeStays ==
  ASSUME IndInv, [Next]_vars, NEW id \in Id, Whole(id), Made(id)
  PROVE  Whole(id)' /\ Made(id)'
<1>1. client[id] # None /\ client'[id] = client[id]
  BY ClientKept DEF Whole
<1>2. Own(id)' \subseteq Own(id)
  BY OwnShrinks
<1> QED BY <1>1, <1>2, MadeStays DEF Whole

(*****************************************************************************)
(* The inductive invariant                                                   *)
(*****************************************************************************)
Reader == [at : {"lookup", "open", "copy", "failed"}, next : 1 .. 3,
           path : Path \union {None}, src : Bytes \union {None}]

ConcatTypeOK == /\ parts \in [Id -> {<<>>} \union (Id \X Id)]
                /\ reader \in [Worker -> Reader]
                /\ answered \subseteq Id

\* What ConcatUploads has copied when it turns to the n-th part.
Upto(ids, n) == IF n = 1 THEN <<>> ELSE IF n = 2 THEN client[ids[1]] ELSE Concatenation(ids)

\* The parts of a final upload were whole when it began, and what is left of
\* them is.  It is never given a digest.
Final(id) ==
  parts[id] # <<>> =>
    /\ client[id] = Concatenation(parts[id]) /\ Len(client[id]) # 0
    /\ sha256sum[id] = None
    /\ Whole(parts[id][1]) /\ Made(parts[id][1])
    /\ Whole(parts[id][2]) /\ Made(parts[id][2])

\* What binPath has returned for a part, before or after its rename.
NamesPart(path, id) ==
  \/ path = IncompleteBinPath(id)
  \/ sha256sum[id] # None /\ path = CompleteBinPath(sha256sum[id])

\* The loop of ConcatUploads, with local variables r, for the upload id.
Copies(r, id) ==
  /\ r.at \in {"lookup", "open", "copy"} /\ r.next \in 1 .. 3
  /\ \A b \in Own(id) : b.bytes = Upto(parts[id], r.next)
  /\ r.at # "lookup" => r.next # 3
  /\ r.at = "open" => NamesPart(r.path, parts[id][r.next])
  /\ r.at = "copy" => r.src = client[parts[id][r.next]]

\* A final upload is never appended to by a PATCH and never finished.
Untouched(r) == r.op = "PATCH" \/ r.at \in Finishing => parts[r.id] = <<>>

\* A POST of a final upload runs the loop once NewUpload has returned.
Reads(w) ==
  /\ proc[w].at = "idle" => reader[w] = FirstPart
  /\ proc[w].at # "idle" => Untouched(proc[w])
  /\ proc[w].op = "POST" /\ parts[proc[w].id] # <<>> =>
       /\ proc[w].at # "respond" => reader[w] = FirstPart
       /\ proc[w].at = "respond" /\ reader[w].at # "failed" =>
            Copies(reader[w], proc[w].id)

NoPost(id) == \A w \in Worker : proc[w].op = "POST" => proc[w].id # id

\* An upload whose POST was answered with 201.
Told(id) == parts[id] # <<>> /\ Whole(id) /\ NoPost(id)

ConcatInv == /\ ConcatTypeOK
             /\ \A id \in Id : Final(id)
             /\ \A w \in Worker : Reads(w)
             /\ \A id \in answered : Told(id)

(*****************************************************************************)
(* What holds of a final upload                                              *)
(*****************************************************************************)
LEMMA PairOfParts ==
  ASSUME ConcatInv, NEW id \in Id, parts[id] # <<>>
  PROVE  /\ parts[id] \in Id \X Id /\ Len(parts[id]) = 2
         /\ parts[id][1] \in Id /\ parts[id][2] \in Id
<1>1. parts[id] \in Id \X Id
  BY DEF ConcatInv, ConcatTypeOK
<1>2. PICK i \in Id, j \in Id : parts[id] = <<i, j>>
  BY <1>1
<1> QED BY <1>1, <1>2

LEMMA WholeOfParts ==
  ASSUME IndInv, ConcatInv, NEW id \in Id, parts[id] # <<>>
  PROVE  /\ client[parts[id][1]] \in Bytes /\ client[parts[id][2]] \in Bytes
         /\ client[id] = client[parts[id][1]] \o client[parts[id][2]]
         /\ client[id] \in Bytes /\ client[id] # None /\ Len(client[id]) # 0
         /\ sha256sum[id] = None
<1>1. parts[id][1] \in Id /\ parts[id][2] \in Id /\ Final(id)
  BY PairOfParts DEF ConcatInv
<1>2. /\ client[parts[id][1]] \in Bytes /\ client[parts[id][2]] \in Bytes
      /\ client[id] = client[parts[id][1]] \o client[parts[id][2]]
  BY <1>1 DEF Final, Whole, Concatenation, IndInv, TypeOK
<1>3. client[id] \in Bytes
  <2>1. PICK s \in Bytes, t \in Bytes : s = client[parts[id][1]] /\ t = client[parts[id][2]]
    BY <1>2
  <2> QED BY <1>2, <2>1, ConcatProperties DEF Bytes
<1>4. client[id] # None
  BY <1>3, StoreAssumption
<1> QED BY <1>1, <1>2, <1>3, <1>4 DEF Final

\* No request works on a final upload but its POST, and that one only creates
\* it and copies.
LEMMA FinalIsNotTouched ==
  ASSUME IndInv, ConcatInv, NEW w \in Worker, proc[w].at # "idle",
         parts[proc[w].id] # <<>>
  PROVE  /\ proc[w].at \notin Finishing \union {"open", "copy"}
         /\ proc[w].op = "POST" => proc[w].at \in Creating \union {"respond"}
<1>1. Untouched(proc[w]) /\ Knows(w, proc[w])
  BY DEF ConcatInv, Reads, IndInv, Proc
<1>2. proc[w].at \in {"open", "copy"} => proc[w].op = "PATCH"
  BY <1>1 DEF Knows, Appends
<1> QED BY <1>1, <1>2 DEF Untouched, Knows, Creates

(*****************************************************************************)
(* Any step of the store                                                     *)
(*****************************************************************************)
LEMMA FinalStays ==
  ASSUME IndInv, ConcatInv, [Next]_vars, NEW id \in Id, parts'[id] = parts[id]
  PROVE  Final(id)'
<1> SUFFICES ASSUME parts[id] # <<>> PROVE Final(id)'
  BY DEF Final
<1>1. /\ parts[id][1] \in Id /\ parts[id][2] \in Id /\ client[id] # None
      /\ sha256sum[id] = None /\ Final(id)
  BY PairOfParts, WholeOfParts DEF ConcatInv
<1>2. /\ Whole(parts[id][1]) /\ Made(parts[id][1])
      /\ Whole(parts[id][2]) /\ Made(parts[id][2])
  BY <1>1 DEF Final
<1>3. /\ Whole(parts[id][1])' /\ Made(parts[id][1])'
      /\ Whole(parts[id][2])' /\ Made(parts[id][2])'
  <2>1. PICK i \in Id, j \in Id : i = parts[id][1] /\ j = parts[id][2]
    BY <1>1
  <2>2. Whole(i)' /\ Made(i)' /\ Whole(j)' /\ Made(j)'
    BY <1>2, <2>1, WholeStays
  <2>3. parts'[id][1] = i /\ parts'[id][2] = j
    BY <2>1
  <2> QED BY <2>2, <2>3 DEF Whole, Made, Own, At, IncompleteBinPath
<1>4. /\ client'[id] = client[id]
      /\ client'[parts[id][1]] = client[parts[id][1]]
      /\ client'[parts[id][2]] = client[parts[id][2]]
  BY <1>1, <1>2, ClientKept DEF Whole
<1>5. client'[id] = Concatenation(parts[id])' /\ Len(client'[id]) # 0
  BY <1>1, <1>4 DEF Final, Concatenation
<1>6. sha256sum'[id] = None
  <2>1. ASSUME NEW w \in Worker, UpdateHash(w) PROVE sha256sum'[id] = None
    <3>1. proc[w].id # id
      BY <2>1, FinalIsNotTouched DEF UpdateHash, Finishing
    <3> QED BY <1>1, <2>1, <3>1, Recorded
  <2> QED BY <1>1, <2>1, TableSteps DEF table, InsertRow, MarkDeleted
<1> QED BY <1>3, <1>5, <1>6 DEF Final

LEMMA CopiesStay ==
  ASSUME IndInv, ConcatInv, [Next]_vars, NEW id \in Id, parts[id] # <<>>,
         parts'[id] = parts[id], Own(id)' \subseteq Own(id), NEW r, Copies(r, id)
  PROVE  Copies(r, id)'
<1>1. parts[id][1] \in Id /\ parts[id][2] \in Id /\ Final(id)
  BY PairOfParts DEF ConcatInv
<1>2. /\ client'[parts[id][1]] = client[parts[id][1]]
      /\ client'[parts[id][2]] = client[parts[id][2]]
  BY <1>1, ClientKept DEF Final, Whole
<1>3. Upto(parts[id], r.next)' = Upto(parts[id], r.next)
  BY <1>2 DEF Upto, Concatenation
<1>4. r.at # "lookup" => r.next \in {1, 2}
  BY DEF Copies
<1>5. r.at = "copy" => r.src = client'[parts'[id][r.next]]
  BY <1>2, <1>4 DEF Copies
<1>6. r.at = "open" => NamesPart(r.path, parts[id][r.next])'
  <2> SUFFICES ASSUME r.at = "open" PROVE NamesPart(r.path, parts[id][r.next])'
    OBVIOUS
  <2>1. PICK i \in Id : i = parts[id][r.next]
    BY <1>1, <1>4
  <2>2. NamesPart(r.path, i)
    BY <2>1 DEF Copies
  <2>3. NamesPart(r.path, i)'
    BY <2>2, DigestsAreKept DEF NamesPart, DigestsStay, IncompleteBinPath, CompleteBinPath
  <2> QED BY <2>1, <2>3
<1> QED BY <1>3, <1>5, <1>6 DEF Copies

LEMMA ToldStays ==
  ASSUME IndInv, ConcatInv, [Next]_vars, NEW id \in Id, parts'[id] = parts[id], Told(id)
  PROVE  Told(id)'
<1>1. Made(id) /\ client[id] # None
  BY DEF Told, NoPost, Made, Whole, IndInv, Knows, Finishes, Proc
<1>2. Whole(id)'
  BY <1>1, WholeStays DEF Told
<1>3. NoPost(id)'
  <2> SUFFICES ASSUME NEW w \in Worker, proc'[w].op = "POST" PROVE proc'[w].id # id
    BY DEF NoPost
  <2>1. CASE proc'[w] = proc[w]
    BY <2>1 DEF Told, NoPost
  <2>2. CASE proc'[w] # proc[w]
    <3>1. proc'[w].at # "idle"
      <4>1. Working(w, proc[w])'
        BY IndInvNext DEF IndInv, Knows, Proc
      <4> QED BY <4>1 DEF Working, Idle
    <3>2. Begins(w) \/ GoesAhead(w)
      BY <2>2, <3>1, WorkerMoves DEF Locks
    <3> QED BY <1>1, <3>2 DEF Begins, GoesAhead, Told, NoPost
  <2> QED BY <2>1, <2>2
<1> QED BY <1>2, <1>3 DEF Told

LEMMA ReadsNext ==
  ASSUME IndInv, ConcatInv, StoreStep, NEW w \in Worker
  PROVE  Reads(w)'
<1>1. /\ w \in Proc /\ Knows(w, proc[w]) /\ Reads(w) /\ [Next]_vars
      /\ MayServe(w) /\ parts' = parts /\ reader'[w] = ReaderAfter(w)
  BY DEF IndInv, Proc, ConcatInv, StoreStep
<1>2. Knows(w, proc[w])'
  BY <1>1, IndInvNext DEF IndInv
<1>3. CASE proc'[w].at = "idle"
  <2>1. proc'[w].op = "none"
    BY <1>2, <1>3 DEF Knows, Working, Idle
  <2>2. reader'[w] = FirstPart
    BY <1>1, <1>3 DEF ReaderAfter
  <2> QED BY <1>3, <2>1, <2>2 DEF Reads
<1>4. CASE proc'[w] = proc[w] /\ proc[w].at # "idle"
  <2>1. reader'[w] = reader[w] /\ Untouched(proc[w])'
    BY <1>1, <1>4 DEF ReaderAfter, Reads, Untouched
  <2>2. ASSUME proc[w].op = "POST", parts[proc[w].id] # <<>>, proc[w].at = "respond",
               reader[w].at # "failed"
        PROVE  Copies(reader[w], proc[w].id)'
    <3>1. PICK id \in Id : id = proc[w].id
      BY <1>1, <1>4 DEF Knows, Working
    <3>2. PICK r : r = reader[w]
      OBVIOUS
    <3>3. Copies(r, id)
      BY <1>1, <2>2, <3>1, <3>2 DEF Reads
    <3>4. \A v \in Worker : proc[v].at # "idle" => v = w \/ proc[v].id # id
      BY <2>2, <3>1 DEF IndInv, Alone, Proc
    <3>5. Own(id)' \subseteq Own(id)
      <4>1. Made(id) /\ \A v \in Worker : proc[v].at = "copy" => proc[v].id # id
        BY <2>2, <3>4 DEF Made, Creating
      <4> QED BY <1>1, <4>1, OwnShrinks
    <3>6. Copies(r, id)'
      BY <1>1, <2>2, <3>1, <3>3, <3>5, CopiesStay
    <3>7. reader'[w] = r /\ proc'[w].id = id
      BY <1>4, <2>1, <3>1, <3>2
    <3> QED BY <3>6, <3>7 DEF Copies, Own, At, IncompleteBinPath
  <2> QED BY <1>1, <1>4, <2>1, <2>2 DEF Reads
<1>5. CASE Begins(w)
  <2>1. reader'[w] = FirstPart
    BY <1>1, <1>5 DEF Begins, ReaderAfter, Reads
  <2>2. Untouched(proc[w])'
    BY <1>5 DEF Begins, Untouched, Finishing
  <2> QED BY <1>5, <2>1, <2>2 DEF Begins, Reads
<1>6. CASE Locks(w)
  <2>1. Untouched(proc[w])'
    BY <1>1, <1>6 DEF Locks, Untouched, Finishing, MayServe
  <2> QED BY <1>6, <2>1 DEF Locks, Reads
<1>7. CASE GoesAhead(w)
  <2>1. PICK id \in Id : id = proc[w].id /\ id = proc'[w].id
    BY <1>1, <1>7 DEF GoesAhead, Knows, Working
  <2>2. proc[w].at \notin {"idle", "respond"} /\ proc'[w].op = proc[w].op /\ Untouched(proc[w])
    BY <1>1, <1>7 DEF GoesAhead, Reads
  <2>3. CASE parts[id] = <<>>
    BY <1>1, <1>3, <2>1, <2>3 DEF Reads, Untouched
  <2>4. CASE parts[id] # <<>>
    <3>1. /\ proc[w].at \notin Finishing \union {"copy"} /\ Len(client[id]) # 0
          /\ proc[w].op = "POST" => proc[w].at \in Creating
      BY <2>1, <2>2, <2>4, FinalIsNotTouched, WholeOfParts
    <3>2. Untouched(proc[w])'
      BY <1>1, <1>7, <2>1, <2>2, <2>4, <3>1 DEF GoesAhead, Untouched
    <3>3. CASE proc[w].op # "POST"
      BY <1>3, <2>2, <3>2, <3>3 DEF Reads
    <3>4. CASE proc[w].op = "POST" /\ proc'[w].at # "respond"
      <4>1. reader[w] = FirstPart /\ proc'[w].at \in Creating
        BY <1>1, <1>2, <2>1, <2>2, <2>4, <3>1, <3>2, <3>4
           DEF Reads, Knows, Creates, Untouched
      <4>2. reader'[w] = FirstPart
        BY <1>1, <1>7, <4>1 DEF GoesAhead, ReaderAfter
      <4> QED BY <1>3, <3>2, <3>4, <4>2 DEF Reads
    <3>5. CASE proc[w].op = "POST" /\ proc'[w].at = "respond"
      <4> SUFFICES ASSUME reader'[w].at # "failed" PROVE Copies(reader[w], proc[w].id)'
        BY <3>2, <3>5 DEF Reads
      <4>1. reader[w] = FirstPart /\ reader[w] \in Reader
        BY <1>1, <2>1, <2>2, <2>4, <3>5 DEF Reads, ConcatInv, ConcatTypeOK
      <4>2. proc'[w] # proc[w]
        BY <2>2, <3>5
      <4>3. faults' = faults /\ reader'[w] = FirstPart
        BY <1>1, <3>5, <4>1, <4>2 DEF ReaderAfter, Reader
      <4>4. WriteInfo(w)
        BY <1>7, <3>1, <3>5, <4>3 DEF GoesAhead
      <4>5. bins' = bins /\ \A b \in Own(id) : b.bytes = <<>>
        BY <1>1, <2>1, <4>4 DEF WriteInfo, Knows, Finishes, Creating
      <4>6. \A b \in Own(id)' : b.bytes = <<>>
        BY <4>5 DEF Own, At, IncompleteBinPath
      <4>7. Copies(FirstPart, id)'
        BY <4>6 DEF Copies, FirstPart, Upto
      <4> QED BY <2>1, <4>3, <4>7 DEF Copies, Own, At, IncompleteBinPath
    <3> QED BY <3>3, <3>4, <3>5
  <2> QED BY <2>3, <2>4
<1> QED BY <1>1, <1>3, <1>4, <1>5, <1>6, <1>7, WorkerMoves

LEMMA AnsweredIsTold ==
  ASSUME IndInv, ConcatInv, StoreStep, NEW w \in Worker, Answered(w),
         NEW id, id = proc[w].id
  PROVE  id \in Id /\ Told(id)'
<1>1. /\ w \in Proc /\ Knows(w, proc[w]) /\ Reads(w) /\ [Next]_vars
      /\ MayServe(w) /\ parts' = parts
  BY DEF IndInv, Proc, ConcatInv, StoreStep
<1>2. id \in Id /\ parts[id] # <<>>
  BY <1>1 DEF Answered, Posted, Knows, Working
<1>3. /\ proc[w].at = "respond" /\ proc[w].op = "POST" /\ reader[w].at # "failed"
      /\ proc'[w].at = "idle" /\ faults' = faults
  BY DEF Answered
<1>4. Copies(reader[w], id) /\ Len(parts[id]) = 2
  BY <1>1, <1>2, <1>3, PairOfParts DEF Reads
<1>5. ~Concatenating(w)
  BY <1>1, <1>3 DEF MayServe
<1>6. reader[w].next = 3
  BY <1>2, <1>3, <1>4, <1>5 DEF Concatenating, Posted, Copies
<1>7. Whole(id)
  <2>1. \A b \in Own(id) : b.bytes = Concatenation(parts[id])
    BY <1>4, <1>6 DEF Copies, Upto
  <2>2. client[id] = Concatenation(parts[id]) /\ client[id] # None
    BY <1>2, WholeOfParts DEF Concatenation
  <2> QED BY <2>1, <2>2 DEF Whole
<1>8. \A v \in Worker : proc[v].at # "idle" => v = w \/ proc[v].id # id
  BY <1>2, <1>3 DEF IndInv, Alone, Proc
<1>9. Whole(id)'
  <2>1. Made(id)
    BY <1>3, <1>8 DEF Made, Creating
  <2> QED BY <1>1, <1>2, <1>7, <2>1, WholeStays
<1>10. NoPost(id)'
  <2> SUFFICES ASSUME NEW v \in Worker, proc'[v].op = "POST" PROVE proc'[v].id # id
    BY DEF NoPost
  <2>1. proc'[v].at # "idle"
    <3>1. Working(v, proc[v])'
      BY <1>1, IndInvNext DEF IndInv, Knows, Proc
    <3> QED BY <3>1 DEF Working, Idle
  <2>2. CASE proc'[v] = proc[v]
    BY <1>3, <1>8, <2>1, <2>2
  <2>3. CASE proc'[v] # proc[v]
    <3>1. Begins(v) \/ GoesAhead(v)
      BY <1>1, <2>1, <2>3, WorkerMoves DEF Locks
    <3> QED BY <1>3, <1>7, <1>8, <3>1 DEF Begins, GoesAhead, Whole
  <2> QED BY <2>2, <2>3
<1>11. Told(id)'
  BY <1>1, <1>2, <1>9, <1>10 DEF Told
<1> QED BY <1>2, <1>11

LEMMA StoreStepConcat ==
  ASSUME IndInv, ConcatInv, StoreStep
  PROVE  ConcatInv'
<1>1. [Next]_vars /\ parts' = parts
  BY DEF StoreStep
<1>2. \A id \in Id : Final(id)'
  BY <1>1, FinalStays
<1>3. \A w \in Worker : Reads(w)'
  BY ReadsNext
<1>4. answered' \subseteq Id /\ \A id \in answered' : Told(id)'
  <2> SUFFICES ASSUME NEW id \in answered' PROVE id \in Id /\ Told(id)'
    OBVIOUS
  <2>1. CASE id \in answered
    BY <1>1, <2>1, ToldStays DEF ConcatInv, ConcatTypeOK
  <2>2. ASSUME NEW w \in Worker, Answered(w), id = proc[w].id PROVE id \in Id /\ Told(id)'
    BY <2>2, AnsweredIsTold
  <2> QED BY <2>1, <2>2 DEF StoreStep
<1>5. ConcatTypeOK'
  <2>1. reader' \in [Worker -> Reader]
    <3>1. FirstPart \in Reader
      BY DEF FirstPart, Reader
    <3>2. \A w \in Worker : ReaderAfter(w) \in Reader
      BY <3>1 DEF ReaderAfter, ConcatInv, ConcatTypeOK, Reader
    <3> QED BY <3>2 DEF StoreStep
  <2> QED BY <1>1, <1>4, <2>1 DEF ConcatInv, ConcatTypeOK
<1> QED BY <1>2, <1>3, <1>4, <1>5 DEF ConcatInv

(*****************************************************************************)
(* A final upload begins                                                     *)
(*****************************************************************************)
LEMMA UploadedIsWhole ==
  ASSUME IndInv, ViewInv, NEW id \in Id, IsUploaded(id)
  PROVE  Whole(id) /\ Made(id)
<1>1. id \in info /\ id \in rows /\ client[id] # None /\ client[id] \in Bytes
  BY DEF IsUploaded, ViewInv, IndInv, StoreInv, Fresh, TypeOK
<1>2. Made(id)
  <2> SUFFICES ASSUME NEW w \in Worker, proc[w].at \in Creating PROVE proc[w].id # id
    BY DEF Made
  <2> QED BY <1>1 DEF ViewInv, Unwritten, Proc
<1>3. CASE sha256sum[id] # None
  BY <1>1, <1>2, <1>3 DEF ViewInv, WholeWhenHashed, Whole
<1>4. CASE sha256sum[id] = None
  <2>1. PICK b \in Own(id) : Len(b.bytes) = Len(client[id])
    BY <1>4 DEF IsUploaded, BinPath, Own
  <2>2. b.bytes \in Bytes /\ IsPrefix(b.bytes, client[id])
    BY DEF Own, At, IndInv, TypeOK, StoreInv, OwnIsPrefix
  <2>3. b.bytes = client[id]
    <3>1. PICK s \in Bytes, t \in Bytes : s = b.bytes /\ t = client[id]
      BY <1>1, <2>2
    <3> QED BY <2>1, <2>2, <3>1, WholePrefix
  <2>4. \A c \in Own(id) : c = b
    BY DEF Own, At, IndInv, TypeOK
  <2> QED BY <1>1, <1>2, <2>3, <2>4 DEF Whole
<1> QED BY <1>3, <1>4

\* NewFinal is a POST of ShardedFileStore.
LEMMA NewFinalIsNext ==
  ASSUME NEW w \in Worker, NewFinal(w)
  PROVE  NewUpload(w) /\ Next
<1>1. NewUpload(w)
  BY DEF NewFinal, NewUpload
<1> QED BY <1>1 DEF Next

LEMMA NewFinalConcat ==
  ASSUME IndInv, ViewInv, ConcatInv, NEW w \in Worker, NewFinal(w)
  PROVE  ConcatInv'
<1>1. w \in Proc /\ [Next]_vars /\ reader' = reader /\ answered' = answered
      /\ proc[w] \in Locals /\ proc \in [Proc -> Locals] /\ proc[w].at = "idle"
  BY NewFinalIsNext DEF NewFinal, Proc, IndInv, TypeOK
<1>2. PICK id \in Id, ids \in Id \X Id :
        /\ client[id] = None
        /\ \A i \in 1 .. 2 : IsUploaded(ids[i])
        /\ Concatenation(ids) \in ClientFile[id] \ {<<>>}
        /\ client' = [client EXCEPT ![id] = Concatenation(ids)]
        /\ parts' = [parts EXCEPT ![id] = ids]
        /\ proc' = [proc EXCEPT ![w].at = "insert", ![w].op = "POST", ![w].id = id]
  BY DEF NewFinal
<1>3. PICK i \in Id, j \in Id : ids = <<i, j>>
  OBVIOUS
<1>4. ids[1] = i /\ ids[2] = j /\ ids # <<>>
  BY <1>3
<1>5. Whole(i) /\ Made(i) /\ Whole(j) /\ Made(j)
  BY <1>2, <1>4, UploadedIsWhole
<1>6. parts'[id] = ids /\ \A k \in Id \ {id} : parts'[k] = parts[k]
  BY <1>2 DEF ConcatInv, ConcatTypeOK
<1>7. /\ proc'[w].at = "insert" /\ proc'[w].op = "POST" /\ proc'[w].id = id
      /\ \A v \in Worker \ {w} : proc'[v] = proc[v]
  BY <1>1, <1>2 DEF Locals, Proc
<1>8. Final(id)'
  <2>1. Whole(i)' /\ Made(i)' /\ Whole(j)' /\ Made(j)'
    BY <1>1, <1>5, WholeStays
  <2>2. client'[i] = client[i] /\ client'[j] = client[j]
    BY <1>1, <1>5, ClientKept DEF Whole
  <2>3. client'[id] = Concatenation(ids) /\ Concatenation(ids)' = Concatenation(ids)
    BY <1>2, <1>4, <2>2 DEF Concatenation, IndInv, TypeOK
  <2>4. Len(client'[id]) # 0
    BY <1>2, <2>3, StoreAssumption DEF Bytes
  <2>5. sha256sum'[id] = None
    BY <1>2 DEF NewFinal, table, IndInv, StoreInv, Fresh
  <2>6. parts'[id][1] = i /\ parts'[id][2] = j
    BY <1>4, <1>6
  <2>7. /\ Whole(parts[id][1])' /\ Made(parts[id][1])'
        /\ Whole(parts[id][2])' /\ Made(parts[id][2])'
    BY <2>1, <2>6 DEF Whole, Made, Own, At, IncompleteBinPath
  <2>8. client'[id] = Concatenation(parts[id])'
    BY <1>6, <2>3 DEF Concatenation
  <2> QED BY <2>4, <2>5, <2>7, <2>8 DEF Final
<1>9. \A k \in Id : Final(k)'
  BY <1>1, <1>6, <1>8, FinalStays
<1>10. ASSUME NEW v \in Worker PROVE Reads(v)'
  <2>1. CASE v = w
    <3>1. reader[w] = FirstPart
      BY <1>1 DEF ConcatInv, Reads
    <3>2. Untouched(proc[w])'
      BY <1>7 DEF Untouched, Finishing
    <3> QED BY <1>1, <1>7, <2>1, <3>1, <3>2 DEF Reads
  <2>2. CASE v # w /\ proc[v].at = "idle"
    <3>1. proc[v].op = "none" /\ reader[v] = FirstPart
      BY <2>2 DEF IndInv, Knows, Working, Idle, Proc, ConcatInv, Reads
    <3> QED BY <1>1, <1>7, <2>2, <3>1 DEF Reads
  <2>3. CASE v # w /\ proc[v].at # "idle"
    <3>1. PICK k \in Id : k = proc[v].id /\ client[k] # None
      BY <2>3 DEF IndInv, Knows, Working, Proc
    <3>2. parts'[k] = parts[k] /\ proc'[v] = proc[v] /\ Reads(v)
      BY <1>2, <1>6, <1>7, <2>3, <3>1 DEF ConcatInv
    <3>3. Untouched(proc[v])'
      BY <2>3, <3>1, <3>2 DEF Reads, Untouched
    <3>4. ASSUME proc[v].op = "POST", parts[k] # <<>>, proc[v].at = "respond",
                 reader[v].at # "failed"
          PROVE  Copies(reader[v], k)'
      <4>1. PICK r : r = reader[v]
        OBVIOUS
      <4>2. Copies(r, k)
        BY <3>1, <3>2, <3>4, <4>1 DEF Reads
      <4>3. Own(k)' = Own(k)
        BY DEF NewFinal, disk, Own, At, IncompleteBinPath
      <4>4. Copies(r, k)'
        BY <1>1, <3>2, <3>4, <4>2, <4>3, CopiesStay
      <4> QED BY <1>1, <4>1, <4>4 DEF Copies
    <3>5. ASSUME proc[v].op = "POST", parts[k] # <<>>, proc[v].at = "respond",
                 reader[v].at # "failed"
          PROVE  Copies(reader[v], proc[v].id)'
      BY <3>1, <3>2, <3>4, <3>5 DEF Copies, Own, At, IncompleteBinPath
    <3> QED BY <1>1, <2>3, <3>1, <3>2, <3>3, <3>5 DEF Reads
  <2> QED BY <2>1, <2>2, <2>3
<1>11. ASSUME NEW k \in answered' PROVE Told(k)'
  <2>1. k \in Id /\ Told(k) /\ k # id
    BY <1>1, <1>2, <1>11 DEF ConcatInv, ConcatTypeOK, Told, Whole
  <2> QED BY <1>1, <1>6, <2>1, ToldStays
<1>12. ConcatTypeOK'
  BY <1>1, <1>2 DEF ConcatInv, ConcatTypeOK
<1> QED BY <1>9, <1>10, <1>11, <1>12 DEF ConcatInv

(*****************************************************************************)
(* The loop of ConcatUploads                                                 *)
(*****************************************************************************)
LEMMA PrefixIf ==
  ASSUME NEW u \in Bytes, NEW v \in Bytes, Len(u) <= Len(v),
         \A i \in 1 .. Len(u) : u[i] = v[i]
  PROVE  IsPrefix(u, v)
<1>1. Len(u) \in Nat /\ Len(v) \in Nat
  BY LenProperties DEF Bytes
<1>2. SubSeq(u, 1, Len(u)) = u
  BY SubSeqFull DEF Bytes
<1> DEFINE x == SubSeq(v, 1, Len(u))
<1>3. \A i \in 1 .. Len(u) : v[i] \in Byte
  BY <1>1, ElementOfSeq DEF Bytes
<1>4. x \in Bytes /\ Len(x) = Len(u) /\ \A i \in 1 .. Len(u) : x[i] = v[i]
  BY <1>1, <1>3, SubSeqProperties DEF Bytes
<1> HIDE DEF x
<1>5. x = u
  BY <1>4, SeqEqual DEF Bytes
<1> QED BY <1>2, <1>5 DEF IsPrefix, x

LEMMA PartOf ==
  ASSUME NEW s \in Bytes, NEW n \in 0 .. Len(s)
  PROVE  SubSeq(s, 1, n) \in Bytes
<1>1. Len(s) \in Nat /\ n \in Nat /\ n <= Len(s)
  BY LenProperties DEF Bytes
<1>2. \A i \in 1 .. n : s[i] \in Byte
  BY <1>1, ElementOfSeq DEF Bytes
<1> QED BY <1>1, <1>2, SubSeqProperties DEF Bytes

\* What is copied of the first file, or after it of the second one.
LEMMA PieceOfFirst ==
  ASSUME NEW s \in Bytes, NEW t \in Bytes, NEW n \in 0 .. Len(s)
  PROVE  <<>> \o SubSeq(s, 1, n) \in Bytes /\ IsPrefix(<<>> \o SubSeq(s, 1, n), s \o t)
<1>1. Len(s) \in Nat /\ Len(t) \in Nat /\ n \in Nat /\ n <= Len(s)
  BY LenProperties DEF Bytes
<1>2. \A i \in 1 .. n : s[i] \in Byte
  BY <1>1, ElementOfSeq DEF Bytes
<1> DEFINE u == SubSeq(s, 1, n)
<1>3. u \in Bytes /\ Len(u) = n /\ \A i \in 1 .. n : u[i] = s[i]
  BY <1>1, <1>2, SubSeqProperties DEF Bytes
<1> HIDE DEF u
<1>4. <<>> \o u = u
  BY <1>3, ConcatEmptySeq DEF Bytes
<1>5. /\ s \o t \in Bytes /\ Len(s \o t) = Len(s) + Len(t)
      /\ \A i \in 1 .. Len(s) + Len(t) : (s \o t)[i] = IF i <= Len(s) THEN s[i] ELSE t[i - Len(s)]
  BY ConcatProperties DEF Bytes
<1>6. \A i \in 1 .. n : u[i] = (s \o t)[i]
  BY <1>1, <1>3, <1>5
<1> DEFINE y == s \o t
<1>7. y \in Bytes /\ Len(u) <= Len(y) /\ \A i \in 1 .. Len(u) : u[i] = y[i]
  BY <1>1, <1>3, <1>5, <1>6
<1> HIDE DEF y
<1>8. IsPrefix(u, y)
  BY <1>3, <1>7, PrefixIf
<1> QED BY <1>3, <1>4, <1>8 DEF u, y

LEMMA PieceOfSecond ==
  ASSUME NEW s \in Bytes, NEW t \in Bytes, NEW n \in 0 .. Len(t)
  PROVE  s \o SubSeq(t, 1, n) \in Bytes /\ IsPrefix(s \o SubSeq(t, 1, n), s \o t)
<1>1. Len(s) \in Nat /\ Len(t) \in Nat /\ n \in Nat /\ n <= Len(t)
  BY LenProperties DEF Bytes
<1>2. \A i \in 1 .. n : t[i] \in Byte
  BY <1>1, ElementOfSeq DEF Bytes
<1> DEFINE u == SubSeq(t, 1, n)
           x == s \o u
           y == s \o t
<1>3. u \in Bytes /\ Len(u) = n /\ \A i \in 1 .. n : u[i] = t[i]
  BY <1>1, <1>2, SubSeqProperties DEF Bytes
<1> HIDE DEF u
<1>4. /\ x \in Bytes /\ Len(x) = Len(s) + n
      /\ \A i \in 1 .. Len(s) + n : x[i] = IF i <= Len(s) THEN s[i] ELSE u[i - Len(s)]
  BY <1>3, ConcatProperties DEF Bytes
<1>5. /\ y \in Bytes /\ Len(y) = Len(s) + Len(t)
      /\ \A i \in 1 .. Len(s) + Len(t) : y[i] = IF i <= Len(s) THEN s[i] ELSE t[i - Len(s)]
  BY ConcatProperties DEF Bytes
<1> HIDE DEF x, y
<1>6. ASSUME NEW i \in 1 .. Len(s) + n PROVE x[i] = y[i]
  <2>1. CASE i <= Len(s)
    BY <1>1, <1>4, <1>5, <2>1
  <2>2. CASE i > Len(s)
    <3>1. i - Len(s) \in 1 .. n /\ i \in 1 .. Len(s) + Len(t)
      BY <1>1, <2>2
    <3> QED BY <1>1, <1>3, <1>4, <1>5, <2>2, <3>1
  <2> QED BY <1>1, <2>1, <2>2
<1>7. Len(x) <= Len(y) /\ \A i \in 1 .. Len(x) : x[i] = y[i]
  BY <1>1, <1>4, <1>5, <1>6
<1>8. IsPrefix(x, y)
  BY <1>4, <1>5, <1>7, PrefixIf
<1> QED BY <1>4, <1>8 DEF u, x, y

\* Nothing is appended to a whole file.
LEMMA WholeIsFull ==
  ASSUME NEW s \in Bytes, NEW t \in Bytes, IsPrefix(s \o t, s)
  PROVE  s \o t = s
<1>1. s \o t \in Bytes /\ Len(s \o t) = Len(s) + Len(t) /\ Len(s) \in Nat /\ Len(t) \in Nat
  BY ConcatProperties, LenProperties DEF Bytes
<1>2. Len(s \o t) = Len(s)
  BY <1>1 DEF IsPrefix
<1> QED BY <1>1, <1>2, WholePrefix

\* The POST of a final upload appends to its file.
Grows(id, s) == /\ bins' = Appended(IncompleteBinPath(id), s)
                /\ UNCHANGED <<table, info, lockfile, client, expired, proc, todo, faults>>

Grown(id, s) ==
  /\ \A c \in bins' :
       \/ c \in bins /\ c.path # IncompleteBinPath(id)
       \/ \E b \in Own(id) : c = [path |-> IncompleteBinPath(id), bytes |-> b.bytes \o s]
  /\ \A c \in Own(id)' : \E b \in Own(id) : c.bytes = b.bytes \o s
  /\ \A b \in Own(id) : \E c \in Own(id)' : c.bytes = b.bytes \o s
  /\ \A path : At(path) # {} => At(path)' # {}
  /\ \A j \in Id \ {id} : Own(j)' = Own(j)

LEMMA GrownFile ==
  ASSUME NEW id, NEW s, Grows(id, s)
  PROVE  Grown(id, s)
<1> DEFINE path == IncompleteBinPath(id)
<1>1. bins' = Appended(path, s)
  BY DEF Grows
<1>2. \A c \in bins' : \/ c \in bins /\ c.path # path
                       \/ \E b \in Own(id) : c = [path |-> path, bytes |-> b.bytes \o s]
  BY <1>1 DEF Appended, Own, At
<1>3. ASSUME NEW c \in Own(id)' PROVE \E b \in Own(id) : c.bytes = b.bytes \o s
  <2>1. c \in bins' /\ c.path = path
    BY DEF Own, At, IncompleteBinPath
  <2>2. PICK b \in Own(id) : c = [path |-> path, bytes |-> b.bytes \o s]
    BY <1>2, <2>1
  <2> QED BY <2>2
<1>4. ASSUME NEW b \in Own(id) PROVE \E c \in Own(id)' : c.bytes = b.bytes \o s
  <2>1. b \in bins /\ b.path = path
    BY DEF Own, At
  <2>2. [path |-> path, bytes |-> b.bytes \o s] \in bins'
    BY <1>1, <2>1 DEF Appended
  <2>3. [path |-> path, bytes |-> b.bytes \o s] \in Own(id)'
    BY <2>2 DEF Own, At, IncompleteBinPath
  <2> QED BY <2>3
<1>5. ASSUME NEW p, At(p) # {} PROVE At(p)' # {}
  BY <1>1, <1>5, AppendKeeps DEF At
<1>6. ASSUME NEW j \in Id \ {id} PROVE Own(j)' = Own(j)
  <2>1. IncompleteBinPath(j) # path
    BY <1>6 DEF IncompleteBinPath
  <2> QED BY <1>1, <2>1 DEF Appended, Own, At, IncompleteBinPath
<1> QED BY <1>2, <1>3, <1>4, <1>5, <1>6 DEF Grown

\* w copies for the upload id, and what it appends is what comes next.
Extends(w, id, s) ==
  /\ w \in Worker /\ id \in Id /\ id = proc[w].id
  /\ proc[w].at = "respond" /\ proc[w].op = "POST"
  /\ client[id] # None /\ sha256sum[id] = None /\ s \in Bytes
  /\ \A b \in Own(id) : b.bytes \o s \in Bytes /\ IsPrefix(b.bytes \o s, client[id])

LEMMA GrowsInvariant ==
  ASSUME IndInv, NEW w, NEW id, NEW s, Extends(w, id, s), Grows(id, s)
  PROVE  IndInv'
<1>0. Grown(id, s)
  BY GrownFile
<1> DEFINE path == IncompleteBinPath(id)
<1>1. /\ w \in Proc /\ id \in Id /\ id = proc[w].id /\ w \in Worker
      /\ proc[w].at = "respond" /\ proc[w].op = "POST"
  BY DEF Extends, Proc
<1>2. UNCHANGED <<rows, sha256sum, deleted, info, lockfile, client, expired, proc, todo, faults>>
  BY DEF Grows, table
<1>3. \A c \in bins' : \/ c \in bins /\ c.path # path
                       \/ \E b \in Own(id) : c = [path |-> path, bytes |-> b.bytes \o s]
  BY <1>0 DEF Grown
<1>4. \A c \in Own(id)' : IsPrefix(c.bytes, client[id])
  <2> SUFFICES ASSUME NEW c \in Own(id)' PROVE IsPrefix(c.bytes, client[id])
    OBVIOUS
  <2>1. PICK b \in Own(id) : c.bytes = b.bytes \o s
    BY <1>0 DEF Grown
  <2> QED BY <2>1 DEF Extends
<1>5. \A j \in Id \ {id} : Own(j)' = Own(j)
  BY <1>0 DEF Grown
<1>6. path \in Path /\ path[1] # "complete"
  BY <1>1 DEF IncompleteBinPath, Path
<1>7. Own(id)' # {} => Own(id) # {}
  BY <1>0 DEF Grown
<1> HIDE DEF path
<1>8. TypeOK'
  <2>1. bins' \subseteq [path : Path, bytes : Bytes]
    <3> SUFFICES ASSUME NEW c \in bins' PROVE c \in [path : Path, bytes : Bytes]
      OBVIOUS
    <3>1. CASE c \in bins
      BY <3>1 DEF IndInv, TypeOK
    <3>2. CASE \E b \in Own(id) : c = [path |-> path, bytes |-> b.bytes \o s]
      BY <1>6, <3>2 DEF Extends
    <3> QED BY <1>3, <3>1, <3>2
  <2>2. \A b, c \in bins' : b.path = c.path => b = c
    <3> SUFFICES ASSUME NEW b \in bins', NEW c \in bins', b.path = c.path PROVE b = c
      OBVIOUS
    <3>1. CASE b.path # path
      <4>1. b \in bins /\ c \in bins
        BY <1>3, <3>1
      <4> QED BY <4>1 DEF IndInv, TypeOK
    <3>2. CASE b.path = path
      <4>1. PICK b0 \in Own(id) : b = [path |-> path, bytes |-> b0.bytes \o s]
        BY <1>3, <3>2
      <4>2. PICK c0 \in Own(id) : c = [path |-> path, bytes |-> c0.bytes \o s]
        BY <1>3, <3>2
      <4>3. b0 = c0
        BY DEF Own, At, IndInv, TypeOK
      <4> QED BY <4>1, <4>2, <4>3
    <3> QED BY <3>1, <3>2
  <2> QED BY <1>2, <2>1, <2>2 DEF IndInv, TypeOK
<1>9. StoreInv'
  <2>1. Fresh'
    BY <1>1, <1>2, <1>5, <1>7 DEF IndInv, StoreInv, Fresh
  <2>2. OwnIsPrefix'
    BY <1>1, <1>2, <1>4, <1>5 DEF IndInv, StoreInv, OwnIsPrefix, Extends
  <2>3. BlobsAreContentAddressed' /\ HashIsOfWholeFile'
    BY <1>2, <1>3, <1>6 DEF IndInv, StoreInv, BlobsAreContentAddressed, HashIsOfWholeFile
  <2> QED BY <2>1, <2>2, <2>3 DEF StoreInv
<1>10. Alone'
  BY <1>2 DEF IndInv, Alone
<1>11. ASSUME NEW q \in Proc PROVE Knows(q, proc[q])'
  <2>1. CASE q = w
    <3>1. Knows(q, proc[q])
      BY DEF IndInv
    <3>2. Working(q, proc[q])' /\ Locked(q, proc[q])' /\ Creates(proc[q])'
      BY <1>2, <3>1 DEF Knows, Working, Locked, Creates
    <3>3. Appends(proc[q])' /\ Finishes(proc[q])'
      BY <1>1, <1>2, <2>1 DEF Appends, Finishes, Creating, Finishing
    <3> QED BY <3>2, <3>3 DEF Knows
  <2>2. CASE q # w
    <3>1. PICK k : k = proc[q].id
      OBVIOUS
    <3>2. Knows(q, proc[q]) /\ proc'[q] = proc[q]
      BY <1>2 DEF IndInv
    <3>3. q \in Worker /\ proc[q].at # "idle" => Own(k)' \subseteq Own(k)
      BY <1>1, <1>5, <2>2, <3>1, <3>2 DEF IndInv, Alone, Knows, Working
    <3>4. proc[q].op = "POST" => /\ k \notin expired \union deleted
                                 /\ proc[q].at = "insert" => k \notin rows
      BY <3>1, <3>2 DEF Knows, Creates
    <3> QED BY <1>2, <3>1, <3>2, <3>3, <3>4, Undisturbed
  <2> QED BY <2>1, <2>2
<1> QED BY <1>8, <1>9, <1>10, <1>11 DEF IndInv

LEMMA GrowsView ==
  ASSUME ViewInv, NEW w, NEW id, NEW s, Extends(w, id, s), Grows(id, s)
  PROVE  ViewInv'
<1>1. UNCHANGED <<rows, info, sha256sum, client, proc>> /\ sha256sum[id] = None
  BY DEF Grows, Extends, table
<1>2. \A j \in Id \ {id} : Own(j)' = Own(j)
  BY GrownFile DEF Grown
<1> QED BY <1>1, <1>2, ViewStays

LEMMA GrowsLoss ==
  ASSUME IndInv, LossInv, NEW w, NEW id, NEW s, Extends(w, id, s), Grows(id, s)
  PROVE  LossInv'
<1>1. UNCHANGED <<sha256sum, deleted, info, client, proc>> /\ w \in Proc /\ proc[w].at = "respond"
  BY DEF Grows, Extends, table, Proc
<1>2. ClientSends'
  BY <1>1 DEF LossInv, ClientSends
<1>3. \A path : At(path) # {} => At(path)' # {}
  BY GrownFile DEF Grown
<1>4. proc'[w].at \in Careless
  BY <1>1 DEF Careless, Steps
<1>5. UNCHANGED <<sha256sum, deleted, info>>
  BY <1>1
<1>6. \A q \in Proc \ {w} : proc'[q] = proc[q]
  BY <1>1
<1> QED BY <1>1, <1>2, <1>3, <1>4, <1>5, <1>6, CarelessStep

\* The step of a POST's loop is nothing to the other requests.
LEMMA LoopStep ==
  ASSUME IndInv, ConcatInv, NEW w \in Worker, NEW id \in Id, id = proc[w].id,
         proc[w].at = "respond", proc[w].op = "POST",
         UNCHANGED <<proc, client, sha256sum, parts, answered>>,
         \A k \in Id \ {id} : Own(k)' = Own(k), Whole(id) => Whole(id)',
         NEW r \in Reader, reader' = [reader EXCEPT ![w] = r],
         parts[id] # <<>> /\ r.at # "failed" => Copies(r, id)'
  PROVE  ConcatInv'
<1>1. ConcatTypeOK' /\ reader'[w] = r /\ \A v \in Worker \ {w} : reader'[v] = reader[v]
  BY DEF ConcatInv, ConcatTypeOK
<1>2. \A k \in Id : Whole(k) => Whole(k)'
  BY DEF Whole
<1>3. ASSUME NEW k \in Id PROVE Final(k)'
  <2> SUFFICES ASSUME parts[k] # <<>> PROVE Final(k)'
    BY DEF Final
  <2>1. parts[k][1] \in Id /\ parts[k][2] \in Id /\ Final(k)
    BY PairOfParts DEF ConcatInv
  <2>2. PICK i \in Id, j \in Id : i = parts[k][1] /\ j = parts[k][2]
    BY <2>1
  <2>3. Whole(i)' /\ Whole(j)' /\ Made(i)' /\ Made(j)'
    BY <1>2, <2>1, <2>2 DEF Final, Made
  <2>4. Whole(parts[k][1])' /\ Whole(parts[k][2])' /\ Made(parts[k][1])' /\ Made(parts[k][2])'
    BY <2>2, <2>3 DEF Whole, Made, Own, At, IncompleteBinPath
  <2> QED BY <2>1, <2>4 DEF Final, Concatenation
<1>4. ASSUME NEW k \in answered' PROVE Told(k)'
  <2>1. k \in Id /\ Told(k)
    BY DEF ConcatInv, ConcatTypeOK
  <2> QED BY <1>2, <2>1 DEF Told, NoPost
<1>5. ASSUME NEW v \in Worker PROVE Reads(v)'
  <2>1. Reads(v) /\ v \in Proc /\ Knows(v, proc[v])
    BY DEF ConcatInv, IndInv, Proc
  <2>2. proc[v].at # "idle" => Untouched(proc[v])'
    BY <2>1 DEF Reads, Untouched
  <2>3. CASE v = w
    BY <1>1, <2>2, <2>3 DEF Reads, Copies, Own, At, IncompleteBinPath
  <2>4. CASE v # w
    <3>1. ASSUME proc[v].op = "POST", parts[proc[v].id] # <<>>, proc[v].at = "respond",
                 reader[v].at # "failed"
          PROVE  Copies(reader[v], proc[v].id)'
      <4>1. PICK k \in Id : k = proc[v].id
        BY <2>1, <3>1 DEF Knows, Working
      <4>2. k # id
        BY <2>4, <3>1, <4>1 DEF IndInv, Alone, Proc
      <4>3. Own(k)' = Own(k) /\ Copies(reader[v], k)
        BY <2>1, <3>1, <4>1, <4>2 DEF Reads
      <4>4. PICK q : q = reader[v]
        OBVIOUS
      <4>5. Copies(q, k)'
        BY <4>3, <4>4
           DEF Copies, Upto, Concatenation, NamesPart, IncompleteBinPath, CompleteBinPath
      <4>6. reader'[v] = q /\ proc'[v].id = k
        BY <1>1, <2>4, <4>1, <4>4
      <4> QED BY <4>5, <4>6 DEF Copies, Own, At, IncompleteBinPath
    <3> QED BY <1>1, <2>1, <2>2, <2>4, <3>1 DEF Reads
  <2> QED BY <2>3, <2>4
<1> QED BY <1>1, <1>3, <1>4, <1>5 DEF ConcatInv

\* What the loop knows at the part it has come to.
LEMMA InTheLoop ==
  ASSUME IndInv, ConcatInv, NEW w \in Worker, NEW step, InLoop(w, step), NEW id, id = proc[w].id
  PROVE  /\ id \in Id /\ parts[id] # <<>> /\ proc[w].at = "respond" /\ proc[w].op = "POST"
         /\ reader[w] \in Reader /\ reader[w].at = step /\ reader[w].next \in {1, 2}
         /\ Copies(reader[w], id)
         /\ parts[id][reader[w].next] \in Id /\ Whole(parts[id][reader[w].next])
         /\ client[parts[id][reader[w].next]] \in Bytes
         /\ Posted(w) = parts[id]
<1>1. /\ proc[w].at = "respond" /\ proc[w].op = "POST" /\ reader[w].at = step
      /\ reader[w].at # "failed" /\ reader[w].next <= Len(parts[id]) /\ Posted(w) = parts[id]
  BY DEF InLoop, Concatenating, Posted
<1>2. id \in Id /\ Reads(w) /\ reader[w] \in Reader
  BY <1>1 DEF IndInv, Knows, Working, Proc, ConcatInv, ConcatTypeOK
<1>3. parts[id] # <<>> /\ reader[w].next \in 1 .. 3
  <2>1. reader[w].next \in 1 .. 3
    BY <1>2 DEF Reader
  <2>2. parts[id] = <<>> => Len(parts[id]) = 0
    OBVIOUS
  <2> QED BY <1>1, <2>1, <2>2
<1>4. Copies(reader[w], id)
  BY <1>1, <1>2, <1>3 DEF Reads
<1>5. reader[w].next \in {1, 2}
  <2>1. Len(parts[id]) = 2
    BY <1>2, <1>3, PairOfParts
  <2> QED BY <1>1, <1>3, <2>1
<1>6. \A n \in {1, 2} : /\ parts[id][n] \in Id /\ Whole(parts[id][n])
                        /\ client[parts[id][n]] \in Bytes
  <2>1. /\ parts[id][1] \in Id /\ parts[id][2] \in Id /\ Final(id)
        /\ client[parts[id][1]] \in Bytes /\ client[parts[id][2]] \in Bytes
    BY <1>2, <1>3, PairOfParts, WholeOfParts DEF ConcatInv
  <2> QED BY <1>3, <2>1 DEF Final
<1> QED BY <1>1, <1>2, <1>3, <1>4, <1>5, <1>6

LEMMA LookupPartConcat ==
  ASSUME IndInv, ConcatInv, NEW w \in Worker, LookupPart(w)
  PROVE  ConcatInv'
<1>1. PICK id : id = proc[w].id
  OBVIOUS
<1>2. /\ id \in Id /\ parts[id] # <<>> /\ proc[w].at = "respond" /\ proc[w].op = "POST"
      /\ reader[w] \in Reader /\ reader[w].at = "lookup" /\ reader[w].next \in {1, 2}
      /\ Copies(reader[w], id) /\ parts[id][reader[w].next] \in Id /\ Posted(w) = parts[id]
  BY <1>1, InTheLoop DEF LookupPart
<1>3. PICK part \in Id : part = parts[id][reader[w].next]
  BY <1>2
<1> DEFINE r == [reader[w] EXCEPT !.at = "open", !.path = BinPath(part)]
<1>4. BinPath(part) \in Path /\ NamesPart(BinPath(part), part)
  BY DEF BinPath, NamesPart, Path, IncompleteBinPath, CompleteBinPath, IndInv, TypeOK
<1>5. PICK q \in Reader : q = r /\ q.at = "open" /\ q.path = BinPath(part) /\ q.next = reader[w].next
  <2>1. r \in Reader
    BY <1>2, <1>4 DEF Reader
  <2>2. r.at = "open" /\ r.path = BinPath(part) /\ r.next = reader[w].next
    BY <1>2 DEF Reader
  <2> HIDE DEF r
  <2> QED BY <2>1, <2>2
<1>6. UNCHANGED <<vars, parts, answered>> /\ reader' = [reader EXCEPT ![w] = q]
  BY <1>2, <1>3, <1>5 DEF LookupPart, ConcatInv, ConcatTypeOK
<1>7. UNCHANGED <<proc, client, sha256sum, bins, parts, answered>>
  BY <1>6 DEF vars
<1>8. \A k \in Id : Own(k)' = Own(k)
  BY <1>7 DEF Own, At, IncompleteBinPath
<1>9. Copies(q, id)
  <2>1. NamesPart(q.path, parts[id][q.next])
    BY <1>3, <1>4, <1>5
  <2>2. q.next # 3 /\ q.next \in 1 .. 3
    BY <1>2, <1>5
  <2>3. \A b \in Own(id) : b.bytes = Upto(parts[id], q.next)
    BY <1>2, <1>5 DEF Copies
  <2> HIDE DEF r
  <2> QED BY <1>5, <2>1, <2>2, <2>3 DEF Copies
<1>10. Copies(q, id)'
  BY <1>7, <1>8, <1>9, <1>2
     DEF Copies, Upto, Concatenation, NamesPart, IncompleteBinPath, CompleteBinPath
<1>11. Whole(id) => Whole(id)'
  BY <1>2, <1>7, <1>8 DEF Whole
<1> HIDE DEF r
<1> QED BY <1>1, <1>2, <1>6, <1>7, <1>8, <1>10, <1>11, LoopStep

\* Whatever file binPath named for the part, it holds all of it.
LEMMA PartIsRead ==
  ASSUME IndInv, NEW part \in Id, Whole(part), NEW path, NamesPart(path, part),
         NEW b \in At(path)
  PROVE  b.bytes = client[part]
<1>1. CASE path = IncompleteBinPath(part)
  BY <1>1 DEF Whole, Own
<1>2. CASE sha256sum[part] # None /\ path = CompleteBinPath(sha256sum[part])
  BY <1>2 DEF IndInv, StoreInv, BlobsAreContentAddressed, HashIsOfWholeFile, At,
              CompleteBinPath
<1> QED BY <1>1, <1>2 DEF NamesPart

LEMMA OpenPartConcat ==
  ASSUME IndInv, ConcatInv, NEW w \in Worker, OpenPart(w)
  PROVE  ConcatInv'
<1>1. PICK id : id = proc[w].id
  OBVIOUS
<1>2. /\ id \in Id /\ parts[id] # <<>> /\ proc[w].at = "respond" /\ proc[w].op = "POST"
      /\ reader[w] \in Reader /\ reader[w].at = "open" /\ reader[w].next \in {1, 2}
      /\ Copies(reader[w], id) /\ parts[id][reader[w].next] \in Id
      /\ Whole(parts[id][reader[w].next]) /\ client[parts[id][reader[w].next]] \in Bytes
  BY <1>1, InTheLoop DEF OpenPart
<1>3. PICK part \in Id : part = parts[id][reader[w].next]
  BY <1>2
<1>4. UNCHANGED <<vars, parts, answered>>
  BY DEF OpenPart
<1>5. UNCHANGED <<proc, client, sha256sum, bins, parts, answered>>
  BY <1>4 DEF vars
<1>6. \A k \in Id : Own(k)' = Own(k)
  BY <1>5 DEF Own, At, IncompleteBinPath
<1>7. Whole(id) => Whole(id)'
  BY <1>2, <1>5, <1>6 DEF Whole
<1>8. CASE reader' = [reader EXCEPT ![w].at = "failed"]
  <2> DEFINE r == [reader[w] EXCEPT !.at = "failed"]
  <2>1. r \in Reader /\ r.at = "failed"
    BY <1>2 DEF Reader
  <2>2. reader' = [reader EXCEPT ![w] = r]
    BY <1>8 DEF ConcatInv, ConcatTypeOK
  <2> HIDE DEF r
  <2>3. PICK q \in Reader : q = r
    BY <2>1
  <2> QED BY <1>1, <1>2, <1>5, <1>6, <1>7, <2>1, <2>2, <2>3, LoopStep
<1>9. ASSUME NEW b \in At(reader[w].path),
             reader' = [reader EXCEPT ![w].at = "copy", ![w].src = b.bytes]
      PROVE  ConcatInv'
  <2>1. b.bytes = client[part]
    BY <1>2, <1>3, PartIsRead DEF Copies
  <2> DEFINE opened == [reader[w] EXCEPT !.at = "copy", !.src = b.bytes]
  <2>2. /\ opened \in Reader /\ opened.at = "copy" /\ opened.src = b.bytes
        /\ opened.next = reader[w].next
    <3>1. b.bytes \in Bytes
      BY <1>2, <1>3, <2>1
    <3> QED BY <1>2, <3>1 DEF Reader
  <2>3. reader' = [reader EXCEPT ![w] = opened]
    BY <1>9 DEF ConcatInv, ConcatTypeOK
  <2> HIDE DEF opened
  <2>4. PICK q \in Reader : q = opened
    BY <2>2
  <2>5. Copies(q, id)
    <3>1. q.src = client[parts[id][q.next]]
      BY <1>3, <2>1, <2>2, <2>4
    <3>2. q.next # 3 /\ q.next \in 1 .. 3
      BY <1>2, <2>2, <2>4
    <3>3. \A c \in Own(id) : c.bytes = Upto(parts[id], q.next)
      BY <1>2, <2>2, <2>4 DEF Copies
    <3> QED BY <2>2, <2>4, <3>1, <3>2, <3>3 DEF Copies
  <2>6. Copies(q, id)'
    BY <1>2, <1>5, <1>6, <2>5
       DEF Copies, Upto, Concatenation, NamesPart, IncompleteBinPath, CompleteBinPath
  <2> QED BY <1>1, <1>2, <1>5, <1>6, <1>7, <2>3, <2>4, <2>6, LoopStep
<1> QED BY <1>8, <1>9 DEF OpenPart

LEMMA CopySource ==
  ASSUME IndInv, ConcatInv, NEW w \in Worker, InLoop(w, "copy")
  PROVE  reader[w].src \in Bytes
<1>1. PICK id : id = proc[w].id
  OBVIOUS
<1>2. Copies(reader[w], id) /\ client[parts[id][reader[w].next]] \in Bytes /\ reader[w].at = "copy"
  BY <1>1, InTheLoop
<1> QED BY <1>2 DEF Copies

\* What the loop appends, a part or some of it, is what comes next in the file.
LEMMA CopyExtends ==
  ASSUME IndInv, ConcatInv, NEW w \in Worker, InLoop(w, "copy"),
         NEW id, id = proc[w].id, NEW n \in 0 .. Len(reader[w].src)
  PROVE  Extends(w, id, SubSeq(reader[w].src, 1, n))
<1>1. /\ id \in Id /\ parts[id] # <<>> /\ proc[w].at = "respond" /\ proc[w].op = "POST"
      /\ reader[w] \in Reader /\ reader[w].at = "copy" /\ reader[w].next \in {1, 2}
      /\ Copies(reader[w], id)
  BY InTheLoop
<1>2. PICK s \in Bytes, t \in Bytes : s = client[parts[id][1]] /\ t = client[parts[id][2]]
  BY <1>1, WholeOfParts
<1>3. client[id] = s \o t /\ client[id] # None /\ sha256sum[id] = None
  BY <1>1, <1>2, WholeOfParts
<1>4. CASE reader[w].next = 1
  <2>1. reader[w].src = s /\ \A b \in Own(id) : b.bytes = <<>>
    BY <1>1, <1>2, <1>4 DEF Copies, Upto
  <2>2. n \in 0 .. Len(s)
    BY <2>1
  <2>3. <<>> \o SubSeq(s, 1, n) \in Bytes /\ IsPrefix(<<>> \o SubSeq(s, 1, n), s \o t)
    BY <2>2, PieceOfFirst
  <2>4. SubSeq(s, 1, n) \in Bytes
    BY <2>2, PartOf
  <2> QED BY <1>1, <1>3, <2>1, <2>3, <2>4 DEF Extends
<1>5. CASE reader[w].next = 2
  <2>1. reader[w].src = t /\ \A b \in Own(id) : b.bytes = s
    BY <1>1, <1>2, <1>5 DEF Copies, Upto
  <2>2. n \in 0 .. Len(t)
    BY <2>1
  <2>3. s \o SubSeq(t, 1, n) \in Bytes /\ IsPrefix(s \o SubSeq(t, 1, n), s \o t)
    BY <2>2, PieceOfSecond
  <2>4. SubSeq(t, 1, n) \in Bytes
    BY <2>2, PartOf
  <2> QED BY <1>1, <1>3, <2>1, <2>3, <2>4 DEF Extends
<1> QED BY <1>1, <1>4, <1>5

LEMMA CopiesAll ==
  ASSUME IndInv, ConcatInv, NEW w \in Worker, CopyPart(w), NEW id, id = proc[w].id,
         NEW s, s = reader[w].src
  PROVE  s \in Bytes /\ Extends(w, id, s) /\ Grows(id, s)
<1>1. InLoop(w, "copy") /\ Grows(id, s)
  BY DEF CopyPart, Grows
<1>2. s \in Bytes
  BY <1>1, CopySource
<1>3. Len(s) \in 0 .. Len(s) /\ SubSeq(s, 1, Len(s)) = s
  BY <1>2, SubSeqFull, LenProperties DEF Bytes
<1>4. Extends(w, id, SubSeq(s, 1, Len(s)))
  BY <1>1, <1>3, CopyExtends
<1> QED BY <1>1, <1>2, <1>3, <1>4

LEMMA CopiesSome ==
  ASSUME IndInv, ConcatInv, NEW w \in Worker, CopyPartFails(w), NEW id, id = proc[w].id
  PROVE  \E s : s \in Bytes /\ Extends(w, id, s) /\ Grows(id, s)
<1>1. InLoop(w, "copy")
  BY DEF CopyPartFails
<1>2. PICK n \in 0 .. Len(reader[w].src) - 1 :
        bins' = Appended(IncompleteBinPath(id), SubSeq(reader[w].src, 1, n))
  BY DEF CopyPartFails
<1>3. Grows(id, SubSeq(reader[w].src, 1, n))
  BY <1>2 DEF CopyPartFails, Grows
<1>4. n \in 0 .. Len(reader[w].src)
  BY <1>1, <1>2, CopySource, LenProperties DEF Bytes
<1>5. Extends(w, id, SubSeq(reader[w].src, 1, n))
  BY <1>1, <1>4, CopyExtends
<1> QED BY <1>3, <1>5 DEF Extends

\* An upload that is whole stays whole.
LEMMA GrowsWhole ==
  ASSUME IndInv, NEW w, NEW id, NEW s, Extends(w, id, s), Grows(id, s), Whole(id)
  PROVE  Whole(id)'
<1>1. Grown(id, s) /\ client' = client /\ id \in Id /\ s \in Bytes
  BY GrownFile DEF Grows, Extends
<1>2. ASSUME NEW c \in Own(id)' PROVE c.bytes = client[id]
  <2>1. PICK b \in Own(id) : c.bytes = b.bytes \o s
    BY <1>1 DEF Grown
  <2>2. PICK u \in Bytes : u = b.bytes /\ u = client[id] /\ IsPrefix(u \o s, u)
    BY DEF Whole, Extends, Own, At, IndInv, TypeOK
  <2> QED BY <1>1, <2>1, <2>2, WholeIsFull
<1> QED BY <1>1, <1>2 DEF Whole

LEMMA CopyPartConcat ==
  ASSUME IndInv, ConcatInv, NEW w \in Worker, CopyPart(w)
  PROVE  ConcatInv'
<1>1. PICK id : id = proc[w].id
  OBVIOUS
<1>2. /\ id \in Id /\ parts[id] # <<>> /\ proc[w].at = "respond" /\ proc[w].op = "POST"
      /\ reader[w] \in Reader /\ reader[w].at = "copy" /\ reader[w].next \in {1, 2}
      /\ Copies(reader[w], id)
  BY <1>1, InTheLoop DEF CopyPart
<1>3. PICK s : s = reader[w].src
  OBVIOUS
<1>4. s \in Bytes /\ Extends(w, id, s) /\ Grows(id, s)
  BY <1>1, <1>3, CopiesAll DEF CopyPart, Grows
<1>5. UNCHANGED <<proc, client, sha256sum, parts, answered>>
  BY DEF CopyPart, table
<1>6. Grown(id, s)
  BY <1>4, GrownFile
<1>7. Whole(id) => Whole(id)'
  BY <1>4, GrowsWhole
<1>8. \A k \in Id \ {id} : Own(k)' = Own(k)
  BY <1>6 DEF Grown
<1> DEFINE r == NextPart(w)
<1>9. r \in Reader /\ r.at = "lookup" /\ r.next = reader[w].next + 1
  BY <1>2 DEF NextPart, FirstPart, Reader
<1>10. reader' = [reader EXCEPT ![w] = r]
  BY DEF CopyPart
<1> HIDE DEF r
<1>11. PICK q \in Reader : q = r
  BY <1>9
<1>12. PICK i \in Bytes, j \in Bytes : i = client[parts[id][1]] /\ j = client[parts[id][2]]
  BY <1>2, WholeOfParts
<1>13. \A b \in Own(id)' : b.bytes = Upto(parts[id], q.next)'
  <2>1. CASE reader[w].next = 1
    <3>1. s = i /\ \A b \in Own(id) : b.bytes = <<>>
      BY <1>2, <1>3, <1>12, <2>1 DEF Copies, Upto
    <3>2. <<>> \o i = i
      BY ConcatEmptySeq DEF Bytes
    <3>3. \A b \in Own(id)' : b.bytes = i
      BY <1>6, <3>1, <3>2 DEF Grown
    <3>4. Upto(parts[id], q.next)' = i
      BY <1>5, <1>9, <1>11, <1>12, <2>1 DEF Upto
    <3> QED BY <3>3, <3>4
  <2>2. CASE reader[w].next = 2
    <3>1. s = j /\ \A b \in Own(id) : b.bytes = i
      BY <1>2, <1>3, <1>12, <2>2 DEF Copies, Upto
    <3>2. \A b \in Own(id)' : b.bytes = i \o j
      BY <1>6, <3>1 DEF Grown
    <3>3. q.next = 3
      BY <1>9, <1>11, <2>2
    <3>4. client'[parts'[id][1]] = i /\ client'[parts'[id][2]] = j
      BY <1>5, <1>12
    <3>5. Upto(parts[id], q.next)' = i \o j
      BY <3>3, <3>4 DEF Upto, Concatenation
    <3> QED BY <3>2, <3>5
  <2> QED BY <1>2, <2>1, <2>2
<1>14. Copies(q, id)'
  <2>1. q.at = "lookup" /\ q.next \in 1 .. 3
    BY <1>2, <1>9, <1>11
  <2> QED BY <1>13, <2>1 DEF Copies
<1> QED BY <1>1, <1>2, <1>5, <1>7, <1>8, <1>10, <1>11, <1>14, LoopStep

LEMMA CopyPartFailsConcat ==
  ASSUME IndInv, ConcatInv, NEW w \in Worker, CopyPartFails(w)
  PROVE  ConcatInv'
<1>1. PICK id : id = proc[w].id
  OBVIOUS
<1>2. /\ id \in Id /\ proc[w].at = "respond" /\ proc[w].op = "POST" /\ reader[w] \in Reader
  BY <1>1, InTheLoop DEF CopyPartFails
<1>3. PICK s : s \in Bytes /\ Extends(w, id, s) /\ Grows(id, s)
  BY <1>1, CopiesSome
<1>4. UNCHANGED <<proc, client, sha256sum, parts, answered>>
  BY DEF CopyPartFails, table
<1>5. Grown(id, s)
  BY <1>3, GrownFile
<1>6. Whole(id) => Whole(id)'
  BY <1>3, GrowsWhole
<1>7. \A k \in Id \ {id} : Own(k)' = Own(k)
  BY <1>5 DEF Grown
<1> DEFINE r == [reader[w] EXCEPT !.at = "failed"]
<1>8. r \in Reader /\ r.at = "failed"
  BY <1>2 DEF Reader
<1>9. reader' = [reader EXCEPT ![w] = r]
  BY DEF CopyPartFails, ConcatInv, ConcatTypeOK
<1> HIDE DEF r
<1>10. PICK q \in Reader : q = r
  BY <1>8
<1> QED BY <1>1, <1>2, <1>4, <1>6, <1>7, <1>8, <1>9, <1>10, LoopStep

(*****************************************************************************)
(* Every step is one of ShardedFileStore, or appends to a final upload       *)
(*****************************************************************************)
\* ConcatUploads has appended a part to a final upload, or some of it.
AppendsPart == \E w, id, s : Extends(w, id, s) /\ Grows(id, s)

LEMMA ConcatInvInit == ConcatInit => ConcatInv
<1> SUFFICES ASSUME ConcatInit PROVE ConcatInv
  OBVIOUS
<1>1. ConcatTypeOK
  BY DEF ConcatInit, ConcatTypeOK, FirstPart, Reader
<1>2. \A w \in Worker : proc[w] = Idle /\ reader[w] = FirstPart
  BY DEF ConcatInit, Init, Proc
<1>3. \A id \in Id : parts[id] = <<>>
  BY DEF ConcatInit
<1> QED BY <1>1, <1>2, <1>3 DEF ConcatInv, ConcatInit, Final, Reads, Idle

LEMMA ConcatSteps ==
  ASSUME IndInv, ConcatInv, [ConcatNext]_concatVars
  PROVE  [Next]_vars \/ AppendsPart
<1>1. CASE StoreStep \/ UNCHANGED concatVars
  BY <1>1 DEF StoreStep, concatVars
<1>2. ASSUME NEW w \in Concatenators, NewFinal(w) PROVE [Next]_vars
  BY <1>2, ConcatAssumption, NewFinalIsNext
<1>3. ASSUME NEW w \in Concatenators, Concat(w) PROVE [Next]_vars \/ AppendsPart
  <2>1. w \in Worker
    BY ConcatAssumption
  <2>2. CASE LookupPart(w) \/ OpenPart(w)
    BY <2>2 DEF LookupPart, OpenPart
  <2>3. CASE CopyPart(w)
    BY <2>1, <2>3, CopiesAll DEF AppendsPart
  <2>4. CASE CopyPartFails(w)
    BY <2>1, <2>4, CopiesSome DEF AppendsPart
  <2> QED BY <1>3, <2>2, <2>3, <2>4 DEF Concat
<1> QED BY <1>1, <1>2, <1>3 DEF ConcatNext

LEMMA ConcatInvNext ==
  ASSUME IndInv, ViewInv, ConcatInv, [ConcatNext]_concatVars
  PROVE  ConcatInv'
<1>1. CASE UNCHANGED concatVars
  <2>1. UNCHANGED <<proc, client, sha256sum, bins, parts, reader, answered>>
    BY <1>1 DEF concatVars, vars, table, disk
  <2>2. \A id : Own(id)' = Own(id) /\ Whole(id)' = Whole(id) /\ Made(id)' = Made(id)
    BY <2>1 DEF Own, At, IncompleteBinPath, Whole, Made
  <2>3. ASSUME NEW id \in Id PROVE Final(id)'
    <3>1. Final(id)
      BY DEF ConcatInv
    <3>2. parts'[id] = parts[id] /\ Concatenation(parts[id])' = Concatenation(parts[id])
      BY <2>1 DEF Concatenation
    <3> QED BY <2>1, <2>2, <3>1, <3>2 DEF Final, Whole, Made, Own, At, IncompleteBinPath
  <2>4. ASSUME NEW w \in Worker PROVE Reads(w)'
    <3>1. PICK id : id = proc[w].id
      OBVIOUS
    <3>2. Copies(reader[w], id) => Copies(reader[w], id)'
      BY <2>1, <2>2 DEF Copies, Upto, Concatenation, NamesPart, IncompleteBinPath,
                        CompleteBinPath
    <3>3. Copies(reader[w], proc[w].id) => Copies(reader[w], proc[w].id)'
      BY <2>1, <3>1, <3>2 DEF Copies, Own, At, IncompleteBinPath
    <3>4. Reads(w)
      BY DEF ConcatInv
    <3> QED BY <2>1, <3>3, <3>4 DEF Reads, Untouched
  <2>5. ASSUME NEW id \in answered' PROVE Told(id)'
    BY <2>1, <2>2, <2>5 DEF ConcatInv, Told, NoPost
  <2> QED BY <2>1, <2>3, <2>4, <2>5 DEF ConcatInv, ConcatTypeOK
<1>2. CASE StoreStep
  BY <1>2, StoreStepConcat
<1>3. ASSUME NEW w \in Concatenators, NewFinal(w) \/ Concat(w) PROVE ConcatInv'
  <2>1. w \in Worker
    BY ConcatAssumption
  <2> QED BY <1>3, <2>1, NewFinalConcat, LookupPartConcat, OpenPartConcat, CopyPartConcat,
             CopyPartFailsConcat DEF Concat
<1> QED BY <1>1, <1>2, <1>3 DEF ConcatNext

LEMMA ConcatPreserves ==
  ASSUME IndInv, ViewInv, ConcatInv, [ConcatNext]_concatVars
  PROVE  IndInv' /\ ViewInv' /\ ConcatInv'
<1>1. CASE [Next]_vars
  BY <1>1, IndInvNext, ViewInvNext, ConcatInvNext
<1>2. CASE AppendsPart
  BY <1>2, GrowsInvariant, GrowsView, ConcatInvNext DEF AppendsPart
<1> QED BY <1>1, <1>2, ConcatSteps

\* The inductive invariant: what is left of a part is the whole part, and what
\* ConcatUploads has copied is always the parts before the next one.
THEOREM ConcatInvariant == ConcatSpec => [](IndInv /\ ViewInv /\ ConcatInv)
<1>1. ConcatInit => IndInv /\ ViewInv /\ ConcatInv
  BY IndInvInit, ViewInvInit, ConcatInvInit DEF ConcatInit
<1>2. IndInv /\ ViewInv /\ ConcatInv /\ [ConcatNext]_concatVars
        => IndInv' /\ ViewInv' /\ ConcatInv'
  BY ConcatPreserves
<1> QED BY <1>1, <1>2, PTL DEF ConcatSpec

LEMMA ConcatLoss == ASSUME UnlinkWorks PROVE ConcatSpec => []LossInv
<1>1. ConcatInit => LossInv
  BY LossInvInit DEF ConcatInit
<1>2. ASSUME IndInv, ConcatInv, LossInv, [ConcatNext]_concatVars PROVE LossInv'
  <2>1. CASE [Next]_vars
    BY <1>2, <2>1, LossInvNext
  <2>2. CASE AppendsPart
    BY <1>2, <2>2, GrowsLoss DEF AppendsPart
  <2> QED BY <1>2, <2>1, <2>2, ConcatSteps
<1>3. IndInv /\ ConcatInv /\ LossInv /\ [ConcatNext]_concatVars => LossInv'
  BY <1>2
<1> QED BY <1>1, <1>3, ConcatInvariant, PTL DEF ConcatSpec

\* A final upload whose client was told 201 holds the whole of all its parts in
\* their order as long as it can be fetched, whatever fails but os.Remove and
\* whatever becomes of the parts while ConcatUploads copies them.
THEOREM FinalUploadsAreWhole == ASSUME UnlinkWorks PROVE ConcatSpec => []ConcatIsWhole
<1>1. IndInv /\ LossInv /\ ConcatInv => ConcatIsWhole
  <2> SUFFICES ASSUME IndInv, LossInv, ConcatInv, NEW id \in answered \intersect info
               PROVE  \E b \in At(BinPath(id)) : b.bytes = Concatenation(parts[id])
    BY DEF ConcatIsWhole
  <2>1. id \in Id /\ parts[id] # <<>> /\ Whole(id)
    BY DEF ConcatInv, ConcatTypeOK, Told
  <2>2. sha256sum[id] = None /\ client[id] = Concatenation(parts[id])
    BY <2>1, WholeOfParts DEF Concatenation
  <2>3. BinPath(id) = IncompleteBinPath(id)
    BY <2>2 DEF BinPath
  <2>4. At(BinPath(id)) # {} /\ \A b \in At(BinPath(id)) : b.bytes = client[id]
    BY <2>1, <2>2, <2>3 DEF LossInv, UnfinishedHasBin, BinPath, Whole, Own
  <2> QED BY <2>2, <2>4
<1> QED BY <1>1, ConcatInvariant, ConcatLoss, PTL

(*****************************************************************************)
(* What a store keeps that concatenates uploads while others share a .bin    *)
(*****************************************************************************)
LEMMA AppendingKeeps ==
  ASSUME IndInv, AppendsPart
  PROVE  /\ ShareInv => ShareInv'
         /\ Stored => Stored'
         /\ Pending => Pending'
         /\ OrphanInv => OrphanInv'
<1>1. PICK w, id, s : Extends(w, id, s) /\ Grows(id, s)
  BY DEF AppendsPart
<1>2. Grown(id, s)
  BY <1>1, GrownFile
<1>3. UNCHANGED <<rows, sha256sum, deleted, info, proc, client>>
  BY <1>1 DEF Grows, table
<1>4. \A path : At(path)' # {} <=> At(path) # {}
  <2> SUFFICES ASSUME NEW path, At(path)' # {} PROVE At(path) # {}
    BY <1>2 DEF Grown
  <2>1. PICK c \in bins' : c.path = path
    BY DEF At
  <2>2. \E b \in bins : b.path = path
    BY <1>2, <2>1 DEF Grown, Own, At
  <2> QED BY <2>2 DEF At
<1>5. \A j : BinPath(j)' = BinPath(j) /\ Duplicates(j)' = Duplicates(j)
  BY <1>3 DEF BinPath, IncompleteBinPath, CompleteBinPath, Duplicates
<1>6. \A path : ToRename(path)' <=> ToRename(path)
  BY <1>3 DEF ToRename, IncompleteBinPath
<1>7. ShareInv => ShareInv'
  BY <1>3, <1>5 DEF ShareInv, Counted, LooksAt, IncompleteBinPath, CompleteBinPath
<1>8. Stored => Stored'
  <2> SUFFICES ASSUME Stored, NEW i \in info
               PROVE  \/ At(IncompleteBinPath(i))' # {}
                      \/ sha256sum[i] # None /\ At(CompleteBinPath(sha256sum[i]))' # {}
    BY <1>3 DEF Stored, Own, IncompleteBinPath, CompleteBinPath, At
  <2>1. PICK own, blob : own = IncompleteBinPath(i) /\ blob = CompleteBinPath(sha256sum[i])
    OBVIOUS
  <2>2. At(own)' # {} \/ (sha256sum[i] # None /\ At(blob)' # {})
    BY <1>4, <2>1 DEF Stored, Own
  <2> QED BY <1>3, <2>1, <2>2 DEF At, IncompleteBinPath, CompleteBinPath
<1>9. Pending => Pending'
  <2> SUFFICES ASSUME Pending, NEW i \in Id, sha256sum[i] # None, Own(i)' # {}
               PROVE  ToRename(IncompleteBinPath(i))'
    BY <1>3 DEF Pending
  <2>1. PICK own : own = IncompleteBinPath(i)
    OBVIOUS
  <2>2. At(own)' # {}
    BY <2>1 DEF Own, At, IncompleteBinPath
  <2>3. ToRename(own)
    BY <1>4, <2>1, <2>2 DEF Pending, Own
  <2>4. ToRename(own)'
    BY <1>6, <2>3
  <2> QED BY <2>1, <2>4 DEF ToRename, IncompleteBinPath
<1>10. OrphanInv => OrphanInv'
  <2> SUFFICES ASSUME OrphanInv PROVE OrphanInv'
    OBVIOUS
  <2>1. \A path : Held(path) => Held(path)'
    BY <1>3, <1>5, <1>6 DEF Held
  <2>2. \A path : At(path)' # {} => Held(path)'
    BY <1>4, <2>1 DEF OrphanInv
  <2>3. ASSUME NEW p \in Proc PROVE Ending(proc[p])'
    <3>1. PICK i : i = proc[p].id
      OBVIOUS
    <3>2. PICK path : path = BinPath(i)
      OBVIOUS
    <3>3. BinPath(i)' = path /\ Duplicates(i)' = Duplicates(i)
      BY <1>5, <3>2
    <3>4. At(path) = {} => At(BinPath(i))' = {}
      BY <1>4, <3>3 DEF At
    <3>5. Ending(proc[p])
      BY DEF OrphanInv
    <3>6. At(BinPath(proc[p].id)) = {} => At(BinPath(proc[p].id))' = {}
      BY <1>3, <3>1, <3>2, <3>4 DEF At, BinPath, IncompleteBinPath, CompleteBinPath
    <3>7. BinPath(proc[p].id)' = BinPath(proc[p].id) /\ Duplicates(proc[p].id)' = Duplicates(proc[p].id)
      BY <1>3, <3>1, <3>2, <3>3 DEF BinPath, Duplicates, IncompleteBinPath, CompleteBinPath
    <3> QED BY <1>3, <3>5, <3>6, <3>7 DEF Ending
  <2> QED BY <2>2, <2>3 DEF OrphanInv
<1> QED BY <1>7, <1>8, <1>9, <1>10

\* The requests that do not concatenate, and the expirers, take turns.
OthersInTurn ==
  \A p, q \in Proc \ Concatenators :
    proc[p].at # "idle" /\ proc[q].at # "idle" => p = q

\* Workers that serve just the POSTs of final uploads.
PostsFinal == \A w \in Concatenators :
  proc[w].at # "idle" => proc[w].op = "POST" /\ parts[proc[w].id] # <<>>

LEMMA PostsFinalNext ==
  ASSUME IndInv, ConcatInv, PostsFinal, [ConcatNext]_concatVars
  PROVE  PostsFinal'
<1> SUFFICES ASSUME NEW w \in Concatenators, proc'[w].at # "idle"
             PROVE  proc'[w].op = "POST" /\ parts'[proc'[w].id] # <<>>
  BY DEF PostsFinal
<1>1. w \in Worker /\ w \in Proc /\ proc[w] \in Locals /\ proc \in [Proc -> Locals]
  BY ConcatAssumption DEF Proc, IndInv, TypeOK
<1>2. CASE StoreStep
  <2>1. proc[w].at = "idle" => proc'[w] = proc[w]
    BY <1>1, <1>2 DEF StoreStep, MayServe
  <2>2. proc[w].op = "POST" /\ parts[proc[w].id] # <<>>
    BY <2>1 DEF PostsFinal
  <2>3. CASE proc'[w] = proc[w]
    BY <1>2, <2>2, <2>3 DEF StoreStep
  <2>4. CASE proc'[w] # proc[w]
    <3>1. GoesAhead(w)
      BY <1>1, <1>2, <2>1, <2>4, WorkerMoves DEF StoreStep, Begins, Locks
    <3> QED BY <1>2, <2>2, <3>1 DEF GoesAhead, StoreStep
  <2> QED BY <2>3, <2>4
<1>3. ASSUME NEW v \in Concatenators, NewFinal(v)
      PROVE  proc'[w].op = "POST" /\ parts'[proc'[w].id] # <<>>
  <2>1. v \in Proc
    BY ConcatAssumption DEF Proc
  <2>2. PICK id \in Id, ids \in Id \X Id :
          /\ client[id] = None
          /\ parts' = [parts EXCEPT ![id] = ids]
          /\ proc' = [proc EXCEPT ![v].at = "insert", ![v].op = "POST", ![v].id = id]
    BY <1>3 DEF NewFinal
  <2>3. parts'[id] = ids /\ ids # <<>> /\ \A k \in Id \ {id} : parts'[k] = parts[k]
    BY <2>2 DEF ConcatInv, ConcatTypeOK
  <2>4. CASE w = v
    BY <1>1, <2>2, <2>3, <2>4 DEF Locals
  <2>5. CASE w # v
    <3>1. proc'[w] = proc[w]
      BY <1>1, <2>1, <2>2, <2>5
    <3>2. proc[w].op = "POST" /\ parts[proc[w].id] # <<>> /\ proc[w].id \in Id
      BY <1>1, <3>1 DEF PostsFinal, IndInv, Knows, Working
    <3> QED BY <2>3, <3>1, <3>2
  <2> QED BY <2>4, <2>5
<1>4. ASSUME NEW v \in Concatenators, Concat(v) PROVE UNCHANGED <<proc, parts>>
  BY <1>4 DEF Concat, LookupPart, OpenPart, CopyPart, CopyPartFails, vars
<1>5. CASE UNCHANGED <<proc, parts>>
  BY <1>5 DEF PostsFinal
<1>6. UNCHANGED concatVars => UNCHANGED <<proc, parts>>
  BY DEF concatVars, vars
<1> QED BY <1>2, <1>3, <1>4, <1>5, <1>6 DEF ConcatNext

LEMMA FinalsDoNotRace ==
  ASSUME IndInv, ConcatInv, PostsFinal, OthersInTurn
  PROVE  NoRace /\ EndsApart
<1>1. ASSUME NEW w \in Concatenators
      PROVE  proc[w].at \notin Finishing \union Removing \union Ends
  <2>1. CASE proc[w].at = "idle"
    BY <2>1 DEF Finishing, Removing, Ends
  <2>2. CASE proc[w].at # "idle"
    <3>1. proc[w].at \in Creating \union {"respond"}
      BY <2>2, ConcatAssumption, FinalIsNotTouched DEF PostsFinal
    <3> QED BY <3>1 DEF Creating, Finishing, Removing, Ends
  <2> QED BY <2>1, <2>2
<1>2. NoRace
  BY <1>1 DEF NoRace, OthersInTurn, Finishing, Removing, Proc
<1>3. EndsApart
  BY <1>1 DEF EndsApart, OthersInTurn, Finishing, Ends, Removing
<1> QED BY <1>2, <1>3

LEMMA ConcatShares == ConcatSpec /\ []NoRace => []ShareInv
<1>1. ConcatInit => ShareInv
  BY DEF ConcatInit, Init, Idle, ShareInv, Counted, LooksAt, Removing
<1>2. IndInv /\ ConcatInv /\ NoRace /\ ShareInv /\ [ConcatNext]_concatVars => ShareInv'
  BY ConcatSteps, ShareInvNext, AppendingKeeps
<1> QED BY <1>1, <1>2, ConcatInvariant, PTL DEF ConcatSpec

\* Terminate never removes the file of another upload that is not deleted while
\* final uploads are copied either, as long as counts of duplicates do not race.
THEOREM SharedPartIsKept == ConcatSpec /\ []NoRace => KeepsSharedBin
<1>1. IndInv /\ ShareInv =>
        \A p \in Proc : RemoveBin(p) =>
          \A id \in rows \ (deleted \union {proc[p].id}) : BinPath(id) # proc[p].path
  BY RemovesUnshared
<1> QED BY <1>1, ConcatInvariant, ConcatShares, PTL DEF KeepsSharedBin

LEMMA ConcatStores == ASSUME UnlinkWorks PROVE ConcatSpec /\ []NoRace => []Stored
<1>1. ConcatInit => Stored
  BY DEF ConcatInit, Init, Stored
<1>2. IndInv /\ LossInv /\ ViewInv /\ ConcatInv /\ ShareInv /\ Stored /\ [ConcatNext]_concatVars
        => Stored'
  BY ConcatSteps, StoredNext, AppendingKeeps DEF ViewInv
<1> QED BY <1>1, <1>2, ConcatInvariant, ConcatLoss, ConcatShares, PTL DEF ConcatSpec

\* Nor does any upload, final or not, lose its bytes.
THEOREM PartsAndFinalsAreKept ==
  ASSUME UnlinkWorks
  PROVE  ConcatSpec /\ []NoRace => []NoDataLoss
<1>1. Stored => NoDataLoss
  BY StoredIsNoLoss
<1> QED BY <1>1, ConcatStores, PTL

LEMMA TurnsDoNotRace == ConcatSpec /\ []OthersInTurn => [](NoRace /\ EndsApart)
<1>1. ConcatInit => PostsFinal
  BY ConcatAssumption DEF ConcatInit, Init, Idle, PostsFinal, Proc
<1>2. IndInv /\ ConcatInv /\ PostsFinal /\ [ConcatNext]_concatVars => PostsFinal'
  BY PostsFinalNext
<1>3. IndInv /\ ConcatInv /\ PostsFinal /\ OthersInTurn => NoRace /\ EndsApart
  BY FinalsDoNotRace
<1> QED BY <1>1, <1>2, <1>3, ConcatInvariant, PTL DEF ConcatSpec

\* Beside any number of POSTs that concatenate, requests and expirers that take
\* turns leave nothing lost and nothing left over, though uploads share a .bin.
THEOREM ConcatInTurnAllIsKept ==
  ASSUME StatementsFail
  PROVE  ConcatSpec /\ []OthersInTurn => [](NoDataLoss /\ NoOrphanBin /\ BinPathStoresData)
<1>1. ConcatInit => Pending /\ OrphanInv
  BY DEF ConcatInit, Init, Idle, Pending, OrphanInv, Ending, At
<1>2. IndInv /\ ConcatInv /\ Pending /\ [ConcatNext]_concatVars => Pending'
  BY ConcatSteps, PendingNext, AppendingKeeps
<1>3. IndInv /\ LossInv /\ ConcatInv /\ EndsApart /\ OrphanInv /\ [ConcatNext]_concatVars
        => OrphanInv'
  BY ConcatSteps, OrphanInvNext, AppendingKeeps
<1>4. IndInv /\ LossInv /\ Stored /\ Pending => BinPathStoresData
  BY RenamedIsRight
<1>5. OrphanInv => NoOrphanBin
  BY HeldIsNoOrphan
<1>6. UnlinkWorks
  BY FewFaults
<1> QED BY <1>1, <1>2, <1>3, <1>4, <1>5, <1>6, ConcatInvariant, ConcatLoss, ConcatStores,
           TurnsDoNotRace, PartsAndFinalsAreKept, PTL DEF ConcatSpec

(*****************************************************************************)
(* What a client sees of a store that concatenates                           *)
(*****************************************************************************)
LEMMA AppendingSeen ==
  ASSUME Seen, Viewed', AppendsPart
  PROVE  HostingStep
<1>1. PICK w, id, s : Extends(w, id, s) /\ Grows(id, s)
  BY DEF AppendsPart
<1>2. Grown(id, s)
  BY <1>1, GrownFile
<1>3. /\ id \in Id /\ s \in Bytes /\ client[id] # None /\ sha256sum[id] = None
      /\ \A b \in Own(id) : b.bytes \o s \in Bytes /\ IsPrefix(b.bytes \o s, client[id])
  BY <1>1 DEF Extends
<1>4. UNCHANGED <<info, sha256sum, client, proc>>
  BY <1>1 DEF Grows, table
<1>5. SameCreations
  BY <1>4 DEF SameCreations, BeingCreated
<1>6. \A i \in Id \ {id} : Own(i)' = Own(i)
  BY <1>2 DEF Grown
<1>7. ASSUME NEW i \in Id \ {id} PROVE SameFor(i)
  <2>1. Phase(i)' = Phase(i)
    BY <1>4, <1>5, <1>7, SamePhase DEF SameCreations
  <2>2. Content(i)' = Content(i)
    BY <1>4, <1>6, <1>7, SameContent DEF Seen
  <2> QED BY <2>1, <2>2 DEF SameFor
<1>8. CASE id \in info
  <2>1. PICK b \in Own(id) : Content(id) = b.bytes
    BY <1>3, <1>8 DEF Seen, Viewed
  <2>2. b.bytes \in Bytes
    BY DEF Own, At, Seen, IndInv, TypeOK
  <2>3. PICK u \in Bytes, v \in Bytes : u = b.bytes /\ v = b.bytes \o s /\ v = u \o s
    BY <1>3, <2>2
  <2>4. Content(id)' = v
    <3>1. PICK c \in Own(id)' : c.bytes = b.bytes \o s
      BY <1>2 DEF Grown
    <3>2. \A d \in Own(id)' : Content(id)' = d.bytes
      BY <1>3, <1>4, <1>8 DEF Viewed
    <3> QED BY <2>3, <3>1, <3>2
  <2>5. Phase(id) = "open" /\ Phase(id)' = "open"
    BY <1>3, <1>4, <1>8 DEF Phase
  <2>6. Len(v) = Len(u) + Len(s) /\ Len(u) \in Nat /\ Len(s) \in Nat
    BY <1>3, <2>3, ConcatProperties, LenProperties DEF Bytes
  <2>7. CASE s = <<>>
    <3>1. v = u
      BY <2>3, <2>7, ConcatEmptySeq DEF Bytes
    <3>2. SameFor(id)
      BY <2>1, <2>3, <2>4, <2>5, <3>1 DEF SameFor
    <3> QED BY <1>4, <1>7, <3>2, Unseen
  <2>8. CASE s # <<>>
    <3>1. Len(s) # 0
      BY <1>3, <2>8, EmptySeq DEF Bytes
    <3>2. client[id] \in Bytes /\ IsPrefix(v, client[id])
      BY <1>3, <2>1, <2>3 DEF Seen, IndInv, TypeOK
    <3>3. Len(v) <= Len(client[id]) /\ v = SubSeq(client[id], 1, Len(v))
      <4>1. SubSeq(v, 1, Len(v)) = v
        BY <2>3, SubSeqFull DEF Bytes
      <4> QED BY <3>2, <4>1 DEF IsPrefix
    <3>4. Len(client[id]) \in Nat
      BY <3>2, LenProperties DEF Bytes
    <3>5. Len(v) \in Len(Content(id)) + 1 .. Len(client[id])
      BY <2>1, <2>3, <2>6, <3>1, <3>3, <3>4
    <3> QED BY <1>3, <1>4, <1>7, <2>4, <2>5, <3>3, <3>5, IsReceive
  <2> QED BY <2>7, <2>8
<1>9. CASE id \notin info
  <2>1. \A i \in info \intersect Id :
          /\ sha256sum'[i] = sha256sum[i]
          /\ sha256sum[i] = None => Own(i)' = Own(i)
    BY <1>4, <1>6, <1>9
  <2> QED BY <1>4, <1>5, <2>1, UnseenStep DEF Seen
<1> QED BY <1>8, <1>9

\* Where os.Remove works and no digest is recorded between a Terminate's count
\* of duplicates and its removal, clients of a store that also concatenates see
\* the same service: a final upload only receives more of its bytes.
THEOREM ConcatImplementsHosting ==
  ASSUME UnlinkWorks
  PROVE  ConcatSpec /\ []NoRace => HidesSharing
<1>1. Stored /\ IndInv /\ LossInv /\ ViewInv => Viewed
  BY View
<1>2. ASSUME IndInv, LossInv, ViewInv, ConcatInv, Viewed, Viewed', [ConcatNext]_concatVars
      PROVE  HostingStep
  BY <1>2, ConcatSteps, StepSeen, AppendingSeen DEF Seen
<1>3. IndInv /\ LossInv /\ ViewInv /\ ConcatInv /\ Viewed /\ Viewed' /\ [ConcatNext]_concatVars
        => [Hosting!Next]_(Hosting!vars)
  BY <1>2 DEF HostingStep
<1>4. ConcatInit => Hosting!Init
  BY InitSeen DEF ConcatInit
<1> QED BY <1>1, <1>3, <1>4, ConcatInvariant, ConcatLoss, ConcatStores, PTL
        DEF ConcatSpec, HidesSharing, Hosting!Spec

\* So they do beside requests and expirers that take turns.
THEOREM ConcatInTurnHidesSharing ==
  ASSUME UnlinkWorks
  PROVE  ConcatSpec /\ []OthersInTurn => KeepsSharedBin /\ HidesSharing
BY TurnsDoNotRace, SharedPartIsKept, ConcatImplementsHosting, PTL
================================================================================
