------------------------- MODULE ShardedFileStore_proofs -------------------------
(*****************************************************************************)
(* Proofs, for every set of uploads, requests, expirers and faults, that the *)
(* store never mixes or corrupts bytes; and, where os.Remove works, that an  *)
(* unfinished upload keeps its .bin and a deleted one has no .info.  In the  *)
(* last part: what uploads that share a .bin do to each other, and that      *)
(* ShardedFileStore implements UploadHosting.                                *)
(*                                                                           *)
(* Neither ServesOwnBytes nor BlobsAreContentAddressed is inductive: a piece *)
(* is appended, a digest recorded and a file renamed by steps whose reasons  *)
(* were checked several steps before.  IndInv says what each step still      *)
(* knows: the requests exclude each other through the lock file (Locked,     *)
(* Alone), a request that writes knows the length of what it appends to      *)
(* (Appends), and one that finishes knows that the file is whole (Finishes). *)
(* The expirer takes no lock; it is harmless here because it only removes    *)
(* files.                                                                    *)
(*                                                                           *)
(* LossInv says what a goroutine knows that is about to remove or to move a  *)
(* file: that the .info is gone (rmbin, mark), that the path it has looked   *)
(* up is still that of its own upload (rminfo, rmbin), that the .bin is      *)
(* there (info), and that the digest is recorded (rename).                   *)
(*****************************************************************************)
EXTENDS ShardedFileStore, SequenceTheorems, TLAPS

Own(id) == At(IncompleteBinPath(id))

(*****************************************************************************)
(* The inductive invariant                                                   *)
(*****************************************************************************)

\* An id no client has is not in use.
Fresh ==
  /\ expired \union deleted \subseteq rows
  /\ \A g \in Gc : todo[g] \subseteq expired
  /\ \A id \in Id : id \notin rows => Own(id) = {} /\ sha256sum[id] = None
  /\ \A id \in rows : client[id] # None

\* What WriteChunk has stored so far.
OwnIsPrefix ==
  \A id \in Id : \A b \in Own(id) : client[id] # None /\ IsPrefix(b.bytes, client[id])

\* The rest is about a goroutine p with local variables r.  One at work has an
\* upload; an expirer only terminates, and only what has a record.
Working(p, r) ==
  /\ r.at = "idle" => r = Idle
  /\ r.at # "idle" => r.id \in Id /\ client[r.id] # None
  /\ p \in Gc => r.op # "POST" /\ r.at \in Terminating \union {"idle"}
  /\ p \in Gc /\ r.at # "idle" => r.id \in rows

\* A request other than a POST holds the lock of its upload.
Locked(p, r) ==
  p \in Worker /\ r.at # "idle" /\ r.op # "POST" => r.id \in rows /\ lockfile[r.id] = p

\* A POST runs before its upload can expire or be deleted.
Creates(r) ==
  r.op = "POST" =>
    /\ r.id \notin expired \union deleted
    /\ r.at \in Creating \union Finishing \union {"respond"}
    /\ r.at = "insert" => r.id \notin rows
    /\ r.at # "insert" /\ r.at # "respond" => r.id \in rows

\* WriteChunk appends at the end of the file.
Appends(r) ==
  r.at \in {"open", "copy"} =>
    /\ r.op = "PATCH"
    /\ sha256sum[r.id] = None
    /\ r.off <= Len(client[r.id])
    /\ \A b \in Own(r.id) : Len(b.bytes) = r.off
    /\ r.at = "copy" => r.path = IncompleteBinPath(r.id)

\* NewUpload has an empty file, FinishUpload the whole one.
Finishes(r) ==
  /\ r.at \in Creating => r.op = "POST" /\ sha256sum[r.id] = None
                          /\ \A b \in Own(r.id) : b.bytes = <<>>
  /\ r.at \in {"hash", "update"} => r.id \in rows /\ sha256sum[r.id] = None
  /\ r.at \in Finishing => \A b \in Own(r.id) : b.bytes = client[r.id]
  /\ r.at \in {"update", "rename"} => r.hash = client[r.id]

Knows(p, r) == /\ Working(p, r) /\ Locked(p, r) /\ Creates(r)
               /\ Appends(r) /\ Finishes(r)

\* A POST has its upload to itself.
Alone ==
  \A w \in Worker, p \in Proc :
    proc[w].op = "POST" /\ p # w /\ proc[p].at # "idle" => proc[p].id # proc[w].id

\* Everything but the control state.
StoreInv == /\ Fresh /\ OwnIsPrefix
            /\ BlobsAreContentAddressed /\ HashIsOfWholeFile

IndInv == TypeOK /\ StoreInv /\ Alone /\ \A p \in Proc : Knows(p, proc[p])

(*****************************************************************************)
(* Prefixes                                                                  *)
(*****************************************************************************)
LEMMA EmptyIsPrefix ==
  ASSUME NEW t \in Bytes
  PROVE  IsPrefix(<<>>, t)
BY DEF IsPrefix, Bytes

LEMMA WholePrefix ==
  ASSUME NEW s \in Bytes, NEW t \in Bytes, IsPrefix(s, t), Len(s) = Len(t)
  PROVE  s = t
BY DEF IsPrefix, Bytes

LEMMA LongerPrefix ==
  ASSUME NEW s \in Bytes, NEW t \in Bytes, IsPrefix(s, t),
         NEW n \in Len(s) + 1 .. Len(t)
  PROVE  /\ s \o SubSeq(t, Len(s) + 1, n) \in Bytes
         /\ IsPrefix(s \o SubSeq(t, Len(s) + 1, n), t)
         /\ Len(s \o SubSeq(t, Len(s) + 1, n)) = n
<1>1. s \o SubSeq(t, Len(s) + 1, n) = SubSeq(t, 1, n)
  BY ConcatAdjacentSubSeq DEF IsPrefix, Bytes
<1>2. SubSeq(t, 1, n) \in Bytes /\ Len(SubSeq(t, 1, n)) = n
  BY SubSeqProperties DEF Bytes
<1>3. SubSeq(SubSeq(t, 1, n), 1, n) = SubSeq(t, 1, n)
  BY <1>2, SubSeqFull DEF Bytes
<1>4. n <= Len(t)
  BY DEF Bytes
<1> QED
  <2> DEFINE r == SubSeq(t, 1, n)
  <2>1. IsPrefix(r, t)
    BY <1>2, <1>3, <1>4 DEF IsPrefix
  <2> QED BY <1>1, <1>2, <2>1

(*****************************************************************************)
(* Steps of one goroutine                                                    *)
(*****************************************************************************)

\* Locals of p change and no other's.
LEMMA Moved ==
  ASSUME TypeOK, NEW p \in Proc, NEW r \in Locals, proc' = [proc EXCEPT ![p] = r]
  PROVE  /\ proc' \in [Proc -> Locals]
         /\ proc'[p] = r
         /\ \A q \in Proc \ {p} : proc'[q] = proc[q]
BY DEF TypeOK

\* A goroutine that keeps its upload, or has none any more, leaves every POST alone.
LEMMA StaysAlone ==
  ASSUME TypeOK, Alone, NEW p \in Proc, NEW r \in Locals, proc' = [proc EXCEPT ![p] = r],
         \/ r = Idle
         \/ proc[p].at # "idle" /\ r.id = proc[p].id /\ r.op = proc[p].op
  PROVE  Alone'
<1>1. /\ proc'[p] = r
      /\ \A q \in Proc \ {p} : proc'[q] = proc[q]
  BY Moved
<1>2. SUFFICES ASSUME NEW w \in Worker, NEW q \in Proc,
                      proc'[w].op = "POST", q # w, proc'[q].at # "idle"
               PROVE  proc'[q].id # proc'[w].id
  BY DEF Alone
<1>3. /\ proc[w].op = "POST" /\ proc'[w].id = proc[w].id
      /\ proc[q].at # "idle" /\ proc'[q].id = proc[q].id
  BY <1>1, <1>2 DEF Idle, Proc
<1> QED BY <1>2, <1>3 DEF Alone

\* A goroutine that takes up an upload no POST is at work on.
LEMMA StartsAlone ==
  ASSUME IndInv, NEW p \in Proc, NEW r \in Locals, proc' = [proc EXCEPT ![p] = r],
         \A q \in Proc \ {p} :
           proc[q].at # "idle" /\ (r.op = "POST" \/ proc[q].op = "POST") => proc[q].id # r.id
  PROVE  Alone'
<1>1. /\ proc'[p] = r
      /\ \A q \in Proc \ {p} : proc'[q] = proc[q]
  BY Moved DEF IndInv
<1>2. SUFFICES ASSUME NEW w \in Worker, NEW q \in Proc,
                      proc'[w].op = "POST", q # w, proc'[q].at # "idle"
               PROVE  proc'[q].id # proc'[w].id
  BY DEF Alone
<1>3. w \in Proc
  BY DEF Proc
<1>4. proc[w].op = "POST" => proc[w].at # "idle"
  BY <1>3 DEF IndInv, Knows, Creates, Creating, Finishing
<1>5. CASE w = p
  BY <1>1, <1>2, <1>5
<1>6. CASE q = p
  BY <1>1, <1>2, <1>3, <1>4, <1>6
<1>7. CASE w # p /\ q # p
  BY <1>1, <1>2, <1>3, <1>7 DEF IndInv, Alone
<1> QED BY <1>5, <1>6, <1>7

\* What q knows survives a step of another goroutine that does not change the
\* row, the lock or the unfinished file of q's upload, except to remove it.
LEMMA Undisturbed ==
  ASSUME NEW q \in Proc, NEW id, id = proc[q].id,
         Knows(q, proc[q]), proc'[q] = proc[q],
         rows \subseteq rows',
         client[id] # None => client'[id] = client[id],
         q \in Worker /\ proc[q].at # "idle" =>
           /\ sha256sum'[id] = sha256sum[id]
           /\ lockfile'[id] = lockfile[id]
           /\ Own(id)' \subseteq Own(id),
         proc[q].op = "POST" =>
           /\ id \notin expired' \union deleted'
           /\ proc[q].at = "insert" => id \notin rows'
  PROVE  Knows(q, proc[q])'
<1> USE StoreAssumption
<1>w. proc[q].at \notin Terminating \union {"idle"} => q \in Worker /\ proc[q].at # "idle"
  BY DEF Knows, Working, Proc
<1>1. Working(q, proc[q])'
  BY DEF Knows, Working, Idle
<1>2. Locked(q, proc[q])'
  BY DEF Knows, Locked
<1>3. Creates(proc[q])'
  BY DEF Knows, Creates
<1>4. Appends(proc[q])'
  <2> SUFFICES ASSUME proc[q].at \in {"open", "copy"} PROVE Appends(proc[q])'
    BY DEF Appends
  <2>1. q \in Worker /\ proc[q].at # "idle" /\ client[id] # None
    BY <1>w DEF Terminating, Knows, Working
  <2> QED BY <2>1 DEF Knows, Appends, IncompleteBinPath
<1>5. Finishes(proc[q])'
  <2> SUFFICES ASSUME proc[q].at \in Creating \union Finishing PROVE Finishes(proc[q])'
    BY DEF Finishes, Creating, Finishing
  <2>1. q \in Worker /\ proc[q].at # "idle" /\ client[id] # None
    BY <1>w DEF Terminating, Creating, Finishing, Knows, Working
  <2> QED BY <2>1 DEF Knows, Finishes, Creating, Finishing
<1> QED BY <1>1, <1>2, <1>3, <1>4, <1>5 DEF Knows

\* A step that changes nothing but the locals of p, .info files and the count
\* of faults, and removes .bin files, keeps the invariant, if what p goes on
\* with is justified.
LEMMA QuietStep ==
  ASSUME IndInv, NEW p \in Proc, NEW r \in Locals, proc' = [proc EXCEPT ![p] = r],
         UNCHANGED <<table, lockfile, client, expired, todo>>,
         bins' \subseteq bins, info' \subseteq Id, faults' \in 0 .. MaxFaults,
         \/ r = Idle
         \/ proc[p].at # "idle" /\ r.id = proc[p].id /\ r.op = proc[p].op,
         Knows(p, r)
  PROVE  IndInv'
<1> USE DEF table
<1>1. /\ proc' \in [Proc -> Locals]
      /\ proc'[p] = r
      /\ \A q \in Proc \ {p} : proc'[q] = proc[q]
  BY Moved DEF IndInv
<1>2. TypeOK'
  BY <1>1 DEF IndInv, TypeOK
<1>3. StoreInv'
  BY DEF IndInv, StoreInv, Fresh, OwnIsPrefix, Own, At, IncompleteBinPath,
         BlobsAreContentAddressed, HashIsOfWholeFile
<1>4. Alone'
  BY StaysAlone DEF IndInv
<1>5. ASSUME NEW q \in Proc PROVE Knows(q, proc[q])'
  <2>1. CASE q = p
    BY <1>1, <2>1 DEF Knows, Working, Locked, Creates, Appends, Finishes, Own, At
  <2>2. CASE q # p
    <3>1. Knows(q, proc[q]) /\ proc'[q] = proc[q]
      BY <1>1, <2>2 DEF IndInv
    <3>2. Own(proc[q].id)' \subseteq Own(proc[q].id)
      BY <3>1 DEF Own, At, IncompleteBinPath
    <3>3. proc[q].op = "POST" => /\ proc[q].id \notin expired \union deleted
                                 /\ proc[q].at = "insert" => proc[q].id \notin rows
      BY <3>1 DEF Knows, Creates
    <3> QED BY <3>1, <3>2, <3>3, Undisturbed
  <2> QED BY <2>1, <2>2
<1> QED BY <1>2, <1>3, <1>4, <1>5 DEF IndInv

\* The store returns to its caller.
LEMMA Returning ==
  ASSUME IndInv, NEW p \in Proc, proc[p].at # "idle"
  PROVE  /\ Returned(p) \in Locals
         /\ \/ Returned(p) = Idle
            \/ Returned(p).id = proc[p].id /\ Returned(p).op = proc[p].op
         /\ Knows(p, Returned(p))
<1>1. Idle \in Locals
  BY DEF Idle, Locals, Steps, Path
<1>2. proc[p] \in Locals /\ Knows(p, proc[p])
  BY DEF IndInv, TypeOK
<1>3. CASE p \in Gc
  <2>1. Returned(p) = Idle
    BY <1>3 DEF Returned
  <2>2. Knows(p, Idle)
    BY DEF Idle, Knows, Working, Locked, Creates, Appends, Finishes, Creating, Finishing
  <2> QED BY <1>1, <2>1, <2>2
<1>4. CASE p \notin Gc
  <2> DEFINE r == [Idle EXCEPT !.at = "respond", !.op = proc[p].op, !.id = proc[p].id]
  <2>1. Returned(p) = r
    BY <1>4 DEF Returned
  <2>2. r \in Locals /\ r.at = "respond" /\ r.id = proc[p].id /\ r.op = proc[p].op
    BY <1>1, <1>2 DEF Idle, Locals, Steps
  <2>3. Knows(p, r)
    BY <1>2, <1>4, <2>2
       DEF Knows, Working, Locked, Creates, Appends, Finishes, Creating, Finishing
  <2> QED BY <2>1, <2>2, <2>3
<1> QED BY <1>3, <1>4

\* The steps of Terminate and the reading of a file need nothing but the lock.
LEMMA PlainStep ==
  ASSUME IndInv, NEW p \in Proc, proc[p].at # "idle", proc[p].op # "POST",
         NEW r \in Locals, r.id = proc[p].id, r.op = proc[p].op,
         r.at \in Terminating \union {"read"},
         p \in Gc => r.at \in Terminating
  PROVE  Knows(p, r)
<1>1. Knows(p, proc[p])
  BY DEF IndInv
<1>2. r.at \notin Creating \union Finishing \union {"idle", "open", "copy"}
  BY DEF Terminating, Creating, Finishing
<1>3. Working(p, r) /\ Locked(p, r)
  BY <1>1, <1>2 DEF Knows, Working, Locked
<1>4. Creates(r) /\ Appends(r) /\ Finishes(r)
  BY <1>2 DEF Creates, Appends, Finishes, Creating, Finishing
<1> QED BY <1>3, <1>4 DEF Knows

\* A goroutine that only goes on to another step.
LEMMA GoingOn ==
  ASSUME IndInv, NEW p \in Proc, NEW step \in Steps, Goto(p, step)
  PROVE  LET r == [proc[p] EXCEPT !.at = step]
         IN  /\ r \in Locals /\ proc' = [proc EXCEPT ![p] = r]
             /\ r.at = step
             /\ r.op = proc[p].op /\ r.id = proc[p].id /\ r.off = proc[p].off
             /\ r.hash = proc[p].hash /\ r.path = proc[p].path
<1>1. proc[p] \in Locals
  BY DEF IndInv, TypeOK
<1> QED BY <1>1 DEF Goto, Locals, IndInv, TypeOK

(*****************************************************************************)
(* The actions that leave rows, .bin files and locks alone                   *)
(*****************************************************************************)
LEMMA WriteInfoStep ==
  ASSUME IndInv, NEW w \in Worker, WriteInfo(w)
  PROVE  IndInv'
<1> USE DEF WriteInfo
<1>1. w \in Proc /\ proc[w] \in Locals /\ Knows(w, proc[w])
  BY DEF IndInv, TypeOK, Proc
<1>2. info' \subseteq Id /\ faults' \in 0 .. MaxFaults
  BY <1>1 DEF IndInv, TypeOK, Knows, Working
<1>3. CASE Return(w)
  BY <1>1, <1>2, <1>3, Returning, QuietStep DEF Return
<1>4. CASE Goto(w, "hash") /\ Len(client[proc[w].id]) = 0
  <2> DEFINE r == [proc[w] EXCEPT !.at = "hash"]
  <2>1. /\ r \in Locals /\ proc' = [proc EXCEPT ![w] = r]
        /\ r.at = "hash" /\ r.op = proc[w].op /\ r.id = proc[w].id
    BY <1>1, <1>4, GoingOn DEF Steps, Finishing
  <2>2. \A b \in Own(proc[w].id) : b.bytes = client[proc[w].id]
    <3>1. client[proc[w].id] \in Bytes
      BY <1>1 DEF IndInv, TypeOK, Knows, Working
    <3>2. client[proc[w].id] = <<>>
      BY <1>4, <3>1 DEF Bytes
    <3> QED BY <1>1, <3>2 DEF Knows, Finishes, Creating
  <2>3. Knows(w, r)
    BY <1>1, <2>1, <2>2
       DEF Knows, Working, Locked, Creates, Appends, Finishes, Creating, Finishing, Proc
  <2> QED BY <1>1, <1>2, <2>1, <2>3, QuietStep
<1> QED BY <1>3, <1>4

LEMMA GetInfoStep ==
  ASSUME IndInv, NEW w \in Worker, GetInfo(w)
  PROVE  IndInv'
<1> USE DEF GetInfo
<1>1. w \in Proc /\ proc[w] \in Locals /\ Knows(w, proc[w])
  BY DEF IndInv, TypeOK, Proc
<1>2. info' \subseteq Id /\ faults' \in 0 .. MaxFaults
  BY DEF IndInv, TypeOK, disk
<1>3. CASE Return(w)
  BY <1>1, <1>2, <1>3, Returning, QuietStep DEF Return, disk
<1>4. ASSUME NEW step \in {"count", "read"}, Goto(w, step)
      PROVE  IndInv'
  <2> DEFINE r == [proc[w] EXCEPT !.at = step]
  <2>1. /\ r \in Locals /\ proc' = [proc EXCEPT ![w] = r]
        /\ r.at = step /\ r.op = proc[w].op /\ r.id = proc[w].id
    BY <1>1, <1>4, GoingOn DEF Steps, Terminating
  <2>2. r.op # "POST" /\ w \notin Gc
    BY <1>1, <2>1, StoreAssumption DEF Knows, Creates, Creating, Finishing
  <2>3. Knows(w, r)
    BY <1>1, <1>4, <2>1, <2>2, PlainStep DEF Terminating
  <2> QED BY <1>1, <1>2, <2>1, <2>3, QuietStep DEF disk
<1>5. ASSUME NEW b \in At(BinPath(proc[w].id)), proc[w].op = "PATCH",
             MayAppend(proc[w].off, b, proc[w].id), Goto(w, "open")
      PROVE  IndInv'
  <2> DEFINE id == proc[w].id
             r == [proc[w] EXCEPT !.at = "open"]
  <2>1. /\ r \in Locals /\ proc' = [proc EXCEPT ![w] = r]
        /\ r.at = "open" /\ r.op = proc[w].op /\ r.id = proc[w].id /\ r.off = proc[w].off
    BY <1>1, <1>5, GoingOn DEF Steps
  <2>2. id \in Id /\ client[id] # None /\ client[id] \in Bytes
    BY <1>1 DEF IndInv, TypeOK, Knows, Working
  <2>3. sha256sum[id] = None
    <3> SUFFICES ASSUME sha256sum[id] # None PROVE FALSE
      OBVIOUS
    <3>1. b.path = CompleteBinPath(sha256sum[id])
      BY <1>5 DEF At, BinPath
    <3>2. b.bytes = sha256sum[id] /\ sha256sum[id] = client[id]
      BY <1>5, <2>2, <3>1 DEF IndInv, StoreInv, BlobsAreContentAddressed, HashIsOfWholeFile,
                              At, CompleteBinPath
    <3> QED BY <1>5, <3>2 DEF MayAppend
  <2>4. b \in Own(id) /\ Len(b.bytes) = r.off
    BY <1>5, <2>1, <2>3 DEF Own, At, BinPath, MayAppend
  <2>5. \A c \in Own(id) : c = b
    BY <2>4 DEF Own, At, IndInv, TypeOK
  <2>6. r.off <= Len(client[id])
    BY <2>2, <2>4 DEF IndInv, StoreInv, OwnIsPrefix, IsPrefix
  <2>7. Knows(w, r)
    <3>1. Working(w, r) /\ Locked(w, r)
      BY <1>1, <1>5, <2>1, StoreAssumption DEF Knows, Working, Locked
    <3>2. Creates(r) /\ Finishes(r)
      BY <1>5, <2>1 DEF Creates, Finishes, Creating, Finishing
    <3>3. Appends(r)
      BY <1>5, <2>1, <2>3, <2>4, <2>5, <2>6 DEF Appends
    <3> QED BY <3>1, <3>2, <3>3 DEF Knows
  <2> QED BY <1>1, <1>2, <2>1, <2>7, QuietStep DEF disk
<1> QED BY <1>3, <1>4, <1>5 DEF AfterGetInfo

LEMMA GetReaderStep ==
  ASSUME IndInv, NEW w \in Worker, GetReader(w)
  PROVE  IndInv'
<1>1. w \in Proc /\ info' \subseteq Id /\ faults' \in 0 .. MaxFaults
  BY DEF GetReader, IndInv, TypeOK, disk, Proc
<1> QED BY <1>1, Returning, QuietStep DEF GetReader, Return, disk

LEMMA OpenBinStep ==
  ASSUME IndInv, NEW w \in Worker, OpenBin(w)
  PROVE  IndInv'
<1> USE DEF OpenBin
<1> DEFINE id == proc[w].id
           r == [proc[w] EXCEPT !.at = "copy", !.path = BinPath(id)]
<1>1. w \in Proc /\ proc[w] \in Locals /\ Knows(w, proc[w])
  BY DEF IndInv, TypeOK, Proc
<1>2. info' \subseteq Id /\ faults' \in 0 .. MaxFaults
  BY DEF IndInv, TypeOK, disk
<1>3. CASE Return(w)
  BY <1>1, <1>2, <1>3, Returning, QuietStep DEF Return, disk
<1>4. CASE proc' = [proc EXCEPT ![w].at = "copy", ![w].path = BinPath(id)]
  <2>1. id \in Id /\ BinPath(id) = IncompleteBinPath(id) /\ BinPath(id) \in Path
    BY <1>1 DEF Knows, Working, Appends, BinPath, IncompleteBinPath, Path
  <2>2. /\ r \in Locals /\ proc' = [proc EXCEPT ![w] = r]
        /\ r.at = "copy" /\ r.path = IncompleteBinPath(id)
        /\ r.op = proc[w].op /\ r.id = id /\ r.off = proc[w].off
    BY <1>1, <1>4, <2>1 DEF Locals, Steps, IndInv, TypeOK
  <2>3. Knows(w, r)
    <3>1. Working(w, r) /\ Locked(w, r)
      BY <1>1, <2>2, StoreAssumption DEF Knows, Working, Locked
    <3>2. Appends(r) /\ Creates(r)
      BY <1>1, <2>2 DEF Knows, Appends, Creates
    <3>3. Finishes(r)
      BY <2>2 DEF Finishes, Creating, Finishing
    <3> QED BY <3>1, <3>2, <3>3 DEF Knows
  <2> QED BY <1>1, <1>2, <2>2, <2>3, QuietStep DEF disk
<1> QED BY <1>3, <1>4

LEMMA CopyEndsStep ==
  ASSUME IndInv, NEW w \in Worker, CopyEnds(w)
  PROVE  IndInv'
<1> USE DEF CopyEnds
<1> DEFINE id == proc[w].id
           r == [proc[w] EXCEPT !.at = "hash"]
<1>1. w \in Proc /\ proc[w] \in Locals /\ Knows(w, proc[w])
  BY DEF IndInv, TypeOK, Proc
<1>2. info' \subseteq Id /\ faults' \in 0 .. MaxFaults
  BY DEF IndInv, TypeOK, disk
<1>3. CASE Return(w)
  BY <1>1, <1>2, <1>3, Returning, QuietStep DEF Return, disk
<1>4. CASE IsComplete(proc[w].off, id) /\ Goto(w, "hash")
  <2>1. /\ r \in Locals /\ proc' = [proc EXCEPT ![w] = r]
        /\ r.at = "hash" /\ r.op = proc[w].op /\ r.id = id
    BY <1>1, <1>4, GoingOn DEF Steps, Finishing
  <2>2. /\ proc[w].op = "PATCH" /\ sha256sum[id] = None /\ id \in rows
        /\ id \in Id /\ client[id] \in Bytes
    BY <1>1 DEF Knows, Working, Locked, Appends, IndInv, TypeOK
  <2>3. \A b \in Own(id) : b.bytes = client[id]
    <3> SUFFICES ASSUME NEW b \in Own(id) PROVE b.bytes = client[id]
      OBVIOUS
    <3>1. b.bytes \in Bytes /\ IsPrefix(b.bytes, client[id])
      BY <2>2 DEF Own, At, IndInv, TypeOK, StoreInv, OwnIsPrefix
    <3>2. Len(b.bytes) = Len(client[id])
      BY <1>1, <1>4 DEF Knows, Appends, IsComplete
    <3> QED BY <2>2, <3>1, <3>2, WholePrefix
  <2>4. Knows(w, r)
    <3>1. Working(w, r) /\ Locked(w, r)
      BY <1>1, <2>1, StoreAssumption DEF Knows, Working, Locked
    <3>2. Creates(r) /\ Appends(r) /\ Finishes(r)
      BY <2>1, <2>2, <2>3 DEF Creates, Appends, Finishes, Creating, Finishing
    <3> QED BY <3>1, <3>2 DEF Knows
  <2> QED BY <1>1, <1>2, <2>1, <2>4, QuietStep DEF disk
<1> QED BY <1>3, <1>4

LEMMA HashFileStep ==
  ASSUME IndInv, NEW w \in Worker, HashFile(w)
  PROVE  IndInv'
<1> USE DEF HashFile
<1> DEFINE id == proc[w].id
<1>1. w \in Proc /\ proc[w] \in Locals /\ Knows(w, proc[w])
  BY DEF IndInv, TypeOK, Proc
<1>2. info' \subseteq Id /\ faults' \in 0 .. MaxFaults
  BY DEF IndInv, TypeOK, disk
<1>3. CASE Return(w)
  BY <1>1, <1>2, <1>3, Returning, QuietStep DEF Return, disk
<1>4. ASSUME NEW b \in At(BinPath(id)),
             proc' = [proc EXCEPT ![w].at = "update", ![w].hash = b.bytes]
      PROVE  IndInv'
  <2> DEFINE r == [proc[w] EXCEPT !.at = "update", !.hash = b.bytes]
  <2>1. id \in rows /\ sha256sum[id] = None /\ \A c \in Own(id) : c.bytes = client[id]
    BY <1>1 DEF Knows, Finishes, Finishing
  <2>2. b \in Own(id) /\ b.bytes \in Bytes
    BY <1>4, <2>1 DEF Own, BinPath, At, IndInv, TypeOK
  <2>3. /\ r \in Locals /\ proc' = [proc EXCEPT ![w] = r]
        /\ r.at = "update" /\ r.op = proc[w].op /\ r.id = id /\ r.hash = client[id]
    BY <1>1, <1>4, <2>1, <2>2 DEF Locals, Steps, Finishing, IndInv, TypeOK
  <2>4. Knows(w, r)
    <3>1. Working(w, r) /\ Locked(w, r)
      BY <1>1, <2>3, StoreAssumption DEF Knows, Working, Locked
    <3>2. Creates(r)
      BY <1>1, <2>3 DEF Knows, Creates, Finishing
    <3>3. Appends(r) /\ Finishes(r)
      BY <2>1, <2>3 DEF Appends, Finishes, Creating, Finishing
    <3> QED BY <3>1, <3>2, <3>3 DEF Knows
  <2> QED BY <1>1, <1>2, <2>3, <2>4, QuietStep DEF disk
<1> QED BY <1>3, <1>4

LEMMA CountDuplicatesStep ==
  ASSUME IndInv, NEW p \in Proc, CountDuplicates(p)
  PROVE  IndInv'
<1> USE DEF CountDuplicates
<1> DEFINE r == [proc[p] EXCEPT !.at = "lookup", !.shared = Duplicates(proc[p].id) # {}]
<1>1. proc[p] \in Locals /\ Knows(p, proc[p])
  BY DEF IndInv, TypeOK
<1>2. info' \subseteq Id /\ faults' \in 0 .. MaxFaults
  BY DEF IndInv, TypeOK, disk
<1>3. proc[p].op # "POST"
  BY <1>1 DEF Knows, Creates, Creating, Finishing
<1>4. /\ r \in Locals /\ proc' = [proc EXCEPT ![p] = r]
      /\ r.at = "lookup" /\ r.op = proc[p].op /\ r.id = proc[p].id
  BY <1>1 DEF Locals, Steps, Terminating, IndInv, TypeOK
<1>5. Knows(p, r)
  BY <1>3, <1>4, PlainStep DEF Terminating
<1> QED BY <1>2, <1>4, <1>5, QuietStep DEF disk

LEMMA LookupBinPathStep ==
  ASSUME IndInv, NEW p \in Proc, LookupBinPath(p)
  PROVE  IndInv'
<1> USE DEF LookupBinPath
<1> DEFINE r == [proc[p] EXCEPT !.at = "rminfo", !.path = BinPath(proc[p].id)]
<1>1. proc[p] \in Locals /\ Knows(p, proc[p])
  BY DEF IndInv, TypeOK
<1>2. info' \subseteq Id /\ faults' \in 0 .. MaxFaults
  BY DEF IndInv, TypeOK, disk
<1>3. proc[p].op # "POST"
  BY <1>1 DEF Knows, Creates, Creating, Finishing
<1>4. BinPath(proc[p].id) \in Path
  <2>1. proc[p].id \in Id
    BY <1>1 DEF Knows, Working
  <2> QED BY <2>1 DEF IndInv, TypeOK, BinPath, IncompleteBinPath, CompleteBinPath, Path
<1>5. /\ r \in Locals /\ proc' = [proc EXCEPT ![p] = r]
      /\ r.at = "rminfo" /\ r.op = proc[p].op /\ r.id = proc[p].id
  BY <1>1, <1>4 DEF Locals, Steps, Terminating, IndInv, TypeOK
<1>6. Knows(p, r)
  BY <1>3, <1>5, PlainStep DEF Terminating
<1> QED BY <1>2, <1>5, <1>6, QuietStep DEF disk

\* Both removals of Terminate, whether they work or not.
LEMMA RemovalStep ==
  ASSUME IndInv, NEW p \in Proc, NEW step \in {"rmbin", "mark"}, Goto(p, step),
         proc[p].at \in {"rminfo", "rmbin"},
         info' \subseteq info, bins' \subseteq bins, faults' \in 0 .. MaxFaults,
         UNCHANGED <<table, lockfile, client, expired, todo>>
  PROVE  IndInv'
<1> DEFINE r == [proc[p] EXCEPT !.at = step]
<1>1. Knows(p, proc[p]) /\ info' \subseteq Id
  BY DEF IndInv, TypeOK
<1>2. proc[p].op # "POST"
  BY <1>1 DEF Knows, Creates, Creating, Finishing
<1>3. /\ r \in Locals /\ proc' = [proc EXCEPT ![p] = r]
      /\ r.at = step /\ r.op = proc[p].op /\ r.id = proc[p].id
  BY GoingOn DEF Steps, Terminating
<1>4. Knows(p, r)
  BY <1>2, <1>3, PlainStep DEF Terminating
<1> QED BY <1>1, <1>3, <1>4, QuietStep

LEMMA RemoveInfoStep ==
  ASSUME IndInv, NEW p \in Proc, RemoveInfo(p)
  PROVE  IndInv'
BY RemovalStep DEF RemoveInfo, AfterRemoveInfo, IndInv, TypeOK

LEMMA RemoveBinStep ==
  ASSUME IndInv, NEW p \in Proc, RemoveBin(p)
  PROVE  IndInv'
BY RemovalStep DEF RemoveBin, IndInv, TypeOK

LEMMA UnlinkFailsStep ==
  ASSUME IndInv, NEW p \in Proc, UnlinkFails(p)
  PROVE  IndInv'
<1>1. faults' \in 0 .. MaxFaults
  BY StoreAssumption DEF UnlinkFails, Fault, IndInv, TypeOK
<1> QED BY <1>1, RemovalStep DEF UnlinkFails, AfterRemoveInfo, disk

\* A goroutine that gives up.
LEMMA FailureStep ==
  ASSUME IndInv, NEW p \in Proc, CallFails(p) \/ RemoveDirFails(p)
  PROVE  IndInv'
<1>1. /\ proc[p].at # "idle" /\ Return(p)
      /\ info' \subseteq info /\ bins' \subseteq bins
      /\ UNCHANGED <<table, lockfile, client, expired, todo>>
  BY DEF CallFails, RemoveDirFails, disk
<1>2. faults' \in 0 .. MaxFaults
  BY StoreAssumption DEF CallFails, RemoveDirFails, Fault, IndInv, TypeOK
<1>3. info' \subseteq Id
  BY <1>1 DEF IndInv, TypeOK
<1> QED BY <1>1, <1>2, <1>3, Returning, QuietStep DEF Return

(*****************************************************************************)
(* The actions of requests that change rows, .bin files or locks             *)
(*****************************************************************************)

\* Two requests never work on the same upload.
LEMMA Exclusive ==
  ASSUME IndInv, NEW w \in Worker, NEW v \in Worker, w # v,
         proc[w].at # "idle", proc[v].at # "idle"
  PROVE  proc[v].id # proc[w].id
<1>1. w \in Proc /\ v \in Proc /\ Knows(w, proc[w]) /\ Knows(v, proc[v])
  BY DEF IndInv, Proc
<1> QED BY <1>1 DEF IndInv, Alone, Knows, Locked

LEMMA NewUploadStep ==
  ASSUME IndInv, NEW w \in Worker, NewUpload(w)
  PROVE  IndInv'
<1>1. w \in Proc /\ w \notin Gc /\ proc[w] = Idle /\ proc[w] \in Locals
  BY StoreAssumption DEF NewUpload, IndInv, Knows, Working, Proc, TypeOK
<1>2. PICK id \in Id : \E file \in ClientFile[id] :
        /\ client[id] = None
        /\ client' = [client EXCEPT ![id] = file]
        /\ proc' = [proc EXCEPT ![w].at = "insert", ![w].op = "POST", ![w].id = id]
  BY DEF NewUpload
<1>3. PICK file \in ClientFile[id] :
        /\ client[id] = None
        /\ client' = [client EXCEPT ![id] = file]
        /\ proc' = [proc EXCEPT ![w].at = "insert", ![w].op = "POST", ![w].id = id]
  BY <1>2
<1>4. file \in Bytes /\ file # None
  BY StoreAssumption
<1> DEFINE r == [proc[w] EXCEPT !.at = "insert", !.op = "POST", !.id = id]
<1>5. /\ r \in Locals /\ proc' = [proc EXCEPT ![w] = r]
      /\ r.at = "insert" /\ r.op = "POST" /\ r.id = id
  BY <1>1, <1>3 DEF Locals, Steps, Creating, IndInv, TypeOK
<1>6. /\ proc' \in [Proc -> Locals]
      /\ proc'[w] = r
      /\ \A q \in Proc \ {w} : proc'[q] = proc[q]
  BY <1>1, <1>5, Moved DEF IndInv
<1>7. /\ UNCHANGED <<rows, sha256sum, deleted, info, bins, lockfile, expired, todo, faults>>
      /\ client'[id] = file
      /\ \A j \in Id : j # id => client'[j] = client[j]
      /\ client' \in [Id -> Bytes \union {None}]
  BY <1>3, <1>4 DEF NewUpload, IndInv, TypeOK, table, disk
<1>8. id \notin rows /\ Own(id) = {} /\ sha256sum[id] = None
  BY <1>3 DEF IndInv, StoreInv, Fresh
<1>9. TypeOK'
  BY <1>6, <1>7 DEF IndInv, TypeOK
<1>10. StoreInv'
  <2>1. Fresh'
    BY <1>3, <1>4, <1>7 DEF IndInv, StoreInv, TypeOK, Fresh, Own, At, IncompleteBinPath
  <2>2. OwnIsPrefix'
    BY <1>7, <1>8 DEF IndInv, StoreInv, OwnIsPrefix, Own, At, IncompleteBinPath
  <2>3. BlobsAreContentAddressed' /\ HashIsOfWholeFile'
    BY <1>7, <1>8 DEF IndInv, StoreInv, BlobsAreContentAddressed, HashIsOfWholeFile
  <2> QED BY <2>1, <2>2, <2>3 DEF StoreInv
<1>11. \A q \in Proc \ {w} : proc[q].at # "idle" => proc[q].id # id
  BY <1>3 DEF IndInv, Knows, Working
<1>12. Alone'
  <2> HIDE DEF r
  <2>1. \A q \in Proc \ {w} :
          proc[q].at # "idle" /\ (r.op = "POST" \/ proc[q].op = "POST") => proc[q].id # r.id
    BY <1>5, <1>11
  <2> QED BY <1>1, <1>5, <2>1, StartsAlone
<1>13. ASSUME NEW q \in Proc PROVE Knows(q, proc[q])'
  <2>1. CASE q = w
    <3>1. Working(w, proc[w])' /\ Locked(w, proc[w])'
      BY <1>1, <1>4, <1>5, <1>6, <1>7 DEF Working, Locked
    <3>2. Creates(proc[w])'
      BY <1>5, <1>6, <1>7, <1>8 DEF Creates, Creating, Fresh, IndInv, StoreInv, TypeOK
    <3>3. Own(proc[w].id)' = {} /\ sha256sum'[id] = None
      <4>1. proc'[w].id = id /\ bins' = bins
        BY <1>5, <1>6, <1>7
      <4> QED BY <4>1, <1>7, <1>8 DEF Own, At, IncompleteBinPath
    <3>4. Appends(proc[w])' /\ Finishes(proc[w])'
      BY <1>5, <1>6, <3>3 DEF Appends, Finishes, Creating, Finishing
    <3> QED BY <2>1, <3>1, <3>2, <3>4 DEF Knows
  <2>2. CASE q # w
    <3>1. Knows(q, proc[q]) /\ proc'[q] = proc[q]
      BY <1>6, <2>2 DEF IndInv
    <3>2. Own(proc[q].id)' = Own(proc[q].id)
      BY <1>7, <3>1 DEF Own, At, IncompleteBinPath
    <3>3. client[proc[q].id] # None => client'[proc[q].id] = client[proc[q].id]
      BY <1>3 DEF IndInv, TypeOK
    <3>4. proc[q].op = "POST" => /\ proc[q].id \notin expired \union deleted
                                 /\ proc[q].at = "insert" => proc[q].id \notin rows
      BY <3>1 DEF Knows, Creates
    <3>5. UNCHANGED <<rows, sha256sum, deleted, lockfile, expired>>
      BY <1>7
    <3> QED BY <3>1, <3>2, <3>3, <3>4, <3>5, Undisturbed
  <2> QED BY <2>1, <2>2
<1> QED BY <1>9, <1>10, <1>12, <1>13 DEF IndInv

\* A request that changes the row and the file of its own upload disturbs no
\* other goroutine.
LEMMA OwnUploadStep ==
  ASSUME IndInv, NEW w \in Worker, proc[w].at # "idle",
         NEW r \in Locals, r.id = proc[w].id, r.op = proc[w].op,
         proc' = [proc EXCEPT ![w] = r],
         rows \subseteq rows', rows' \subseteq rows \union {r.id},
         \A j \in Id : j # r.id => sha256sum'[j] = sha256sum[j] /\ Own(j)' \subseteq Own(j),
         UNCHANGED <<deleted, lockfile, client, expired>>,
         TypeOK', StoreInv', Knows(w, proc[w])'
  PROVE  IndInv'
<1>1. w \in Proc
  BY DEF Proc
<1>2. /\ proc'[w] = r
      /\ \A q \in Proc \ {w} : proc'[q] = proc[q]
  BY <1>1, Moved DEF IndInv
<1>3. Alone'
  BY <1>1, StaysAlone DEF IndInv
<1>4. ASSUME NEW q \in Proc PROVE Knows(q, proc[q])'
  <2>1. CASE q = w
    BY <2>1
  <2>2. CASE q # w
    <3>1. Knows(q, proc[q]) /\ proc'[q] = proc[q]
      BY <1>2, <2>2 DEF IndInv
    <3>2. q \in Worker /\ proc[q].at # "idle" =>
            /\ sha256sum'[proc[q].id] = sha256sum[proc[q].id]
            /\ Own(proc[q].id)' \subseteq Own(proc[q].id)
      BY <2>2, <3>1, Exclusive DEF Knows, Working
    <3>3. proc[q].op = "POST" =>
            /\ proc[q].id \notin expired \union deleted
            /\ proc[q].at = "insert" => proc[q].id \notin rows'
      <4> SUFFICES ASSUME proc[q].op = "POST"
                   PROVE  /\ proc[q].id \notin expired \union deleted
                          /\ proc[q].at = "insert" => proc[q].id \notin rows'
        OBVIOUS
      <4>1. q \in Worker /\ proc[q].at # "idle"
        BY <3>1 DEF Knows, Working, Creates, Creating, Finishing, Proc
      <4>2. proc[q].id # r.id
        BY <2>2, <4>1, Exclusive
      <4> QED BY <3>1, <4>2 DEF Knows, Creates
    <3> QED BY <3>1, <3>2, <3>3, Undisturbed
  <2> QED BY <2>1, <2>2
<1> QED BY <1>3, <1>4 DEF IndInv

LEMMA InsertRowStep ==
  ASSUME IndInv, NEW w \in Worker, InsertRow(w)
  PROVE  IndInv'
<1> PICK id : id = proc[w].id
  OBVIOUS
<1> DEFINE r == [proc[w] EXCEPT !.at = "create"]
<1>1. w \in Proc /\ w \notin Gc /\ proc[w] \in Locals /\ Knows(w, proc[w]) /\ proc[w].at = "insert"
  BY StoreAssumption DEF InsertRow, IndInv, TypeOK, Proc
<1>2. /\ r \in Locals /\ proc' = [proc EXCEPT ![w] = r]
      /\ r.at = "create" /\ r.op = proc[w].op /\ r.id = id
      /\ proc'[w] = r
  BY <1>1, GoingOn, Moved DEF IndInv, InsertRow, Steps, Creating
<1>3. id \in Id /\ client[id] # None /\ proc[w].op = "POST"
  BY <1>1 DEF Knows, Working, Finishes, Creating
<1>4. /\ rows' = rows \union {id}
      /\ UNCHANGED <<sha256sum, deleted, info, bins, lockfile, client, expired, todo, faults>>
  BY DEF InsertRow, disk
<1>5. TypeOK'
  BY <1>1, <1>2, <1>3, <1>4, Moved DEF IndInv, TypeOK
<1>6. StoreInv'
  BY <1>3, <1>4 DEF IndInv, StoreInv, Fresh, OwnIsPrefix, Own, At, IncompleteBinPath,
                    BlobsAreContentAddressed, HashIsOfWholeFile
<1>7. \A j \in Id : Own(j)' = Own(j)
  BY <1>4 DEF Own, At, IncompleteBinPath
<1>8. Knows(w, proc[w])'
  <2> HIDE DEF r
  <2>1. Working(w, proc[w])' /\ Locked(w, proc[w])' /\ Creates(proc[w])' /\ Appends(proc[w])'
    BY <1>1, <1>2, <1>3, <1>4 DEF Knows, Working, Locked, Creates, Appends, Creating
  <2>2. Finishes(proc[w])'
    BY <1>1, <1>2, <1>3, <1>4, <1>7 DEF Knows, Finishes, Creating, Finishing
  <2> QED BY <2>1, <2>2 DEF Knows
<1> QED
  <2> HIDE DEF r
  <2> QED BY <1>1, <1>2, <1>4, <1>5, <1>6, <1>7, <1>8, OwnUploadStep

LEMMA CreateBinStep ==
  ASSUME IndInv, NEW w \in Worker, CreateBin(w)
  PROVE  IndInv'
<1> PICK id : id = proc[w].id
  OBVIOUS
<1> DEFINE r == [proc[w] EXCEPT !.at = "info"]
<1>1. w \in Proc /\ w \notin Gc /\ proc[w] \in Locals /\ Knows(w, proc[w]) /\ proc[w].at = "create"
  BY StoreAssumption DEF CreateBin, IndInv, TypeOK, Proc
<1>2. /\ r \in Locals /\ proc' = [proc EXCEPT ![w] = r]
      /\ r.at = "info" /\ r.op = proc[w].op /\ r.id = id
      /\ proc'[w] = r
  BY <1>1, GoingOn, Moved DEF IndInv, CreateBin, Steps, Creating
<1>3. /\ id \in Id /\ client[id] # None /\ client[id] \in Bytes
      /\ proc[w].op = "POST" /\ sha256sum[id] = None /\ id \in rows
  BY <1>1 DEF IndInv, TypeOK, Knows, Working, Creates, Finishes, Creating
<1>4. /\ BinPath(id) = IncompleteBinPath(id) /\ IncompleteBinPath(id) \in Path
      /\ IncompleteBinPath(id)[1] # "complete"
      /\ \A j \in Id : j # id => IncompleteBinPath(j) # IncompleteBinPath(id)
  BY <1>3 DEF BinPath, IncompleteBinPath, Path
<1>5. UNCHANGED <<rows, sha256sum, deleted, info, lockfile, client, expired, todo, faults>>
  BY DEF CreateBin, table
<1>6. \/ bins' = bins
      \/ At(IncompleteBinPath(id)) = {}
         /\ bins' = bins \union {[path |-> IncompleteBinPath(id), bytes |-> <<>>]}
  BY <1>4 DEF CreateBin
<1>7. TypeOK'
  <2>1. bins' \subseteq [path : Path, bytes : Bytes]
    <3>1. <<>> \in Bytes
      BY DEF Bytes
    <3> QED BY <1>4, <1>6, <3>1 DEF IndInv, TypeOK
  <2>2. \A a, b \in bins' : a.path = b.path => a = b
    BY <1>6 DEF IndInv, TypeOK, At
  <2> QED BY <1>1, <1>2, <1>5, <2>1, <2>2, Moved DEF IndInv, TypeOK
<1>8. \A b \in Own(id)' : b.bytes = <<>>
  BY <1>1, <1>6 DEF Own, At, IncompleteBinPath, Knows, Finishes, Creating
<1>9. \A j \in Id : j # id => Own(j)' = Own(j)
  BY <1>4, <1>6 DEF Own, At, IncompleteBinPath
<1>10. StoreInv'
  <2>1. Fresh'
    BY <1>3, <1>5, <1>9 DEF IndInv, StoreInv, Fresh
  <2>2. OwnIsPrefix'
    <3> SUFFICES ASSUME NEW j \in Id, NEW b \in Own(j)'
                 PROVE  client'[j] # None /\ IsPrefix(b.bytes, client'[j])
      BY DEF OwnIsPrefix
    <3>1. CASE j # id
      BY <1>5, <1>9, <3>1 DEF IndInv, StoreInv, OwnIsPrefix
    <3>2. CASE j = id
      BY <1>3, <1>5, <1>8, <3>2, EmptyIsPrefix
    <3> QED BY <3>1, <3>2
  <2>3. BlobsAreContentAddressed' /\ HashIsOfWholeFile'
    BY <1>4, <1>5, <1>6 DEF IndInv, StoreInv, BlobsAreContentAddressed, HashIsOfWholeFile
  <2> QED BY <2>1, <2>2, <2>3 DEF StoreInv
<1>11. Knows(w, proc[w])'
  <2> HIDE DEF r
  <2>1. Working(w, proc[w])' /\ Locked(w, proc[w])' /\ Creates(proc[w])' /\ Appends(proc[w])'
    BY <1>1, <1>2, <1>3, <1>5 DEF Knows, Working, Locked, Creates, Appends, Creating
  <2>2. Finishes(proc[w])'
    BY <1>2, <1>3, <1>5, <1>8 DEF Finishes, Creating, Finishing
  <2> QED BY <2>1, <2>2 DEF Knows
<1> QED
  <2> HIDE DEF r
  <2> QED BY <1>1, <1>2, <1>5, <1>7, <1>9, <1>10, <1>11, OwnUploadStep

LEMMA CopyPieceStep ==
  ASSUME IndInv, NEW w \in Worker, CopyPiece(w)
  PROVE  IndInv'
<1> PICK id : id = proc[w].id
  OBVIOUS
<1> DEFINE off == proc[w].off
           path == IncompleteBinPath(id)
<1>1. w \in Proc /\ w \notin Gc /\ proc[w] \in Locals /\ Knows(w, proc[w]) /\ proc[w].at = "copy"
  BY StoreAssumption DEF CopyPiece, IndInv, TypeOK, Proc
<1>2. /\ id \in Id /\ id \in rows /\ client[id] # None /\ client[id] \in Bytes
      /\ proc[w].op = "PATCH" /\ sha256sum[id] = None /\ proc[w].path = path
      /\ \A b \in Own(id) : Len(b.bytes) = off
  BY <1>1 DEF IndInv, TypeOK, Knows, Working, Locked, Appends
<1>3. PICK n \in off + 1 .. Len(client[id]) :
        /\ bins' = Appended(path, SubSeq(client[id], off + 1, n))
        /\ proc' = [proc EXCEPT ![w].off = n]
  BY <1>2 DEF CopyPiece
<1> DEFINE r == [proc[w] EXCEPT !.off = n]
           piece == SubSeq(client[id], off + 1, n)
<1>4. off \in Nat /\ n \in Nat /\ n <= Len(client[id])
  BY <1>1, <1>2 DEF Locals, Bytes
<1>5. /\ r \in Locals /\ proc' = [proc EXCEPT ![w] = r]
      /\ r.at = "copy" /\ r.op = "PATCH" /\ r.id = id /\ r.off = n /\ r.path = path
  BY <1>1, <1>2, <1>3, <1>4 DEF Locals, IndInv, TypeOK
<1>6. proc'[w] = r /\ proc' \in [Proc -> Locals]
  BY <1>1, <1>5, Moved DEF IndInv
<1>7. UNCHANGED <<rows, sha256sum, deleted, info, lockfile, client, expired, todo, faults>>
  BY DEF CopyPiece, table
<1>8. ASSUME NEW b \in Own(id)
      PROVE  /\ b.bytes \o piece \in Bytes
             /\ IsPrefix(b.bytes \o piece, client[id])
             /\ Len(b.bytes \o piece) = n
  <2>1. b.bytes \in Bytes /\ IsPrefix(b.bytes, client[id]) /\ Len(b.bytes) = off
    BY <1>2 DEF Own, At, IndInv, TypeOK, StoreInv, OwnIsPrefix
  <2> PICK s \in Bytes : s = b.bytes
    BY <2>1
  <2> PICK file \in Bytes : file = client[id]
    BY <1>2
  <2>2. IsPrefix(s, file) /\ n \in Len(s) + 1 .. Len(file)
    BY <2>1
  <2>3. piece = SubSeq(file, Len(s) + 1, n)
    BY <2>1
  <2> HIDE DEF piece
  <2>4. s \o piece \in Bytes /\ IsPrefix(s \o piece, file) /\ Len(s \o piece) = n
    BY <2>2, <2>3, LongerPrefix
  <2> QED BY <2>4
<1>9. \A c \in bins' : \/ c \in bins /\ c.path # path
                       \/ \E b \in Own(id) : c = [path |-> path, bytes |-> b.bytes \o piece]
  BY <1>3 DEF Appended, Own, At
<1>10. path \in Path /\ path[1] # "complete"
       /\ \A j \in Id : j # id => IncompleteBinPath(j) # path
  BY <1>2 DEF IncompleteBinPath, Path
<1> HIDE DEF r, off, path, piece
<1>11. \A c \in Own(id)' : /\ IsPrefix(c.bytes, client[id])
                           /\ Len(c.bytes) = n
  <2> SUFFICES ASSUME NEW c \in Own(id)'
               PROVE  IsPrefix(c.bytes, client[id]) /\ Len(c.bytes) = n
    OBVIOUS
  <2>1. c \in bins' /\ c.path = path
    BY DEF Own, At, path, IncompleteBinPath
  <2>2. PICK b \in Own(id) : c = [path |-> path, bytes |-> b.bytes \o piece]
    BY <1>9, <2>1
  <2>3. c.bytes = b.bytes \o piece
    BY <2>2
  <2> QED BY <1>8, <2>3
<1>12. \A j \in Id : j # id => Own(j)' \subseteq Own(j)
  <2> SUFFICES ASSUME NEW j \in Id, j # id, NEW c \in Own(j)' PROVE c \in Own(j)
    OBVIOUS
  <2>1. c \in bins' /\ c.path = IncompleteBinPath(j)
    BY DEF Own, At, IncompleteBinPath
  <2>2. c \in bins
    BY <1>9, <1>10, <2>1
  <2> QED BY <2>1, <2>2 DEF Own, At
<1>13. TypeOK'
  <2>1. bins' \subseteq [path : Path, bytes : Bytes]
    <3> SUFFICES ASSUME NEW c \in bins' PROVE c \in [path : Path, bytes : Bytes]
      OBVIOUS
    <3>1. CASE c \in bins
      BY <3>1 DEF IndInv, TypeOK
    <3>2. CASE \E b \in Own(id) : c = [path |-> path, bytes |-> b.bytes \o piece]
      BY <1>8, <1>10, <3>2
    <3> QED BY <1>9, <3>1, <3>2
  <2>2. \A b, c \in bins' : b.path = c.path => b = c
    <3> SUFFICES ASSUME NEW b \in bins', NEW c \in bins', b.path = c.path PROVE b = c
      OBVIOUS
    <3>1. CASE b.path # path
      <4>1. b \in bins /\ c \in bins
        BY <1>9, <3>1
      <4> QED BY <4>1 DEF IndInv, TypeOK
    <3>2. CASE b.path = path
      <4>1. PICK b0 \in Own(id) : b = [path |-> path, bytes |-> b0.bytes \o piece]
        BY <1>9, <3>2
      <4>2. PICK c0 \in Own(id) : c = [path |-> path, bytes |-> c0.bytes \o piece]
        BY <1>9, <3>2
      <4>3. b0 = c0
        BY DEF Own, At, IndInv, TypeOK
      <4> QED BY <4>1, <4>2, <4>3
    <3> QED BY <3>1, <3>2
  <2> QED BY <1>6, <1>7, <2>1, <2>2 DEF IndInv, TypeOK
<1>14. StoreInv'
  <2>1. Fresh'
    BY <1>2, <1>7, <1>12 DEF IndInv, StoreInv, Fresh
  <2>2. OwnIsPrefix'
    BY <1>2, <1>7, <1>11, <1>12 DEF IndInv, StoreInv, OwnIsPrefix
  <2>3. BlobsAreContentAddressed' /\ HashIsOfWholeFile'
    BY <1>7, <1>9, <1>10 DEF IndInv, StoreInv, BlobsAreContentAddressed, HashIsOfWholeFile
  <2> QED BY <2>1, <2>2, <2>3 DEF StoreInv
<1>15. Knows(w, proc[w])'
  <2>1. Working(w, proc[w])' /\ Locked(w, proc[w])' /\ Creates(proc[w])'
    BY <1>1, <1>2, <1>5, <1>6, <1>7 DEF Knows, Working, Locked, Creates
  <2>2. Appends(proc[w])'
    BY <1>2, <1>4, <1>5, <1>6, <1>7, <1>11 DEF Appends, path, IncompleteBinPath
  <2>3. Finishes(proc[w])'
    BY <1>5, <1>6 DEF Finishes, Creating, Finishing
  <2> QED BY <2>1, <2>2, <2>3 DEF Knows
<1> QED BY <1>1, <1>2, <1>5, <1>7, <1>12, <1>13, <1>14, <1>15, OwnUploadStep

LEMMA UpdateHashStep ==
  ASSUME IndInv, NEW w \in Worker, UpdateHash(w)
  PROVE  IndInv'
<1> PICK id : id = proc[w].id
  OBVIOUS
<1> DEFINE r == [proc[w] EXCEPT !.at = "rename"]
<1>1. w \in Proc /\ w \notin Gc /\ proc[w] \in Locals /\ Knows(w, proc[w]) /\ proc[w].at = "update"
  BY StoreAssumption DEF UpdateHash, IndInv, TypeOK, Proc
<1>2. /\ r \in Locals /\ proc' = [proc EXCEPT ![w] = r]
      /\ r.at = "rename" /\ r.op = proc[w].op /\ r.id = id /\ r.hash = proc[w].hash
      /\ proc'[w] = r
  BY <1>1, GoingOn, Moved DEF IndInv, UpdateHash, Steps, Finishing
<1>3. /\ id \in Id /\ id \in rows /\ client[id] # None /\ client[id] \in Bytes
      /\ proc[w].hash = client[id]
      /\ \A b \in Own(id) : b.bytes = client[id]
  BY <1>1 DEF IndInv, TypeOK, Knows, Working, Finishes, Finishing
<1>4. /\ sha256sum' = [sha256sum EXCEPT ![id] = client[id]]
      /\ UNCHANGED <<rows, deleted, info, bins, lockfile, client, expired, todo, faults>>
  BY <1>3 DEF UpdateHash, disk
<1>5. /\ sha256sum' \in [Id -> Bytes \union {None}]
      /\ sha256sum'[id] = client[id]
      /\ \A j \in Id : j # id => sha256sum'[j] = sha256sum[j]
  BY <1>3, <1>4 DEF IndInv, TypeOK
<1> HIDE DEF r
<1>6. TypeOK'
  BY <1>1, <1>2, <1>4, <1>5, Moved DEF IndInv, TypeOK
<1>7. \A j \in Id : Own(j)' = Own(j)
  BY <1>4 DEF Own, At, IncompleteBinPath
<1>8. StoreInv'
  <2>1. Fresh'
    BY <1>3, <1>4, <1>5, <1>7 DEF IndInv, StoreInv, Fresh
  <2>2. OwnIsPrefix' /\ BlobsAreContentAddressed'
    BY <1>4, <1>7 DEF IndInv, StoreInv, OwnIsPrefix, BlobsAreContentAddressed
  <2>3. HashIsOfWholeFile'
    BY <1>4, <1>5 DEF IndInv, StoreInv, HashIsOfWholeFile
  <2> QED BY <2>1, <2>2, <2>3 DEF StoreInv
<1>9. Knows(w, proc[w])'
  <2>1. Working(w, proc[w])' /\ Locked(w, proc[w])'
    BY <1>1, <1>2, <1>3, <1>4 DEF Knows, Working, Locked
  <2>2. Creates(proc[w])'
    BY <1>1, <1>2, <1>3, <1>4 DEF Knows, Creates, Finishing
  <2>3. Appends(proc[w])' /\ Finishes(proc[w])'
    BY <1>2, <1>3, <1>4, <1>7 DEF Appends, Finishes, Creating, Finishing
  <2> QED BY <2>1, <2>2, <2>3 DEF Knows
<1>10. \A j \in Id : j # r.id => sha256sum'[j] = sha256sum[j] /\ Own(j)' \subseteq Own(j)
  BY <1>2, <1>5, <1>7
<1> QED BY <1>1, <1>2, <1>4, <1>6, <1>8, <1>9, <1>10, OwnUploadStep

LEMMA RenameBinStep ==
  ASSUME IndInv, NEW w \in Worker, RenameBin(w)
  PROVE  IndInv'
<1> PICK id : id = proc[w].id
  OBVIOUS
<1> DEFINE r == Returned(w)
           old == IncompleteBinPath(id)
           new == CompleteBinPath(client[id])
<1>1. w \in Proc /\ w \notin Gc /\ proc[w] \in Locals /\ Knows(w, proc[w]) /\ proc[w].at = "rename"
  BY StoreAssumption DEF RenameBin, IndInv, TypeOK, Proc
<1>2. /\ r \in Locals /\ proc' = [proc EXCEPT ![w] = r]
      /\ r.at = "respond" /\ r.op = proc[w].op /\ r.id = id /\ proc'[w] = r
      /\ Knows(w, r)
  BY <1>1, Returning, Moved DEF IndInv, RenameBin, Return, Returned, Idle
<1>3. /\ id \in Id /\ client[id] # None /\ client[id] \in Bytes
      /\ proc[w].hash = client[id]
      /\ \A b \in Own(id) : b.bytes = client[id]
  BY <1>1 DEF IndInv, TypeOK, Knows, Working, Finishes, Finishing
<1>4. UNCHANGED <<rows, sha256sum, deleted, info, lockfile, client, expired, todo, faults>>
  BY DEF RenameBin, table
<1>5. \A c \in bins' : \/ c \in bins
                       \/ c = [path |-> new, bytes |-> client[id]]
  BY <1>3 DEF RenameBin, Renamed, Own
<1>6. \A c \in bins' : c.path = new => c = [path |-> new, bytes |-> client[id]]
  <2>1. \A c \in bins : c.path = new => c.bytes = client[id]
    BY DEF IndInv, StoreInv, BlobsAreContentAddressed, CompleteBinPath
  <2>2. \A c \in bins : c.path = new => c = [path |-> new, bytes |-> client[id]]
    BY <2>1 DEF IndInv, TypeOK
  <2> QED BY <1>5, <2>2
<1>7. new \in Path /\ new[1] = "complete" /\ new[2] = client[id]
      /\ \A j \in Id : IncompleteBinPath(j) # new
  BY <1>3 DEF IncompleteBinPath, CompleteBinPath, Path
<1> HIDE DEF r, old, new
<1>8. TypeOK'
  <2>1. bins' \subseteq [path : Path, bytes : Bytes]
    BY <1>3, <1>5, <1>7 DEF IndInv, TypeOK
  <2>2. \A a, b \in bins' : a.path = b.path => a = b
    BY <1>5, <1>6 DEF IndInv, TypeOK
  <2> QED BY <1>1, <1>2, <1>4, <2>1, <2>2, Moved DEF IndInv, TypeOK
<1>9. \A j \in Id : Own(j)' \subseteq Own(j)
  BY <1>5, <1>7 DEF Own, At, IncompleteBinPath
<1>10. StoreInv'
  <2>1. Fresh' /\ OwnIsPrefix'
    BY <1>4, <1>9 DEF IndInv, StoreInv, Fresh, OwnIsPrefix
  <2>2. BlobsAreContentAddressed' /\ HashIsOfWholeFile'
    BY <1>4, <1>5, <1>7 DEF IndInv, StoreInv, BlobsAreContentAddressed, HashIsOfWholeFile
  <2> QED BY <2>1, <2>2 DEF StoreInv
<1>11. Knows(w, proc[w])'
  BY <1>2, <1>4 DEF Knows, Working, Locked, Creates, Appends, Finishes, Creating, Finishing
<1> QED BY <1>1, <1>2, <1>4, <1>8, <1>9, <1>10, <1>11, OwnUploadStep

LEMMA LockUploadStep ==
  ASSUME IndInv, NEW w \in Worker, LockUpload(w)
  PROVE  IndInv'
<1>1. w \in Proc /\ w \notin Gc /\ proc[w] = Idle /\ proc[w] \in Locals
  BY StoreAssumption DEF LockUpload, IndInv, Knows, Working, Proc, TypeOK
<1>2. PICK id \in rows, op \in Methods \ {"POST"} :
        /\ ~Posting(id) /\ LockIsFree(id)
        /\ lockfile' = [lockfile EXCEPT ![id] = w]
        /\ \E off \in IF op = "PATCH" THEN 0 .. Len(client[id]) ELSE {0} :
             proc' = [proc EXCEPT ![w].at = "getinfo", ![w].op = op, ![w].id = id, ![w].off = off]
  BY DEF LockUpload
<1>3. PICK off \in IF op = "PATCH" THEN 0 .. Len(client[id]) ELSE {0} :
        proc' = [proc EXCEPT ![w].at = "getinfo", ![w].op = op, ![w].id = id, ![w].off = off]
  BY <1>2
<1>4. id \in Id /\ client[id] # None /\ client[id] \in Bytes
  BY DEF IndInv, TypeOK, StoreInv, Fresh
<1>5. off \in Nat /\ op \in {"HEAD", "GET", "PATCH", "DELETE"}
  BY <1>4, StoreAssumption DEF Bytes
<1> DEFINE r == [proc[w] EXCEPT !.at = "getinfo", !.op = op, !.id = id, !.off = off]
<1>6. /\ r \in Locals /\ proc' = [proc EXCEPT ![w] = r]
      /\ r.at = "getinfo" /\ r.op # "POST" /\ r.id = id
  BY <1>1, <1>3, <1>4, <1>5 DEF Locals, Steps, IndInv, TypeOK
<1> HIDE DEF r
<1>7. /\ proc' \in [Proc -> Locals]
      /\ proc'[w] = r
      /\ \A q \in Proc \ {w} : proc'[q] = proc[q]
  BY <1>1, <1>6, Moved DEF IndInv
<1>8. UNCHANGED <<rows, sha256sum, deleted, info, bins, client, expired, todo, faults>>
  BY DEF LockUpload, table, disk
<1>9. /\ lockfile' \in [Id -> Worker \union {None}]
      /\ lockfile'[id] = w
      /\ \A j \in Id : j # id => lockfile'[j] = lockfile[j]
  BY <1>2, <1>4 DEF IndInv, TypeOK
<1>10. \A q \in Worker : q # w /\ proc[q].at # "idle" => proc[q].id # id
  <2> SUFFICES ASSUME NEW q \in Worker, proc[q].at # "idle", proc[q].id = id PROVE FALSE
    OBVIOUS
  <2>1. proc[q].op # "POST"
    BY <1>2 DEF Posting
  <2>2. lockfile[id] = q
    BY <2>1 DEF IndInv, Knows, Locked, Proc
  <2> QED BY <1>2, <2>2, StoreAssumption DEF LockIsFree
<1>11. \A q \in Proc : proc[q].op = "POST" => q \in Worker /\ proc[q].at # "idle"
  BY DEF IndInv, Knows, Working, Creates, Creating, Finishing, Proc
<1>12. TypeOK'
  BY <1>7, <1>8, <1>9 DEF IndInv, TypeOK
<1>13. StoreInv'
  BY <1>8 DEF IndInv, StoreInv, Fresh, OwnIsPrefix, Own, At, IncompleteBinPath,
              BlobsAreContentAddressed, HashIsOfWholeFile
<1>14. Alone'
  <2>1. \A q \in Proc \ {w} :
          proc[q].at # "idle" /\ (r.op = "POST" \/ proc[q].op = "POST") => proc[q].id # r.id
    BY <1>6, <1>10, <1>11
  <2> QED BY <1>1, <1>6, <2>1, StartsAlone
<1>15. ASSUME NEW q \in Proc PROVE Knows(q, proc[q])'
  <2>1. CASE q = w
    <3>1. Working(w, proc[w])' /\ Locked(w, proc[w])'
      BY <1>1, <1>4, <1>6, <1>7, <1>8, <1>9 DEF Working, Locked
    <3>2. Creates(proc[w])' /\ Appends(proc[w])' /\ Finishes(proc[w])'
      BY <1>6, <1>7 DEF Creates, Appends, Finishes, Creating, Finishing
    <3> QED BY <2>1, <3>1, <3>2 DEF Knows
  <2>2. CASE q # w
    <3>1. Knows(q, proc[q]) /\ proc'[q] = proc[q]
      BY <1>7, <2>2 DEF IndInv
    <3>2. Own(proc[q].id)' = Own(proc[q].id)
      BY <1>8, <3>1 DEF Own, At, IncompleteBinPath
    <3>3. q \in Worker /\ proc[q].at # "idle" => lockfile'[proc[q].id] = lockfile[proc[q].id]
      BY <1>9, <1>10, <2>2, <3>1 DEF Knows, Working
    <3>4. proc[q].op = "POST" => /\ proc[q].id \notin expired \union deleted
                                 /\ proc[q].at = "insert" => proc[q].id \notin rows
      BY <3>1 DEF Knows, Creates
    <3> QED BY <1>8, <3>1, <3>2, <3>3, <3>4, Undisturbed
  <2> QED BY <2>1, <2>2
<1> QED BY <1>12, <1>13, <1>14, <1>15 DEF IndInv

LEMMA RespondStep ==
  ASSUME IndInv, NEW w \in Worker, Respond(w)
  PROVE  IndInv'
<1> PICK id : id = proc[w].id
  OBVIOUS
<1>1. w \in Proc /\ Knows(w, proc[w]) /\ proc[w].at = "respond" /\ id \in Id
  BY DEF Respond, IndInv, Knows, Working, Proc
<1>2. Idle \in Locals
  BY DEF Idle, Locals, Steps, Path
<1>3. proc' = [proc EXCEPT ![w] = Idle]
  BY DEF Respond
<1>4. /\ proc' \in [Proc -> Locals]
      /\ proc'[w] = Idle
      /\ \A q \in Proc \ {w} : proc'[q] = proc[q]
  BY <1>1, <1>2, <1>3, Moved DEF IndInv
<1>5. UNCHANGED <<rows, sha256sum, deleted, info, bins, client, expired, todo, faults>>
  BY DEF Respond, table, disk
<1>6. /\ lockfile' \in [Id -> Worker \union {None}]
      /\ \A j \in Id : j # id => lockfile'[j] = lockfile[j]
  BY <1>1 DEF Respond, IndInv, TypeOK
<1>7. TypeOK'
  BY <1>4, <1>5, <1>6 DEF IndInv, TypeOK
<1>8. StoreInv'
  BY <1>5 DEF IndInv, StoreInv, Fresh, OwnIsPrefix, Own, At, IncompleteBinPath,
              BlobsAreContentAddressed, HashIsOfWholeFile
<1>9. Alone'
  BY <1>1, <1>2, <1>3, StaysAlone DEF IndInv
<1>10. ASSUME NEW q \in Proc PROVE Knows(q, proc[q])'
  <2>1. CASE q = w
    BY <1>4, <2>1 DEF Idle, Knows, Working, Locked, Creates, Appends, Finishes,
                      Creating, Finishing
  <2>2. CASE q # w
    <3>1. Knows(q, proc[q]) /\ proc'[q] = proc[q]
      BY <1>4, <2>2 DEF IndInv
    <3>2. Own(proc[q].id)' = Own(proc[q].id)
      BY <1>5, <3>1 DEF Own, At, IncompleteBinPath
    <3>3. q \in Worker /\ proc[q].at # "idle" => lockfile'[proc[q].id] = lockfile[proc[q].id]
      BY <1>1, <1>6, <2>2, <3>1, Exclusive DEF Knows, Working
    <3>4. proc[q].op = "POST" => /\ proc[q].id \notin expired \union deleted
                                 /\ proc[q].at = "insert" => proc[q].id \notin rows
      BY <3>1 DEF Knows, Creates
    <3> QED BY <1>5, <3>1, <3>2, <3>3, <3>4, Undisturbed
  <2> QED BY <2>1, <2>2
<1> QED BY <1>7, <1>8, <1>9, <1>10 DEF IndInv

(*****************************************************************************)
(* Deletion, expiry, crashes                                                 *)
(*****************************************************************************)
LEMMA MarkDeletedStep ==
  ASSUME IndInv, NEW p \in Proc, MarkDeleted(p)
  PROVE  IndInv'
<1> PICK id : id = proc[p].id
  OBVIOUS
<1> PICK r : r = Returned(p)
  OBVIOUS
<1>1. Knows(p, proc[p]) /\ proc[p].at = "mark" /\ proc[p].op # "POST"
  BY DEF MarkDeleted, IndInv, Knows, Creates, Creating, Finishing
<1>2. id \in Id /\ id \in rows
  BY <1>1 DEF Knows, Working, Locked, Proc
<1>3. /\ r \in Locals /\ proc' = [proc EXCEPT ![p] = r]
      /\ r = Idle \/ r.id = id
      /\ r = Idle \/ r.op = proc[p].op
      /\ Knows(p, r) /\ r.op # "POST"
  BY <1>1, Returning DEF MarkDeleted, Return, Idle
<1>4. /\ proc' \in [Proc -> Locals]
      /\ proc'[p] = r
      /\ \A q \in Proc \ {p} : proc'[q] = proc[q]
  BY <1>3, Moved DEF IndInv
<1>5. /\ deleted' = deleted \union {id}
      /\ UNCHANGED <<rows, sha256sum, info, bins, lockfile, client, expired, todo, faults>>
  BY DEF MarkDeleted, disk
<1>6. TypeOK'
  BY <1>2, <1>4, <1>5 DEF IndInv, TypeOK
<1>7. StoreInv'
  BY <1>2, <1>5 DEF IndInv, StoreInv, Fresh, OwnIsPrefix, Own, At, IncompleteBinPath,
                    BlobsAreContentAddressed, HashIsOfWholeFile
<1>8. Alone'
  BY <1>1, <1>3, StaysAlone DEF IndInv
<1>9. ASSUME NEW q \in Proc PROVE Knows(q, proc[q])'
  <2>1. CASE q = p
    BY <1>3, <1>4, <1>5, <2>1
       DEF Knows, Working, Locked, Creates, Appends, Finishes, Own, At, IncompleteBinPath
  <2>2. CASE q # p
    <3>1. Knows(q, proc[q]) /\ proc'[q] = proc[q]
      BY <1>4, <2>2 DEF IndInv
    <3>2. Own(proc[q].id)' = Own(proc[q].id)
      BY <1>5, <3>1 DEF Own, At, IncompleteBinPath
    <3>3. proc[q].op = "POST" => q \in Worker /\ proc[q].id # id
      BY <1>1, <2>2, <3>1 DEF IndInv, Alone, Knows, Working, Proc
    <3>4. proc[q].op = "POST" => /\ proc[q].id \notin expired \union deleted'
                                 /\ proc[q].at = "insert" => proc[q].id \notin rows
      BY <1>5, <3>1, <3>3 DEF Knows, Creates
    <3> QED BY <1>5, <3>1, <3>2, <3>4, Undisturbed
  <2> QED BY <2>1, <2>2
<1> QED BY <1>6, <1>7, <1>8, <1>9 DEF IndInv

LEMMA ExpireStep ==
  ASSUME IndInv, NEW id \in Id, Expire(id)
  PROVE  IndInv'
<1>1. /\ id \in rows /\ expired' = expired \union {id}
      /\ UNCHANGED <<rows, sha256sum, deleted, info, bins, lockfile, client, proc, todo, faults>>
  BY DEF Expire, table, disk
<1>2. TypeOK' /\ StoreInv' /\ Alone'
  BY <1>1 DEF IndInv, TypeOK, StoreInv, Alone, Fresh, OwnIsPrefix, Own, At, IncompleteBinPath,
              BlobsAreContentAddressed, HashIsOfWholeFile
<1>3. ASSUME NEW q \in Proc PROVE Knows(q, proc[q])'
  <2>1. Knows(q, proc[q]) /\ proc'[q] = proc[q]
    BY <1>1 DEF IndInv
  <2>2. Own(proc[q].id)' = Own(proc[q].id)
    BY <1>1 DEF Own, At, IncompleteBinPath
  <2>3. proc[q].op = "POST" => q \in Worker
    BY <2>1 DEF Knows, Working, Proc
  <2>4. proc[q].op = "POST" => /\ proc[q].id \notin expired' \union deleted
                               /\ proc[q].at = "insert" => proc[q].id \notin rows
    BY <1>1, <2>1, <2>3 DEF Knows, Creates, Expire, Posting
  <2> QED BY <1>1, <2>1, <2>2, <2>4, Undisturbed
<1> QED BY <1>2, <1>3 DEF IndInv

LEMMA TickStep ==
  ASSUME IndInv, NEW g \in Gc, Tick(g)
  PROVE  IndInv'
<1>1. /\ todo' = [todo EXCEPT ![g] = expired \ deleted]
      /\ UNCHANGED <<rows, sha256sum, deleted, info, bins, lockfile, client, expired, proc, faults>>
  BY DEF Tick, table, disk
<1>2. TypeOK' /\ Alone'
  BY <1>1 DEF IndInv, TypeOK, Alone
<1>3. StoreInv'
  <2>1. Fresh'
    BY <1>1 DEF IndInv, TypeOK, StoreInv, Fresh, Own, At, IncompleteBinPath
  <2>2. OwnIsPrefix' /\ BlobsAreContentAddressed' /\ HashIsOfWholeFile'
    BY <1>1 DEF IndInv, StoreInv, OwnIsPrefix, Own, At, IncompleteBinPath,
                BlobsAreContentAddressed, HashIsOfWholeFile
  <2> QED BY <2>1, <2>2 DEF StoreInv
<1>4. \A q \in Proc : Knows(q, proc[q])'
  BY <1>1 DEF IndInv, Knows, Working, Locked, Creates, Appends, Finishes, Own, At,
              IncompleteBinPath
<1> QED BY <1>2, <1>3, <1>4 DEF IndInv

LEMMA NextExpiredStep ==
  ASSUME IndInv, NEW g \in Gc, NextExpired(g)
  PROVE  IndInv'
<1>1. g \in Proc /\ g \notin Worker /\ proc[g] = Idle /\ proc[g] \in Locals
  BY StoreAssumption DEF NextExpired, IndInv, Knows, Working, Proc, TypeOK
<1>2. PICK id \in todo[g] :
        /\ todo' = [todo EXCEPT ![g] = @ \ {id}]
        /\ proc' = [proc EXCEPT ![g].at = "count", ![g].op = "gc", ![g].id = id]
  BY DEF NextExpired
<1>3. id \in Id /\ id \in rows /\ client[id] # None
  BY DEF IndInv, TypeOK, StoreInv, Fresh
<1> DEFINE r == [proc[g] EXCEPT !.at = "count", !.op = "gc", !.id = id]
<1>4. /\ r \in Locals /\ proc' = [proc EXCEPT ![g] = r]
      /\ r.at = "count" /\ r.op = "gc" /\ r.id = id
  BY <1>1, <1>2, <1>3 DEF Locals, Steps, Terminating, IndInv, TypeOK
<1> HIDE DEF r
<1>5. /\ proc' \in [Proc -> Locals]
      /\ proc'[g] = r
      /\ \A q \in Proc \ {g} : proc'[q] = proc[q]
  BY <1>1, <1>4, Moved DEF IndInv
<1>6. UNCHANGED <<rows, sha256sum, deleted, info, bins, lockfile, client, expired, faults>>
  BY DEF NextExpired, table, disk
<1>7. todo' \in [Gc -> SUBSET Id] /\ \A h \in Gc : todo'[h] \subseteq todo[h]
  BY <1>2 DEF IndInv, TypeOK
<1>8. TypeOK'
  BY <1>5, <1>6, <1>7 DEF IndInv, TypeOK
<1>9. StoreInv'
  BY <1>6, <1>7 DEF IndInv, StoreInv, Fresh, OwnIsPrefix, Own, At, IncompleteBinPath,
                    BlobsAreContentAddressed, HashIsOfWholeFile
<1>10. \A q \in Proc : proc[q].op = "POST" => proc[q].id \notin todo[g]
  BY DEF IndInv, Knows, Creates, StoreInv, Fresh
<1>11. Alone'
  <2>1. \A q \in Proc \ {g} :
          proc[q].at # "idle" /\ (r.op = "POST" \/ proc[q].op = "POST") => proc[q].id # r.id
    BY <1>4, <1>10
  <2> QED BY <1>1, <1>4, <2>1, StartsAlone
<1>12. ASSUME NEW q \in Proc PROVE Knows(q, proc[q])'
  <2>1. CASE q = g
    <3>1. Working(g, proc[g])' /\ Locked(g, proc[g])'
      BY <1>1, <1>3, <1>4, <1>5, <1>6 DEF Working, Locked, Terminating
    <3>2. Creates(proc[g])' /\ Appends(proc[g])' /\ Finishes(proc[g])'
      BY <1>4, <1>5 DEF Creates, Appends, Finishes, Creating, Finishing
    <3> QED BY <2>1, <3>1, <3>2 DEF Knows
  <2>2. CASE q # g
    <3>1. Knows(q, proc[q]) /\ proc'[q] = proc[q]
      BY <1>5, <2>2 DEF IndInv
    <3>2. Own(proc[q].id)' = Own(proc[q].id)
      BY <1>6, <3>1 DEF Own, At, IncompleteBinPath
    <3>3. proc[q].op = "POST" => /\ proc[q].id \notin expired \union deleted
                                 /\ proc[q].at = "insert" => proc[q].id \notin rows
      BY <3>1 DEF Knows, Creates
    <3> QED BY <1>6, <3>1, <3>2, <3>3, Undisturbed
  <2> QED BY <2>1, <2>2
<1> QED BY <1>8, <1>9, <1>11, <1>12 DEF IndInv

LEMMA CrashStep ==
  ASSUME IndInv, Crash
  PROVE  IndInv'
<1>1. /\ proc' = [p \in Proc |-> Idle] /\ lockfile' = [id \in Id |-> None]
      /\ todo' = [g \in Gc |-> {}] /\ faults' \in 0 .. MaxFaults
      /\ UNCHANGED <<rows, sha256sum, deleted, info, bins, client, expired>>
  BY StoreAssumption DEF Crash, Fault, table, disk, IndInv, TypeOK
<1>2. Idle \in Locals
  BY DEF Idle, Locals, Steps, Path
<1>3. TypeOK'
  BY <1>1, <1>2 DEF IndInv, TypeOK
<1>4. StoreInv'
  BY <1>1 DEF IndInv, StoreInv, Fresh, OwnIsPrefix, Own, At, IncompleteBinPath,
              BlobsAreContentAddressed, HashIsOfWholeFile
<1>5. Alone'
  BY <1>1 DEF Alone, Idle, Proc
<1>6. \A q \in Proc : Knows(q, proc[q])'
  BY <1>1 DEF Idle, Knows, Working, Locked, Creates, Appends, Finishes, Creating, Finishing
<1> QED BY <1>3, <1>4, <1>5, <1>6 DEF IndInv

(*****************************************************************************)
(* The theorems                                                              *)
(*****************************************************************************)
LEMMA IndInvInit ==
  ASSUME Init
  PROVE  IndInv
<1>1. Idle \in Locals
  BY DEF Idle, Locals, Steps, Path
<1>2. TypeOK
  BY <1>1, StoreAssumption DEF Init, TypeOK
<1>3. StoreInv
  BY DEF Init, StoreInv, Fresh, OwnIsPrefix, Own, At, BlobsAreContentAddressed,
         HashIsOfWholeFile
<1>4. Alone
  BY DEF Init, Alone, Idle, Proc
<1>5. \A q \in Proc : Knows(q, proc[q])
  BY DEF Init, Idle, Knows, Working, Locked, Creates, Appends, Finishes, Creating, Finishing
<1> QED BY <1>2, <1>3, <1>4, <1>5 DEF IndInv

LEMMA IndInvNext ==
  ASSUME IndInv, [Next]_vars
  PROVE  IndInv'
<1>1. ASSUME NEW w \in Worker,
             NewUpload(w) \/ LockUpload(w) \/ CopyPiece(w) \/ CopyEnds(w) \/ Serve(w)
      PROVE  IndInv'
  <2>1. w \in Proc
    BY DEF Proc
  <2>2. CASE Terminate(w)
    BY <2>1, <2>2, CountDuplicatesStep, LookupBinPathStep, RemoveInfoStep, RemoveBinStep,
       MarkDeletedStep DEF Terminate
  <2>3. CASE InsertRow(w) \/ CreateBin(w) \/ WriteInfo(w) \/ GetInfo(w) \/ GetReader(w)
             \/ OpenBin(w) \/ HashFile(w) \/ UpdateHash(w) \/ RenameBin(w) \/ Respond(w)
    BY <2>3, InsertRowStep, CreateBinStep, WriteInfoStep, GetInfoStep, GetReaderStep,
       OpenBinStep, HashFileStep, UpdateHashStep, RenameBinStep, RespondStep
  <2> QED BY <1>1, <2>2, <2>3, NewUploadStep, LockUploadStep, CopyPieceStep, CopyEndsStep
             DEF Serve
<1>2. ASSUME NEW g \in Gc, Collect(g)
      PROVE  IndInv'
  BY <1>2, TickStep, NextExpiredStep, CountDuplicatesStep, LookupBinPathStep, RemoveInfoStep,
     RemoveBinStep, MarkDeletedStep DEF Collect, Terminate, Proc
<1>3. CASE \E id \in Id : Expire(id)
  BY <1>3, ExpireStep
<1>4. CASE \E p \in Proc : CallFails(p) \/ RemoveDirFails(p) \/ UnlinkFails(p)
  BY <1>4, FailureStep, UnlinkFailsStep
<1>5. CASE Crash
  BY <1>5, CrashStep
<1>6. CASE UNCHANGED vars
  BY <1>6 DEF vars, table, disk, IndInv, TypeOK, StoreInv, Fresh, OwnIsPrefix, Own, At,
              IncompleteBinPath, BlobsAreContentAddressed, HashIsOfWholeFile, Alone, Knows,
              Working, Locked, Creates, Appends, Finishes
<1> QED BY <1>1, <1>2, <1>3, <1>4, <1>5, <1>6 DEF Next

\* The binPath of every upload holds its own bytes: OwnIsPrefix for one that is
\* not finished, and for a finished one the two facts about digests.
LEMMA OwnBytes ==
  ASSUME IndInv
  PROVE  ServesOwnBytes
<1> SUFFICES ASSUME NEW id \in rows, NEW b \in At(BinPath(id))
             PROVE  client[id] # None /\ IsPrefix(b.bytes, client[id])
  BY DEF ServesOwnBytes
<1>1. id \in Id /\ client[id] # None /\ client[id] \in Bytes
  BY DEF IndInv, TypeOK, StoreInv, Fresh
<1>2. CASE sha256sum[id] = None
  BY <1>1, <1>2 DEF BinPath, Own, IndInv, StoreInv, OwnIsPrefix
<1>3. CASE sha256sum[id] # None
  <2>1. b \in bins /\ b.path = CompleteBinPath(sha256sum[id])
    BY <1>3 DEF BinPath, At
  <2>2. b.bytes = client[id]
    BY <1>1, <1>3, <2>1 DEF IndInv, StoreInv, BlobsAreContentAddressed, HashIsOfWholeFile,
                            CompleteBinPath
  <2>3. IsPrefix(client[id], client[id])
    BY <1>1, SubSeqFull DEF IsPrefix, Bytes
  <2> QED BY <1>1, <2>2, <2>3
<1> QED BY <1>2, <1>3

\* The invariant holds in every behaviour.
THEOREM Invariant == Spec => []IndInv
<1>1. Init => IndInv
  BY IndInvInit
<1>2. IndInv /\ [Next]_vars => IndInv'
  BY IndInvNext
<1> QED BY <1>1, <1>2, PTL DEF Spec

\* Variables keep their types, and no two files have the same path, with any
\* number of uploads, requests, expirers and failures.
THEOREM Typed == Spec => []TypeOK
<1>1. IndInv => TypeOK
  BY DEF IndInv
<1> QED BY <1>1, Invariant, PTL

\* What binPath(id) names is a prefix of the file of id's own client, whatever
\* requests, expirers, failures and crashes interleave.
THEOREM OwnBytesServed == Spec => []ServesOwnBytes
<1>1. IndInv => ServesOwnBytes
  BY OwnBytes
<1> QED BY <1>1, Invariant, PTL

\* A blob under complete/ always has the digest it is named by.
THEOREM BlobsStayAddressed == Spec => []BlobsAreContentAddressed
<1>1. IndInv => BlobsAreContentAddressed
  BY DEF IndInv, StoreInv
<1> QED BY <1>1, Invariant, PTL

\* The digest recorded for an upload is that of its whole file.
THEOREM WholeFilesAreHashed == Spec => []HashIsOfWholeFile
<1>1. IndInv => HashIsOfWholeFile
  BY DEF IndInv, StoreInv
<1> QED BY <1>1, Invariant, PTL

(*****************************************************************************)
(* What a goroutine knows that is about to remove or to move a file: that    *)
(* the .info is gone (rmbin, mark), that the path it has looked up is still  *)
(* that of its own upload (rminfo, rmbin), that the .bin is there (info),    *)
(* and that the digest is recorded (rename).                                 *)
(*****************************************************************************)
UnlinkWorks == "unlink" \notin FaultKinds

ClientSends == \A id \in Id : client[id] # None => client[id] \in ClientFile[id]

\* Terminate removes the file its upload had, or the one its digest names.
LooksAt(r) == r.at \in {"rminfo", "rmbin"} =>
                \/ r.path = IncompleteBinPath(r.id)
                \/ sha256sum[r.id] # None /\ r.path = CompleteBinPath(sha256sum[r.id])

Removal(r) ==
  /\ r.at \in {"rmbin", "mark"} => r.id \notin info
  /\ LooksAt(r)
  /\ r.at = "info" => Own(r.id) # {}
  /\ r.at = "rename" => sha256sum[r.id] = r.hash

LossInv == /\ ClientSends /\ DeletedHasNoInfo /\ UnfinishedHasBin
           /\ \A p \in Proc : Removal(proc[p])

(*****************************************************************************)
(* Steps of one goroutine                                                    *)
(*****************************************************************************)

\* A digest once recorded is kept.
DigestsStay == \A id \in Id : sha256sum[id] # None => sha256sum'[id] = sha256sum[id]

\* What the others know survives a step of p that writes the .info and removes
\* the unfinished .bin of its own upload only.
LEMMA OthersKnow ==
  ASSUME IndInv, LossInv, NEW p \in Proc, NEW q \in Proc \ {p}, proc'[q] = proc[q],
         DigestsStay,
         \A id \in info' \ info : /\ p \in Worker /\ proc[p].op = "POST"
                                  /\ proc[p].id = id,
         \A id \in Id : Own(id) # {} /\ Own(id)' = {} =>
                          proc[p].at # "idle" /\ proc[p].id = id
  PROVE  Removal(proc[q])'
<1>1. Knows(q, proc[q]) /\ Removal(proc[q]) /\ q \in Proc
  BY DEF IndInv, LossInv
<1>2. proc[q].at # "idle" => proc[q].id \in Id /\ client[proc[q].id] # None
  BY <1>1 DEF Knows, Working
<1>3. ASSUME proc[q].at \in {"rmbin", "mark"} PROVE proc[q].id \notin info'
  <2>1. proc[q].at # "idle" /\ proc[q].id \notin info
    BY <1>1, <1>3 DEF Removal
  <2> QED BY <2>1 DEF IndInv, Alone
<1>4. ASSUME proc[q].at \in {"rminfo", "rmbin"}
      PROVE  \/ proc[q].path = IncompleteBinPath(proc[q].id)
             \/ /\ sha256sum'[proc[q].id] # None
                /\ proc[q].path = CompleteBinPath(sha256sum'[proc[q].id])
  BY <1>1, <1>2, <1>4 DEF Removal, LooksAt, DigestsStay
<1>5. ASSUME proc[q].at = "info" PROVE Own(proc[q].id)' # {}
  <2>1. proc[q].op = "POST" /\ q \in Worker /\ Own(proc[q].id) # {} /\ proc[q].id \in Id
    BY <1>1, <1>2, <1>5 DEF Knows, Finishes, Creating, Working, Proc, Removal
  <2>2. proc[p].at # "idle" => proc[p].id # proc[q].id
    BY <2>1 DEF IndInv, Alone
  <2>3. PICK id \in Id : id = proc[q].id
    BY <2>1
  <2>4. Own(id)' # {}
    BY <2>1, <2>2, <2>3
  <2>5. proc'[q].id = id
    BY <2>3
  <2> QED BY <2>4, <2>5 DEF Own, At, IncompleteBinPath
<1>6. ASSUME proc[q].at = "rename" PROVE sha256sum'[proc[q].id] = proc[q].hash
  <2>1. proc[q].hash = client[proc[q].id] /\ sha256sum[proc[q].id] = proc[q].hash
    BY <1>1, <1>6 DEF Knows, Finishes, Removal
  <2> QED BY <1>2, <1>6, <2>1 DEF DigestsStay
<1> QED BY <1>3, <1>4, <1>5, <1>6 DEF Removal, LooksAt, Own, At

\* A goroutine at any other step need know nothing.
Careless == Steps \ {"rminfo", "rmbin", "mark", "info", "rename"}

LEMMA CarelessKnows ==
  ASSUME NEW p \in Proc, proc'[p].at \in Careless
  PROVE  Removal(proc[p])'
BY DEF Careless, Removal, LooksAt

\* A step that leaves records and .info files alone, and a file wherever there
\* was one.
LEMMA QuietLoss ==
  ASSUME IndInv, LossInv, ClientSends',
         NEW p \in Proc, \A q \in Proc \ {p} : proc'[q] = proc[q],
         UNCHANGED <<sha256sum, deleted, info>>,
         \A path : At(path) # {} => At(path)' # {},
         Removal(proc[p])'
  PROVE  LossInv'
<1>1. \A id : Own(id) # {} => Own(id)' # {}
  BY DEF Own
<1>2. \A q \in Proc : Removal(proc[q])'
  BY <1>1, OthersKnow DEF DigestsStay
<1>3. DeletedHasNoInfo' /\ UnfinishedHasBin'
  BY <1>1 DEF LossInv, DeletedHasNoInfo, UnfinishedHasBin, Own
<1> QED BY <1>2, <1>3 DEF LossInv

\* The same, for a step to one that removes and moves nothing.
LEMMA CarelessStep ==
  ASSUME IndInv, LossInv, ClientSends',
         NEW p \in Proc, \A q \in Proc \ {p} : proc'[q] = proc[q],
         proc'[p].at \in Careless,
         UNCHANGED <<sha256sum, deleted, info>>,
         \A path : At(path) # {} => At(path)' # {}
  PROVE  LossInv'
<1>1. Removal(proc[p])'
  BY CarelessKnows
<1> QED BY <1>1, QuietLoss

LEMMA ReturnedIsCareless ==
  ASSUME IndInv, NEW p \in Proc, Return(p)
  PROVE  /\ proc'[p].at \in {"idle", "respond"} /\ proc'[p].at \in Careless
         /\ \A q \in Proc \ {p} : proc'[q] = proc[q]
<1>1. Returned(p).at \in {"idle", "respond"}
  BY DEF Returned, Idle
<1>2. proc'[p] = Returned(p) /\ \A q \in Proc \ {p} : proc'[q] = proc[q]
  BY DEF Return, IndInv, TypeOK
<1> QED BY <1>1, <1>2 DEF Careless, Steps

\* A goroutine that only goes on to another step.
LEMMA GoesOn ==
  ASSUME IndInv, NEW p \in Proc, NEW step, Goto(p, step)
  PROVE  /\ proc'[p].at = step
         /\ proc'[p].id = proc[p].id /\ proc'[p].op = proc[p].op
         /\ proc'[p].hash = proc[p].hash /\ proc'[p].path = proc[p].path
         /\ proc'[p].shared = proc[p].shared
         /\ \A q \in Proc \ {p} : proc'[q] = proc[q]
BY DEF Goto, IndInv, TypeOK, Locals

(*****************************************************************************)
(* The actions                                                               *)
(*****************************************************************************)
\* None of these steps goes to one that removes or moves a file.
LEMMA RequestMoves ==
  ASSUME IndInv, NEW w \in Worker,
         \/ NewUpload(w) \/ LockUpload(w) \/ InsertRow(w) \/ GetInfo(w) \/ GetReader(w)
         \/ OpenBin(w) \/ CopyEnds(w) \/ HashFile(w) \/ Respond(w)
  PROVE  /\ proc'[w].at \in Careless \ {"lookup"}
         /\ proc'[w].at = "update" => HashFile(w)
         /\ \A q \in Proc \ {w} : proc'[q] = proc[q]
<1> DEFINE Moves == /\ proc'[w].at \in Careless \ {"lookup", "update"}
                    /\ \A q \in Proc \ {w} : proc'[q] = proc[q]
<1>0. w \in Proc /\ proc[w] \in Locals /\ proc \in [Proc -> Locals]
  BY DEF IndInv, TypeOK, Proc
<1>1. ASSUME Return(w) PROVE Moves
  BY <1>0, <1>1, ReturnedIsCareless
<1>2. ASSUME NEW step \in {"create", "count", "read", "open", "hash"}, Goto(w, step)
      PROVE  Moves
  BY <1>0, <1>2, GoesOn DEF Careless, Steps, Creating, Finishing, Terminating
<1>3. ASSUME NewUpload(w) PROVE Moves
  <2>1. PICK id \in Id : proc' = [proc EXCEPT ![w].at = "insert", ![w].op = "POST",
                                             ![w].id = id]
    BY <1>3 DEF NewUpload
  <2>2. proc'[w].at = "insert" /\ \A q \in Proc \ {w} : proc'[q] = proc[q]
    BY <1>0, <2>1 DEF Locals
  <2> QED BY <2>2 DEF Careless, Steps, Creating
<1>4. ASSUME LockUpload(w) PROVE Moves
  <2>1. PICK id \in rows, op \in Methods \ {"POST"} :
          \E off \in IF op = "PATCH" THEN 0 .. Len(client[id]) ELSE {0} :
            proc' = [proc EXCEPT ![w].at = "getinfo", ![w].op = op,
                                 ![w].id = id, ![w].off = off]
    BY <1>4 DEF LockUpload
  <2>2. PICK off : proc' = [proc EXCEPT ![w].at = "getinfo", ![w].op = op,
                                        ![w].id = id, ![w].off = off]
    BY <2>1
  <2>3. proc'[w].at = "getinfo" /\ \A q \in Proc \ {w} : proc'[q] = proc[q]
    BY <1>0, <2>2 DEF Locals
  <2> QED BY <2>3 DEF Careless, Steps
<1>5. ASSUME Respond(w) PROVE Moves
  BY <1>0, <1>5 DEF Respond, Idle, Careless, Steps
<1>6. ASSUME OpenBin(w) PROVE Moves
  BY <1>0, <1>1, <1>6 DEF OpenBin, Locals, Careless, Steps
<1>7. ASSUME HashFile(w)
      PROVE  /\ proc'[w].at \in Careless \ {"lookup"}
             /\ \A q \in Proc \ {w} : proc'[q] = proc[q]
  BY <1>0, <1>1, <1>7 DEF HashFile, Locals, Careless, Steps, Finishing
<1>8. ASSUME InsertRow(w) \/ GetReader(w) \/ CopyEnds(w) PROVE Moves
  BY <1>1, <1>2, <1>8 DEF InsertRow, GetReader, CopyEnds
<1>9. ASSUME GetInfo(w) PROVE Moves
  BY <1>1, <1>2, <1>9 DEF GetInfo, AfterGetInfo
<1> QED BY <1>3, <1>4, <1>5, <1>6, <1>7, <1>8, <1>9

LEMMA RequestSteps ==
  ASSUME IndInv, LossInv, NEW w \in Worker,
         \/ NewUpload(w) \/ LockUpload(w) \/ InsertRow(w) \/ GetInfo(w) \/ GetReader(w)
         \/ OpenBin(w) \/ CopyEnds(w) \/ HashFile(w) \/ Respond(w)
  PROVE  LossInv'
<1>1. w \in Proc /\ proc[w] \in Locals /\ proc \in [Proc -> Locals]
  BY DEF IndInv, TypeOK, Proc
<1>2. UNCHANGED <<sha256sum, deleted, info, bins>>
  BY DEF NewUpload, LockUpload, InsertRow, GetInfo, GetReader, OpenBin, CopyEnds, HashFile,
         Respond, table, disk
<1>3. \A path : At(path)' = At(path)
  BY <1>2 DEF At
<1>4. ClientSends'
  <2>1. CASE NewUpload(w)
    BY <2>1 DEF NewUpload, LossInv, ClientSends, IndInv, TypeOK
  <2>2. CASE client' = client
    BY <2>2 DEF LossInv, ClientSends
  <2> QED BY <2>1, <2>2 DEF LockUpload, InsertRow, GetInfo, GetReader, OpenBin, CopyEnds,
                            HashFile, Respond
<1>5. proc'[w].at \in Careless /\ \A q \in Proc \ {w} : proc'[q] = proc[q]
  BY RequestMoves
<1>6. \A path : At(path) # {} => At(path)' # {}
  BY <1>3
<1>7. UNCHANGED <<sha256sum, deleted, info>>
  BY <1>2
<1> QED BY <1>1, <1>4, <1>5, <1>6, <1>7, CarelessStep

\* Appending to a file leaves a file wherever there was one.
LEMMA AppendKeeps ==
  ASSUME NEW old, NEW bytes, NEW path, At(path) # {}
  PROVE  \E c \in Appended(old, bytes) : c.path = path
<1>1. PICK b \in bins : b.path = path
  BY DEF At
<1>2. CASE path = old
  <2>1. [path |-> old, bytes |-> b.bytes \o bytes] \in Appended(old, bytes)
    BY <1>1, <1>2 DEF Appended
  <2> QED BY <1>2, <2>1
<1>3. CASE path # old
  <2>1. b \in Appended(old, bytes)
    BY <1>1, <1>3 DEF Appended
  <2> QED BY <1>1, <2>1
<1> QED BY <1>2, <1>3

LEMMA CopyPieceLoss ==
  ASSUME IndInv, LossInv, NEW w \in Worker, CopyPiece(w)
  PROVE  LossInv'
<1>1. w \in Proc /\ proc \in [Proc -> Locals] /\ ClientSends'
  BY DEF IndInv, TypeOK, Proc, CopyPiece, LossInv, ClientSends
<1>2. PICK n : /\ proc' = [proc EXCEPT ![w].off = n]
               /\ bins' = Appended(proc[w].path, SubSeq(client[proc[w].id], proc[w].off + 1, n))
  BY DEF CopyPiece
<1>3. proc'[w].at = "copy" /\ \A q \in Proc \ {w} : proc'[q] = proc[q]
  BY <1>1, <1>2 DEF CopyPiece, Locals
<1>4. \A path : At(path) # {} => At(path)' # {}
  <2>1. PICK old, bytes : bins' = Appended(old, bytes)
    BY <1>2
  <2>2. ASSUME NEW path, At(path) # {} PROVE \E c \in bins' : c.path = path
    BY <2>1, <2>2, AppendKeeps
  <2> QED BY <2>2 DEF At
<1>5. Removal(proc[w])'
  BY <1>1, <1>3, CarelessKnows DEF Careless, Steps
<1>6. UNCHANGED <<sha256sum, deleted, info>>
  BY DEF CopyPiece, table
<1> QED BY <1>1, <1>3, <1>4, <1>5, <1>6, QuietLoss

LEMMA CreateBinLoss ==
  ASSUME IndInv, LossInv, NEW w \in Worker, CreateBin(w)
  PROVE  LossInv'
<1>1. w \in Proc /\ proc[w] \in Locals /\ Knows(w, proc[w]) /\ ClientSends'
  BY DEF IndInv, TypeOK, Proc, CreateBin, LossInv, ClientSends
<1>2. PICK id \in Id : id = proc[w].id /\ sha256sum[id] = None
  BY <1>1 DEF CreateBin, Knows, Working, Finishes, Creating
<1>3. proc'[w].at = "info" /\ proc'[w].id = id
      /\ \A q \in Proc \ {w} : proc'[q] = proc[q]
  BY <1>1, <1>2 DEF CreateBin, Goto, IndInv, TypeOK, Locals
<1>4. bins \subseteq bins'
  BY DEF CreateBin
<1>5. Own(id)' # {}
  <2>1. BinPath(id) = IncompleteBinPath(id)
    BY <1>2 DEF BinPath
  <2>2. CASE At(IncompleteBinPath(id)) = {}
    <3>1. [path |-> IncompleteBinPath(id), bytes |-> <<>>] \in bins'
      BY <1>2, <2>1, <2>2 DEF CreateBin
    <3> QED BY <3>1 DEF Own, At, IncompleteBinPath
  <2>3. CASE At(IncompleteBinPath(id)) # {}
    BY <1>4, <2>3 DEF Own, At, IncompleteBinPath
  <2> QED BY <2>2, <2>3
<1>6. Own(proc[w].id)' # {}
  BY <1>3, <1>5 DEF Own, At, IncompleteBinPath
<1>7. Removal(proc[w])'
  BY <1>3, <1>6 DEF Removal, LooksAt
<1>8. UNCHANGED <<sha256sum, deleted, info>>
  BY DEF CreateBin, table
<1>9. \A path : At(path) # {} => At(path)' # {}
  BY <1>4 DEF At
<1> QED BY <1>1, <1>3, <1>7, <1>8, <1>9, QuietLoss

LEMMA WriteInfoLoss ==
  ASSUME IndInv, LossInv, NEW w \in Worker, WriteInfo(w)
  PROVE  LossInv'
<1>1. w \in Proc /\ Knows(w, proc[w]) /\ Removal(proc[w])
  BY DEF IndInv, LossInv, Proc
<1>2. PICK id \in Id : id = proc[w].id
  BY <1>1 DEF WriteInfo, Knows, Working
<1>3. /\ proc[w].op = "POST" /\ Own(id) # {}
      /\ sha256sum[id] = None /\ id \notin deleted
  BY <1>1, <1>2 DEF WriteInfo, Knows, Creates, Finishes, Creating, Removal
<1>4. /\ info' = info \union {id}
      /\ UNCHANGED <<sha256sum, deleted, bins, client>>
  BY <1>2 DEF WriteInfo, table
<1>5. \A path : At(path)' = At(path)
  BY <1>4 DEF At
<1>6. proc'[w].at \in Careless /\ \A q \in Proc \ {w} : proc'[q] = proc[q]
  <2>1. CASE Return(w)
    BY <1>1, <2>1, ReturnedIsCareless
  <2>2. CASE Goto(w, "hash")
    BY <1>1, <2>2, GoesOn DEF Careless, Steps, Finishing
  <2> QED BY <2>1, <2>2 DEF WriteInfo
<1>7. \A p \in Proc : Removal(proc[p])'
  <2>1. \A i \in Id : Own(i)' = Own(i)
    BY <1>5 DEF Own
  <2>2. ASSUME NEW q \in Proc \ {w} PROVE Removal(proc[q])'
    BY <1>1, <1>2, <1>3, <1>4, <1>6, <2>1, OthersKnow DEF DigestsStay
  <2> QED BY <1>1, <1>6, <2>2, CarelessKnows
<1>8. ClientSends' /\ DeletedHasNoInfo' /\ UnfinishedHasBin'
  BY <1>3, <1>4, <1>5 DEF LossInv, ClientSends, DeletedHasNoInfo, UnfinishedHasBin, Own
<1> QED BY <1>7, <1>8 DEF LossInv

LEMMA UpdateHashLoss ==
  ASSUME IndInv, LossInv, NEW w \in Worker, UpdateHash(w)
  PROVE  LossInv'
<1>1. w \in Proc /\ Knows(w, proc[w]) /\ Removal(proc[w])
  BY DEF IndInv, LossInv, Proc
<1>2. PICK id \in Id : id = proc[w].id
  BY <1>1 DEF UpdateHash, Knows, Working
<1>3. PICK hash \in Bytes : hash = proc[w].hash
  BY <1>1, <1>2 DEF UpdateHash, Knows, Finishes, Working, IndInv, TypeOK
<1>4. /\ sha256sum[id] = None /\ sha256sum' = [sha256sum EXCEPT ![id] = hash]
      /\ UNCHANGED <<info, deleted, bins, client>>
  BY <1>1, <1>2, <1>3 DEF UpdateHash, Knows, Finishes, disk
<1>5. hash # None /\ sha256sum'[id] = hash
      /\ \A i \in Id \ {id} : sha256sum'[i] = sha256sum[i]
  BY <1>4, StoreAssumption DEF IndInv, TypeOK
<1>6. \A path : At(path)' = At(path)
  BY <1>4 DEF At
<1>7. /\ proc'[w].at = "rename" /\ proc'[w].id = id /\ proc'[w].hash = hash
      /\ \A q \in Proc \ {w} : proc'[q] = proc[q]
  BY <1>1, <1>2, <1>3, GoesOn DEF UpdateHash
<1>8. \A p \in Proc : Removal(proc[p])'
  <2>1. \A i \in Id : Own(i)' = Own(i)
    BY <1>6 DEF Own
  <2>2. DigestsStay
    BY <1>4, <1>5 DEF DigestsStay
  <2>3. ASSUME NEW q \in Proc \ {w} PROVE Removal(proc[q])'
    BY <1>1, <1>4, <1>7, <2>1, <2>2, OthersKnow
  <2>4. Removal(proc[w])'
    BY <1>5, <1>7 DEF Removal, LooksAt
  <2> QED BY <2>3, <2>4
<1>9. ClientSends' /\ DeletedHasNoInfo' /\ UnfinishedHasBin'
  <2>1. ClientSends' /\ DeletedHasNoInfo'
    BY <1>4 DEF LossInv, ClientSends, DeletedHasNoInfo
  <2>2. UnfinishedHasBin'
    BY <1>4, <1>5, <1>6 DEF LossInv, UnfinishedHasBin, IndInv, TypeOK
  <2> QED BY <2>1, <2>2
<1> QED BY <1>8, <1>9 DEF LossInv

LEMMA RenameBinLoss ==
  ASSUME IndInv, LossInv, NEW w \in Worker, RenameBin(w)
  PROVE  LossInv'
<1>1. w \in Proc /\ Knows(w, proc[w]) /\ Removal(proc[w])
  BY DEF IndInv, LossInv, Proc
<1>2. PICK id \in Id : id = proc[w].id
  BY <1>1 DEF RenameBin, Knows, Working
<1>3. PICK hash \in Bytes : hash = proc[w].hash
  BY <1>1, <1>2 DEF RenameBin, Knows, Finishes, Working, IndInv, TypeOK
<1> DEFINE old == IncompleteBinPath(id)
           new == CompleteBinPath(hash)
<1>4. /\ sha256sum[id] = hash /\ hash # None
      /\ bins' = IF At(old) = {} THEN bins ELSE Renamed(old, new)
      /\ UNCHANGED <<sha256sum, info, deleted, client>>
  BY <1>1, <1>2, <1>3, StoreAssumption DEF RenameBin, Removal, table
<1>5. /\ \A path : path # old /\ At(path) # {} => At(path)' # {}
      /\ At(old) # {} => At(new)' # {}
  <2>1. CASE At(old) = {}
    BY <1>4, <2>1 DEF At
  <2>2. CASE At(old) # {}
    <3>1. bins' = Renamed(old, new)
      BY <1>4, <2>2
    <3>2. At(new)' # {}
      <4>1. PICK b \in At(old) : TRUE
        BY <2>2
      <4>2. [path |-> new, bytes |-> b.bytes] \in bins'
        BY <3>1, <4>1 DEF Renamed
      <4> QED BY <4>2 DEF At
    <3>3. ASSUME NEW path, path # old, At(path) # {} PROVE At(path)' # {}
      <4>1. CASE path = new
        BY <3>2, <4>1
      <4>2. CASE path # new
        BY <3>1, <3>3, <4>2 DEF At, Renamed
      <4> QED BY <4>1, <4>2
    <3> QED BY <3>2, <3>3
  <2> QED BY <2>1, <2>2
<1>6. /\ proc[w].at # "idle" /\ proc'[w].at \in Careless
      /\ \A q \in Proc \ {w} : proc'[q] = proc[q]
  BY <1>1, ReturnedIsCareless DEF RenameBin
<1>7. \A i \in Id \ {id} : Own(i) # {} => Own(i)' # {}
  BY <1>5 DEF Own, IncompleteBinPath
<1>8. \A p \in Proc : Removal(proc[p])'
  <2>1. ASSUME NEW q \in Proc \ {w} PROVE Removal(proc[q])'
    <3>1. \A i \in Id : Own(i) # {} /\ Own(i)' = {} =>
                          proc[w].at # "idle" /\ proc[w].id = i
      BY <1>2, <1>6, <1>7
    <3> QED BY <1>1, <1>4, <1>6, <3>1, OthersKnow DEF DigestsStay
  <2> QED BY <1>1, <1>6, <2>1, CarelessKnows
<1>9. ClientSends' /\ DeletedHasNoInfo' /\ UnfinishedHasBin'
  <2>1. ClientSends' /\ DeletedHasNoInfo'
    BY <1>4 DEF LossInv, ClientSends, DeletedHasNoInfo
  <2>2. UnfinishedHasBin'
    BY <1>4, <1>7 DEF LossInv, UnfinishedHasBin, IndInv, TypeOK, Own
  <2> QED BY <2>1, <2>2
<1> QED BY <1>8, <1>9 DEF LossInv

\* RemoveWithDirs removes the .info, with whatever p does next.
LEMMA InfoGone ==
  ASSUME IndInv, LossInv, NEW p \in Proc, proc[p].at = "rminfo",
         info' = info \ {proc[p].id},
         UNCHANGED <<sha256sum, deleted, bins, client>>,
         \A q \in Proc \ {p} : proc'[q] = proc[q],
         Removal(proc[p])'
  PROVE  LossInv'
<1>1. \A path : At(path)' = At(path)
  BY DEF At
<1>2. \A i \in Id : Own(i)' = Own(i)
  BY <1>1 DEF Own
<1>3. \A q \in Proc : Removal(proc[q])'
  BY <1>2, OthersKnow DEF DigestsStay
<1>4. ClientSends' /\ DeletedHasNoInfo' /\ UnfinishedHasBin'
  BY <1>1 DEF LossInv, ClientSends, DeletedHasNoInfo, UnfinishedHasBin
<1> QED BY <1>3, <1>4 DEF LossInv

\* RemoveWithDirs removes the .bin, with whatever p does next.
LEMMA BinGone ==
  ASSUME IndInv, LossInv, NEW p \in Proc, proc[p].at = "rmbin",
         bins' = bins \ At(proc[p].path),
         UNCHANGED <<sha256sum, deleted, info, client>>,
         \A q \in Proc \ {p} : proc'[q] = proc[q],
         Removal(proc[p])'
  PROVE  LossInv'
<1>1. Knows(p, proc[p]) /\ Removal(proc[p])
  BY DEF IndInv, LossInv
<1>2. PICK id \in Id : id = proc[p].id
  BY <1>1 DEF Knows, Working
<1>3. /\ client[id] # None /\ id \notin info
      /\ \/ proc[p].path = IncompleteBinPath(id)
         \/ sha256sum[id] # None /\ proc[p].path = CompleteBinPath(sha256sum[id])
  BY <1>1, <1>2 DEF Knows, Working, Removal, LooksAt
<1>4. \A path : path # proc[p].path => At(path)' = At(path)
  BY DEF At
<1>5. \A i \in Id \ {id} : Own(i)' = Own(i)
  <2> SUFFICES ASSUME NEW i \in Id \ {id} PROVE Own(i)' = Own(i)
    OBVIOUS
  <2>1. IncompleteBinPath(i) # proc[p].path
    BY <1>3 DEF IncompleteBinPath, CompleteBinPath
  <2> QED BY <1>4, <2>1 DEF Own
<1>6. \A q \in Proc : Removal(proc[q])'
  <2>1. \A i \in Id : Own(i) # {} /\ Own(i)' = {} =>
                        proc[p].at # "idle" /\ proc[p].id = i
    BY <1>2, <1>5
  <2> QED BY <2>1, OthersKnow DEF DigestsStay
<1>7. ClientSends' /\ DeletedHasNoInfo' /\ UnfinishedHasBin'
  <2>1. ClientSends' /\ DeletedHasNoInfo'
    BY DEF LossInv, ClientSends, DeletedHasNoInfo
  <2>2. UnfinishedHasBin'
    BY <1>3, <1>5 DEF LossInv, UnfinishedHasBin, Own, IndInv, TypeOK
  <2> QED BY <2>1, <2>2
<1> QED BY <1>6, <1>7 DEF LossInv

LEMMA TerminateLoss ==
  ASSUME IndInv, LossInv, NEW p \in Proc, Terminate(p)
  PROVE  LossInv'
<1>1. proc[p] \in Locals /\ proc \in [Proc -> Locals] /\ Knows(p, proc[p]) /\ Removal(proc[p])
  BY DEF IndInv, TypeOK, LossInv
<1>2. client' = client /\ sha256sum' = sha256sum
  BY DEF Terminate, CountDuplicates, LookupBinPath, RemoveInfo, RemoveBin, MarkDeleted, table
<1>3. ClientSends'
  BY <1>2 DEF LossInv, ClientSends
<1>4. CASE CountDuplicates(p)
  <2>1. proc'[p].at = "lookup" /\ \A q \in Proc \ {p} : proc'[q] = proc[q]
    BY <1>1, <1>4 DEF CountDuplicates, Locals
  <2>2. proc'[p].at \in Careless
    BY <2>1 DEF Careless, Steps, Terminating
  <2>3. UNCHANGED <<sha256sum, deleted, info, bins>>
    BY <1>4 DEF CountDuplicates, table, disk
  <2>4. \A path : At(path) # {} => At(path)' # {}
    BY <2>3 DEF At
  <2>5. UNCHANGED <<sha256sum, deleted, info>>
    BY <2>3
  <2> QED BY <1>3, <2>1, <2>2, <2>4, <2>5, CarelessStep
<1>5. CASE LookupBinPath(p)
  <2>1. /\ proc'[p].at = "rminfo" /\ proc'[p].id = proc[p].id
        /\ proc'[p].path = BinPath(proc[p].id)
        /\ \A q \in Proc \ {p} : proc'[q] = proc[q]
    BY <1>1, <1>5 DEF LookupBinPath, Locals
  <2>2. UNCHANGED <<sha256sum, deleted, info, bins>>
    BY <1>5 DEF LookupBinPath, table, disk
  <2>3. \A path : At(path) # {} => At(path)' # {}
    BY <2>2 DEF At
  <2>4. Removal(proc[p])'
    BY <2>1, <2>2 DEF Removal, LooksAt, BinPath
  <2>5. UNCHANGED <<sha256sum, deleted, info>>
    BY <2>2
  <2> QED BY <1>3, <2>1, <2>3, <2>4, <2>5, QuietLoss
<1>6. CASE RemoveInfo(p)
  <2>1. /\ proc'[p].at \in {"mark", "rmbin"} /\ proc'[p].id = proc[p].id
        /\ proc'[p].path = proc[p].path
        /\ \A q \in Proc \ {p} : proc'[q] = proc[q]
    BY <1>6, GoesOn DEF RemoveInfo, AfterRemoveInfo
  <2>2. /\ proc[p].at = "rminfo" /\ info' = info \ {proc[p].id}
        /\ UNCHANGED <<sha256sum, deleted, bins, client>>
    BY <1>6 DEF RemoveInfo, table
  <2>3. Removal(proc[p])'
    BY <1>1, <1>2, <2>1, <2>2 DEF Removal, LooksAt
  <2> QED BY <2>1, <2>2, <2>3, InfoGone
<1>7. CASE RemoveBin(p)
  <2>1. /\ proc'[p].at = "mark" /\ proc'[p].id = proc[p].id
        /\ \A q \in Proc \ {p} : proc'[q] = proc[q]
    BY <1>7, GoesOn DEF RemoveBin
  <2>2. /\ proc[p].at = "rmbin" /\ bins' = bins \ At(proc[p].path)
        /\ UNCHANGED <<sha256sum, deleted, info, client>>
    BY <1>7 DEF RemoveBin, table
  <2>3. Removal(proc[p])'
    BY <1>1, <2>1, <2>2 DEF Removal, LooksAt
  <2> QED BY <2>1, <2>2, <2>3, BinGone
<1>8. CASE MarkDeleted(p)
  <2>1. proc'[p].at \in Careless /\ \A q \in Proc \ {p} : proc'[q] = proc[q]
    BY <1>8, ReturnedIsCareless DEF MarkDeleted
  <2>2. /\ proc[p].id \notin info /\ deleted' = deleted \union {proc[p].id}
        /\ UNCHANGED <<sha256sum, info, bins>>
    BY <1>1, <1>8 DEF MarkDeleted, Removal, disk
  <2>3. \A path : At(path)' = At(path)
    BY <2>2 DEF At
  <2>4. \A i \in Id : Own(i)' = Own(i)
    BY <2>3 DEF Own
  <2>5. \A q \in Proc : Removal(proc[q])'
    <3>1. ASSUME NEW q \in Proc \ {p} PROVE Removal(proc[q])'
      BY <2>1, <2>2, <2>4, OthersKnow DEF DigestsStay
    <3> QED BY <2>1, <3>1, CarelessKnows
  <2>6. DeletedHasNoInfo' /\ UnfinishedHasBin'
    BY <2>2, <2>3 DEF LossInv, DeletedHasNoInfo, UnfinishedHasBin
  <2> QED BY <1>3, <2>5, <2>6 DEF LossInv
<1> QED BY <1>4, <1>5, <1>6, <1>7, <1>8 DEF Terminate

LEMMA FailureLoss ==
  ASSUME UnlinkWorks, IndInv, LossInv, NEW p \in Proc,
         CallFails(p) \/ RemoveDirFails(p) \/ UnlinkFails(p)
  PROVE  LossInv'
<1>1. ~UnlinkFails(p)
  BY DEF UnlinkWorks, UnlinkFails, Fault
<1>2. proc'[p].at \in Careless /\ \A q \in Proc \ {p} : proc'[q] = proc[q]
  BY <1>1, ReturnedIsCareless DEF CallFails, RemoveDirFails
<1>3. Removal(proc[p])'
  BY <1>2, CarelessKnows
<1>4. CASE CallFails(p)
  <2>1. UNCHANGED <<sha256sum, deleted, info, bins, client>>
    BY <1>4 DEF CallFails, table, disk
  <2>2. ClientSends'
    BY <2>1 DEF LossInv, ClientSends
  <2>3. \A path : At(path) # {} => At(path)' # {}
    BY <2>1 DEF At
  <2>4. UNCHANGED <<sha256sum, deleted, info>>
    BY <2>1
  <2> QED BY <1>2, <2>2, <2>3, <2>4, CarelessStep
<1>5. CASE RemoveDirFails(p)
  <2>1. UNCHANGED <<sha256sum, deleted, client>>
    BY <1>5 DEF RemoveDirFails, table
  <2>2. CASE proc[p].at = "rminfo" /\ info' = info \ {proc[p].id} /\ UNCHANGED bins
    BY <1>2, <1>3, <2>1, <2>2, InfoGone
  <2>3. CASE proc[p].at = "rmbin" /\ bins' = bins \ At(proc[p].path) /\ UNCHANGED info
    BY <1>2, <1>3, <2>1, <2>3, BinGone
  <2> QED BY <1>5, <2>2, <2>3 DEF RemoveDirFails
<1> QED BY <1>1, <1>4, <1>5

\* Files and records stay, and what is at work goes on knowing what it knew.
LEMMA NothingLost ==
  ASSUME LossInv, UNCHANGED <<sha256sum, deleted, info, bins, client>>,
         \A p \in Proc : proc'[p] = proc[p] \/ proc'[p].at \in Careless
  PROVE  LossInv'
<1>1. \A path : At(path)' = At(path)
  BY DEF At
<1>2. ASSUME NEW p \in Proc PROVE Removal(proc[p])'
  <2>1. CASE proc'[p] = proc[p]
    BY <1>1, <2>1 DEF LossInv, Removal, LooksAt, Own
  <2>2. CASE proc'[p].at \in Careless
    BY <2>2, CarelessKnows
  <2> QED BY <2>1, <2>2
<1>3. ClientSends' /\ DeletedHasNoInfo' /\ UnfinishedHasBin'
  BY <1>1 DEF LossInv, ClientSends, DeletedHasNoInfo, UnfinishedHasBin
<1> QED BY <1>2, <1>3 DEF LossInv

LEMMA LossInvInit == Init => LossInv
<1> SUFFICES ASSUME Init PROVE LossInv
  OBVIOUS
<1>1. ASSUME NEW p \in Proc PROVE Removal(proc[p])
  BY DEF Init, Idle, Removal, LooksAt
<1>2. ClientSends /\ DeletedHasNoInfo /\ UnfinishedHasBin
  BY DEF Init, ClientSends, DeletedHasNoInfo, UnfinishedHasBin
<1> QED BY <1>1, <1>2 DEF LossInv

LEMMA LossInvNext ==
  ASSUME UnlinkWorks, IndInv, LossInv, [Next]_vars
  PROVE  LossInv'
<1>1. ASSUME NEW w \in Worker,
             NewUpload(w) \/ LockUpload(w) \/ CopyPiece(w) \/ CopyEnds(w) \/ Serve(w)
      PROVE  LossInv'
  <2>1. CASE \/ NewUpload(w) \/ LockUpload(w) \/ InsertRow(w) \/ GetInfo(w) \/ GetReader(w)
             \/ OpenBin(w) \/ CopyEnds(w) \/ HashFile(w) \/ Respond(w)
    BY <2>1, RequestSteps
  <2>2. CASE CopyPiece(w)
    BY <2>2, CopyPieceLoss
  <2>3. CASE CreateBin(w)
    BY <2>3, CreateBinLoss
  <2>4. CASE WriteInfo(w)
    BY <2>4, WriteInfoLoss
  <2>5. CASE UpdateHash(w)
    BY <2>5, UpdateHashLoss
  <2>6. CASE RenameBin(w)
    BY <2>6, RenameBinLoss
  <2>7. CASE Terminate(w)
    BY <2>7, TerminateLoss DEF Proc
  <2> QED BY <1>1, <2>1, <2>2, <2>3, <2>4, <2>5, <2>6, <2>7 DEF Serve
<1>2. ASSUME NEW g \in Gc, Collect(g)
      PROVE  LossInv'
  <2>1. CASE Terminate(g)
    BY <2>1, TerminateLoss DEF Proc
  <2>2. CASE Tick(g)
    BY <2>2, NothingLost DEF Tick, table, disk
  <2>3. CASE NextExpired(g)
    <3>1. proc'[g].at = "count" /\ \A q \in Proc \ {g} : proc'[q] = proc[q]
      BY <2>3 DEF NextExpired, IndInv, TypeOK, Locals, Proc
    <3>2. \A q \in Proc : proc'[q] = proc[q] \/ proc'[q].at \in Careless
      BY <3>1 DEF Careless, Steps, Terminating
    <3>3. UNCHANGED <<sha256sum, deleted, info, bins, client>>
      BY <2>3 DEF NextExpired, table, disk
    <3> QED BY <3>2, <3>3, NothingLost
  <2> QED BY <1>2, <2>1, <2>2, <2>3 DEF Collect
<1>3. ASSUME NEW id \in Id, Expire(id)
      PROVE  LossInv'
  BY <1>3, NothingLost DEF Expire, table, disk
<1>4. ASSUME NEW p \in Proc, CallFails(p) \/ RemoveDirFails(p) \/ UnlinkFails(p)
      PROVE  LossInv'
  BY <1>4, FailureLoss
<1>5. CASE Crash
  <2>1. \A p \in Proc : proc'[p].at \in Careless
    BY <1>5 DEF Crash, Idle, Careless, Steps
  <2> QED BY <1>5, <2>1, NothingLost DEF Crash, table, disk
<1>6. CASE UNCHANGED vars
  BY <1>6, NothingLost DEF vars
<1> QED BY <1>1, <1>2, <1>3, <1>4, <1>5, <1>6 DEF Next

(*****************************************************************************)
(* The theorems, for stores whose os.Remove works                            *)
(*****************************************************************************)

\* What every goroutine that removes or moves a file relies on holds in every
\* behaviour.
THEOREM RemovalsAreInformed == ASSUME UnlinkWorks PROVE Spec => []LossInv
<1>1. Init => LossInv
  BY LossInvInit
<1>2. IndInv /\ LossInv /\ [Next]_vars => LossInv'
  BY LossInvNext
<1> QED BY <1>1, <1>2, Invariant, PTL DEF Spec

\* An upload without digest that GetInfo can find has its .bin, whatever calls
\* of NewUpload, FinishUpload and Terminate interleave, fail or are cut short.
THEOREM UnfinishedKeepsBin == ASSUME UnlinkWorks PROVE Spec => []UnfinishedHasBin
<1>1. LossInv => UnfinishedHasBin
  BY DEF LossInv
<1> QED BY <1>1, RemovalsAreInformed, PTL

\* A record is marked deleted only when the .info is gone, and no .info is
\* written for it afterwards.
THEOREM DeletedIsGone == ASSUME UnlinkWorks PROVE Spec => []DeletedHasNoInfo
<1>1. LossInv => DeletedHasNoInfo
  BY DEF LossInv
<1> QED BY <1>1, RemovalsAreInformed, PTL

(*****************************************************************************)
(* Uploads that share a .bin                                                 *)
(*                                                                           *)
(* FinishUpload and Terminate do not exclude each other, so KeepsSharedBin,  *)
(* NoDataLoss, NoOrphanBin, BinPathStoresData and HidesSharing are not true  *)
(* of every behaviour.  They are proved for every behaviour in which the two *)
(* do not meet in one particular way: NoRace, where a digest would be        *)
(* recorded after a Terminate has counted the duplicates and before it has   *)
(* removed the .bin; EndsApart, for what is left over, where two Terminates  *)
(* would both count the other's upload.  Uploads whose contents differ never *)
(* race, and requests that take turns do neither.                            *)
(*                                                                           *)
(* Beyond IndInv and LossInv the proofs take that an .info has a record,     *)
(* that an upload being created has no .info yet, that the unfinished file   *)
(* of an upload with a digest is whole (ViewInv: a crash may come between    *)
(* UPDATE and rename), that the count of duplicates stays true until the     *)
(* removal (ShareInv), and that every .bin has a record, or a goroutine that *)
(* will give it one (OrphanInv).                                             *)
(*****************************************************************************)
Unwritten(r) == r.at \in Creating => r.id \notin info

WholeWhenHashed ==
  \A id \in Id : sha256sum[id] # None => \A b \in Own(id) : b.bytes = client[id]

ViewInv == /\ info \subseteq rows /\ WholeWhenHashed
           /\ \A p \in Proc : Unwritten(proc[p])

(*****************************************************************************)
(* Goroutines that are not creating an upload                                *)
(*****************************************************************************)

\* p neither was nor is creating an upload, and the others stay where they are.
Elsewhere(p) == /\ proc[p].at \notin Creating /\ proc'[p].at \notin Creating
                /\ \A q \in Proc \ {p} : proc'[q] = proc[q]

SameCreations == \A id : BeingCreated(id)' <=> BeingCreated(id)

LEMMA ElsewhereCreates ==
  ASSUME NEW p \in Proc, Elsewhere(p)
  PROVE  /\ SameCreations
         /\ (\A q \in Proc : Unwritten(proc[q])) /\ info' \subseteq info
              => \A q \in Proc : Unwritten(proc[q])'
<1>1. SameCreations
  BY DEF Elsewhere, SameCreations, BeingCreated, Proc
<1>2. ASSUME \A q \in Proc : Unwritten(proc[q]), info' \subseteq info, NEW q \in Proc
      PROVE  Unwritten(proc[q])'
  BY <1>2 DEF Elsewhere, Unwritten
<1> QED BY <1>1, <1>2

LEMMA ReturnsElsewhere ==
  ASSUME IndInv, NEW p \in Proc, Return(p)
  PROVE  /\ proc'[p].at \notin Creating
         /\ \A q \in Proc \ {p} : proc'[q] = proc[q]
<1>1. Returned(p).at \in {"idle", "respond"}
  BY DEF Returned, Idle
<1>2. proc'[p] = Returned(p) /\ \A q \in Proc \ {p} : proc'[q] = proc[q]
  BY DEF Return, IndInv, TypeOK
<1> QED BY <1>1, <1>2 DEF Creating

LEMMA RequestElsewhere ==
  ASSUME IndInv, NEW w \in Worker,
         \/ LockUpload(w) \/ GetInfo(w) \/ GetReader(w) \/ OpenBin(w) \/ CopyPiece(w)
         \/ CopyEnds(w) \/ HashFile(w) \/ UpdateHash(w) \/ RenameBin(w) \/ Respond(w)
  PROVE  Elsewhere(w)
<1>1. w \in Proc /\ proc[w] \in Locals /\ proc \in [Proc -> Locals]
  BY DEF IndInv, TypeOK, Proc
<1>2. proc[w].at \notin Creating
  BY DEF Creating, LockUpload, GetInfo, GetReader, OpenBin, CopyPiece, CopyEnds,
         HashFile, UpdateHash, RenameBin, Respond
<1>3. CASE Return(w)
  BY <1>1, <1>2, <1>3, ReturnsElsewhere DEF Elsewhere
<1>4. ASSUME NEW step \in {"count", "read", "open", "hash", "rename"}, Goto(w, step)
      PROVE  Elsewhere(w)
  BY <1>1, <1>2, <1>4, GoesOn DEF Elsewhere, Creating
<1>5. CASE LockUpload(w)
  <2>1. PICK id \in rows, op \in Methods \ {"POST"} :
          \E off \in IF op = "PATCH" THEN 0 .. Len(client[id]) ELSE {0} :
            proc' = [proc EXCEPT ![w].at = "getinfo", ![w].op = op,
                                 ![w].id = id, ![w].off = off]
    BY <1>5 DEF LockUpload
  <2>2. PICK off : proc' = [proc EXCEPT ![w].at = "getinfo", ![w].op = op,
                                        ![w].id = id, ![w].off = off]
    BY <2>1
  <2>3. proc'[w].at = "getinfo" /\ \A q \in Proc \ {w} : proc'[q] = proc[q]
    BY <1>1, <2>2 DEF Locals
  <2> QED BY <1>2, <2>3 DEF Elsewhere, Creating
<1>6. CASE Respond(w)
  BY <1>1, <1>2, <1>6 DEF Respond, Idle, Elsewhere, Creating
<1>7. CASE OpenBin(w)
  BY <1>1, <1>2, <1>3, <1>7 DEF OpenBin, Locals, Elsewhere, Creating
<1>8. CASE HashFile(w)
  BY <1>1, <1>2, <1>3, <1>8 DEF HashFile, Locals, Elsewhere, Creating
<1>9. CASE CopyPiece(w)
  <2>1. PICK n : proc' = [proc EXCEPT ![w].off = n]
    BY <1>9 DEF CopyPiece
  <2>2. proc'[w].at = proc[w].at /\ \A q \in Proc \ {w} : proc'[q] = proc[q]
    BY <1>1, <2>1 DEF Locals
  <2> QED BY <1>2, <2>2 DEF Elsewhere
<1>10. CASE GetInfo(w)
  BY <1>3, <1>4, <1>10 DEF GetInfo, AfterGetInfo
<1>11. CASE GetReader(w) \/ CopyEnds(w) \/ UpdateHash(w) \/ RenameBin(w)
  BY <1>3, <1>4, <1>11 DEF GetReader, CopyEnds, UpdateHash, RenameBin
<1> QED BY <1>5, <1>6, <1>7, <1>8, <1>9, <1>10, <1>11

LEMMA TerminateElsewhere ==
  ASSUME IndInv, NEW p \in Proc, Terminate(p)
  PROVE  Elsewhere(p)
<1>1. proc[p] \in Locals /\ proc \in [Proc -> Locals]
  BY DEF IndInv, TypeOK
<1>2. proc[p].at \notin Creating
  BY DEF Creating, Terminate, CountDuplicates, LookupBinPath, RemoveInfo, RemoveBin,
         MarkDeleted
<1>3. ASSUME NEW step \in {"rmbin", "mark"}, Goto(p, step)
      PROVE  Elsewhere(p)
  BY <1>2, <1>3, GoesOn DEF Elsewhere, Creating
<1>4. CASE CountDuplicates(p)
  BY <1>1, <1>2, <1>4 DEF CountDuplicates, Locals, Elsewhere, Creating
<1>5. CASE LookupBinPath(p)
  BY <1>1, <1>2, <1>5 DEF LookupBinPath, Locals, Elsewhere, Creating
<1>6. CASE RemoveInfo(p) \/ RemoveBin(p)
  BY <1>3, <1>6 DEF RemoveInfo, AfterRemoveInfo, RemoveBin
<1>7. CASE MarkDeleted(p)
  BY <1>2, <1>7, ReturnsElsewhere DEF MarkDeleted, Elsewhere
<1> QED BY <1>4, <1>5, <1>6, <1>7 DEF Terminate

(*****************************************************************************)
(* ViewInv is an invariant                                                   *)
(*****************************************************************************)
LEMMA ViewInvInit == Init => ViewInv
BY DEF Init, Idle, Creating, ViewInv, Unwritten, WholeWhenHashed

\* A step that writes no .info, begins no upload, and records no digest.
LEMMA ViewStays ==
  ASSUME ViewInv, rows \subseteq rows', info' \subseteq info,
         \A id \in Id : sha256sum'[id] # None =>
           /\ sha256sum[id] # None /\ client'[id] = client[id]
           /\ Own(id)' \subseteq Own(id),
         \A q \in Proc : proc'[q].at \in Creating =>
           proc[q].at \in Creating /\ proc'[q].id = proc[q].id
  PROVE  ViewInv'
<1>1. info' \subseteq rows'
  BY DEF ViewInv
<1>2. WholeWhenHashed'
  BY DEF ViewInv, WholeWhenHashed
<1>3. \A q \in Proc : Unwritten(proc[q])'
  BY DEF ViewInv, Unwritten
<1> QED BY <1>1, <1>2, <1>3 DEF ViewInv

LEMMA RequestView ==
  ASSUME IndInv, ViewInv, NEW w \in Worker,
         \/ LockUpload(w) \/ GetInfo(w) \/ GetReader(w) \/ OpenBin(w)
         \/ CopyEnds(w) \/ HashFile(w) \/ Respond(w) \/ RenameBin(w)
  PROVE  ViewInv'
<1>1. w \in Proc /\ Elsewhere(w)
  BY RequestElsewhere DEF Proc
<1>2. UNCHANGED <<rows, info, sha256sum, client>>
  BY DEF LockUpload, GetInfo, GetReader, OpenBin, CopyEnds, HashFile, Respond, RenameBin,
         table, disk
<1>3. \A id \in Id : Own(id)' \subseteq Own(id)
  <2>1. CASE bins' = bins
    BY <2>1 DEF Own, At
  <2>2. CASE RenameBin(w) /\ bins' # bins
    BY <2>2 DEF RenameBin, Renamed, Own, At, IncompleteBinPath, CompleteBinPath
  <2> QED BY <2>1, <2>2 DEF LockUpload, GetInfo, GetReader, OpenBin, CopyEnds, HashFile,
                            Respond, disk
<1>4. \A q \in Proc : proc'[q].at \in Creating =>
        proc[q].at \in Creating /\ proc'[q].id = proc[q].id
  BY <1>1 DEF Elsewhere
<1> QED BY <1>2, <1>3, <1>4, ViewStays

LEMMA TerminateView ==
  ASSUME IndInv, ViewInv, NEW p \in Proc, Terminate(p)
  PROVE  ViewInv'
<1>1. Elsewhere(p)
  BY TerminateElsewhere
<1>2. UNCHANGED <<rows, sha256sum, client>> /\ info' \subseteq info /\ bins' \subseteq bins
  BY DEF Terminate, CountDuplicates, LookupBinPath, RemoveInfo, RemoveBin, MarkDeleted,
         table, disk
<1>3. \A id \in Id : Own(id)' \subseteq Own(id)
  BY <1>2 DEF Own, At, IncompleteBinPath
<1>4. \A q \in Proc : proc'[q].at \in Creating =>
        proc[q].at \in Creating /\ proc'[q].id = proc[q].id
  BY <1>1 DEF Elsewhere
<1> QED BY <1>2, <1>3, <1>4, ViewStays

LEMMA CopyPieceView ==
  ASSUME IndInv, ViewInv, NEW w \in Worker, CopyPiece(w)
  PROVE  ViewInv'
<1>1. w \in Proc /\ Elsewhere(w) /\ Knows(w, proc[w])
  BY RequestElsewhere DEF Proc, IndInv
<1>2. PICK id \in Id : id = proc[w].id
  BY <1>1 DEF CopyPiece, Knows, Working
<1>3. sha256sum[id] = None /\ proc[w].path = IncompleteBinPath(id)
  BY <1>1, <1>2 DEF CopyPiece, Knows, Appends
<1>4. UNCHANGED <<rows, info, sha256sum, client>>
  BY DEF CopyPiece, table
<1>5. ASSUME NEW i \in Id \ {id} PROVE Own(i)' \subseteq Own(i)
  <2>1. PICK bytes : bins' = Appended(IncompleteBinPath(id), bytes)
    BY <1>3 DEF CopyPiece
  <2>2. IncompleteBinPath(i) # IncompleteBinPath(id)
    BY DEF IncompleteBinPath
  <2> QED BY <2>1, <2>2 DEF Appended, Own, At
<1>6. \A q \in Proc : proc'[q].at \in Creating =>
        proc[q].at \in Creating /\ proc'[q].id = proc[q].id
  BY <1>1 DEF Elsewhere
<1> QED BY <1>3, <1>4, <1>5, <1>6, ViewStays

LEMMA UpdateHashView ==
  ASSUME IndInv, ViewInv, NEW w \in Worker, UpdateHash(w)
  PROVE  ViewInv'
<1>1. w \in Proc /\ Elsewhere(w) /\ Knows(w, proc[w])
  BY RequestElsewhere DEF Proc, IndInv
<1>2. PICK id \in Id : id = proc[w].id
  BY <1>1 DEF UpdateHash, Knows, Working
<1>3. \A b \in Own(id) : b.bytes = client[id]
  BY <1>1, <1>2 DEF UpdateHash, Knows, Finishes, Finishing
<1>4. /\ sha256sum' = [sha256sum EXCEPT ![id] = proc[w].hash]
      /\ UNCHANGED <<rows, info, bins, client>>
  BY <1>2 DEF UpdateHash, disk
<1>5. \A i \in Id : Own(i)' = Own(i)
  BY <1>4 DEF Own, At, IncompleteBinPath
<1>6. WholeWhenHashed'
  BY <1>3, <1>4, <1>5 DEF ViewInv, WholeWhenHashed, IndInv, TypeOK
<1>7. \A q \in Proc : Unwritten(proc[q])'
  BY <1>1, <1>4, ElsewhereCreates DEF ViewInv
<1> QED BY <1>4, <1>6, <1>7 DEF ViewInv

LEMMA NewUploadView ==
  ASSUME IndInv, ViewInv, NEW w \in Worker, NewUpload(w)
  PROVE  ViewInv'
<1>1. w \in Proc /\ proc[w] \in Locals /\ proc \in [Proc -> Locals]
  BY DEF IndInv, TypeOK, Proc
<1>2. PICK id \in Id : \E file \in ClientFile[id] :
        /\ client[id] = None
        /\ client' = [client EXCEPT ![id] = file]
        /\ proc' = [proc EXCEPT ![w].at = "insert", ![w].op = "POST", ![w].id = id]
  BY DEF NewUpload
<1>3. id \notin rows /\ sha256sum[id] = None
  BY <1>2 DEF IndInv, StoreInv, Fresh
<1>4. proc'[w].id = id /\ \A q \in Proc \ {w} : proc'[q] = proc[q]
  BY <1>1, <1>2 DEF Locals
<1>5. UNCHANGED <<rows, info, sha256sum, bins>>
  BY DEF NewUpload, table, disk
<1>6. \A i \in Id : Own(i)' = Own(i)
  BY <1>5 DEF Own, At, IncompleteBinPath
<1>7. \A i \in Id \ {id} : client'[i] = client[i]
  BY <1>2 DEF IndInv, TypeOK
<1>8. WholeWhenHashed'
  BY <1>3, <1>5, <1>6, <1>7 DEF ViewInv, WholeWhenHashed
<1>9. \A q \in Proc : Unwritten(proc[q])'
  BY <1>3, <1>4, <1>5 DEF ViewInv, Unwritten
<1> QED BY <1>5, <1>8, <1>9 DEF ViewInv

LEMMA CreateView ==
  ASSUME IndInv, ViewInv, NEW w \in Worker, InsertRow(w) \/ CreateBin(w)
  PROVE  ViewInv'
<1>1. w \in Proc /\ Knows(w, proc[w])
  BY DEF Proc, IndInv
<1>2. PICK id \in Id : id = proc[w].id
  BY <1>1 DEF InsertRow, CreateBin, Knows, Working
<1>3. sha256sum[id] = None
  BY <1>1, <1>2 DEF InsertRow, CreateBin, Knows, Finishes, Creating
<1>4. rows \subseteq rows' /\ UNCHANGED <<info, sha256sum, client>>
  BY DEF InsertRow, CreateBin, table, disk
<1>5. ASSUME NEW i \in Id \ {id} PROVE Own(i)' \subseteq Own(i)
  <2>1. bins' \subseteq bins \union {[path |-> IncompleteBinPath(id), bytes |-> <<>>]}
    BY <1>2, <1>3 DEF InsertRow, CreateBin, BinPath, disk
  <2>2. IncompleteBinPath(i) # IncompleteBinPath(id)
    BY DEF IncompleteBinPath
  <2> QED BY <2>1, <2>2 DEF Own, At
<1>6. /\ proc[w].at \in Creating /\ proc'[w].id = proc[w].id
      /\ \A q \in Proc \ {w} : proc'[q] = proc[q]
  BY <1>1, GoesOn DEF InsertRow, CreateBin, Creating
<1>7. \A q \in Proc : proc'[q].at \in Creating =>
        proc[q].at \in Creating /\ proc'[q].id = proc[q].id
  BY <1>6
<1> QED BY <1>3, <1>4, <1>5, <1>7, ViewStays

LEMMA WriteInfoView ==
  ASSUME IndInv, ViewInv, NEW w \in Worker, WriteInfo(w)
  PROVE  ViewInv'
<1>1. w \in Proc /\ Knows(w, proc[w])
  BY DEF Proc, IndInv
<1>2. PICK id \in Id : id = proc[w].id
  BY <1>1 DEF WriteInfo, Knows, Working
<1>3. proc[w].op = "POST" /\ id \in rows
  BY <1>1, <1>2 DEF WriteInfo, Knows, Creates, Finishes, Creating
<1>4. info' = info \union {id} /\ UNCHANGED <<rows, sha256sum, bins, client>>
  BY <1>2 DEF WriteInfo, table
<1>5. \A i \in Id : Own(i)' = Own(i)
  BY <1>4 DEF Own, At, IncompleteBinPath
<1>6. proc'[w].at \notin Creating /\ \A q \in Proc \ {w} : proc'[q] = proc[q]
  <2>1. CASE Return(w)
    BY <1>1, <2>1, ReturnsElsewhere
  <2>2. CASE Goto(w, "hash")
    BY <1>1, <2>2, GoesOn DEF Creating
  <2> QED BY <2>1, <2>2 DEF WriteInfo
<1>7. WholeWhenHashed'
  BY <1>4, <1>5 DEF ViewInv, WholeWhenHashed
<1>8. ASSUME NEW q \in Proc PROVE Unwritten(proc[q])'
  <2> SUFFICES ASSUME proc'[q].at \in Creating PROVE proc'[q].id \notin info'
    BY DEF Unwritten
  <2>1. q # w /\ proc'[q] = proc[q] /\ proc[q].at # "idle" /\ proc[q].id \notin info
    BY <1>6 DEF ViewInv, Unwritten, Creating
  <2>2. proc[q].id # id
    BY <1>2, <1>3, <2>1 DEF IndInv, Alone
  <2> QED BY <1>4, <2>1, <2>2
<1> QED BY <1>3, <1>4, <1>7, <1>8 DEF ViewInv

LEMMA FailureView ==
  ASSUME IndInv, ViewInv, NEW p \in Proc,
         CallFails(p) \/ RemoveDirFails(p) \/ UnlinkFails(p)
  PROVE  ViewInv'
<1>1. UNCHANGED <<rows, sha256sum, client>> /\ info' \subseteq info /\ bins' \subseteq bins
  BY DEF CallFails, RemoveDirFails, UnlinkFails, table, disk
<1>2. proc'[p].at \notin Creating /\ \A q \in Proc \ {p} : proc'[q] = proc[q]
  <2>1. CASE Return(p)
    BY <2>1, ReturnsElsewhere
  <2>2. ASSUME NEW step \in {"rmbin", "mark"}, Goto(p, step)
        PROVE  proc'[p].at \notin Creating /\ \A q \in Proc \ {p} : proc'[q] = proc[q]
    BY <2>2, GoesOn DEF Creating
  <2> QED BY <2>1, <2>2 DEF CallFails, RemoveDirFails, UnlinkFails, AfterRemoveInfo
<1>3. \A id \in Id : Own(id)' \subseteq Own(id)
  BY <1>1 DEF Own, At, IncompleteBinPath
<1>4. \A q \in Proc : proc'[q].at \in Creating =>
        proc[q].at \in Creating /\ proc'[q].id = proc[q].id
  BY <1>2
<1> QED BY <1>1, <1>3, <1>4, ViewStays

LEMMA ViewInvNext ==
  ASSUME IndInv, ViewInv, [Next]_vars
  PROVE  ViewInv'
<1>1. ASSUME NEW w \in Worker,
             NewUpload(w) \/ LockUpload(w) \/ CopyPiece(w) \/ CopyEnds(w) \/ Serve(w)
      PROVE  ViewInv'
  <2>1. CASE \/ LockUpload(w) \/ GetInfo(w) \/ GetReader(w) \/ OpenBin(w)
             \/ CopyEnds(w) \/ HashFile(w) \/ Respond(w) \/ RenameBin(w)
    BY <2>1, RequestView
  <2>2. CASE CopyPiece(w)
    BY <2>2, CopyPieceView
  <2>3. CASE UpdateHash(w)
    BY <2>3, UpdateHashView
  <2>4. CASE NewUpload(w)
    BY <2>4, NewUploadView
  <2>5. CASE InsertRow(w) \/ CreateBin(w)
    BY <2>5, CreateView
  <2>6. CASE WriteInfo(w)
    BY <2>6, WriteInfoView
  <2>7. CASE Terminate(w)
    BY <2>7, TerminateView DEF Proc
  <2> QED BY <1>1, <2>1, <2>2, <2>3, <2>4, <2>5, <2>6, <2>7 DEF Serve
<1>2. ASSUME NEW g \in Gc, Collect(g)
      PROVE  ViewInv'
  <2>1. CASE Terminate(g)
    BY <2>1, TerminateView DEF Proc
  <2>2. CASE Tick(g) \/ NextExpired(g)
    <3>1. UNCHANGED <<rows, info, sha256sum, client, bins>>
      BY <2>2 DEF Tick, NextExpired, table, disk
    <3>2. \A q \in Proc : proc'[q].at \in Creating => proc'[q] = proc[q]
      <4>1. CASE Tick(g)
        BY <4>1 DEF Tick
      <4>2. CASE NextExpired(g)
        <5>1. proc'[g].at = "count" /\ \A q \in Proc \ {g} : proc'[q] = proc[q]
          BY <4>2 DEF NextExpired, IndInv, TypeOK, Locals, Proc
        <5> QED BY <5>1 DEF Creating
      <4> QED BY <2>2, <4>1, <4>2
    <3>3. \A id \in Id : Own(id)' = Own(id)
      BY <3>1 DEF Own, At, IncompleteBinPath
    <3> QED BY <3>1, <3>2, <3>3, ViewStays
  <2> QED BY <1>2, <2>1, <2>2 DEF Collect
<1>3. ASSUME UNCHANGED <<rows, info, sha256sum, client, bins>>,
             \A q \in Proc : proc'[q] = proc[q] \/ proc'[q].at = "idle"
      PROVE  ViewInv'
  <2>1. \A id \in Id : Own(id)' = Own(id)
    BY <1>3 DEF Own, At, IncompleteBinPath
  <2>2. \A q \in Proc : proc'[q].at \in Creating => proc'[q] = proc[q]
    BY <1>3 DEF Creating
  <2> QED BY <1>3, <2>1, <2>2, ViewStays
<1>4. ASSUME NEW id \in Id, Expire(id)
      PROVE  ViewInv'
  BY <1>3, <1>4 DEF Expire, table, disk
<1>5. ASSUME NEW p \in Proc, CallFails(p) \/ RemoveDirFails(p) \/ UnlinkFails(p)
      PROVE  ViewInv'
  BY <1>5, FailureView
<1>6. CASE Crash
  BY <1>3, <1>6 DEF Crash, Idle, table, disk
<1>7. CASE UNCHANGED vars
  BY <1>3, <1>7 DEF vars
<1> QED BY <1>1, <1>2, <1>4, <1>5, <1>6, <1>7 DEF Next

(*****************************************************************************)
(* What a step may do                                                        *)
(*****************************************************************************)

\* The steps of goroutine p.
Does(p) == \/ /\ p \in Worker
              /\ \/ NewUpload(p) \/ LockUpload(p) \/ CopyPiece(p) \/ CopyEnds(p) \/ Serve(p)
           \/ p \in Gc /\ Collect(p)
           \/ CallFails(p) \/ RemoveDirFails(p) \/ UnlinkFails(p)

LEMMA FailuresMove ==
  ASSUME IndInv, NEW p \in Proc, CallFails(p) \/ RemoveDirFails(p) \/ UnlinkFails(p)
  PROVE  \A q \in Proc \ {p} : proc'[q] = proc[q]
<1>1. CASE Return(p)
  BY <1>1, ReturnedIsCareless
<1>2. CASE Goto(p, AfterRemoveInfo(p)) \/ Goto(p, "mark")
  BY <1>2, GoesOn
<1> QED BY <1>1, <1>2 DEF CallFails, RemoveDirFails, UnlinkFails

\* A goroutine's locals change by its own steps and by a crash.
LEMMA Acting ==
  ASSUME IndInv, [Next]_vars, NEW q \in Proc, proc'[q] # proc[q]
  PROVE  Does(q) \/ Crash
<1>1. ASSUME NEW w \in Worker, w # q,
             NewUpload(w) \/ LockUpload(w) \/ CopyPiece(w) \/ CopyEnds(w) \/ Serve(w)
      PROVE  FALSE
  <2>1. w \in Proc
    BY DEF Proc
  <2>2. CASE \/ NewUpload(w) \/ LockUpload(w) \/ InsertRow(w) \/ GetInfo(w) \/ GetReader(w)
             \/ OpenBin(w) \/ CopyEnds(w) \/ HashFile(w) \/ Respond(w)
    BY <1>1, <2>2, RequestMoves
  <2>3. CASE CopyPiece(w) \/ UpdateHash(w) \/ RenameBin(w)
    BY <1>1, <2>3, RequestElsewhere DEF Elsewhere
  <2>4. CASE CreateBin(w) \/ Goto(w, "hash")
    BY <1>1, <2>1, <2>4, GoesOn DEF CreateBin
  <2>5. CASE WriteInfo(w)
    BY <1>1, <2>1, <2>4, <2>5, ReturnedIsCareless DEF WriteInfo
  <2>6. CASE Terminate(w)
    BY <1>1, <2>1, <2>6, TerminateElsewhere DEF Elsewhere
  <2> QED BY <1>1, <2>2, <2>3, <2>4, <2>5, <2>6 DEF Serve
<1>2. ASSUME NEW g \in Gc, g # q, Collect(g)
      PROVE  FALSE
  <2>1. g \in Proc
    BY DEF Proc
  <2>2. CASE Terminate(g)
    BY <1>2, <2>1, <2>2, TerminateElsewhere DEF Elsewhere
  <2>3. CASE Tick(g) \/ NextExpired(g)
    BY <1>2, <2>1, <2>3 DEF Tick, NextExpired, IndInv, TypeOK
  <2> QED BY <1>2, <2>2, <2>3 DEF Collect
<1>3. ASSUME NEW p \in Proc, p # q, CallFails(p) \/ RemoveDirFails(p) \/ UnlinkFails(p)
      PROVE  FALSE
  BY <1>3, FailuresMove
<1>4. ~UNCHANGED vars /\ ~\E id \in Id : Expire(id)
  BY DEF vars, Expire
<1> QED BY <1>1, <1>2, <1>3, <1>4 DEF Next, Does

\* The steps that write the uploads table.
LEMMA TableSteps ==
  ASSUME [Next]_vars
  PROVE  \/ UNCHANGED table
         \/ \E w \in Worker : InsertRow(w) \/ UpdateHash(w)
         \/ \E p \in Proc : MarkDeleted(p)
<1>1. ASSUME NEW w \in Worker,
             NewUpload(w) \/ LockUpload(w) \/ CopyPiece(w) \/ CopyEnds(w) \/ Serve(w)
      PROVE  UNCHANGED table \/ InsertRow(w) \/ UpdateHash(w) \/ MarkDeleted(w)
  BY <1>1 DEF Serve, Terminate, NewUpload, LockUpload, CopyPiece, CopyEnds, CreateBin,
              WriteInfo, GetInfo, GetReader, OpenBin, HashFile, RenameBin, Respond,
              CountDuplicates, LookupBinPath, RemoveInfo, RemoveBin
<1>2. ASSUME NEW g \in Gc, Collect(g)
      PROVE  UNCHANGED table \/ MarkDeleted(g)
  BY <1>2 DEF Collect, Terminate, Tick, NextExpired, CountDuplicates, LookupBinPath,
              RemoveInfo, RemoveBin
<1>3. ASSUME NEW p \in Proc, CallFails(p) \/ RemoveDirFails(p) \/ UnlinkFails(p)
      PROVE  UNCHANGED table
  BY <1>3 DEF CallFails, RemoveDirFails, UnlinkFails
<1>4. ASSUME Crash \/ UNCHANGED vars \/ \E id \in Id : Expire(id)
      PROVE  UNCHANGED table
  BY <1>4 DEF Crash, vars, table, Expire
<1> QED BY <1>1, <1>2, <1>3, <1>4 DEF Next, Proc

\* The steps that write or remove a file.
LEMMA DiskSteps ==
  ASSUME [Next]_vars
  PROVE  \/ UNCHANGED disk
         \/ \E w \in Worker : CreateBin(w) \/ WriteInfo(w) \/ CopyPiece(w) \/ RenameBin(w)
         \/ \E p \in Proc : RemoveInfo(p) \/ RemoveBin(p) \/ RemoveDirFails(p)
<1>1. ASSUME NEW w \in Worker,
             NewUpload(w) \/ LockUpload(w) \/ CopyPiece(w) \/ CopyEnds(w) \/ Serve(w)
      PROVE  \/ UNCHANGED disk
             \/ CreateBin(w) \/ WriteInfo(w) \/ CopyPiece(w) \/ RenameBin(w)
             \/ RemoveInfo(w) \/ RemoveBin(w)
  BY <1>1 DEF Serve, Terminate, NewUpload, LockUpload, CopyEnds, InsertRow, GetInfo,
              GetReader, OpenBin, HashFile, UpdateHash, Respond, CountDuplicates,
              LookupBinPath, MarkDeleted
<1>2. ASSUME NEW g \in Gc, Collect(g)
      PROVE  UNCHANGED disk \/ RemoveInfo(g) \/ RemoveBin(g)
  BY <1>2 DEF Collect, Terminate, Tick, NextExpired, CountDuplicates, LookupBinPath,
              MarkDeleted
<1>3. ASSUME NEW p \in Proc, CallFails(p) \/ RemoveDirFails(p) \/ UnlinkFails(p)
      PROVE  UNCHANGED disk \/ RemoveDirFails(p)
  BY <1>3 DEF CallFails, UnlinkFails
<1>4. ASSUME Crash \/ UNCHANGED vars \/ \E id \in Id : Expire(id)
      PROVE  UNCHANGED disk
  BY <1>4 DEF Crash, vars, disk, Expire
<1> QED BY <1>1, <1>2, <1>3, <1>4 DEF Next, Proc

\* Records stay, and only NewUpload of an id nobody has sends a file.
LEMMA RecordsStay ==
  ASSUME IndInv, [Next]_vars
  PROVE  /\ rows \subseteq rows' /\ deleted \subseteq deleted'
         /\ \A id \in rows' \ rows : id \in Id /\ sha256sum'[id] = None
<1>1. CASE UNCHANGED table
  BY <1>1 DEF table
<1>2. ASSUME NEW w \in Worker, InsertRow(w)
      PROVE  /\ rows \subseteq rows' /\ deleted \subseteq deleted'
             /\ \A id \in rows' \ rows : id \in Id /\ sha256sum'[id] = None
  <2>1. proc[w].id \in Id
    BY <1>2 DEF InsertRow, IndInv, Knows, Working, Proc
  <2> QED BY <1>2, <2>1 DEF InsertRow, IndInv, StoreInv, Fresh
<1>3. CASE (\E w \in Worker : UpdateHash(w)) \/ \E p \in Proc : MarkDeleted(p)
  BY <1>3 DEF UpdateHash, MarkDeleted
<1> QED BY <1>1, <1>2, <1>3, TableSteps

\* FinishUpload records the digest of the file its client sends, where none was.
LEMMA Recorded ==
  ASSUME IndInv, NEW w \in Worker, UpdateHash(w)
  PROVE  /\ proc[w].id \in rows /\ proc[w].id \in Id
         /\ sha256sum[proc[w].id] = None
         /\ sha256sum'[proc[w].id] = client[proc[w].id] /\ client[proc[w].id] # None
         /\ \A id \in Id \ {proc[w].id} : sha256sum'[id] = sha256sum[id]
         /\ UNCHANGED <<rows, deleted, info, bins, client>>
         /\ proc'[w].at = "rename" /\ proc'[w].id = proc[w].id
<1>1. w \in Proc /\ Knows(w, proc[w]) /\ proc[w].at = "update"
  BY DEF IndInv, Proc, UpdateHash
<1>2. /\ proc[w].id \in rows /\ proc[w].id \in Id /\ sha256sum[proc[w].id] = None
      /\ proc[w].hash = client[proc[w].id] /\ client[proc[w].id] # None
  BY <1>1 DEF Knows, Working, Finishes, Finishing
<1>3. proc'[w].at = "rename" /\ proc'[w].id = proc[w].id
  BY <1>1, GoesOn DEF UpdateHash
<1> QED BY <1>2, <1>3 DEF UpdateHash, disk, IndInv, TypeOK

LEMMA DigestsAreKept ==
  ASSUME IndInv, [Next]_vars
  PROVE  DigestsStay
<1>1. CASE sha256sum' = sha256sum
  BY <1>1 DEF DigestsStay
<1>2. ASSUME NEW w \in Worker, UpdateHash(w) PROVE DigestsStay
  BY <1>2, Recorded DEF DigestsStay
<1> QED BY <1>1, <1>2, TableSteps DEF table, InsertRow, MarkDeleted

(*****************************************************************************)
(* Uploads with the same contents                                            *)
(*****************************************************************************)
ContentsDiffer == \A i, j \in Id : i # j => ClientFile[i] \intersect ClientFile[j] = {}

\* From the count of duplicates to the removal of the .bin.
Removing == {"lookup", "rminfo", "rmbin"}

\* No upload records its digest while an upload with the same contents, or the
\* same upload, is between its count of duplicates and the removal of its .bin,
\* unless no other upload sends these contents.
NoRace ==
  \A w \in Worker, p \in Proc :
    /\ proc[w].at = "update" /\ proc[p].at \in Removing
    /\ client[proc[w].id] = client[proc[p].id]
    => \A id \in Id \ {proc[p].id} : client[id] # client[proc[p].id]

\* Terminate still knows what it has counted when it removes the .bin.
Counted(r) == /\ LooksAt(r)
              /\ r.at = "rmbin" => ~r.shared
              /\ r.at \in Removing /\ ~r.shared => Duplicates(r.id) = {}

ShareInv == \A p \in Proc : Counted(proc[p])

Stored == \A id \in info : \/ Own(id) # {}
                           \/ /\ sha256sum[id] # None
                              /\ At(CompleteBinPath(sha256sum[id])) # {}

LEMMA StoredIsNoLoss == Stored => NoDataLoss
BY DEF Stored, NoDataLoss, Own

LEMMA DifferingDoNotRace == ContentsDiffer /\ IndInv /\ ClientSends => NoRace
<1> SUFFICES ASSUME ContentsDiffer, IndInv, ClientSends, NEW p \in Proc,
                    proc[p].at \in Removing, NEW id \in Id \ {proc[p].id}
             PROVE  client[id] # client[proc[p].id]
  BY DEF NoRace
<1>1. proc[p].id \in Id /\ client[proc[p].id] # None
  BY DEF IndInv, Knows, Working, Removing
<1>2. client[proc[p].id] \in ClientFile[proc[p].id]
  BY <1>1 DEF ClientSends
<1>3. client[id] # None => client[id] \in ClientFile[id]
  BY DEF ClientSends
<1> QED BY <1>1, <1>2, <1>3 DEF ContentsDiffer

\* Without a race, an upload that had no duplicates gets none.
LEMMA NoNewDuplicates ==
  ASSUME IndInv, NoRace, [Next]_vars, NEW p \in Proc, proc[p].at \in Removing,
         NEW id \in Id, id = proc[p].id, Duplicates(id) = {}
  PROVE  Duplicates(id)' = {}
<1> SUFFICES ASSUME NEW j \in Duplicates(id)' PROVE FALSE
  OBVIOUS
<1>1. /\ sha256sum'[id] # None /\ sha256sum'[j] = sha256sum'[id]
      /\ j \in rows' /\ j \notin deleted' /\ j # id
  BY DEF Duplicates
<1>2. j \in rows /\ j \notin deleted /\ j \in Id
  BY <1>1, RecordsStay DEF IndInv, TypeOK
<1>3. CASE sha256sum[id] = sha256sum'[id] /\ sha256sum[j] = sha256sum'[j]
  <2>1. j \in Duplicates(id)
    BY <1>1, <1>2, <1>3 DEF Duplicates
  <2> QED BY <2>1
<1>4. ASSUME NEW w \in Worker, UpdateHash(w) PROVE FALSE
  <2>1. /\ client' = client
        /\ sha256sum'[proc[w].id] = client[proc[w].id]
        /\ \A i \in Id \ {proc[w].id} : sha256sum'[i] = sha256sum[i]
    BY <1>4, Recorded
  <2>2. sha256sum'[id] = client[id] /\ sha256sum'[j] = client[j]
    BY <1>1, <1>2, <2>1 DEF IndInv, StoreInv, HashIsOfWholeFile
  <2>3. CASE client[proc[w].id] = client[id]
    <3>1. proc[w].at = "update"
      BY <1>4 DEF UpdateHash
    <3>2. client[j] # client[id]
      BY <1>1, <1>2, <2>3, <3>1 DEF NoRace
    <3> QED BY <1>1, <2>2, <3>2
  <2>4. CASE client[proc[w].id] # client[id]
    BY <1>1, <1>2, <1>3, <2>1, <2>2, <2>4
  <2> QED BY <2>3, <2>4
<1>5. CASE sha256sum' = sha256sum
  BY <1>3, <1>5
<1> QED BY <1>4, <1>5, TableSteps DEF table, InsertRow, MarkDeleted

\* Terminate goes from one step to the next with what it has found.
LEMMA TerminateMoves ==
  ASSUME IndInv, NEW p \in Proc, Terminate(p) \/ UnlinkFails(p),
         proc'[p].at \notin {"idle", "respond"}
  PROVE  /\ proc'[p].id = proc[p].id
         /\ \/ /\ proc[p].at = "count" /\ proc'[p].at = "lookup"
               /\ proc'[p].shared = (Duplicates(proc[p].id) # {})
               /\ UNCHANGED <<table, bins>>
            \/ /\ proc[p].at = "lookup" /\ proc'[p].at = "rminfo"
               /\ proc'[p].shared = proc[p].shared
               /\ proc'[p].path = BinPath(proc[p].id)
               /\ UNCHANGED <<table, bins>>
            \/ /\ proc[p].at = "rminfo"
               /\ proc'[p].at = IF proc[p].shared THEN "mark" ELSE "rmbin"
               /\ proc'[p].shared = proc[p].shared /\ proc'[p].path = proc[p].path
               /\ UNCHANGED <<table, bins>>
            \/ /\ proc[p].at = "rmbin" /\ proc'[p].at = "mark"
               /\ proc'[p].shared = proc[p].shared
               /\ RemoveBin(p) \/ UnlinkFails(p)
               /\ UNCHANGED table
<1>1. proc[p] \in Locals /\ proc \in [Proc -> Locals]
  BY DEF IndInv, TypeOK
<1>2. CASE CountDuplicates(p)
  BY <1>1, <1>2 DEF CountDuplicates, Locals, disk
<1>3. CASE LookupBinPath(p)
  BY <1>1, <1>3 DEF LookupBinPath, Locals, disk
<1>4. CASE MarkDeleted(p)
  BY <1>4, ReturnedIsCareless DEF MarkDeleted
<1>5. CASE RemoveInfo(p)
  BY <1>5, GoesOn DEF RemoveInfo, AfterRemoveInfo, KeepsBin
<1>6. CASE RemoveBin(p)
  BY <1>6, GoesOn DEF RemoveBin
<1>7. CASE UnlinkFails(p)
  BY <1>7, GoesOn DEF UnlinkFails, AfterRemoveInfo, KeepsBin, disk
<1> QED BY <1>2, <1>3, <1>4, <1>5, <1>6, <1>7 DEF Terminate

\* Only Terminate and FinishUpload go on to these steps.
LEMMA EndMoves ==
  ASSUME IndInv, [Next]_vars, NEW p \in Proc, proc'[p] # proc[p],
         proc'[p].at \in Removing \union {"mark", "update", "rename"}
  PROVE  \/ Terminate(p) \/ UnlinkFails(p)
         \/ p \in Worker /\ (HashFile(p) \/ UpdateHash(p))
<1>1. ~Crash /\ ~CallFails(p) /\ ~RemoveDirFails(p) /\ ~Return(p)
  BY ReturnedIsCareless DEF Crash, Idle, CallFails, RemoveDirFails, Removing
<1>2. ASSUME p \in Worker,
             NewUpload(p) \/ LockUpload(p) \/ CopyPiece(p) \/ CopyEnds(p) \/ Serve(p)
      PROVE  Terminate(p) \/ HashFile(p) \/ UpdateHash(p)
  <2>1. CASE \/ NewUpload(p) \/ LockUpload(p) \/ InsertRow(p) \/ GetInfo(p) \/ GetReader(p)
             \/ OpenBin(p) \/ CopyEnds(p) \/ HashFile(p) \/ Respond(p)
    BY <1>2, <2>1, RequestMoves DEF Careless, Removing
  <2>2. ~CopyPiece(p)
    <3> SUFFICES ASSUME CopyPiece(p) PROVE FALSE
      OBVIOUS
    <3>1. PICK n : proc' = [proc EXCEPT ![p].off = n]
      BY DEF CopyPiece
    <3>2. proc'[p].at = "copy"
      BY <3>1 DEF CopyPiece, IndInv, TypeOK, Locals
    <3> QED BY <3>2 DEF Removing
  <2>3. ~CreateBin(p) /\ ~WriteInfo(p)
    BY <1>1, GoesOn DEF CreateBin, WriteInfo, Removing
  <2>4. ~RenameBin(p)
    BY <1>1 DEF RenameBin
  <2> QED BY <1>2, <2>1, <2>2, <2>3, <2>4 DEF Serve
<1>3. ASSUME p \in Gc, Collect(p) PROVE Terminate(p)
  <2>1. ~Tick(p)
    BY DEF Tick
  <2>2. ~NextExpired(p)
    BY DEF NextExpired, IndInv, TypeOK, Locals, Removing
  <2> QED BY <1>3, <2>1, <2>2 DEF Collect
<1> QED BY <1>1, <1>2, <1>3, Acting DEF Does

LEMMA ShareInvNext ==
  ASSUME IndInv, NoRace, ShareInv, [Next]_vars
  PROVE  ShareInv'
<1> SUFFICES ASSUME NEW p \in Proc, proc'[p].at \in Removing PROVE Counted(proc[p])'
  BY DEF ShareInv, Counted, LooksAt, Removing
<1>1. DigestsStay /\ IndInv' /\ Counted(proc[p])
  BY DigestsAreKept, IndInvNext DEF ShareInv
<1>2. PICK id \in Id : id = proc'[p].id
  BY <1>1 DEF IndInv, Knows, Working, Removing
<1>3. CASE proc'[p] = proc[p]
  <2>1. id = proc[p].id /\ proc[p].at \in Removing
    BY <1>2, <1>3
  <2>2. ~proc[p].shared => Duplicates(id)' = {}
    BY <1>1, <2>1, NoNewDuplicates DEF Counted
  <2>3. ~proc'[p].shared => Duplicates(proc[p].id)' = {}
    BY <1>2, <1>3, <2>2 DEF Duplicates
  <2>4. LooksAt(proc[p])'
    BY <1>1, <1>2, <1>3 DEF Counted, LooksAt, DigestsStay
  <2>5. proc'[p].at = "rmbin" => ~proc'[p].shared
    BY <1>1, <1>3 DEF Counted
  <2> QED BY <2>3, <2>4, <2>5 DEF Counted
<1>4. CASE proc'[p] # proc[p]
  <2>1. Terminate(p) \/ UnlinkFails(p)
    <3>1. ASSUME p \in Worker, HashFile(p) \/ UpdateHash(p) PROVE FALSE
      BY <3>1, RequestMoves, Recorded DEF Careless, Removing, HashFile
    <3> QED BY <1>4, <3>1, EndMoves
  <2>2. /\ id = proc[p].id
        /\ \/ /\ proc[p].at = "count" /\ proc'[p].at = "lookup"
              /\ proc'[p].shared = (Duplicates(proc[p].id) # {})
           \/ /\ proc[p].at = "lookup" /\ proc'[p].at = "rminfo"
              /\ proc'[p].shared = proc[p].shared
              /\ proc'[p].path = BinPath(proc[p].id)
           \/ /\ proc[p].at = "rminfo" /\ proc'[p].at = "rmbin" /\ ~proc[p].shared
              /\ proc'[p].shared = proc[p].shared /\ proc'[p].path = proc[p].path
        /\ UNCHANGED table
    BY <1>2, <2>1, TerminateMoves DEF Removing
  <2>3. Duplicates(id)' = Duplicates(id)
    BY <2>2 DEF Duplicates, table
  <2>4. ~proc'[p].shared => Duplicates(id)' = {}
    BY <1>1, <2>2, <2>3 DEF Counted, Removing
  <2>5. ~proc'[p].shared => Duplicates(proc[p].id)' = {}
    BY <1>2, <2>4 DEF Duplicates
  <2>6. LooksAt(proc[p])'
    BY <1>1, <1>2, <2>2 DEF Counted, LooksAt, BinPath, table
  <2>7. proc'[p].at = "rmbin" => ~proc'[p].shared
    BY <2>2
  <2> QED BY <2>5, <2>6, <2>7 DEF Counted
<1> QED BY <1>3, <1>4

LEMMA RemovesUnshared ==
  ASSUME IndInv, ShareInv
  PROVE  \A p \in Proc : RemoveBin(p) =>
           \A id \in rows \ (deleted \union {proc[p].id}) : BinPath(id) # proc[p].path
<1> SUFFICES ASSUME NEW p \in Proc, RemoveBin(p),
                    NEW id \in rows \ (deleted \union {proc[p].id}),
                    BinPath(id) = proc[p].path
             PROVE  FALSE
  OBVIOUS
<1>1. /\ id # proc[p].id /\ Duplicates(proc[p].id) = {}
      /\ \/ proc[p].path = IncompleteBinPath(proc[p].id)
         \/ /\ sha256sum[proc[p].id] # None
            /\ proc[p].path = CompleteBinPath(sha256sum[proc[p].id])
  BY DEF ShareInv, Counted, LooksAt, Removing, RemoveBin
<1>2. sha256sum[id] # None /\ sha256sum[proc[p].id] = sha256sum[id]
  BY <1>1 DEF BinPath, IncompleteBinPath, CompleteBinPath
<1>3. id \in Duplicates(proc[p].id)
  BY <1>1, <1>2 DEF Duplicates
<1> QED BY <1>1, <1>3

\* A file leaves its path by the rename of FinishUpload or the removal of Terminate.
LEMMA GoneFile ==
  ASSUME IndInv, [Next]_vars, NEW path, At(path) # {}, At(path)' = {}
  PROVE  \/ \E w \in Worker :
              /\ RenameBin(w) /\ path = IncompleteBinPath(proc[w].id)
              /\ \E b \in bins' : b.path = CompleteBinPath(proc[w].hash)
         \/ \E p \in Proc : /\ RemoveBin(p) \/ RemoveDirFails(p)
                            /\ proc[p].at = "rmbin" /\ path = proc[p].path
                            /\ UNCHANGED info
<1>1. bins' # bins
  BY DEF At
<1>2. PICK a \in bins : a.path = path
  BY DEF At
<1>3. \A b \in bins' : b.path # path
  BY DEF At
<1>4. ASSUME NEW w \in Worker, CreateBin(w) PROVE FALSE
  BY <1>2, <1>3, <1>4 DEF CreateBin
<1>5. ASSUME NEW w \in Worker, CopyPiece(w) PROVE FALSE
  <2>1. PICK old, bytes : bins' = Appended(old, bytes)
    BY <1>5 DEF CopyPiece
  <2> QED BY <1>3, <2>1, AppendKeeps
<1>6. ASSUME NEW w \in Worker, RenameBin(w)
      PROVE  /\ path = IncompleteBinPath(proc[w].id)
             /\ \E b \in bins' : b.path = CompleteBinPath(proc[w].hash)
  <2> DEFINE old == IncompleteBinPath(proc[w].id)
             new == CompleteBinPath(proc[w].hash)
  <2>1. At(old) # {} /\ bins' = Renamed(old, new)
    BY <1>1, <1>6 DEF RenameBin
  <2>2. PICK b \in At(old) : TRUE
    BY <2>1
  <2>3. [path |-> new, bytes |-> b.bytes] \in bins'
    BY <2>1, <2>2 DEF Renamed
  <2>4. \E c \in bins' : c.path = new
    BY <2>3
  <2>5. path = old
    <3>1. path # new
      BY <1>3, <2>4
    <3>2. a.path \notin {old, new} => a \in bins'
      BY <2>1 DEF Renamed
    <3> QED BY <1>2, <1>3, <3>1, <3>2
  <2> QED BY <2>4, <2>5
<1>7. ASSUME NEW p \in Proc, RemoveBin(p) \/ RemoveDirFails(p)
      PROVE  proc[p].at = "rmbin" /\ path = proc[p].path /\ UNCHANGED info
  <2>1. proc[p].at = "rmbin" /\ bins' = bins \ At(proc[p].path) /\ UNCHANGED info
    BY <1>1, <1>7 DEF RemoveBin, RemoveDirFails
  <2>2. a \in At(proc[p].path)
    BY <1>2, <1>3, <2>1
  <2> QED BY <1>2, <2>1, <2>2 DEF At
<1>8. ~UNCHANGED disk /\ (\A w \in Worker : ~WriteInfo(w)) /\ (\A p \in Proc : ~RemoveInfo(p))
  BY <1>1 DEF disk, WriteInfo, RemoveInfo
<1> QED BY <1>4, <1>5, <1>6, <1>7, <1>8, DiskSteps

\* A file comes to a path by NewUpload or the rename of FinishUpload.
LEMMA NewFile ==
  ASSUME IndInv, [Next]_vars, NEW path, At(path) = {}, At(path)' # {}
  PROVE  \E w \in Worker :
           \/ CreateBin(w) /\ path = BinPath(proc[w].id)
           \/ RenameBin(w) /\ path = CompleteBinPath(proc[w].hash)
<1>1. PICK a \in bins' : a.path = path
  BY DEF At
<1>2. \A b \in bins : b.path # path
  BY DEF At
<1>3. ASSUME NEW w \in Worker, CopyPiece(w) PROVE FALSE
  <2>1. PICK old, bytes : bins' = Appended(old, bytes)
    BY <1>3 DEF CopyPiece
  <2> QED BY <1>1, <1>2, <2>1 DEF Appended
<1>4. ASSUME NEW w \in Worker, CreateBin(w) PROVE path = BinPath(proc[w].id)
  BY <1>1, <1>2, <1>4 DEF CreateBin
<1>5. ASSUME NEW w \in Worker, RenameBin(w) PROVE path = CompleteBinPath(proc[w].hash)
  BY <1>1, <1>2, <1>5 DEF RenameBin, Renamed
<1>6. ~(bins' \subseteq bins)
  BY <1>1, <1>2
<1>7. ~UNCHANGED disk /\ (\A w \in Worker : ~WriteInfo(w))
  BY <1>6 DEF disk, WriteInfo
<1>8. \A p \in Proc : ~RemoveInfo(p) /\ ~RemoveBin(p) /\ ~RemoveDirFails(p)
  BY <1>6 DEF RemoveInfo, RemoveBin, RemoveDirFails
<1> QED BY <1>3, <1>4, <1>5, <1>7, <1>8, DiskSteps

LEMMA StoredNext ==
  ASSUME IndInv, LossInv, info \subseteq rows, ShareInv, Stored, [Next]_vars
  PROVE  Stored'
<1>1. ASSUME NEW i \in info' \ info PROVE Own(i)' # {}
  <2>1. PICK w \in Worker : WriteInfo(w) /\ i = proc[w].id
    BY <1>1, DiskSteps DEF disk, CreateBin, WriteInfo, CopyPiece, RenameBin, RemoveInfo,
                           RemoveBin, RemoveDirFails
  <2>2. Own(i) # {} /\ bins' = bins
    BY <2>1 DEF WriteInfo, LossInv, Removal, Proc
  <2> QED BY <2>2 DEF Own, At, IncompleteBinPath
<1>2. ASSUME NEW i \in info, i \in info'
      PROVE  \/ Own(i)' # {}
             \/ sha256sum'[i] # None /\ \E b \in bins' : b.path = CompleteBinPath(sha256sum'[i])
  <2>1. i \in Id /\ i \in rows /\ i \notin deleted
    BY DEF LossInv, DeletedHasNoInfo, IndInv, TypeOK
  <2>2. sha256sum[i] # None => sha256sum'[i] = sha256sum[i]
    BY <2>1, DigestsAreKept DEF DigestsStay
  <2>3. CASE Own(i) # {}
    <3> SUFFICES ASSUME Own(i)' = {}
                 PROVE  sha256sum'[i] # None
                        /\ \E b \in bins' : b.path = CompleteBinPath(sha256sum'[i])
      OBVIOUS
    <3> DEFINE path == IncompleteBinPath(i)
    <3>1. At(path) # {} /\ At(path)' = {}
      BY <2>3 DEF Own, At, IncompleteBinPath
    <3>2. ASSUME NEW p \in Proc, proc[p].at = "rmbin", path = proc[p].path
          PROVE  FALSE
      <4>1. proc[p].id # i /\ LooksAt(proc[p])
        BY <3>2 DEF LossInv, Removal
      <4> QED BY <3>2, <4>1 DEF LooksAt, IncompleteBinPath, CompleteBinPath
    <3>3. PICK w \in Worker : /\ RenameBin(w) /\ path = IncompleteBinPath(proc[w].id)
                              /\ \E b \in bins' : b.path = CompleteBinPath(proc[w].hash)
      <4> HIDE DEF path
      <4> QED BY <3>1, <3>2, GoneFile
    <3>4. proc[w].id = i
      BY <3>3 DEF IncompleteBinPath
    <3>5. sha256sum[i] = proc[w].hash /\ sha256sum[i] # None
      <4>1. Removal(proc[w]) /\ Knows(w, proc[w]) /\ proc[w].at = "rename"
        BY <3>3 DEF LossInv, IndInv, Proc, RenameBin
      <4> QED BY <3>4, <4>1 DEF Removal, Knows, Working, Finishes
    <3> QED BY <2>2, <3>3, <3>5
  <2>4. CASE sha256sum[i] # None /\ At(CompleteBinPath(sha256sum[i])) # {}
    <3> SUFFICES \E b \in bins' : b.path = CompleteBinPath(sha256sum[i])
      BY <2>2, <2>4
    <3>1. PICK path : path = CompleteBinPath(sha256sum[i])
      OBVIOUS
    <3> SUFFICES ASSUME At(path)' = {} PROVE FALSE
      BY <3>1 DEF At
    <3>2. At(path) # {}
      BY <2>4, <3>1
    <3>3. ASSUME NEW p \in Proc, proc[p].at = "rmbin", path = proc[p].path
          PROVE  FALSE
      <4>1. proc[p].id # i /\ Counted(proc[p])
        BY <3>3 DEF LossInv, Removal, ShareInv
      <4>2. sha256sum[proc[p].id] = sha256sum[i]
        BY <3>1, <3>3, <4>1 DEF Counted, LooksAt, IncompleteBinPath, CompleteBinPath
      <4>3. i \in Duplicates(proc[p].id)
        BY <2>1, <2>4, <4>1, <4>2 DEF Duplicates
      <4> QED BY <3>3, <4>1, <4>3 DEF Counted, Removing
    <3>4. \A w \in Worker : path # IncompleteBinPath(proc[w].id)
      BY <3>1 DEF IncompleteBinPath, CompleteBinPath
    <3> QED BY <3>2, <3>3, <3>4, GoneFile
  <2> QED BY <2>3, <2>4 DEF Stored
<1>3. ASSUME NEW i \in info'
      PROVE  \/ Own(i)' # {}
             \/ sha256sum'[i] # None /\ At(CompleteBinPath(sha256sum[i]))' # {}
  BY <1>1, <1>2 DEF At, CompleteBinPath
<1> QED BY <1>3 DEF Stored

(*****************************************************************************)
(* What a store keeps whose uploads may share a .bin                         *)
(*****************************************************************************)
LEMMA ClientSendsNext ==
  ASSUME IndInv, ClientSends, [Next]_vars
  PROVE  ClientSends'
<1>1. CASE client' = client
  BY <1>1 DEF ClientSends
<1>2. ASSUME NEW w \in Worker, NewUpload(w) PROVE ClientSends'
  BY <1>2 DEF NewUpload, ClientSends, IndInv, TypeOK
<1>3. ASSUME NEW w \in Worker, LockUpload(w) \/ CopyPiece(w) \/ CopyEnds(w) \/ Serve(w)
      PROVE  client' = client
  BY <1>3 DEF Serve, Terminate, LockUpload, CopyPiece, CopyEnds, InsertRow, CreateBin,
              WriteInfo, GetInfo, GetReader, OpenBin, HashFile, UpdateHash, RenameBin,
              Respond, CountDuplicates, LookupBinPath, RemoveInfo, RemoveBin, MarkDeleted
<1>4. ASSUME NEW g \in Gc, Collect(g)
      PROVE  client' = client
  BY <1>4 DEF Collect, Terminate, Tick, NextExpired, CountDuplicates, LookupBinPath,
              RemoveInfo, RemoveBin, MarkDeleted
<1>5. ASSUME NEW p \in Proc, CallFails(p) \/ RemoveDirFails(p) \/ UnlinkFails(p)
      PROVE  client' = client
  BY <1>5 DEF CallFails, RemoveDirFails, UnlinkFails
<1>6. ASSUME Crash \/ UNCHANGED vars \/ \E id \in Id : Expire(id)
      PROVE  client' = client
  BY <1>6 DEF Crash, vars, Expire
<1> QED BY <1>1, <1>2, <1>3, <1>4, <1>5, <1>6 DEF Next

\* Where no two uploads have the same contents, there is never a race.
LEMMA PrivateStoresDoNotRace == ASSUME ContentsDiffer PROVE Spec => []NoRace
<1>1. Init => ClientSends
  BY DEF Init, ClientSends
<1>2. IndInv /\ ClientSends /\ [Next]_vars => ClientSends'
  BY ClientSendsNext
<1>3. IndInv /\ ClientSends => NoRace
  BY DifferingDoNotRace
<1> QED BY <1>1, <1>2, <1>3, Invariant, PTL DEF Spec

LEMMA Viewing == Spec => []ViewInv
<1>1. Init => ViewInv
  BY ViewInvInit
<1>2. IndInv /\ ViewInv /\ [Next]_vars => ViewInv'
  BY ViewInvNext
<1> QED BY <1>1, <1>2, Invariant, PTL DEF Spec

\* As long as no digest is recorded between another Terminate's count of
\* duplicates and its removal, that count stays true until the removal.
THEOREM CountsStayTrue == Spec /\ []NoRace => []ShareInv
<1>1. Init => ShareInv
  BY DEF Init, Idle, ShareInv, Counted, LooksAt, Removing
<1>2. IndInv /\ NoRace /\ ShareInv /\ [Next]_vars => ShareInv'
  BY ShareInvNext
<1> QED BY <1>1, <1>2, Invariant, PTL DEF Spec

\* Then Terminate never removes the file of another upload that is not deleted,
\* whatever else interleaves, fails or is cut short.
THEOREM SharedBinIsKept == Spec /\ []NoRace => KeepsSharedBin
<1>1. IndInv /\ ShareInv =>
        \A p \in Proc : RemoveBin(p) =>
          \A id \in rows \ (deleted \union {proc[p].id}) : BinPath(id) # proc[p].path
  BY RemovesUnshared
<1> QED BY <1>1, Invariant, CountsStayTrue, PTL DEF KeepsSharedBin

\* And the bytes that an upload has sent stay on disk.
LEMMA BytesAreStored == ASSUME UnlinkWorks PROVE Spec /\ []NoRace => []Stored
<1>1. Init => Stored
  BY DEF Init, Stored
<1>2. IndInv /\ LossInv /\ ViewInv /\ ShareInv /\ Stored /\ [Next]_vars => Stored'
  BY StoredNext DEF ViewInv
<1> QED BY <1>1, <1>2, Invariant, RemovalsAreInformed, Viewing, CountsStayTrue, PTL DEF Spec

\* So the bytes of every upload that GetInfo can find are on disk: Terminate
\* removes no .bin of another upload, UpdateHash names none that is not there.
THEOREM NoDataIsLost == ASSUME UnlinkWorks PROVE Spec /\ []NoRace => []NoDataLoss
<1>1. Stored => NoDataLoss
  BY StoredIsNoLoss
<1> QED BY <1>1, BytesAreStored, PTL

\* In a store in which no two uploads have the same contents there is no such
\* race, and no Terminate ever removes the file of another upload.
THEOREM PrivateBinIsKept == ASSUME ContentsDiffer PROVE Spec => KeepsSharedBin
BY PrivateStoresDoNotRace, SharedBinIsKept, PTL

\* Nor does an upload that GetInfo can find ever lose its bytes there, whatever
\* else fails and wherever the process dies.
THEOREM PrivateDataIsKept ==
  ASSUME UnlinkWorks, ContentsDiffer
  PROVE  Spec => []NoDataLoss
BY PrivateStoresDoNotRace, NoDataIsLost, PTL

(*****************************************************************************)
(* Where the .bin files are when nothing is in progress, in a store in which *)
(* only statements on the uploads table fail                                 *)
(*****************************************************************************)
StatementsFail == FaultKinds \subseteq {"db"}

LEMMA FewFaults ==
  ASSUME StatementsFail
  PROVE  UnlinkWorks /\ ~Crash /\ \A p \in Proc : ~RemoveDirFails(p) /\ ~UnlinkFails(p)
BY DEF StatementsFail, UnlinkWorks, Crash, RemoveDirFails, UnlinkFails, Fault

LEMMA RenameIsNext ==
  ASSUME IndInv, StatementsFail, [Next]_vars, NEW w \in Worker, proc[w].at = "rename"
  PROVE  proc'[w] = proc[w] \/ RenameBin(w)
<1> SUFFICES ASSUME proc'[w] # proc[w] PROVE RenameBin(w)
  OBVIOUS
<1>1. w \in Proc /\ w \notin Gc
  BY StoreAssumption DEF Proc
<1>2. ~CallFails(w)
  BY DEF CallFails, Fault, StatementsFail
<1>3. NewUpload(w) \/ LockUpload(w) \/ CopyPiece(w) \/ CopyEnds(w) \/ Serve(w)
  BY <1>1, <1>2, FewFaults, Acting DEF Does
<1> QED BY <1>3 DEF Serve, Terminate, NewUpload, LockUpload, CopyPiece, CopyEnds, InsertRow,
                CreateBin, WriteInfo, GetInfo, GetReader, OpenBin, HashFile, UpdateHash,
                Respond, CountDuplicates, LookupBinPath, RemoveInfo, RemoveBin, MarkDeleted

LEMMA RenamedAway ==
  ASSUME NEW w \in Worker, RenameBin(w), NEW path, path = IncompleteBinPath(proc[w].id)
  PROVE  At(path)' = {}
<1>1. path # CompleteBinPath(proc[w].hash)
  BY DEF IncompleteBinPath, CompleteBinPath
<1>2. CASE At(path) = {}
  BY <1>2 DEF RenameBin, At
<1>3. CASE bins' = Renamed(path, CompleteBinPath(proc[w].hash))
  BY <1>1, <1>3 DEF Renamed, At
<1> QED BY <1>2, <1>3 DEF RenameBin

\* FinishUpload has a rename to do.
ToRename(path) ==
  \E w \in Worker : proc[w].at = "rename" /\ path = IncompleteBinPath(proc[w].id)

LEMMA StillToRename ==
  ASSUME IndInv, StatementsFail, [Next]_vars, NEW path, ToRename(path), At(path)' # {}
  PROVE  ToRename(path)'
<1>1. PICK w \in Worker : proc[w].at = "rename" /\ path = IncompleteBinPath(proc[w].id)
  BY DEF ToRename
<1>2. ~RenameBin(w)
  BY <1>1, RenamedAway
<1>3. proc'[w] = proc[w]
  BY <1>1, <1>2, RenameIsNext
<1> QED BY <1>1, <1>3 DEF ToRename, IncompleteBinPath

\* An upload with a digest whose file has its first name is being finished.
Pending ==
  \A id \in Id : sha256sum[id] # None /\ Own(id) # {} => ToRename(IncompleteBinPath(id))

LEMMA PendingNext ==
  ASSUME IndInv, StatementsFail, Pending, [Next]_vars
  PROVE  Pending'
<1> SUFFICES ASSUME NEW id \in Id, sha256sum'[id] # None, NEW path,
                    path = IncompleteBinPath(id), At(path)' # {}
             PROVE  ToRename(path)'
  BY DEF Pending, Own, IncompleteBinPath, At, ToRename
<1>1. CASE sha256sum[id] = None
  <2>1. PICK w \in Worker : UpdateHash(w)
    BY <1>1, TableSteps DEF table, InsertRow, MarkDeleted
  <2>2. proc[w].id = id /\ proc'[w].at = "rename" /\ proc'[w].id = proc[w].id
    BY <1>1, <2>1, Recorded
  <2> QED BY <2>2 DEF ToRename, IncompleteBinPath
<1>2. CASE sha256sum[id] # None
  <2>1. At(path) # {}
    <3> SUFFICES ASSUME NEW w \in Worker,
                        \/ CreateBin(w) /\ path = BinPath(proc[w].id)
                        \/ RenameBin(w) /\ path = CompleteBinPath(proc[w].hash)
                 PROVE  FALSE
      BY NewFile
    <3>1. CreateBin(w) /\ path = BinPath(proc[w].id)
      BY DEF IncompleteBinPath, CompleteBinPath
    <3>2. sha256sum[proc[w].id] = None
      BY <3>1 DEF CreateBin, IndInv, Knows, Finishes, Creating, Proc
    <3> QED BY <1>2, <3>1, <3>2 DEF BinPath, IncompleteBinPath
  <2>2. ToRename(path)
    BY <1>2, <2>1 DEF Pending, Own
  <2> QED BY <2>1, <2>2, StillToRename
<1> QED BY <1>1, <1>2

LEMMA RenamedIsRight == IndInv /\ LossInv /\ Stored /\ Pending => BinPathStoresData
<1> SUFFICES ASSUME IndInv, LossInv, Stored, Pending, AllIdle, NEW id \in info
             PROVE  At(BinPath(id)) # {}
  BY DEF BinPathStoresData
<1>1. id \in Id /\ ~ToRename(IncompleteBinPath(id))
  BY DEF AllIdle, ToRename, Proc, IndInv, TypeOK
<1>2. CASE sha256sum[id] = None
  BY <1>2 DEF LossInv, UnfinishedHasBin, BinPath
<1>3. CASE sha256sum[id] # None
  BY <1>1, <1>3 DEF Stored, Pending, BinPath
<1> QED BY <1>2, <1>3

\* "binPath returns the path to the .bin storing the binary data": as long as
\* no digest is recorded between a Terminate's count of duplicates and its
\* removal, it does, whenever nothing is in progress.
THEOREM BinPathIsRight ==
  ASSUME StatementsFail
  PROVE  Spec /\ []NoRace => []BinPathStoresData
<1>1. Init => Pending
  BY DEF Init, Pending
<1>2. IndInv /\ Pending /\ [Next]_vars => Pending'
  BY PendingNext
<1>3. IndInv /\ LossInv /\ Stored /\ Pending => BinPathStoresData
  BY RenamedIsRight
<1>4. UnlinkWorks
  BY FewFaults
<1> QED BY <1>1, <1>2, <1>3, <1>4, Invariant, RemovalsAreInformed, BytesAreStored, PTL DEF Spec

\* From the count of duplicates to the record of the deletion.
Ends == Removing \union {"mark"}

\* While one goroutine terminates an upload, no other records the deletion of
\* another upload with the same contents, and no request is finishing the upload.
EndsApart ==
  \A p, q \in Proc : p # q /\ proc[p].at \in Ends =>
    /\ proc[q].at = "mark" /\ proc[q].id # proc[p].id =>
         client[proc[q].id] # client[proc[p].id]
    /\ proc[q].at \in {"update", "rename"} => proc[q].id # proc[p].id

\* Somebody will see to the file at path: the Terminate of an upload that is not
\* deleted, or a rename.
Held(path) == (\E id \in rows \ deleted : BinPath(id) = path) \/ ToRename(path)

\* Terminate leaves no file behind, or leaves it to an upload that shares it.
Ending(r) ==
  /\ r.at \in {"lookup", "rminfo", "mark"} /\ r.shared => Duplicates(r.id) # {}
  /\ r.at = "rmbin" => ~r.shared
  /\ r.at \in {"rminfo", "rmbin"} => r.path = BinPath(r.id)
  /\ r.at = "mark" => At(BinPath(r.id)) = {} \/ Duplicates(r.id) # {}
  /\ r.at \in {"update", "rename"} => r.id \in rows \ deleted

OrphanInv == /\ \A path : At(path) # {} => Held(path)
             /\ \A p \in Proc : Ending(proc[p])

LEMMA StillShared ==
  ASSUME IndInv, EndsApart, [Next]_vars, NEW p \in Proc, proc[p].at \in Ends,
         NEW id \in Id, id = proc[p].id, Duplicates(id) # {}
  PROVE  Duplicates(id)' # {}
<1>1. PICK j \in Duplicates(id) : TRUE
  OBVIOUS
<1>2. /\ j \in rows /\ j \in Id /\ j \notin deleted /\ j # id
      /\ sha256sum[id] # None /\ sha256sum[j] = sha256sum[id]
  BY <1>1 DEF Duplicates, IndInv, TypeOK
<1>3. j \in rows' /\ sha256sum'[id] # None /\ sha256sum'[j] = sha256sum'[id]
  BY <1>2, RecordsStay, DigestsAreKept DEF DigestsStay
<1>4. j \notin deleted'
  <2> SUFFICES ASSUME NEW q \in Proc, MarkDeleted(q), proc[q].id = j PROVE FALSE
    BY <1>2, TableSteps DEF table, InsertRow, UpdateHash, MarkDeleted
  <2>1. client[j] # client[id]
    BY <1>2 DEF EndsApart, MarkDeleted
  <2> QED BY <1>2, <2>1 DEF IndInv, StoreInv, HashIsOfWholeFile
<1> QED BY <1>2, <1>3, <1>4 DEF Duplicates

LEMMA PathStays ==
  ASSUME IndInv, EndsApart, [Next]_vars, NEW p \in Proc, proc[p].at \in Ends,
         NEW id \in Id, id = proc[p].id
  PROVE  sha256sum'[id] = sha256sum[id] /\ BinPath(id)' = BinPath(id)
<1>1. ASSUME NEW w \in Worker, UpdateHash(w) PROVE sha256sum'[id] = sha256sum[id]
  <2>1. proc[w].id # id
    BY <1>1 DEF EndsApart, UpdateHash, Ends, Removing, Proc
  <2> QED BY <1>1, <2>1, Recorded
<1>2. sha256sum'[id] = sha256sum[id]
  BY <1>1, TableSteps DEF table, InsertRow, MarkDeleted
<1> QED BY <1>2 DEF BinPath, IncompleteBinPath, CompleteBinPath

\* What has no record that is not deleted, and is not about to be marked, gets
\* no file from anyone else.
LEMMA NoFileComes ==
  ASSUME IndInv, LossInv, EndsApart, OrphanInv, [Next]_vars,
         NEW p \in Proc, proc[p].at = "mark",
         NEW id \in Id, id = proc[p].id, At(BinPath(id)) = {}, Duplicates(id) = {},
         NEW path, path = BinPath(id)
  PROVE  At(path)' = {}
<1> SUFFICES ASSUME NEW w \in Worker,
                    \/ CreateBin(w) /\ path = BinPath(proc[w].id)
                    \/ RenameBin(w) /\ path = CompleteBinPath(proc[w].hash)
             PROVE  FALSE
  BY NewFile
<1>1. w \in Proc /\ w # p /\ Knows(w, proc[w]) /\ Removal(proc[w]) /\ Ending(proc[w])
  BY DEF IndInv, LossInv, OrphanInv, CreateBin, RenameBin, Proc
<1>2. CASE CreateBin(w) /\ path = BinPath(proc[w].id)
  <2>1. sha256sum[proc[w].id] = None /\ proc[w].op = "POST"
    BY <1>1, <1>2 DEF CreateBin, Knows, Finishes, Creating
  <2>2. proc[w].id = id
    BY <1>2, <2>1 DEF BinPath, IncompleteBinPath, CompleteBinPath
  <2> QED BY <1>1, <2>1, <2>2 DEF IndInv, Alone
<1>3. CASE RenameBin(w) /\ path = CompleteBinPath(proc[w].hash)
  <2>1. /\ sha256sum[proc[w].id] = proc[w].hash /\ proc[w].hash # None
        /\ proc[w].id \in rows \ deleted
    BY <1>1, <1>3 DEF RenameBin, Removal, Knows, Working, Finishes, Finishing, Ending
  <2>2. sha256sum[id] = proc[w].hash
    BY <1>3 DEF BinPath, IncompleteBinPath, CompleteBinPath
  <2>3. proc[w].id # id
    BY <1>1, <1>3 DEF EndsApart, RenameBin, Ends
  <2>4. proc[w].id \in Duplicates(id)
    BY <2>1, <2>2, <2>3 DEF Duplicates
  <2> QED BY <2>4
<1> QED BY <1>2, <1>3

\* One that stays where it is.
LEMMA StillEnding ==
  ASSUME IndInv, LossInv, EndsApart, OrphanInv, [Next]_vars,
         NEW p \in Proc, proc'[p] = proc[p]
  PROVE  Ending(proc[p])'
<1>1. Ending(proc[p]) /\ Knows(p, proc[p])
  BY DEF OrphanInv, IndInv
<1>2. CASE proc[p].at \in Ends
  <2>1. PICK id \in Id : id = proc[p].id
    BY <1>1, <1>2 DEF Knows, Working, Ends, Removing
  <2>2. BinPath(id)' = BinPath(id)
    BY <1>2, <2>1, PathStays
  <2>3. Duplicates(id) # {} => Duplicates(id)' # {}
    BY <1>2, <2>1, StillShared
  <2>4. proc[p].at = "mark" => At(BinPath(id))' = {} \/ Duplicates(id)' # {}
    <3> SUFFICES ASSUME proc[p].at = "mark", At(BinPath(id)) = {}, Duplicates(id) = {}
                 PROVE  At(BinPath(id))' = {}
      BY <1>1, <2>1, <2>3 DEF Ending
    <3>1. PICK path : path = BinPath(id)
      OBVIOUS
    <3>2. At(path)' = {}
      BY <2>1, <3>1, NoFileComes
    <3> QED BY <2>2, <3>1, <3>2 DEF At
  <2>5. proc'[p].id = id
    BY <2>1
  <2>6. /\ proc'[p].at \in {"lookup", "rminfo", "mark"} /\ proc'[p].shared =>
             Duplicates(id)' # {}
        /\ proc'[p].at = "rmbin" => ~proc'[p].shared
        /\ proc'[p].at \in {"rminfo", "rmbin"} => proc'[p].path = BinPath(id)'
        /\ proc'[p].at = "mark" => At(BinPath(id))' = {} \/ Duplicates(id)' # {}
        /\ proc'[p].at \notin {"update", "rename"}
    BY <1>1, <1>2, <2>1, <2>2, <2>3, <2>4 DEF Ending, Ends, Removing
  <2> QED BY <2>5, <2>6 DEF Ending, Duplicates, BinPath, At
<1>3. CASE proc[p].at \in {"update", "rename"}
  <2>1. PICK id \in Id : id = proc[p].id
    BY <1>1, <1>3 DEF Knows, Working
  <2>2. id \in rows' /\ id \notin deleted
    BY <1>1, <1>3, <2>1, RecordsStay DEF Ending
  <2>3. id \notin deleted'
    <3> SUFFICES ASSUME NEW q \in Proc, MarkDeleted(q), proc[q].id = id PROVE FALSE
      BY <2>2, TableSteps DEF table, InsertRow, UpdateHash, MarkDeleted
    <3>1. q # p /\ proc[q].at \in Ends
      BY <1>3 DEF MarkDeleted, Ends
    <3> QED BY <1>3, <2>1, <3>1 DEF EndsApart
  <2> QED BY <1>3, <2>1, <2>2, <2>3 DEF Ending
<1>4. CASE proc[p].at \notin Ends \union {"update", "rename"}
  BY <1>4 DEF Ending, Ends, Removing
<1> QED BY <1>2, <1>3, <1>4

\* One that goes on.
LEMMA GoesOnEnding ==
  ASSUME IndInv, LossInv, StatementsFail, OrphanInv, [Next]_vars,
         NEW p \in Proc, proc'[p] # proc[p]
  PROVE  Ending(proc[p])'
<1>1. Ending(proc[p]) /\ Knows(p, proc[p])
  BY DEF OrphanInv, IndInv
<1> SUFFICES ASSUME proc'[p].at \in Removing \union {"mark", "update", "rename"}
             PROVE  Ending(proc[p])'
  BY DEF Ending, Removing
<1>2. CASE Terminate(p)
  <2>1. PICK id \in Id : id = proc[p].id
    BY <1>1, <1>2 DEF Knows, Working, Terminate, CountDuplicates, LookupBinPath, RemoveInfo,
                      RemoveBin, MarkDeleted
  <2>2. /\ proc'[p].id = id /\ UNCHANGED table
        /\ \/ /\ proc[p].at = "count" /\ proc'[p].at = "lookup"
              /\ proc'[p].shared = (Duplicates(id) # {})
           \/ /\ proc[p].at = "lookup" /\ proc'[p].at = "rminfo"
              /\ proc'[p].shared = proc[p].shared /\ proc'[p].path = BinPath(id)
           \/ /\ proc[p].at = "rminfo"
              /\ proc'[p].at = IF proc[p].shared THEN "mark" ELSE "rmbin"
              /\ proc'[p].shared = proc[p].shared /\ proc'[p].path = proc[p].path
           \/ /\ proc[p].at = "rmbin" /\ proc'[p].at = "mark"
              /\ proc'[p].shared = proc[p].shared /\ bins' = bins \ At(proc[p].path)
    BY <1>2, <2>1, FewFaults, TerminateMoves DEF RemoveBin, Removing
  <2>3. Duplicates(id)' = Duplicates(id) /\ BinPath(id)' = BinPath(id)
    BY <2>2 DEF Duplicates, BinPath, IncompleteBinPath, CompleteBinPath, table
  <2>4. proc[p].at = "rmbin" => At(BinPath(id))' = {}
    BY <1>1, <2>1, <2>2, <2>3 DEF At, Ending
  <2>5. /\ proc'[p].at \in {"lookup", "rminfo", "mark"} /\ proc'[p].shared =>
             Duplicates(id)' # {}
        /\ proc'[p].at = "rmbin" => ~proc'[p].shared
        /\ proc'[p].at \in {"rminfo", "rmbin"} => proc'[p].path = BinPath(id)'
        /\ proc'[p].at = "mark" => At(BinPath(id))' = {} \/ Duplicates(id)' # {}
        /\ proc'[p].at \notin {"update", "rename"}
    BY <1>1, <2>1, <2>2, <2>3, <2>4 DEF Ending
  <2> QED BY <2>2, <2>5 DEF Ending, Duplicates, BinPath, At
<1>3. CASE p \in Worker /\ HashFile(p)
  <2>1. PICK id \in Id : id = proc[p].id /\ id \in rows /\ sha256sum[id] = None
    BY <1>1, <1>3 DEF HashFile, Knows, Working, Finishes
  <2>2. PICK b \in At(BinPath(id)) :
          proc' = [proc EXCEPT ![p].at = "update", ![p].hash = b.bytes]
    BY <1>3, <2>1, ReturnedIsCareless DEF HashFile, Removing
  <2>3. proc'[p].at = "update" /\ proc'[p].id = id /\ UNCHANGED table
    <3>1. proc[p] \in Locals /\ proc \in [Proc -> Locals]
      BY DEF IndInv, TypeOK
    <3>2. proc'[p].at = "update" /\ proc'[p].id = id
      BY <2>1, <2>2, <3>1 DEF Locals
    <3> QED BY <1>3, <3>2 DEF HashFile
  <2>4. Held(IncompleteBinPath(id))
    BY <2>1, <2>2 DEF OrphanInv, BinPath
  <2>5. ~ToRename(IncompleteBinPath(id))
    <3> SUFFICES ASSUME NEW w \in Worker, proc[w].at = "rename", proc[w].id = id
                 PROVE  FALSE
      BY DEF ToRename, IncompleteBinPath
    <3>1. Removal(proc[w]) /\ Knows(w, proc[w])
      BY DEF LossInv, IndInv, Proc
    <3> QED BY <2>1, <3>1 DEF Removal, Knows, Working, Finishes
  <2>6. id \in rows \ deleted
    BY <2>4, <2>5 DEF Held, BinPath, IncompleteBinPath, CompleteBinPath
  <2> QED BY <2>3, <2>6 DEF Ending, table
<1>4. CASE p \in Worker /\ UpdateHash(p)
  <2>1. proc[p].id \in rows \ deleted
    BY <1>1, <1>4 DEF UpdateHash, Ending
  <2>2. proc'[p].at = "rename" /\ proc'[p].id = proc[p].id /\ UNCHANGED <<rows, deleted>>
    BY <1>4, Recorded
  <2> QED BY <2>1, <2>2 DEF Ending
<1> QED BY <1>2, <1>3, <1>4, EndMoves, FewFaults

\* Every file goes on being seen to.
LEMMA StillHeld ==
  ASSUME IndInv, LossInv, StatementsFail, OrphanInv, [Next]_vars,
         NEW path, At(path)' # {}
  PROVE  Held(path)'
<1>1. CASE At(path) = {}
  <2>1. PICK w \in Worker : \/ CreateBin(w) /\ path = BinPath(proc[w].id)
                            \/ RenameBin(w) /\ path = CompleteBinPath(proc[w].hash)
    BY <1>1, NewFile
  <2>2. Knows(w, proc[w]) /\ Removal(proc[w]) /\ Ending(proc[w])
    BY DEF IndInv, LossInv, OrphanInv, Proc
  <2>3. PICK id \in rows \ deleted : id = proc[w].id
    BY <2>1, <2>2 DEF CreateBin, RenameBin, Knows, Creates, Finishes, Creating, Ending
  <2>4. UNCHANGED table /\ path = BinPath(id)
    BY <2>1, <2>2, <2>3 DEF CreateBin, RenameBin, Removal, Knows, Working, Finishes, Finishing,
                            BinPath
  <2> QED BY <2>3, <2>4 DEF Held, BinPath, IncompleteBinPath, CompleteBinPath, table
<1>2. CASE ToRename(path)
  BY <1>2, StillToRename DEF Held
<1>3. ASSUME At(path) # {}, NEW id \in rows \ deleted, BinPath(id) = path
      PROVE  Held(path)'
  <2>1. id \in Id /\ id \in rows'
    BY RecordsStay DEF IndInv, TypeOK
  <2>2. CASE id \in deleted'
    <3>1. PICK p \in Proc : MarkDeleted(p) /\ proc[p].id = id
      BY <2>2, TableSteps DEF table, InsertRow, UpdateHash, MarkDeleted
    <3>2. PICK j \in Duplicates(id) : TRUE
      BY <1>3, <3>1 DEF OrphanInv, Ending, MarkDeleted
    <3>3. BinPath(j) = path /\ j \in rows \ deleted /\ j # id
      BY <1>3, <3>2 DEF Duplicates, BinPath
    <3>4. j \in rows' \ deleted' /\ UNCHANGED sha256sum
      BY <3>1, <3>3 DEF MarkDeleted
    <3> QED BY <3>3, <3>4 DEF Held, BinPath, IncompleteBinPath, CompleteBinPath
  <2>3. CASE sha256sum'[id] = sha256sum[id] /\ id \notin deleted'
    <3>1. BinPath(id)' = path
      BY <1>3, <2>3 DEF BinPath, IncompleteBinPath, CompleteBinPath
    <3> QED BY <2>1, <2>3, <3>1 DEF Held
  <2>4. CASE sha256sum'[id] # sha256sum[id]
    <3>1. PICK w \in Worker : UpdateHash(w)
      BY <2>4, TableSteps DEF table, InsertRow, MarkDeleted
    <3>2. /\ proc[w].id = id /\ sha256sum[id] = None
          /\ proc'[w].at = "rename" /\ proc'[w].id = id
      BY <2>1, <2>4, <3>1, Recorded
    <3>3. path = IncompleteBinPath(id)
      BY <1>3, <3>2 DEF BinPath
    <3> QED BY <3>2, <3>3 DEF Held, ToRename, IncompleteBinPath
  <2> QED BY <2>2, <2>3, <2>4
<1> QED BY <1>1, <1>2, <1>3 DEF OrphanInv, Held

LEMMA OrphanInvNext ==
  ASSUME IndInv, LossInv, StatementsFail, EndsApart, OrphanInv, [Next]_vars
  PROVE  OrphanInv'
<1>1. ASSUME NEW p \in Proc PROVE Ending(proc[p])'
  BY <1>1, StillEnding, GoesOnEnding
<1>2. ASSUME NEW path, At(path)' # {} PROVE Held(path)'
  BY <1>2, StillHeld
<1> QED BY <1>1, <1>2 DEF OrphanInv

LEMMA HeldIsNoOrphan == OrphanInv => NoOrphanBin
<1> SUFFICES ASSUME OrphanInv, AllIdle, NEW b \in bins
             PROVE  \E id \in rows \ deleted : BinPath(id) = b.path
  BY DEF NoOrphanBin
<1>1. Held(b.path) /\ ~ToRename(b.path)
  BY DEF OrphanInv, At, AllIdle, ToRename, Proc
<1> QED BY <1>1 DEF Held

\* As long as no two Terminates of uploads with the same contents overlap when
\* they record the deletion, and none overlaps the end of its own upload, every
\* .bin is the file of a record that is not deleted, whenever nothing is in
\* progress: a later Terminate will remove it.
THEOREM BinsHaveRecords ==
  ASSUME StatementsFail
  PROVE  Spec /\ []EndsApart => []NoOrphanBin
<1>1. Init => OrphanInv
  BY DEF Init, Idle, OrphanInv, Ending, At
<1>2. IndInv /\ LossInv /\ EndsApart /\ OrphanInv /\ [Next]_vars => OrphanInv'
  BY OrphanInvNext
<1>3. OrphanInv => NoOrphanBin
  BY HeldIsNoOrphan
<1>4. UnlinkWorks
  BY FewFaults
<1> QED BY <1>1, <1>2, <1>3, <1>4, Invariant, RemovalsAreInformed, PTL DEF Spec

\* Requests and expirers take turns.
OneAtATime == \A p, q \in Proc : proc[p].at # "idle" /\ proc[q].at # "idle" => p = q

\* Requests and expirers that take turns neither race nor overlap: nothing they
\* leave behind is lost, or left over, though uploads share their .bin.
THEOREM InTurnAllIsKept ==
  ASSUME StatementsFail
  PROVE  Spec /\ []OneAtATime => [](NoDataLoss /\ NoOrphanBin /\ BinPathStoresData)
<1>1. OneAtATime => NoRace
  BY DEF OneAtATime, NoRace, Removing, Proc
<1>2. OneAtATime => EndsApart
  BY DEF OneAtATime, EndsApart, Ends, Removing
<1>3. UnlinkWorks
  BY FewFaults
<1> QED BY <1>1, <1>2, <1>3, NoDataIsLost, BinPathIsRight, BinsHaveRecords, PTL

(*****************************************************************************)
(* What a client sees                                                        *)
(*****************************************************************************)

\* The bytes a client sees are those of the unfinished file, and for an upload
\* with a digest those of the whole file, wherever they are.
Viewed ==
  \A id \in Id :
    /\ id \notin info => Content(id) = <<>>
    /\ id \in info => client[id] # None
    /\ id \in info /\ sha256sum[id] = None =>
         Own(id) # {} /\ \A b \in Own(id) : Content(id) = b.bytes
    /\ id \in info /\ sha256sum[id] # None => Content(id) = client[id]

LEMMA View == Stored /\ IndInv /\ LossInv /\ ViewInv => Viewed
<1> SUFFICES ASSUME Stored, IndInv, LossInv, ViewInv, NEW id \in Id
             PROVE  /\ id \notin info => Content(id) = <<>>
                    /\ id \in info => client[id] # None
                    /\ id \in info /\ sha256sum[id] = None =>
                         Own(id) # {} /\ \A b \in Own(id) : Content(id) = b.bytes
                    /\ id \in info /\ sha256sum[id] # None => Content(id) = client[id]
  BY DEF Viewed
<1>1. id \notin info => Content(id) = <<>>
  BY DEF Content
<1>2. id \in info => client[id] # None
  BY DEF ViewInv, IndInv, StoreInv, Fresh
<1>3. \A b, c \in Own(id) : b = c
  BY DEF IndInv, TypeOK, Own, At
<1>4. ASSUME id \in info, Own(id) # {}
      PROVE  \A b \in Own(id) : Content(id) = b.bytes
  <2>1. Content(id) = (CHOOSE b \in Own(id) : TRUE).bytes
    BY <1>4 DEF Content, Own
  <2>2. (CHOOSE b \in Own(id) : TRUE) \in Own(id)
    BY <1>4
  <2> QED BY <1>3, <2>1, <2>2
<1>5. id \in info /\ sha256sum[id] = None =>
        Own(id) # {} /\ \A b \in Own(id) : Content(id) = b.bytes
  BY <1>4 DEF LossInv, UnfinishedHasBin, Own
<1>6. ASSUME id \in info, sha256sum[id] # None PROVE Content(id) = client[id]
  <2>1. CASE Own(id) # {}
    BY <1>4, <1>6, <2>1 DEF ViewInv, WholeWhenHashed
  <2>2. CASE Own(id) = {}
    <3> DEFINE blob == At(CompleteBinPath(sha256sum[id]))
    <3>1. blob # {}
      BY <1>6, <2>2 DEF Stored
    <3>2. Content(id) = (CHOOSE b \in blob : TRUE).bytes
      BY <1>6, <2>2, <3>1 DEF Content, Own
    <3>3. \A b \in blob : b.bytes = sha256sum[id]
      BY DEF At, CompleteBinPath, IndInv, StoreInv, BlobsAreContentAddressed
    <3>4. (CHOOSE b \in blob : TRUE) \in blob
      BY <3>1
    <3>5. sha256sum[id] = client[id]
      BY <1>6 DEF IndInv, StoreInv, HashIsOfWholeFile
    <3> QED BY <3>2, <3>3, <3>4, <3>5
  <2> QED BY <2>1, <2>2
<1> QED BY <1>1, <1>2, <1>5, <1>6

(*****************************************************************************)
(* The actions of UploadHosting, upload by upload                            *)
(*****************************************************************************)
SameFor(id) == Phase(id)' = Phase(id) /\ Content(id)' = Content(id)

HostingStep == [Hosting!Next]_(Hosting!vars)

LEMMA Unseen ==
  ASSUME \A id \in Id : SameFor(id), client' = client
  PROVE  HostingStep
BY DEF SameFor, HostingStep, Hosting!vars

LEMMA IsBegin ==
  ASSUME NEW id \in Id, Phase(id) = "new", client[id] = None,
         NEW f \in ClientFile[id], client' = [client EXCEPT ![id] = f],
         \A j \in Id : SameFor(j)
  PROVE  HostingStep
<1>1. Hosting!Begin(id)
  BY DEF SameFor, Hosting!Begin
<1> QED BY <1>1 DEF HostingStep, Hosting!Next

LEMMA IsAccept ==
  ASSUME NEW id \in Id, Phase(id) = "new", client[id] # None, Phase(id)' = "open",
         Content(id)' = Content(id), \A j \in Id \ {id} : SameFor(j), client' = client
  PROVE  HostingStep
<1>1. Hosting!Accept(id)
  BY DEF SameFor, Hosting!Accept
<1> QED BY <1>1 DEF HostingStep, Hosting!Next

LEMMA IsRefuse ==
  ASSUME NEW S \in SUBSET Id,
         \A id \in S : Phase(id) = "new" /\ client[id] # None /\ Phase(id)' = "gone",
         \A id \in Id \ S : Phase(id)' = Phase(id),
         \A id \in Id : Content(id)' = Content(id), client' = client
  PROVE  HostingStep
<1>1. Hosting!Refuse
  BY DEF Hosting!Refuse
<1> QED BY <1>1 DEF HostingStep, Hosting!Next

LEMMA IsReceive ==
  ASSUME NEW id \in Id, Phase(id) = "open", Phase(id)' = "open",
         NEW n \in Len(Content(id)) + 1 .. Len(client[id]),
         Content(id)' = SubSeq(client[id], 1, n),
         \A j \in Id \ {id} : SameFor(j), client' = client
  PROVE  HostingStep
<1>1. Hosting!Receive(id)
  BY DEF SameFor, Hosting!Receive
<1> QED BY <1>1 DEF HostingStep, Hosting!Next

LEMMA IsFinish ==
  ASSUME NEW id \in Id, Phase(id) = "open", Content(id) = client[id],
         Phase(id)' = "final", Content(id)' = Content(id),
         \A j \in Id \ {id} : SameFor(j), client' = client
  PROVE  HostingStep
<1>1. Hosting!Finish(id)
  BY DEF SameFor, Hosting!Finish
<1> QED BY <1>1 DEF HostingStep, Hosting!Next

LEMMA IsRemove ==
  ASSUME NEW id \in Id, Phase(id) \in {"open", "final"}, Phase(id)' = "gone",
         Content(id)' = <<>>, \A j \in Id \ {id} : SameFor(j), client' = client
  PROVE  HostingStep
<1>1. Hosting!Remove(id)
  BY DEF SameFor, Hosting!Remove
<1> QED BY <1>1 DEF HostingStep, Hosting!Next

(*****************************************************************************)
(* Every step is one of UploadHosting or is not seen                         *)
(*****************************************************************************)
Seen == IndInv /\ LossInv /\ ViewInv /\ Viewed

LEMMA SamePhase ==
  ASSUME NEW id, id \in info' <=> id \in info,
         id \in info => sha256sum'[id] = sha256sum[id],
         client'[id] = client[id], BeingCreated(id)' <=> BeingCreated(id)
  PROVE  Phase(id)' = Phase(id)
<1>1. CASE id \in info
  BY <1>1 DEF Phase
<1>2. CASE id \notin info
  BY <1>2 DEF Phase
<1> QED BY <1>1, <1>2

LEMMA SameContent ==
  ASSUME Viewed, Viewed', NEW id \in Id, id \in info' <=> id \in info,
         client'[id] = client[id],
         id \in info => /\ sha256sum'[id] = sha256sum[id]
                        /\ sha256sum[id] = None => Own(id)' = Own(id)
  PROVE  Content(id)' = Content(id)
<1>1. CASE id \notin info
  BY <1>1 DEF Viewed
<1>2. CASE id \in info /\ sha256sum[id] = None
  <2>1. PICK b \in Own(id) : Content(id) = b.bytes
    BY <1>2 DEF Viewed
  <2>2. b \in Own(id)'
    BY <1>2, <2>1
  <2>3. \A c \in Own(id)' : Content(id)' = c.bytes
    BY <1>2 DEF Viewed
  <2> QED BY <2>1, <2>2, <2>3
<1>3. CASE id \in info /\ sha256sum[id] # None
  BY <1>3 DEF Viewed
<1> QED BY <1>1, <1>2, <1>3

\* A step that changes no .info, begins no upload, and leaves the digests and
\* unfinished files of what can be found.
LEMMA UnseenStep ==
  ASSUME Viewed, Viewed', info' = info, client' = client, SameCreations,
         \A id \in info \intersect Id :
           /\ sha256sum'[id] = sha256sum[id]
           /\ sha256sum[id] = None => Own(id)' = Own(id)
  PROVE  HostingStep
<1>1. ASSUME NEW id \in Id PROVE SameFor(id)
  <2>1. Phase(id)' = Phase(id)
    BY <1>1, SamePhase DEF SameCreations
  <2>2. Content(id)' = Content(id)
    BY <1>1, SameContent
  <2> QED BY <2>1, <2>2 DEF SameFor
<1> QED BY <1>1, Unseen

LEMMA RequestSeen ==
  ASSUME Seen, Viewed', NEW w \in Worker,
         \/ LockUpload(w) \/ GetInfo(w) \/ GetReader(w) \/ OpenBin(w)
         \/ CopyEnds(w) \/ HashFile(w) \/ Respond(w) \/ RenameBin(w)
  PROVE  HostingStep
<1>1. w \in Proc /\ IndInv /\ LossInv /\ Viewed /\ Knows(w, proc[w]) /\ Removal(proc[w])
  BY DEF Seen, IndInv, LossInv, Proc
<1>2. SameCreations
  BY <1>1, RequestElsewhere, ElsewhereCreates
<1>3. UNCHANGED <<info, sha256sum, client>>
  BY DEF LockUpload, GetInfo, GetReader, OpenBin, CopyEnds, HashFile, Respond, RenameBin,
         table, disk
<1>4. ASSUME NEW id \in Id, sha256sum[id] = None PROVE Own(id)' = Own(id)
  <2>1. CASE bins' = bins
    BY <2>1 DEF Own, At, IncompleteBinPath
  <2>2. CASE RenameBin(w)
    <3>1. proc[w].id # id
      BY <1>1, <1>4, <2>2
         DEF RenameBin, Knows, Working, Finishes, Removal
    <3> QED BY <2>2, <3>1
            DEF RenameBin, Renamed, Own, At, IncompleteBinPath, CompleteBinPath
  <2> QED BY <2>1, <2>2 DEF LockUpload, GetInfo, GetReader, OpenBin, CopyEnds, HashFile,
                            Respond, disk
<1> QED BY <1>1, <1>2, <1>3, <1>4, UnseenStep

LEMMA NewUploadSeen ==
  ASSUME Seen, Viewed', NEW w \in Worker, NewUpload(w)
  PROVE  HostingStep
<1>1. w \in Proc /\ proc[w] \in Locals /\ proc \in [Proc -> Locals] /\ proc[w].at = "idle"
  BY DEF Seen, IndInv, TypeOK, Proc, NewUpload
<1>0. PICK id \in Id : \E f \in ClientFile[id] :
        /\ client[id] = None
        /\ client' = [client EXCEPT ![id] = f]
        /\ proc' = [proc EXCEPT ![w].at = "insert", ![w].op = "POST", ![w].id = id]
  BY DEF NewUpload
<1>2. PICK f \in ClientFile[id] :
        /\ client[id] = None
        /\ client' = [client EXCEPT ![id] = f]
        /\ proc' = [proc EXCEPT ![w].at = "insert", ![w].op = "POST", ![w].id = id]
  BY <1>0
<1>3. /\ proc'[w].at = "insert" /\ proc'[w].id = id
      /\ \A q \in Proc \ {w} : proc'[q] = proc[q]
  BY <1>1, <1>2 DEF Locals
<1>4. UNCHANGED <<info, sha256sum, bins>> /\ Viewed
  BY DEF NewUpload, table, disk, Seen
<1>5. /\ \A i \in Id \ {id} : client'[i] = client[i]
      /\ id \notin info
  BY <1>2 DEF IndInv, TypeOK, Seen, ViewInv, StoreInv, Fresh
<1>6. BeingCreated(id)' /\ \A i \in Id \ {id} : BeingCreated(i)' <=> BeingCreated(i)
  BY <1>1, <1>3 DEF BeingCreated, Creating, Proc
<1>7. Phase(id) = "new" /\ SameFor(id)
  BY <1>2, <1>4, <1>5, <1>6 DEF Phase, SameFor, Viewed
<1>8. \A i \in Id : Own(i)' = Own(i)
  BY <1>4 DEF Own, At, IncompleteBinPath
<1>9. ASSUME NEW i \in Id \ {id} PROVE SameFor(i)
  <2>1. Phase(i)' = Phase(i)
    BY <1>4, <1>5, <1>6, <1>9, SamePhase
  <2>2. Content(i)' = Content(i)
    BY <1>4, <1>5, <1>8, <1>9, SameContent
  <2> QED BY <2>1, <2>2 DEF SameFor
<1>10. \A i \in Id : SameFor(i)
  BY <1>7, <1>9
<1> QED BY <1>2, <1>7, <1>10, IsBegin

LEMMA CreateSeen ==
  ASSUME Seen, Viewed', NEW w \in Worker, InsertRow(w) \/ CreateBin(w)
  PROVE  HostingStep
<1>1. w \in Proc /\ IndInv /\ Viewed /\ Knows(w, proc[w]) /\ Unwritten(proc[w])
  BY DEF Seen, IndInv, ViewInv, Proc
<1>2. PICK id \in Id : id = proc[w].id
  BY <1>1 DEF InsertRow, CreateBin, Knows, Working
<1>3. sha256sum[id] = None /\ id \notin info
  BY <1>1, <1>2 DEF InsertRow, CreateBin, Knows, Finishes, Creating, Unwritten
<1>4. UNCHANGED <<info, sha256sum, client>>
  BY DEF InsertRow, CreateBin, table, disk
<1>5. ASSUME NEW i \in Id \ {id} PROVE Own(i)' = Own(i)
  <2>1. \/ bins' = bins
        \/ bins' = bins \union {[path |-> IncompleteBinPath(id), bytes |-> <<>>]}
    BY <1>2, <1>3 DEF InsertRow, CreateBin, BinPath, disk
  <2>2. IncompleteBinPath(i) # IncompleteBinPath(id)
    BY DEF IncompleteBinPath
  <2> QED BY <2>1, <2>2 DEF Own, At, IncompleteBinPath
<1>6. /\ proc[w].at \in Creating /\ proc'[w].at \in Creating /\ proc'[w].id = proc[w].id
      /\ \A q \in Proc \ {w} : proc'[q] = proc[q]
  BY <1>1, GoesOn DEF InsertRow, CreateBin, Creating
<1>7. SameCreations
  BY <1>6 DEF SameCreations, BeingCreated, Proc
<1>8. \A i \in info \intersect Id :
        /\ sha256sum'[i] = sha256sum[i]
        /\ sha256sum[i] = None => Own(i)' = Own(i)
  BY <1>3, <1>4, <1>5
<1> QED BY <1>1, <1>4, <1>7, <1>8, UnseenStep

LEMMA WriteInfoSeen ==
  ASSUME Seen, Viewed', NEW w \in Worker, WriteInfo(w)
  PROVE  HostingStep
<1>1. /\ w \in Proc /\ IndInv /\ Viewed /\ Knows(w, proc[w])
      /\ Unwritten(proc[w]) /\ Removal(proc[w])
  BY DEF Seen, IndInv, ViewInv, LossInv, Proc
<1>2. PICK id \in Id : id = proc[w].id
  BY <1>1 DEF WriteInfo, Knows, Working
<1>3. /\ proc[w].at \in Creating /\ client[id] # None
      /\ sha256sum[id] = None /\ id \notin info
      /\ Own(id) # {} /\ \A b \in Own(id) : b.bytes = <<>>
  BY <1>1, <1>2 DEF WriteInfo, Knows, Working, Finishes, Creating, Unwritten, Removal
<1>4. info' = info \union {id} /\ UNCHANGED <<sha256sum, bins, client>>
  BY <1>2 DEF WriteInfo, table
<1>5. \A i \in Id : Own(i)' = Own(i)
  BY <1>4 DEF Own, At, IncompleteBinPath
<1>6. proc'[w].at \notin Creating /\ \A q \in Proc \ {w} : proc'[q] = proc[q]
  <2>1. CASE Return(w)
    BY <1>1, <2>1, ReturnsElsewhere
  <2>2. CASE Goto(w, "hash")
    BY <1>1, <2>2, GoesOn DEF Creating
  <2> QED BY <2>1, <2>2 DEF WriteInfo
<1>7. BeingCreated(id)
  BY <1>2, <1>3 DEF BeingCreated
<1>8. \A i \in Id \ {id} : BeingCreated(i)' <=> BeingCreated(i)
  BY <1>2, <1>6 DEF BeingCreated, Proc
<1>9. Phase(id) = "new" /\ Phase(id)' = "open"
  BY <1>3, <1>4, <1>7 DEF Phase
<1>10. Content(id)' = Content(id)
  <2>1. Content(id) = <<>>
    BY <1>3 DEF Seen, Viewed
  <2>2. id \in info' /\ sha256sum'[id] = None
    BY <1>3, <1>4
  <2>3. Own(id)' # {} /\ \A b \in Own(id)' : Content(id)' = b.bytes
    BY <2>2 DEF Viewed
  <2>4. \A b \in Own(id)' : b.bytes = <<>>
    BY <1>3, <1>5
  <2> QED BY <2>1, <2>3, <2>4
<1>11. ASSUME NEW i \in Id \ {id} PROVE SameFor(i)
  <2>1. Phase(i)' = Phase(i)
    BY <1>4, <1>8, <1>11, SamePhase
  <2>2. Content(i)' = Content(i)
    BY <1>1, <1>4, <1>5, <1>11, SameContent
  <2> QED BY <2>1, <2>2 DEF SameFor
<1> QED BY <1>3, <1>4, <1>9, <1>10, <1>11, IsAccept

LEMMA CopyPieceSeen ==
  ASSUME Seen, Viewed', NEW w \in Worker, CopyPiece(w)
  PROVE  HostingStep
<1>1. /\ w \in Proc /\ IndInv /\ Viewed /\ Knows(w, proc[w])
  BY DEF Seen, IndInv, Proc
<1>2. PICK id \in Id : id = proc[w].id
  BY <1>1 DEF CopyPiece, Knows, Working
<1> DEFINE path == IncompleteBinPath(id)
           off == proc[w].off
           file == client[id]
<1>3. /\ sha256sum[id] = None /\ file # None /\ file \in Bytes
      /\ \A b \in Own(id) : Len(b.bytes) = off /\ b.bytes \in Bytes /\ IsPrefix(b.bytes, file)
  BY <1>1, <1>2 DEF CopyPiece, Knows, Appends, Working, IndInv, TypeOK, StoreInv, OwnIsPrefix,
                    Own, At
<1>4. PICK n \in off + 1 .. Len(file) : bins' = Appended(path, SubSeq(file, off + 1, n))
  BY <1>1, <1>2 DEF CopyPiece, Knows, Appends
<1>5. UNCHANGED <<info, sha256sum, client>>
  BY DEF CopyPiece, table
<1>6. SameCreations
  BY <1>1, RequestElsewhere, ElsewhereCreates
<1>7. ASSUME NEW i \in Id \ {id} PROVE Own(i)' = Own(i)
  <2>1. PICK bytes : bins' = Appended(path, bytes)
    BY <1>4
  <2>2. IncompleteBinPath(i) # path
    BY DEF IncompleteBinPath
  <2> QED BY <2>1, <2>2 DEF Appended, Own, At, IncompleteBinPath
<1>8. ASSUME NEW i \in Id \ {id} PROVE SameFor(i)
  <2>1. Phase(i)' = Phase(i)
    BY <1>5, <1>6, <1>8, SamePhase DEF SameCreations
  <2>2. Content(i)' = Content(i)
    BY <1>1, <1>5, <1>7, <1>8, SameContent
  <2> QED BY <2>1, <2>2 DEF SameFor
<1>9. CASE id \in info
  <2>1. PICK b \in Own(id) : Content(id) = b.bytes
    BY <1>3, <1>9 DEF Seen, Viewed
  <2>2. /\ b.bytes \in Bytes /\ IsPrefix(b.bytes, file) /\ Len(b.bytes) = off
    BY <1>3, <2>1
  <2> DEFINE grown == b.bytes \o SubSeq(file, off + 1, n)
  <2>3. grown \in Bytes /\ IsPrefix(grown, file) /\ Len(grown) = n
    <3>1. PICK s \in Bytes : s = b.bytes /\ IsPrefix(s, file) /\ Len(s) = off
      BY <2>2
    <3>2. n \in Len(s) + 1 .. Len(file) /\ file \in Bytes
      BY <1>3, <1>4, <3>1
    <3>3. /\ s \o SubSeq(file, Len(s) + 1, n) \in Bytes
          /\ IsPrefix(s \o SubSeq(file, Len(s) + 1, n), file)
          /\ Len(s \o SubSeq(file, Len(s) + 1, n)) = n
      <4> HIDE DEF file
      <4> QED BY <3>1, <3>2, LongerPrefix
    <3> QED BY <3>1, <3>3
  <2>4. grown = SubSeq(file, 1, n)
    <3> HIDE DEF grown, file
    <3>1. SubSeq(grown, 1, n) = grown
      BY <2>3, SubSeqFull DEF Bytes
    <3> QED BY <2>3, <3>1 DEF IsPrefix
  <2>5. [path |-> path, bytes |-> grown] \in Own(id)'
    <3>1. b \in bins /\ b.path = path
      BY DEF Own, At
    <3>2. [path |-> path, bytes |-> grown] \in bins'
      BY <1>4, <3>1 DEF Appended
    <3> QED BY <3>2 DEF Own, At, IncompleteBinPath
  <2>6. Content(id)' = SubSeq(file, 1, n)
    <3>1. \A c \in Own(id)' : Content(id)' = c.bytes
      BY <1>3, <1>5, <1>9 DEF Viewed
    <3> HIDE DEF grown
    <3>2. Content(id)' = grown
      BY <2>5, <3>1
    <3> QED BY <2>4, <3>2
  <2>7. Phase(id) = "open" /\ Phase(id)' = "open"
    BY <1>3, <1>5, <1>9 DEF Phase
  <2>8. n \in Len(Content(id)) + 1 .. Len(client[id])
    BY <1>4, <2>1, <2>2
  <2> QED BY <1>5, <1>8, <2>6, <2>7, <2>8, IsReceive
<1>10. CASE id \notin info
  <2>1. \A i \in info \intersect Id :
          /\ sha256sum'[i] = sha256sum[i]
          /\ sha256sum[i] = None => Own(i)' = Own(i)
    BY <1>5, <1>7, <1>10
  <2> QED BY <1>1, <1>5, <1>6, <2>1, UnseenStep
<1> QED BY <1>9, <1>10

LEMMA UpdateHashSeen ==
  ASSUME Seen, Viewed', NEW w \in Worker, UpdateHash(w)
  PROVE  HostingStep
<1>1. /\ w \in Proc /\ IndInv /\ Viewed /\ Knows(w, proc[w])
  BY DEF Seen, IndInv, Proc
<1>2. PICK id \in Id : id = proc[w].id
  BY <1>1 DEF UpdateHash, Knows, Working
<1>3. PICK hash \in Bytes : hash = proc[w].hash
  BY <1>1, <1>2 DEF UpdateHash, Knows, Finishes, Working, IndInv, TypeOK
<1>4. /\ sha256sum[id] = None /\ hash # None
      /\ \A b \in Own(id) : b.bytes = client[id]
  BY <1>1, <1>2, <1>3, StoreAssumption DEF UpdateHash, Knows, Finishes, Finishing
<1>5. /\ sha256sum' = [sha256sum EXCEPT ![id] = hash]
      /\ UNCHANGED <<info, bins, client>>
  BY <1>2, <1>3 DEF UpdateHash, disk
<1>6. sha256sum'[id] = hash /\ \A i \in Id \ {id} : sha256sum'[i] = sha256sum[i]
  BY <1>1, <1>5 DEF IndInv, TypeOK
<1>7. SameCreations
  BY <1>1, RequestElsewhere, ElsewhereCreates
<1>8. \A i \in Id : Own(i)' = Own(i)
  BY <1>5 DEF Own, At, IncompleteBinPath
<1>9. ASSUME NEW i \in Id \ {id} PROVE SameFor(i)
  <2>1. Phase(i)' = Phase(i)
    BY <1>5, <1>6, <1>7, <1>9, SamePhase DEF SameCreations
  <2>2. Content(i)' = Content(i)
    BY <1>1, <1>5, <1>6, <1>8, <1>9, SameContent
  <2> QED BY <2>1, <2>2 DEF SameFor
<1>10. CASE id \in info
  <2>1. Content(id) = client[id]
    BY <1>4, <1>10 DEF Seen, Viewed
  <2>2. Content(id)' = client[id]
    BY <1>4, <1>5, <1>6, <1>10 DEF Viewed
  <2>3. Phase(id) = "open" /\ Phase(id)' = "final"
    BY <1>4, <1>5, <1>6, <1>10 DEF Phase
  <2>4. Content(id)' = Content(id)
    BY <2>1, <2>2
  <2> QED BY <1>5, <1>9, <2>1, <2>3, <2>4, IsFinish
<1>11. CASE id \notin info
  <2>1. \A i \in info \intersect Id :
          /\ sha256sum'[i] = sha256sum[i]
          /\ sha256sum[i] = None => Own(i)' = Own(i)
    BY <1>6, <1>8, <1>11
  <2> QED BY <1>1, <1>5, <1>7, <2>1, UnseenStep
<1> QED BY <1>10, <1>11

\* RemoveWithDirs removes an .info: the upload is gone for its client.
LEMMA InfoSeen ==
  ASSUME Seen, Viewed', NEW p \in Proc, proc[p].at = "rminfo",
         info' = info \ {proc[p].id}, UNCHANGED <<sha256sum, bins, client>>, Elsewhere(p)
  PROVE  HostingStep
<1>1. IndInv /\ Viewed /\ Knows(p, proc[p])
  BY DEF Seen, IndInv
<1>2. PICK id \in Id : id = proc[p].id
  BY <1>1 DEF Knows, Working
<1>3. SameCreations
  BY ElsewhereCreates
<1>4. \A i \in Id : Own(i)' = Own(i)
  BY DEF Own, At, IncompleteBinPath
<1>5. CASE id \notin info
  <2>1. info' = info
    BY <1>2, <1>5
  <2>2. \A i \in info \intersect Id :
          /\ sha256sum'[i] = sha256sum[i]
          /\ sha256sum[i] = None => Own(i)' = Own(i)
    BY <1>4
  <2> QED BY <1>1, <1>3, <2>1, <2>2, UnseenStep
<1>6. CASE id \in info
  <2>1. ~BeingCreated(id)
    <3> SUFFICES ASSUME NEW w \in Worker, proc[w].at \in Creating, proc[w].id = id
                 PROVE  FALSE
      BY DEF BeingCreated
    <3>1. w \in Proc /\ Unwritten(proc[w])
      BY DEF Seen, ViewInv, Proc
    <3> QED BY <1>6, <3>1 DEF Unwritten
  <2>2. ~BeingCreated(id)' /\ id \notin info' /\ client[id] # None
    BY <1>2, <1>3, <1>6, <2>1 DEF SameCreations, Seen, Viewed
  <2>3. Phase(id) \in {"open", "final"} /\ Phase(id)' = "gone"
    BY <1>6, <2>2 DEF Phase
  <2>4. Content(id)' = <<>>
    BY <2>2 DEF Viewed
  <2>5. ASSUME NEW i \in Id \ {id} PROVE SameFor(i)
    <3>1. i \in info' <=> i \in info
      BY <1>2, <2>5
    <3>2. Phase(i)' = Phase(i)
      BY <1>3, <3>1, SamePhase DEF SameCreations
    <3>3. Content(i)' = Content(i)
      BY <1>1, <1>4, <2>5, <3>1, SameContent
    <3> QED BY <3>2, <3>3 DEF SameFor
  <2> QED BY <2>3, <2>4, <2>5, IsRemove
<1> QED BY <1>5, <1>6

\* RemoveWithDirs removes a .bin, after the .info: no client sees that.
LEMMA BinSeen ==
  ASSUME Seen, Viewed', NEW p \in Proc, proc[p].at = "rmbin",
         bins' = bins \ At(proc[p].path), UNCHANGED <<sha256sum, info, client>>, Elsewhere(p)
  PROVE  HostingStep
<1>1. IndInv /\ Viewed /\ Knows(p, proc[p]) /\ Removal(proc[p])
  BY DEF Seen, IndInv, LossInv
<1>2. PICK id \in Id : id = proc[p].id
  BY <1>1 DEF Knows, Working
<1>3. /\ id \notin info
      /\ \/ proc[p].path = IncompleteBinPath(id)
         \/ sha256sum[id] # None /\ proc[p].path = CompleteBinPath(sha256sum[id])
  BY <1>1, <1>2 DEF Removal, LooksAt
<1>4. ASSUME NEW i \in Id \ {id} PROVE Own(i)' = Own(i)
  <2>1. IncompleteBinPath(i) # proc[p].path
    BY <1>3, <1>4 DEF IncompleteBinPath, CompleteBinPath
  <2> QED BY <2>1 DEF Own, At, IncompleteBinPath
<1>5. \A i \in info \intersect Id :
        /\ sha256sum'[i] = sha256sum[i]
        /\ sha256sum[i] = None => Own(i)' = Own(i)
  BY <1>3, <1>4
<1>6. SameCreations
  BY ElsewhereCreates
<1> QED BY <1>1, <1>5, <1>6, UnseenStep

LEMMA TerminateSeen ==
  ASSUME Seen, Viewed', NEW p \in Proc, Terminate(p)
  PROVE  HostingStep
<1>1. Elsewhere(p) /\ Viewed
  BY TerminateElsewhere DEF Seen
<1>2. CASE CountDuplicates(p) \/ LookupBinPath(p) \/ MarkDeleted(p)
  <2>1. UNCHANGED <<info, sha256sum, client, bins>>
    BY <1>2 DEF CountDuplicates, LookupBinPath, MarkDeleted, table, disk
  <2>2. \A i \in Id : Own(i)' = Own(i)
    BY <2>1 DEF Own, At, IncompleteBinPath
  <2>3. SameCreations
    BY <1>1, ElsewhereCreates
  <2>4. \A i \in info \intersect Id :
          /\ sha256sum'[i] = sha256sum[i]
          /\ sha256sum[i] = None => Own(i)' = Own(i)
    BY <2>1, <2>2
  <2> QED BY <1>1, <2>1, <2>3, <2>4, UnseenStep
<1>3. CASE RemoveInfo(p)
  BY <1>1, <1>3, InfoSeen DEF RemoveInfo, table
<1>4. CASE RemoveBin(p)
  BY <1>1, <1>4, BinSeen DEF RemoveBin, table
<1> QED BY <1>2, <1>3, <1>4 DEF Terminate

\* A call of NewUpload fails: the server gives up on the upload.
LEMMA CreationFails ==
  ASSUME Seen, Viewed', NEW p \in Proc, proc[p].at \in Creating, CallFails(p)
  PROVE  HostingStep
<1>1. IndInv /\ Viewed /\ Knows(p, proc[p]) /\ Unwritten(proc[p])
  BY DEF Seen, IndInv, ViewInv
<1>2. PICK id \in Id : id = proc[p].id
  BY <1>1 DEF Creating, Knows, Working
<1>3. /\ client[id] # None /\ id \notin info /\ p \in Worker
      /\ proc[p].op = "POST" /\ proc[p].at # "idle"
  BY <1>1, <1>2 DEF Creating, Terminating, Knows, Working, Finishes, Unwritten, Proc
<1>4. UNCHANGED <<info, sha256sum, client, bins>>
  BY DEF CallFails, table, disk
<1>5. proc'[p].at \notin Creating /\ \A q \in Proc \ {p} : proc'[q] = proc[q]
  BY <1>1, ReturnsElsewhere DEF CallFails
<1>6. BeingCreated(id)
  BY <1>2, <1>3 DEF BeingCreated
<1>7. ~BeingCreated(id)'
  <2> SUFFICES ASSUME NEW w \in Worker, proc'[w].at \in Creating, proc'[w].id = id
               PROVE  FALSE
    BY DEF BeingCreated
  <2>1. w \in Proc /\ w # p /\ proc[w].id = id /\ proc[w].at \in Creating
    BY <1>5 DEF Proc
  <2>2. proc[w].at # "idle"
    BY <2>1 DEF Creating
  <2> QED BY <1>1, <1>2, <1>3, <2>1, <2>2 DEF IndInv, Alone
<1>8. \A i \in Id \ {id} : BeingCreated(i)' <=> BeingCreated(i)
  BY <1>2, <1>5 DEF BeingCreated, Proc
<1>9. Phase(id) = "new" /\ Phase(id)' = "gone"
  BY <1>3, <1>4, <1>6, <1>7 DEF Phase
<1>10. \A i \in Id \ {id} : Phase(i)' = Phase(i)
  BY <1>4, <1>8, SamePhase
<1>11. \A i \in Id : Content(i)' = Content(i)
  <2>1. \A i \in Id : Own(i)' = Own(i)
    BY <1>4 DEF Own, At, IncompleteBinPath
  <2> QED BY <1>1, <1>4, <2>1, SameContent
<1>12. {id} \in SUBSET Id /\ \A i \in {id} : i = id
  OBVIOUS
<1> QED BY <1>3, <1>4, <1>9, <1>10, <1>11, <1>12, IsRefuse

LEMMA FailureSeen ==
  ASSUME UnlinkWorks, Seen, Viewed', NEW p \in Proc,
         CallFails(p) \/ RemoveDirFails(p) \/ UnlinkFails(p)
  PROVE  HostingStep
<1>1. ~UnlinkFails(p)
  BY DEF UnlinkWorks, UnlinkFails, Fault
<1>2. IndInv /\ Viewed
  BY DEF Seen
<1>3. proc[p].at \notin Creating => Elsewhere(p)
  BY <1>1, <1>2, ReturnsElsewhere DEF CallFails, RemoveDirFails, Elsewhere
<1>4. CASE CallFails(p) /\ proc[p].at \in Creating
  BY <1>4, CreationFails
<1>5. CASE CallFails(p) /\ proc[p].at \notin Creating
  <2>1. UNCHANGED <<info, sha256sum, client, bins>>
    BY <1>5 DEF CallFails, table, disk
  <2>2. \A i \in Id : Own(i)' = Own(i)
    BY <2>1 DEF Own, At, IncompleteBinPath
  <2>3. SameCreations
    BY <1>3, <1>5, ElsewhereCreates
  <2>4. \A i \in info \intersect Id :
          /\ sha256sum'[i] = sha256sum[i]
          /\ sha256sum[i] = None => Own(i)' = Own(i)
    BY <2>1, <2>2
  <2> QED BY <1>2, <2>1, <2>3, <2>4, UnseenStep
<1>6. CASE RemoveDirFails(p)
  <2>1. proc[p].at \notin Creating /\ UNCHANGED <<sha256sum, client>>
    BY <1>6 DEF RemoveDirFails, Creating, table
  <2>2. CASE proc[p].at = "rminfo" /\ info' = info \ {proc[p].id} /\ UNCHANGED bins
    BY <1>3, <2>1, <2>2, InfoSeen
  <2>3. CASE proc[p].at = "rmbin" /\ bins' = bins \ At(proc[p].path) /\ UNCHANGED info
    BY <1>3, <2>1, <2>3, BinSeen
  <2> QED BY <1>6, <2>2, <2>3 DEF RemoveDirFails
<1> QED BY <1>1, <1>4, <1>5, <1>6

\* The process dies: the server gives up on every upload that has begun and
\* has not been accepted.
LEMMA CrashSeen ==
  ASSUME Seen, Viewed', Crash
  PROVE  HostingStep
<1> DEFINE S == {id \in Id : Phase(id) = "new" /\ client[id] # None}
<1>1. Viewed /\ UNCHANGED <<info, sha256sum, client, bins>>
  BY DEF Crash, table, disk, Seen
<1>2. \A id : ~BeingCreated(id)'
  BY DEF Crash, Idle, BeingCreated, Creating, Proc
<1>3. \A id \in S : Phase(id) = "new" /\ client[id] # None /\ Phase(id)' = "gone"
  BY <1>1, <1>2 DEF Phase
<1>4. \A id \in Id \ S : Phase(id)' = Phase(id)
  BY <1>1, <1>2 DEF Phase
<1>5. \A id \in Id : Content(id)' = Content(id)
  <2>1. \A i \in Id : Own(i)' = Own(i)
    BY <1>1 DEF Own, At, IncompleteBinPath
  <2> QED BY <1>1, <2>1, SameContent
<1>6. S \in SUBSET Id
  OBVIOUS
<1> HIDE DEF S
<1> QED BY <1>1, <1>3, <1>4, <1>5, <1>6, IsRefuse

LEMMA StepSeen ==
  ASSUME UnlinkWorks, Seen, Viewed', [Next]_vars
  PROVE  HostingStep
<1>1. ASSUME NEW w \in Worker,
             NewUpload(w) \/ LockUpload(w) \/ CopyPiece(w) \/ CopyEnds(w) \/ Serve(w)
      PROVE  HostingStep
  <2>1. CASE \/ LockUpload(w) \/ GetInfo(w) \/ GetReader(w) \/ OpenBin(w)
             \/ CopyEnds(w) \/ HashFile(w) \/ Respond(w) \/ RenameBin(w)
    BY <2>1, RequestSeen
  <2>2. CASE CopyPiece(w)
    BY <2>2, CopyPieceSeen
  <2>3. CASE UpdateHash(w)
    BY <2>3, UpdateHashSeen
  <2>4. CASE NewUpload(w)
    BY <2>4, NewUploadSeen
  <2>5. CASE InsertRow(w) \/ CreateBin(w)
    BY <2>5, CreateSeen
  <2>6. CASE WriteInfo(w)
    BY <2>6, WriteInfoSeen
  <2>7. CASE Terminate(w)
    BY <2>7, TerminateSeen DEF Proc
  <2> QED BY <1>1, <2>1, <2>2, <2>3, <2>4, <2>5, <2>6, <2>7 DEF Serve
<1>2. ASSUME UNCHANGED <<info, sha256sum, client, bins>>,
             \A q \in Proc : proc'[q] = proc[q] \/ Elsewhere(q)
      PROVE  HostingStep
  <2>1. \A q \in Worker : \/ proc'[q] = proc[q]
                          \/ proc'[q].at \notin Creating /\ proc[q].at \notin Creating
    BY <1>2 DEF Elsewhere, Proc
  <2>2. SameCreations
    BY <2>1 DEF SameCreations, BeingCreated
  <2>3. \A i \in Id : Own(i)' = Own(i)
    BY <1>2 DEF Own, At, IncompleteBinPath
  <2>4. \A i \in info \intersect Id :
          /\ sha256sum'[i] = sha256sum[i]
          /\ sha256sum[i] = None => Own(i)' = Own(i)
    BY <1>2, <2>3
  <2> QED BY <1>2, <2>2, <2>4, UnseenStep DEF Seen
<1>3. ASSUME NEW g \in Gc, Collect(g)
      PROVE  HostingStep
  <2>1. CASE Terminate(g)
    BY <2>1, TerminateSeen DEF Proc
  <2>2. CASE Tick(g)
    BY <1>2, <2>2 DEF Tick, table, disk
  <2>3. CASE NextExpired(g)
    <3>1. /\ proc'[g].at = "count" /\ proc[g].at = "idle"
          /\ \A q \in Proc \ {g} : proc'[q] = proc[q]
      BY <2>3 DEF NextExpired, Seen, IndInv, TypeOK, Locals, Proc
    <3>2. \A q \in Proc : proc'[q] = proc[q] \/ Elsewhere(q)
      BY <3>1 DEF Elsewhere, Creating
    <3> QED BY <1>2, <2>3, <3>2 DEF NextExpired, table, disk
  <2> QED BY <1>3, <2>1, <2>2, <2>3 DEF Collect
<1>4. ASSUME NEW id \in Id, Expire(id)
      PROVE  HostingStep
  BY <1>2, <1>4 DEF Expire, table, disk
<1>5. ASSUME NEW p \in Proc, CallFails(p) \/ RemoveDirFails(p) \/ UnlinkFails(p)
      PROVE  HostingStep
  BY <1>5, FailureSeen
<1>6. CASE Crash
  BY <1>6, CrashSeen
<1>7. CASE UNCHANGED vars
  BY <1>2, <1>7 DEF vars
<1> QED BY <1>1, <1>3, <1>4, <1>5, <1>6, <1>7 DEF Next

LEMMA InitSeen == Init => Hosting!Init
BY DEF Init, Hosting!Init, Phase, Content, BeingCreated, Creating, Idle, Proc

\* Where os.Remove works and no digest is recorded between a Terminate's count
\* of duplicates and its removal, clients see an upload service in which every
\* upload has a file of its own: deduplication, renames, the expirer, failed
\* calls and crashes do not show.
THEOREM StoreImplementsHosting ==
  ASSUME UnlinkWorks
  PROVE  Spec /\ []NoRace => HidesSharing
<1>1. Stored /\ IndInv /\ LossInv /\ ViewInv => Viewed
  BY View
<1>2. IndInv /\ LossInv /\ ViewInv /\ Viewed /\ Viewed' /\ [Next]_vars
        => [Hosting!Next]_(Hosting!vars)
  BY StepSeen DEF Seen, HostingStep
<1>3. Init => Hosting!Init
  BY InitSeen
<1> QED BY <1>1, <1>2, <1>3, Invariant, RemovalsAreInformed, Viewing, BytesAreStored, PTL
        DEF Spec, HidesSharing, Hosting!Spec

\* A store in which no two uploads have the same contents always does.
THEOREM PrivateStoreImplementsHosting ==
  ASSUME UnlinkWorks, ContentsDiffer
  PROVE  Spec => HidesSharing
BY PrivateStoresDoNotRace, StoreImplementsHosting, PTL
================================================================================
