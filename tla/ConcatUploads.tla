------------------------------ MODULE ConcatUploads -----------------------------
(*****************************************************************************)
(* ShardedFileStore with tusd's concatenation extension: the POST of a final *)
(* upload lists uploads that are complete, and ConcatUploads copies their    *)
(* files one after the other into the new upload's .bin.  It holds no lock,  *)
(* neither of the parts, which requests and expirers may remove meanwhile,   *)
(* nor of the final upload, which is never hashed or renamed.                *)
(*                                                                           *)
(* The final upload's first steps are the POST of ShardedFileStore; the      *)
(* copying goes on while its request is about to answer.  A part is opened   *)
(* in two steps, the lookup of its digest and the system call; what an open  *)
(* file holds stays readable after an unlink.                                *)
(*****************************************************************************)
EXTENDS ShardedFileStore

CONSTANTS Concatenators  \* workers that serve just the POSTs of final uploads

ASSUME ConcatAssumption == Concatenators \subseteq Worker

VARIABLES
  parts,    \* PartialUploads in the .info of a final upload, <<>> in others
  reader,   \* per worker: the loop of ConcatUploads
  answered  \* final uploads whose POST has been answered with 201

concatVars == <<vars, parts, reader, answered>>

FirstPart == [at |-> "lookup", next |-> 1, path |-> None, src |-> None]

ConcatInit == /\ Init
              /\ parts = [id \in Id |-> <<>>]
              /\ reader = [w \in Worker |-> FirstPart]
              /\ answered = {}

\* sizeOfUploads: the .info is there and the offset equals the size.
IsUploaded(id) == /\ id \in info
                  /\ \E b \in At(BinPath(id)) : Len(b.bytes) = Len(client[id])

Concatenation(ids) == client[ids[1]] \o client[ids[2]]

\* Two parts, the same one twice for instance, that are not both empty.
\* ClientFile bounds what they may add up to.
NewFinal(w) ==
  /\ proc[w].at = "idle"
  /\ "POST" \in Methods
  /\ \E id \in Id, ids \in Id \X Id :
       /\ client[id] = None
       /\ \A i \in 1 .. 2 : IsUploaded(ids[i])
       /\ Concatenation(ids) \in ClientFile[id] \ {<<>>}
       /\ client' = [client EXCEPT ![id] = Concatenation(ids)]
       /\ parts' = [parts EXCEPT ![id] = ids]
       /\ proc' = [proc EXCEPT ![w].at = "insert", ![w].op = "POST", ![w].id = id]
  /\ UNCHANGED <<table, disk, lockfile, expired, todo, faults, reader, answered>>

(*****************************************************************************)
(* The loop of ConcatUploads                                                 *)
(*****************************************************************************)
Posted(w) == parts[proc[w].id]

Concatenating(w) == /\ proc[w].at = "respond" /\ proc[w].op = "POST"
                    /\ reader[w].at # "failed"
                    /\ reader[w].next <= Len(Posted(w))

InLoop(w, step) == Concatenating(w) /\ reader[w].at = step

LookupPart(w) ==
  /\ InLoop(w, "lookup")
  /\ reader' = [reader EXCEPT ![w].at = "open",
                              ![w].path = BinPath(Posted(w)[reader[w].next])]
  /\ UNCHANGED <<vars, parts, answered>>

NextPart(w) == [FirstPart EXCEPT !.next = reader[w].next + 1]

\* (variant: a part that is gone is left out)
OpenPart_SkipsMissing(w) ==
  /\ InLoop(w, "open")
  /\ \/ \E b \in At(reader[w].path) :
          reader' = [reader EXCEPT ![w].at = "copy", ![w].src = b.bytes]
     \/ At(reader[w].path) = {} /\ reader' = [reader EXCEPT ![w] = NextPart(w)]
  /\ UNCHANGED <<vars, parts, answered>>

OpenPart(w) ==
  /\ InLoop(w, "open")
  /\ \/ \E b \in At(reader[w].path) :
          reader' = [reader EXCEPT ![w].at = "copy", ![w].src = b.bytes]
     \/ At(reader[w].path) = {} /\ reader' = [reader EXCEPT ![w].at = "failed"]
  /\ UNCHANGED <<vars, parts, answered>>

CopyPart(w) ==
  /\ InLoop(w, "copy")
  /\ bins' = Appended(IncompleteBinPath(proc[w].id), reader[w].src)
  /\ reader' = [reader EXCEPT ![w] = NextPart(w)]
  /\ UNCHANGED <<table, info, lockfile, client, expired, proc, todo, faults,
                 parts, answered>>

\* io.Copy fails after it has written some of the part.
CopyPartFails(w) ==
  /\ InLoop(w, "copy")
  /\ \E n \in 0 .. Len(reader[w].src) - 1 :
       bins' = Appended(IncompleteBinPath(proc[w].id), SubSeq(reader[w].src, 1, n))
  /\ reader' = [reader EXCEPT ![w].at = "failed"]
  /\ UNCHANGED <<table, info, lockfile, client, expired, proc, todo, faults,
                 parts, answered>>

Concat(w) == LookupPart(w) \/ OpenPart(w) \/ CopyPart(w) \/ CopyPartFails(w)

(*****************************************************************************)
(* Everything else happens as before, except that a final upload is not      *)
(* answered before its parts are copied and accepts no PATCH.                *)
(*****************************************************************************)
MayServe(w) ==
  /\ proc'[w].op = "PATCH" => parts[proc'[w].id] = <<>>
  /\ proc[w].at = "idle" /\ w \in Concatenators => proc'[w] = proc[w]
  /\ Concatenating(w) => proc'[w] = proc[w] \/ faults' # faults

\* A failed call ends the POST without a call of ConcatUploads.
ReaderAfter(w) == IF proc'[w].at = "idle" THEN FirstPart
                  ELSE IF faults' # faults /\ proc'[w] # proc[w]
                       THEN [reader[w] EXCEPT !.at = "failed"]
                       ELSE reader[w]

Answered(w) == /\ proc[w].at = "respond" /\ proc'[w].at = "idle" /\ faults' = faults
               /\ proc[w].op = "POST" /\ Posted(w) # <<>>
               /\ reader[w].at # "failed"

StoreStep ==
  /\ Next
  /\ \A w \in Worker : MayServe(w)
  /\ reader' = [w \in Worker |-> ReaderAfter(w)]
  /\ answered' = answered \union {proc[w].id : w \in {v \in Worker : Answered(v)}}
  /\ UNCHANGED parts

ConcatNext == \/ StoreStep
              \/ \E w \in Concatenators : NewFinal(w) \/ Concat(w)

ConcatSpec == ConcatInit /\ [][ConcatNext]_concatVars

\* A final upload whose client was told 201 holds the whole of all its parts in
\* their order as long as it can be fetched, whatever became of the parts while
\* they were copied (ConcatUploads).
ConcatIsWhole ==
  \A id \in answered \intersect info :
    \E b \in At(BinPath(id)) : b.bytes = Concatenation(parts[id])
================================================================================
