----------------------------- MODULE UploadHosting -----------------------------
(*****************************************************************************)
(* What the upload server promises the client of each upload, as if every    *)
(* upload had a file of its own: bytes arrive in order, a finished upload is *)
(* the whole file and never changes, and bytes disappear only together with  *)
(* the upload.  Deduplication, locks, the database and the expirer are not   *)
(* visible here.                                                             *)
(*****************************************************************************)
EXTENDS Naturals, Sequences

CONSTANTS Id,          \* uploads
          ClientFile,  \* the files the client of each upload may send
          None

VARIABLES phase,    \* "new", "open" for chunks, "final", or "gone"
          content,  \* the bytes stored for an upload
          file      \* the file its client sends

vars == <<phase, content, file>>

Init == /\ phase = [id \in Id |-> "new"]
        /\ content = [id \in Id |-> <<>>]
        /\ file = [id \in Id |-> None]

\* A client starts an upload.
Begin(id) == /\ phase[id] = "new" /\ file[id] = None
             /\ \E f \in ClientFile[id] : file' = [file EXCEPT ![id] = f]
             /\ UNCHANGED <<phase, content>>

\* The server accepts it, or gives up on some of those that have begun.
Accept(id) == /\ phase[id] = "new" /\ file[id] # None
              /\ phase' = [phase EXCEPT ![id] = "open"]
              /\ UNCHANGED <<content, file>>

Refuse == \E S \in SUBSET {id \in Id : phase[id] = "new" /\ file[id] # None} :
            /\ phase' = [id \in Id |-> IF id \in S THEN "gone" ELSE phase[id]]
            /\ UNCHANGED <<content, file>>

\* A piece of the file is stored after what is there.
Receive(id) ==
  /\ phase[id] = "open"
  /\ \E n \in Len(content[id]) + 1 .. Len(file[id]) :
       content' = [content EXCEPT ![id] = SubSeq(file[id], 1, n)]
  /\ UNCHANGED <<phase, file>>

\* Only a whole file is final.
Finish(id) == /\ phase[id] = "open" /\ content[id] = file[id]
              /\ phase' = [phase EXCEPT ![id] = "final"]
              /\ UNCHANGED <<content, file>>

\* Deleted or expired, at any time, with its bytes.
Remove(id) == /\ phase[id] \in {"open", "final"}
              /\ phase' = [phase EXCEPT ![id] = "gone"]
              /\ content' = [content EXCEPT ![id] = <<>>]
              /\ UNCHANGED file

Next == \/ \E id \in Id : \/ Begin(id) \/ Accept(id) \/ Receive(id)
                          \/ Finish(id) \/ Remove(id)
        \/ Refuse

Spec == Init /\ [][Next]_vars
================================================================================
