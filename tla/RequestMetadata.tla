---------------------------- MODULE RequestMetadata -----------------------------
(*****************************************************************************)
(* What a POST leaves behind of who made it: tushandlers.go turns the        *)
(* Upload-Metadata header into one that carries the sender's address and,    *)
(* when an EXTJWT token vouches for them, an account and its issuer;         *)
(* NewUpload stores the account, ipRecorder adds the address to the record   *)
(* later, and the expirer gives uploads with an account an age of their own. *)
(*                                                                           *)
(* PostFile is one action up to the INSERT: until then a handler touches     *)
(* only its own request.  A header is the sequence of its elements.  Keys    *)
(* and values are members of small sets; an element whose value is missing   *)
(* or is not base64 has the value Empty, for that is how it is read.         *)
(*****************************************************************************)
EXTENDS Integers, Sequences, SequencesExt, FiniteSets

CONSTANTS
  Request,      \* POST requests; each makes the upload of the same name
  Sent,         \* what a client may send: Sent[r] is a set of Sendable
  Field,        \* metadata keys the server gives no meaning to
  Value,        \* values of metadata elements
  Address,      \* IP addresses in their canonical form
  TrustedReverseProxies, \* addresses within TrustedReverseProxyRanges
  Token,        \* values that are well-formed tokens
  Claims,       \* what a token says: hmac, iss, account, signer, expired
  Configured,   \* issuers with a secret in JwtSecretsByIssuer
  MaxAge, IdentifiedMaxAge,
  MaxTime,      \* bound on the clock
  MaxFaults,    \* bound on the number of failing UPDATEs
  Empty,        \* the empty string
  None          \* SQL NULL, a missing header or claim

Key == Field \union {"RemoteIP", "extjwt", "account", "issuer"}
Element == [key : Key, value : Value \union {Empty}]
Row == [created : Nat, uploaderIP : Value \union {Empty, None},
        account : Value \union {None}, issuer : Value \union {Empty, None}]
Sendable == [header : Seq(Element), peer : Address \union {"unsplittable"},
             forwardedFor : Address \union {"unparsable", None}]

ASSUME MetadataAssumption ==
  /\ Field \intersect {"RemoteIP", "extjwt", "account", "issuer"} = {}
  /\ Empty \notin Value /\ None \notin Value \union {Empty}
  /\ None \notin {201, 400, 401, 406, 500}
  /\ None \notin Row \union Sendable
  /\ Address \subseteq Value /\ Token \subseteq Value
  /\ "unsplittable" \notin Address /\ "unparsable" \notin Address
  /\ \A t \in Token : /\ Claims[t].iss \in Value \union {None}
                      /\ Claims[t].account \in Value \union {Empty, None}
  /\ Sent \in [Request -> SUBSET Sendable]
  /\ MaxAge \in Nat /\ IdentifiedMaxAge \in Nat
  /\ MaxTime \in Nat /\ MaxFaults \in Nat

VARIABLES
  now,        \* the clock of server and database
  sent,       \* the request as its client sent it, None before
  answer,     \* the handler's answer: None, a status code, or 201
  meta,       \* the metadata in the upload's .info file
  rows,       \* table uploads: account, issuer, created, uploaderIP; or None
  listening,  \* ipRecorder has called Listen
  events,     \* its channel: ids of created uploads
  recording,  \* UPDATEs of uploader_ip under way, each in its own goroutine
  terminated, \* uploads the expirer has terminated
  faults

vars == <<now, sent, answer, meta, rows, listening, events, recording,
          terminated, faults>>

(*****************************************************************************)
(* tusd-metadata.go                                                          *)
(*****************************************************************************)

\* (variant: elements without a value are kept)
ParseMeta_KeepsEmpty(header) ==
  [k \in {header[i].key : i \in DOMAIN header} |->
     LET at == {i \in DOMAIN header : header[i].key = k}
     IN  header[CHOOSE i \in at : \A j \in at : j <= i].value]

Readable(header) == {i \in DOMAIN header : header[i].value # Empty}
Naming(header, k) == {i \in Readable(header) : header[i].key = k}

\* The last readable element of a key gives its value.
ParseMeta(header) ==
  [k \in {header[i].key : i \in Readable(header)} |->
     header[CHOOSE i \in Naming(header, k) : \A j \in Naming(header, k) : j <= i].value]

\* (variant: the comma that is cut off has not been written)
SerializeMeta_CutsLast(m) ==
  {[i \in DOMAIN keys |-> [key |-> keys[i],
                           value |-> IF i = Len(keys) THEN Empty ELSE m[keys[i]]]] :
     keys \in SetToSeqs(DOMAIN m)}

\* Go ranges over a map in any order.
SerializeMeta(m) ==
  {[i \in DOMAIN keys |-> [key |-> keys[i], value |-> m[keys[i]]]] :
     keys \in SetToSeqs(DOMAIN m)}

Get(m, k) == IF k \in DOMAIN m THEN m[k] ELSE Empty

With(m, k, v) == [j \in DOMAIN m \union {k} |-> IF j = k THEN v ELSE m[j]]

(*****************************************************************************)
(* addRemoteIPToMetadata                                                     *)
(*****************************************************************************)

\* (variant: the header is believed whoever sends it)
RemoteIPisTrusted_Always(address) == TRUE

RemoteIPisTrusted(address) == address \in TrustedReverseProxies

UsesForwardedFor(q) == q.forwardedFor # None /\ RemoteIPisTrusted(q.peer)

GetDirectOrForwardedRemoteIP(q) ==
  IF UsesForwardedFor(q) THEN q.forwardedFor ELSE q.peer

\* The status postFile answers with, None if it goes on.
RemoteIPStatus(q) ==
  IF "RemoteIP" \in DOMAIN ParseMeta(q.header) THEN 406
  ELSE IF q.peer = "unsplittable" THEN 500
  ELSE IF UsesForwardedFor(q) /\ q.forwardedFor = "unparsable" THEN 406
  ELSE None

AddRemoteIP(q) ==
  SerializeMeta(With(ParseMeta(q.header), "RemoteIP", GetDirectOrForwardedRemoteIP(q)))

(*****************************************************************************)
(* processJwt.  jwt.Parse asks getSecretForToken for the key, then checks    *)
(* expiry and signature; a bad signature outweighs an expired token.         *)
(*****************************************************************************)
UnknownIssuer(t) == /\ t \in Token /\ Claims[t].hmac
                    /\ Claims[t].iss \notin Configured \union {None}

Verifies(t) == /\ t \in Token /\ Claims[t].hmac
               /\ Claims[t].iss \in Configured \ {None}
               /\ Claims[t].signer = Claims[t].iss

\* (variant: the cases of the switch in the other order)
SetByClient_OnlyAccount(m) == "account" \in DOMAIN m

\* Go's switch does not fall through, so the empty case of account accepts it.
SetByClient(m) == "issuer" \in DOMAIN m

JwtStatus(header) ==
  LET m == ParseMeta(header)
      t == Get(m, "extjwt")
  IN  IF SetByClient(m) THEN 400
      ELSE IF t = Empty \/ UnknownIssuer(t) THEN None
      ELSE IF Verifies(t) THEN IF Claims[t].expired THEN 400 ELSE None
      ELSE IF t \in Token /\ Claims[t].hmac /\ Claims[t].iss # None THEN 401
      ELSE 400

ProcessJwt(header) ==
  LET m == ParseMeta(header)
      t == Get(m, "extjwt")
  IN  IF Verifies(t) /\ Claims[t].account # None
      THEN SerializeMeta(With(With(m, "issuer", Claims[t].iss),
                              "account", Claims[t].account))
      ELSE {header}

(*****************************************************************************)
(* postFile                                                                  *)
(*****************************************************************************)
Init == /\ now = 0 /\ listening = FALSE /\ events = <<>> /\ recording = {}
        /\ sent = [r \in Request |-> None]
        /\ answer = [r \in Request |-> None]
        /\ meta = [r \in Request |-> <<>>]
        /\ rows = [r \in Request |-> None]
        /\ terminated = {} /\ faults = 0

\* The record NewUpload inserts: account and issuer stay NULL without account.
\* (variant: an account is stored although it is empty)
NewRow_EmptyAccount(m) ==
  [created |-> now, uploaderIP |-> None,
   account |-> Get(m, "account"), issuer |-> Get(m, "issuer")]

NewRow(m) ==
  [created |-> now, uploaderIP |-> None,
   account |-> IF Get(m, "account") = Empty THEN None ELSE m["account"],
   issuer |-> IF Get(m, "account") = Empty THEN None ELSE Get(m, "issuer")]

Refuse(r, q, status) ==
  /\ status # None
  /\ sent' = [sent EXCEPT ![r] = q]
  /\ answer' = [answer EXCEPT ![r] = status]
  /\ UNCHANGED <<now, meta, rows, listening, events, recording, terminated, faults>>

\* tusd parses the header once more and calls NewUpload.
Create(r, q, m) ==
  /\ sent' = [sent EXCEPT ![r] = q]
  /\ meta' = [meta EXCEPT ![r] = m]
  /\ rows' = [rows EXCEPT ![r] = NewRow(m)]
  /\ UNCHANGED <<now, answer, listening, events, recording, terminated, faults>>

PostFile(r) ==
  /\ sent[r] = None
  /\ \E q \in Sent[r] :
       \/ Refuse(r, q, RemoteIPStatus(q))
       \/ /\ RemoteIPStatus(q) = None
          /\ \E header \in AddRemoteIP(q) :
               \/ Refuse(r, q, JwtStatus(header))
               \/ /\ JwtStatus(header) = None
                  /\ \E final \in ProcessJwt(header) : Create(r, q, ParseMeta(final))

\* tusd announces the upload, ipRecorder's channel gets it if there is one.
Announce(r) ==
  /\ rows[r] # None /\ answer[r] = None
  /\ answer' = [answer EXCEPT ![r] = 201]
  /\ events' = IF listening THEN Append(events, r) ELSE events
  /\ UNCHANGED <<now, sent, meta, rows, listening, recording, terminated, faults>>

(*****************************************************************************)
(* ipRecorder                                                                *)
(*****************************************************************************)
Listen ==
  /\ ~listening
  /\ listening' = TRUE
  /\ UNCHANGED <<now, sent, answer, meta, rows, events, recording, terminated, faults>>

\* (variant: the loop ends after an event)
TakeEvent_Once ==
  /\ events # <<>> /\ recording = {}
  /\ recording' = {[id |-> Head(events), ip |-> Get(meta[Head(events)], "RemoteIP")]}
  /\ events' = <<>>
  /\ UNCHANGED <<now, sent, answer, meta, rows, listening, terminated, faults>>

TakeEvent ==
  /\ events # <<>>
  /\ recording' = recording \union
       {[id |-> Head(events), ip |-> Get(meta[Head(events)], "RemoteIP")]}
  /\ events' = Tail(events)
  /\ UNCHANGED <<now, sent, answer, meta, rows, listening, terminated, faults>>

RecordIP(u) ==
  /\ recording' = recording \ {u}
  /\ rows' = [rows EXCEPT ![u.id].uploaderIP = u.ip]
  /\ UNCHANGED <<now, sent, answer, meta, listening, events, terminated, faults>>

RecordFails(u) ==
  /\ faults < MaxFaults
  /\ faults' = faults + 1
  /\ recording' = recording \ {u}
  /\ UNCHANGED <<now, sent, answer, meta, rows, listening, events, terminated>>

(*****************************************************************************)
(* The expirer                                                               *)
(*****************************************************************************)

AgeLimit(row) == IF row.account = None THEN MaxAge ELSE IdentifiedMaxAge

Terminate(r) ==
  /\ rows[r] # None /\ r \notin terminated
  /\ now >= rows[r].created + AgeLimit(rows[r])
  /\ terminated' = terminated \union {r}
  /\ UNCHANGED <<now, sent, answer, meta, rows, listening, events, recording, faults>>

Tick == /\ now < MaxTime
        /\ now' = now + 1
        /\ UNCHANGED <<sent, answer, meta, rows, listening, events, recording,
                       terminated, faults>>

Record == \E u \in recording : RecordIP(u) \/ RecordFails(u)

Next == \/ \E r \in Request : PostFile(r) \/ Announce(r) \/ Terminate(r)
        \/ Listen \/ TakeEvent \/ Record \/ Tick

Spec == Init /\ [][Next]_vars

FairSpec == /\ Spec
            /\ \A r \in Request : WF_vars(Announce(r))
            /\ WF_vars(TakeEvent) /\ WF_vars(Record)

(*****************************************************************************)
(* Properties                                                                *)
(*****************************************************************************)
IsMeta(m) == /\ DOMAIN m \subseteq Key
             /\ \A k \in DOMAIN m : m[k] \in Value
             /\ m = [k \in DOMAIN m |-> m[k]]

\* The variables keep their types; the metadata of an upload has no field
\* without a value.
TypeOK ==
  /\ now \in 0 .. MaxTime /\ faults \in 0 .. MaxFaults
  /\ DOMAIN sent = Request /\ \A r \in Request : sent[r] \in Sent[r] \union {None}
  /\ answer \in [Request -> {None, 201, 400, 401, 406, 500}]
  /\ DOMAIN meta = Request /\ \A r \in Request : IsMeta(meta[r])
  /\ rows \in [Request -> Row \union {None}]
  /\ listening \in BOOLEAN /\ events \in Seq(Request)
  /\ recording \subseteq [id : Request, ip : Value \union {Empty}]
  /\ terminated \subseteq Request

\* Who the request really came from: the proxy's word counts only from a proxy.
Origin(q) == IF q.peer \in TrustedReverseProxies /\ q.forwardedFor # None
             THEN q.forwardedFor ELSE q.peer

\* Whatever a client puts into its header, the address in the .info file, and
\* the one ipRecorder writes into the record, is that of the request's origin,
\* through two rewritings of the header, the event and the goroutine.
OriginIsRecorded ==
  \A r \in Request : rows[r] # None =>
    /\ Get(meta[r], "RemoteIP") = Origin(sent[r])
    /\ rows[r].uploaderIP \in {None, Origin(sent[r])}

TokenOf(q) == Get(ParseMeta(q.header), "extjwt")
Vouched(q) == /\ Verifies(TokenOf(q)) /\ ~Claims[TokenOf(q)].expired
              /\ Claims[TokenOf(q)].account # None

\* An upload has an issuer only if a valid token of that issuer was sent, and
\* the account stored with it is the one that token names.
IssuerIsVouched ==
  \A r \in Request : "issuer" \in DOMAIN meta[r] =>
    /\ Vouched(sent[r])
    /\ meta[r]["issuer"] = Claims[TokenOf(sent[r])].iss
    /\ Get(meta[r], "account") = Claims[TokenOf(sent[r])].account
    /\ rows[r].issuer \in {None, meta[r]["issuer"]}

\* Rewriting the header loses, changes and adds no other field of the client.
ClientFieldsSurvive ==
  \A r \in Request : rows[r] # None =>
    \A k \in Field \union {"extjwt"} :
      Get(meta[r], k) = Get(ParseMeta(sent[r].header), k)

\* The age an upload is entitled to: that of identified users if its token
\* vouches for an account that is not empty.
EntitledAge(q) == IF Vouched(q) /\ Claims[TokenOf(q)].account # Empty
                  THEN IdentifiedMaxAge ELSE MaxAge

\* An account that the client names itself, without a token, passes processJwt.
NamesItsAccount(q) == ~Vouched(q) /\ Get(ParseMeta(q.header), "account") # Empty

\* However its header was rewritten, an upload may be terminated from the age on
\* that its token entitles it to, and never before; an account claim that is
\* empty entitles to nothing.  Uploads that name an account of their own are
\* excepted: they get the age of identified users (processJwt, NewUpload,
\* getExpired).
LivesItsAge ==
  /\ [](\A r \in Request : rows[r] # None /\ ~NamesItsAccount(sent[r])
                               => AgeLimit(rows[r]) = EntitledAge(sent[r]))
  /\ [][\A r \in terminated' \ terminated :
          ~NamesItsAccount(sent[r]) => now - rows[r].created >= EntitledAge(sent[r])]_vars

IpRecorded(r) == rows[r] # None /\ rows[r].uploaderIP # None

\* An upload that is announced once ipRecorder listens gets its address
\* recorded, unless an UPDATE fails.
IpIsRecorded ==
  \A r \in Request : (listening /\ rows[r] # None /\ answer[r] = None) ~>
                       (IpRecorded(r) \/ faults > 0)
================================================================================
