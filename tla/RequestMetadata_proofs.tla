------------------------- MODULE RequestMetadata_proofs -------------------------
(*****************************************************************************)
(* Proofs about RequestMetadata: writing metadata into a header and reading  *)
(* it back gives the same metadata in whatever order Go ranges over the map, *)
(* and what an upload records of its sender is true, for every header.       *)
(*****************************************************************************)
EXTENDS RequestMetadata, FiniteSetTheorems, WellFoundedInduction, TLAPS

\* A map as the handlers build it: unlike one that was parsed, it may hold the
\* empty string.
IsMap(m) == /\ DOMAIN m \subseteq Key /\ IsFiniteSet(DOMAIN m)
            /\ \A k \in DOMAIN m : m[k] \in Value \union {Empty}

(*****************************************************************************)
(* Headers                                                                   *)
(*****************************************************************************)


\* Among the elements that name a key there is a last one.
LEMMA LastNaming ==
  ASSUME NEW header \in Seq(Element), NEW k, Naming(header, k) # {}
  PROVE  \E i \in Naming(header, k) : \A j \in Naming(header, k) : j <= i
<1> DEFINE R == {p \in Nat \X Nat : p[1] < p[2]}
           Bounds == {b \in Nat : \A j \in Naming(header, k) : j <= b}
<1>1. IsWellFoundedOn(R, Nat)
  <2>1. OpToRel(<, Nat) = R
    BY DEF OpToRel
  <2> QED
    BY <2>1, NatLessThanWellFounded
<1>2. Naming(header, k) \subseteq 1 .. Len(header) /\ Len(header) \in Nat
  BY DEF Naming, Readable
<1>3. Bounds \subseteq Nat /\ Bounds # {}
  BY <1>2
<1>4. PICK b \in Bounds : \A c \in Bounds : <<c, b>> \notin R
  BY <1>1, <1>3, WFMin
<1> QED
  <2>1. SUFFICES ASSUME \A j \in Naming(header, k) : j # b PROVE FALSE
    BY DEF Naming
  <2>2. b - 1 \in Bounds
    BY <1>2, <2>1
  <2>3. b - 1 \in Nat /\ b \in Nat /\ b - 1 < b
    BY <2>2
  <2>4. <<b - 1, b>> \in R
    BY <2>3
  <2> QED
    BY <1>4, <2>2, <2>4

\* What parseMeta returns has no key without a value.
LEMMA ParsedIsMeta ==
  ASSUME NEW header \in Seq(Element)
  PROVE  IsMeta(ParseMeta(header)) /\ IsMap(ParseMeta(header))
<1> DEFINE m == ParseMeta(header)
           keys == {header[i].key : i \in Readable(header)}
<1>1. m = [k \in keys |-> header[CHOOSE i \in Naming(header, k) :
                                   \A j \in Naming(header, k) : j <= i].value]
  BY DEF ParseMeta
<1>2. /\ Readable(header) \subseteq 1 .. Len(header)
      /\ \A i \in Readable(header) : header[i].key \in Key /\ header[i].value \in Value
  <2>1. \A i \in 1 .. Len(header) : header[i] \in Element
    OBVIOUS
  <2> QED
    BY <2>1 DEF Readable, Element
<1>3. \A k \in keys : m[k] \in Value
  <2> SUFFICES ASSUME NEW k \in keys PROVE m[k] \in Value
    OBVIOUS
  <2>1. Naming(header, k) # {}
    BY DEF Naming
  <2>2. PICK i \in Naming(header, k) : m[k] = header[i].value
    BY <1>1, <2>1, LastNaming
  <2> QED
    BY <1>2, <2>2 DEF Naming
<1>4. IsFiniteSet(keys)
  <2> DEFINE f == [i \in Readable(header) |-> header[i].key]
  <2>1. f \in Surjection(Readable(header), keys)
    BY DEF Surjection
  <2>2. IsFiniteSet(Readable(header))
    BY <1>2, FS_Interval, FS_Subset
  <2> QED
    BY <2>1, <2>2, FS_Surjection
<1>5. DOMAIN m = keys /\ keys \subseteq Key
  BY <1>1, <1>2
<1>6. m = [k \in DOMAIN m |-> m[k]]
  BY <1>1, <1>5
<1> HIDE DEF m, keys
<1> QED
  BY <1>3, <1>4, <1>5, <1>6 DEF IsMeta, IsMap, m

\* Written in any order and read back, every field that is not empty is there
\* with its value, and no other is.
LEMMA RoundTrip ==
  ASSUME NEW m, IsMap(m), NEW header \in SerializeMeta(m)
  PROVE  /\ header \in Seq(Element)
         /\ \A k : Get(ParseMeta(header), k) = Get(m, k)
<1> DEFINE S == DOMAIN m
           n == Cardinality(S)
<1>1. n \in Nat /\ IsFiniteSet(S)
  BY FS_CardinalityType DEF IsMap
<1>2. PICK keys \in SetToSeqs(S) :
        header = [i \in DOMAIN keys |-> [key |-> keys[i], value |-> m[keys[i]]]]
  BY DEF SerializeMeta
<1>3. /\ keys \in [1 .. n -> S]
      /\ \A i, j \in 1 .. n : i # j => keys[i] # keys[j]
  BY DEF SetToSeqs
<1>4. \A k \in S : \E i \in 1 .. n : keys[i] = k
  <2>1. keys \in Injection(1 .. n, S)
    BY <1>3 DEF Injection, IsInjective
  <2>2. Cardinality(1 .. n) = n
    BY <1>1, FS_Interval
  <2>3. keys \in Surjection(1 .. n, S)
    BY <1>1, <2>1, <2>2, FS_Injection
  <2> QED
    BY <2>3 DEF Surjection
<1>5. /\ DOMAIN header = 1 .. n
      /\ \A i \in 1 .. n : header[i].key = keys[i] /\ header[i].value = m[keys[i]]
  BY <1>2, <1>3
<1>6. header \in Seq(Element)
  <2>1. \A k \in S : [key |-> k, value |-> m[k]] \in Element
    BY DEF IsMap, Element
  <2>2. header \in [1 .. n -> Element]
    BY <1>2, <1>3, <2>1
  <2> QED
    BY <1>1, <2>2
<1>7. ASSUME NEW k \in S, m[k] # Empty PROVE Get(ParseMeta(header), k) = m[k]
  <2>1. PICK i \in 1 .. n : keys[i] = k
    BY <1>4
  <2>2. Naming(header, k) = {i}
    BY <1>3, <1>5, <1>7, <2>1 DEF Naming, Readable
  <2>3. (CHOOSE l \in Naming(header, k) : \A j \in Naming(header, k) : j <= l) = i
    BY <1>1, <2>2
  <2>4. k \in {header[l].key : l \in Readable(header)}
    BY <1>5, <2>1, <2>2 DEF Naming
  <2> QED
    BY <1>5, <2>1, <2>3, <2>4 DEF ParseMeta, Get
<1>8. ASSUME NEW k, k \notin S \/ m[k] = Empty PROVE Get(ParseMeta(header), k) = Empty
  <2>1. k \notin {header[l].key : l \in Readable(header)}
    BY <1>3, <1>5, <1>8 DEF Readable
  <2> QED
    BY <2>1 DEF ParseMeta, Get
<1> HIDE DEF S, n
<1>9. \A k : Get(ParseMeta(header), k) = Get(m, k)
  BY <1>7, <1>8 DEF Get, S
<1> QED
  BY <1>6, <1>9

LEMMA WithIsMap ==
  ASSUME NEW m, IsMap(m), NEW k \in Key, NEW v \in Value \union {Empty}
  PROVE  /\ IsMap(With(m, k, v))
         /\ \A j : Get(With(m, k, v), j) = IF j = k THEN v ELSE Get(m, j)
<1>1. DOMAIN With(m, k, v) = DOMAIN m \union {k}
  BY DEF With
<1>2. IsFiniteSet(DOMAIN m \union {k})
  BY FS_AddElement DEF IsMap
<1> QED
  BY <1>1, <1>2 DEF With, Get, IsMap

(*****************************************************************************)
(* What postFile makes of a header                                           *)
(*****************************************************************************)

\* The five facts about the metadata m of an upload that request q made.
Faithful(q, m) ==
  /\ IsMeta(m)
  /\ Get(m, "RemoteIP") = Origin(q)
  /\ "issuer" \in DOMAIN m =>
       /\ Vouched(q)
       /\ m["issuer"] = Claims[TokenOf(q)].iss
       /\ Get(m, "account") = Claims[TokenOf(q)].account
  /\ Get(m, "account") = IF Vouched(q) THEN Claims[TokenOf(q)].account
                         ELSE Get(ParseMeta(q.header), "account")
  /\ \A k \in Field \union {"extjwt"} : Get(m, k) = Get(ParseMeta(q.header), k)

LEMMA RemoteIPAdded ==
  ASSUME NEW r \in Request, NEW q \in Sent[r], RemoteIPStatus(q) = None,
         NEW header \in AddRemoteIP(q)
  PROVE  /\ header \in Seq(Element)
         /\ \A k : Get(ParseMeta(header), k) =
                     IF k = "RemoteIP" THEN Origin(q) ELSE Get(ParseMeta(q.header), k)
<1> DEFINE m == ParseMeta(q.header)
           ip == GetDirectOrForwardedRemoteIP(q)
<1>1. q.header \in Seq(Element) /\ q.peer \in Address \union {"unsplittable"}
      /\ q.forwardedFor \in Address \union {"unparsable", None}
  BY MetadataAssumption DEF MetadataAssumption, Sendable
<1>2. IsMap(m)
  BY <1>1, ParsedIsMeta
<1>3. ip = Origin(q) /\ ip \in Value
  BY <1>1, MetadataAssumption
     DEF MetadataAssumption, RemoteIPStatus, GetDirectOrForwardedRemoteIP, UsesForwardedFor,
         RemoteIPisTrusted, Origin
<1> HIDE DEF m, ip
<1>4. "RemoteIP" \in Key
  BY DEF Key
<1>5. IsMap(With(m, "RemoteIP", ip))
      /\ \A k : Get(With(m, "RemoteIP", ip), k) = IF k = "RemoteIP" THEN ip ELSE Get(m, k)
  BY <1>2, <1>3, <1>4, WithIsMap
<1>6. header \in SerializeMeta(With(m, "RemoteIP", ip))
  BY DEF AddRemoteIP, m, ip
<1> QED
  BY <1>3, <1>5, <1>6, RoundTrip DEF m

LEMMA AcceptedIsFaithful ==
  ASSUME NEW r \in Request, NEW q \in Sent[r], RemoteIPStatus(q) = None,
         NEW header \in AddRemoteIP(q), JwtStatus(header) = None,
         NEW final \in ProcessJwt(header)
  PROVE  Faithful(q, ParseMeta(final))
<1> DEFINE m == ParseMeta(header)
           t == Get(m, "extjwt")
           p == ParseMeta(final)
<1>1. /\ header \in Seq(Element)
      /\ \A k : Get(m, k) = IF k = "RemoteIP" THEN Origin(q) ELSE Get(ParseMeta(q.header), k)
  BY RemoteIPAdded
<1>2. IsMeta(m) /\ IsMap(m)
  BY <1>1, ParsedIsMeta
<1>3. t = TokenOf(q)
  BY <1>1 DEF TokenOf
<1>4. "issuer" \notin DOMAIN m
  BY MetadataAssumption DEF MetadataAssumption, JwtStatus, SetByClient
<1>5. \A k \in Field \union {"extjwt"} : k \notin {"RemoteIP", "account", "issuer"}
  BY MetadataAssumption DEF MetadataAssumption
<1>6. CASE Verifies(t) /\ Claims[t].account # None
  <2> DEFINE c == Claims[t]
             m1 == With(m, "issuer", c.iss)
             m2 == With(m1, "account", c.account)
  <2>1. ~UnknownIssuer(t)
    BY <1>6 DEF Verifies, UnknownIssuer
  <2>2. t # Empty
    BY <1>6, MetadataAssumption DEF MetadataAssumption, Verifies
  <2>3. ~c.expired
    BY <1>4, <1>6, <2>1, <2>2, MetadataAssumption
       DEF MetadataAssumption, JwtStatus, SetByClient
  <2>4. c.iss \in Value /\ c.account \in Value \union {Empty}
    BY <1>6, MetadataAssumption DEF MetadataAssumption, Verifies
  <2>5. "issuer" \in Key /\ "account" \in Key
    BY DEF Key
  <2> HIDE DEF m, t, c
  <2>6. /\ IsMap(m1)
        /\ \A k : Get(m1, k) = IF k = "issuer" THEN c.iss ELSE Get(m, k)
    BY <1>2, <2>4, <2>5, WithIsMap
  <2> HIDE DEF m1
  <2>7. /\ IsMap(m2)
        /\ \A k : Get(m2, k) = IF k = "account" THEN c.account ELSE Get(m1, k)
    BY <2>4, <2>5, <2>6, WithIsMap
  <2>8. final \in SerializeMeta(m2)
    BY <1>6 DEF ProcessJwt, m, t, c, m1
  <2> HIDE DEF m2, p
  <2>9. final \in Seq(Element) /\ \A k : Get(p, k) = Get(m2, k)
    BY <2>7, <2>8, RoundTrip DEF p
  <2>10. IsMeta(p)
    BY <2>9, ParsedIsMeta DEF p
  <2>11. Get(p, "RemoteIP") = Origin(q) /\ Get(p, "issuer") = c.iss
         /\ Get(p, "account") = c.account
    BY <1>1, <2>6, <2>7, <2>9
  <2>12. \A k \in Field \union {"extjwt"} : Get(p, k) = Get(ParseMeta(q.header), k)
    BY <1>1, <1>5, <2>6, <2>7, <2>9
  <2>13. Vouched(q)
    BY <1>3, <1>6, <2>3 DEF Vouched, c
  <2>14. "issuer" \in DOMAIN p => p["issuer"] = c.iss
    BY <2>11 DEF Get
  <2>15. Faithful(q, p)
    BY <1>3, <2>10, <2>11, <2>12, <2>13, <2>14 DEF Faithful, c
  <2> QED
    BY <2>15 DEF p
<1>7. CASE ~(Verifies(t) /\ Claims[t].account # None)
  <2>1. final = header
    BY <1>7 DEF ProcessJwt
  <2> HIDE DEF m, t
  <2>2. Get(m, "RemoteIP") = Origin(q)
        /\ \A k \in Field \union {"extjwt"} : Get(m, k) = Get(ParseMeta(q.header), k)
    BY <1>1, <1>5
  <2>3. ~Vouched(q)
    BY <1>3, <1>7 DEF Vouched
  <2>4. Get(m, "account") = Get(ParseMeta(q.header), "account")
    BY <1>1
  <2>5. Faithful(q, m)
    BY <1>2, <1>4, <2>2, <2>3, <2>4 DEF Faithful
  <2> QED
    BY <2>1, <2>5 DEF m
<1> QED
  BY <1>6, <1>7

(*****************************************************************************)
(* The invariant                                                             *)
(*****************************************************************************)

\* A request that has not been sent has left nothing.
Unsent == \A r \in Request : sent[r] = None => rows[r] = None /\ meta[r] = <<>>

MetaIsFaithful == \A r \in Request : rows[r] # None => Faithful(sent[r], meta[r])

NoRowNoMeta == \A r \in Request : rows[r] = None => meta[r] = <<>>

IpsAreRight ==
  \A r \in Request : rows[r] # None => rows[r].uploaderIP \in {None, Origin(sent[r])}

IssuersAreRight ==
  \A r \in Request : rows[r] # None => rows[r].issuer \in {None, Get(meta[r], "issuer")}

AccountsAreRight ==
  \A r \in Request : rows[r] # None =>
    rows[r].account = IF Get(meta[r], "account") = Empty THEN None
                      ELSE Get(meta[r], "account")

\* The events and the UPDATEs of ipRecorder are about uploads that exist, and an
\* UPDATE has the address of its own upload.
RecordsOwn ==
  /\ \A i \in DOMAIN events : rows[events[i]] # None
  /\ \A u \in recording : rows[u.id] # None /\ u.ip = Get(meta[u.id], "RemoteIP")

IndInv == /\ TypeOK /\ Unsent /\ MetaIsFaithful /\ NoRowNoMeta
          /\ IpsAreRight /\ IssuersAreRight /\ AccountsAreRight /\ RecordsOwn

LEMMA SentIsNotNone == ASSUME NEW r \in Request, NEW q \in Sent[r] PROVE q # None
<1>1. q \in Sendable /\ None \notin Sendable
  BY MetadataAssumption DEF MetadataAssumption
<1> QED
  BY <1>1

LEMMA NoMetaIsMeta == IsMeta(<<>>)
<1>1. DOMAIN <<>> = {}
  OBVIOUS
<1> QED
  BY <1>1 DEF IsMeta

LEMMA InitEstablishes == ASSUME Init PROVE IndInv
<1>1. TypeOK
  <2>1. now \in 0 .. MaxTime /\ faults \in 0 .. MaxFaults
    BY MetadataAssumption DEF MetadataAssumption, Init
  <2>2. DOMAIN meta = Request /\ \A r \in Request : IsMeta(meta[r])
    BY NoMetaIsMeta DEF Init
  <2>3. rows \in [Request -> Row \union {None}]
    BY DEF Init
  <2>4. events \in Seq(Request) /\ recording \subseteq [id : Request, ip : Value \union {Empty}]
    BY DEF Init
  <2>5. /\ answer \in [Request -> {None, 201, 400, 401, 406, 500}]
        /\ DOMAIN sent = Request /\ \A r \in Request : sent[r] \in Sent[r] \union {None}
    BY DEF Init
  <2>6. listening \in BOOLEAN /\ terminated \subseteq Request
    BY DEF Init
  <2> QED
    BY <2>1, <2>2, <2>3, <2>4, <2>5, <2>6, Zenon DEF TypeOK
<1> QED
  BY <1>1 DEF Init, IndInv, Unsent, MetaIsFaithful, NoRowNoMeta, IpsAreRight,
              IssuersAreRight, AccountsAreRight, RecordsOwn

LEMMA NewRowIsRow ==
  ASSUME TypeOK, NEW m, IsMeta(m)
  PROVE  /\ NewRow(m) \in Row /\ NewRow(m).uploaderIP = None
         /\ NewRow(m).issuer \in {None, Get(m, "issuer")}
         /\ NewRow(m).account = IF Get(m, "account") = Empty THEN None
                                ELSE Get(m, "account")
<1>1. Get(m, "account") # Empty => m["account"] \in Value
  BY DEF IsMeta, Get
<1>2. Get(m, "issuer") \in Value \union {Empty}
  BY DEF IsMeta, Get
<1>3. now \in Nat
  BY MetadataAssumption DEF MetadataAssumption, TypeOK
<1> QED
  BY <1>1, <1>2, <1>3 DEF NewRow, Row, Get

LEMMA RefusePreserves ==
  ASSUME IndInv, NEW r \in Request, NEW q \in Sent[r], sent[r] = None,
         NEW status, status \in {None, 400, 401, 406, 500}, Refuse(r, q, status)
  PROVE  IndInv'
<1>1. rows[r] = None /\ \A s \in Request : s # r => sent'[s] = sent[s]
  BY DEF IndInv, Unsent, TypeOK, Refuse
<1>2. TypeOK'
  BY DEF IndInv, TypeOK, Refuse, IsMeta
<1>3. sent'[r] # None /\ UNCHANGED <<rows, meta, events, recording>>
  BY SentIsNotNone DEF IndInv, TypeOK, Refuse
<1>4. MetaIsFaithful'
  BY <1>1, <1>3 DEF IndInv, MetaIsFaithful
<1>5. Unsent' /\ NoRowNoMeta' /\ IpsAreRight' /\ IssuersAreRight'
      /\ AccountsAreRight' /\ RecordsOwn'
  BY <1>1, <1>3 DEF IndInv, Unsent, NoRowNoMeta, IpsAreRight, IssuersAreRight, AccountsAreRight, RecordsOwn
<1> QED
  BY <1>2, <1>4, <1>5 DEF IndInv

LEMMA CreatePreserves ==
  ASSUME IndInv, NEW r \in Request, NEW q \in Sent[r], sent[r] = None,
         NEW m, Faithful(q, m), Create(r, q, m)
  PROVE  IndInv'
<1>1. IsMeta(m)
  BY DEF Faithful
<1>2. /\ NewRow(m) \in Row /\ NewRow(m).uploaderIP = None
      /\ NewRow(m).issuer \in {None, Get(m, "issuer")}
      /\ NewRow(m).account = IF Get(m, "account") = Empty THEN None
                             ELSE Get(m, "account")
  BY <1>1, NewRowIsRow DEF IndInv
<1>3. rows[r] = None /\ NewRow(m) # None /\ q # None
  <2>1. None \notin Row
    BY MetadataAssumption DEF MetadataAssumption
  <2> QED
    BY <1>2, <2>1, SentIsNotNone DEF IndInv, Unsent
<1>4. /\ rows'[r] = NewRow(m) /\ meta'[r] = m /\ sent'[r] = q
      /\ \A s \in Request \ {r} : /\ rows'[s] = rows[s] /\ meta'[s] = meta[s]
                                  /\ sent'[s] = sent[s]
      /\ UNCHANGED <<events, recording>>
  BY DEF IndInv, TypeOK, Create
<1>5. TypeOK'
  <2>1. rows' \in [Request -> Row \union {None}]
    BY <1>2 DEF IndInv, TypeOK, Create
  <2>2. DOMAIN meta' = Request /\ \A s \in Request : IsMeta(meta'[s])
    BY <1>1, <1>4 DEF IndInv, TypeOK, Create
  <2>3. DOMAIN sent' = Request /\ \A s \in Request : sent'[s] \in Sent[s] \union {None}
    BY <1>4 DEF IndInv, TypeOK, Create
  <2> QED
    BY <2>1, <2>2, <2>3 DEF IndInv, TypeOK, Create
<1> HIDE DEF NewRow
<1>6. MetaIsFaithful'
  BY <1>4 DEF IndInv, MetaIsFaithful
<1>7. IpsAreRight' /\ IssuersAreRight' /\ AccountsAreRight'
  BY <1>2, <1>4 DEF IndInv, IpsAreRight, IssuersAreRight, AccountsAreRight
<1>8. Unsent' /\ NoRowNoMeta'
  BY <1>3, <1>4 DEF IndInv, Unsent, NoRowNoMeta
<1>9. RecordsOwn'
  BY <1>3, <1>4 DEF IndInv, RecordsOwn, TypeOK
<1> QED
  BY <1>5, <1>6, <1>7, <1>8, <1>9 DEF IndInv

LEMMA PostFilePreserves ==
  ASSUME IndInv, NEW r \in Request, PostFile(r)
  PROVE  IndInv'
<1>1. PICK q \in Sent[r] :
        \/ Refuse(r, q, RemoteIPStatus(q))
        \/ /\ RemoteIPStatus(q) = None
           /\ \E header \in AddRemoteIP(q) :
                \/ Refuse(r, q, JwtStatus(header))
                \/ /\ JwtStatus(header) = None
                   /\ \E final \in ProcessJwt(header) : Create(r, q, ParseMeta(final))
  BY DEF PostFile
<1>2. sent[r] = None
  BY DEF PostFile
<1>3. CASE Refuse(r, q, RemoteIPStatus(q))
  <2>1. RemoteIPStatus(q) \in {None, 400, 401, 406, 500}
    BY DEF RemoteIPStatus
  <2> QED
    BY <1>2, <1>3, <2>1, RefusePreserves
<1>4. ASSUME RemoteIPStatus(q) = None, NEW header \in AddRemoteIP(q),
             Refuse(r, q, JwtStatus(header))
      PROVE  IndInv'
  <2>1. JwtStatus(header) \in {None, 400, 401, 406, 500}
    BY DEF JwtStatus
  <2> QED
    BY <1>2, <1>4, <2>1, RefusePreserves
<1>5. ASSUME RemoteIPStatus(q) = None, NEW header \in AddRemoteIP(q),
             JwtStatus(header) = None, NEW final \in ProcessJwt(header),
             Create(r, q, ParseMeta(final))
      PROVE  IndInv'
  <2>1. Faithful(q, ParseMeta(final))
    BY <1>5, AcceptedIsFaithful
  <2> QED
    BY <1>2, <1>5, <2>1, CreatePreserves
<1> QED
  BY <1>1, <1>3, <1>4, <1>5

LEMMA AnnouncePreserves ==
  ASSUME IndInv, NEW r \in Request, Announce(r)
  PROVE  IndInv'
<1>1. events' \in Seq(Request) /\ \A i \in DOMAIN events' : rows[events'[i]] # None
  BY DEF IndInv, TypeOK, RecordsOwn, Announce
<1>2. UNCHANGED <<sent, meta, rows, recording>> /\ rows[r] # None
  BY DEF Announce
<1>3. TypeOK'
  BY <1>1, <1>2 DEF IndInv, TypeOK, Announce
<1> QED
  BY <1>1, <1>2, <1>3
     DEF IndInv, Unsent, MetaIsFaithful, NoRowNoMeta, IpsAreRight, IssuersAreRight,
         AccountsAreRight, RecordsOwn

LEMMA TakeEventPreserves ==
  ASSUME IndInv, TakeEvent
  PROVE  IndInv'
<1>1. /\ Head(events) \in Request /\ rows[Head(events)] # None
      /\ events' \in Seq(Request) /\ \A i \in DOMAIN events' : rows[events'[i]] # None
  BY DEF IndInv, TypeOK, RecordsOwn, TakeEvent
<1>2. Get(meta[Head(events)], "RemoteIP") \in Value \union {Empty}
  BY <1>1 DEF IndInv, TypeOK, IsMeta, Get
<1>3. UNCHANGED <<sent, meta, rows>>
  BY DEF TakeEvent
<1>4. TypeOK'
  BY <1>1, <1>2, <1>3 DEF IndInv, TypeOK, TakeEvent
<1>5. RecordsOwn'
  BY <1>1, <1>3 DEF IndInv, RecordsOwn, TakeEvent
<1> QED
  BY <1>3, <1>4, <1>5
     DEF IndInv, Unsent, MetaIsFaithful, NoRowNoMeta, IpsAreRight, IssuersAreRight,
         AccountsAreRight

LEMMA RecordIPPreserves ==
  ASSUME IndInv, NEW u \in recording, RecordIP(u)
  PROVE  IndInv'
<1> DEFINE row == [rows[u.id] EXCEPT !.uploaderIP = u.ip]
<1>1. u.id \in Request /\ u.ip \in Value \union {Empty} /\ rows[u.id] \in Row
  BY DEF IndInv, TypeOK, RecordsOwn
<1>2. u.ip = Origin(sent[u.id])
  BY <1>1 DEF IndInv, RecordsOwn, MetaIsFaithful, Faithful
<1>3. /\ row \in Row /\ row.uploaderIP = u.ip /\ row.issuer = rows[u.id].issuer
      /\ row.account = rows[u.id].account /\ row # None
  <2>1. row \in Row
    BY <1>1 DEF Row
  <2>2. /\ row.uploaderIP = u.ip /\ row.issuer = rows[u.id].issuer
        /\ row.account = rows[u.id].account
    BY <1>1 DEF Row
  <2>3. None \notin Row
    BY MetadataAssumption DEF MetadataAssumption
  <2> QED
    BY <2>1, <2>2, <2>3
<1>4. /\ rows' = [rows EXCEPT ![u.id] = row]
      /\ recording' \subseteq recording /\ UNCHANGED <<sent, meta, events>>
  BY DEF RecordIP
<1> HIDE DEF row
<1>5. /\ rows'[u.id] = row /\ \A r \in Request : r # u.id => rows'[r] = rows[r]
      /\ rows[u.id] # None
  BY <1>1, <1>4 DEF IndInv, TypeOK, RecordsOwn
<1>6. TypeOK'
  <2>1. rows' \in [Request -> Row \union {None}]
    BY <1>3, <1>4 DEF IndInv, TypeOK
  <2> QED
    BY <1>4, <2>1 DEF IndInv, TypeOK, RecordIP
<1>7. Unsent' /\ MetaIsFaithful' /\ NoRowNoMeta'
  BY <1>1, <1>3, <1>4, <1>5 DEF IndInv, Unsent, MetaIsFaithful, NoRowNoMeta
<1>8. IpsAreRight' /\ IssuersAreRight' /\ AccountsAreRight'
  BY <1>1, <1>2, <1>3, <1>4, <1>5
     DEF IndInv, IpsAreRight, IssuersAreRight, AccountsAreRight
<1>9. RecordsOwn'
  BY <1>1, <1>3, <1>4, <1>5 DEF IndInv, RecordsOwn, TypeOK
<1> QED
  BY <1>6, <1>7, <1>8, <1>9 DEF IndInv

\* The steps that leave requests, metadata, records and events alone.
LEMMA OthersPreserve ==
  ASSUME IndInv,
         \/ Listen \/ Tick \/ \E u \in recording : RecordFails(u)
         \/ \E r \in Request : Terminate(r)
         \/ UNCHANGED vars
  PROVE  IndInv'
<1>1. UNCHANGED <<sent, meta, rows, events, answer>> /\ recording' \subseteq recording
  BY DEF Listen, Tick, RecordFails, Terminate, vars
<1>2. now' \in 0 .. MaxTime /\ faults' \in 0 .. MaxFaults
  BY MetadataAssumption
     DEF MetadataAssumption, IndInv, TypeOK, Listen, Tick, RecordFails, Terminate, vars
<1>3. listening' \in BOOLEAN /\ terminated' \subseteq Request
  <2>1. listening' = TRUE \/ listening' = listening
    BY DEF Listen, Tick, RecordFails, Terminate, vars
  <2>2. terminated' = terminated \/ \E r \in Request : terminated' = terminated \union {r}
    BY DEF Listen, Tick, RecordFails, Terminate, vars
  <2>3. listening \in BOOLEAN /\ terminated \subseteq Request
    BY DEF IndInv, TypeOK
  <2>4. listening' \in BOOLEAN
    BY <2>1, <2>3
  <2>5. terminated' \subseteq Request
    BY <2>2, <2>3
  <2> QED
    BY <2>4, <2>5
<1>4. TypeOK'
  BY <1>1, <1>2, <1>3 DEF IndInv, TypeOK
<1> QED
  BY <1>1, <1>4 DEF IndInv, Unsent, MetaIsFaithful, NoRowNoMeta, IpsAreRight,
                    IssuersAreRight, AccountsAreRight, RecordsOwn

LEMMA NextPreserves == ASSUME IndInv, [Next]_vars PROVE IndInv'
  BY PostFilePreserves, AnnouncePreserves, TakeEventPreserves, RecordIPPreserves,
     OthersPreserve DEF Next, Record

LEMMA InvariantImplies ==
  ASSUME IndInv
  PROVE  OriginIsRecorded /\ IssuerIsVouched /\ ClientFieldsSurvive
<1>1. OriginIsRecorded /\ ClientFieldsSurvive
  BY DEF IndInv, MetaIsFaithful, Faithful, IpsAreRight, OriginIsRecorded, ClientFieldsSurvive
<1>2. ASSUME NEW r \in Request, "issuer" \in DOMAIN meta[r] PROVE rows[r] # None
  <2>1. DOMAIN <<>> = {}
    OBVIOUS
  <2> QED
    BY <1>2, <2>1 DEF IndInv, NoRowNoMeta
<1>3. IssuerIsVouched
  BY <1>2 DEF IndInv, MetaIsFaithful, Faithful, IssuersAreRight, IssuerIsVouched, Get
<1> QED
  BY <1>1, <1>3

\* The record of an upload decides as its request does which age it has.
LEMMA AgeIsEntitled ==
  ASSUME IndInv, NEW r \in Request, rows[r] # None, ~NamesItsAccount(sent[r])
  PROVE  AgeLimit(rows[r]) = EntitledAge(sent[r])
<1>1. /\ rows[r].account = IF Get(meta[r], "account") = Empty THEN None
                           ELSE Get(meta[r], "account")
      /\ Get(meta[r], "account")
           = IF Vouched(sent[r]) THEN Claims[TokenOf(sent[r])].account
             ELSE Get(ParseMeta(sent[r].header), "account")
  BY DEF IndInv, AccountsAreRight, MetaIsFaithful, Faithful
<1>2. CASE Vouched(sent[r]) /\ Claims[TokenOf(sent[r])].account # Empty
  <2>1. rows[r].account # None
    BY <1>1, <1>2 DEF Vouched
  <2> QED
    BY <1>2, <2>1 DEF AgeLimit, EntitledAge
<1>3. CASE ~(Vouched(sent[r]) /\ Claims[TokenOf(sent[r])].account # Empty)
  <2>1. rows[r].account = None
    BY <1>1, <1>3 DEF NamesItsAccount
  <2> QED
    BY <1>3, <2>1 DEF AgeLimit, EntitledAge
<1> QED
  BY <1>2, <1>3

LEMMA TerminateWaits ==
  ASSUME IndInv, NEW r \in Request, Terminate(r), ~NamesItsAccount(sent[r])
  PROVE  now - rows[r].created >= EntitledAge(sent[r])
<1>1. /\ rows[r] \in Row /\ rows[r] # None
      /\ now >= rows[r].created + AgeLimit(rows[r])
  BY DEF IndInv, TypeOK, Terminate
<1>2. /\ now \in Nat /\ rows[r].created \in Nat
      /\ AgeLimit(rows[r]) \in Nat
  BY <1>1, MetadataAssumption DEF MetadataAssumption, IndInv, TypeOK, Row, AgeLimit
<1>3. AgeLimit(rows[r]) = EntitledAge(sent[r])
  BY <1>1, AgeIsEntitled
<1> QED
  BY <1>1, <1>2, <1>3

LEMMA OnlyTerminateTerminates ==
  ASSUME IndInv, [Next]_vars, NEW r \in terminated' \ terminated
  PROVE  r \in Request /\ Terminate(r)
<1>1. ASSUME NEW s \in Request, Terminate(s) PROVE r = s
  BY <1>1 DEF Terminate
<1>2. ASSUME ~\E s \in Request : Terminate(s) PROVE terminated' = terminated
  BY <1>2 DEF Next, PostFile, Refuse, Create, Announce, Listen, TakeEvent, Record,
              RecordIP, RecordFails, Tick, vars
<1> QED
  BY <1>1, <1>2

(*****************************************************************************)
(* The theorems                                                              *)
(*****************************************************************************)

\* What the handlers know of an upload agrees with the request that made it, at
\* every moment (tushandlers.go, NewUpload, ipRecorder).
THEOREM Invariant == Spec => []IndInv
<1>1. Init => IndInv
  BY InitEstablishes
<1>2. IndInv /\ [Next]_vars => IndInv'
  BY NextPreserves
<1> QED
  BY <1>1, <1>2, PTL DEF Spec

\* Type correctness; stored metadata has no field without a value (parseMeta).
THEOREM Typed == Spec => []TypeOK
<1>1. IndInv => TypeOK
  BY DEF IndInv
<1> QED
  BY <1>1, Invariant, PTL

\* No header makes an upload's address differ from that of the request's origin,
\* in .info or in the record (addRemoteIPToMetadata, ipRecorder).
THEOREM OriginsAreRecorded == Spec => []OriginIsRecorded
<1>1. IndInv => OriginIsRecorded
  BY InvariantImplies
<1> QED
  BY <1>1, Invariant, PTL

\* An upload with an issuer was sent with a valid token of that issuer, and has
\* the account the token names (processJwt, NewUpload).
THEOREM IssuersAreVouched == Spec => []IssuerIsVouched
<1>1. IndInv => IssuerIsVouched
  BY InvariantImplies
<1> QED
  BY <1>1, Invariant, PTL

\* The client's own fields pass both rewritings of the header unchanged
\* (parseMeta, serializeMeta).
THEOREM FieldsSurvive == Spec => []ClientFieldsSurvive
<1>1. IndInv => ClientFieldsSurvive
  BY InvariantImplies
<1> QED
  BY <1>1, Invariant, PTL

\* Whatever the header contains, an upload expires at the age of identified users
\* if its token vouches for an account, at the ordinary age if not, unless the
\* client named an account itself (NewUpload, getExpired).
THEOREM AgesAreLived == Spec => LivesItsAge
<1>1. IndInv => \A r \in Request : rows[r] # None /\ ~NamesItsAccount(sent[r])
                                   => AgeLimit(rows[r]) = EntitledAge(sent[r])
  BY AgeIsEntitled
<1>2. IndInv /\ [Next]_vars =>
        [\A r \in terminated' \ terminated :
           ~NamesItsAccount(sent[r]) => now - rows[r].created >= EntitledAge(sent[r])]_vars
  BY OnlyTerminateTerminates, TerminateWaits
<1> QED
  BY <1>1, <1>2, Invariant, PTL DEF Spec, LivesItsAge
================================================================================
