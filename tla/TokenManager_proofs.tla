-------------------------- MODULE TokenManager_proofs ---------------------------
(*****************************************************************************)
(* Proofs about TokenManager, for any number of networks, uploads and time   *)
(* limits: every network that is loading has its request, and no upload      *)
(* starts with a token that is too old.                                      *)
(*****************************************************************************)
EXTENDS TokenManager, TLAPS

Steps == {"idle", "waiting", "again", "attach", "started", "failed"}
CallType == [at : Steps, nets : SUBSET Network, waiting : SUBSET Network, late : BOOLEAN,
             carries : {Never} \union UNION {Carried(S) : S \in SUBSET Network}]

Shape(r) == /\ r.waiting \subseteq r.nets
            /\ r.waiting # {} <=> r.at = "waiting"
            /\ IF r.at = "started" THEN r.carries \in Carried(r.nets) ELSE r.carries = Never

CacheTypes == /\ tokenAge \in [Network -> 0 .. Validity + 1 \union {Never}]
              /\ unsupported \in [Network -> 0 .. UnsupportedTTL \union {Never}]
              /\ owed \in [Network -> 0 .. MaxOwed]

CallTypes == call \in [Call -> CallType] /\ \A c \in Call : Shape(call[c])

RequestTypes == loading \subseteq Network /\ requests \in [Network -> Seq(0 .. Timeout)]

\* The first loop of handleBeforeUpload has found a token or none for every
\* network, and until the second loop only the clock can change that.
ReadyToAttach == \A c \in Call : call[c].at = "attach" /\ ~call[c].late =>
                                   Promised(call[c].nets) = {}

IndInv == /\ CacheTypes /\ RequestTypes /\ CallTypes
          /\ EveryLoadHasItsRequest /\ UploadsCarryTokens /\ ReadyToAttach

LEMMA IndInvInit == Init => IndInv
<1> SUFFICES ASSUME Init PROVE IndInv
  OBVIOUS
<1> USE TokenAssumption
<1>1. CacheTypes /\ RequestTypes
  BY DEF Init, CacheTypes, RequestTypes
<1>2. Idle \in CallType /\ Shape(Idle)
  BY DEF Idle, CallType, Steps, Shape
<1>3. CallTypes
  BY <1>2 DEF Init, CallTypes
<1>4. EveryLoadHasItsRequest
  BY DEF Init, EveryLoadHasItsRequest, Idle
<1>5. UploadsCarryTokens /\ ReadyToAttach
  BY DEF Init, UploadsCarryTokens, ReadyToAttach, Idle
<1> QED BY <1>1, <1>3, <1>4, <1>5 DEF IndInv

\* Load leaves one request for every network it is called with and for every
\* network that was loading.
LEMMA LoadKeeps ==
  ASSUME RequestTypes, owed \in [Network -> 0 .. MaxOwed],
         \A n \in Network : Len(requests[n]) = IF n \in loading THEN 1 ELSE 0,
         NEW S \in SUBSET Network, Load(S)
  PROVE  /\ RequestTypes' /\ owed' \in [Network -> 0 .. MaxOwed]
         /\ \A n \in Network : Len(requests'[n]) = IF n \in loading' THEN 1 ELSE 0
         /\ loading' = loading \union S
<1> USE TokenAssumption
<1> DEFINE asked == {n \in S : NotLoading(n)}
<1>1. /\ loading' = loading \union asked
      /\ requests' = [n \in Network |-> IF n \in asked THEN Append(requests[n], 0)
                                        ELSE requests[n]]
      /\ owed' = [n \in Network |-> IF n \in asked /\ owed[n] < MaxOwed
                                    THEN owed[n] + 1 ELSE owed[n]]
  BY DEF Load
<1>2. asked = S \ loading
  BY DEF NotLoading
<1> HIDE DEF asked
<1>3. loading' = loading \union S
  BY <1>1, <1>2
<1>4. ASSUME NEW n \in Network
      PROVE  /\ requests'[n] \in Seq(0 .. Timeout)
             /\ Len(requests'[n]) = IF n \in loading' THEN 1 ELSE 0
  <2>1. requests[n] \in Seq(0 .. Timeout) /\ 0 \in 0 .. Timeout
    BY DEF RequestTypes
  <2>2. CASE n \in asked
    BY <1>1, <1>2, <2>1, <2>2
  <2>3. CASE n \notin asked
    BY <1>1, <1>2, <2>1, <2>3
  <2> QED BY <2>2, <2>3
<1>5. owed' \in [Network -> 0 .. MaxOwed]
  BY <1>1
<1>6. RequestTypes'
  BY <1>1, <1>2, <1>4 DEF RequestTypes
<1> QED BY <1>3, <1>4, <1>5, <1>6

\* What get returns depends on the tokens and the networks known not to have any.
LEMMA SameCacheSamePromises ==
  ASSUME UNCHANGED <<tokenAge, unsupported>>, NEW c
  PROVE  Promised(call[c].nets)' = Promised(call'[c].nets)
BY DEF Promised, Get, KnownUnsupported, HasToken

\* The first loop, for an upload that is not waiting for anything.
LEMMA AcquireStep ==
  ASSUME IndInv, NEW c \in Call, NEW nets \in SUBSET Network, AcquireTokens(c, nets)
  PROVE  IndInv'
<1> USE TokenAssumption
<1> DEFINE waiting == Promised(nets)
           r == [Idle EXCEPT !.at = IF waiting = {} THEN "attach" ELSE "waiting",
                             !.nets = nets, !.waiting = waiting]
<1>1. /\ waiting \in SUBSET Network /\ waiting \subseteq nets
      /\ Load(waiting)
      /\ call' = [call EXCEPT ![c] = r]
      /\ UNCHANGED <<tokenAge, unsupported>>
  BY DEF AcquireTokens, Promised
<1>2. call'[c] = r /\ \A d \in Call \ {c} : call'[d] = call[d]
  BY <1>1 DEF IndInv, CallTypes
<1>3. /\ RequestTypes' /\ owed' \in [Network -> 0 .. MaxOwed]
      /\ \A n \in Network : Len(requests'[n]) = IF n \in loading' THEN 1 ELSE 0
      /\ loading' = loading \union waiting
  <2> HIDE DEF waiting
  <2>1. RequestTypes /\ owed \in [Network -> 0 .. MaxOwed]
        /\ \A n \in Network : Len(requests[n]) = IF n \in loading THEN 1 ELSE 0
    BY DEF IndInv, CacheTypes, EveryLoadHasItsRequest
  <2> QED BY <1>1, <2>1, LoadKeeps
<1>4. /\ r.at = IF waiting = {} THEN "attach" ELSE "waiting"
      /\ r.nets = nets /\ r.waiting = waiting /\ r.late = FALSE /\ r.carries = Never
      /\ r \in CallType
  BY <1>1 DEF Idle, CallType, Steps
<1>5. Shape(r)
  BY <1>1, <1>4 DEF Shape
<1> HIDE DEF r, waiting
<1>7. CacheTypes'
  BY <1>1, <1>3 DEF IndInv, CacheTypes
<1>8. CallTypes'
  BY <1>1, <1>2, <1>4, <1>5 DEF IndInv, CallTypes
<1>9. EveryLoadHasItsRequest'
  BY <1>1, <1>2, <1>3, <1>4 DEF IndInv, EveryLoadHasItsRequest
<1>10. UploadsCarryTokens'
  BY <1>2, <1>4 DEF IndInv, UploadsCarryTokens
<1>11. ReadyToAttach'
  <2> SUFFICES ASSUME NEW d \in Call, call'[d].at = "attach", ~call'[d].late
               PROVE  Promised(call[d].nets)' = {}
    BY DEF ReadyToAttach
  <2>1. Promised(call[d].nets)' = Promised(call'[d].nets)
    BY <1>1, SameCacheSamePromises
  <2>2. CASE d = c
    BY <1>2, <1>4, <2>1, <2>2 DEF waiting
  <2>3. CASE d # c
    BY <1>2, <2>1, <2>3 DEF IndInv, ReadyToAttach
  <2> QED BY <2>2, <2>3
<1> QED BY <1>3, <1>7, <1>8, <1>9, <1>10, <1>11 DEF IndInv

\* The second loop: what an upload carries was in the cache when it was read.
LEMMA AttachStep ==
  ASSUME IndInv, NEW c \in Call, AttachTokens(c)
  PROVE  IndInv'
<1> USE TokenAssumption
<1> DEFINE nets == call[c].nets
           carries == [n \in nets |->
             [kind |-> Get(n), age |-> IF Get(n) = "token" THEN tokenAge[n] ELSE 0]]
           r == [call[c] EXCEPT !.at = "started", !.carries = carries]
<1>1. /\ call[c].at = "attach" /\ Load(Promised(nets))
      /\ call' = [call EXCEPT ![c] = r]
      /\ UNCHANGED <<tokenAge, unsupported>>
  BY DEF AttachTokens, IndInv, CallTypes
<1>2. call[c] \in CallType /\ Shape(call[c])
  BY DEF IndInv, CallTypes
<1>3. nets \in SUBSET Network /\ call[c].waiting = {}
  BY <1>1, <1>2 DEF CallType, Shape
<1>4. ASSUME NEW n \in nets
      PROVE  /\ carries[n].kind \in {"none", "token", "promise"}
             /\ carries[n].age \in Nat /\ carries[n].age <= Validity
             /\ carries[n].kind = "promise" => n \in Promised(nets)
  <2>1. Get(n) = "token" => tokenAge[n] \in 0 .. Validity
    BY <1>3, <1>4 DEF Get, HasToken, IsValid, IndInv, CacheTypes
  <2> QED BY <1>3, <1>4, <2>1 DEF Get, Promised
<1>5. carries \in Carried(nets)
  BY <1>4 DEF Carried
<1>6. Promised(nets) \in SUBSET Network
  BY <1>3 DEF Promised
<1>7. call'[c] = r /\ \A d \in Call \ {c} : call'[d] = call[d]
  BY <1>1 DEF IndInv, CallTypes
<1>8. /\ r.at = "started" /\ r.nets = nets /\ r.waiting = {} /\ r.late = call[c].late
      /\ r.carries = carries
  BY <1>2, <1>3 DEF CallType
<1>9. r \in CallType
  <2> HIDE DEF carries
  <2>1. carries \in {Never} \union UNION {Carried(S) : S \in SUBSET Network}
    BY <1>3, <1>5
  <2> QED BY <1>2, <2>1 DEF CallType, Steps
<1>10. Shape(r)
  BY <1>5, <1>8 DEF Shape
<1>11. ~call[c].late => Promised(nets) = {}
  BY <1>1 DEF IndInv, ReadyToAttach
<1> HIDE DEF r, carries, nets
<1>12. /\ RequestTypes' /\ owed' \in [Network -> 0 .. MaxOwed]
       /\ \A n \in Network : Len(requests'[n]) = IF n \in loading' THEN 1 ELSE 0
       /\ loading' = loading \union Promised(nets)
  <2>1. RequestTypes /\ owed \in [Network -> 0 .. MaxOwed]
        /\ \A n \in Network : Len(requests[n]) = IF n \in loading THEN 1 ELSE 0
    BY DEF IndInv, CacheTypes, EveryLoadHasItsRequest
  <2> DEFINE S == Promised(nets)
  <2>2. S \in SUBSET Network /\ Load(S)
    BY <1>1, <1>6
  <2> HIDE DEF S
  <2>3. /\ RequestTypes' /\ owed' \in [Network -> 0 .. MaxOwed]
        /\ \A n \in Network : Len(requests'[n]) = IF n \in loading' THEN 1 ELSE 0
        /\ loading' = loading \union S
    BY <2>1, <2>2, LoadKeeps
  <2> QED BY <2>3 DEF S
<1>13. CacheTypes'
  BY <1>1, <1>12 DEF IndInv, CacheTypes
<1>14. CallTypes'
  BY <1>1, <1>7, <1>9, <1>10 DEF IndInv, CallTypes
<1>15. EveryLoadHasItsRequest'
  BY <1>7, <1>8, <1>12 DEF IndInv, EveryLoadHasItsRequest
<1>16. UploadsCarryTokens'
  <2> SUFFICES ASSUME NEW d \in Call, call'[d].at = "started", NEW n \in call'[d].nets
               PROVE  /\ call'[d].carries[n].age <= Validity
                      /\ call'[d].carries[n].kind = "promise" => call'[d].late
    BY DEF UploadsCarryTokens
  <2>1. CASE d = c
    BY <1>4, <1>7, <1>8, <1>11, <2>1 DEF carries
  <2>2. CASE d # c
    BY <1>7, <2>2 DEF IndInv, UploadsCarryTokens
  <2> QED BY <2>1, <2>2
<1>17. ReadyToAttach'
  <2> SUFFICES ASSUME NEW d \in Call, call'[d].at = "attach", ~call'[d].late
               PROVE  Promised(call[d].nets)' = {}
    BY DEF ReadyToAttach
  <2>1. Promised(call[d].nets)' = Promised(call'[d].nets)
    BY <1>1, SameCacheSamePromises
  <2>2. d # c
    BY <1>7, <1>8
  <2> QED BY <1>7, <2>1, <2>2 DEF IndInv, ReadyToAttach
<1> QED BY <1>12, <1>13, <1>14, <1>15, <1>16, <1>17 DEF IndInv

\* An answer or a timeout ends the one request of a network, its loading, and
\* the waiting of every upload for it.
LEMMA Settle ==
  ASSUME IndInv, BetweenTasks, NEW n \in Network,
         loading' = loading \ {n}, requests' = [requests EXCEPT ![n] = <<>>],
         call' = Fulfilled(n) \/ call' = Rejected(n)
  PROVE  /\ RequestTypes' /\ CallTypes' /\ EveryLoadHasItsRequest'
         /\ UploadsCarryTokens' /\ ReadyToAttach'
<1>1. ASSUME NEW c \in Call
      PROVE  /\ call'[c] \in CallType /\ Shape(call'[c])
             /\ call'[c].at # "attach"
             /\ call'[c].waiting \subseteq call[c].waiting \ {n}
             /\ call'[c].at = "started" => call'[c] = call[c]
  <2>1. call[c] \in CallType /\ Shape(call[c]) /\ call[c].at \notin {"again", "attach"}
    BY DEF IndInv, CallTypes, BetweenTasks
  <2>2. CASE n \notin call[c].waiting
    BY <2>1, <2>2 DEF Fulfilled, Rejected
  <2>3. CASE n \in call[c].waiting /\ call' = Fulfilled(n)
    <3>1. call'[c] = [call[c] EXCEPT !.waiting = @ \ {n},
                        !.at = IF call[c].waiting = {n} THEN "again" ELSE "waiting"]
      BY <2>3 DEF Fulfilled
    <3> DEFINE rest == call[c].waiting \ {n}
    <3>2. /\ call[c].at = "waiting" /\ call[c].waiting \subseteq call[c].nets
          /\ call[c].carries = Never
      BY <2>1, <2>3 DEF Shape
    <3>3. rest \in SUBSET Network /\ (rest = {} <=> call[c].waiting = {n})
      BY <2>1, <2>3 DEF CallType
    <3> HIDE DEF rest
    <3>4. /\ call'[c] \in CallType /\ call'[c].waiting = rest
          /\ call'[c].at = (IF rest = {} THEN "again" ELSE "waiting")
          /\ call'[c].nets = call[c].nets /\ call'[c].carries = Never
      BY <2>1, <3>1, <3>2, <3>3 DEF CallType, Steps, rest
    <3> QED BY <3>2, <3>3, <3>4 DEF Shape, rest
  <2>4. CASE n \in call[c].waiting /\ call' = Rejected(n)
    <3>1. call'[c] = [call[c] EXCEPT !.waiting = {}, !.at = "failed"]
      BY <2>4 DEF Rejected
    <3> QED BY <2>1, <2>4, <3>1 DEF CallType, Shape, Steps
  <2> QED BY <2>2, <2>3, <2>4
<1>2. RequestTypes'
  BY DEF IndInv, RequestTypes
<1>3. CallTypes'
  BY <1>1 DEF CallTypes, Fulfilled, Rejected
<1>4. EveryLoadHasItsRequest'
  BY <1>1 DEF IndInv, EveryLoadHasItsRequest, RequestTypes
<1>5. UploadsCarryTokens'
  BY <1>1 DEF IndInv, UploadsCarryTokens
<1>6. ReadyToAttach'
  BY <1>1 DEF ReadyToAttach
<1> QED BY <1>2, <1>3, <1>4, <1>5, <1>6

\* An answer nobody waits for, or to a request that has timed out.
LEMMA NotAwaited ==
  ASSUME IndInv, BetweenTasks, NEW n \in Network, requests[n] = <<>>,
         requests' = [requests EXCEPT ![n] = <<>>], UNCHANGED <<loading, call>>
  PROVE  /\ RequestTypes' /\ CallTypes' /\ EveryLoadHasItsRequest'
         /\ UploadsCarryTokens' /\ ReadyToAttach'
<1>1. requests' = requests
  BY DEF IndInv, RequestTypes
<1> QED BY <1>1 DEF IndInv, RequestTypes, CallTypes, EveryLoadHasItsRequest,
                    UploadsCarryTokens, ReadyToAttach, BetweenTasks

LEMMA AnswerStep ==
  ASSUME IndInv, NEW n \in Network, TokenArrives(n) \/ UnknownCommand(n)
  PROVE  IndInv'
<1> USE TokenAssumption
<1>1. /\ BetweenTasks /\ owed[n] > 0 /\ owed' = [owed EXCEPT ![n] = @ - 1]
      /\ requests' = [requests EXCEPT ![n] = <<>>]
  BY DEF TokenArrives, UnknownCommand, Answer
<1>2. CacheTypes'
  <2>1. owed' \in [Network -> 0 .. MaxOwed]
    BY <1>1 DEF IndInv, CacheTypes
  <2>2. tokenAge' = tokenAge \/ tokenAge' = [tokenAge EXCEPT ![n] = 0]
    BY DEF TokenArrives, UnknownCommand
  <2>3. unsupported' = unsupported \/ unsupported' = [unsupported EXCEPT ![n] = 0]
    BY DEF TokenArrives, UnknownCommand
  <2> QED BY <2>1, <2>2, <2>3 DEF IndInv, CacheTypes
<1>3. /\ RequestTypes' /\ CallTypes' /\ EveryLoadHasItsRequest'
      /\ UploadsCarryTokens' /\ ReadyToAttach'
  <2>1. CASE requests[n] = <<>>
    BY <1>1, <2>1, NotAwaited DEF TokenArrives, UnknownCommand
  <2>2. CASE requests[n] # <<>>
    BY <1>1, <2>2, Settle DEF TokenArrives, UnknownCommand, AfterRejection
  <2> QED BY <2>1, <2>2
<1> QED BY <1>2, <1>3 DEF IndInv

LEMMA TimeoutStep ==
  ASSUME IndInv, NEW n \in Network, TimeoutExpires(n)
  PROVE  IndInv'
<1>1. Tail(requests[n]) = <<>>
  <2>1. requests[n] \in Seq(0 .. Timeout) /\ Len(requests[n]) <= 1 /\ requests[n] # <<>>
    BY DEF TimeoutExpires, IndInv, RequestTypes, EveryLoadHasItsRequest
  <2> QED BY <2>1
<1>2. /\ RequestTypes' /\ CallTypes' /\ EveryLoadHasItsRequest'
      /\ UploadsCarryTokens' /\ ReadyToAttach'
  <2>1. requests' = [requests EXCEPT ![n] = <<>>]
    BY <1>1 DEF TimeoutExpires
  <2> QED BY <2>1, Settle DEF TimeoutExpires, AfterRejection
<1>3. CacheTypes'
  BY DEF TimeoutExpires, IndInv, CacheTypes
<1> QED BY <1>2, <1>3 DEF IndInv

\* The clock makes nobody wait, and uploads between their two loops late.
LEMMA TickStep ==
  ASSUME IndInv, Tick
  PROVE  IndInv'
<1> USE TokenAssumption
<1>1. ASSUME NEW n \in Network
      PROVE  /\ requests'[n] \in Seq(0 .. Timeout) /\ Len(requests'[n]) = Len(requests[n])
  <2>1. /\ requests[n] \in Seq(0 .. Timeout)
        /\ \A i \in DOMAIN requests[n] : requests[n][i] < Timeout
        /\ requests'[n] = [i \in DOMAIN requests[n] |-> requests[n][i] + 1]
    BY DEF Tick, IndInv, RequestTypes
  <2>2. /\ DOMAIN requests[n] = 1 .. Len(requests[n]) /\ Len(requests[n]) \in Nat
        /\ \A i \in DOMAIN requests[n] : requests[n][i] \in 0 .. Timeout
    BY <2>1
  <2>3. requests'[n] \in [1 .. Len(requests[n]) -> 0 .. Timeout]
    BY <2>1, <2>2
  <2> QED BY <2>2, <2>3
<1>2. RequestTypes'
  BY <1>1 DEF Tick, IndInv, RequestTypes
<1>3. ASSUME NEW c \in Call
      PROVE  /\ call'[c] \in CallType /\ Shape(call'[c]) /\ call'[c].at = call[c].at
             /\ call'[c].nets = call[c].nets /\ call'[c].waiting = call[c].waiting
             /\ call'[c].carries = call[c].carries
             /\ call'[c].late = (call[c].late \/ call[c].at = "attach")
  <2>1. call[c] \in CallType /\ Shape(call[c])
    BY DEF IndInv, CallTypes
  <2>2. call'[c] = [call[c] EXCEPT !.late = call[c].late \/ call[c].at = "attach"]
    BY DEF Tick
  <2>3. (call[c].late \/ call[c].at = "attach") \in BOOLEAN
    OBVIOUS
  <2>4. /\ call'[c] \in CallType /\ call'[c].at = call[c].at
        /\ call'[c].nets = call[c].nets /\ call'[c].waiting = call[c].waiting
        /\ call'[c].carries = call[c].carries
        /\ call'[c].late = (call[c].late \/ call[c].at = "attach")
    BY <2>1, <2>2, <2>3 DEF CallType
  <2> QED BY <2>1, <2>4 DEF Shape
<1>4. CallTypes'
  BY <1>3 DEF Tick, CallTypes
<1>5. CacheTypes'
  <2>1. ASSUME NEW n \in Network
        PROVE  /\ Older(tokenAge[n], Validity) \in 0 .. Validity + 1 \union {Never}
               /\ Older(unsupported[n], UnsupportedTTL - 1) \in 0 .. UnsupportedTTL \union {Never}
    BY DEF Older, IndInv, CacheTypes
  <2> QED BY <2>1 DEF Tick, IndInv, CacheTypes
<1>6. EveryLoadHasItsRequest'
  BY <1>1, <1>3 DEF Tick, IndInv, EveryLoadHasItsRequest
<1>7. UploadsCarryTokens'
  BY <1>3 DEF IndInv, UploadsCarryTokens
<1>8. ReadyToAttach'
  BY <1>3 DEF ReadyToAttach
<1> QED BY <1>2, <1>4, <1>5, <1>6, <1>7, <1>8 DEF IndInv

LEMMA IndInvNext == IndInv /\ [Next]_vars => IndInv'
<1> SUFFICES ASSUME IndInv, [Next]_vars PROVE IndInv'
  OBVIOUS
<1>1. ASSUME NEW c \in Call, Upload(c) PROVE IndInv'
  BY <1>1, AcquireStep DEF Upload
<1>2. ASSUME NEW c \in Call, React(c) PROVE IndInv'
  BY <1>2, AcquireStep, AttachStep DEF React, Restart
<1>3. ASSUME NEW n \in Network, TokenArrives(n) \/ UnknownCommand(n) PROVE IndInv'
  BY <1>3, AnswerStep
<1>4. ASSUME NEW n \in Network, TimeoutExpires(n) PROVE IndInv'
  BY <1>4, TimeoutStep
<1>5. CASE Tick
  BY <1>5, TickStep
<1>6. CASE UNCHANGED vars
  BY <1>6 DEF vars, IndInv, CacheTypes, RequestTypes, CallTypes, EveryLoadHasItsRequest,
              UploadsCarryTokens, ReadyToAttach, Promised, Get, KnownUnsupported, HasToken
<1> QED BY <1>1, <1>2, <1>3, <1>4, <1>5, <1>6 DEF Next

\* The invariant holds in every behaviour.
THEOREM Invariant == Spec => []IndInv
<1>1. Init => IndInv
  BY IndInvInit
<1> QED BY <1>1, IndInvNext, PTL DEF Spec

\* The variables keep their types, and a call waits just when it is waiting.
THEOREM Typed == Spec => []TypeOK
<1>1. IndInv => TypeOK
  <2> SUFFICES ASSUME IndInv PROVE TypeOK
    OBVIOUS
  <2>1. DOMAIN call = Call
    BY DEF IndInv, CallTypes
  <2>2. ASSUME NEW c \in Call
        PROVE  /\ DOMAIN call[c] = DOMAIN Idle /\ call[c].at \in Steps
               /\ call[c].nets \subseteq Network /\ call[c].late \in BOOLEAN /\ Shape(call[c])
    BY DEF IndInv, CallTypes, CallType, Idle
  <2> QED BY <2>1, <2>2 DEF TypeOK, IndInv, CacheTypes, RequestTypes, Shape, Steps
<1> QED BY <1>1, Invariant, PTL

\* A network is loading just as long as one request for it waits, and nobody
\* waits for a network that is not loading, whichever way requests end.
THEOREM LoadsHaveRequests == Spec => []EveryLoadHasItsRequest
<1>1. IndInv => EveryLoadHasItsRequest
  BY DEF IndInv
<1> QED BY <1>1, Invariant, PTL

\* No upload carries a token older than the limit, or a promise unless the clock
\* has moved between the two reads of the cache.
THEOREM TokensAreCarried == Spec => []UploadsCarryTokens
<1>1. IndInv => UploadsCarryTokens
  BY DEF IndInv
<1> QED BY <1>1, Invariant, PTL
================================================================================
