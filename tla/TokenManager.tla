----------------------------- MODULE TokenManager ------------------------------
(*****************************************************************************)
(* The plugin's EXTJWT tokens: cache-loader.js and token-manager.js keep one *)
(* token per IRC network, and acquire-extjwt-before-upload.js lets an upload *)
(* start once every network its files go to has one.                         *)
(*                                                                           *)
(* JavaScript runs one task at a time and every promise reaction before the  *)
(* next one, so an action is a task: a click, a message of the IRC server, a *)
(* timer.  The reactions that restart an upload, and the second half of      *)
(* handleBeforeUpload, are actions of their own because the clock may move   *)
(* before them; no other task can.  Time is counted in steps of 5 seconds,   *)
(* ages stop growing where nothing depends on them any more.                 *)
(*****************************************************************************)
EXTENDS Integers, Sequences, FiniteSets

CONSTANTS
  Network,         \* IRC networks
  Call,            \* clicks on upload; a call restarts until it starts or fails
  Validity,        \* a token is valid up to this age (15 seconds)
  Timeout,         \* awaitMessage gives up after this time (10 seconds)
  UnsupportedTTL,  \* a network is not asked again for this time (5 minutes)
  MaxOwed,         \* bound on the answers a network may still owe
  Never            \* no such value

ASSUME TokenAssumption ==
  /\ Validity \in Nat /\ Timeout \in Nat \ {0} /\ UnsupportedTTL \in Nat \ {0}
  /\ MaxOwed \in Nat \ {0} /\ Never \notin Nat

VARIABLES
  tokenAge,    \* CacheLoader.cache: the age of the token, or Never
  loading,     \* CacheLoader.loading: networks with a promise of a token
  requests,    \* awaitMessage's listeners, each as the age of its timer
  unsupported, \* unsupportedNetworks: time since the 421, or Never
  owed,        \* EXTJWT commands the network has not answered yet
  call         \* what each call of handleBeforeUpload is doing

vars == <<tokenAge, loading, requests, unsupported, owed, call>>

Idle == [at |-> "idle", nets |-> {}, waiting |-> {}, late |-> FALSE, carries |-> Never]

Init == /\ tokenAge = [n \in Network |-> Never]
        /\ loading = {}
        /\ requests = [n \in Network |-> <<>>]
        /\ unsupported = [n \in Network |-> Never]
        /\ owed = [n \in Network |-> 0]
        /\ call = [c \in Call |-> Idle]

(*****************************************************************************)
(* TokenManager.get and CacheLoader.get                                      *)
(*****************************************************************************)
KnownUnsupported(n) == unsupported[n] # Never /\ unsupported[n] < UnsupportedTTL

\* (variant: assertValid accepts everything)
IsValid_Always(age) == TRUE

IsValid(age) == age <= Validity

HasToken(n) == tokenAge[n] # Never /\ IsValid(tokenAge[n])

\* What get returns at once: false, a token, or a promise of one.
Get(n) == IF KnownUnsupported(n) THEN "none"
          ELSE IF HasToken(n) THEN "token" ELSE "promise"

\* (variant: load does not look whether the network is loading)
NotLoading_Ignored(n) == TRUE

NotLoading(n) == n \notin loading

\* load for every network of S that get has no answer for.
Load(S) ==
  LET asked == {n \in S : NotLoading(n)}
  IN  /\ loading' = loading \union asked
      /\ requests' = [n \in Network |-> IF n \in asked THEN Append(requests[n], 0)
                                        ELSE requests[n]]
      /\ owed' = [n \in Network |-> IF n \in asked /\ owed[n] < MaxOwed
                                    THEN owed[n] + 1 ELSE owed[n]]

(*****************************************************************************)
(* handleBeforeUpload                                                        *)
(*****************************************************************************)
Promised(S) == {n \in S : Get(n) = "promise"}

\* The first loop: cancel the upload and wait, or go on.
AcquireTokens(c, nets) ==
  LET waiting == Promised(nets)
  IN  /\ Load(waiting)
      /\ call' = [call EXCEPT ![c] = [Idle EXCEPT
                    !.at = IF waiting = {} THEN "attach" ELSE "waiting",
                    !.nets = nets, !.waiting = waiting]]
      /\ UNCHANGED <<tokenAge, unsupported>>

\* No promise reaction is left, so the next task may begin.
BetweenTasks == \A c \in Call : call[c].at \notin {"again", "attach"}

Upload(c) ==
  /\ BetweenTasks /\ call[c].at = "idle"
  /\ \E nets \in SUBSET Network \ {{}} : AcquireTokens(c, nets)

\* Promise.all has every token: uppy.upload() runs the handler again, with the
\* files there are by now; the user may have added some and removed others.
Restart(c) == /\ call[c].at = "again"
              /\ \E nets \in SUBSET Network : AcquireTokens(c, nets)

\* The second loop: the tokens are read once more and attached to the files.
AttachTokens(c) ==
  /\ call[c].at = "attach"
  /\ LET nets == call[c].nets
     IN  /\ Load(Promised(nets))
         /\ call' = [call EXCEPT
              ![c].at = "started",
              ![c].carries = [n \in nets |->
                 [kind |-> Get(n), age |-> IF Get(n) = "token" THEN tokenAge[n] ELSE 0]]]
  /\ UNCHANGED <<tokenAge, unsupported>>

(*****************************************************************************)
(* requestToken: the answer and the timeout                                  *)
(*****************************************************************************)

\* The promises of n are fulfilled, with a token or with false.
Fulfilled(n) ==
  [c \in Call |->
     IF n \notin call[c].waiting THEN call[c]
     ELSE [call[c] EXCEPT !.waiting = @ \ {n},
                          !.at = IF call[c].waiting = {n} THEN "again" ELSE "waiting"]]

\* (variant: the rejected call still waits for the other networks)
Rejected_KeepsWaiting(n) ==
  [c \in Call |-> IF n \notin call[c].waiting THEN call[c]
                  ELSE [call[c] EXCEPT !.waiting = @ \ {n}, !.at = "failed"]]

\* Promise.all rejects with the first of its promises.
Rejected(n) ==
  [c \in Call |-> IF n \notin call[c].waiting THEN call[c]
                  ELSE [call[c] EXCEPT !.waiting = {}, !.at = "failed"]]

\* (variant: loading.delete is not in a finally block)
AfterRejection_StaysLoading(n) == loading

AfterRejection(n) == loading \ {n}

Answer(n) ==
  /\ BetweenTasks /\ owed[n] > 0
  /\ owed' = [owed EXCEPT ![n] = @ - 1]
  /\ requests' = [requests EXCEPT ![n] = <<>>]

\* A late answer of an earlier request serves the one that waits now.
TokenArrives(n) ==
  /\ Answer(n)
  /\ IF requests[n] = <<>> THEN UNCHANGED <<tokenAge, loading, call>>
     ELSE /\ tokenAge' = [tokenAge EXCEPT ![n] = 0]
          /\ loading' = loading \ {n}
          /\ call' = Fulfilled(n)
  /\ UNCHANGED unsupported

\* 421 EXTJWT: requestToken rejects, TokenManager.get turns that into false.
UnknownCommand(n) ==
  /\ Answer(n)
  /\ IF requests[n] = <<>> THEN UNCHANGED <<unsupported, loading, call>>
     ELSE /\ unsupported' = [unsupported EXCEPT ![n] = 0]
          /\ loading' = AfterRejection(n)
          /\ call' = Fulfilled(n)
  /\ UNCHANGED tokenAge

\* (variant: awaitMessage is called without a timeout)
Due_Never(age) == FALSE

Due(age) == age = Timeout

TimeoutExpires(n) ==
  /\ BetweenTasks
  /\ requests[n] # <<>> /\ Due(Head(requests[n]))
  /\ requests' = [requests EXCEPT ![n] = Tail(@)]
  /\ loading' = AfterRejection(n)
  /\ call' = Rejected(n)
  /\ UNCHANGED <<tokenAge, unsupported, owed>>

(*****************************************************************************)
(* Time.  A timer fires before the clock moves past it.                      *)
(*****************************************************************************)
Older(age, limit) == IF age = Never \/ age > limit THEN age ELSE age + 1

Tick ==
  /\ \A c \in Call : call[c].at # "again"
  /\ \A n \in Network : \A i \in DOMAIN requests[n] : requests[n][i] < Timeout
  /\ tokenAge' = [n \in Network |-> Older(tokenAge[n], Validity)]
  /\ unsupported' = [n \in Network |-> Older(unsupported[n], UnsupportedTTL - 1)]
  /\ requests' = [n \in Network |-> [i \in DOMAIN requests[n] |-> requests[n][i] + 1]]
  /\ call' = [c \in Call |-> [call[c] EXCEPT !.late = @ \/ call[c].at = "attach"]]
  /\ UNCHANGED <<loading, owed>>

React(c) == Restart(c) \/ AttachTokens(c)

Next == \/ \E c \in Call : Upload(c) \/ React(c)
        \/ \E n \in Network : TokenArrives(n) \/ UnknownCommand(n) \/ TimeoutExpires(n)
        \/ Tick

Spec == Init /\ [][Next]_vars

\* Reactions and timers run; a network need not answer.
FairSpec == /\ Spec /\ WF_vars(Tick)
            /\ \A c \in Call : WF_vars(React(c))
            /\ \A n \in Network : WF_vars(TimeoutExpires(n))

(*****************************************************************************)
(* Properties                                                                *)
(*****************************************************************************)
Carried(nets) == [nets -> [kind : {"none", "token", "promise"}, age : Nat]]

\* The variables keep their types; a call waits for something just when it is
\* waiting.
TypeOK ==
  /\ tokenAge \in [Network -> 0 .. Validity + 1 \union {Never}]
  /\ loading \subseteq Network
  /\ requests \in [Network -> Seq(0 .. Timeout)]
  /\ unsupported \in [Network -> 0 .. UnsupportedTTL \union {Never}]
  /\ owed \in [Network -> 0 .. MaxOwed]
  /\ DOMAIN call = Call
  /\ \A c \in Call :
       /\ DOMAIN call[c] = DOMAIN Idle
       /\ call[c].at \in {"idle", "waiting", "again", "attach", "started", "failed"}
       /\ call[c].nets \subseteq Network /\ call[c].waiting \subseteq call[c].nets
       /\ call[c].waiting # {} <=> call[c].at = "waiting"
       /\ call[c].late \in BOOLEAN
       /\ IF call[c].at = "started" THEN call[c].carries \in Carried(call[c].nets)
          ELSE call[c].carries = Never

\* A network is marked as loading just as long as one request for it waits for
\* an answer or its timer, and every upload that waits for a network has such a
\* request: no upload waits for a promise that nobody will settle, whichever way
\* requests end and however late answers are (load, requestToken).
EveryLoadHasItsRequest ==
  /\ \A n \in Network : Len(requests[n]) = IF n \in loading THEN 1 ELSE 0
  /\ \A c \in Call : call[c].waiting \subseteq loading

\* An upload carries no token older than the limit, and a promise in place of a
\* token only when the clock passed the limit between the two reads of the cache
\* (handleBeforeUpload).
UploadsCarryTokens ==
  \A c \in Call : call[c].at = "started" =>
    \A n \in call[c].nets :
      /\ call[c].carries[n].age <= Validity
      /\ call[c].carries[n].kind = "promise" => call[c].late

\* An upload that waits for tokens starts or fails: the tokens of two networks
\* do not outlive each other in turn for ever (handleBeforeUpload).
UploadGetsGoing ==
  \A c \in Call : call[c].at = "waiting" ~> call[c].at \in {"started", "failed"}
================================================================================
