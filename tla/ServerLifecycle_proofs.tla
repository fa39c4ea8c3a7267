-------------------------- MODULE ServerLifecycle_proofs --------------------------
(*****************************************************************************)
(* Proofs about ServerLifecycle, for any number of signals and requests: no  *)
(* accepted SIGHUP is lost, and the instance the run loop waits on is open.  *)
(*****************************************************************************)
EXTENDS ServerLifecycle, TLAPS

(*****************************************************************************)
(* The inductive invariant                                                   *)
(*****************************************************************************)
One(P) == IF P THEN 1 ELSE 0

\* The SIGHUPs between Notify and the run loop.
Queued == One(signals = "HUP") + One(forwarding = "HUP") + One(reloadSignals)

\* Every instance after the first was made for a SIGHUP of its own.
Counted == current - 1 + Queued <= sent.HUP

\* An instance the loop has not started yet is untouched.
LaterAreFresh ==
  \A i \in Instance : i > current \/ (i = current /\ loop = "load")
    => servers[i] = Fresh

\* An instance that nobody has asked to shut down: once it has connected, its
\* database is open and its expirer runs.
Open(s) == /\ s.shut = "none" /\ ~s.quit
           /\ s.http # "closed" /\ s.run # "closed"
           /\ (s.run = "register" \/ s.started)
                => (s.db = "open" /\ s.gc \in {"wait", "run"})

RunningIsOpen == loop \in {"wait", "select"} => Open(servers[current])

SelectIsStarted == loop = "select" => servers[current].started

IndInv == /\ TypeOK
          /\ Counted
          /\ NoReloadIsLost
          /\ LaterAreFresh
          /\ RunningIsOpen
          /\ SelectIsStarted

LEMMA InitEstablishes == ASSUME Init PROVE IndInv
<1>1. TypeOK
  <2>1. Fresh \in ServerStates
    BY DEF Fresh, ServerStates
  <2>2. servers \in [Instance -> ServerStates]
    BY <2>1 DEF Init
  <2>3. sent \in [HUP : 0 .. MaxHups, TERM : 0 .. MaxTerms]
    BY LifecycleAssumption DEF LifecycleAssumption, Init
  <2>4. loaded \in 0 .. MaxHups /\ current \in Instance
    BY LifecycleAssumption DEF LifecycleAssumption, Init, Instance
  <2>5. requests \in [Instance -> 0 .. MaxRequests]
    BY LifecycleAssumption DEF LifecycleAssumption, Init
  <2> QED
    BY <2>2, <2>3, <2>4, <2>5 DEF Init, TypeOK, NoInstance
<1>2. Counted
  BY DEF Init, Counted, Queued, One
<1>3. NoReloadIsLost
  BY DEF Init, NoReloadIsLost
<1>4. LaterAreFresh
  BY DEF Init, LaterAreFresh
<1>5. RunningIsOpen /\ SelectIsStarted
  BY DEF Init, RunningIsOpen, SelectIsStarted
<1> QED
  BY <1>1, <1>2, <1>3, <1>4, <1>5 DEF IndInv

(*****************************************************************************)
(* Steps of one instance: they change its record, and neither the run loop   *)
(* nor the signals.  Such a step preserves the invariant when the instance   *)
(* has been started and the step does not close an instance that is open.    *)
(*****************************************************************************)
EntriesTyped == /\ process' \in {"up", "exited", "fatal", "panic"}
                /\ socket' \in Instance \union {NoInstance}
                /\ router' \in Instance \union {NoInstance}

LoopUnchanged == UNCHANGED <<mode, queues, loaded, loop, current>>

LEMMA InstanceStep ==
  ASSUME IndInv, LoopUnchanged, EntriesTyped,
         NEW i \in Instance, NEW s \in ServerStates,
         servers' = [servers EXCEPT ![i] = s],
         servers[i] # Fresh,
         Open(servers[i]) => Open(s),
         servers[i].started => s.started,
         requests' = requests
  PROVE  IndInv'
<1> USE DEF LoopUnchanged
<1>1. TypeOK'
  BY DEF IndInv, TypeOK, queues, EntriesTyped
<1>2. Counted' /\ NoReloadIsLost'
  BY DEF IndInv, Counted, Queued, NoReloadIsLost, Pending, queues
<1>3. LaterAreFresh'
  <2> SUFFICES ASSUME NEW j \in Instance, j > current \/ (j = current /\ loop = "load")
               PROVE  servers'[j] = Fresh
    BY DEF LaterAreFresh, Fresh
  <2>1. servers[j] = Fresh
    BY DEF IndInv, LaterAreFresh
  <2> QED
    BY <2>1 DEF IndInv, TypeOK
<1>4. RunningIsOpen' /\ SelectIsStarted'
  <2>1. CASE i = current
    BY <2>1 DEF IndInv, TypeOK, RunningIsOpen, SelectIsStarted
  <2>2. CASE i # current
    BY <2>2 DEF IndInv, TypeOK, RunningIsOpen, SelectIsStarted
  <2> QED
    BY <2>1, <2>2
<1> QED
  BY <1>1, <1>2, <1>3, <1>4 DEF IndInv

\* A step that leaves the instances and the run loop alone.
LEMMA OtherStep ==
  ASSUME IndInv, LoopUnchanged, EntriesTyped, servers' = servers,
         requests' \in [Instance -> 0 .. MaxRequests]
  PROVE  IndInv'
<1> USE DEF LoopUnchanged
<1>1. TypeOK'
  BY DEF IndInv, TypeOK, queues, EntriesTyped
<1>2. Counted' /\ NoReloadIsLost'
  BY DEF IndInv, Counted, Queued, NoReloadIsLost, Pending, queues
<1>3. LaterAreFresh' /\ RunningIsOpen' /\ SelectIsStarted'
  BY DEF IndInv, LaterAreFresh, Fresh, RunningIsOpen, Open, SelectIsStarted
<1> QED
  BY <1>1, <1>2, <1>3 DEF IndInv

(*****************************************************************************)
(* The records the actions write are states of an instance.                  *)
(*****************************************************************************)
LEMMA RecordsAreStates ==
  ASSUME NEW old \in ServerStates
  PROVE  /\ [old EXCEPT !.run = "register", !.db = "open", !.gc = "wait"] \in ServerStates
         /\ [old EXCEPT !.run = "assign", !.started = TRUE] \in ServerStates
         /\ [old EXCEPT !.run = "failed"] \in ServerStates
         /\ [old EXCEPT !.run = "returned"] \in ServerStates
         /\ [old EXCEPT !.run = "listen", !.http = "open"] \in ServerStates
         /\ [old EXCEPT !.run = "closed"] \in ServerStates
         /\ [old EXCEPT !.run = "serving"] \in ServerStates
         /\ [old EXCEPT !.shut = "stop"] \in ServerStates
         /\ [old EXCEPT !.shut = "drain", !.http = "closed"] \in ServerStates
         /\ \A tick \in BOOLEAN :
              [old EXCEPT !.shut = "close", !.quit = TRUE, !.tick = tick] \in ServerStates
         /\ [old EXCEPT !.shut = "done", !.db = "closed"] \in ServerStates
         /\ [old EXCEPT !.gc = "run", !.tick = FALSE] \in ServerStates
         /\ [old EXCEPT !.gc = "wait"] \in ServerStates
         /\ [old EXCEPT !.gc = "returned"] \in ServerStates
<1>1. [old EXCEPT !.run = "register", !.db = "open", !.gc = "wait"] \in ServerStates
  BY DEF ServerStates
<1>2. [old EXCEPT !.run = "assign", !.started = TRUE] \in ServerStates
  BY DEF ServerStates
<1>3. [old EXCEPT !.run = "failed"] \in ServerStates
  BY DEF ServerStates
<1>4. [old EXCEPT !.run = "returned"] \in ServerStates
  BY DEF ServerStates
<1>5. [old EXCEPT !.run = "listen", !.http = "open"] \in ServerStates
  BY DEF ServerStates
<1>6. [old EXCEPT !.run = "closed"] \in ServerStates
  BY DEF ServerStates
<1>7. [old EXCEPT !.run = "serving"] \in ServerStates
  BY DEF ServerStates
<1>8. [old EXCEPT !.shut = "stop"] \in ServerStates
  BY DEF ServerStates
<1>9. [old EXCEPT !.shut = "drain", !.http = "closed"] \in ServerStates
  BY DEF ServerStates
<1>10. ASSUME NEW tick \in BOOLEAN
      PROVE  [old EXCEPT !.shut = "close", !.quit = TRUE, !.tick = tick] \in ServerStates
  BY DEF ServerStates
<1>11. [old EXCEPT !.shut = "done", !.db = "closed"] \in ServerStates
  BY DEF ServerStates
<1>12. [old EXCEPT !.gc = "run", !.tick = FALSE] \in ServerStates
  BY DEF ServerStates
<1>13. [old EXCEPT !.gc = "wait"] \in ServerStates
  BY DEF ServerStates
<1>14. [old EXCEPT !.gc = "returned"] \in ServerStates
  BY DEF ServerStates
<1> QED
  BY <1>1, <1>2, <1>3, <1>4, <1>5, <1>6, <1>7, <1>8, <1>9, <1>10,
     <1>11, <1>12, <1>13, <1>14

LEMMA StepOfRun ==
  ASSUME IndInv, NEW i \in Instance, Run(i)
  PROVE  IndInv'
<1> PICK old \in ServerStates : old = servers[i]
  BY DEF IndInv, TypeOK
<1>1. CASE Connect(i)
  <2> DEFINE s == [old EXCEPT !.run = "register", !.db = "open", !.gc = "wait"]
  <2>1. s \in ServerStates
    BY RecordsAreStates
  <2>2. old.run = "connect"
    BY <1>1 DEF Connect
  <2>3. old # Fresh
    BY <2>2 DEF Fresh
  <2>4. (old.started => s.started) /\ (Open(old) => Open(s))
    BY <2>2 DEF ServerStates, Open
  <2>5. servers' = [servers EXCEPT ![i] = s] /\ LoopUnchanged /\ requests' = requests
    BY <1>1 DEF Connect, Server, LoopUnchanged, entries
  <2>6. EntriesTyped
    BY <1>1 DEF Connect, EntriesTyped, IndInv, TypeOK, entries
  <2> HIDE DEF s
  <2> QED
    BY <2>1, <2>3, <2>4, <2>5, <2>6, InstanceStep
<1>2. CASE RegisterTusHandlers(i)
  <2> DEFINE s == [old EXCEPT !.run = "assign", !.started = TRUE]
  <2>1. s \in ServerStates
    BY RecordsAreStates
  <2>2. old.run = "register"
    BY <1>2 DEF RegisterTusHandlers
  <2>3. old # Fresh
    BY <2>2 DEF Fresh
  <2>4. (old.started => s.started) /\ (Open(old) => Open(s))
    BY <2>2 DEF ServerStates, Open
  <2>5. servers' = [servers EXCEPT ![i] = s] /\ LoopUnchanged /\ requests' = requests
    BY <1>2 DEF RegisterTusHandlers, Server, LoopUnchanged, entries
  <2>6. EntriesTyped
    BY <1>2 DEF RegisterTusHandlers, EntriesTyped, IndInv, TypeOK, entries
  <2> HIDE DEF s
  <2> QED
    BY <2>1, <2>3, <2>4, <2>5, <2>6, InstanceStep
<1>3. CASE RegisterFails(i)
  <2> DEFINE s == [old EXCEPT !.run = "failed"]
  <2>1. s \in ServerStates
    BY RecordsAreStates
  <2>2. old.run = "register"
    BY <1>3 DEF RegisterFails
  <2>3. old # Fresh
    BY <2>2 DEF Fresh
  <2>4. (old.started => s.started) /\ (Open(old) => Open(s))
    BY <2>2 DEF ServerStates, Open
  <2>5. servers' = [servers EXCEPT ![i] = s] /\ LoopUnchanged /\ requests' = requests
    BY <1>3 DEF RegisterFails, Server, LoopUnchanged, entries
  <2>6. EntriesTyped
    BY <1>3 DEF RegisterFails, EntriesTyped, IndInv, TypeOK, entries
  <2> HIDE DEF s
  <2> QED
    BY <2>1, <2>3, <2>4, <2>5, <2>6, InstanceStep
<1>4. CASE Assign(i)
  <2>1. CASE mode = "embedded"
    <3> DEFINE s == [old EXCEPT !.run = "returned"]
    <3>1. s \in ServerStates
      BY RecordsAreStates
    <3>2. old.run = "assign"
      BY <1>4, <2>1 DEF Assign
    <3>3. old # Fresh
      BY <3>2 DEF Fresh
    <3>4. (old.started => s.started) /\ (Open(old) => Open(s))
      BY <3>2 DEF ServerStates, Open
    <3>5. servers' = [servers EXCEPT ![i] = s] /\ LoopUnchanged /\ requests' = requests
      BY <1>4, <2>1 DEF Assign, Server, LoopUnchanged, entries
    <3>6. EntriesTyped
      BY <1>4, <2>1 DEF Assign, EntriesTyped, IndInv, TypeOK, entries
    <3> HIDE DEF s
    <3> QED
      BY <3>1, <3>3, <3>4, <3>5, <3>6, InstanceStep
  <2>2. CASE mode = "standalone"
    <3> DEFINE s == [old EXCEPT !.run = "listen", !.http = "open"]
    <3>1. s \in ServerStates
      BY RecordsAreStates
    <3>2. old.run = "assign"
      BY <1>4, <2>2 DEF Assign
    <3>3. old # Fresh
      BY <3>2 DEF Fresh
    <3>4. (old.started => s.started) /\ (Open(old) => Open(s))
      BY <3>2 DEF ServerStates, Open
    <3>5. servers' = [servers EXCEPT ![i] = s] /\ LoopUnchanged /\ requests' = requests
      BY <1>4, <2>2 DEF Assign, Server, LoopUnchanged, entries
    <3>6. EntriesTyped
      BY <1>4, <2>2 DEF Assign, EntriesTyped, IndInv, TypeOK, entries
    <3> HIDE DEF s
    <3> QED
      BY <3>1, <3>3, <3>4, <3>5, <3>6, InstanceStep
  <2> QED
    BY <1>4, <2>1, <2>2 DEF Assign
<1>5. CASE ListenAndServe(i)
  <2>1. CASE old.http = "closed"
    <3> DEFINE s == [old EXCEPT !.run = "closed"]
    <3>1. s \in ServerStates
      BY RecordsAreStates
    <3>2. old.run = "listen" /\ old.http = "closed"
      BY <1>5, <2>1 DEF ListenAndServe
    <3>3. old # Fresh
      BY <3>2 DEF Fresh
    <3>4. (old.started => s.started) /\ (Open(old) => Open(s))
      BY <3>2 DEF ServerStates, Open
    <3>5. servers' = [servers EXCEPT ![i] = s] /\ LoopUnchanged /\ requests' = requests
      BY <1>5, <2>1 DEF ListenAndServe, Server, LoopUnchanged, entries
    <3>6. EntriesTyped
      BY <1>5, <2>1 DEF ListenAndServe, EntriesTyped, IndInv, TypeOK, entries
    <3> HIDE DEF s
    <3> QED
      BY <3>1, <3>3, <3>4, <3>5, <3>6, InstanceStep
  <2>2. CASE old.http # "closed" /\ socket = NoInstance
    <3> DEFINE s == [old EXCEPT !.run = "serving"]
    <3>1. s \in ServerStates
      BY RecordsAreStates
    <3>2. old.run = "listen" /\ old.http # "closed"
      BY <1>5, <2>2 DEF ListenAndServe
    <3>3. old # Fresh
      BY <3>2 DEF Fresh
    <3>4. (old.started => s.started) /\ (Open(old) => Open(s))
      BY <3>2 DEF ServerStates, Open
    <3>5. servers' = [servers EXCEPT ![i] = s] /\ LoopUnchanged /\ requests' = requests
      BY <1>5, <2>2 DEF ListenAndServe, Server, LoopUnchanged, entries
    <3>6. EntriesTyped
      BY <1>5, <2>2 DEF ListenAndServe, EntriesTyped, IndInv, TypeOK, entries
    <3> HIDE DEF s
    <3> QED
      BY <3>1, <3>3, <3>4, <3>5, <3>6, InstanceStep
  <2>3. CASE old.http # "closed" /\ socket # NoInstance
    <3> DEFINE s == [old EXCEPT !.run = "failed"]
    <3>1. s \in ServerStates
      BY RecordsAreStates
    <3>2. old.run = "listen" /\ old.http # "closed"
      BY <1>5, <2>3 DEF ListenAndServe
    <3>3. old # Fresh
      BY <3>2 DEF Fresh
    <3>4. (old.started => s.started) /\ (Open(old) => Open(s))
      BY <3>2 DEF ServerStates, Open
    <3>5. servers' = [servers EXCEPT ![i] = s] /\ LoopUnchanged /\ requests' = requests
      BY <1>5, <2>3 DEF ListenAndServe, Server, LoopUnchanged, entries
    <3>6. EntriesTyped
      BY <1>5, <2>3 DEF ListenAndServe, EntriesTyped, IndInv, TypeOK, entries
    <3> HIDE DEF s
    <3> QED
      BY <3>1, <3>3, <3>4, <3>5, <3>6, InstanceStep
  <2> QED
    BY <2>1, <2>2, <2>3
<1>6. CASE ServeReturns(i)
  <2> DEFINE s == [old EXCEPT !.run = "closed"]
  <2>1. s \in ServerStates
    BY RecordsAreStates
  <2>2. old.run = "serving" /\ old.http = "closed"
    BY <1>6 DEF ServeReturns
  <2>3. old # Fresh
    BY <2>2 DEF Fresh
  <2>4. (old.started => s.started) /\ (Open(old) => Open(s))
    BY <2>2 DEF ServerStates, Open
  <2>5. servers' = [servers EXCEPT ![i] = s] /\ LoopUnchanged /\ requests' = requests
    BY <1>6 DEF ServeReturns, Server, LoopUnchanged, entries
  <2>6. EntriesTyped
    BY <1>6 DEF ServeReturns, EntriesTyped, IndInv, TypeOK, entries
  <2> HIDE DEF s
  <2> QED
    BY <2>1, <2>3, <2>4, <2>5, <2>6, InstanceStep
<1>7. CASE ConnectFails(i)
  <2>1. LoopUnchanged /\ servers' = servers
    BY <1>7 DEF ConnectFails, LoopUnchanged
  <2>2. EntriesTyped /\ requests' \in [Instance -> 0 .. MaxRequests]
    BY <1>7 DEF ConnectFails, EntriesTyped, IndInv, TypeOK, entries
  <2> QED
    BY <2>1, <2>2, OtherStep
<1> QED
  BY <1>1, <1>2, <1>3, <1>4, <1>5, <1>6, <1>7 DEF Run

LEMMA StepOfShutdown ==
  ASSUME IndInv, NEW i \in Instance, Shutdown(i)
  PROVE  IndInv'
<1> PICK old \in ServerStates : old = servers[i]
  BY DEF IndInv, TypeOK
<1>1. CASE CloseListener(i)
  <2>1. CASE old.http = "none"
    <3> DEFINE s == [old EXCEPT !.shut = "stop"]
    <3>1. s \in ServerStates
      BY RecordsAreStates
    <3>2. old.shut = "begin"
      BY <1>1, <2>1 DEF CloseListener
    <3>3. old # Fresh
      BY <3>2 DEF Fresh
    <3>4. (old.started => s.started) /\ (Open(old) => Open(s))
      BY <3>2 DEF ServerStates, Open
    <3>5. servers' = [servers EXCEPT ![i] = s] /\ LoopUnchanged /\ requests' = requests
      BY <1>1, <2>1 DEF CloseListener, Server, LoopUnchanged, entries
    <3>6. EntriesTyped
      BY <1>1, <2>1 DEF CloseListener, EntriesTyped, IndInv, TypeOK, entries
    <3> HIDE DEF s
    <3> QED
      BY <3>1, <3>3, <3>4, <3>5, <3>6, InstanceStep
  <2>2. CASE old.http # "none"
    <3> DEFINE s == [old EXCEPT !.shut = "drain", !.http = "closed"]
    <3>1. s \in ServerStates
      BY RecordsAreStates
    <3>2. old.shut = "begin"
      BY <1>1, <2>2 DEF CloseListener
    <3>3. old # Fresh
      BY <3>2 DEF Fresh
    <3>4. (old.started => s.started) /\ (Open(old) => Open(s))
      BY <3>2 DEF ServerStates, Open
    <3>5. servers' = [servers EXCEPT ![i] = s] /\ LoopUnchanged /\ requests' = requests
      BY <1>1, <2>2 DEF CloseListener, Server, LoopUnchanged, entries
    <3>6. EntriesTyped
      BY <1>1, <2>2 DEF CloseListener, EntriesTyped, IndInv, TypeOK, entries
    <3> HIDE DEF s
    <3> QED
      BY <3>1, <3>3, <3>4, <3>5, <3>6, InstanceStep
  <2> QED
    BY <2>1, <2>2
<1>2. CASE Drain(i)
  <2>1. CASE requests[i] = 0
    <3> DEFINE s == [old EXCEPT !.shut = "stop"]
    <3>1. s \in ServerStates
      BY RecordsAreStates
    <3>2. old.shut = "drain"
      BY <1>2, <2>1 DEF Drain
    <3>3. old # Fresh
      BY <3>2 DEF Fresh
    <3>4. (old.started => s.started) /\ (Open(old) => Open(s))
      BY <3>2 DEF ServerStates, Open
    <3>5. servers' = [servers EXCEPT ![i] = s] /\ LoopUnchanged /\ requests' = requests
      BY <1>2, <2>1 DEF Drain, Server, LoopUnchanged, entries
    <3>6. EntriesTyped
      BY <1>2, <2>1 DEF Drain, EntriesTyped, IndInv, TypeOK, entries
    <3> HIDE DEF s
    <3> QED
      BY <3>1, <3>3, <3>4, <3>5, <3>6, InstanceStep
  <2>2. CASE requests[i] # 0
    BY <1>2, <2>2, OtherStep
       DEF Drain, LoopUnchanged, EntriesTyped, entries, IndInv, TypeOK
  <2> QED
    BY <2>1, <2>2
<1>3. CASE StopExpirer(i)
  <2> PICK tick \in BOOLEAN :
        Server(i, [servers[i] EXCEPT !.shut = "close", !.quit = TRUE, !.tick = tick])
    BY <1>3 DEF StopExpirer
  <2> DEFINE s == [old EXCEPT !.shut = "close", !.quit = TRUE, !.tick = tick]
  <2>1. s \in ServerStates
    BY RecordsAreStates
  <2>2. old.shut = "stop"
    BY <1>3 DEF StopExpirer
  <2>3. old # Fresh
    BY <2>2 DEF Fresh
  <2>4. (old.started => s.started) /\ (Open(old) => Open(s))
    BY <2>2 DEF ServerStates, Open
  <2>5. servers' = [servers EXCEPT ![i] = s] /\ LoopUnchanged /\ requests' = requests
    BY <1>3 DEF StopExpirer, Server, LoopUnchanged, entries
  <2>6. EntriesTyped
    BY <1>3 DEF StopExpirer, EntriesTyped, IndInv, TypeOK, entries
  <2> HIDE DEF s
  <2> QED
    BY <2>1, <2>3, <2>4, <2>5, <2>6, InstanceStep
<1>4. CASE CloseResources(i)
  <2> DEFINE s == [old EXCEPT !.shut = "done", !.db = "closed"]
  <2>1. s \in ServerStates
    BY RecordsAreStates
  <2>2. old.shut = "close"
    BY <1>4 DEF CloseResources
  <2>3. old # Fresh
    BY <2>2 DEF Fresh
  <2>4. (old.started => s.started) /\ (Open(old) => Open(s))
    BY <2>2 DEF ServerStates, Open
  <2>5. servers' = [servers EXCEPT ![i] = s] /\ LoopUnchanged /\ requests' = requests
    BY <1>4 DEF CloseResources, Server, LoopUnchanged, entries
  <2>6. EntriesTyped
    BY <1>4 DEF CloseResources, EntriesTyped, IndInv, TypeOK, entries
  <2> HIDE DEF s
  <2> QED
    BY <2>1, <2>3, <2>4, <2>5, <2>6, InstanceStep
<1> QED
  BY <1>1, <1>2, <1>3, <1>4 DEF Shutdown

LEMMA StepOfGc ==
  ASSUME IndInv, NEW i \in Instance, GcBegins(i) \/ Gc(i)
  PROVE  IndInv'
<1> PICK old \in ServerStates : old = servers[i]
  BY DEF IndInv, TypeOK
<1>1. CASE GcBegins(i)
  <2> DEFINE s == [old EXCEPT !.gc = "run", !.tick = FALSE]
  <2>1. s \in ServerStates
    BY RecordsAreStates
  <2>2. old.gc = "wait"
    BY <1>1 DEF GcBegins
  <2>3. old # Fresh
    BY <2>2 DEF Fresh
  <2>4. (old.started => s.started) /\ (Open(old) => Open(s))
    BY <2>2 DEF ServerStates, Open
  <2>5. servers' = [servers EXCEPT ![i] = s] /\ LoopUnchanged /\ requests' = requests
    BY <1>1 DEF GcBegins, Server, LoopUnchanged, entries
  <2>6. EntriesTyped
    BY <1>1 DEF GcBegins, EntriesTyped, IndInv, TypeOK, entries
  <2> HIDE DEF s
  <2> QED
    BY <2>1, <2>3, <2>4, <2>5, <2>6, InstanceStep
<1>2. CASE GcEnds(i)
  <2> DEFINE s == [old EXCEPT !.gc = "wait"]
  <2>1. s \in ServerStates
    BY RecordsAreStates
  <2>2. old.gc = "run"
    BY <1>2 DEF GcEnds
  <2>3. old # Fresh
    BY <2>2 DEF Fresh
  <2>4. (old.started => s.started) /\ (Open(old) => Open(s))
    BY <2>2 DEF ServerStates, Open
  <2>5. servers' = [servers EXCEPT ![i] = s] /\ LoopUnchanged /\ requests' = requests
    BY <1>2 DEF GcEnds, Server, LoopUnchanged, entries
  <2>6. EntriesTyped
    BY <1>2 DEF GcEnds, EntriesTyped, IndInv, TypeOK, entries
  <2> HIDE DEF s
  <2> QED
    BY <2>1, <2>3, <2>4, <2>5, <2>6, InstanceStep
<1>3. CASE GcQuits(i)
  <2> DEFINE s == [old EXCEPT !.gc = "returned"]
  <2>1. s \in ServerStates
    BY RecordsAreStates
  <2>2. old.gc = "wait" /\ old.quit
    BY <1>3 DEF GcQuits
  <2>3. old # Fresh
    BY <2>2 DEF Fresh
  <2>4. (old.started => s.started) /\ (Open(old) => Open(s))
    BY <2>2 DEF ServerStates, Open
  <2>5. servers' = [servers EXCEPT ![i] = s] /\ LoopUnchanged /\ requests' = requests
    BY <1>3 DEF GcQuits, Server, LoopUnchanged, entries
  <2>6. EntriesTyped
    BY <1>3 DEF GcQuits, EntriesTyped, IndInv, TypeOK, entries
  <2> HIDE DEF s
  <2> QED
    BY <2>1, <2>3, <2>4, <2>5, <2>6, InstanceStep
<1>4. CASE GcFatal(i)
  BY <1>4, OtherStep
     DEF GcFatal, LoopUnchanged, EntriesTyped, entries, IndInv, TypeOK
<1> QED
  BY <1>1, <1>2, <1>3, <1>4 DEF Gc

LEMMA StepOfRequest ==
  ASSUME IndInv, NEW i \in Instance, Accept(i) \/ Respond(i) \/ RequestFatal(i)
  PROVE  IndInv'
<1>1. LoopUnchanged /\ servers' = servers
  BY DEF Accept, Respond, RequestFatal, LoopUnchanged
<1>2. EntriesTyped
  BY DEF Accept, Respond, RequestFatal, EntriesTyped, IndInv, TypeOK, entries
<1>3. requests' \in [Instance -> 0 .. MaxRequests]
  BY LifecycleAssumption
     DEF LifecycleAssumption, Accept, Respond, RequestFatal, IndInv, TypeOK, entries
<1> QED
  BY <1>1, <1>2, <1>3, OtherStep

(*****************************************************************************)
(* Signals: what the channels hold moves towards the loop and is not lost.   *)
(*****************************************************************************)
LEMMA StepOfSignals ==
  ASSUME IndInv,
         SignalHandler \/ \E sig \in {"HUP", "TERM"} : SendSignal(sig)
  PROVE  IndInv'
<1>1. UNCHANGED <<mode, process, loaded, loop, current, servers, entries>>
  BY DEF SignalHandler, ReceiveSignal, ForwardSignal, SendSignal
<1>2. LaterAreFresh' /\ RunningIsOpen' /\ SelectIsStarted'
  BY <1>1 DEF IndInv, LaterAreFresh, Fresh, RunningIsOpen, Open, SelectIsStarted
<1>3. CASE SignalHandler
  <2>1. sent' = sent
    BY <1>3 DEF SignalHandler, ReceiveSignal, ForwardSignal
  <2>2. TypeOK'
    BY <1>1, <1>3, <2>1
       DEF IndInv, TypeOK, SignalHandler, ReceiveSignal, ForwardSignal, entries
  <2>3. Queued' = Queued
    BY <1>3 DEF IndInv, TypeOK, SignalHandler, ReceiveSignal, ForwardSignal,
                MayReceive, Queued, One
  <2>4. Counted'
    BY <1>1, <2>1, <2>3 DEF IndInv, Counted
  <2>5. /\ Pending("HUP") => Pending("HUP")'
        /\ Pending("TERM") => Pending("TERM")'
    BY <1>3 DEF SignalHandler, ReceiveSignal, ForwardSignal, MayReceive, Pending
  <2>6. NoReloadIsLost'
    BY <1>1, <2>1, <2>5 DEF IndInv, NoReloadIsLost
  <2> QED
    BY <1>2, <2>2, <2>4, <2>6 DEF IndInv
<1>4. CASE \E sig \in {"HUP", "TERM"} : SendSignal(sig)
  <2> PICK sig \in {"HUP", "TERM"} : SendSignal(sig)
    BY <1>4
  <2>1. /\ sent.HUP \in 0 .. MaxHups /\ sent.TERM \in 0 .. MaxTerms
        /\ sent' = [sent EXCEPT ![sig] = @ + 1]
        /\ sig = "HUP" => sent.HUP < MaxHups
        /\ sig = "TERM" => sent.TERM < MaxTerms
    BY DEF SendSignal, IndInv, TypeOK
  <2>2. /\ sig = "HUP" => sent'.HUP = sent.HUP + 1 /\ sent'.TERM = sent.TERM
        /\ sig = "TERM" => sent'.HUP = sent.HUP /\ sent'.TERM = sent.TERM + 1
    BY <2>1 DEF IndInv, TypeOK
  <2>3. TypeOK'
    <3>1. sent' \in [HUP : 0 .. MaxHups, TERM : 0 .. MaxTerms]
      BY <2>1, <2>2, LifecycleAssumption DEF LifecycleAssumption, IndInv, TypeOK
    <3> QED
      BY <1>1, <3>1 DEF IndInv, TypeOK, SendSignal, entries
  <2>4. Queued' <= Queued + (sent'.HUP - sent.HUP)
    BY <2>1, <2>2 DEF SendSignal, IndInv, TypeOK, Queued, One
  <2>5. Counted'
    BY <1>1, <2>1, <2>2, <2>4 DEF IndInv, Counted, TypeOK, Instance, Queued, One
  <2>6. signals' # "none" /\ (signals # "none" => signals' = signals)
    BY DEF SendSignal
  <2>7. NoReloadIsLost'
    BY <1>1, <2>2, <2>6 DEF SendSignal, IndInv, TypeOK, NoReloadIsLost, Pending
  <2> QED
    BY <1>2, <2>3, <2>5, <2>7 DEF IndInv
<1> QED
  BY <1>3, <1>4

(*****************************************************************************)
(* The run loop                                                              *)
(*****************************************************************************)
LEMMA StepOfRunLoop ==
  ASSUME IndInv, RunLoop
  PROVE  IndInv'
<1>1. PICK i \in Instance : i = current
  BY DEF IndInv, TypeOK
<1>2. PICK old \in ServerStates : old = servers[i]
  BY DEF IndInv, TypeOK
<1>3. CASE LoadConfig
  <2>1. old = Fresh
    BY <1>1, <1>2, <1>3 DEF LoadConfig, IndInv, LaterAreFresh
  <2> DEFINE s == [old EXCEPT !.run = "connect"]
  <2>2. s \in ServerStates /\ Open(s)
    BY <2>1 DEF Fresh, ServerStates, Open
  <2>3. /\ servers' = [servers EXCEPT ![i] = s]
        /\ loop = "load" /\ loop' = "wait" /\ loaded' = sent.HUP
        /\ UNCHANGED <<mode, process, queues, current, entries>>
    BY <1>1, <1>2, <1>3 DEF LoadConfig, Server
  <2> HIDE DEF s
  <2>4. TypeOK'
    BY <2>2, <2>3 DEF IndInv, TypeOK, queues, entries
  <2>5. Counted' /\ NoReloadIsLost'
    BY <2>3 DEF IndInv, Counted, Queued, NoReloadIsLost, queues
  <2>6. LaterAreFresh'
    <3> SUFFICES ASSUME NEW j \in Instance, j > i
                 PROVE  servers'[j] = Fresh
      BY <1>1, <2>3 DEF LaterAreFresh, Fresh
    <3> QED
      BY <1>1, <2>3 DEF IndInv, TypeOK, LaterAreFresh, Instance
  <2>7. RunningIsOpen' /\ SelectIsStarted'
    BY <1>1, <2>2, <2>3 DEF IndInv, TypeOK, RunningIsOpen, SelectIsStarted
  <2> QED
    BY <2>4, <2>5, <2>6, <2>7 DEF IndInv
<1>4. CASE ConfigFails \/ LoadPanics \/ EndShutdown
  <2>1. /\ UNCHANGED <<mode, queues, loaded, current, servers, entries>>
        /\ loop' \in {loop, "failed"} /\ process' \in {process, "exited", "panic"}
        /\ loop' = "failed" \/ loop' = loop
    BY <1>4 DEF ConfigFails, LoadPanics, EndShutdown
  <2>2. TypeOK' /\ Counted'
    BY <2>1 DEF IndInv, TypeOK, Counted, Queued, queues, entries
  <2>3. NoReloadIsLost'
    BY <2>1 DEF IndInv, NoReloadIsLost, Pending, queues
  <2>4. LaterAreFresh' /\ RunningIsOpen' /\ SelectIsStarted'
    BY <2>1 DEF IndInv, LaterAreFresh, Fresh, RunningIsOpen, Open, SelectIsStarted
  <2> QED
    BY <2>2, <2>3, <2>4 DEF IndInv
<1>5. CASE AwaitStarted
  <2>1. /\ loop = "wait" /\ loop' = "select" /\ servers[current].started
        /\ UNCHANGED <<mode, process, queues, loaded, current, servers, entries>>
    BY <1>5 DEF AwaitStarted
  <2>2. TypeOK' /\ Counted'
    BY <2>1 DEF IndInv, TypeOK, Counted, Queued, queues, entries
  <2>3. NoReloadIsLost'
    BY <2>1 DEF IndInv, NoReloadIsLost, Pending, queues
  <2>4. LaterAreFresh' /\ RunningIsOpen' /\ SelectIsStarted'
    BY <2>1 DEF IndInv, LaterAreFresh, Fresh, RunningIsOpen, Open, SelectIsStarted
  <2> QED
    BY <2>2, <2>3, <2>4 DEF IndInv
<1>6. CASE RunError
  <2>1. servers[current].run # "closed"
    BY <1>6 DEF RunError, IndInv, RunningIsOpen, Open
  <2>2. /\ process' = "fatal"
        /\ UNCHANGED <<mode, queues, loaded, loop, current, servers, entries>>
    BY <1>6, <2>1 DEF RunError
  <2>3. TypeOK' /\ Counted'
    BY <2>2 DEF IndInv, TypeOK, Counted, Queued, queues, entries
  <2>4. NoReloadIsLost'
    BY <2>2 DEF IndInv, NoReloadIsLost, Pending, queues
  <2>5. LaterAreFresh' /\ RunningIsOpen' /\ SelectIsStarted'
    BY <2>2 DEF IndInv, LaterAreFresh, Fresh, RunningIsOpen, Open, SelectIsStarted
  <2> QED
    BY <2>3, <2>4, <2>5 DEF IndInv
<1>7. CASE Reload \/ BeginShutdown
  <2> DEFINE s == [old EXCEPT !.shut = "begin"]
  <2>1. s \in ServerStates
    BY DEF ServerStates
  <2>2. servers' = [servers EXCEPT ![i] = s]
    BY <1>1, <1>2, <1>7 DEF Reload, BeginShutdown, Server, ShutdownTarget
  <2> HIDE DEF s
  <2>3. CASE Reload
    <3>1. /\ loop = "select" /\ loop' = "load" /\ current' = i + 1
          /\ reloadSignals /\ reloadSignals' = FALSE
          /\ UNCHANGED <<mode, process, signals, forwarding, shutdownSignals, sent,
                         loaded, entries>>
      BY <1>1, <2>3 DEF Reload
    <3>2. current' - 1 + Queued' <= sent'.HUP
      BY <1>1, <3>1 DEF IndInv, Counted, Queued, One, TypeOK, Instance
    <3>3. current' \in Instance
      BY <1>1, <3>1, <3>2, LifecycleAssumption
         DEF LifecycleAssumption, IndInv, TypeOK, Instance, Queued, One
    <3>4. TypeOK'
      BY <2>1, <2>2, <3>1, <3>3 DEF IndInv, TypeOK, entries
    <3>5. LaterAreFresh'
      <4> SUFFICES ASSUME NEW j \in Instance, j > i
                   PROVE  servers'[j] = Fresh
        BY <1>1, <3>1 DEF LaterAreFresh, Fresh, IndInv, TypeOK, Instance
      <4> QED
        BY <1>1, <2>2, <3>1 DEF IndInv, TypeOK, LaterAreFresh, Instance
    <3> QED
      BY <3>1, <3>2, <3>4, <3>5
         DEF IndInv, Counted, NoReloadIsLost, RunningIsOpen, SelectIsStarted
  <2>4. CASE BeginShutdown
    <3>1. /\ loop = "select" /\ loop' = "stopping" /\ current' = i
          /\ shutdownSignals' = FALSE
          /\ UNCHANGED <<mode, process, signals, forwarding, reloadSignals, sent,
                         loaded, current, entries>>
      BY <1>1, <2>4 DEF BeginShutdown
    <3>2. Counted'
      BY <3>1 DEF IndInv, Counted, Queued
    <3>3. TypeOK'
      BY <2>1, <2>2, <3>1 DEF IndInv, TypeOK, entries
    <3>4. LaterAreFresh'
      <4> SUFFICES ASSUME NEW j \in Instance, j > i
                   PROVE  servers'[j] = Fresh
        BY <1>1, <3>1 DEF LaterAreFresh, Fresh, IndInv, TypeOK, Instance
      <4> QED
        BY <1>1, <2>2, <3>1 DEF IndInv, TypeOK, LaterAreFresh, Instance
    <3> QED
      BY <3>1, <3>2, <3>3, <3>4
         DEF IndInv, NoReloadIsLost, RunningIsOpen, SelectIsStarted
  <2> QED
    BY <1>7, <2>3, <2>4
<1> QED
  BY <1>3, <1>4, <1>5, <1>6, <1>7 DEF RunLoop

(*****************************************************************************)
(* Theorems                                                                  *)
(*****************************************************************************)

\* The invariant holds of every behaviour, whatever the bounds are.
THEOREM Invariant == Spec => []IndInv
<1>1. Init => IndInv
  BY InitEstablishes
<1>2. IndInv /\ [Next]_vars => IndInv'
  <2> SUFFICES ASSUME IndInv, [Next]_vars
               PROVE  IndInv'
    OBVIOUS
  <2>1. CASE SignalHandler \/ \E sig \in {"HUP", "TERM"} : SendSignal(sig)
    BY <2>1, StepOfSignals
  <2>2. CASE RunLoop
    BY <2>2, StepOfRunLoop
  <2>3. ASSUME NEW i \in Instance, Run(i) PROVE IndInv'
    BY <2>3, StepOfRun
  <2>4. ASSUME NEW i \in Instance, Shutdown(i) PROVE IndInv'
    BY <2>4, StepOfShutdown
  <2>5. ASSUME NEW i \in Instance, GcBegins(i) \/ Gc(i) PROVE IndInv'
    BY <2>5, StepOfGc
  <2>6. ASSUME NEW i \in Instance, Accept(i) \/ Respond(i) \/ RequestFatal(i)
        PROVE  IndInv'
    BY <2>6, StepOfRequest
  <2>7. CASE UNCHANGED vars
    <3>1. LoopUnchanged /\ servers' = servers /\ EntriesTyped
            /\ requests' \in [Instance -> 0 .. MaxRequests]
      BY <2>7 DEF vars, LoopUnchanged, EntriesTyped, IndInv, TypeOK, queues, entries
    <3> QED
      BY <3>1, OtherStep
  <2> QED
    BY <2>1, <2>2, <2>3, <2>4, <2>5, <2>6, <2>7 DEF Next
<1> QED
  BY <1>1, <1>2, PTL DEF Spec

\* The variables keep their types; in particular the loop never makes more
\* instances than SIGHUPs plus one.
THEOREM Typed == Spec => []TypeOK
<1>1. IndInv => TypeOK
  BY DEF IndInv
<1> QED
  BY <1>1, Invariant, PTL

\* However many SIGHUPs and SIGTERMs arrive, and however they are merged in
\* the channels of one place, no accepted reload is forgotten.
THEOREM ReloadsAreNotLost == Spec => []NoReloadIsLost
<1>1. IndInv => NoReloadIsLost
  BY DEF IndInv
<1> QED
  BY <1>1, Invariant, PTL

\* However many shutdowns of earlier instances overlap, the instance the run
\* loop waits on has its database open and its expirer running.
THEOREM CurrentStaysOpen == Spec => []CurrentIsOpen
<1>1. IndInv => CurrentIsOpen
  BY DEF IndInv, RunningIsOpen, SelectIsStarted, Open, CurrentIsOpen
<1> QED
  BY <1>1, Invariant, PTL
================================================================================
