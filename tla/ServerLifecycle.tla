----------------------------- MODULE ServerLifecycle -----------------------------
(*****************************************************************************)
(* server/server.go and server/uploadserver.go: the signal handler, the run  *)
(* loop and, for every configuration the loop has loaded, one UploadServer   *)
(* with its Run and Shutdown goroutines and its expirer.                     *)
(*                                                                           *)
(* The program runs its own HTTP server ("standalone", main.go) or is        *)
(* mounted on a gateway's router through a ReplaceableHandler ("embedded",   *)
(* webircgateway-plugin).                                                    *)
(*                                                                           *)
(* Requests and expirer cycles appear only as work that uses the instance's  *)
(* database: after DB.Close a query fails, and where binPath makes it,       *)
(* log.Fatal ends the process.                                               *)
(*****************************************************************************)
EXTENDS Integers

CONSTANTS
  Modes,        \* modes to consider: "standalone", "embedded"
  MayFail,      \* what may go wrong at start: "config", "logger", "database",
                \* "handlers"
  MaxHups,      \* bound on the SIGHUPs the operator sends
  MaxBusyHups,  \* tighter bound, in standalone mode and when there are requests
  MaxTerms,     \* bound on the SIGTERMs and SIGINTs
  MaxRequests   \* bound on the requests in progress at one instance

ASSUME LifecycleAssumption ==
  /\ Modes \subseteq {"standalone", "embedded"}
  /\ MayFail \subseteq {"config", "logger", "database", "handlers"}
  /\ MaxHups \in Nat /\ MaxBusyHups \in Nat
  /\ MaxTerms \in Nat /\ MaxRequests \in Nat

\* The instances of UploadServer, in the order in which the loop creates them.
Instance == 1 .. MaxHups + 1
NoInstance == 0

VARIABLES
  mode,            \* "standalone" or "embedded"
  process,         \* "up", "exited", or dead by "fatal" or "panic"
  signals,         \* the channel given to signal.Notify: a signal, or "none"
  forwarding,      \* the signal the handler is passing on, or "none"
  reloadSignals,   \* a SIGHUP waits in reloadSignals
  shutdownSignals, \* a SIGTERM waits in shutdownSignals
  sent,            \* number of signals sent of each kind
  loaded,          \* number of SIGHUPs sent when the configuration was read
  loop,            \* where runLoop is
  current,         \* the instance runLoop is working with
  servers,         \* per instance: the states of its goroutines and resources
  socket,          \* the instance that holds the listen socket
  router,          \* the instance ReplaceableHandler.Handler belongs to
  requests         \* per instance: the number of requests in progress

vars == <<mode, process, signals, forwarding, reloadSignals, shutdownSignals, sent,
          loaded, loop, current, servers, socket, router, requests>>
queues == <<signals, forwarding, reloadSignals, shutdownSignals, sent>>
entries == <<socket, router, requests>>

Fresh == [run |-> "none", started |-> FALSE, http |-> "none", db |-> "none",
          shut |-> "none", gc |-> "none", tick |-> FALSE, quit |-> FALSE]

Init == /\ mode \in Modes
        /\ process = "up"
        /\ signals = "none" /\ forwarding = "none"
        /\ reloadSignals = FALSE /\ shutdownSignals = FALSE
        /\ sent = [HUP |-> 0, TERM |-> 0]
        /\ loaded = 0
        /\ loop = "load" /\ current = 1
        /\ servers = [i \in Instance |-> Fresh]
        /\ socket = NoInstance /\ router = NoInstance
        /\ requests = [i \in Instance |-> 0]

(*****************************************************************************)
(* Signals: three channels of one place each                                 *)
(*****************************************************************************)

\* An embedded server with no request in progress.
IsBare == mode = "embedded" /\ \A i \in Instance : requests[i] = 0

\* The operator edits the configuration and sends SIGHUP, or sends SIGTERM.
\* Notify drops a signal when the channel is full.
SendSignal(sig) ==
  /\ process = "up"
  /\ sent[sig] < IF sig = "HUP" THEN MaxHups ELSE MaxTerms
  /\ sig = "HUP" => sent.HUP < MaxBusyHups \/ IsBare
  /\ sent' = [sent EXCEPT ![sig] = @ + 1]
  /\ signals' = IF signals = "none" THEN sig ELSE signals
  /\ UNCHANGED <<mode, process, forwarding, reloadSignals, shutdownSignals, loaded,
                 loop, current, servers, entries>>

\* (variant: the handler takes a signal while it still forwards another)
MayReceive_Always == TRUE

MayReceive == forwarding = "none"

ReceiveSignal ==
  /\ process = "up"
  /\ MayReceive /\ signals # "none"
  /\ forwarding' = signals
  /\ signals' = "none"
  /\ UNCHANGED <<mode, process, reloadSignals, shutdownSignals, sent, loaded, loop,
                 current, servers, entries>>

ForwardSignal ==
  /\ process = "up"
  /\ \/ /\ forwarding = "HUP" /\ ~reloadSignals
        /\ reloadSignals' = TRUE
        /\ UNCHANGED shutdownSignals
     \/ /\ forwarding = "TERM" /\ ~shutdownSignals
        /\ shutdownSignals' = TRUE
        /\ UNCHANGED reloadSignals
  /\ forwarding' = "none"
  /\ UNCHANGED <<mode, process, signals, sent, loaded, loop, current, servers, entries>>

(*****************************************************************************)
(* runLoop                                                                   *)
(*****************************************************************************)
Server(i, changes) == servers' = [servers EXCEPT ![i] = changes]

\* Reads the configuration and starts the goroutine of serv.Run.
LoadConfig ==
  /\ process = "up"
  /\ loop = "load"
  /\ loaded' = sent.HUP
  /\ loop' = "wait"
  /\ Server(current, [servers[current] EXCEPT !.run = "connect"])
  /\ UNCHANGED <<mode, process, queues, current, entries>>

\* "Failed to load config": runLoop returns, ShutdownPromise is never done.
ConfigFails ==
  /\ process = "up"
  /\ loop = "load"
  /\ "config" \in MayFail
  /\ loop' = "failed"
  /\ UNCHANGED <<mode, process, queues, loaded, current, servers, entries>>

\* createMultiLogger fails, and the next message goes to a nil logger; or
\* BasePath cannot be parsed, which panics when it is to be mounted.
LoadPanics ==
  /\ process = "up"
  /\ loop = "load"
  /\ "logger" \in MayFail \/ ("handlers" \in MayFail /\ mode = "embedded")
  /\ process' = "panic"
  /\ UNCHANGED <<mode, queues, loaded, loop, current, servers, entries>>

\* (variant: reload requests that came during the start are discarded)
AwaitStarted_Discards ==
  /\ process = "up"
  /\ loop = "wait"
  /\ servers[current].started
  /\ loop' = "select"
  /\ reloadSignals' = FALSE
  /\ UNCHANGED <<mode, process, signals, forwarding, shutdownSignals, sent, loaded,
                 current, servers, entries>>

AwaitStarted ==
  /\ process = "up"
  /\ loop = "wait"
  /\ servers[current].started
  /\ loop' = "select"
  /\ UNCHANGED <<mode, process, queues, loaded, current, servers, entries>>

\* Run has returned an error, and its goroutine sends it on errChan.
RunError ==
  /\ process = "up"
  /\ loop = "select"
  /\ servers[current].run \in {"closed", "failed"}
  /\ IF servers[current].run = "closed"
     THEN loop' = "load" /\ current' = current + 1 /\ UNCHANGED process
     ELSE process' = "fatal" /\ UNCHANGED <<loop, current>>
  /\ UNCHANGED <<mode, queues, loaded, servers, entries>>

\* (variant: the goroutine shuts down the instance that is current when it runs)
ShutdownTarget_Latest == current + 1

\* The closure has captured the loop iteration's own serv.
ShutdownTarget == current

\* (variant: the signal stays in the channel)
Reload_KeepsSignal ==
  /\ process = "up"
  /\ loop = "select"
  /\ reloadSignals
  /\ loop' = "load" /\ current' = current + 1
  /\ Server(ShutdownTarget, [servers[ShutdownTarget] EXCEPT !.shut = "begin"])
  /\ UNCHANGED <<mode, process, queues, loaded, entries>>

Reload ==
  /\ process = "up"
  /\ loop = "select"
  /\ reloadSignals
  /\ reloadSignals' = FALSE
  /\ loop' = "load" /\ current' = current + 1
  /\ Server(ShutdownTarget, [servers[ShutdownTarget] EXCEPT !.shut = "begin"])
  /\ UNCHANGED <<mode, process, signals, forwarding, shutdownSignals, sent, loaded,
                 entries>>

BeginShutdown ==
  /\ process = "up"
  /\ loop = "select"
  /\ shutdownSignals
  /\ shutdownSignals' = FALSE
  /\ loop' = "stopping"
  /\ Server(current, [servers[current] EXCEPT !.shut = "begin"])
  /\ UNCHANGED <<mode, process, signals, forwarding, reloadSignals, sent, loaded,
                 current, entries>>

\* ShutdownPromise.Done: RunContext.Run returns.
EndShutdown ==
  /\ process = "up"
  /\ loop = "stopping"
  /\ servers[current].shut = "done"
  /\ process' = "exited"
  /\ UNCHANGED <<mode, queues, loaded, loop, current, servers, entries>>

(*****************************************************************************)
(* UploadServer.Run of instance i                                            *)
(*****************************************************************************)
Connect(i) ==
  /\ process = "up"
  /\ servers[i].run = "connect"
  /\ Server(i, [servers[i] EXCEPT !.run = "register", !.db = "open", !.gc = "wait"])
  /\ UNCHANGED <<mode, process, queues, loaded, loop, current, entries>>

\* ConnectToDB or the store's migrations: log.Fatal.
ConnectFails(i) ==
  /\ process = "up"
  /\ servers[i].run = "connect"
  /\ "database" \in MayFail
  /\ process' = "fatal"
  /\ UNCHANGED <<mode, queues, loaded, loop, current, servers, entries>>

RegisterTusHandlers(i) ==
  /\ process = "up"
  /\ servers[i].run = "register"
  /\ Server(i, [servers[i] EXCEPT !.run = "assign", !.started = TRUE])
  /\ UNCHANGED <<mode, process, queues, loaded, loop, current, entries>>

\* Run returns before the start is announced.  (Embedded, runLoop itself has
\* parsed BasePath before.)
RegisterFails(i) ==
  /\ process = "up"
  /\ servers[i].run = "register"
  /\ "handlers" \in MayFail /\ mode = "standalone"
  /\ Server(i, [servers[i] EXCEPT !.run = "failed"])
  /\ UNCHANGED <<mode, process, queues, loaded, loop, current, entries>>

\* The handler is set, or the http.Server is created.
Assign(i) ==
  /\ process = "up"
  /\ servers[i].run = "assign"
  /\ \/ /\ mode = "embedded"
        /\ router' = i
        /\ Server(i, [servers[i] EXCEPT !.run = "returned"])
     \/ /\ mode = "standalone"
        /\ Server(i, [servers[i] EXCEPT !.run = "listen", !.http = "open"])
        /\ UNCHANGED router
  /\ UNCHANGED <<mode, process, queues, loaded, loop, current, socket, requests>>

\* ListenAndServe binds the address, which an earlier instance may still hold.
ListenAndServe(i) ==
  /\ process = "up"
  /\ servers[i].run = "listen"
  /\ LET result == IF servers[i].http = "closed" THEN "closed"
                   ELSE IF socket = NoInstance THEN "serving" ELSE "failed"
     IN  /\ Server(i, [servers[i] EXCEPT !.run = result])
         /\ socket' = IF result = "serving" THEN i ELSE socket
  /\ UNCHANGED <<mode, process, queues, loaded, loop, current, router, requests>>

ServeReturns(i) ==
  /\ process = "up"
  /\ servers[i].run = "serving" /\ servers[i].http = "closed"
  /\ Server(i, [servers[i] EXCEPT !.run = "closed"])
  /\ UNCHANGED <<mode, process, queues, loaded, loop, current, entries>>

(*****************************************************************************)
(* UploadServer.Shutdown of instance i                                       *)
(*****************************************************************************)

\* Reads serv.httpServer, which Run assigns after the start is announced.
CloseListener(i) ==
  /\ process = "up"
  /\ servers[i].shut = "begin" /\ servers[i].started
  /\ IF servers[i].http = "none"
     THEN /\ Server(i, [servers[i] EXCEPT !.shut = "stop"])
          /\ UNCHANGED socket
     ELSE /\ Server(i, [servers[i] EXCEPT !.shut = "drain", !.http = "closed"])
          /\ socket' = IF socket = i THEN NoInstance ELSE socket
  /\ UNCHANGED <<mode, process, queues, loaded, loop, current, router, requests>>

\* http.Server.Shutdown(nil) returns at once when no connection is busy.  To
\* wait, it selects on ctx.Done() and so calls a method of a nil interface.
Drain(i) ==
  /\ process = "up"
  /\ servers[i].shut = "drain"
  /\ IF requests[i] = 0
     THEN Server(i, [servers[i] EXCEPT !.shut = "stop"]) /\ UNCHANGED process
     ELSE process' = "panic" /\ UNCHANGED servers
  /\ UNCHANGED <<mode, queues, loaded, loop, current, entries>>

\* (variant: quitChan is not closed)
StopExpirer_TickerOnly(i) ==
  /\ process = "up"
  /\ servers[i].shut = "stop"
  /\ Server(i, [servers[i] EXCEPT !.shut = "close"])
  /\ UNCHANGED <<mode, process, queues, loaded, loop, current, entries>>

\* Expirer.Stop.  The ticker's channel may hold a tick that gc has not seen.
StopExpirer(i) ==
  /\ process = "up"
  /\ servers[i].shut = "stop"
  /\ \E tick \in BOOLEAN :
       Server(i, [servers[i] EXCEPT !.shut = "close", !.quit = TRUE, !.tick = tick])
  /\ UNCHANGED <<mode, process, queues, loaded, loop, current, entries>>

\* DB.Close, then TusEventBroadcaster.Close.
CloseResources(i) ==
  /\ process = "up"
  /\ servers[i].shut = "close"
  /\ Server(i, [servers[i] EXCEPT !.shut = "done", !.db = "closed"])
  /\ UNCHANGED <<mode, process, queues, loaded, loop, current, entries>>

(*****************************************************************************)
(* Requests                                                                  *)
(*****************************************************************************)
Serves(i) == router = i \/ (servers[i].run = "serving" /\ socket = i)

Accept(i) ==
  /\ process = "up"
  /\ Serves(i)
  /\ requests[i] < MaxRequests /\ sent.HUP <= MaxBusyHups
  /\ requests' = [requests EXCEPT ![i] = @ + 1]
  /\ UNCHANGED <<mode, process, queues, loaded, loop, current, servers, socket, router>>

Respond(i) ==
  /\ process = "up"
  /\ requests[i] > 0
  /\ requests' = [requests EXCEPT ![i] = @ - 1]
  /\ UNCHANGED <<mode, process, queues, loaded, loop, current, servers, socket, router>>

\* binPath's query on a closed database: log.Fatal.
RequestFatal(i) ==
  /\ process = "up"
  /\ requests[i] > 0 /\ servers[i].db = "closed"
  /\ process' = "fatal"
  /\ UNCHANGED <<mode, queues, loaded, loop, current, servers, entries>>

(*****************************************************************************)
(* The goroutine of the instance's Expirer                                   *)
(*****************************************************************************)

\* A tick comes at any time; after Stop there is at most the one in the channel.
GcBegins(i) ==
  /\ process = "up"
  /\ servers[i].gc = "wait"
  /\ servers[i].quit => servers[i].tick
  /\ Server(i, [servers[i] EXCEPT !.gc = "run", !.tick = FALSE])
  /\ UNCHANGED <<mode, process, queues, loaded, loop, current, entries>>

GcEnds(i) ==
  /\ process = "up"
  /\ servers[i].gc = "run"
  /\ Server(i, [servers[i] EXCEPT !.gc = "wait"])
  /\ UNCHANGED <<mode, process, queues, loaded, loop, current, entries>>

\* Terminate calls binPath after the database has been closed under it.
GcFatal(i) ==
  /\ process = "up"
  /\ servers[i].gc = "run" /\ servers[i].db = "closed"
  /\ process' = "fatal"
  /\ UNCHANGED <<mode, queues, loaded, loop, current, servers, entries>>

GcQuits(i) ==
  /\ process = "up"
  /\ servers[i].gc = "wait" /\ servers[i].quit
  /\ Server(i, [servers[i] EXCEPT !.gc = "returned"])
  /\ UNCHANGED <<mode, process, queues, loaded, loop, current, entries>>

(*****************************************************************************)
(* Specification                                                             *)
(*****************************************************************************)
SignalHandler == ReceiveSignal \/ ForwardSignal

RunLoop == \/ LoadConfig \/ ConfigFails \/ LoadPanics \/ AwaitStarted
           \/ RunError \/ Reload \/ BeginShutdown \/ EndShutdown

Run(i) == \/ Connect(i) \/ ConnectFails(i) \/ RegisterTusHandlers(i) \/ RegisterFails(i)
          \/ Assign(i) \/ ListenAndServe(i) \/ ServeReturns(i)

Shutdown(i) == \/ CloseListener(i) \/ Drain(i) \/ StopExpirer(i)
               \/ CloseResources(i)

Gc(i) == GcEnds(i) \/ GcFatal(i) \/ GcQuits(i)

Next == \/ \E sig \in {"HUP", "TERM"} : SendSignal(sig)
        \/ SignalHandler \/ RunLoop
        \/ \E i \in Instance : \/ Run(i) \/ Shutdown(i)
                               \/ Accept(i) \/ Respond(i) \/ RequestFatal(i)
                               \/ GcBegins(i) \/ Gc(i)

Spec == Init /\ [][Next]_vars

\* Every goroutine runs whenever it can.  Nothing is assumed of the operator,
\* of clients and of the ticker.
Fairness == /\ WF_vars(SignalHandler)
            /\ WF_vars(RunLoop)
            /\ \A i \in Instance : /\ WF_vars(Run(i))
                                   /\ WF_vars(Shutdown(i))
                                   /\ WF_vars(Gc(i))

FairSpec == Spec /\ Fairness

(*****************************************************************************)
(* Properties                                                                *)
(*****************************************************************************)

ServerStates ==
  [run : {"none", "connect", "register", "assign", "listen", "serving", "closed",
          "failed", "returned"},
   started : BOOLEAN, http : {"none", "open", "closed"}, db : {"none", "open", "closed"},
   shut : {"none", "begin", "drain", "stop", "close", "done"},
   gc : {"none", "wait", "run", "returned"}, tick : BOOLEAN, quit : BOOLEAN]

\* The variables keep their types, and the loop makes one instance per SIGHUP
\* and no more.
TypeOK ==
  /\ mode \in Modes
  /\ process \in {"up", "exited", "fatal", "panic"}
  /\ signals \in {"none", "HUP", "TERM"} /\ forwarding \in {"none", "HUP", "TERM"}
  /\ reloadSignals \in BOOLEAN /\ shutdownSignals \in BOOLEAN
  /\ sent \in [HUP : 0 .. MaxHups, TERM : 0 .. MaxTerms]
  /\ loaded \in 0 .. MaxHups
  /\ loop \in {"load", "wait", "select", "stopping", "failed"}
  /\ current \in Instance
  /\ servers \in [Instance -> ServerStates]
  /\ socket \in Instance \union {NoInstance}
  /\ router \in Instance \union {NoInstance}
  /\ requests \in [Instance -> 0 .. MaxRequests]

Pending(sig) == \/ sig \in {signals, forwarding}
                \/ sig = "HUP" /\ reloadSignals
                \/ sig = "TERM" /\ shutdownSignals

\* No SIGHUP is lost although every channel on its way holds one signal and
\* Notify drops what does not fit: when the configuration in use is older than
\* the last SIGHUP, another one is still on its way, or the loop is about to
\* read the configuration, or the program is about to stop.
NoReloadIsLost ==
  loaded # sent.HUP => \/ Pending("HUP") \/ Pending("TERM")
                       \/ loop \in {"load", "stopping", "failed"}

\* The instance the run loop waits on has not been shut down, whatever the
\* Shutdown goroutines of its predecessors do: its database is open and its
\* expirer runs.
CurrentIsOpen ==
  loop = "select" => /\ servers[current].shut = "none"
                     /\ servers[current].db = "open"
                     /\ servers[current].gc \in {"wait", "run"}

\* A start that can no longer complete: runLoop has returned on a bad
\* configuration, or waits for a Run that has failed before its start.  The
\* process is up, but nobody reads its signals any more.
StartFailed == \/ loop = "failed"
               \/ loop = "wait" /\ servers[current].run = "failed"

\* A SIGTERM that Notify has accepted ends the process although the handler may
\* be stuck behind a SIGHUP for which reloadSignals has no room, and whatever is
\* shutting down at that time (signalHandler, runLoop).  Two cases are excepted,
\* in which the code does ignore it: the configuration could not be loaded, or
\* Run failed before it announced the start.
TermEndsProcess == Pending("TERM") ~> process # "up" \/ StartFailed

\* "other resources like database connections and timers have been closed and
\* stopped": the instances that are being shut down lose their databases and
\* their expirers, even when several shutdowns overlap.
Releasing(i) == /\ servers[i].shut # "none"
                /\ ~(servers[i].db = "closed" /\ servers[i].gc = "returned")

ShutdownReleases ==
  (\E i \in Instance : Releasing(i)) ~>
     process # "up" \/ \A i \in Instance : ~Releasing(i)

\* "Shutdown() will block until all outstanding requests have been served": a
\* request that was accepted never loses its process or its database.
OutstandingAreServed ==
  \A i \in Instance :
    requests[i] > 0 => process = "up" /\ servers[i].db = "open"
================================================================================
