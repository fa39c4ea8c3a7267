--------------------------- MODULE TusEventBroadcaster ---------------------------
(*****************************************************************************)
(* events/tus-events.go: one goroutine, readLoop, takes the events that the  *)
(* tusd handlers send on unbuffered channels and copies each of them to the  *)
(* buffered channel of every listener, under the read half of a mutex.       *)
(* Listen and Close take the write half.                                     *)
(*                                                                           *)
(* The listeners (ipRecorder, TusdLogger) call Listen from goroutines of     *)
(* their own and then read until their channel is closed.  What they do with *)
(* an event happens in yet another goroutine and cannot hold them up.        *)
(*****************************************************************************)
EXTENDS Integers, Sequences

CONSTANTS
  Sender,        \* goroutines of tusd that announce events
  Listener,      \* goroutines that call Listen
  Sends,         \* the events each sender announces, in its order
  BufferSize,    \* capacity of a listener's channel, 16 in the code
  None           \* "no event"

Event == UNION {{Sends[s][n] : n \in DOMAIN Sends[s]} : s \in Sender}

ASSUME BroadcasterAssumption ==
  /\ DOMAIN Sends = Sender
  /\ \A s \in Sender : Sends[s] \in Seq(Event)
  /\ BufferSize \in Nat \ {0}
  /\ None \notin Event

VARIABLES
  next,       \* per sender: the position of the event it sends next
  readLoop,   \* where readLoop is, the event it holds, the next listener to serve
  listeners,  \* the registered listeners, in the order of their Listen calls
  buffer,     \* the events in each listener's channel
  closed,     \* the listeners whose channel is closed
  quit,       \* quitChan is closed
  listening,  \* per listener: "start", "read" or "returned"
  taken,      \* every event readLoop has taken so far
  got         \* per listener: every event it has read so far

vars == <<next, readLoop, listeners, buffer, closed, quit, listening, taken, got>>

Init == /\ next = [s \in Sender |-> 1]
        /\ readLoop = [at |-> "select", event |-> None, serve |-> 1]
        /\ listeners = <<>>
        /\ buffer = [l \in Listener |-> <<>>]
        /\ closed = {}
        /\ quit = FALSE
        /\ listening = [l \in Listener |-> "start"]
        /\ taken = <<>>
        /\ got = [l \in Listener |-> <<>>]

\* A send on a closed channel panics and takes the process down.
Panicked == readLoop.at = "panic"

\* The write half of mu is free: broadcast holds the read half while it sends.
LockIsFree == readLoop.at # "send" /\ ~Panicked

Registered(l) == \E n \in DOMAIN listeners : listeners[n] = l

(*****************************************************************************)
(* readLoop and broadcast                                                    *)
(*****************************************************************************)

\* A receive from one of the handler's four channels.
TakeEvent(s) ==
  /\ readLoop.at = "select"
  /\ next[s] <= Len(Sends[s])
  /\ next' = [next EXCEPT ![s] = @ + 1]
  /\ readLoop' = [at |-> "lock", event |-> Sends[s][next[s]], serve |-> 1]
  /\ taken' = Append(taken, Sends[s][next[s]])
  /\ UNCHANGED <<listeners, buffer, closed, quit, listening, got>>

Quit ==
  /\ readLoop.at = "select"
  /\ quit
  /\ readLoop' = [readLoop EXCEPT !.at = "returned"]
  /\ UNCHANGED <<next, listeners, buffer, closed, quit, listening, taken, got>>

RLock ==
  /\ readLoop.at = "lock"
  /\ readLoop' = [readLoop EXCEPT !.at = "send"]
  /\ UNCHANGED <<next, listeners, buffer, closed, quit, listening, taken, got>>

\* (variant: a channel that is full is sent to nonetheless)
HasRoom_Always(l) == TRUE

HasRoom(l) == Len(buffer[l]) < BufferSize

\* (variant: an event is dropped when the listener's channel is full)
SendEvent_OrDrop ==
  /\ readLoop.at = "send"
  /\ readLoop.serve <= Len(listeners)
  /\ LET l == listeners[readLoop.serve]
     IN  /\ l \notin closed
         /\ readLoop' = [readLoop EXCEPT !.serve = @ + 1]
         /\ buffer' = IF HasRoom(l) THEN [buffer EXCEPT ![l] = Append(@, readLoop.event)]
                                    ELSE buffer
  /\ UNCHANGED <<next, listeners, closed, quit, listening, taken, got>>

\* A send blocks while the channel is full and panics when it is closed.
SendEvent ==
  /\ readLoop.at = "send"
  /\ readLoop.serve <= Len(listeners)
  /\ LET l == listeners[readLoop.serve]
     IN  \/ /\ l \notin closed /\ HasRoom(l)
            /\ buffer' = [buffer EXCEPT ![l] = Append(@, readLoop.event)]
            /\ readLoop' = [readLoop EXCEPT !.serve = @ + 1]
         \/ /\ l \in closed
            /\ readLoop' = [readLoop EXCEPT !.at = "panic"]
            /\ UNCHANGED buffer
  /\ UNCHANGED <<next, listeners, closed, quit, listening, taken, got>>

RUnlock ==
  /\ readLoop.at = "send"
  /\ readLoop.serve > Len(listeners)
  /\ readLoop' = [at |-> "select", event |-> None, serve |-> 1]
  /\ UNCHANGED <<next, listeners, buffer, closed, quit, listening, taken, got>>

(*****************************************************************************)
(* Listen, and the loops of ipRecorder and TusdLogger                        *)
(*****************************************************************************)
Listen(l) ==
  /\ listening[l] = "start"
  /\ LockIsFree
  /\ listeners' = Append(listeners, l)
  /\ listening' = [listening EXCEPT ![l] = "read"]
  /\ UNCHANGED <<next, readLoop, buffer, closed, quit, taken, got>>

\* (variant: the listener returns after its first event)
AfterRead_Return == "returned"

AfterRead == "read"

ReadEvent(l) ==
  /\ ~Panicked
  /\ listening[l] = "read" /\ buffer[l] # <<>>
  /\ got' = [got EXCEPT ![l] = Append(@, Head(buffer[l]))]
  /\ buffer' = [buffer EXCEPT ![l] = Tail(@)]
  /\ listening' = [listening EXCEPT ![l] = AfterRead]
  /\ UNCHANGED <<next, readLoop, listeners, closed, quit, taken>>

ReadClosed(l) ==
  /\ ~Panicked
  /\ listening[l] = "read" /\ buffer[l] = <<>> /\ l \in closed
  /\ listening' = [listening EXCEPT ![l] = "returned"]
  /\ UNCHANGED <<next, readLoop, listeners, buffer, closed, quit, taken, got>>

(*****************************************************************************)
(* Close, called once, at the end of UploadServer.Shutdown.  Requests may    *)
(* still be in progress: an embedded server does not await them.  It holds   *)
(* the lock throughout, so readLoop sees its two effects together.           *)
(*****************************************************************************)

\* (variant: quitChan is not closed)
Close_ListenersOnly ==
  /\ closed = {} /\ listeners # <<>>
  /\ LockIsFree
  /\ closed' = {l \in Listener : Registered(l)}
  /\ UNCHANGED <<next, readLoop, listeners, buffer, quit, listening, taken, got>>

Close ==
  /\ ~quit
  /\ LockIsFree
  /\ closed' = {l \in Listener : Registered(l)}
  /\ quit' = TRUE
  /\ UNCHANGED <<next, readLoop, listeners, buffer, listening, taken, got>>

(*****************************************************************************)
(* Specification.  readLoop and the listeners are goroutines that run        *)
(* whenever they can; a sender's event is taken when readLoop selects it.    *)
(*****************************************************************************)
ReadLoop == \/ \E s \in Sender : TakeEvent(s)
            \/ Quit \/ RLock \/ SendEvent \/ RUnlock

Listening(l) == Listen(l) \/ ReadEvent(l) \/ ReadClosed(l)

Next == ReadLoop \/ (\E l \in Listener : Listening(l)) \/ Close

Spec == Init /\ [][Next]_vars

FairSpec == /\ Spec
            /\ WF_vars(ReadLoop)
            /\ \A l \in Listener : WF_vars(Listening(l))

(*****************************************************************************)
(* Properties                                                                *)
(*****************************************************************************)

\* The variables keep their types, no channel holds more than its capacity,
\* and nobody is registered twice.
TypeOK ==
  /\ next \in [Sender -> Nat]
  /\ readLoop \in [at : {"select", "lock", "send", "returned", "panic"},
                   event : Event \union {None}, serve : Nat]
  /\ listeners \in Seq(Listener)
  /\ \A m, n \in DOMAIN listeners : listeners[m] = listeners[n] => m = n
  /\ buffer \in [Listener -> Seq(Event)]
  /\ \A l \in Listener : Len(buffer[l]) <= BufferSize
  /\ closed \subseteq Listener
  /\ quit \in BOOLEAN
  /\ listening \in [Listener -> {"start", "read", "returned"}]
  /\ taken \in Seq(Event)
  /\ got \in [Listener -> Seq(Event)]

\* What broadcast has taken but not yet copied to listener l.
Pending(l) ==
  IF readLoop.at \in {"lock", "send", "panic"}
       /\ \E n \in DOMAIN listeners : listeners[n] = l /\ n >= readLoop.serve
  THEN <<readLoop.event>> ELSE <<>>

\* A listener reads every event taken since it called Listen, once each and in
\* the order in which readLoop took them: full buffers, other listeners that
\* come late and Close neither drop, repeat nor reorder one (broadcast).
EveryEventInOrder ==
  \A l \in Listener :
    LET known == got[l] \o buffer[l] \o Pending(l)
    IN  /\ Len(known) <= Len(taken)
        /\ known = SubSeq(taken, Len(taken) - Len(known) + 1, Len(taken))

\* A request is never held up for ever by the broadcaster as long as it is not
\* closed, however small the buffers are: "everything starts to block" only
\* until the listeners have caught up.
EveryEventIsTaken ==
  \A s \in Sender : \A n \in DOMAIN Sends[s] : <>(next[s] > n \/ quit \/ Panicked)

Closing == quit \/ closed # {}

LoopsEnded == readLoop.at = "returned" /\ \A l \in closed : listening[l] = "returned"

\* readLoop holds no event and no request will announce another one.
NothingToSend == /\ readLoop.at \in {"select", "returned"}
                 /\ \A s \in Sender : next[s] > Len(Sends[s])

\* Close either ends readLoop and every listener that was registered, after they
\* have read what was left in their channels, or makes readLoop panic; nobody is
\* left blocked.  It is sure not to panic when it comes while readLoop holds no
\* event and none follows, or before anyone has registered.  Otherwise readLoop
\* may have received an event before Close, or receive one after it, and send
\* it on a closed channel (broadcast, Close).
CloseEndsLoops ==
  /\ Closing ~> LoopsEnded \/ Panicked
  /\ Closing /\ (NothingToSend \/ closed = {}) ~> LoopsEnded
================================================================================
