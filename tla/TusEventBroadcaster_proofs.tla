----------------------- MODULE TusEventBroadcaster_proofs -----------------------
(*****************************************************************************)
(* Proofs about TusEventBroadcaster, for any number of senders, listeners    *)
(* and events and any capacity of the channels: what a listener has read,    *)
(* what waits in its channel and what is still to be copied to it are, in    *)
(* this order, the last events that readLoop has taken.                      *)
(*****************************************************************************)
EXTENDS TusEventBroadcaster, TLAPS

(*****************************************************************************)
(* Sequences                                                                 *)
(*****************************************************************************)
Suffix(k, t) == /\ Len(k) <= Len(t)
                /\ k = SubSeq(t, Len(t) - Len(k) + 1, Len(t))

LEMMA EmptySuffix ==
  ASSUME NEW S, NEW t \in Seq(S)
  PROVE  Suffix(<<>>, t)
BY DEF Suffix

LEMMA LastSuffix ==
  ASSUME NEW S, NEW t \in Seq(S), Len(t) >= 1, NEW e \in S, e = t[Len(t)]
  PROVE  Suffix(<<e>>, t)
<1> DEFINE s == SubSeq(t, Len(t), Len(t))
           r == <<e>>
<1>1. s \in Seq(S) /\ Len(s) = 1 /\ s[1] = e
  OBVIOUS
<1>2. r \in Seq(S) /\ Len(r) = 1 /\ r[1] = e
  OBVIOUS
<1> HIDE DEF s, r
<1>3. s = r
  BY <1>1, <1>2
<1> QED BY <1>2, <1>3 DEF Suffix, s, r

LEMMA GrowSuffix ==
  ASSUME NEW S, NEW k \in Seq(S), NEW t \in Seq(S), NEW e \in S, Suffix(k, t)
  PROVE  Suffix(k \o <<e>>, Append(t, e))
<1> DEFINE u == Append(t, e)
           j == k \o <<e>>
<1>1. u \in Seq(S) /\ j \in Seq(S) /\ Len(u) = Len(t) + 1 /\ Len(j) = Len(k) + 1
  OBVIOUS
<1>2. Len(k) <= Len(t) /\ Len(k) \in Nat /\ Len(t) \in Nat
  BY DEF Suffix
<1>3. \A i \in 1 .. Len(k) : k[i] = t[Len(t) - Len(k) + i]
  BY <1>2 DEF Suffix
<1>4. \A i \in 1 .. Len(j) : j[i] = u[Len(u) - Len(j) + i]
  <2> SUFFICES ASSUME NEW i \in 1 .. Len(j) PROVE j[i] = u[Len(u) - Len(j) + i]
    OBVIOUS
  <2>1. CASE i = Len(k) + 1
    BY <1>1, <1>2, <2>1
  <2>2. CASE i # Len(k) + 1
    <3>1. i \in 1 .. Len(k) /\ Len(t) - Len(k) + i \in 1 .. Len(t)
      BY <1>1, <1>2, <2>2
    <3>2. j[i] = k[i] /\ u[Len(t) - Len(k) + i] = t[Len(t) - Len(k) + i]
      BY <1>2, <3>1
    <3> QED BY <1>1, <1>2, <1>3, <3>1, <3>2
  <2> QED BY <2>1, <2>2
<1> HIDE DEF u, j
<1>5. j = SubSeq(u, Len(u) - Len(j) + 1, Len(u))
  BY <1>1, <1>2, <1>4
<1>6. Suffix(j, u)
  BY <1>1, <1>2, <1>5 DEF Suffix
<1> QED BY <1>6 DEF j, u

\* Moving an event along does not change the whole.
LEMMA CopyEvent ==
  ASSUME NEW S, NEW g \in Seq(S), NEW b \in Seq(S), NEW e \in S
  PROVE  g \o Append(b, e) \o <<>> = g \o b \o <<e>>
OBVIOUS

LEMMA MoveEvent ==
  ASSUME NEW S, NEW g \in Seq(S), NEW b \in Seq(S), NEW p \in Seq(S), b # <<>>
  PROVE  Append(g, Head(b)) \o Tail(b) \o p = g \o b \o p
OBVIOUS
(*****************************************************************************)
(* The invariant                                                             *)
(*****************************************************************************)
HasEvent == readLoop.at \in {"lock", "send", "panic"}

\* The event readLoop holds is the last one taken.
Holding == /\ \A s \in Sender : next[s] >= 1
           /\ readLoop.serve >= 1
           /\ readLoop.at = "lock" => readLoop.serve = 1
           /\ HasEvent => /\ Len(taken) >= 1 /\ readLoop.event = taken[Len(taken)]
                          /\ readLoop.event \in Event

\* Who has not called Listen has received nothing.
Places == \A l \in Listener :
            IF Registered(l) THEN listening[l] # "start"
            ELSE listening[l] = "start" /\ buffer[l] = <<>> /\ got[l] = <<>>

Known(l) == got[l] \o buffer[l] \o Pending(l)

Order == \A l \in Listener : Suffix(Known(l), taken)

IndInv == TypeOK /\ Holding /\ Places /\ Order

LEMMA OrderIsOrder == Order <=> EveryEventInOrder
BY DEF Order, EveryEventInOrder, Suffix, Known

\* Listener l is still to get the event.
Awaits(l) == HasEvent /\ \E n \in DOMAIN listeners : listeners[n] = l /\ n >= readLoop.serve

LEMMA PendingIs == \A l : Pending(l) = IF Awaits(l) THEN <<readLoop.event>> ELSE <<>>
BY DEF Pending, Awaits, HasEvent

LEMMA KnownIs ==
  ASSUME TypeOK, Holding, NEW l \in Listener
  PROVE  /\ got[l] \in Seq(Event) /\ buffer[l] \in Seq(Event) /\ Pending(l) \in Seq(Event)
         /\ Known(l) \in Seq(Event)
         /\ ~Awaits(l) => Known(l) = got[l] \o buffer[l]
<1>1. got[l] \in Seq(Event) /\ buffer[l] \in Seq(Event)
  BY DEF TypeOK
<1>2. Pending(l) \in Seq(Event)
  <2>1. CASE Awaits(l)
    <3>1. readLoop.event \in Event /\ Pending(l) = <<readLoop.event>>
      BY <2>1, PendingIs DEF Holding, Awaits
    <3> QED BY <3>1
  <2>2. CASE ~Awaits(l)
    <3>1. Pending(l) = <<>>
      BY <2>2, PendingIs
    <3> QED BY <3>1
  <2> QED BY <2>1, <2>2
<1>3. Known(l) \in Seq(Event)
  BY <1>1, <1>2 DEF Known
<1>4. ASSUME ~Awaits(l) PROVE Known(l) = got[l] \o buffer[l]
  <2>1. Pending(l) = <<>>
    BY <1>4, PendingIs
  <2> QED BY <1>1, <2>1 DEF Known
<1> QED BY <1>1, <1>2, <1>3, <1>4

\* A step that takes no event and moves none.
LEMMA SameOrder ==
  ASSUME Order, taken' = taken, got' = got, buffer' = buffer,
         \A l \in Listener : Pending(l)' = Pending(l)
  PROVE  Order'
BY DEF Order, Known

LEMMA IndInvInit == Init => IndInv
<1> SUFFICES ASSUME Init PROVE IndInv
  OBVIOUS
<1>1. TypeOK
  <2>1. \A S : <<>> \in Seq(S) /\ Len(<<>>) = 0
    OBVIOUS
  <2>2. listeners = <<>> /\ taken = <<>> /\ DOMAIN listeners = {}
    BY DEF Init
  <2>3. /\ next \in [Sender -> Nat] /\ closed \subseteq Listener /\ quit \in BOOLEAN
        /\ listening \in [Listener -> {"start", "read", "returned"}]
    BY DEF Init
  <2>4. readLoop \in [at : {"select", "lock", "send", "returned", "panic"},
                      event : Event \union {None}, serve : Nat]
    BY DEF Init
  <2>5. /\ buffer \in [Listener -> Seq(Event)] /\ got \in [Listener -> Seq(Event)]
        /\ \A l \in Listener : buffer[l] = <<>>
    BY <2>1 DEF Init
  <2>6. \A l \in Listener : Len(buffer[l]) <= BufferSize
    BY <2>1, <2>5, BroadcasterAssumption
  <2> QED BY <2>1, <2>2, <2>3, <2>4, <2>5, <2>6 DEF TypeOK
<1>2. Holding /\ Places
  BY DEF Init, Holding, HasEvent, Places, Registered
<1>3. ASSUME NEW l \in Listener PROVE Suffix(Known(l), taken)
  <2>1. Known(l) = <<>> /\ taken \in Seq(Event)
    BY <1>1, <1>2, KnownIs DEF Init, Awaits, HasEvent
  <2> QED BY <2>1, EmptySuffix
<1> QED BY <1>1, <1>2, <1>3 DEF IndInv, Order

(*****************************************************************************)
(* readLoop                                                                  *)
(*****************************************************************************)
LEMMA TakeEventKeeps ==
  ASSUME IndInv, NEW s \in Sender, TakeEvent(s)
  PROVE  IndInv'
<1> DEFINE e == Sends[s][next[s]]
<1>1. /\ readLoop.at = "select" /\ next[s] \in Nat /\ next[s] >= 1 /\ next[s] <= Len(Sends[s])
      /\ next' = [next EXCEPT ![s] = @ + 1]
      /\ readLoop' = [at |-> "lock", event |-> e, serve |-> 1]
      /\ taken' = Append(taken, e)
      /\ UNCHANGED <<listeners, buffer, closed, quit, listening, got>>
  BY DEF TakeEvent, IndInv, TypeOK, Holding
<1>2. e \in Event
  <2>1. Sends[s] \in Seq(Event)
    BY BroadcasterAssumption
  <2> QED BY <1>1, <2>1
<1>3. taken \in Seq(Event)
  BY DEF IndInv, TypeOK
<1> HIDE DEF e
<1>4. TypeOK'
  BY <1>1, <1>2 DEF IndInv, TypeOK
<1>5. Holding' /\ Places'
  BY <1>1, <1>2, <1>3 DEF IndInv, TypeOK, Holding, HasEvent, Places, Registered
<1>6. ASSUME NEW l \in Listener PROVE Suffix(Known(l)', taken')
  <2>1. ~Awaits(l) /\ Known(l) = got[l] \o buffer[l] /\ Known(l) \in Seq(Event)
    BY <1>1, KnownIs DEF Awaits, HasEvent, IndInv
  <2>2. CASE Registered(l)
    <3>1. Awaits(l)'
      <4>1. listeners \in Seq(Listener)
        BY DEF IndInv, TypeOK
      <4> QED BY <1>1, <2>2, <4>1 DEF Awaits, HasEvent, Registered
    <3>2. Pending(l)' = <<e>>
      BY <1>1, <3>1 DEF Pending, Awaits, HasEvent
    <3>3. Known(l)' = Known(l) \o <<e>>
      BY <1>1, <2>1, <3>2 DEF Known
    <3>4. Suffix(Known(l), taken)
      BY DEF IndInv, Order
    <3> QED BY <1>1, <1>2, <1>3, <2>1, <3>3, <3>4, GrowSuffix
  <2>3. CASE ~Registered(l)
    <3>1. ~Awaits(l)' /\ got[l] = <<>> /\ buffer[l] = <<>>
      BY <1>1, <2>3 DEF Awaits, Registered, IndInv, Places
    <3>2. Pending(l)' = <<>>
      BY <3>1 DEF Pending, Awaits, HasEvent
    <3>3. Known(l)' = <<>>
      BY <1>1, <3>1, <3>2 DEF Known
    <3>4. taken' \in Seq(Event)
      BY <1>4 DEF TypeOK
    <3> QED BY <3>3, <3>4, EmptySuffix
  <2> QED BY <2>2, <2>3
<1> QED BY <1>4, <1>5, <1>6 DEF IndInv, Order

LEMMA QuitKeeps ==
  ASSUME IndInv, Quit
  PROVE  IndInv'
<1>1. /\ readLoop.at = "select" /\ readLoop' = [readLoop EXCEPT !.at = "returned"]
      /\ UNCHANGED <<next, listeners, buffer, closed, quit, listening, taken, got>>
  BY DEF Quit
<1>2. readLoop'.at = "returned" /\ readLoop'.serve = readLoop.serve
  BY <1>1 DEF IndInv, TypeOK
<1>3. TypeOK'
  BY <1>1 DEF IndInv, TypeOK
<1>4. Holding' /\ Places'
  BY <1>1, <1>2 DEF IndInv, Holding, HasEvent, Places, Registered
<1>5. \A l \in Listener : Pending(l)' = Pending(l)
  BY <1>1, <1>2 DEF Pending
<1> QED BY <1>1, <1>3, <1>4, <1>5, SameOrder DEF IndInv

LEMMA RLockKeeps ==
  ASSUME IndInv, RLock
  PROVE  IndInv'
<1>1. /\ readLoop.at = "lock" /\ readLoop' = [readLoop EXCEPT !.at = "send"]
      /\ UNCHANGED <<next, listeners, buffer, closed, quit, listening, taken, got>>
  BY DEF RLock
<1>2. /\ readLoop'.at = "send" /\ readLoop'.serve = readLoop.serve
      /\ readLoop'.event = readLoop.event
  BY <1>1 DEF IndInv, TypeOK
<1>3. TypeOK'
  BY <1>1 DEF IndInv, TypeOK
<1>4. Holding' /\ Places'
  BY <1>1, <1>2 DEF IndInv, Holding, HasEvent, Places, Registered
<1>5. \A l \in Listener : Pending(l)' = Pending(l)
  BY <1>1, <1>2 DEF Pending
<1> QED BY <1>1, <1>3, <1>4, <1>5, SameOrder DEF IndInv

LEMMA RUnlockKeeps ==
  ASSUME IndInv, RUnlock
  PROVE  IndInv'
<1>1. /\ readLoop.at = "send" /\ readLoop.serve > Len(listeners)
      /\ readLoop' = [at |-> "select", event |-> None, serve |-> 1]
      /\ UNCHANGED <<next, listeners, buffer, closed, quit, listening, taken, got>>
  BY DEF RUnlock
<1>2. TypeOK'
  BY <1>1 DEF IndInv, TypeOK
<1>3. Holding' /\ Places'
  BY <1>1 DEF IndInv, Holding, HasEvent, Places, Registered
<1>4. listeners \in Seq(Listener) /\ readLoop.serve \in Nat
  BY DEF IndInv, TypeOK
<1>5. \A l \in Listener : Pending(l)' = Pending(l)
  BY <1>1, <1>4 DEF Pending
<1> QED BY <1>1, <1>2, <1>3, <1>5, SameOrder DEF IndInv
LEMMA SendEventKeeps ==
  ASSUME IndInv, SendEvent
  PROVE  IndInv'
<1> DEFINE to == listeners[readLoop.serve]
<1>1. /\ readLoop.at = "send" /\ readLoop.serve <= Len(listeners)
      /\ UNCHANGED <<next, listeners, closed, quit, listening, taken, got>>
      /\ \/ /\ HasRoom(to)
            /\ buffer' = [buffer EXCEPT ![to] = Append(@, readLoop.event)]
            /\ readLoop' = [readLoop EXCEPT !.serve = @ + 1]
         \/ UNCHANGED buffer /\ readLoop' = [readLoop EXCEPT !.at = "panic"]
  BY DEF SendEvent
<1>2. /\ listeners \in Seq(Listener) /\ readLoop.serve \in DOMAIN listeners
      /\ readLoop.serve \in Nat /\ readLoop.event \in Event /\ HasEvent
  BY <1>1 DEF IndInv, TypeOK, Holding, HasEvent
<1>3. CASE UNCHANGED buffer /\ readLoop' = [readLoop EXCEPT !.at = "panic"]
  <2>1. /\ readLoop'.at = "panic" /\ readLoop'.serve = readLoop.serve
        /\ readLoop'.event = readLoop.event
    BY <1>3 DEF IndInv, TypeOK
  <2>2. TypeOK'
    BY <1>1, <1>3 DEF IndInv, TypeOK
  <2>3. Holding' /\ Places'
    BY <1>1, <1>3, <2>1 DEF IndInv, Holding, HasEvent, Places, Registered
  <2>4. \A l \in Listener : Pending(l)' = Pending(l)
    BY <1>1, <2>1 DEF Pending
  <2> QED BY <1>1, <1>3, <2>2, <2>3, <2>4, SameOrder DEF IndInv
<1>4. CASE /\ HasRoom(to)
           /\ buffer' = [buffer EXCEPT ![to] = Append(@, readLoop.event)]
           /\ readLoop' = [readLoop EXCEPT !.serve = @ + 1]
  <2>1. /\ readLoop'.at = "send" /\ readLoop'.serve = readLoop.serve + 1
        /\ readLoop'.event = readLoop.event
        /\ readLoop' \in [at : {"select", "lock", "send", "returned", "panic"},
                           event : Event \union {None}, serve : Nat]
    <3>1. readLoop \in [at : {"select", "lock", "send", "returned", "panic"},
                        event : Event \union {None}, serve : Nat]
      BY DEF IndInv, TypeOK
    <3>2. readLoop' = [readLoop EXCEPT !.serve = @ + 1]
      BY <1>4
    <3>3. readLoop.serve + 1 \in Nat
      BY <1>2
    <3> QED BY <1>1, <3>1, <3>2, <3>3
  <2>2. to \in Listener
    BY <1>2
  <2>3. /\ buffer \in [Listener -> Seq(Event)] /\ got \in [Listener -> Seq(Event)]
        /\ \A l \in Listener : Len(buffer[l]) <= BufferSize
    BY DEF IndInv, TypeOK
  <2> HIDE DEF to
  <2>4. /\ buffer' \in [Listener -> Seq(Event)]
        /\ buffer'[to] = Append(buffer[to], readLoop.event)
        /\ \A l \in Listener : l # to => buffer'[l] = buffer[l]
    BY <1>2, <1>4, <2>2, <2>3
  <2>5. Len(buffer'[to]) <= BufferSize
    BY <1>2, <1>4, <2>2, <2>3, <2>4, BroadcasterAssumption DEF HasRoom
  <2>6. TypeOK'
    <3>1. \A l \in Listener : Len(buffer'[l]) <= BufferSize
      BY <2>3, <2>4, <2>5
    <3> QED BY <1>1, <2>1, <2>4, <3>1 DEF IndInv, TypeOK
  <2>7. Registered(to)
    BY <1>2 DEF Registered, to
  <2>8. Holding' /\ Places'
    <3>1. Holding'
      BY <1>1, <1>2, <2>1 DEF IndInv, Holding, HasEvent
    <3>2. Places'
      BY <1>1, <2>4, <2>7 DEF IndInv, Places, Registered
    <3> QED BY <3>1, <3>2
  <2>9. ASSUME NEW l \in Listener PROVE Suffix(Known(l)', taken')
    <3>1. Suffix(Known(l), taken)
      BY DEF IndInv, Order
    <3>2. CASE l = to
      <4>1. Awaits(l)
        BY <1>2, <3>2 DEF Awaits, to
      <4>2. ~Awaits(l)'
        BY <1>1, <1>2, <2>1, <3>2 DEF Awaits, to, IndInv, TypeOK
      <4>3. Pending(l) = <<readLoop.event>>
        BY <4>1, PendingIs
      <4>4. Pending(l)' = <<>>
        BY <4>2 DEF Pending, Awaits, HasEvent
      <4>5. Known(l)' = got[l] \o Append(buffer[l], readLoop.event) \o <<>>
        BY <1>1, <2>4, <3>2, <4>4 DEF Known
      <4>6. got[l] \in Seq(Event) /\ buffer[l] \in Seq(Event)
        BY <2>3
      <4> DEFINE g == got[l]
                 b == buffer[l]
                 e == readLoop.event
      <4>7. g \in Seq(Event) /\ b \in Seq(Event) /\ e \in Event
        BY <1>2, <4>6
      <4>8. Known(l)' = g \o Append(b, e) \o <<>>
        BY <4>5
      <4>9. Known(l) = g \o b \o <<e>>
        BY <4>3 DEF Known
      <4> HIDE DEF g, b, e
      <4>10. g \o Append(b, e) \o <<>> = g \o b \o <<e>>
        BY <4>7, CopyEvent
      <4>11. taken' = taken
        BY <1>1
      <4> QED BY <3>1, <4>8, <4>9, <4>10, <4>11
    <3>3. CASE l # to
      <4>1. Awaits(l)' = Awaits(l)
        <5>1. \A n \in DOMAIN listeners : listeners[n] = l => n # readLoop.serve
          BY <3>3 DEF to
        <5>2. \A n \in DOMAIN listeners : n \in Nat
          BY <1>2
        <5> QED BY <1>1, <1>2, <2>1, <5>1, <5>2 DEF Awaits, HasEvent
      <4>2. Pending(l)' = Pending(l)
        <5>1. Pending(l)' = IF Awaits(l)' THEN <<readLoop'.event>> ELSE <<>>
          BY DEF Pending, Awaits, HasEvent
        <5> QED BY <2>1, <4>1, <5>1, PendingIs
      <4> QED BY <1>1, <2>4, <3>1, <3>3, <4>2 DEF Known
    <3> QED BY <3>2, <3>3
  <2> QED BY <2>6, <2>8, <2>9 DEF IndInv, Order
<1> QED BY <1>1, <1>3, <1>4

(*****************************************************************************)
(* Listeners and Close                                                       *)
(*****************************************************************************)
LEMMA ListenKeeps ==
  ASSUME IndInv, NEW k \in Listener, Listen(k)
  PROVE  IndInv'
<1>1. /\ listening[k] = "start" /\ LockIsFree
      /\ listeners' = Append(listeners, k)
      /\ listening' = [listening EXCEPT ![k] = "read"]
      /\ UNCHANGED <<next, readLoop, buffer, closed, quit, taken, got>>
  BY DEF Listen
<1>2. listeners \in Seq(Listener) /\ taken \in Seq(Event) /\ readLoop.serve \in Nat
  BY DEF IndInv, TypeOK
<1>3. ~Registered(k) /\ buffer[k] = <<>> /\ got[k] = <<>>
  BY <1>1 DEF IndInv, Places
<1>4. /\ listeners' \in Seq(Listener) /\ Len(listeners') = Len(listeners) + 1
      /\ listeners'[Len(listeners')] = k
      /\ \A n \in 1 .. Len(listeners) : listeners'[n] = listeners[n]
      /\ DOMAIN listeners = 1 .. Len(listeners) /\ DOMAIN listeners' = 1 .. Len(listeners')
      /\ Len(listeners) \in Nat
  BY <1>1, <1>2
<1>5. \A m, n \in DOMAIN listeners' : listeners'[m] = listeners'[n] => m = n
  <2>1. \A m, n \in 1 .. Len(listeners) : listeners[m] = listeners[n] => m = n
    BY <1>4 DEF IndInv, TypeOK
  <2>2. \A n \in 1 .. Len(listeners) : listeners'[n] # k
    BY <1>3, <1>4 DEF Registered
  <2>3. \A n \in DOMAIN listeners' : n \in 1 .. Len(listeners) \/ n = Len(listeners')
    BY <1>4
  <2> QED BY <1>4, <2>1, <2>2, <2>3
<1>6. TypeOK'
  <2>1. listening' \in [Listener -> {"start", "read", "returned"}]
    BY <1>1 DEF IndInv, TypeOK
  <2> QED BY <1>1, <1>4, <1>5, <2>1 DEF IndInv, TypeOK
<1>7. \A l \in Listener : Registered(l)' = (Registered(l) \/ l = k)
  <2> SUFFICES ASSUME NEW l \in Listener
               PROVE  Registered(l)' = (Registered(l) \/ l = k)
    OBVIOUS
  <2>1. \A n \in DOMAIN listeners' : n \in 1 .. Len(listeners) \/ n = Len(listeners')
    BY <1>4
  <2>2. Len(listeners') \in DOMAIN listeners' /\ 1 .. Len(listeners) \subseteq DOMAIN listeners'
    BY <1>4
  <2>3. ASSUME Registered(l)' PROVE Registered(l) \/ l = k
    BY <1>4, <2>1, <2>3 DEF Registered
  <2>4. ASSUME Registered(l) \/ l = k PROVE Registered(l)'
    BY <1>4, <2>2, <2>4 DEF Registered
  <2>5. Registered(l)' \in BOOLEAN
    BY DEF Registered
  <2> QED BY <2>3, <2>4, <2>5
<1>8. Places'
  BY <1>1, <1>7 DEF IndInv, Places, TypeOK
<1>9. Holding'
  BY <1>1 DEF IndInv, Holding, HasEvent
<1>10. ASSUME NEW l \in Listener PROVE Suffix(Known(l)', taken')
  <2>1. CASE l = k
    <3>1. Known(l)' = <<>> \o <<>> \o Pending(l)'
      BY <1>1, <1>3, <2>1 DEF Known
    <3>2. CASE readLoop.at = "lock"
      <4>1. Pending(l)' = <<readLoop.event>>
        BY <1>1, <1>4, <2>1, <3>2 DEF Pending, IndInv, Holding
      <4>2. /\ Len(taken) >= 1 /\ readLoop.event = taken[Len(taken)]
            /\ readLoop.event \in Event
        BY <3>2 DEF IndInv, Holding, HasEvent
      <4>3. <<>> \o <<>> \o <<readLoop.event>> = <<readLoop.event>>
        BY <4>2
      <4> QED BY <1>1, <1>2, <3>1, <4>1, <4>2, <4>3, LastSuffix
    <3>3. CASE readLoop.at # "lock"
      <4>1. Pending(l)' = <<>>
        BY <1>1, <3>3 DEF Pending, LockIsFree, Panicked
      <4>2. <<>> \o <<>> \o <<>> = <<>>
        OBVIOUS
      <4> QED BY <1>1, <1>2, <3>1, <4>1, <4>2, EmptySuffix
    <3> QED BY <3>2, <3>3
  <2>2. CASE l # k
    <3>1. Pending(l)' = Pending(l)
      BY <1>1, <1>4, <2>2 DEF Pending
    <3> QED BY <1>1, <3>1 DEF Known, IndInv, Order
  <2> QED BY <2>1, <2>2
<1> QED BY <1>6, <1>8, <1>9, <1>10 DEF IndInv, Order

LEMMA ReadEventKeeps ==
  ASSUME IndInv, NEW k \in Listener, ReadEvent(k)
  PROVE  IndInv'
<1>1. /\ listening[k] = "read" /\ buffer[k] # <<>>
      /\ got' = [got EXCEPT ![k] = Append(@, Head(buffer[k]))]
      /\ buffer' = [buffer EXCEPT ![k] = Tail(@)]
      /\ listening' = [listening EXCEPT ![k] = "read"]
      /\ UNCHANGED <<next, readLoop, listeners, closed, quit, taken>>
  BY DEF ReadEvent, AfterRead
<1>2. /\ buffer \in [Listener -> Seq(Event)] /\ got \in [Listener -> Seq(Event)]
      /\ \A l \in Listener : Len(buffer[l]) <= BufferSize
  BY DEF IndInv, TypeOK
<1>3. /\ Head(buffer[k]) \in Event /\ Tail(buffer[k]) \in Seq(Event)
      /\ Len(Tail(buffer[k])) <= Len(buffer[k])
  BY <1>1, <1>2
<1>4. /\ buffer' \in [Listener -> Seq(Event)] /\ got' \in [Listener -> Seq(Event)]
      /\ buffer'[k] = Tail(buffer[k]) /\ got'[k] = Append(got[k], Head(buffer[k]))
      /\ \A l \in Listener : l # k => buffer'[l] = buffer[l] /\ got'[l] = got[l]
  BY <1>1, <1>2, <1>3
<1>5. TypeOK'
  <2>1. \A l \in Listener : Len(buffer'[l]) <= BufferSize
    <3>1. Len(buffer[k]) \in Nat /\ Len(Tail(buffer[k])) \in Nat /\ BufferSize \in Nat
      BY <1>2, <1>3, BroadcasterAssumption
    <3>2. Len(buffer'[k]) <= BufferSize
      <4>1. Len(Tail(buffer[k])) <= Len(buffer[k]) /\ Len(buffer[k]) <= BufferSize
        BY <1>2, <1>3
      <4>2. buffer'[k] = Tail(buffer[k])
        BY <1>4
      <4> QED BY <3>1, <4>1, <4>2
    <3>3. \A l \in Listener : l # k => Len(buffer'[l]) <= BufferSize
      BY <1>2, <1>4
    <3> QED BY <3>2, <3>3
  <2>2. listening' \in [Listener -> {"start", "read", "returned"}]
    BY <1>1 DEF IndInv, TypeOK
  <2> QED BY <1>1, <1>4, <2>1, <2>2 DEF IndInv, TypeOK
<1>6. Registered(k)
  BY <1>1 DEF IndInv, Places
<1>7. Places' /\ Holding'
  BY <1>1, <1>4, <1>6 DEF IndInv, Places, Registered, TypeOK, Holding, HasEvent
<1>8. ASSUME NEW l \in Listener PROVE Known(l)' = Known(l)
  <2>1. Pending(l)' = Pending(l)
    BY <1>1 DEF Pending
  <2>2. CASE l = k
    <3>1. Pending(l) \in Seq(Event) /\ got[l] \in Seq(Event) /\ buffer[l] \in Seq(Event)
      BY KnownIs DEF IndInv
    <3> DEFINE g == got[l]
               b == buffer[l]
               p == Pending(l)
    <3>2. g \in Seq(Event) /\ b \in Seq(Event) /\ p \in Seq(Event) /\ b # <<>>
      BY <1>1, <2>2, <3>1
    <3>3. Known(l)' = Append(g, Head(b)) \o Tail(b) \o p
      BY <1>4, <2>1, <2>2 DEF Known
    <3>4. Known(l) = g \o b \o p
      BY DEF Known
    <3> HIDE DEF g, b, p
    <3>5. Append(g, Head(b)) \o Tail(b) \o p = g \o b \o p
      BY <3>2, MoveEvent
    <3> QED BY <3>3, <3>4, <3>5
  <2>3. CASE l # k
    BY <1>4, <2>1, <2>3 DEF Known
  <2> QED BY <2>2, <2>3
<1>9. Order'
  BY <1>1, <1>8 DEF IndInv, Order
<1> QED BY <1>5, <1>7, <1>9 DEF IndInv

LEMMA ReadClosedKeeps ==
  ASSUME IndInv, NEW k \in Listener, ReadClosed(k)
  PROVE  IndInv'
<1>1. /\ listening[k] = "read"
      /\ listening' = [listening EXCEPT ![k] = "returned"]
      /\ UNCHANGED <<next, readLoop, listeners, buffer, closed, quit, taken, got>>
  BY DEF ReadClosed
<1>2. TypeOK' /\ Holding'
  BY <1>1 DEF IndInv, TypeOK, Holding, HasEvent
<1>3. Places'
  BY <1>1 DEF IndInv, Places, Registered, TypeOK
<1>4. \A l \in Listener : Pending(l)' = Pending(l)
  BY <1>1 DEF Pending
<1> QED BY <1>1, <1>2, <1>3, <1>4, SameOrder DEF IndInv

LEMMA CloseKeeps ==
  ASSUME IndInv, Close
  PROVE  IndInv'
<1>1. /\ closed' \subseteq Listener /\ quit' = TRUE
      /\ UNCHANGED <<next, readLoop, listeners, buffer, listening, taken, got>>
  BY DEF Close
<1>2. TypeOK' /\ Holding' /\ Places'
  BY <1>1 DEF IndInv, TypeOK, Holding, HasEvent, Places, Registered
<1>3. \A l \in Listener : Pending(l)' = Pending(l)
  BY <1>1 DEF Pending
<1> QED BY <1>1, <1>2, <1>3, SameOrder DEF IndInv

(*****************************************************************************)
(* The theorems                                                              *)
(*****************************************************************************)
LEMMA IndInvNext == IndInv /\ [Next]_vars => IndInv'
<1> SUFFICES ASSUME IndInv, [Next]_vars PROVE IndInv'
  OBVIOUS
<1>1. CASE UNCHANGED vars
  <2>1. TypeOK' /\ Holding' /\ Places' /\ \A l \in Listener : Pending(l)' = Pending(l)
    BY <1>1 DEF vars, IndInv, TypeOK, Holding, HasEvent, Places, Registered, Pending
  <2> QED BY <1>1, <2>1, SameOrder DEF vars, IndInv
<1>2. CASE ReadLoop
  BY <1>2, TakeEventKeeps, QuitKeeps, RLockKeeps, SendEventKeeps, RUnlockKeeps DEF ReadLoop
<1>3. ASSUME NEW l \in Listener, Listening(l) PROVE IndInv'
  BY <1>3, ListenKeeps, ReadEventKeeps, ReadClosedKeeps DEF Listening
<1>4. CASE Close
  BY <1>4, CloseKeeps
<1> QED BY <1>1, <1>2, <1>3, <1>4 DEF Next

\* What readLoop holds, what every channel holds and what every listener has
\* read fit together (IndInv).
THEOREM Invariant == Spec => []IndInv
<1> QED BY IndInvInit, IndInvNext, PTL DEF Spec

\* No channel exceeds its capacity and no listener is registered twice, for any
\* number of senders and listeners.
THEOREM Typed == Spec => []TypeOK
<1>1. IndInv => TypeOK
  BY DEF IndInv
<1> QED BY Invariant, <1>1, PTL

\* Broadcast neither loses, repeats nor reorders an event for any listener, at
\* whatever moment it calls Listen and however small the channels are.
THEOREM EventsArriveInOrder == Spec => []EveryEventInOrder
<1>1. IndInv => EveryEventInOrder
  BY OrderIsOrder DEF IndInv
<1> QED BY Invariant, <1>1, PTL
================================================================================
