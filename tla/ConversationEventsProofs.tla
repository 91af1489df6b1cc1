---------------------- MODULE ConversationEventsProofs ----------------------
(***************************************************************************)
(* Proofs about ConversationEvents, for any number of components,          *)
(* conversations and events.                                               *)
(***************************************************************************)
EXTENDS ConversationEvents, FiniteSetTheorems, SequenceTheorems, TLAPS

\* A registered component was added and not removed from its entity.
RegisteredInv == \A c \in Components : place[c] \notin {"unused", "removed"}

\* The id of a component is known.  No component has that of a conversation
\* whose call is not answered yet, and before it is known only the event of its
\* creation is received.
EarlyInv ==
    /\ \A c \in Objects : id[c] = None \/ id[c] \in known
    /\ \A k \in Conversations : waiting[k] # None => k \in announced \ known
    /\ \A k \in Conversations : k \notin known => received[k] <= 1

EventsInv ==
    /\ TypeOK
    /\ RegisteredInv
    /\ EarlyInv
    /\ EventsKeepTheirOrder
    /\ NoEventIsForgotten

LogEntry == [event : Event, to : Objects]

----------------------------------------------------------------------------
(***************************************************************************)
(* A pass over the events that wait.                                       *)
(***************************************************************************)

\* What a pass over the queue leaves: the kept events in order at the places
\* g, and at the end of the log those at the places f, the first of which is
\* called at the place n + 1.
Passed(f, g, n) ==
    /\ \A i \in DOMAIN f : f[i] \in DOMAIN Events
    /\ \A i, j \in DOMAIN f : i < j => f[i] < f[j]
    /\ \A i \in DOMAIN g : g[i] \in DOMAIN Events
    /\ \A i, j \in DOMAIN g : i < j => g[i] < g[j]
    /\ \A s \in DOMAIN Events : (\E i \in DOMAIN f : f[i] = s) \/ (\E i \in DOMAIN g : g[i] = s)
    /\ \A i \in DOMAIN f : \A j \in DOMAIN g : Events[f[i]].on # Events[g[j]].on
    /\ DOMAIN f \subseteq Nat /\ DOMAIN g \subseteq Nat
    /\ DOMAIN Events' = DOMAIN g
    /\ \A i \in DOMAIN g : Events'[i] = Events[g[i]]
    /\ n \in Nat /\ DOMAIN log = 1 .. n /\ DOMAIN log' \subseteq Nat
    /\ \A i \in DOMAIN log : i \in DOMAIN log' /\ log'[i] = log[i]
    /\ \A i \in DOMAIN log' : i \in DOMAIN log \/ (i > n /\ i - n \in DOMAIN f)
    /\ \A i \in DOMAIN f : n + i \in DOMAIN log' /\ n + i \notin DOMAIN log
                           /\ log'[n + i].event = Events[f[i]]

\* The places in order: a sequence of them.
LEMMA InOrderFacts ==
    ASSUME NEW m \in Nat, NEW S \in SUBSET (1 .. m), NEW f \in InOrder(S)
    PROVE  /\ DOMAIN f = 1 .. Cardinality(S) /\ Cardinality(S) \in Nat
           /\ \A i \in DOMAIN f : f[i] \in S
           /\ \A s \in S : \E i \in DOMAIN f : f[i] = s
           /\ \A i, j \in DOMAIN f : i < j => f[i] < f[j]
<1>1. IsFiniteSet(S)
  <2>1. IsFiniteSet(1 .. m)
    BY FS_Interval
  <2>2. QED
    BY <2>1, FS_Subset
<1>2. Cardinality(S) \in Nat
  BY <1>1, FS_CardinalityType
<1>3. QED
  BY <1>2 DEF InOrder

\* A pass keeps the types, its order, and the events that no component takes.
LEMMA FlushFacts ==
    ASSUME TypeOK, FlushEvents, Components' \subseteq Objects
    PROVE  /\ Events' \in Seq(Event) /\ log' \in Seq(LogEntry)
           /\ \E f, g, n : Passed(f, g, n)
           /\ \A i \in DOMAIN Events' : Matches(Events'[i].on) = {}
           /\ \A i \in DOMAIN Events' : \E j \in DOMAIN Events : Events'[i] = Events[j]
           /\ \A i \in (DOMAIN log') \ (DOMAIN log) : log'[i].to \in Components'
           /\ unflushed' = {}
<1>0. unflushed' = {}
  BY DEF FlushEvents
<1>1. PICK pick \in Picks :
        LET sent == {i \in DOMAIN Events : pick[Events[i].on] # None} IN
        /\ \E f \in InOrder(sent) : log' = log \o Calls(pick, f)
        /\ \E g \in InOrder(DOMAIN Events \ sent) : Events' = [i \in DOMAIN g |-> Events[g[i]]]
  BY DEF FlushEvents
<1>2. PICK sent : sent = {i \in DOMAIN Events : pick[Events[i].on] # None}
  OBVIOUS
<1>3. PICK f \in InOrder(sent) : log' = log \o Calls(pick, f)
  BY <1>1, <1>2
<1>4. PICK g \in InOrder(DOMAIN Events \ sent) : Events' = [i \in DOMAIN g |-> Events[g[i]]]
  BY <1>1, <1>2
<1>5. /\ Events \in Seq(Event) /\ log \in Seq(LogEntry)
      /\ DOMAIN Events = 1 .. Len(Events) /\ Len(Events) \in Nat
  <2>1. Events \in Seq(Event) /\ log \in Seq(LogEntry)
    BY DEF TypeOK, LogEntry
  <2>2. QED
    BY <2>1
<1>6. \A i \in DOMAIN Events : Events[i] \in Event /\ Events[i].on \in Conversations
  <2>1. \A i \in DOMAIN Events : Events[i] \in Event
    BY <1>5
  <2>2. \A e \in Event : e.on \in Conversations
    BY DEF Event
  <2>3. QED
    BY <2>1, <2>2
<1>7. \A k \in Conversations :
        IF Matches(k) = {} THEN pick[k] = None ELSE pick[k] \in Matches(k)
  BY DEF Picks
<1>8. \A k \in Conversations : pick[k] # None => pick[k] \in Components' /\ pick[k] \in Objects
  BY <1>7 DEF Matches
<1>9. \A k \in Conversations : pick[k] = None => Matches(k) = {}
  BY <1>7, ConversationsAssumption DEF Matches
<1>10. sent \in SUBSET (1 .. Len(Events)) /\ DOMAIN Events \ sent \in SUBSET (1 .. Len(Events))
  BY <1>2, <1>5
<1>11. /\ DOMAIN f = 1 .. Cardinality(sent) /\ Cardinality(sent) \in Nat
       /\ \A i \in DOMAIN f : f[i] \in sent
       /\ \A s \in sent : \E i \in DOMAIN f : f[i] = s
       /\ \A i, j \in DOMAIN f : i < j => f[i] < f[j]
  BY <1>5, <1>10, InOrderFacts
<1>12. PICK m : m = Cardinality(DOMAIN Events \ sent)
  OBVIOUS
<1>13. /\ DOMAIN g = 1 .. m /\ m \in Nat
       /\ \A i \in DOMAIN g : g[i] \in DOMAIN Events \ sent
       /\ \A s \in DOMAIN Events \ sent : \E i \in DOMAIN g : g[i] = s
       /\ \A i, j \in DOMAIN g : i < j => g[i] < g[j]
  BY <1>5, <1>10, <1>12, InOrderFacts
<1>14. PICK calls : calls = Calls(pick, f)
  OBVIOUS
<1>15. /\ DOMAIN calls = DOMAIN f
       /\ \A i \in DOMAIN f : calls[i] = [event |-> Events[f[i]], to |-> pick[Events[f[i]].on]]
  BY <1>14 DEF Calls
<1>16. ASSUME NEW i \in DOMAIN f
       PROVE  /\ calls[i] \in LogEntry /\ calls[i].event = Events[f[i]]
              /\ calls[i].to \in Components'
  <2>1. f[i] \in sent /\ f[i] \in DOMAIN Events /\ pick[Events[f[i]].on] # None
    BY <1>2, <1>11
  <2>2. /\ Events[f[i]] \in Event
        /\ pick[Events[f[i]].on] \in Objects /\ pick[Events[f[i]].on] \in Components'
    BY <1>6, <1>8, <2>1
  <2>3. QED
    BY <1>15, <2>2 DEF LogEntry
<1>17. calls \in Seq(LogEntry) /\ Len(calls) = Cardinality(sent)
  <2>1. calls = [i \in 1 .. Cardinality(sent) |-> calls[i]]
    BY <1>11, <1>14 DEF Calls
  <2>2. calls \in [1 .. Cardinality(sent) -> LogEntry]
    BY <2>1, <1>11, <1>16
  <2>3. QED
    BY <1>11, <2>2
<1>18. Events' \in Seq(Event)
  <2>1. \A i \in 1 .. m : Events[g[i]] \in Event
    BY <1>6, <1>13
  <2>2. Events' \in [1 .. m -> Event]
    BY <1>4, <1>13, <2>1
  <2>3. QED
    BY <1>13, <2>2
<1>19. /\ log' \in Seq(LogEntry) /\ Len(log') = Len(log) + Len(calls)
       /\ \A i \in 1 .. Len(log) + Len(calls) :
            log'[i] = IF i <= Len(log) THEN log[i] ELSE calls[i - Len(log)]
  BY <1>3, <1>5, <1>14, <1>17, ConcatProperties
<1>20. PICK n : n = Len(log)
  OBVIOUS
<1>21. /\ n \in Nat /\ DOMAIN log = 1 .. n
       /\ DOMAIN log' = 1 .. (n + Cardinality(sent))
       /\ \A i \in 1 .. n + Cardinality(sent) :
            log'[i] = IF i <= n THEN log[i] ELSE calls[i - n]
  BY <1>5, <1>11, <1>17, <1>19, <1>20
<1>22. /\ \A i \in DOMAIN log : i \in DOMAIN log' /\ log'[i] = log[i]
       /\ \A i \in DOMAIN log' : i \in DOMAIN log
                                 \/ (i > n /\ i - n \in DOMAIN f /\ log'[i] = calls[i - n])
  BY <1>11, <1>21
<1>23. ASSUME NEW i \in DOMAIN f
       PROVE  n + i \in DOMAIN log' /\ n + i \notin DOMAIN log /\ log'[n + i] = calls[i]
  <2>1. i \in 1 .. Cardinality(sent) /\ (n + i) - n = i /\ ~(n + i <= n)
    BY <1>11, <1>21
  <2>2. n + i \in 1 .. n + Cardinality(sent)
    BY <1>11, <1>21, <2>1
  <2>3. QED
    BY <1>21, <2>1, <2>2
<1>24. \A i \in DOMAIN f : \A j \in DOMAIN g : Events[f[i]].on # Events[g[j]].on
  BY <1>2, <1>11, <1>13
<1>25. DOMAIN Events' = DOMAIN g /\ \A i \in DOMAIN g : Events'[i] = Events[g[i]]
  BY <1>4
<1>26. Passed(f, g, n)
  <2>1. \A s \in DOMAIN Events : (\E i \in DOMAIN f : f[i] = s) \/ (\E i \in DOMAIN g : g[i] = s)
    BY <1>11, <1>13
  <2>2. DOMAIN f \subseteq Nat /\ DOMAIN g \subseteq Nat /\ sent \subseteq DOMAIN Events
        /\ DOMAIN log' \subseteq Nat
    BY <1>2, <1>11, <1>13, <1>21
  <2>3. \A i \in DOMAIN f : n + i \in DOMAIN log' /\ n + i \notin DOMAIN log
                            /\ log'[n + i].event = Events[f[i]]
    BY <1>16, <1>23
  <2>4. QED
    BY <1>11, <1>13, <1>21, <1>22, <1>24, <1>25, <2>1, <2>2, <2>3 DEF Passed
<1>27. \A i \in DOMAIN Events' : Matches(Events'[i].on) = {}
  BY <1>2, <1>6, <1>9, <1>13, <1>25
<1>28. \A i \in (DOMAIN log') \ (DOMAIN log) : log'[i].to \in Components'
  BY <1>16, <1>22
<1>29. QED
  BY <1>0, <1>13, <1>18, <1>19, <1>25, <1>26, <1>27, <1>28

\* An order that holds of the next events holds in the next state.
LEMMA OrderAfter ==
    ASSUME early \subseteq early',
           \A i, j \in DOMAIN log' : i < j => Before(log'[i].event, log'[j].event),
           \A i, j \in DOMAIN Events' : i < j => Before(Events'[i], Events'[j]),
           \A i \in DOMAIN log' : \A j \in DOMAIN Events' : Before(log'[i].event, Events'[j]),
           \A e \in Event :
             e.n <= received'[e.on] <=>
               (\E i \in DOMAIN log' : log'[i].event = e) \/ (\E i \in DOMAIN Events' : Events'[i] = e)
    PROVE  EventsKeepTheirOrder'
<1>1. \A x, y : Before(x, y) => (x.on = y.on => x.n < y.n \/ (y.n = 1 /\ 1 < x.n /\ y.on \in early'))
  BY DEF Before
<1>2. QED
  BY <1>1 DEF EventsKeepTheirOrder, Before

\* A pass delivers the events of a conversation in their order, or none.
LEMMA PassedOrder ==
    ASSUME EventsKeepTheirOrder, NEW f, NEW g, NEW n, Passed(f, g, n), received' = received,
           early' = early
    PROVE  EventsKeepTheirOrder'
<1>1. ASSUME NEW i \in DOMAIN log', i \notin DOMAIN log
      PROVE  /\ i > n /\ i - n \in DOMAIN f /\ f[i - n] \in DOMAIN Events
             /\ log'[i].event = Events[f[i - n]] /\ i \in Nat
  <2>0. /\ \A k \in DOMAIN log' : k \in DOMAIN log \/ (k > n /\ k - n \in DOMAIN f)
        /\ DOMAIN f \subseteq Nat /\ n \in Nat /\ DOMAIN log' \subseteq Nat
    BY DEF Passed
  <2>1. i > n /\ i - n \in DOMAIN f /\ i - n \in Nat /\ n \in Nat
    BY <1>1, <2>0
  <2>2. PICK m : m = i - n
    OBVIOUS
  <2>3. n + m \in DOMAIN log' /\ log'[n + m].event = Events[f[m]] /\ f[m] \in DOMAIN Events
    <3>1. m \in DOMAIN f
      BY <2>1, <2>2
    <3>2. \A k \in DOMAIN f : n + k \in DOMAIN log' /\ log'[n + k].event = Events[f[k]]
                              /\ f[k] \in DOMAIN Events
      BY DEF Passed
    <3>3. QED
      BY <3>1, <3>2
  <2>4. i \in Nat /\ n + m = i
    BY <2>0, <2>1, <2>2
  <2>5. QED
    BY <2>1, <2>2, <2>3, <2>4
<1>2. ASSUME NEW i \in DOMAIN log', NEW j \in DOMAIN log', i < j
      PROVE  Before(log'[i].event, log'[j].event)
  <2>1. CASE i \in DOMAIN log /\ j \in DOMAIN log
    BY <1>2, <2>1 DEF Passed, EventsKeepTheirOrder
  <2>2. CASE i \in DOMAIN log /\ j \notin DOMAIN log
    BY <1>1, <2>2 DEF Passed, EventsKeepTheirOrder
  <2>3. CASE i \notin DOMAIN log /\ j \notin DOMAIN log
    <3>1. i - n < j - n
      BY <1>1, <1>2, <2>3 DEF Passed
    <3>2. f[i - n] < f[j - n]
      BY <1>1, <2>3, <3>1 DEF Passed
    <3>3. QED
      BY <1>1, <2>3, <3>2 DEF EventsKeepTheirOrder
  <2>4. CASE i \notin DOMAIN log /\ j \in DOMAIN log
    <3>1. i > n /\ i \in Nat /\ n \in Nat /\ j \in 1 .. n
      BY <1>1, <2>4 DEF Passed
    <3>2. QED
      BY <1>2, <3>1
  <2>5. QED
    BY <2>1, <2>2, <2>3, <2>4
<1>3. ASSUME NEW i \in DOMAIN Events', NEW j \in DOMAIN Events', i < j
      PROVE  Before(Events'[i], Events'[j])
  <2>1. /\ g[i] \in DOMAIN Events /\ g[j] \in DOMAIN Events /\ g[i] < g[j]
        /\ Events'[i] = Events[g[i]] /\ Events'[j] = Events[g[j]]
    BY <1>3 DEF Passed
  <2>2. QED
    BY <2>1 DEF EventsKeepTheirOrder
<1>4. ASSUME NEW i \in DOMAIN log', NEW j \in DOMAIN Events'
      PROVE  Before(log'[i].event, Events'[j])
  <2>1. j \in DOMAIN g /\ g[j] \in DOMAIN Events /\ Events'[j] = Events[g[j]]
    BY DEF Passed
  <2>2. CASE i \in DOMAIN log
    BY <2>1, <2>2 DEF Passed, EventsKeepTheirOrder
  <2>3. CASE i \notin DOMAIN log
    <3>1. Events[f[i - n]].on # Events[g[j]].on
      BY <1>1, <2>1, <2>3 DEF Passed
    <3>2. QED
      BY <1>1, <2>1, <2>3, <3>1 DEF Before
  <2>4. QED
    BY <2>2, <2>3
<1>5. ASSUME NEW e
      PROVE  (\E i \in DOMAIN log : log[i].event = e) \/ (\E i \in DOMAIN Events : Events[i] = e)
             <=> (\E i \in DOMAIN log' : log'[i].event = e) \/ (\E i \in DOMAIN Events' : Events'[i] = e)
  <2>1. ASSUME NEW i \in DOMAIN log, log[i].event = e PROVE \E j \in DOMAIN log' : log'[j].event = e
    BY <2>1 DEF Passed
  <2>2. ASSUME NEW i \in DOMAIN Events, Events[i] = e
        PROVE  (\E j \in DOMAIN log' : log'[j].event = e) \/ (\E j \in DOMAIN Events' : Events'[j] = e)
    <3>1. (\E k \in DOMAIN f : f[k] = i) \/ (\E k \in DOMAIN g : g[k] = i)
      BY DEF Passed
    <3>2. ASSUME NEW k \in DOMAIN f, f[k] = i PROVE \E j \in DOMAIN log' : log'[j].event = e
      <4>1. n + k \in DOMAIN log' /\ log'[n + k].event = Events[f[k]]
        BY DEF Passed
      <4>2. QED
        BY <2>2, <3>2, <4>1
    <3>3. ASSUME NEW k \in DOMAIN g, g[k] = i PROVE \E j \in DOMAIN Events' : Events'[j] = e
      BY <2>2, <3>3 DEF Passed
    <3>4. QED
      BY <3>1, <3>2, <3>3
  <2>3. ASSUME NEW i \in DOMAIN log', log'[i].event = e
        PROVE  (\E j \in DOMAIN log : log[j].event = e) \/ (\E j \in DOMAIN Events : Events[j] = e)
    <3>1. CASE i \in DOMAIN log
      BY <2>3, <3>1 DEF Passed
    <3>2. CASE i \notin DOMAIN log
      BY <1>1, <2>3, <3>2
    <3>3. QED
      BY <3>1, <3>2
  <2>4. ASSUME NEW i \in DOMAIN Events', Events'[i] = e PROVE \E j \in DOMAIN Events : Events[j] = e
    BY <2>4 DEF Passed
  <2>5. QED
    BY <2>1, <2>2, <2>3, <2>4
<1>6. \A e \in Event :
        e.n <= received'[e.on] <=>
            (\E i \in DOMAIN log' : log'[i].event = e) \/ (\E i \in DOMAIN Events' : Events'[i] = e)
  BY <1>5 DEF EventsKeepTheirOrder
<1>7. QED
  BY <1>2, <1>3, <1>4, <1>6, OrderAfter

\* The invariant after a step that flushes: what waits has no match.
LEMMA FlushKeeps ==
    ASSUME EventsInv, FlushEvents, Components' \subseteq Objects,
           received' = received, early' = early
    PROVE  /\ Events' \in Seq(Event) /\ log' \in Seq(LogEntry) /\ unflushed' = {}
           /\ EventsKeepTheirOrder' /\ NoEventIsForgotten'
<1>1. TypeOK /\ EventsKeepTheirOrder
  BY DEF EventsInv
<1>2. Events' \in Seq(Event) /\ log' \in Seq(LogEntry)
  BY <1>1, FlushFacts
<1>3. unflushed' = {}
  BY <1>1, FlushFacts
<1>4. EventsKeepTheirOrder'
  <2>1. \E f, g, n : Passed(f, g, n)
    BY <1>1, FlushFacts
  <2>2. QED
    BY <1>1, <2>1, PassedOrder
<1>5. NoEventIsForgotten'
  <2>1. \A i \in DOMAIN Events' : Matches(Events'[i].on) = {}
    BY <1>1, FlushFacts
  <2>2. QED
    BY <2>1 DEF NoEventIsForgotten, Matches
<1>6. QED
  BY <1>2, <1>3, <1>4, <1>5

\* The order of the events stays when they are left alone.
LEMMA QuietKeeps ==
    ASSUME EventsInv, UNCHANGED <<Events, log, received>>, early \subseteq early'
    PROVE  EventsKeepTheirOrder'
<1>1. EventsKeepTheirOrder
  BY DEF EventsInv
<1>2. /\ \A i, j \in DOMAIN log' : i < j => Before(log'[i].event, log'[j].event)
      /\ \A i, j \in DOMAIN Events' : i < j => Before(Events'[i], Events'[j])
      /\ \A i \in DOMAIN log' : \A j \in DOMAIN Events' : Before(log'[i].event, Events'[j])
  BY <1>1 DEF EventsKeepTheirOrder
<1>3. \A e \in Event :
        e.n <= received'[e.on] <=>
            (\E i \in DOMAIN log' : log'[i].event = e) \/ (\E i \in DOMAIN Events' : Events'[i] = e)
  BY <1>1 DEF EventsKeepTheirOrder
<1>4. QED
  BY <1>2, <1>3, OrderAfter

----------------------------------------------------------------------------
(***************************************************************************)
(* Steps keep the invariant.                                               *)
(***************************************************************************)

\* The event just received is the last of its conversation.
LEMMA NewEvent ==
    ASSUME EventsInv, NEW k \in Conversations, ReceiveEvent(k),
           NEW e, e = [on |-> k, n |-> received[k] + 1]
    PROVE  /\ e \in Event /\ received' \in [Conversations -> 0 .. MaxEvents]
           /\ \A i \in DOMAIN log : Before(log[i].event, e)
           /\ \A i \in DOMAIN Events : Before(Events[i], e)
           /\ \A x \in Event : x.n <= received'[x.on] <=> (x.n <= received[x.on] \/ x = e)
<1>1. /\ received \in [Conversations -> 0 .. MaxEvents] /\ received[k] < MaxEvents
      /\ received' = [received EXCEPT ![k] = @ + 1] /\ MaxEvents \in Nat
      /\ Events \in Seq(Event) /\ log \in Seq(LogEntry)
  BY BoundsAssumption DEF EventsInv, TypeOK, ReceiveEvent, LogEntry
<1>2. PICK m : m = received[k]
  OBVIOUS
<1>3. m \in 0 .. MaxEvents /\ m < MaxEvents /\ m \in Nat /\ m + 1 \in 1 .. MaxEvents
  BY <1>1, <1>2
<1>4. e \in Event /\ e.on = k /\ e.n = m + 1
  BY <1>2, <1>3 DEF Event
<1>5. received'[k] = m + 1 /\ \A j \in Conversations : j # k => received'[j] = received[j]
  BY <1>1, <1>2
<1>6. received' \in [Conversations -> 0 .. MaxEvents]
  BY <1>1, <1>2, <1>3
<1>7. \A x \in Event : x.on \in Conversations /\ x.n \in Nat /\ x = [on |-> x.on, n |-> x.n]
  BY <1>1 DEF Event
<1>8. ASSUME NEW x \in Event, x.n <= received[x.on] PROVE Before(x, e)
  <2>1. ASSUME x.on = e.on PROVE x.n < e.n
    <3>1. x.n <= m
      BY <1>2, <1>4, <1>8, <2>1
    <3>2. QED
      BY <1>3, <1>4, <1>7, <3>1
  <2>2. QED
    BY <2>1 DEF Before
<1>9. \A i \in DOMAIN Events : Events[i] \in Event /\ Events[i].n <= received[Events[i].on]
  <2>1. \A i \in DOMAIN Events : Events[i] \in Event
    BY <1>1
  <2>2. QED
    BY <2>1 DEF EventsInv, EventsKeepTheirOrder
<1>10. \A i \in DOMAIN log : log[i].event \in Event /\ log[i].event.n <= received[log[i].event.on]
  <2>1. \A i \in DOMAIN log : log[i] \in LogEntry
    BY <1>1
  <2>2. \A l \in LogEntry : l.event \in Event
    BY DEF LogEntry
  <2>3. QED
    BY <2>1, <2>2 DEF EventsInv, EventsKeepTheirOrder
<1>11. ASSUME NEW x \in Event
       PROVE  x.n <= received'[x.on] <=> (x.n <= received[x.on] \/ x = e)
  <2>1. CASE x.on = k
    <3>1. x.n <= received'[x.on] <=> x.n <= m + 1
      BY <1>5, <2>1
    <3>2. x.n <= received[x.on] <=> x.n <= m
      BY <1>2, <2>1
    <3>3. x = e <=> x.n = m + 1
      BY <1>2, <1>4, <1>7, <2>1
    <3>4. x.n <= m + 1 <=> (x.n <= m \/ x.n = m + 1)
      BY <1>3, <1>7
    <3>5. QED
      BY <3>1, <3>2, <3>3, <3>4
  <2>2. CASE x.on # k
    <3>1. received'[x.on] = received[x.on] /\ x # e
      BY <1>4, <1>5, <1>7, <2>2
    <3>2. QED
      BY <3>1
  <2>3. QED
    BY <2>1, <2>2
<1>12. QED
  BY <1>4, <1>6, <1>8, <1>9, <1>10, <1>11

\* A received event is delivered or waits, after all others.
LEMMA ReceiveKeeps ==
    ASSUME EventsInv, NEW k \in Conversations, ReceiveEvent(k)
    PROVE  EventsInv'
<1>1. PICK e : e = [on |-> k, n |-> received[k] + 1]
  OBVIOUS
<1>2. /\ e \in Event /\ received' \in [Conversations -> 0 .. MaxEvents]
      /\ \A i \in DOMAIN log : Before(log[i].event, e)
      /\ \A i \in DOMAIN Events : Before(Events[i], e)
      /\ \A x \in Event : x.n <= received'[x.on] <=> (x.n <= received[x.on] \/ x = e)
  BY <1>1, NewEvent
<1>3. /\ received'[k] = received[k] + 1 /\ e.on = k /\ e.n = received[k] + 1
      /\ received[k] \in Nat /\ (k \in known \/ received[k] = 0)
      /\ \A j \in Conversations : j # k => received'[j] = received[j]
      /\ UNCHANGED <<place, id, callback, creating, waiting, announced, known, Components,
                     early, unflushed>>
  <2>1. received \in [Conversations -> 0 .. MaxEvents]
    BY DEF EventsInv, TypeOK
  <2>2. QED
    BY <1>1, <2>1 DEF ReceiveEvent, callVars
<1>4. /\ TypeOK /\ Events \in Seq(Event) /\ log \in Seq(LogEntry)
      /\ EarlyInv /\ EventsKeepTheirOrder /\ NoEventIsForgotten /\ RegisteredInv
  BY DEF EventsInv, TypeOK, LogEntry
<1>5. RegisteredInv' /\ EarlyInv'
  <2>1. RegisteredInv'
    BY <1>3, <1>4 DEF RegisteredInv
  <2>2. \A j \in Conversations : j \notin known => received'[j] <= 1
    BY <1>3, <1>4 DEF EarlyInv
  <2>3. QED
    BY <1>3, <1>4, <2>1, <2>2 DEF EarlyInv
<1>6. CASE Matches(k) = {} /\ Events' = Append(Events, e) /\ log' = log
  <2>1. PICK n : n = Len(Events)
    OBVIOUS
  <2>2. /\ n \in Nat /\ Events' \in Seq(Event) /\ DOMAIN Events = 1 .. n
        /\ DOMAIN Events' = 1 .. (n + 1) /\ Events'[n + 1] = e
        /\ \A i \in 1 .. n : Events'[i] = Events[i]
    BY <1>2, <1>4, <1>6, <2>1
  <2>3. \A i \in DOMAIN Events' : (i \in DOMAIN Events /\ Events'[i] = Events[i])
                                  \/ (i = n + 1 /\ Events'[i] = e)
    BY <2>2
  <2>4. /\ \A i \in DOMAIN Events : i \in DOMAIN Events' /\ Events'[i] = Events[i] /\ i < n + 1
        /\ n + 1 \in DOMAIN Events' /\ n + 1 \notin DOMAIN Events
        /\ \A i \in DOMAIN Events' : ~(n + 1 < i)
    BY <2>2
  <2>5. TypeOK'
    BY <1>2, <1>3, <1>4, <1>6, <2>2 DEF TypeOK
  <2>7. NoEventIsForgotten'
    BY <1>3, <1>4, <1>6, <2>3 DEF NoEventIsForgotten, Matches
  <2>8. \A i, j \in DOMAIN Events' : i < j => Before(Events'[i], Events'[j])
    BY <1>2, <1>4, <2>3, <2>4 DEF EventsKeepTheirOrder
  <2>9. \A i \in DOMAIN log' : \A j \in DOMAIN Events' : Before(log'[i].event, Events'[j])
    BY <1>2, <1>4, <1>6, <2>3 DEF EventsKeepTheirOrder
  <2>10. \A x \in Event :
          x.n <= received'[x.on] <=>
            (\E i \in DOMAIN log' : log'[i].event = x) \/ (\E i \in DOMAIN Events' : Events'[i] = x)
    <3>1. \A x \in Event :
            (\E i \in DOMAIN Events' : Events'[i] = x) <=>
                ((\E i \in DOMAIN Events : Events[i] = x) \/ x = e)
      BY <2>2, <2>3, <2>4
    <3>2. QED
      BY <1>2, <1>4, <1>6, <3>1 DEF EventsKeepTheirOrder
  <2>11. EventsKeepTheirOrder'
    <3>1. \A i, j \in DOMAIN log' : i < j => Before(log'[i].event, log'[j].event)
      BY <1>4, <1>6 DEF EventsKeepTheirOrder
    <3>2. QED
      BY <1>3, <2>8, <2>9, <2>10, <3>1, OrderAfter
  <2>12. QED
    BY <1>5, <2>5, <2>7, <2>11 DEF EventsInv
<1>7. ASSUME NEW c \in Matches(k), log' = Append(log, [event |-> e, to |-> c]), Events' = Events
      PROVE  EventsInv'
  <2>0. PICK l : l = [event |-> e, to |-> c]
    OBVIOUS
  <2>1. l \in LogEntry /\ l.event = e /\ log' = Append(log, l)
    <3>1. c \in Objects
      BY <1>3, <1>4, <1>7 DEF TypeOK, Matches
    <3>2. QED
      BY <1>2, <1>7, <2>0, <3>1 DEF LogEntry
  <2>2. PICK n : n = Len(log)
    OBVIOUS
  <2>3. /\ n \in Nat /\ log' \in Seq(LogEntry) /\ DOMAIN log = 1 .. n
        /\ DOMAIN log' = 1 .. (n + 1) /\ log'[n + 1] = l
        /\ \A i \in 1 .. n : log'[i] = log[i]
    BY <1>4, <2>1, <2>2
  <2>4. \A i \in DOMAIN log' : (i \in DOMAIN log /\ log'[i] = log[i])
                               \/ (i = n + 1 /\ log'[i].event = e)
    BY <2>1, <2>3
  <2>5. /\ \A i \in DOMAIN log : i \in DOMAIN log' /\ log'[i] = log[i] /\ i < n + 1
        /\ n + 1 \in DOMAIN log' /\ log'[n + 1].event = e
        /\ \A i \in DOMAIN log' : ~(n + 1 < i)
    BY <2>1, <2>3
  <2>6. TypeOK'
    BY <1>2, <1>3, <1>4, <1>7, <2>3 DEF TypeOK, LogEntry
  <2>7. NoEventIsForgotten'
    BY <1>3, <1>4, <1>7 DEF NoEventIsForgotten
  <2>8. ASSUME NEW j \in DOMAIN Events, Events[j].on = k
        PROVE  Events[j].n = 1 /\ k \in early /\ 1 < e.n
    <3>1. Events[j].n = 1 /\ k \in unflushed
      BY <1>3, <1>4, <1>7, <2>8 DEF NoEventIsForgotten, Matches
    <3>2. Events[j] \in Event
      BY <1>4
    <3>3. Events[j].n <= received[k]
      BY <1>4, <2>8, <3>2 DEF EventsKeepTheirOrder
    <3>4. QED
      BY <1>3, <1>4, <3>1, <3>3 DEF TypeOK
  <2>9. \A i, j \in DOMAIN log' : i < j => Before(log'[i].event, log'[j].event)
    BY <1>2, <1>4, <2>4, <2>5 DEF EventsKeepTheirOrder
  <2>10. ASSUME NEW i \in DOMAIN log', NEW j \in DOMAIN Events' PROVE Before(log'[i].event, Events'[j])
    <3>1. j \in DOMAIN Events /\ Events'[j] = Events[j]
      BY <1>7
    <3>2. CASE i \in DOMAIN log /\ log'[i] = log[i]
      BY <1>4, <3>1, <3>2 DEF EventsKeepTheirOrder
    <3>3. CASE log'[i].event = e
      BY <1>3, <2>8, <3>1, <3>3 DEF Before
    <3>4. QED
      BY <2>4, <3>2, <3>3
  <2>11. \A x \in Event :
          x.n <= received'[x.on] <=>
            (\E i \in DOMAIN log' : log'[i].event = x) \/ (\E i \in DOMAIN Events' : Events'[i] = x)
    <3>1. \A x \in Event :
            (\E i \in DOMAIN log' : log'[i].event = x) <=>
                ((\E i \in DOMAIN log : log[i].event = x) \/ x = e)
      BY <2>4, <2>5
    <3>2. QED
      BY <1>2, <1>4, <1>7, <3>1 DEF EventsKeepTheirOrder
  <2>12. EventsKeepTheirOrder'
    <3>1. \A i, j \in DOMAIN Events' : i < j => Before(Events'[i], Events'[j])
      BY <1>4, <1>7 DEF EventsKeepTheirOrder
    <3>2. QED
      BY <1>3, <2>9, <2>10, <2>11, <3>1, OrderAfter
  <2>13. QED
    BY <1>5, <2>6, <2>7, <2>12 DEF EventsInv
<1>8. \/ Matches(k) = {} /\ Events' = Append(Events, e) /\ log' = log
      \/ \E c \in Matches(k) : log' = Append(log, [event |-> e, to |-> c]) /\ Events' = Events
  BY <1>1, <1>3 DEF ReceiveEvent
<1>9. QED
  BY <1>6, <1>7, <1>8

\* The fields of the components keep their types; the events are those of the
\* lemmas above.
ComponentsTypeOK ==
    /\ place \in [Objects -> {"unused", "pending", "listed", "removed", "dropped", "lost"}]
    /\ id \in [Objects -> Conversations \cup {None}]
    /\ callback \in [Objects -> BOOLEAN]
    /\ creating \in [Objects -> 0 .. MaxCreating]
    /\ waiting \in [Conversations -> Objects \cup {None}]
    /\ announced \subseteq Conversations
    /\ known \subseteq announced
    /\ Components \subseteq Objects
    /\ early \subseteq known

\* A step that flushes keeps the invariant if it keeps the components in order.
LEMMA FlushInv ==
    ASSUME EventsInv, ComponentsTypeOK', RegisteredInv', EarlyInv', FlushEvents,
           received' = received, early' = early
    PROVE  EventsInv'
<1>1. Components' \subseteq Objects
  BY DEF ComponentsTypeOK
<1>2. /\ Events' \in Seq(Event) /\ log' \in Seq(LogEntry)
      /\ unflushed' = {} /\ EventsKeepTheirOrder' /\ NoEventIsForgotten'
  BY <1>1, FlushKeeps
<1>3. TypeOK'
  BY <1>2 DEF EventsInv, TypeOK, ComponentsTypeOK, LogEntry
<1>4. QED
  BY <1>2, <1>3 DEF EventsInv

\* A step that leaves the events alone keeps the invariant if no component
\* comes to match an event that waits.
LEMMA QuietInv ==
    ASSUME EventsInv, ComponentsTypeOK', RegisteredInv', EarlyInv', NoEventIsForgotten',
           UNCHANGED <<Events, log, received>>, early \subseteq early',
           unflushed' \subseteq early'
    PROVE  EventsInv'
<1>1. TypeOK'
  BY DEF EventsInv, TypeOK, ComponentsTypeOK
<1>2. QED
  BY <1>1, QuietKeeps DEF EventsInv

\* A call that is announced gets a conversation nobody has the id of.
LEMMA AnnounceKeeps ==
    ASSUME EventsInv, NEW c \in Objects, NEW k \in Conversations, AnnounceConversation(c, k)
    PROVE  EventsInv'
<1>1. /\ TypeOK /\ ComponentsTypeOK /\ RegisteredInv /\ EarlyInv /\ NoEventIsForgotten
      /\ unflushed \subseteq early
  BY DEF EventsInv, TypeOK, ComponentsTypeOK
<1>2. /\ k \notin announced /\ waiting' = [waiting EXCEPT ![k] = c]
      /\ announced' = announced \cup {k}
      /\ UNCHANGED <<place, id, callback, creating, known, Components, Events, received, log,
                     early, unflushed>>
  BY DEF AnnounceConversation
<1>3. waiting' \in [Conversations -> Objects \cup {None}] /\ k \notin known
  BY <1>1, <1>2 DEF ComponentsTypeOK
<1>4. ComponentsTypeOK'
  BY <1>1, <1>2, <1>3 DEF ComponentsTypeOK
<1>5. EarlyInv'
  BY <1>1, <1>2, <1>3 DEF EarlyInv, ComponentsTypeOK
<1>6. RegisteredInv' /\ NoEventIsForgotten'
  BY <1>1, <1>2 DEF RegisteredInv, NoEventIsForgotten
<1>7. QED
  BY <1>1, <1>2, <1>4, <1>5, <1>6, QuietInv

\* When the answer sets the id, only the event of the creation may wait for it.
LEMMA CreatedKeeps ==
    ASSUME EventsInv, NEW c \in Objects, NEW k \in Conversations \cup {None},
           ConversationCreated(c, k)
    PROVE  EventsInv'
<1>1. /\ TypeOK /\ ComponentsTypeOK /\ RegisteredInv /\ EarlyInv /\ NoEventIsForgotten
      /\ unflushed \subseteq early /\ MaxCreating \in Nat /\ Events \in Seq(Event)
  BY BoundsAssumption DEF EventsInv, TypeOK, ComponentsTypeOK
<1>2. /\ UNCHANGED <<place, callback, announced, Components, Events, log, received>>
      /\ creating[c] > 0 /\ creating' = [creating EXCEPT ![c] = @ - 1]
      /\ waiting' = [j \in Conversations |-> IF j = k THEN None ELSE waiting[j]]
      /\ k # None => waiting[k] = c
      /\ \/ \E new \in {k, None} : SetConversationId(c, new)
         \/ UNCHANGED <<id, known, early, unflushed>>
  BY DEF ConversationCreated, Made
<1>3. /\ creating' \in [Objects -> 0 .. MaxCreating]
      /\ waiting' \in [Conversations -> Objects \cup {None}]
      /\ \A j \in Conversations : waiting'[j] # None => j # k /\ waiting[j] # None
  BY <1>1, <1>2 DEF ComponentsTypeOK
<1>4. \A i \in DOMAIN Events :
        /\ Events[i] \in Event /\ Events[i].on \in Conversations /\ Events[i].n \in 1 .. MaxEvents
        /\ Events[i].n <= received[Events[i].on]
  <2>1. \A i \in DOMAIN Events : Events[i] \in Event
    BY <1>1
  <2>2. \A e \in Event : e.on \in Conversations /\ e.n \in 1 .. MaxEvents
    BY DEF Event
  <2>3. \A e \in Event : (\E i \in DOMAIN Events : Events[i] = e) => e.n <= received[e.on]
    BY DEF EventsInv, EventsKeepTheirOrder
  <2>4. QED
    BY <2>1, <2>2, <2>3
<1>5. RegisteredInv'
  BY <1>1, <1>2 DEF RegisteredInv
<1>6. CASE UNCHANGED <<id, known, early, unflushed>>
  <2>1. ComponentsTypeOK' /\ NoEventIsForgotten'
    BY <1>1, <1>2, <1>3, <1>6 DEF ComponentsTypeOK, NoEventIsForgotten
  <2>2. EarlyInv'
    BY <1>1, <1>2, <1>3, <1>6 DEF EarlyInv
  <2>3. QED
    BY <1>1, <1>2, <1>5, <1>6, <2>1, <2>2, QuietInv
<1>7. ASSUME NEW new \in {k, None}, SetConversationId(c, new)
      PROVE  EventsInv'
  <2>1. PICK late : late = {on \in {new} : \E i \in DOMAIN Events : Events[i].on = on}
    OBVIOUS
  <2>2. /\ id' = [id EXCEPT ![c] = new] /\ known' = known \cup ({new} \ {None})
        /\ early' = early \cup late /\ unflushed' = unflushed \cup late
    BY <1>7, <2>1 DEF SetConversationId
  <2>3. None \notin late /\ late \subseteq {new}
    BY <1>4, <2>1, ConversationsAssumption
  <2>4. new \in Conversations \cup {None} /\ (new # None => new = k /\ k \notin known)
    BY <1>1, <1>2, ConversationsAssumption DEF EarlyInv, ComponentsTypeOK
  <2>5. new # None => new \in announced'
    BY <1>1, <1>2, <2>4, ConversationsAssumption DEF EarlyInv, ComponentsTypeOK
  <2>6. ComponentsTypeOK'
    BY <1>1, <1>2, <1>3, <2>2, <2>3, <2>4, <2>5 DEF ComponentsTypeOK
  <2>7. EarlyInv'
    <3>1. \A d \in Objects : id'[d] = None \/ id'[d] \in known'
      BY <1>1, <2>2 DEF EarlyInv, ComponentsTypeOK
    <3>2. \A j \in Conversations : waiting'[j] # None => j \notin known'
      BY <1>1, <1>3, <2>2, <2>4 DEF EarlyInv
    <3>3. QED
      BY <1>1, <1>2, <2>2, <3>1, <3>2 DEF EarlyInv
  <2>8. ASSUME NEW i \in DOMAIN Events, NEW d \in Components, id'[d] = Events[i].on, callback[d]
        PROVE  Events[i].n = 1 /\ Events[i].on \in unflushed'
    <3>1. d \in Objects
      BY <1>1 DEF ComponentsTypeOK
    <3>2. CASE d # c
      BY <1>1, <2>2, <2>8, <3>1, <3>2 DEF NoEventIsForgotten, ComponentsTypeOK
    <3>3. CASE d = c
      <4>1. Events[i].on = new
        BY <1>1, <2>2, <2>8, <3>3 DEF ComponentsTypeOK
      <4>2. new # None /\ new \in Conversations /\ new \in late
        BY <1>4, <2>1, <4>1, ConversationsAssumption
      <4>3. received[new] <= 1 /\ received[new] \in 0 .. MaxEvents
        BY <1>1, <2>4, <4>2 DEF EarlyInv, TypeOK
      <4>4. Events[i].n = 1
        BY <1>1, <1>4, <4>1, <4>3
      <4>5. QED
        BY <2>2, <4>1, <4>2, <4>4
    <3>4. QED
      BY <3>2, <3>3
  <2>9. NoEventIsForgotten'
    BY <1>2, <2>8 DEF NoEventIsForgotten
  <2>10. early \subseteq early' /\ unflushed' \subseteq early'
    BY <1>1, <2>2
  <2>11. QED
    BY <1>2, <1>5, <2>6, <2>7, <2>9, <2>10, QuietInv
<1>8. QED
  BY <1>2, <1>6, <1>7

\* Every other step on a component keeps the invariant.
LEMMA ComponentKeeps ==
    ASSUME EventsInv, NEW c \in Objects,
           \/ AddComponent(c) \/ ApplyLocalPatch(c)
           \/ \E k \in Conversations \cup {None} :
                ReceiveComponent(c, k) \/ SetPropertyFromPatch(c, k)
           \/ \E set \in BOOLEAN : SetConversationUpdateCallback(c, set)
           \/ CreateConversation(c)
           \/ RemoveComponent(c) \/ DropComponent(c) \/ LoseEntity(c)
    PROVE  EventsInv'
<1>1. /\ ComponentsTypeOK /\ RegisteredInv /\ NoEventIsForgotten /\ EarlyInv
      /\ Events \in Seq(Event) /\ MaxCreating \in Nat /\ unflushed \subseteq early
  BY BoundsAssumption DEF EventsInv, TypeOK, ComponentsTypeOK
<1>2. CASE AddComponent(c)
  <2>1. UNCHANGED <<creating, waiting, announced, known, received, early>> /\ FlushEvents
    BY <1>2 DEF AddComponent, callVars
  <2>2. ComponentsTypeOK' /\ RegisteredInv'
    BY <1>1, <1>2, <2>1 DEF AddComponent, ComponentsTypeOK, RegisteredInv
  <2>3. EarlyInv'
    BY <1>1, <1>2, <2>1 DEF AddComponent, EarlyInv, ComponentsTypeOK
  <2>4. QED
    BY <2>1, <2>2, <2>3, FlushInv
<1>3. CASE ApplyLocalPatch(c)
  <2>1. UNCHANGED <<id, callback, creating, waiting, announced, known, Events, received, log, early,
                   unflushed>>
    BY <1>3 DEF ApplyLocalPatch, callVars
  <2>2. ComponentsTypeOK' /\ RegisteredInv'
    BY <1>1, <1>3, <2>1 DEF ApplyLocalPatch, ComponentsTypeOK, RegisteredInv
  <2>3. EarlyInv' /\ NoEventIsForgotten'
    BY <1>1, <1>3, <2>1 DEF ApplyLocalPatch, EarlyInv, NoEventIsForgotten
  <2>4. QED
    BY <1>1, <2>1, <2>2, <2>3, QuietInv
<1>4. ASSUME NEW k \in Conversations \cup {None}, ReceiveComponent(c, k) PROVE EventsInv'
  <2>1. UNCHANGED <<creating, waiting, announced, known, received, early>> /\ FlushEvents
    BY <1>4 DEF ReceiveComponent, callVars
  <2>2. ComponentsTypeOK' /\ RegisteredInv'
    BY <1>1, <1>4, <2>1 DEF ReceiveComponent, ComponentsTypeOK, RegisteredInv
  <2>3. EarlyInv'
    BY <1>1, <1>4, <2>1 DEF ReceiveComponent, EarlyInv, ComponentsTypeOK
  <2>4. QED
    BY <2>1, <2>2, <2>3, FlushInv
<1>5. ASSUME NEW k \in Conversations \cup {None}, SetPropertyFromPatch(c, k) PROVE EventsInv'
  <2>1. /\ UNCHANGED <<place, callback, creating, waiting, announced, known, Components, received,
                        early>>
        /\ id' = [id EXCEPT ![c] = k] /\ k \in known \cup {None}
    BY <1>5 DEF SetPropertyFromPatch, callVars
  <2>2. ComponentsTypeOK' /\ RegisteredInv'
    BY <1>1, <2>1 DEF ComponentsTypeOK, RegisteredInv
  <2>3. EarlyInv'
    BY <1>1, <2>1 DEF EarlyInv, ComponentsTypeOK
  <2>4. CASE k = None
    <3>1. \A i \in DOMAIN Events : Events[i].on # None
      <4>1. \A i \in DOMAIN Events : Events[i] \in Event
        BY <1>1
      <4>2. QED
        BY <4>1, ConversationsAssumption DEF Event
    <3>2. UNCHANGED <<Events, log, unflushed>>
      BY <1>5, <2>4 DEF SetPropertyFromPatch
    <3>3. NoEventIsForgotten'
      BY <1>1, <2>1, <2>4, <3>1, <3>2 DEF NoEventIsForgotten, ComponentsTypeOK
    <3>4. QED
      BY <1>1, <2>1, <2>2, <2>3, <3>2, <3>3, QuietInv
  <2>5. CASE k # None
    <3>1. FlushEvents
      BY <1>5, <2>5 DEF SetPropertyFromPatch
    <3>2. QED
      BY <2>1, <2>2, <2>3, <3>1, FlushInv
  <2>6. QED
    BY <2>4, <2>5
<1>6. ASSUME NEW set \in BOOLEAN, SetConversationUpdateCallback(c, set) PROVE EventsInv'
  <2>1. UNCHANGED <<creating, waiting, announced, known, received, early>> /\ FlushEvents
    BY <1>6 DEF SetConversationUpdateCallback, callVars
  <2>2. ComponentsTypeOK' /\ RegisteredInv'
    BY <1>1, <1>6, <2>1 DEF SetConversationUpdateCallback, ComponentsTypeOK, RegisteredInv
  <2>3. EarlyInv'
    BY <1>1, <1>6, <2>1 DEF SetConversationUpdateCallback, EarlyInv, ComponentsTypeOK
  <2>4. QED
    BY <2>1, <2>2, <2>3, FlushInv
<1>7. CASE CreateConversation(c)
  <2>1. UNCHANGED <<id, callback, waiting, announced, known, Events, received, log, early,
                   unflushed>>
    BY <1>7 DEF CreateConversation, callVars
  <2>2. ComponentsTypeOK' /\ RegisteredInv'
    BY <1>1, <1>7, <2>1 DEF CreateConversation, ComponentsTypeOK, RegisteredInv
  <2>3. EarlyInv' /\ NoEventIsForgotten'
    BY <1>1, <1>7, <2>1 DEF CreateConversation, EarlyInv, NoEventIsForgotten
  <2>4. QED
    BY <1>1, <2>1, <2>2, <2>3, QuietInv
<1>8. CASE RemoveComponent(c)
  <2>1. UNCHANGED <<id, callback, creating, waiting, announced, known, Events, received, log, early,
                   unflushed>>
    BY <1>8 DEF RemoveComponent, callVars
  <2>2. ComponentsTypeOK' /\ RegisteredInv'
    BY <1>1, <1>8, <2>1 DEF RemoveComponent, ComponentsTypeOK, RegisteredInv
  <2>3. EarlyInv' /\ NoEventIsForgotten'
    BY <1>1, <1>8, <2>1 DEF RemoveComponent, EarlyInv, NoEventIsForgotten
  <2>4. QED
    BY <1>1, <2>1, <2>2, <2>3, QuietInv
<1>9. CASE DropComponent(c)
  <2>1. UNCHANGED <<id, callback, creating, waiting, announced, known, Events, received, log, early,
                   unflushed>>
    BY <1>9 DEF DropComponent, callVars
  <2>2. ComponentsTypeOK' /\ RegisteredInv'
    BY <1>1, <1>9, <2>1 DEF DropComponent, ComponentsTypeOK, RegisteredInv
  <2>3. EarlyInv' /\ NoEventIsForgotten'
    BY <1>1, <1>9, <2>1 DEF DropComponent, EarlyInv, NoEventIsForgotten
  <2>4. QED
    BY <1>1, <2>1, <2>2, <2>3, QuietInv
<1>10. CASE LoseEntity(c)
  <2>1. UNCHANGED <<id, callback, creating, waiting, announced, known, Events, received, log, early,
                   unflushed>>
    BY <1>10 DEF LoseEntity, callVars
  <2>2. ComponentsTypeOK' /\ RegisteredInv'
    BY <1>1, <1>10, <2>1 DEF LoseEntity, ComponentsTypeOK, RegisteredInv
  <2>3. EarlyInv' /\ NoEventIsForgotten'
    BY <1>1, <1>10, <2>1 DEF LoseEntity, EarlyInv, NoEventIsForgotten
  <2>4. QED
    BY <1>1, <2>1, <2>2, <2>3, QuietInv
<1>11. QED
  BY <1>2, <1>3, <1>4, <1>5, <1>6, <1>7, <1>8, <1>9, <1>10

\* A client without components has received nothing.
LEMMA InitInv == Init => EventsInv
<1> SUFFICES ASSUME Init PROVE EventsInv
  OBVIOUS
<1>1. /\ Events = <<>> /\ log = <<>> /\ DOMAIN Events = {} /\ DOMAIN log = {} /\ Components = {}
      /\ received = [k \in Conversations |-> 0]
  BY DEF Init
<1>2. TypeOK
  <2>1. Events \in Seq(Event) /\ log \in Seq([event : Event, to : Objects])
    BY <1>1
  <2>2. QED
    BY <2>1, BoundsAssumption, ConversationsAssumption DEF Init, TypeOK
<1>3. \A e \in Event : e.on \in Conversations /\ e.n \in 1 .. MaxEvents
  BY DEF Event
<1>4. \A e \in Event : ~(e.n <= received[e.on])
  BY <1>1, <1>3, BoundsAssumption
<1>5. EarlyInv
  BY DEF Init, EarlyInv
<1>6. EventsKeepTheirOrder
  BY <1>1, <1>4 DEF EventsKeepTheirOrder
<1>7. QED
  BY <1>1, <1>2, <1>5, <1>6 DEF EventsInv, RegisteredInv, NoEventIsForgotten

----------------------------------------------------------------------------
(***************************************************************************)
(* The theorems.                                                           *)
(***************************************************************************)

\* The inductive invariant of the delivery of events holds in every state.
THEOREM EventsInvariant == Spec => []EventsInv
<1>1. ASSUME EventsInv, [Next]_vars PROVE EventsInv'
  <2>1. CASE UNCHANGED vars
    BY <1>1, <2>1, QuietInv DEF vars, callVars, EventsInv, TypeOK, ComponentsTypeOK, RegisteredInv,
       EarlyInv, NoEventIsForgotten
  <2>2. CASE Next
    BY <1>1, <2>2, ReceiveKeeps, ComponentKeeps, AnnounceKeeps, CreatedKeeps DEF Next
  <2>3. QED
    BY <1>1, <2>1, <2>2
<1>2. QED
  BY <1>1, InitInv, PTL DEF Spec

\* ConversationIds, callbacks, waiting events and deliveries stay well formed.
THEOREM EventsAreTyped == Spec => []TypeOK
<1>1. EventsInv => TypeOK
  BY DEF EventsInv
<1>2. QED
  BY <1>1, EventsInvariant, PTL

\* TrySendEvent and FlushEvents lose and repeat no event of a conversation,
\* whatever becomes of the components, and let none be overtaken but that of a
\* creation that came before the answer.
THEOREM EventsAlwaysKeepTheirOrder == Spec => []EventsKeepTheirOrder
<1>1. EventsInv => EventsKeepTheirOrder
  BY DEF EventsInv
<1>2. QED
  BY <1>1, EventsInvariant, PTL

\* An event that a registered component could be given waits only between
\* SetConversationId, which makes no pass over the events, and the next pass,
\* and only when it came before the answer that set the id.
THEOREM NoEventIsEverForgotten == Spec => []NoEventIsForgotten
<1>1. EventsInv => NoEventIsForgotten
  BY DEF EventsInv
<1>2. QED
  BY <1>1, EventsInvariant, PTL

\* A component that OnRemove has taken out is not called again.
THEOREM RemovedStaySilent == Spec => RemovedComponentsStaySilent
<1> DEFINE Silent == \A i \in (DOMAIN log') \ (DOMAIN log) : place[log'[i].to] # "removed"
<1>1. ASSUME EventsInv, [Next]_vars PROVE [Silent]_vars
  <2> USE DEF Silent
  <2>1. TypeOK /\ RegisteredInv
    BY <1>1 DEF EventsInv
  <2>2. CASE log' = log
    BY <2>2
  <2>3. ASSUME FlushEvents, NEW c \in Objects, Components' \subseteq Components \cup {c},
               place[c] # "removed" \/ Components' \subseteq Components
        PROVE  Silent
    <3>1. Components' \subseteq Objects
      BY <2>1, <2>3 DEF TypeOK
    <3>2. \A i \in (DOMAIN log') \ (DOMAIN log) : log'[i].to \in Components'
      BY <2>1, <2>3, <3>1, FlushFacts
    <3>3. \A d \in Components' : place[d] # "removed"
      BY <2>1, <2>3 DEF RegisteredInv
    <3>4. QED
      BY <3>2, <3>3
  <2>4. ASSUME NEW k \in Conversations, ReceiveEvent(k) PROVE Silent
    <3>1. ASSUME NEW e, NEW c \in Matches(k), log' = Append(log, [event |-> e, to |-> c])
          PROVE  Silent
      <4>1. place[c] # "removed"
        BY <2>1, <2>4, <3>1 DEF RegisteredInv, Matches, ReceiveEvent
      <4>2. PICK l : l = [event |-> e, to |-> c]
        OBVIOUS
      <4>3. l.to = c /\ log' = Append(log, l) /\ log \in Seq(LogEntry)
        BY <2>1, <3>1, <4>2 DEF TypeOK, LogEntry
      <4>4. \A i \in (DOMAIN log') \ (DOMAIN log) : log'[i] = l
        BY <4>3
      <4>5. QED
        BY <4>1, <4>3, <4>4
    <3>2. QED
      BY <2>2, <2>4, <3>1 DEF ReceiveEvent
  <2>5. ASSUME NEW c \in Objects, AddComponent(c) PROVE Silent
    BY <2>3, <2>5 DEF AddComponent
  <2>6. ASSUME NEW c \in Objects, NEW k, ReceiveComponent(c, k) PROVE Silent
    BY <2>3, <2>6 DEF ReceiveComponent
  <2>7. ASSUME NEW c \in Objects, NEW k, SetPropertyFromPatch(c, k) PROVE Silent
    BY <2>2, <2>3, <2>7 DEF SetPropertyFromPatch
  <2>8. ASSUME NEW c \in Objects, NEW set, SetConversationUpdateCallback(c, set) PROVE Silent
    BY <2>3, <2>8 DEF SetConversationUpdateCallback
  <2>9. ASSUME NEW c \in Objects, NEW k, ConversationCreated(c, k) PROVE Silent
    BY <2>2, <2>9 DEF ConversationCreated
  <2>10. ASSUME NEW c \in Objects, NEW k,
                \/ AnnounceConversation(c, k) \/ ApplyLocalPatch(c) \/ CreateConversation(c) \/ RemoveComponent(c)
                \/ DropComponent(c) \/ LoseEntity(c)
         PROVE  Silent
    BY <2>2, <2>10 DEF AnnounceConversation, ApplyLocalPatch, CreateConversation, RemoveComponent,
       DropComponent, LoseEntity
  <2>11. CASE UNCHANGED vars
    BY <2>11 DEF vars
  <2> HIDE DEF Silent
  <2>12. QED
    BY <1>1, <2>4, <2>5, <2>6, <2>7, <2>8, <2>9, <2>10, <2>11 DEF Next
<1>2. QED
  BY <1>1, EventsInvariant, PTL DEF Spec, RemovedComponentsStaySilent
=============================================================================
