------------------------- MODULE ConversationEvents -------------------------
(***************************************************************************)
(* ConversationSpaceComponent and the part of ConversationSystemInternal   *)
(* that brings the events of the other clients to it: on one client, the   *)
(* components with their conversation ids and callbacks, the registered    *)
(* ones, and the events that wait for a component.                         *)
(*                                                                         *)
(* An event comes over the event bus, the id of its conversation with the  *)
(* component, on a page, in a message or in a patch, or with the answer of *)
(* the call that made it, and the callback from the application: in any    *)
(* order.  With SetAllowSelfMessagingFlag the client also receives the     *)
(* events it sends, that of a new conversation before or after the answer  *)
(* that sets its id.  A component object is never deleted, only let go of. *)
(* Calls are made one at a time, and the update callback makes none.       *)
(***************************************************************************)
EXTENDS Naturals, Sequences, FiniteSets

CONSTANTS
    Objects,        \* addresses of ConversationSpaceComponent objects
    Conversations,  \* conversation ids
    Shared,         \* those the other clients made
    MaxEvents,      \* bound on the events received
    MaxCreating,    \* bound on overlapping creations on one component
    None            \* the empty id

ASSUME ConversationsAssumption ==
    Shared \subseteq Conversations /\ None \notin Conversations \cup Objects
ASSUME BoundsAssumption == MaxEvents \in Nat /\ MaxCreating \in Nat

VARIABLES
    place,          \* place[c]: unused; pending, in the patcher; listed, in an entity;
                    \*   removed from an entity; dropped while pending; lost with its entity
    id,             \* id[c]: the property ConversationId
    callback,       \* callback[c]: ConversationUpdateCallback is set
    creating,       \* creating[c]: creations of a conversation under way
    waiting,        \* waiting[k]: the component whose call made k and is not answered yet
    announced,      \* conversations an event may name
    known,          \* conversations whose id some component was given
    Components,     \* the registered components
    Events,         \* the events that wait
    received,       \* received[k]: history, the events received on k
    log,            \* history: the callbacks made
    early,          \* history: conversations whose id was set while their event waited
    unflushed       \* history: those of them not followed by a pass over the events yet

callVars == <<creating, waiting, announced>>
vars == <<place, id, callback, callVars, known, Components, Events, received, log, early, unflushed>>

Event == [on : Conversations, n : 1 .. MaxEvents]

TypeOK ==
    /\ place \in [Objects -> {"unused", "pending", "listed", "removed", "dropped", "lost"}]
    /\ id \in [Objects -> Conversations \cup {None}]
    /\ callback \in [Objects -> BOOLEAN]
    /\ creating \in [Objects -> 0 .. MaxCreating]
    /\ waiting \in [Conversations -> Objects \cup {None}]
    /\ announced \subseteq Conversations
    /\ known \subseteq announced
    /\ Components \subseteq Objects
    /\ Events \in Seq(Event)
    /\ received \in [Conversations -> 0 .. MaxEvents]
    /\ log \in Seq([event : Event, to : Objects])
    /\ unflushed \subseteq early /\ early \subseteq known

Init ==
    /\ place = [c \in Objects |-> "unused"]
    /\ id = [c \in Objects |-> None]
    /\ callback = [c \in Objects |-> FALSE]
    /\ creating = [c \in Objects |-> 0]
    /\ waiting = [k \in Conversations |-> None]
    /\ announced = Shared
    /\ known = Shared
    /\ Components = {}
    /\ Events = <<>>
    /\ received = [k \in Conversations |-> 0]
    /\ log = <<>>
    /\ early = {}
    /\ unflushed = {}

----------------------------------------------------------------------------
(***************************************************************************)
(* Delivery.                                                               *)
(***************************************************************************)

\* The components TrySendEvent may call: the first match of an unordered set.
Matches(k) == {c \in Components' : id'[c] = k /\ callback'[c]}

\* The way through the places in S from the first to the last.
InOrder(S) ==
    {f \in [1 .. Cardinality(S) -> S] :
        /\ \A s \in S : \E i \in DOMAIN f : f[i] = s
        /\ \A i, j \in DOMAIN f : i < j => f[i] < f[j]}

\* The component, if any, that each conversation's events go to.
Picks ==
    {pick \in [Conversations -> Objects \cup {None}] :
        \A k \in Conversations :
            IF Matches(k) = {} THEN pick[k] = None ELSE pick[k] \in Matches(k)}

\* The callbacks of a pass that finds the components of pick.
Calls(pick, f) ==
    [i \in DOMAIN f |-> [event |-> Events[f[i]], to |-> pick[Events[f[i]].on]]]

\* Mutant: the queue is cleared after the pass.
FlushEventsClears ==
    \E pick \in Picks :
        LET sent == {i \in DOMAIN Events : pick[Events[i].on] # None} IN
        /\ \E f \in InOrder(sent) : log' = log \o Calls(pick, f)
        /\ Events' = <<>>
        /\ unflushed' = {}

\* FlushEvents: every event that has a match leaves the queue, in order.
FlushEvents ==
    \E pick \in Picks :
        LET sent == {i \in DOMAIN Events : pick[Events[i].on] # None} IN
        /\ \E f \in InOrder(sent) : log' = log \o Calls(pick, f)
        /\ \E g \in InOrder(DOMAIN Events \ sent) : Events' = [i \in DOMAIN g |-> Events[g[i]]]
        /\ unflushed' = {}

\* The listener of the event bus: the event is delivered or waits.  Nobody can
\* send more than the first event of a conversation, that of its creation,
\* before its id is set.
ReceiveEvent(k) ==
    /\ k \in announced
    /\ k \in known \/ received[k] = 0
    /\ received[k] < MaxEvents
    /\ received' = [received EXCEPT ![k] = @ + 1]
    /\ UNCHANGED <<place, id, callback, callVars, known, Components, early, unflushed>>
    /\ LET e == [on |-> k, n |-> received'[k]] IN
         \/ /\ Matches(k) = {}
            /\ Events' = Append(Events, e)
            /\ UNCHANGED log
         \/ \E c \in Matches(k) :
              /\ log' = Append(log, [event |-> e, to |-> c])
              /\ UNCHANGED Events

----------------------------------------------------------------------------
(***************************************************************************)
(* The life of a component.                                                *)
(***************************************************************************)

\* Mutant: the schema has no default for the id.
AddComponentUnset(c) ==
    /\ place[c] = "unused"
    /\ place' = [place EXCEPT ![c] = "pending"]
    /\ id' = [id EXCEPT ![c] = "unset"]
    /\ Components' = Components \cup {c}
    /\ UNCHANGED <<callback, callVars, known, received, early>>
    /\ FlushEvents

\* AddComponent and OnCreated: the component is registered while it is still
\* in the patcher.
AddComponent(c) ==
    /\ place[c] = "unused"
    /\ place' = [place EXCEPT ![c] = "pending"]
    /\ Components' = Components \cup {c}
    /\ UNCHANGED <<id, callback, callVars, known, received, early>>
    /\ FlushEvents

\* ApplyLocalPatch adds it to its entity.
ApplyLocalPatch(c) ==
    /\ place[c] = "pending"
    /\ place' = [place EXCEPT ![c] = "listed"]
    /\ UNCHANGED <<id, callback, callVars, known, Components, Events, received, log, early, unflushed>>

\* A component arrives with an entity or in a patch, its id set or not yet.
ReceiveComponent(c, k) ==
    /\ place[c] = "unused"
    /\ k \in known \cup {None}
    /\ place' = [place EXCEPT ![c] = "listed"]
    /\ id' = [id EXCEPT ![c] = k]
    /\ Components' = Components \cup {c}
    /\ UNCHANGED <<callback, callVars, known, received, early>>
    /\ FlushEvents

\* Mutant: the events that wait for the id are not flushed.
SetPropertyFromPatchOnly(c, k) ==
    /\ place[c] = "listed"
    /\ k \in known \cup {None}
    /\ id' = [id EXCEPT ![c] = k]
    /\ UNCHANGED <<place, callback, callVars, known, Components, Events, received, log, early, unflushed>>

\* A patch of another client sets the id, or empties it when it crossed the
\* patch that set it.
SetPropertyFromPatch(c, k) ==
    /\ place[c] = "listed"
    /\ k \in known \cup {None}
    /\ id' = [id EXCEPT ![c] = k]
    /\ UNCHANGED <<place, callback, callVars, known, Components, received, early>>
    /\ IF k = None THEN UNCHANGED <<Events, log, unflushed>> ELSE FlushEvents

\* The application keeps no pointer to a component that is gone.
SetConversationUpdateCallback(c, set) ==
    /\ place[c] \in {"pending", "listed"}
    /\ callback[c] # set
    /\ callback' = [callback EXCEPT ![c] = set]
    /\ UNCHANGED <<place, id, callVars, known, Components, received, early>>
    /\ FlushEvents

\* CreateConversation up to its requests.
CreateConversation(c) ==
    /\ place[c] \in {"pending", "listed"}
    /\ id[c] = None
    /\ creating[c] < MaxCreating
    /\ creating' = [creating EXCEPT ![c] = @ + 1]
    /\ UNCHANGED <<place, id, callback, waiting, announced, known, Components, Events, received,
                   log, early, unflushed>>

\* The conversations made for c whose call is not answered yet.
Made(c) == {k \in Conversations : waiting[k] = c}

\* The collection is made and the event NewConversation sent.
AnnounceConversation(c, k) ==
    /\ Cardinality(Made(c)) < creating[c]
    /\ k \notin announced
    /\ waiting' = [waiting EXCEPT ![k] = c]
    /\ announced' = announced \cup {k}
    /\ UNCHANGED <<place, id, callback, creating, known, Components, Events, received, log,
                   early, unflushed>>

\* SetConversationId of the answer.  Nothing is flushed, although the event of
\* the creation may wait by now.
SetConversationId(c, k) ==
    /\ id' = [id EXCEPT ![c] = k]
    /\ known' = known \cup ({k} \ {None})
    /\ LET late == {on \in {k} : \E i \in DOMAIN Events : Events[i].on = on} IN
         early' = early \cup late /\ unflushed' = unflushed \cup late

\* The answer to the call that made k, or to one that made nothing: the new id,
\* or the empty one of a failed result, is set unless the entity is locked by
\* another client.  The entity may be deleted by then, and what IsModifiable
\* reads is arbitrary.
ConversationCreated(c, k) ==
    /\ creating[c] > 0
    /\ IF k = None THEN Cardinality(Made(c)) < creating[c] ELSE k \in Made(c)
    /\ creating' = [creating EXCEPT ![c] = @ - 1]
    /\ waiting' = [j \in Conversations |-> IF j = k THEN None ELSE waiting[j]]
    /\ \/ \E new \in {k, None} : SetConversationId(c, new)
       \/ UNCHANGED <<id, known, early, unflushed>>
    /\ UNCHANGED <<place, callback, announced, Components, Events, received, log>>

\* Mutant: the component stays registered.
RemoveComponentOnly(c) ==
    /\ place[c] = "listed"
    /\ place' = [place EXCEPT ![c] = "removed"]
    /\ UNCHANGED <<id, callback, callVars, known, Components, Events, received, log, early, unflushed>>

\* RemoveComponentDirect and OnRemove, of a local or a received removal.
RemoveComponent(c) ==
    /\ place[c] = "listed"
    /\ place' = [place EXCEPT ![c] = "removed"]
    /\ Components' = Components \ {c}
    /\ UNCHANGED <<id, callback, callVars, known, Events, received, log, early, unflushed>>

\* RemoveComponent of a component that is still in the patcher: it leaves the
\* patcher and stays registered.
DropComponent(c) ==
    /\ place[c] = "pending"
    /\ place' = [place EXCEPT ![c] = "dropped"]
    /\ UNCHANGED <<id, callback, callVars, known, Components, Events, received, log, early, unflushed>>

\* The entity is deleted, here, elsewhere, or because the space was left: its
\* components stay registered.
LoseEntity(c) ==
    /\ place[c] \in {"pending", "listed"}
    /\ place' = [place EXCEPT ![c] = "lost"]
    /\ UNCHANGED <<id, callback, callVars, known, Components, Events, received, log, early, unflushed>>

Next ==
    \/ \E k \in Conversations : ReceiveEvent(k)
    \/ \E c \in Objects :
         \/ AddComponent(c) \/ ApplyLocalPatch(c)
         \/ \E k \in Conversations \cup {None} :
              ReceiveComponent(c, k) \/ SetPropertyFromPatch(c, k) \/ ConversationCreated(c, k)
         \/ \E k \in Conversations : AnnounceConversation(c, k)
         \/ \E set \in BOOLEAN : SetConversationUpdateCallback(c, set)
         \/ CreateConversation(c)
         \/ RemoveComponent(c) \/ DropComponent(c) \/ LoseEntity(c)

Spec == Init /\ [][Next]_vars

----------------------------------------------------------------------------
(***************************************************************************)
(* Properties.                                                             *)
(***************************************************************************)

\* Of two events on one conversation, e came first, or f is that of its creation
\* and came before the answer that set the id.
Before(e, f) == e.on = f.on => e.n < f.n \/ (f.n = 1 /\ 1 < e.n /\ f.on \in early)

\* What was delivered of a conversation, followed by what waits, is what was
\* received: TrySendEvent and FlushEvents lose and repeat nothing, whatever
\* becomes of the components in between, and later events overtake only the
\* event of a creation that came before the answer that set the id.
EventsKeepTheirOrder ==
    /\ \A i, j \in DOMAIN log : i < j => Before(log[i].event, log[j].event)
    /\ \A i, j \in DOMAIN Events : i < j => Before(Events[i], Events[j])
    /\ \A i \in DOMAIN log : \A j \in DOMAIN Events : Before(log[i].event, Events[j])
    /\ \A e \in Event :
          e.n <= received[e.on] <=>
              (\E i \in DOMAIN log : log[i].event = e) \/ (\E i \in DOMAIN Events : Events[i] = e)

\* An event that a registered component could be given waits only when it is
\* the client's own event of a creation and came before the answer that set
\* the id, and only until the next pass over the events: SetConversationId
\* makes none.
NoEventIsForgotten ==
    \A i \in DOMAIN Events : \A c \in Components :
        id[c] = Events[i].on /\ callback[c] => Events[i].n = 1 /\ Events[i].on \in unflushed

\* OnRemove: a component that was removed from its entity is not called again.
RemovedComponentsStaySilent ==
    [][\A i \in (DOMAIN log') \ (DOMAIN log) : place[log'[i].to] # "removed"]_vars
=============================================================================
