-------------------------- MODULE ScopeLeadership --------------------------
(***************************************************************************)
(* Server-side leader election for the default scope of a space, as seen   *)
(* by every client: the ScopeLeadershipManager each OnlineRealtimeEngine   *)
(* owns, the registration of the scope while a space is being entered, and *)
(* the scripts that only the leader may run.                               *)
(*                                                                         *)
(* The server is external.  It elects a listening client, vacates a leader *)
(* whose heartbeats stop or that left, and tells every listening client    *)
(* over that client's SignalR connection, which keeps the order of events. *)
(* The answer to the REST request GetScopeLeader takes another road, so it *)
(* may be overtaken by those events.                                       *)
(***************************************************************************)
EXTENDS Naturals, Sequences

CONSTANTS
    Clients,    \* the clients that may enter the space
    None,       \* std::nullopt: no leader
    MaxInbox    \* bound on the events in flight to one client

ASSUME NoneAssumption == None \notin Clients
ASSUME MaxInboxAssumption == MaxInbox \in Nat \ {0}

Leader == Clients \cup {None}

(***************************************************************************)
(* How far a client is in EnterSpace / ExitSpace.                          *)
(*   out        no engine exists                                           *)
(*   joined     listening to the scope, LeaderElectionManager not created  *)
(*   asked      manager created, GetScopeLeader sent                       *)
(*   answered   the server has computed the answer, not yet received       *)
(*   in         scope registered, EnterSpace reported, entities paged in   *)
(*   leaving    StopListening acted on by the server                       *)
(*   detached   SetOnlineRealtimeEngine(nullptr) done, engine still ticks  *)
(***************************************************************************)
Phases == {"out", "joined", "asked", "answered", "in", "leaving", "detached"}

VARIABLES
    serverLeader,   \* who the server says leads the scope
    heard,          \* the server heard the leader's heartbeat this interval
    inbox,          \* inbox[c]: leaders announced to c (None: vacated), in order
    phase,          \* phase[c]: see Phases
    answer,         \* answer[c]: what GetScopeLeader will return to c
    manager,        \* manager[c]: LeaderElectionManager # nullptr
    registered,     \* registered[c]: the scope is a key of Scopes
    view,           \* view[c]: LeaderClientId in Scopes, None for nullopt
    due,            \* due[c]: the heartbeat interval has passed
    tickEnabled,    \* tickEnabled[c]: EnableEntityTick
    scriptListener, \* scriptListener[c]: listening for remote script events
    informed,       \* history: c applied an event since it registered
    elected         \* history: the clients announced as leader so far

server  == <<serverLeader, heard>>
engine  == <<manager, registered, view, due, tickEnabled, scriptListener>>
vars == <<server, inbox, phase, answer, engine, informed, elected>>

Answers == Leader \cup {"failed"}

TypeOK ==
    /\ serverLeader \in Leader
    /\ heard \in BOOLEAN
    /\ inbox \in [Clients -> Seq(Leader)]
    /\ phase \in [Clients -> Phases]
    /\ answer \in [Clients -> Answers]
    /\ manager \in [Clients -> BOOLEAN]
    /\ registered \in [Clients -> BOOLEAN]
    /\ view \in [Clients -> Leader]
    /\ due \in [Clients -> BOOLEAN]
    /\ tickEnabled \in [Clients -> BOOLEAN]
    /\ scriptListener \in [Clients -> BOOLEAN]
    /\ informed \in [Clients -> BOOLEAN]
    /\ elected \subseteq Clients

Init ==
    /\ serverLeader = None
    /\ heard = FALSE
    /\ inbox = [c \in Clients |-> <<>>]
    /\ phase = [c \in Clients |-> "out"]
    /\ answer = [c \in Clients |-> None]
    /\ manager = [c \in Clients |-> FALSE]
    /\ registered = [c \in Clients |-> FALSE]
    /\ view = [c \in Clients |-> None]
    /\ due = [c \in Clients |-> TRUE]
    /\ tickEnabled = [c \in Clients |-> FALSE]
    /\ scriptListener = [c \in Clients |-> FALSE]
    /\ informed = [c \in Clients |-> FALSE]
    /\ elected = {}

-----------------------------------------------------------------------------
(* The server (external).                                                  *)

Listening(c) == phase[c] \in Phases \ {"out", "leaving", "detached"}

\* Every listening client is told that l leads the scope now (None: vacated).
Announce(l) ==
    /\ \A c \in Clients : Listening(c) => Len(inbox[c]) < MaxInbox
    /\ serverLeader' = l
    /\ heard' = TRUE
    /\ inbox' = [c \in Clients |-> IF Listening(c) THEN Append(inbox[c], l) ELSE inbox[c]]
    /\ elected' = elected \cup ({l} \ {None})
    /\ UNCHANGED <<phase, answer, engine, informed>>

ServerElects(c) ==
    /\ serverLeader = None
    /\ Listening(c)
    /\ Announce(c)

ServerNoticesLeaderLeft ==
    /\ serverLeader # None
    /\ ~Listening(serverLeader)
    /\ Announce(None)

\* The time the server waits for a heartbeat is over.
ServerInterval ==
    /\ serverLeader # None
    /\ \/ /\ heard
          /\ heard' = FALSE
          /\ UNCHANGED <<serverLeader, inbox, phase, answer, engine, informed, elected>>
       \/ /\ ~heard
          /\ Announce(None)

\* A client asked to be made the leader; the scope may still have another.
AssumeScopeLeadership(c) ==
    /\ Listening(c)
    /\ serverLeader # c
    /\ Announce(c)

-----------------------------------------------------------------------------
(* Entering and leaving the space.                                         *)

\* RefreshMultiplayerConnectionToEnactScopeChange: scopes set, listening.
StartListening(c) ==
    /\ phase[c] = "out"
    /\ phase' = [phase EXCEPT ![c] = "joined"]
    /\ UNCHANGED <<server, inbox, answer, engine, informed, elected>>

\* Variant: the listener outlives the manager.
ResetManagerKeepsListener(c, enabled) ==
    /\ manager' = [manager EXCEPT ![c] = enabled]
    /\ registered' = [registered EXCEPT ![c] = FALSE]
    /\ view' = [view EXCEPT ![c] = None]
    /\ due' = [due EXCEPT ![c] = TRUE]
    /\ informed' = [informed EXCEPT ![c] = FALSE]
    /\ UNCHANGED scriptListener

\* DisableLeaderElection: if there is a manager, stop listening for script
\* events and drop it.
ResetManager(c, enabled) ==
    /\ manager' = [manager EXCEPT ![c] = enabled]
    /\ registered' = [registered EXCEPT ![c] = FALSE]
    /\ view' = [view EXCEPT ![c] = None]
    /\ due' = [due EXCEPT ![c] = TRUE]
    /\ scriptListener' = [scriptListener EXCEPT ![c] = @ /\ ~manager[c]]
    /\ informed' = [informed EXCEPT ![c] = FALSE]

\* The scopes of the space are known: make a manager, ask who leads.
EnableLeaderElection(c) ==
    /\ phase[c] = "joined"
    /\ phase' = [phase EXCEPT ![c] = "asked"]
    /\ ResetManager(c, TRUE)
    /\ UNCHANGED <<server, inbox, answer, tickEnabled, elected>>

DisableLeaderElection(c) ==
    /\ phase[c] # "out"
    /\ manager[c]
    /\ ResetManager(c, FALSE)
    /\ UNCHANGED <<server, inbox, phase, answer, tickEnabled, elected>>

GetScopeLeaderAnswered(c) ==
    /\ phase[c] = "asked"
    /\ phase' = [phase EXCEPT ![c] = "answered"]
    /\ \E a \in {serverLeader, "failed"} : answer' = [answer EXCEPT ![c] = a]
    /\ UNCHANGED <<server, inbox, engine, informed, elected>>

\* A failed answer holds an empty ScopeId: a scope the server never speaks of
\* is registered, and the default scope's is not.
RegisterDefaultScope(c) ==
    /\ phase[c] = "answered"
    /\ phase' = [phase EXCEPT ![c] = "in"]
    /\ IF manager[c] /\ answer[c] # "failed"
       THEN /\ registered' = [registered EXCEPT ![c] = TRUE]
            /\ view' = [view EXCEPT ![c] = answer[c]]
            /\ due' = [due EXCEPT ![c] = TRUE]
       ELSE UNCHANGED <<registered, view, due>>
    /\ answer' = [answer EXCEPT ![c] = None]
    /\ UNCHANGED <<server, inbox, manager, tickEnabled, scriptListener, informed, elected>>

\* The last page of entities arrived, possibly after the space was left.
FetchComplete(c) ==
    /\ phase[c] \in {"in", "leaving", "detached"}
    /\ ~tickEnabled[c]
    /\ tickEnabled' = [tickEnabled EXCEPT ![c] = TRUE]
    /\ scriptListener' = [scriptListener EXCEPT ![c] = @ \/ manager[c]]
    /\ UNCHANGED <<server, inbox, phase, answer, manager, registered, view, due, informed,
                   elected>>

ExitSpace(c) ==
    /\ phase[c] = "in"
    /\ phase' = [phase EXCEPT ![c] = "leaving"]
    /\ UNCHANGED <<server, inbox, answer, engine, informed, elected>>

\* The answers to StopListening and ResetScopes come after every event.
DetachEngine(c) ==
    /\ phase[c] = "leaving"
    /\ inbox[c] = <<>>
    /\ phase' = [phase EXCEPT ![c] = "detached"]
    /\ UNCHANGED <<server, inbox, answer, engine, informed, elected>>

\* ~OnlineRealtimeEngine, which calls DisableLeaderElection.
DestroyEngine(c) ==
    /\ phase[c] = "detached"
    /\ phase' = [phase EXCEPT ![c] = "out"]
    /\ tickEnabled' = [tickEnabled EXCEPT ![c] = FALSE]
    /\ ResetManager(c, FALSE)
    /\ UNCHANGED <<server, inbox, answer, elected>>

-----------------------------------------------------------------------------
(* ScopeLeadershipManager.                                                 *)

\* Variant: a leader that is already stored is not overwritten.
SetLeaderIfVacant(c, l) ==
    /\ view' = [view EXCEPT ![c] = IF @ = None \/ l = None THEN l ELSE @]
    /\ due' = [due EXCEPT ![c] = TRUE]
    /\ informed' = [informed EXCEPT ![c] = TRUE]

\* Only a registered scope is tracked; an elected leader overwrites another.
SetLeader(c, l) ==
    /\ view' = [view EXCEPT ![c] = l]
    /\ due' = [due EXCEPT ![c] = TRUE]
    /\ informed' = [informed EXCEPT ![c] = TRUE]

OnElectedScopeLeader(c) ==
    /\ inbox[c] # <<>>
    /\ Head(inbox[c]) # None
    /\ inbox' = [inbox EXCEPT ![c] = Tail(@)]
    /\ IF manager[c] /\ registered[c]
       THEN SetLeader(c, Head(inbox[c]))
       ELSE UNCHANGED <<view, due, informed>>
    /\ UNCHANGED <<server, phase, answer, manager, registered, tickEnabled, scriptListener,
                   elected>>

\* The event does not say whose leadership ended: whatever leader is stored
\* is dropped.
OnVacatedAsScopeLeader(c) ==
    /\ inbox[c] # <<>>
    /\ Head(inbox[c]) = None
    /\ inbox' = [inbox EXCEPT ![c] = Tail(@)]
    /\ IF manager[c] /\ registered[c]
       THEN SetLeader(c, None)
       ELSE UNCHANGED <<view, due, informed>>
    /\ UNCHANGED <<server, phase, answer, manager, registered, tickEnabled, scriptListener,
                   elected>>

\* Variant: a scope without a leader counts as one's own.
BelievesLeaderIfVacant(c) == manager[c] /\ registered[c] /\ view[c] \in {c, None}

\* ScopeLeadershipManager::IsLocalClientLeader
BelievesLeader(c) == manager[c] /\ registered[c] /\ view[c] = c

\* OnlineRealtimeEngine::IsLocalClientLeader, CheckIfWeShouldRunScriptsLocally
IsLocalClientLeader(c) == manager[c] => BelievesLeader(c)

\* What TickEntities asks before it ticks the scripts.
TicksScripts(c) == tickEnabled[c] /\ IsLocalClientLeader(c)

HeartbeatIntervalElapses(c) ==
    /\ ~due[c]
    /\ due' = [due EXCEPT ![c] = TRUE]
    /\ UNCHANGED <<server, inbox, phase, answer, manager, registered, view, tickEnabled,
                   scriptListener, informed, elected>>

\* Variant: the heartbeat is sent without asking who leads.
SendHeartbeatAlways(c) ==
    /\ tickEnabled[c]
    /\ due[c]
    /\ due' = [due EXCEPT ![c] = FALSE]
    /\ heard' = (heard \/ serverLeader = c)
    /\ UNCHANGED <<serverLeader, inbox, phase, answer, manager, registered, view, tickEnabled,
                   scriptListener, informed, elected>>

SendHeartbeatIfElectedScopeLeader(c) ==
    /\ tickEnabled[c]
    /\ BelievesLeader(c)
    /\ due[c]
    /\ due' = [due EXCEPT ![c] = FALSE]
    /\ heard' = (heard \/ serverLeader = c)
    /\ UNCHANGED <<serverLeader, inbox, phase, answer, manager, registered, view, tickEnabled,
                   scriptListener, informed, elected>>

-----------------------------------------------------------------------------
Next ==
    \/ ServerNoticesLeaderLeft
    \/ ServerInterval
    \/ \E c \in Clients :
        \/ ServerElects(c)
        \/ AssumeScopeLeadership(c)
        \/ StartListening(c)
        \/ EnableLeaderElection(c)
        \/ DisableLeaderElection(c)
        \/ GetScopeLeaderAnswered(c)
        \/ RegisterDefaultScope(c)
        \/ FetchComplete(c)
        \/ ExitSpace(c)
        \/ DetachEngine(c)
        \/ DestroyEngine(c)
        \/ OnElectedScopeLeader(c)
        \/ OnVacatedAsScopeLeader(c)
        \/ HeartbeatIntervalElapses(c)
        \/ SendHeartbeatIfElectedScopeLeader(c)

(***************************************************************************)
(* Fairness.  SignalR delivers what it queued, the server's heartbeat      *)
(* timeout expires and a left leader is noticed, as                        *)
(* ScopeLeadershipManager.h says of the service.                           *)
(***************************************************************************)
Fairness ==
    /\ WF_vars(ServerInterval)
    /\ WF_vars(ServerNoticesLeaderLeft)
    /\ \A c \in Clients : WF_vars(OnElectedScopeLeader(c) \/ OnVacatedAsScopeLeader(c))

Spec == Init /\ [][Next]_vars /\ Fairness

-----------------------------------------------------------------------------
(* Properties.                                                             *)

\* The leaders the server has announced, and no leader.
Announced == elected \cup {None}

\* Where c's view will be once every event in flight to it was handled.
SettledView(c) == IF inbox[c] = <<>> THEN view[c] ELSE inbox[c][Len(inbox[c])]

(***************************************************************************)
(* A client that registered the scope and has handled one election event   *)
(* since then is, up to the events still in flight, always in agreement    *)
(* with the server about who leads: OnElectedScopeLeader and               *)
(* OnVacatedAsScopeLeader lose nothing, in spite of vacate events that do  *)
(* not name a leader, overwritten leaders and heartbeats.                  *)
(***************************************************************************)
InformedViewsFollowServer ==
    \A c \in Clients :
        Listening(c) /\ registered[c] /\ informed[c] => SettledView(c) = serverLeader

(***************************************************************************)
(* With leader election on, a client ticks scripts only if the server      *)
(* announced it as the leader at some time: no order of registration,      *)
(* stale GetScopeLeader answers and events invents a leader (TickEntities).*)
(***************************************************************************)
OnlyElectedClientsTick ==
    \A c \in Clients : manager[c] /\ TicksScripts(c) => c \in elected

(***************************************************************************)
(* OnRemoteRunScriptEvent uses LeaderElectionManager without a null check: *)
(* whenever the listener that calls it is registered, the manager exists.  *)
(***************************************************************************)
ScriptListenerHasManager ==
    \A c \in Clients : scriptListener[c] => manager[c]

(***************************************************************************)
(* What makes the safety properties inductive: the last event in flight is *)
(* the server's present state, a client without a subscription has nothing *)
(* in flight, one that is still entering has registered and been told      *)
(* nothing, no scope is registered without a manager, and every leader     *)
(* stored anywhere was announced.                                          *)
(***************************************************************************)
InboxEndsAtServer ==
    \A c \in Clients :
        Listening(c) /\ inbox[c] # <<>> => inbox[c][Len(inbox[c])] = serverLeader

OutsideNothingIsKnown ==
    \A c \in Clients :
        /\ phase[c] \in {"detached", "out"} => inbox[c] = <<>>
        /\ phase[c] \in {"out", "joined", "asked", "answered"} => ~registered[c] /\ ~informed[c]
        /\ registered[c] => manager[c]

StoredLeadersWereAnnounced ==
    /\ serverLeader \in Announced
    /\ \A c \in Clients :
        /\ view[c] \in Announced
        /\ answer[c] \in Announced \cup {"failed"}
        /\ \A i \in 1 .. Len(inbox[c]) : inbox[c][i] \in Announced

LeadershipInv ==
    /\ TypeOK
    /\ InformedViewsFollowServer
    /\ InboxEndsAtServer
    /\ OutsideNothingIsKnown
    /\ StoredLeadersWereAnnounced
    /\ ScriptListenerHasManager

(***************************************************************************)
(* A client that was elected but does not know it (the event came before   *)
(* RegisterDefaultScope, or the registration failed) does not keep the     *)
(* scope leaderless for ever: it sends no heartbeat, so the server takes   *)
(* the leadership away unless the client learns of it.                     *)
(***************************************************************************)
UnawareLeaderIsReplaced ==
    \A c \in Clients :
        (serverLeader = c /\ ~BelievesLeader(c)) ~> (serverLeader # c \/ BelievesLeader(c))
=============================================================================
