--------------------------- MODULE SpaceSession ----------------------------
(***************************************************************************)
(* A user's session: logging in and out (UserSystem), entering and leaving *)
(* spaces with an OnlineRealtimeEngine (SpaceSystem), and the connection   *)
(* they share.  Every operation is a chain of continuations: an action is  *)
(* one answer with all the code that runs before the chain waits again.    *)
(* REST requests are answered in any order, with success or failure.       *)
(***************************************************************************)
EXTENDS MultiplayerConnection

CONSTANTS
    Spaces,     \* the spaces of the service, and offline ones
    MaxCalls,   \* bound on the calls of the application
    MaxPages    \* bound on the pages requested after a first one

ASSUME SpacesAssumption == None \notin Spaces
ASSUME BoundsAssumption == MaxCalls \in Nat /\ MaxPages \in Nat

LoginStates == {"LoggedOut", "LoginRequested", "LoggedIn", "LogoutRequested", "Error"}

(***************************************************************************)
(* Where EnterSpace is.  getSpace, addUser, scopes and leader are REST     *)
(* requests, the other three are calls to the hub.  A chain that is "hung" *)
(* has failed inside RefreshMultiplayerConnectionToEnactScopeChange, whose *)
(* error nobody handles: it never calls back.                              *)
(***************************************************************************)
EnterRequests == {"getSpace", "addUser", "scopes", "leader"}
EnterCalls == {"stopListening", "setScopes", "startListening"}

VARIABLES
    LoginState,     \* CurrentLoginState's State
    enter,          \* the EnterSpace in progress: step, engine, space
    exit,           \* the ExitSpace in progress
    attached,       \* MultiplayerRealtimeEngine
    CurrentSpace,
    engineOf,       \* what the application does with each engine
    joined,         \* history: the engine of the EnterSpace that succeeded, until
                    \*   the application leaves, enters or logs out
    patient,        \* the application awaits each callback before its next call
    crashed,        \* std::terminate, or undefined behaviour that ended so
    calls,          \* how many calls the application has made
    pages           \* how many further pages were requested

session == <<LoginState, enter, exit, attached, CurrentSpace, engineOf, joined>>
vars == <<conn, server, faults, session, patient, crashed, calls, pages>>

Idle == [step |-> "idle", engine |-> None, space |-> None]

TypeOK ==
    /\ conn \in Connections
    /\ server \in [scope : Spaces \cup {None}, listening : BOOLEAN]
    /\ faults \in 0..MaxFaults
    /\ LoginState \in LoginStates
    /\ enter \in [step : EnterRequests \cup EnterCalls \cup {"idle", "hung"},
                  engine : Engines \cup {None}, space : Spaces \cup {None}]
    /\ exit \in {"idle", "stopListening", "resetScopes"}
    /\ attached \in Engines \cup {None}
    /\ CurrentSpace \in Spaces \cup {None}
    /\ engineOf \in [Engines -> {"fresh", "used", "left", "released"}]
    /\ joined \in Engines \cup {None}
    /\ patient \in BOOLEAN
    /\ crashed \in BOOLEAN
    /\ calls \in 0..MaxCalls
    /\ pages \in 0..MaxPages

Init ==
    /\ conn = NewConnection
    /\ server = NotListening
    /\ faults = 0
    /\ LoginState = "LoggedOut"
    /\ enter = Idle
    /\ exit = "idle"
    /\ attached = None
    /\ CurrentSpace = None
    /\ engineOf = [e \in Engines |-> "fresh"]
    /\ joined = None
    /\ patient \in BOOLEAN
    /\ crashed = FALSE
    /\ calls = 0
    /\ pages = 0

----------------------------------------------------------------------------
(***************************************************************************)
(* The application.                                                        *)
(***************************************************************************)

\* A call of the application has not been answered.
Waiting ==
    \/ LoginState \in {"LoginRequested", "LogoutRequested"}
    \/ conn.connect # "idle"
    \/ enter.step # "idle"
    \/ exit # "idle"
    \/ "flag" \in conn.registered

\* The application makes a call; Logout's has returned.
AppCall ==
    /\ ~crashed
    /\ patient => ~Waiting
    /\ conn.stops["logout"] = "no"
    /\ calls < MaxCalls
    /\ calls' = calls + 1

\* An Invoke can run: clear() does not hold the lock of the callback map.
MapIsFree == conn.hub # "clearing"

\* Login: TrySetLoginRequested, and the request is sent.
Login ==
    /\ AppCall
    /\ LoginState \in {"LoggedOut", "Error"}
    /\ LoginState' = "LoginRequested"
    /\ UNCHANGED <<conn, server, faults, enter, exit, attached, CurrentSpace,
                   engineOf, joined, patient, crashed, pages>>

\* The answer to the login request.  Success: the connection is made, unless
\* the application asked for none.  A connection over callbacks that an earlier
\* one left in the map (see PageFailed) is not followed.
LoginAnswered ==
    /\ ~crashed
    /\ LoginState = "LoginRequested"
    /\ MapIsFree
    /\ \/ LoginState' = "LoggedIn" /\ conn.registered = {} /\ conn' = Connect(conn)
       \/ LoginState' \in {"LoggedIn", "Error"} /\ UNCHANGED conn
    /\ UNCHANGED <<server, faults, enter, exit, attached, CurrentSpace,
                   engineOf, joined, patient, crashed, calls, pages>>

\* Logout: TrySetLogoutRequested, and Disconnect.
Logout ==
    /\ AppCall
    /\ LoginState = "LoggedIn"
    /\ LoginState' = "LogoutRequested"
    /\ conn' = Disconnect(conn)
    /\ joined' = None
    /\ UNCHANGED <<server, faults, enter, exit, attached, CurrentSpace,
                   engineOf, patient, crashed, pages>>

\* The answer to the logout request, which Disconnect's callback sent.
LogoutAnswered ==
    /\ ~crashed
    /\ conn.logout = "post"
    /\ LoginState' \in {"LoggedOut", "Error"}
    /\ conn' = [conn EXCEPT !.logout = "idle"]
    /\ UNCHANGED <<server, faults, enter, exit, attached, CurrentSpace,
                   engineOf, joined, patient, crashed, calls, pages>>

\* SetAllowSelfMessagingFlag
SetAllowSelfMessagingFlag ==
    /\ AppCall
    /\ conn.Connected
    /\ "flag" \notin conn.registered
    /\ MapIsFree
    /\ conn' = IF conn.hub = "connected" THEN Invoke(conn, "flag") ELSE Refused(conn)
    /\ UNCHANGED <<server, faults, session, patient, crashed, pages>>

\* The application deletes an engine once ExitSpace has called back.
Release(e) ==
    /\ ~crashed
    /\ engineOf[e] = "left"
    /\ engineOf' = [engineOf EXCEPT ![e] = "released"]
    /\ UNCHANGED <<conn, server, faults, LoginState, enter, exit, attached,
                   CurrentSpace, joined, patient, crashed, calls, pages>>

----------------------------------------------------------------------------
(***************************************************************************)
(* EnterSpace.                                                             *)
(***************************************************************************)

\* EnterSpace with an online engine; without a connection it is refused with
\* no effect.
EnterSpace(e, s) ==
    /\ AppCall
    /\ enter = Idle
    /\ conn.Connected
    /\ engineOf[e] # "released"
    /\ e \notin conn.registered
    /\ attached' = e
    /\ enter' = [step |-> "getSpace", engine |-> e, space |-> s]
    /\ engineOf' = [engineOf EXCEPT ![e] = "used"]
    /\ joined' = None
    /\ UNCHANGED <<conn, server, faults, LoginState, exit, CurrentSpace, patient, crashed, pages>>

\* EnterSpace with an offline engine: no connection, and the engine attached
\* to the connection is left as it is.
EnterOfflineSpace(s) ==
    /\ AppCall
    /\ CurrentSpace' = s
    /\ joined' = None
    /\ UNCHANGED <<conn, server, faults, LoginState, enter, exit, attached,
                   engineOf, patient, crashed, pages>>

\* The error handler of EnterSpace: the engine stays attached.
EnterFails == enter' = Idle /\ CurrentSpace' = None

\* The user is in the space: RefreshMultiplayerConnectionToEnactScopeChange
\* calls StopListening, which throws without a connection.
RefreshScopes ==
    /\ MapIsFree
    /\ \/ /\ ~conn.Connected
          /\ EnterFails
          /\ UNCHANGED conn
       \/ /\ conn.Connected
          /\ conn.hub = "connected"
          /\ conn' = Invoke(conn, "enter")
          /\ enter' = [enter EXCEPT !.step = "stopListening"]
          /\ UNCHANGED CurrentSpace
       \/ /\ conn.Connected
          /\ conn.hub # "connected"
          /\ conn' = Refused(conn)
          /\ enter' = [enter EXCEPT !.step = "hung"]
          /\ UNCHANGED CurrentSpace

\* GetSpace, AddUserToSpace or GetScopesBySpace is answered.  Each may fail;
\* GetSpace also fails for a space the user is not invited to.
EnterRequestAnswered ==
    /\ ~crashed
    /\ enter.step \in {"getSpace", "addUser", "scopes"}
    /\ \/ EnterFails /\ UNCHANGED conn
       \/ /\ enter.step \in {"getSpace", "addUser"}
          /\ RefreshScopes
       \/ /\ enter.step = "getSpace"
          /\ enter' = [enter EXCEPT !.step = "addUser"]
          /\ UNCHANGED <<conn, CurrentSpace>>
       \/ /\ enter.step = "scopes"
          /\ enter' = [enter EXCEPT !.step = "leader"]
          /\ UNCHANGED <<conn, CurrentSpace>>
    /\ UNCHANGED <<server, faults, LoginState, exit, attached, engineOf, joined,
                   patient, crashed, calls, pages>>

\* Mutant: the scope change forgets to listen again.
AfterCallDeaf(step) ==
    [stopListening |-> "setScopes", setScopes |-> "scopes",
     startListening |-> "scopes"][step]

\* The step after a call of the scope change: the next call, or the request for
\* the scopes of the space.
AfterCall(step) ==
    [stopListening |-> "setScopes", setScopes |-> "startListening",
     startListening |-> "scopes"][step]

\* A call of the scope change succeeds.
EnterCallAnswered ==
    /\ ~crashed
    /\ Answerable("enter")
    /\ conn.Connected
    /\ enter.step \in EnterCalls
    /\ enter' = [enter EXCEPT !.step = AfterCall(@)]
    /\ \/ /\ enter.step = "stopListening"
          /\ server' = [server EXCEPT !.listening = FALSE]
          /\ UNCHANGED <<conn, CurrentSpace>>
       \/ /\ enter.step = "setScopes"
          /\ server' = [server EXCEPT !.scope = enter.space]
          /\ UNCHANGED <<conn, CurrentSpace>>
       \/ /\ enter.step = "startListening"
          /\ server' = [server EXCEPT !.listening = TRUE]
          /\ conn' = Finish(conn, "enter")
          /\ CurrentSpace' = enter.space
    /\ UNCHANGED <<faults, LoginState, exit, attached, engineOf, joined,
                   patient, crashed, calls, pages>>

\* GetScopeLeader is answered, with any result: the first page is requested and
\* EnterSpace reports success.  Without a connected hub the page's callback
\* throws through a noexcept function.
LeaderAnswered ==
    /\ ~crashed
    /\ enter.step = "leader"
    /\ MapIsFree
    /\ CurrentSpace' = enter.space
    /\ enter' = Idle
    /\ \/ /\ conn.hub = "connected"
          /\ conn' = Invoke(conn, enter.engine)
          /\ joined' = enter.engine
          /\ UNCHANGED crashed
       \/ /\ conn.hub # "connected"
          /\ crashed' = TRUE
          /\ UNCHANGED <<conn, joined>>
    /\ UNCHANGED <<server, faults, LoginState, exit, attached, engineOf, patient, calls, pages>>

\* A page arrives: another one is requested, or the space is complete.
PageAnswered(e) ==
    /\ ~crashed
    /\ Answerable(e)
    /\ \/ /\ pages < MaxPages
          /\ pages' = pages + 1
          /\ UNCHANGED conn
       \/ /\ conn' = Finish(conn, e)
          /\ UNCHANGED pages
    /\ UNCHANGED <<server, faults, session, patient, crashed, calls>>

----------------------------------------------------------------------------
(***************************************************************************)
(* ExitSpace.                                                              *)
(***************************************************************************)

\* ExitSpace calls back: the application may release the engines it used,
\* but for that of an EnterSpace in progress.
Left == [e \in Engines |->
           IF engineOf[e] = "used" /\ enter.engine # e THEN "left" ELSE engineOf[e]]

\* ExitSpace.  Without a connection it reports success at once; a call that is
\* refused runs the error handler, which detaches the engine.
ExitSpace ==
    /\ AppCall
    /\ exit = "idle"
    /\ MapIsFree
    /\ CurrentSpace' = None
    /\ joined' = None
    /\ \/ /\ ~conn.Connected
          /\ engineOf' = Left
          /\ UNCHANGED <<conn, exit, attached>>
       \/ /\ conn.Connected
          /\ conn.hub = "connected"
          /\ conn' = Invoke(conn, "exit")
          /\ exit' = "stopListening"
          /\ UNCHANGED <<attached, engineOf>>
       \/ /\ conn.Connected
          /\ conn.hub # "connected"
          /\ conn' = Refused(conn)
          /\ attached' = None
          /\ engineOf' = Left
          /\ UNCHANGED exit
    /\ UNCHANGED <<server, faults, LoginState, enter, patient, crashed, pages>>

\* StopListening, then ResetScopes is answered with success.
ExitCallAnswered ==
    /\ ~crashed
    /\ Answerable("exit")
    /\ conn.Connected
    /\ \/ /\ exit = "stopListening"
          /\ server' = [server EXCEPT !.listening = FALSE]
          /\ exit' = "resetScopes"
          /\ UNCHANGED <<conn, attached, engineOf>>
       \/ /\ exit = "resetScopes"
          /\ server' = [server EXCEPT !.scope = None]
          /\ exit' = "idle"
          /\ conn' = Finish(conn, "exit")
          /\ attached' = None
          /\ engineOf' = Left
    /\ UNCHANGED <<faults, LoginState, enter, CurrentSpace, joined, patient,
                   crashed, calls, pages>>

FlagAnswered ==
    /\ ~crashed
    /\ Answerable("flag")
    /\ conn' = Finish(conn, "flag")
    /\ UNCHANGED <<server, faults, session, patient, crashed, calls, pages>>

----------------------------------------------------------------------------
(***************************************************************************)
(* Calls that fail: the service answers with an error, or clear() calls    *)
(* the callback of a connection that has closed.                           *)
(***************************************************************************)
CallFails(k) ==
    /\ ~crashed
    /\ k \in conn.registered
    /\ CallbackThreadFree
    /\ \/ conn.hub = "connected" /\ Fault
       \/ conn.hub = "clearing" /\ UNCHANGED faults
    /\ \/ /\ k = "connect"
          /\ conn' = ConnectFailed(conn)
          /\ UNCHANGED <<enter, exit, attached, engineOf>>
       \/ /\ k = "enter"
          /\ conn' = Finish(conn, k)
          /\ enter' = [enter EXCEPT !.step = "hung"]
          /\ UNCHANGED <<exit, attached, engineOf>>
       \/ /\ k = "exit"
          /\ conn' = Finish(conn, k)
          /\ exit' = "idle"
          /\ attached' = None
          /\ engineOf' = Left
          /\ UNCHANGED enter
       \/ /\ k = "flag"
          /\ conn' = Finish(conn, k)
          /\ UNCHANGED <<enter, exit, attached, engineOf>>
       \/ /\ k \in Engines
          /\ conn' = PageFailed(conn, k)
          /\ UNCHANGED <<enter, exit, attached, engineOf>>
    /\ UNCHANGED <<server, LoginState, CurrentSpace, joined, patient, crashed, calls, pages>>

\* A promise that no longer exists was set.
Crash ==
    /\ ~crashed
    /\ conn.ub
    /\ crashed' = TRUE
    /\ UNCHANGED <<conn, server, faults, session, patient, calls, pages>>

\* The call that was the last in flight makes the stop it has found.  A hub
\* that is down runs the lambda at once, inside its noexcept stop: the lambda
\* throws when another stop has taken PendingStopCallback away.
LastCallStops ==
    /\ ~crashed
    /\ conn.ending = "stopping"
    /\ \/ /\ Down(conn) => conn.PendingStopCallback # None
          /\ conn' = HubStop([conn EXCEPT !.ending = "no"], "deferred")
          /\ UNCHANGED crashed
       \/ /\ Down(conn)
          /\ conn.PendingStopCallback = None
          /\ crashed' = TRUE
          /\ UNCHANGED conn
    /\ UNCHANGED <<server, faults, session, patient, calls, pages>>

\* A step of the connection, in a session it leaves alone.
ConnectionAction(Step) ==
    /\ ~crashed
    /\ Step
    /\ UNCHANGED <<session, patient, crashed, calls, pages>>

ConnectionStep ==
    \/ ConnectionAction(StartAnswered)
    \/ ConnectionAction(DeleteEntities)
    \/ ConnectionAction(ConnectAnswered)
    \/ \E who \in Disconnecters : ConnectionAction(StopContinues(who))
    \/ ConnectionAction(CallCountedOff)
    \/ ConnectionAction(Interruption)
    \/ ConnectionAction(RequestToDisconnect)
    \/ ConnectionAction(Closed)
    \/ ConnectionAction(Cleared)

Next ==
    \/ Login \/ LoginAnswered \/ Logout \/ LogoutAnswered
    \/ SetAllowSelfMessagingFlag \/ FlagAnswered
    \/ \E e \in Engines, s \in Spaces : EnterSpace(e, s)
    \/ \E s \in Spaces : EnterOfflineSpace(s)
    \/ EnterRequestAnswered \/ EnterCallAnswered \/ LeaderAnswered
    \/ \E e \in Engines : PageAnswered(e) \/ Release(e)
    \/ ExitSpace \/ ExitCallAnswered
    \/ \E k \in Chains : CallFails(k)
    \/ ConnectionStep \/ LastCallStops
    \/ Crash

(***************************************************************************)
(* The service answers every request and every call it received, a thread  *)
(* that is inside Stop or InvocationCallback goes on, the client closes a  *)
(* transport it was told to close, and clear() runs to its end.  Nothing   *)
(* makes the application call, a fault happen, or the server ask to        *)
(* disconnect: Interruption and RequestToDisconnect have no fairness, and  *)
(* CallFails shares that of the answers.                                   *)
(***************************************************************************)
Answered(k) ==
    \/ k = "connect" /\ ConnectionAction(ConnectAnswered)
    \/ k = "enter" /\ EnterCallAnswered
    \/ k = "exit" /\ ExitCallAnswered
    \/ k = "flag" /\ FlagAnswered
    \/ k \in Engines /\ PageAnswered(k)

Fairness ==
    /\ WF_vars(LoginAnswered)
    /\ WF_vars(LogoutAnswered)
    /\ WF_vars(EnterRequestAnswered \/ LeaderAnswered)
    /\ \A k \in Chains : WF_vars(Answered(k) \/ CallFails(k))
    /\ WF_vars(ConnectionAction(StartAnswered))
    /\ WF_vars(ConnectionAction(DeleteEntities))
    /\ \A who \in Disconnecters : WF_vars(ConnectionAction(StopContinues(who)))
    /\ WF_vars(ConnectionAction(CallCountedOff))
    /\ WF_vars(LastCallStops)
    /\ WF_vars(ConnectionAction(Closed))
    /\ WF_vars(ConnectionAction(Cleared))

Spec == Init /\ [][Next]_vars

FairSpec == Spec /\ Fairness

----------------------------------------------------------------------------
(***************************************************************************)
(* Safety.                                                                 *)
(***************************************************************************)

\* A call is cut by its own client only when it was made after the stop had
\* found no call in flight and before it reached the hub: every call made
\* before that test is waited for (SignalRConnection.h promises it of every
\* call).
OnlyLateCallsAreCut == conn.hub = "disconnecting" => conn.registered \subseteq conn.late

\* Every call in flight is counted, and so is one that has been answered until
\* InvocationCallback is past the count.
CallsAreCounted ==
    Cardinality(conn.registered) + (IF conn.ending = "called" THEN 1 ELSE 0)
        <= conn.PendingInvocations

\* The object still has the StopHandler of a Logout that waits, or it is lost;
\* and while it is stored somebody is going to look for it: a call that is
\* counted, or the last one on its way to the hub.
StopOfLogoutIsKept ==
    conn.logout = "stopping" /\ "logout" \notin conn.lost =>
        \/ conn.stops["logout"] # "no"
        \/ "logout" \in {conn.stopping[i] : i \in DOMAIN conn.stopping}
        \/ conn.PendingStopCallback = "logout" /\ WillBeLookedFor(conn)

\* Who waits for the stop: the caller a stop callback will answer is waiting
\* for it, and is not answered twice.
AwaitedBy(who) ==
    \/ who = "connect" /\ conn.connect = "stopping"
    \/ who = "logout" /\ conn.logout = "stopping"
    \/ who = "server"

StopCallbacksAreAwaited ==
    /\ conn.PendingStopCallback # None => AwaitedBy(conn.PendingStopCallback)
    /\ \A i \in DOMAIN conn.stopping :
         conn.stopping[i] # "deferred" =>
            /\ AwaitedBy(conn.stopping[i])
            /\ conn.stopping[i] # conn.PendingStopCallback
            /\ \A j \in DOMAIN conn.stopping : conn.stopping[j] = conn.stopping[i] => i = j

\* A call in flight was made by a client that is Connected, so no continuation
\* of an answer finds the connection gone in the middle of its chain.
CallsNeedConnection ==
    conn.hub = "connected" /\ conn.registered # {} => conn.Connected

\* For an application that awaits its callbacks: after EnterSpace's success the
\* connection dispatches to the engine it was given, CurrentSpace is the space
\* the service scoped the connection to, and the connection listens, until the
\* application leaves or logs out, or the connection is lost.
SuccessMeansJoined ==
    patient /\ joined # None =>
        /\ attached = joined
        /\ CurrentSpace # None
        /\ conn.hub = "connected" => server = [scope |-> CurrentSpace, listening |-> TRUE]

\* For such an application: logged out means disconnected.
LoggedOutIsDisconnected ==
    patient /\ LoginState = "LoggedOut" =>
        ~conn.Connected /\ conn.hub \notin {"connecting", "connected"}

(***************************************************************************)
(* Liveness.                                                               *)
(***************************************************************************)

\* clear() was left by a page's exception: k's callback will never be called.
Abandoned(k) ==
    /\ conn.hub = "disconnected"
    /\ k \in conn.registered
    /\ Engines \cap conn.registered # {}

\* ExitSpace calls back, and EnterSpace does or is hung by a failed scope
\* change, unless a page's exception abandons the call they wait for; no
\* interruption, and no stop that waits, can block them otherwise.
EnterAndExitAreAnswered ==
    /\ exit # "idle" ~> (exit = "idle" \/ Abandoned("exit") \/ crashed)
    /\ enter.step # "idle" ~>
         (enter.step \in {"idle", "hung"} \/ Abandoned("enter") \/ crashed)

\* The Disconnect of a Logout calls back, whether it stops the connection at
\* once or is held back until the calls in flight are answered, unless the
\* object has lost its callback: another stop has dropped it, or it was stored
\* when the last call had already looked for it.  A page's exception that went
\* past the count of its call makes it wait for a call that is over.
LogoutIsAnswered ==
    conn.logout = "stopping" ~>
        \/ conn.logout # "stopping"
        \/ "logout" \in conn.lost
        \/ conn.skipped
        \/ crashed

(***************************************************************************)
(* "Once the caller has called ExitSpace and received the callback, then   *)
(* they are free to release the memory": nothing refers to an engine that  *)
(* an application that awaits its callbacks has released.                  *)
(***************************************************************************)
ReleasedEnginesAreUnused ==
    patient =>
        \A e \in Engines : engineOf[e] = "released" =>
            ~InFlight(e) /\ ~(conn.hub = "connected" /\ attached = e)
=============================================================================
