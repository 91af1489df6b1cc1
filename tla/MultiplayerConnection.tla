----------------------- MODULE MultiplayerConnection -----------------------
(***************************************************************************)
(* The connection to the multiplayer service: MultiplayerConnection, the   *)
(* SignalRConnection below it, which holds a stop back until the calls in  *)
(* flight are answered, and the SignalR client's hub connection.           *)
(*                                                                         *)
(* The object's state is one record, conn.  A handler makes several calls  *)
(* into the object one after the other, callbacks inside callbacks, all on *)
(* the thread that runs it; each call is a function from a connection to   *)
(* the connection it leaves, and a handler composes them.                  *)
(*                                                                         *)
(* Nothing locks SignalRConnection: PendingInvocations is atomic, but Stop *)
(* acts on a count it has read before, and InvocationCallback counts its   *)
(* call off, looks for a stop and makes it one after the other, on another *)
(* thread.  These are steps of their own: "stops" and "ending".  Answers,  *)
(* the messages of the server and the end of the connection are handled    *)
(* one at a time, by the thread that receives: CallbackThreadFree.         *)
(***************************************************************************)
EXTENDS Integers, Sequences, FiniteSets

CONSTANTS
    Engines,    \* the application's OnlineRealtimeEngines; each has one page
                \*   request in flight at most, named by the engine
    None,       \* nullptr, an empty std::function, an empty Space
    MaxFaults   \* bound on the faults of a behaviour: calls answered with an
                \*   error, interruptions, requests to disconnect

(***************************************************************************)
(* The chains of calls to the hub.  A chain has one call in flight at      *)
(* most: the next is made by the continuation of the one before.           *)
(***************************************************************************)
Chains == {"connect", "enter", "exit", "flag"} \cup Engines

ASSUME EnginesAssumption ==
    /\ IsFiniteSet(Engines)
    /\ None \notin Engines
    /\ Engines \cap {"connect", "enter", "exit", "flag"} = {}

\* Who asks for the connection to be stopped: a Connect that failed, Logout,
\* and the server (OnRequestToDisconnect).
Stoppers == {"connect", "logout", "server"}

ASSUME NoneIsNoStopper == None \notin Stoppers

ASSUME MaxFaultsAssumption == MaxFaults \in Nat

\* What hub_connection::stop is given: a stopper's own StopHandler, or the
\* lambda of the last call in flight, which runs PendingStopCallback.
StopCallbacks == Stoppers \cup {"deferred"}

(***************************************************************************)
(* The hub connection.  "failing" is disconnecting because a callback      *)
(* threw; "clearing" is disconnected with callback_manager::clear still    *)
(* running, which holds the lock of the callback map, so an Invoke on      *)
(* another thread waits for it.                                            *)
(***************************************************************************)
HubStates == {"disconnected", "connecting", "connected",
              "disconnecting", "failing", "clearing"}

\* "started": Start() has succeeded, its continuation goes on to DeleteEntities.
ConnectSteps == {"idle", "start", "started", "delete", "clientId", "listen", "stopping"}

\* Who can find no call in flight when it stops the connection: a Connect that
\* failed stops it while its own call is counted.
Disconnecters == {"logout", "server"}

VARIABLES
    conn,       \* the connection object and the callers that wait on it
    server,     \* what the service holds for this connection (external)
    faults      \* faults so far: see MaxFaults

Connections ==
    [hub                 : HubStates,
     Connected           : BOOLEAN,
     registered          : SUBSET Chains,       \* m_callbacks
     PendingInvocations  : Nat,
     PendingStopCallback : Stoppers \cup {None},
     stopping            : Seq(StopCallbacks),  \* m_stop_callbacks
     connect             : ConnectSteps,        \* the chain of Connect
     logout              : {"idle", "stopping", "post"},
     stops               : [Disconnecters -> {"no", "now", "later"}],
                                    \* a Stop that has read the count: what it will do
     ending              : {"no", "called", "stopping"},
                                    \* the InvocationCallback that runs: its Callback
                                    \*   has run, or it has found a stop to make
     ub                  : BOOLEAN,             \* a dead std::promise was set
     late                : SUBSET Chains,       \* history: the calls made while a
                                    \*   stop had found no call in flight
     lost                : SUBSET Stoppers,     \* history: whose StopHandler was
                                    \*   dropped, or stored when nobody looks for it
     skipped             : BOOLEAN]             \* history: an exception went past
                                    \*   the count of a call

NewConnection ==
    [hub |-> "disconnected", Connected |-> FALSE, registered |-> {},
     PendingInvocations |-> 0, PendingStopCallback |-> None,
     stopping |-> <<>>, connect |-> "idle", logout |-> "idle",
     stops |-> [who \in Disconnecters |-> "no"], ending |-> "no", ub |-> FALSE,
     late |-> {}, lost |-> {}, skipped |-> FALSE]

NotListening == [scope |-> None, listening |-> FALSE]

----------------------------------------------------------------------------
(***************************************************************************)
(* Stopping.                                                               *)
(***************************************************************************)

\* The StopHandlers of the callers in D run: Connected is cleared and each
\* caller's Callback is called.  Login's returns to the application, Logout's
\* sends the logout request.
StopHandlers(c, D) ==
    [c EXCEPT !.Connected = @ /\ D = {},
              !.connect = IF "connect" \in D THEN "idle" ELSE @,
              !.logout  = IF "logout" \in D THEN "post" ELSE @,
              !.lost    = @ \ D]

\* Mutant: the lambda does not clear PendingStopCallback.
DeferredStopKept(c) ==
    StopHandlers([c EXCEPT !.ub = @ \/ c.PendingStopCallback = "server"],
                 {c.PendingStopCallback})

\* The lambda given to stop by the last call in flight.  The handler of
\* OnRequestToDisconnect has long given up, and its promise is gone, when a
\* stop it asked for was deferred: calls are answered on the thread it blocks.
DeferredStop(c) ==
    StopHandlers([c EXCEPT !.PendingStopCallback = None,
                           !.ub = @ \/ c.PendingStopCallback = "server"],
                 {c.PendingStopCallback})

\* hub_connection_impl::stop.  A connection that is down answers at once, and
\* so does one that is going down because of a callback's exception (its stop
\* callback is told the stop was cancelled).
Down(c) == c.hub \in {"disconnected", "clearing", "failing"}

HubStop(c, cb) ==
    IF Down(c)
    THEN IF cb = "deferred" THEN DeferredStop(c) ELSE StopHandlers(c, {cb})
    ELSE [c EXCEPT !.hub = "disconnecting", !.stopping = Append(@, cb)]

\* Mutant: the stop does not look at the calls in flight.
StopTestsNothing(c, who) == [c EXCEPT !.stops[who] = "now"]

\* SignalRConnection::Stop, its test of the count
StopTests(c, who) ==
    [c EXCEPT !.stops[who] = IF c.PendingInvocations = 0 THEN "now" ELSE "later"]

\* Somebody will look at PendingStopCallback: a call that is still counted, or
\* one that has found a stop to make and given the hub its lambda, or is to.
WillBeLookedFor(c) ==
    \/ c.PendingInvocations > 0
    \/ c.ending = "stopping"
    \/ "deferred" \in {c.stopping[i] : i \in DOMAIN c.stopping}

\* PendingStopCallback = Callback.  The caller whose callback was there is lost,
\* and so is this one when the last call has already looked.
StoreStop(c, who) ==
    [c EXCEPT !.PendingStopCallback = who,
              !.lost = (@ \cup ({c.PendingStopCallback} \ {None, who}))
                          \cup (IF WillBeLookedFor(c) THEN {} ELSE {who})]

\* PendingStopCallback = nullptr
DropStop(c) ==
    [c EXCEPT !.PendingStopCallback = None,
              !.lost = @ \cup ({c.PendingStopCallback} \ {None})]

\* The rest of SignalRConnection::Stop
StopActs(c, who) ==
    LET d == [c EXCEPT !.stops[who] = "no"]
    IN  IF c.stops[who] = "now" THEN HubStop(DropStop(d), who) ELSE StoreStop(d, who)

\* DisconnectWithReason, MultiplayerConnection::Stop
DisconnectWithReason(c, who) ==
    IF c.Connected THEN StopTests(c, who) ELSE StopHandlers(c, {who})

\* The stop callbacks when the transport has closed.  A deferred lambda that
\* finds PendingStopCallback empty throws, and those after it are not called.
RunStopCallbacks(c) ==
    LET deferred == {i \in DOMAIN c.stopping : c.stopping[i] = "deferred"}
        throws   == {i \in deferred : \/ c.PendingStopCallback = None
                                      \/ \E j \in deferred : j < i}
        ran      == {i \in DOMAIN c.stopping : \A t \in throws : i < t}
        direct   == {c.stopping[i] : i \in ran \ deferred}
        skipped  == {c.stopping[i] : i \in (DOMAIN c.stopping) \ (ran \cup deferred)}
        d        == [c EXCEPT !.stopping = <<>>, !.lost = @ \cup skipped]
    IN  StopHandlers(IF ran \cap deferred = {} THEN d ELSE DeferredStop(d), direct)

----------------------------------------------------------------------------
(***************************************************************************)
(* Calls.                                                                  *)
(***************************************************************************)

\* A stop has found no call in flight, and is still to reach the hub.
StopIsUnderWay(c) ==
    \/ \E who \in Disconnecters : c.stops[who] = "now"
    \/ c.ending = "stopping"

\* Invoke of a hub that is connected: the call is counted and registered.
Invoke(c, k) == [c EXCEPT !.PendingInvocations = @ + 1,
                          !.registered = @ \cup {k},
                          !.late = IF StopIsUnderWay(c) THEN @ \cup {k} ELSE @]

\* k's callback is called for the last time; the count comes after it.
Finish(c, k) == [c EXCEPT !.registered = @ \ {k}, !.late = @ \ {k},
                          !.ending = "called"]

\* Mutant: the last call in flight does not look for a stop that waits for it.
CountedOffAlone(c) == [c EXCEPT !.PendingInvocations = @ - 1, !.ending = "no"]

\* InvocationCallback counts its call off and looks for a stop that waits.
CountedOff(c) ==
    [c EXCEPT !.PendingInvocations = @ - 1,
              !.ending = IF c.PendingStopCallback # None /\ c.PendingInvocations = 1
                         THEN "stopping" ELSE "no"]

\* Invoke of a hub that is not connected, on a thread of the application or of
\* a request: before it returns, the callback is called with an error, the
\* call is counted off, and a stop that waits is made.
Refused(c) ==
    IF c.PendingStopCallback # None /\ c.PendingInvocations = 0
    THEN HubStop(c, "deferred") ELSE c

\* A call of Connect's chain has failed: the chain's error handler stops the
\* connection while that call is still counted.
ConnectFailed(c) ==
    LET d == [Finish(c, "connect") EXCEPT !.connect = "stopping"]
    IN  IF c.Connected THEN StoreStop(d, "connect") ELSE StopHandlers(d, {"connect"})

\* The callback of a page request is called with an error.  as_array() throws
\* out of it, past the count.  process_message stops the hub; clear() is left
\* in the middle, with what it had not called still registered.
PageFailed(c, e) ==
    LET d == [c EXCEPT !.skipped = TRUE]
    IN  IF c.hub = "connected"
        THEN [d EXCEPT !.hub = "failing", !.registered = @ \ {e}, !.late = @ \ {e}]
        ELSE RunStopCallbacks([d EXCEPT !.hub = "disconnected"])

(***************************************************************************)
(* Connect, from Login's callback.  A second Connect is answered at once,  *)
(* with AlreadyConnected or with the error of hub_connection::start.       *)
(***************************************************************************)
Connect(c) ==
    IF ~c.Connected /\ c.hub = "disconnected"
    THEN [c EXCEPT !.hub = "connecting", !.connect = "start"]
    ELSE c

\* Mutant: Logout does not await the disconnection.
DisconnectUnawaited(c) ==
    [DisconnectWithReason([c EXCEPT !.logout = "stopping"], "logout")
        EXCEPT !.logout = "post"]

\* Disconnect, from Logout
Disconnect(c) ==
    DisconnectWithReason([c EXCEPT !.logout = "stopping"], "logout")

----------------------------------------------------------------------------
(***************************************************************************)
(* The steps of the connection itself.  The service handles a call when it *)
(* answers it; faults are bounded.                                         *)
(***************************************************************************)
Fault == faults < MaxFaults /\ faults' = faults + 1

\* k's call is in flight.
InFlight(k) == conn.hub = "connected" /\ k \in conn.registered

\* No callback runs on the receiving thread: the next answer can be handled.
CallbackThreadFree ==
    /\ conn.ending = "no"
    /\ conn.stops["server"] = "no"
    /\ conn.connect # "started"

\* The service can answer k's call.
Answerable(k) == InFlight(k) /\ CallbackThreadFree

\* Start() has an answer: Connected is set, or the chain fails, and Stop reports
\* NotConnected.
StartAnswered ==
    /\ conn.hub = "connecting"
    /\ \/ /\ conn' = [conn EXCEPT !.hub = "connected", !.Connected = TRUE,
                                  !.connect = "started"]
          /\ server' = NotListening
          /\ UNCHANGED faults
       \/ /\ Fault
          /\ conn' = StopHandlers([conn EXCEPT !.hub = "disconnected"], {"connect"})
          /\ UNCHANGED server

\* Start's continuation calls DeleteEntities; a stop that came first has the
\* call refused.  (A socket that closes during the handshake ends that way too.)
DeleteEntities ==
    /\ conn.connect = "started"
    /\ conn.Connected
    /\ \/ /\ conn.hub = "connected"
          /\ conn' = Invoke([conn EXCEPT !.connect = "delete"], "connect")
       \/ /\ conn.hub # "connected"
          /\ conn' = ConnectFailed([conn EXCEPT !.PendingInvocations = @ + 1])
    /\ UNCHANGED <<server, faults>>

\* A call of Connect's chain succeeds: RequestClientId, then StartListening,
\* then the success callbacks.
ConnectAnswered ==
    /\ Answerable("connect")
    /\ conn.Connected
    /\ \/ /\ conn.connect \in {"delete", "clientId"}
          /\ conn' = [conn EXCEPT !.connect =
                         IF @ = "delete" THEN "clientId" ELSE "listen"]
          /\ UNCHANGED server
       \/ /\ conn.connect = "listen"
          /\ conn' = Finish([conn EXCEPT !.connect = "idle"], "connect")
          /\ server' = [server EXCEPT !.listening = TRUE]
    /\ UNCHANGED faults

\* SignalRConnection::Stop goes on, on the thread of Logout or of the message
\* of the server.
StopContinues(who) ==
    /\ conn.stops[who] # "no"
    /\ conn' = StopActs(conn, who)
    /\ UNCHANGED <<server, faults>>

\* InvocationCallback goes on after its Callback.
CallCountedOff ==
    /\ conn.ending = "called"
    /\ conn' = CountedOff(conn)
    /\ UNCHANGED <<server, faults>>

\* Mutant: the callbacks of an interrupted connection are not called.
InterruptionQuiet ==
    /\ conn.hub = "connected"
    /\ CallbackThreadFree
    /\ Fault
    /\ conn' = [conn EXCEPT !.hub = "disconnected"]
    /\ server' = NotListening

\* The transport fails.  Connected stays set: the application is told by
\* NetworkInterruptionCallback, and is expected to call Disconnect.
Interruption ==
    /\ conn.hub = "connected"
    /\ CallbackThreadFree
    /\ Fault
    /\ conn' = [conn EXCEPT !.hub = "clearing"]
    /\ server' = NotListening

\* OnRequestToDisconnect
RequestToDisconnect ==
    /\ conn.hub = "connected"
    /\ CallbackThreadFree
    /\ Fault
    /\ conn' = DisconnectWithReason(conn, "server")
    /\ UNCHANGED server

\* The transport of a connection that is being stopped has closed.
Closed ==
    /\ conn.hub \in {"disconnecting", "failing"}
    /\ CallbackThreadFree
    /\ conn' = [conn EXCEPT !.hub = "clearing"]
    /\ server' = NotListening
    /\ UNCHANGED faults

\* clear() has called every callback; the stop callbacks follow.
Cleared ==
    /\ conn.hub = "clearing"
    /\ CallbackThreadFree
    /\ conn.registered = {}
    /\ conn' = RunStopCallbacks([conn EXCEPT !.hub = "disconnected"])
    /\ UNCHANGED <<server, faults>>
=============================================================================
