------------------------ MODULE SpaceSessionProofs -------------------------
(***************************************************************************)
(* The invariants of SpaceSession for every set of engines and spaces and  *)
(* all bounds.  ConnInv is what the connection's functions preserve: the   *)
(* calls and their count, the hub, the stop callbacks and who holds them;  *)
(* ChainInv ties the calls in flight to the chains that made them;         *)
(* PatientInv says where a session with an application that awaits its     *)
(* callbacks can be.                                                       *)
(***************************************************************************)
EXTENDS SpaceSession, FiniteSetTheorems, SequenceTheorems, WellFoundedInduction, TLAPS

\* The call that is answered and not counted off yet.
Ended(c) == IF c.ending = "called" THEN 1 ELSE 0

\* A stop has reached, or is about to reach, a hub that is up: from the moment
\* it found no call in flight, every call is counted exactly.
Exact(c) ==
    \/ c.hub = "disconnecting"
    \/ c.stopping # <<>>
    \/ c.hub = "connected" /\ StopIsUnderWay(c)

\* The calls in flight and the count.  The count never falls below the calls in
\* flight; it exceeds them for good after a page's exception.
CountInv(c) ==
    /\ Cardinality(c.registered) + Ended(c) <= c.PendingInvocations
    /\ Exact(c) => c.PendingInvocations = Cardinality(c.registered) + Ended(c)
    /\ c.hub = "disconnecting" \/ StopIsUnderWay(c) => c.registered \subseteq c.late

\* The hub, Connected and the receiving thread.
HubInv(c) ==
    /\ c.hub \in {"connected", "disconnecting"} => c.Connected
    /\ c.hub = "connecting" =>
         ~c.Connected /\ c.connect = "start" /\ c.stops["logout"] = "no"
    /\ c.hub \in {"connecting", "disconnected"} =>
         c.ending = "no" /\ c.stops["server"] = "no"
    /\ c.connect = "started" =>
         /\ c.hub \in {"connected", "disconnecting"}
         /\ c.ending = "no" /\ c.stops["server"] = "no"
    /\ "connect" \in c.registered => c.connect \in {"delete", "clientId", "listen"}

\* The stop callbacks the hub was given directly.
Direct(c) == {c.stopping[i] : i \in DOMAIN c.stopping} \ {"deferred"}

\* The stop callbacks.  A StopHandler is in one place at most, and its caller
\* waits for it.  A Connect that failed can only leave its own behind on a
\* connection whose clear() was cut short.
StopInv(c) ==
    /\ c.stopping # <<>> => c.hub \in {"disconnecting", "clearing"}
    /\ c.PendingStopCallback = "connect" =>
         /\ c.connect = "stopping"
         /\ ~c.Connected => c.hub = "disconnected" /\ c.registered # {}
    /\ c.PendingStopCallback = "logout" => c.logout = "stopping"
    /\ c.stops["logout"] # "no" => c.logout = "stopping"
    /\ "logout" \in Direct(c) => c.logout = "stopping"
    /\ c.stops["logout"] # "no" => c.PendingStopCallback # "logout"
    /\ \A who \in Disconnecters : c.stops[who] # "no" => who \notin Direct(c)
    /\ c.PendingStopCallback \notin Direct(c)
    /\ "connect" \notin Direct(c)
    /\ \A i, j \in DOMAIN c.stopping :
         c.stopping[i] # "deferred" /\ c.stopping[j] = c.stopping[i] => i = j

\* Somebody will look for the StopHandler of a Connect or of a Logout, unless it
\* is lost.
LookInv(c) ==
    /\ c.PendingStopCallback = "connect" => WillBeLookedFor(c)
    /\ c.PendingStopCallback = "logout" /\ "logout" \notin c.lost => WillBeLookedFor(c)

\* The StopHandler of a Logout that waits is somewhere, unless it is lost.
HeldInv(c) ==
    c.logout = "stopping" /\ "logout" \notin c.lost =>
        \/ c.stops["logout"] # "no"
        \/ "logout" \in Direct(c)
        \/ c.PendingStopCallback = "logout"

ConnInv(c) ==
    c \in Connections /\ CountInv(c) /\ HubInv(c) /\ StopInv(c) /\ LookInv(c) /\ HeldInv(c)

\* The receiving thread runs no callback.
ThreadFree(c) == c.ending = "no" /\ c.stops["server"] = "no" /\ c.connect # "started"

ChainInv ==
    /\ "enter" \in conn.registered => enter.step \in EnterCalls
    /\ "exit" \in conn.registered => exit # "idle"
    /\ enter.step \in EnterRequests \cup EnterCalls =>
         enter.engine \in Engines \ conn.registered /\ enter.space \in Spaces
    /\ conn.logout # "idle" <=> LoginState = "LogoutRequested"

PatientInv ==
    patient =>
        /\ LoginState \in {"LoggedOut", "Error", "LoginRequested"} =>
             ~conn.Connected /\ conn.hub # "connecting"
        /\ conn.logout = "post" => ~conn.Connected
        /\ conn.connect # "idle" \/ enter.step # "idle" \/ exit # "idle" \/ joined # None =>
             LoginState = "LoggedIn"
        /\ conn.connect # "idle" => enter.step = "idle" /\ exit = "idle" /\ joined = None
        /\ enter.step # "idle" => exit = "idle" /\ joined = None /\ attached = enter.engine
        /\ exit # "idle" => joined = None
        /\ conn.hub = "connected" =>
             /\ enter.step = "startListening" => server.scope = enter.space
             /\ enter.step \in {"scopes", "leader"} =>
                  server = [scope |-> enter.space, listening |-> TRUE]
        /\ enter.step \in {"scopes", "leader"} => CurrentSpace = enter.space

SessionInv ==
    TypeOK /\ ConnInv(conn) /\ ChainInv /\ PatientInv /\ SuccessMeansJoined

(***************************************************************************)
(* What every function on the connection does to the callers: d is what is *)
(* left of c.                                                              *)
(***************************************************************************)
Quieter(c, d) ==
    /\ d.Connected => c.Connected
    /\ d.hub = "connecting" => c.hub = "connecting"
    /\ d.hub = "connected" => c.hub = "connected"
    /\ d.connect # "idle" => c.connect # "idle"
    /\ d.logout = "idle" <=> c.logout = "idle"
    /\ d.logout = "post" => c.logout = "post" \/ ~d.Connected

----------------------------------------------------------------------------
(***************************************************************************)
(* Sets of calls, and positions among the stop callbacks.                  *)
(***************************************************************************)

\* Chains, and so the calls in flight, are finite.
LEMMA ChainsFinite == ASSUME NEW S \in SUBSET Chains
                      PROVE  IsFiniteSet(S) /\ Cardinality(S) \in Nat
<1>1. IsFiniteSet({}) /\ IsFiniteSet(Engines)
  BY FS_EmptySet, EnginesAssumption
<1>2. IsFiniteSet({"connect"})
  BY FS_Singleton
<1>3. IsFiniteSet({"connect"} \cup {"enter"})
  BY <1>2, FS_AddElement
<1>4. IsFiniteSet({"connect"} \cup {"enter"} \cup {"exit"})
  BY <1>3, FS_AddElement
<1>5. IsFiniteSet({"connect"} \cup {"enter"} \cup {"exit"} \cup {"flag"})
  BY <1>4, FS_AddElement
<1>6. IsFiniteSet(({"connect"} \cup {"enter"} \cup {"exit"} \cup {"flag"}) \cup Engines)
  BY <1>5, <1>1, FS_Union
<1>7. Chains = ({"connect"} \cup {"enter"} \cup {"exit"} \cup {"flag"}) \cup Engines
  BY DEF Chains
<1>8. IsFiniteSet(S)
  BY <1>6, <1>7, FS_Subset
<1> QED BY <1>8, FS_CardinalityType

\* One call more or less.
LEMMA OneCall ==
    ASSUME NEW S \in SUBSET Chains, NEW k \in Chains
    PROVE  /\ k \notin S => Cardinality(S \cup {k}) = Cardinality(S) + 1
           /\ k \in S => Cardinality(S \ {k}) = Cardinality(S) - 1 /\ Cardinality(S) > 0
<1>1. IsFiniteSet(S) /\ Cardinality(S) \in Nat
  BY ChainsFinite
<1>2. Cardinality(S \cup {k}) = IF k \in S THEN Cardinality(S) ELSE Cardinality(S) + 1
  BY <1>1, FS_AddElement
<1>3. Cardinality(S \ {k}) = IF k \in S THEN Cardinality(S) - 1 ELSE Cardinality(S)
  BY <1>1, FS_RemoveElement
<1>4. Cardinality(S) = 0 <=> S = {}
  BY <1>1, FS_EmptySet
<1>5. k \in S => Cardinality(S) > 0
  BY <1>1, <1>4
<1> QED BY <1>2, <1>3, <1>5

\* No call.
LEMMA NoCalls ==
    ASSUME NEW S \in SUBSET Chains
    PROVE  /\ Cardinality(S) = 0 <=> S = {}
           /\ Cardinality({}) = 0
BY ChainsFinite, FS_EmptySet

\* Of several positions one is the first.
LEMMA FirstPosition ==
    ASSUME NEW S \in SUBSET Nat, S # {}
    PROVE  \E i \in S : \A j \in S : i <= j
<1>1. PICK i \in S : \A j \in S : <<j, i>> \notin OpToRel(<, Nat)
  BY WFMin, NatLessThanWellFounded, Zenon
<1>2. ASSUME NEW j \in S PROVE i <= j
  <2>1. ~(j < i)
    BY <1>1 DEF OpToRel
  <2> QED BY <2>1
<1> QED BY <1>2

\* What the stop callbacks are after one more.
LEMMA OneStopMore ==
    ASSUME NEW s \in Seq(StopCallbacks), NEW cb \in StopCallbacks
    PROVE  LET t == Append(s, cb)
           IN  /\ t \in Seq(StopCallbacks) /\ t # <<>>
               /\ DOMAIN s = 1 .. Len(s) /\ DOMAIN t = 1 .. Len(s) + 1 /\ Len(s) \in Nat
               /\ \A i \in 1 .. Len(s) : t[i] = s[i]
               /\ t[Len(s) + 1] = cb
               /\ {t[i] : i \in DOMAIN t} = {s[i] : i \in DOMAIN s} \cup {cb}
<1> DEFINE t == Append(s, cb)
<1>1. /\ t \in Seq(StopCallbacks) /\ t # <<>>
      /\ Len(t) = Len(s) + 1 /\ Len(s) \in Nat
      /\ \A i \in 1 .. Len(s) : t[i] = s[i]
      /\ t[Len(s) + 1] = cb
  BY AppendProperties, LenProperties
<1>2. DOMAIN s = 1 .. Len(s) /\ DOMAIN t = 1 .. Len(s) + 1
  BY <1>1, LenProperties
<1> HIDE DEF t
<1>3. {t[i] : i \in DOMAIN t} = {s[i] : i \in DOMAIN s} \cup {cb}
  <2>1. 1 .. Len(s) + 1 = (1 .. Len(s)) \cup {Len(s) + 1}
    BY <1>1
  <2> QED BY <1>1, <1>2, <2>1
<1> QED BY <1>1, <1>2, <1>3 DEF t

----------------------------------------------------------------------------
(***************************************************************************)
(* The connection's functions.                                             *)
(***************************************************************************)

\* The fields StopHandlers changes.
LEMMA StopHandlersFields ==
    ASSUME NEW c \in Connections, NEW D
    PROVE  /\ StopHandlers(c, D) \in Connections
           /\ StopHandlers(c, D).hub = c.hub
           /\ StopHandlers(c, D).registered = c.registered
           /\ StopHandlers(c, D).PendingInvocations = c.PendingInvocations
           /\ StopHandlers(c, D).PendingStopCallback = c.PendingStopCallback
           /\ StopHandlers(c, D).stopping = c.stopping
           /\ StopHandlers(c, D).stops = c.stops
           /\ StopHandlers(c, D).ending = c.ending
           /\ StopHandlers(c, D).late = c.late
           /\ StopHandlers(c, D).lost = c.lost \ D
           /\ StopHandlers(c, D).Connected <=> c.Connected /\ D = {}
           /\ StopHandlers(c, D).connect = IF "connect" \in D THEN "idle" ELSE c.connect
           /\ StopHandlers(c, D).logout = IF "logout" \in D THEN "post" ELSE c.logout
BY DEF StopHandlers, Connections, ConnectSteps

\* A stop callback of the last call in flight.
LEMMA DeferredStopFields ==
    ASSUME NEW c \in Connections, c.PendingStopCallback # None
    PROVE  /\ DeferredStop(c) \in Connections
           /\ DeferredStop(c).hub = c.hub
           /\ DeferredStop(c).registered = c.registered
           /\ DeferredStop(c).PendingInvocations = c.PendingInvocations
           /\ DeferredStop(c).PendingStopCallback = None
           /\ DeferredStop(c).stopping = c.stopping
           /\ DeferredStop(c).stops = c.stops
           /\ DeferredStop(c).ending = c.ending
           /\ DeferredStop(c).late = c.late
           /\ DeferredStop(c).lost = c.lost \ {c.PendingStopCallback}
           /\ ~DeferredStop(c).Connected
           /\ DeferredStop(c).connect =
                IF c.PendingStopCallback = "connect" THEN "idle" ELSE c.connect
           /\ DeferredStop(c).logout =
                IF c.PendingStopCallback = "logout" THEN "post" ELSE c.logout
<1> DEFINE b == [c EXCEPT !.PendingStopCallback = None,
                          !.ub = @ \/ c.PendingStopCallback = "server"]
<1>1. /\ b \in Connections
      /\ b.hub = c.hub /\ b.registered = c.registered
      /\ b.PendingInvocations = c.PendingInvocations
      /\ b.PendingStopCallback = None /\ b.stopping = c.stopping
      /\ b.stops = c.stops /\ b.ending = c.ending
      /\ b.late = c.late /\ b.lost = c.lost
      /\ b.connect = c.connect /\ b.logout = c.logout
  BY DEF Connections
<1>2. DeferredStop(c) = StopHandlers(b, {c.PendingStopCallback})
  BY DEF DeferredStop
<1> HIDE DEF b
<1> QED BY <1>1, <1>2, StopHandlersFields

\* The lambda runs on a hub that is down.
LEMMA DeferredStopInv ==
    ASSUME NEW c \in Connections, CountInv(c), HubInv(c), StopInv(c), HeldInv(c),
           c.PendingStopCallback # None, Down(c), c.connect # "started"
    PROVE  ConnInv(DeferredStop(c)) /\ Quieter(c, DeferredStop(c))
<1> DEFINE d == DeferredStop(c)
<1>1. /\ d \in Connections /\ d.hub = c.hub /\ d.registered = c.registered
      /\ d.PendingInvocations = c.PendingInvocations /\ d.PendingStopCallback = None
      /\ d.stopping = c.stopping /\ d.stops = c.stops /\ d.ending = c.ending
      /\ d.late = c.late /\ d.lost = c.lost \ {c.PendingStopCallback} /\ ~d.Connected
      /\ d.connect = IF c.PendingStopCallback = "connect" THEN "idle" ELSE c.connect
      /\ d.logout = IF c.PendingStopCallback = "logout" THEN "post" ELSE c.logout
  BY DeferredStopFields
<1> HIDE DEF d
<1>2. Direct(d) = Direct(c)
  BY <1>1 DEF Direct
<1>3. CountInv(d)
  BY <1>1 DEF CountInv, Exact, Ended, StopIsUnderWay
<1>4. HubInv(d)
  BY <1>1 DEF HubInv, Down, StopInv
<1>5. StopInv(d)
  BY <1>1, <1>2, NoneIsNoStopper DEF StopInv, Stoppers, Direct, Connections, StopCallbacks
<1>6. LookInv(d)
  BY <1>1, NoneIsNoStopper DEF LookInv, Stoppers
<1>7. HeldInv(d)
  BY <1>1, <1>2 DEF HeldInv
<1>8. Quieter(c, d)
  <2>1. /\ c.PendingStopCallback = "connect" => c.connect = "stopping"
        /\ c.PendingStopCallback = "logout" => c.logout = "stopping"
    BY DEF StopInv
  <2> QED BY <1>1, <2>1 DEF Quieter
<1> QED BY <1>1, <1>3, <1>4, <1>5, <1>6, <1>7, <1>8 DEF ConnInv, d

\* The lambda is given to a hub that is up, or on its way down: every call in
\* flight was made late, and is counted.
LEMMA DeferredGivenInv ==
    ASSUME NEW c \in Connections, HubInv(c), StopInv(c), HeldInv(c),
           c.hub \in {"connected", "disconnecting"}, c.registered \subseteq c.late,
           c.PendingInvocations = Cardinality(c.registered) + Ended(c)
    PROVE  LET d == [c EXCEPT !.hub = "disconnecting", !.stopping = Append(@, "deferred")]
           IN  ConnInv(d) /\ Quieter(c, d) /\ d.registered = c.registered
<1> DEFINE t == Append(c.stopping, "deferred")
           d == [c EXCEPT !.hub = "disconnecting", !.stopping = t]
<1>1. c.stopping \in Seq(StopCallbacks) /\ "deferred" \in StopCallbacks
  BY DEF Connections, StopCallbacks
<1>2. /\ t \in Seq(StopCallbacks) /\ t # <<>>
      /\ DOMAIN c.stopping = 1 .. Len(c.stopping) /\ DOMAIN t = 1 .. Len(c.stopping) + 1
      /\ Len(c.stopping) \in Nat
      /\ \A i \in 1 .. Len(c.stopping) : t[i] = c.stopping[i]
      /\ t[Len(c.stopping) + 1] = "deferred"
      /\ {t[i] : i \in DOMAIN t} = {c.stopping[i] : i \in DOMAIN c.stopping} \cup {"deferred"}
  BY <1>1, OneStopMore
<1> HIDE DEF t
<1>3. /\ d \in Connections /\ d.hub = "disconnecting" /\ d.stopping = t
      /\ d.registered = c.registered /\ d.PendingInvocations = c.PendingInvocations
      /\ d.PendingStopCallback = c.PendingStopCallback /\ d.Connected = c.Connected
      /\ d.stops = c.stops /\ d.ending = c.ending /\ d.late = c.late /\ d.lost = c.lost
      /\ d.connect = c.connect /\ d.logout = c.logout
  BY <1>2 DEF Connections, HubStates
<1>4. d = [c EXCEPT !.hub = "disconnecting", !.stopping = Append(@, "deferred")]
  BY DEF t
<1> HIDE DEF d
<1>5. Direct(d) = Direct(c)
  BY <1>2, <1>3 DEF Direct
<1>6. CountInv(d)
  <2>1. c.registered \in SUBSET Chains /\ c.PendingInvocations \in Nat
    BY DEF Connections
  <2> QED BY <1>3, <2>1 DEF CountInv, Ended
<1>7. HubInv(d)
  BY <1>3 DEF HubInv
<1>8. StopInv(d)
  <2>1. \A i, j \in DOMAIN d.stopping :
          d.stopping[i] # "deferred" /\ d.stopping[j] = d.stopping[i] => i = j
    BY <1>2, <1>3 DEF StopInv
  <2>2. d.PendingStopCallback = "connect" => d.Connected
    BY <1>3 DEF HubInv
  <2> QED BY <1>3, <1>5, <2>1, <2>2 DEF StopInv
<1>9. LookInv(d)
  <2>1. "deferred" \in {d.stopping[i] : i \in DOMAIN d.stopping}
    BY <1>2, <1>3
  <2> QED BY <2>1 DEF LookInv, WillBeLookedFor
<1>10. HeldInv(d)
  BY <1>3, <1>5 DEF HeldInv
<1>11. Quieter(c, d)
  BY <1>3 DEF Quieter
<1> QED BY <1>3, <1>4, <1>6, <1>7, <1>8, <1>9, <1>10, <1>11 DEF ConnInv

\* The stop that the last call in flight has found.
LEMMA LastCallStopsInv ==
    ASSUME NEW c, ConnInv(c), c.ending = "stopping",
           Down(c) => c.PendingStopCallback # None
    PROVE  LET d == HubStop([c EXCEPT !.ending = "no"], "deferred")
           IN  ConnInv(d) /\ Quieter(c, d) /\ d.registered = c.registered
<1> DEFINE b == [c EXCEPT !.ending = "no"]
<1>1. /\ c \in Connections /\ c.hub \in HubStates
      /\ c.hub # "connecting" /\ c.hub # "disconnected" /\ c.connect # "started"
  BY DEF ConnInv, HubInv, Connections
<1>2. /\ b \in Connections /\ b.hub = c.hub /\ b.registered = c.registered
      /\ b.PendingInvocations = c.PendingInvocations
      /\ b.PendingStopCallback = c.PendingStopCallback /\ b.Connected = c.Connected
      /\ b.stopping = c.stopping /\ b.stops = c.stops /\ b.ending = "no"
      /\ b.late = c.late /\ b.lost = c.lost
      /\ b.connect = c.connect /\ b.logout = c.logout
  BY <1>1 DEF Connections
<1> HIDE DEF b
<1>3. Direct(b) = Direct(c)
  BY <1>2 DEF Direct
<1>4. CountInv(b) /\ HubInv(b)
  BY <1>2 DEF ConnInv, CountInv, HubInv, Ended, Exact, StopIsUnderWay
<1>5. StopInv(b) /\ HeldInv(b)
  BY <1>2, <1>3 DEF ConnInv, StopInv, HeldInv
<1>6. CASE Down(c)
  <2>1. HubStop(b, "deferred") = DeferredStop(b) /\ Down(b)
    BY <1>2, <1>6 DEF HubStop, Down
  <2>2. ConnInv(DeferredStop(b)) /\ Quieter(b, DeferredStop(b))
    BY <1>1, <1>2, <1>4, <1>5, <1>6, <2>1, DeferredStopInv
  <2>3. DeferredStop(b).registered = c.registered
    BY <1>2, <1>6, DeferredStopFields
  <2> QED BY <1>2, <2>1, <2>2, <2>3 DEF Quieter, b
<1>7. CASE ~Down(c)
  <2>1. /\ b.hub \in {"connected", "disconnecting"}
        /\ HubStop(b, "deferred") =
             [b EXCEPT !.hub = "disconnecting", !.stopping = Append(@, "deferred")]
    BY <1>1, <1>2, <1>7 DEF HubStop, Down, HubStates
  <2>2. /\ b.registered \subseteq b.late
        /\ b.PendingInvocations = Cardinality(b.registered) + Ended(b)
    BY <1>2, <2>1 DEF ConnInv, CountInv, Exact, Ended, StopIsUnderWay
  <2>3. LET d == HubStop(b, "deferred")
        IN  ConnInv(d) /\ Quieter(b, d) /\ d.registered = b.registered
    BY <1>2, <1>5, <1>4, <2>1, <2>2, DeferredGivenInv
  <2> QED BY <1>2, <2>3 DEF Quieter, b
<1> QED BY <1>6, <1>7

\* A call that a hub refuses is counted and counted off.
LEMMA RefusedInv ==
    ASSUME NEW c, ConnInv(c), c.Connected, c.hub # "connected", c.hub # "clearing"
    PROVE  ConnInv(Refused(c)) /\ Quieter(c, Refused(c)) /\ Refused(c).registered = c.registered
<1>1. /\ c \in Connections /\ c.hub \in HubStates /\ c.hub # "connecting"
  BY DEF ConnInv, HubInv, Connections
<1>2. CASE ~(c.PendingStopCallback # None /\ c.PendingInvocations = 0)
  <2>1. Refused(c) = c
    BY <1>2 DEF Refused
  <2> QED BY <2>1 DEF Quieter
<1>3. CASE c.PendingStopCallback # None /\ c.PendingInvocations = 0 /\ Down(c)
  <2>1. Refused(c) = DeferredStop(c)
    BY <1>3 DEF Refused, HubStop
  <2>2. c.connect # "started"
    BY <1>3 DEF ConnInv, HubInv, Down
  <2>3. ConnInv(DeferredStop(c)) /\ Quieter(c, DeferredStop(c))
    BY <1>1, <1>3, <2>2, DeferredStopInv DEF ConnInv
  <2> QED BY <1>1, <1>3, <2>1, <2>3, DeferredStopFields
<1>4. CASE c.PendingStopCallback # None /\ c.PendingInvocations = 0 /\ ~Down(c)
  <2>1. /\ c.hub = "disconnecting"
        /\ Refused(c) = [c EXCEPT !.hub = "disconnecting", !.stopping = Append(@, "deferred")]
    BY <1>1, <1>4 DEF Refused, HubStop, Down, HubStates
  <2>2. /\ c.registered \subseteq c.late
        /\ c.PendingInvocations = Cardinality(c.registered) + Ended(c)
    BY <2>1 DEF ConnInv, CountInv, Exact
  <2> QED BY <1>1, <2>1, <2>2, DeferredGivenInv DEF ConnInv
<1> QED BY <1>2, <1>3, <1>4

\* The count of a call that is over: n is what is counted.
LEMMA CalledCount ==
    ASSUME NEW c, ConnInv(c), c.ending = "no", NEW k \in Chains, NEW d,
           c.hub \in {"connected", "clearing", "disconnecting"},
           d.registered = c.registered \ {k}, d.late = c.late \ {k},
           d.PendingInvocations = IF k \in c.registered THEN c.PendingInvocations
                                  ELSE c.PendingInvocations + 1,
           d.ending = "called", d.hub = c.hub, d.stopping = c.stopping, d.stops = c.stops
    PROVE  CountInv(d) /\ d.PendingInvocations > 0
<1>1. /\ c \in Connections /\ c.registered \in SUBSET Chains
      /\ c.PendingInvocations \in Nat
  BY DEF ConnInv, Connections
<1>2. /\ Cardinality(c.registered) \in Nat
      /\ k \in c.registered => /\ Cardinality(c.registered \ {k}) = Cardinality(c.registered) - 1
                               /\ Cardinality(c.registered) > 0
      /\ k \notin c.registered => c.registered \ {k} = c.registered
  BY <1>1, ChainsFinite, OneCall
<1>3. /\ Cardinality(d.registered) \in Nat /\ d.PendingInvocations \in Nat
      /\ Cardinality(d.registered) + 1 - d.PendingInvocations =
           Cardinality(c.registered) - c.PendingInvocations
  <2>1. CASE k \in c.registered
    <3>1. /\ Cardinality(d.registered) = Cardinality(c.registered) - 1
          /\ d.PendingInvocations = c.PendingInvocations
          /\ Cardinality(c.registered) > 0
      BY <1>2, <2>1
    <3> QED BY <1>1, <1>2, <3>1
  <2>2. CASE k \notin c.registered
    <3>1. /\ Cardinality(d.registered) = Cardinality(c.registered)
          /\ d.PendingInvocations = c.PendingInvocations + 1
      BY <1>2, <2>2
    <3> QED BY <1>1, <1>2, <3>1
  <2> QED BY <2>1, <2>2
<1>4. Exact(d) => Exact(c)
  BY DEF Exact, StopIsUnderWay
<1>5. StopIsUnderWay(d) => StopIsUnderWay(c)
  BY DEF StopIsUnderWay
<1>6. /\ Cardinality(c.registered) <= c.PendingInvocations
      /\ Exact(c) => c.PendingInvocations = Cardinality(c.registered)
      /\ c.hub = "disconnecting" \/ StopIsUnderWay(c) => c.registered \subseteq c.late
  BY <1>1, <1>2 DEF ConnInv, CountInv, Ended
<1>7. Ended(d) = 1
  BY DEF Ended
<1>8. d.hub = "disconnecting" \/ StopIsUnderWay(d) => d.registered \subseteq d.late
  BY <1>5, <1>6
<1>9. Exact(d) => d.PendingInvocations = Cardinality(d.registered) + 1
  BY <1>1, <1>2, <1>3, <1>4, <1>6
<1>10. Cardinality(d.registered) + 1 <= d.PendingInvocations
  BY <1>1, <1>2, <1>3, <1>6
<1>11. CountInv(d)
  BY <1>7, <1>8, <1>9, <1>10 DEF CountInv
<1> QED BY <1>3, <1>10, <1>11

\* A call that is answered.
LEMMA FinishInv ==
    ASSUME NEW c, ConnInv(c), NEW k \in c.registered, ThreadFree(c),
           c.hub \in {"connected", "clearing"}
    PROVE  ConnInv(Finish(c, k)) /\ Quieter(c, Finish(c, k))
             /\ Finish(c, k).registered = c.registered \ {k}
<1> DEFINE d == Finish(c, k)
<1>1. c \in Connections /\ k \in Chains /\ c.PendingInvocations \in Nat
  BY DEF ConnInv, Connections
<1>2. /\ d \in Connections /\ d.hub = c.hub /\ d.registered = c.registered \ {k}
      /\ d.PendingInvocations = c.PendingInvocations
      /\ d.PendingStopCallback = c.PendingStopCallback /\ d.Connected = c.Connected
      /\ d.stopping = c.stopping /\ d.stops = c.stops /\ d.ending = "called"
      /\ d.late = c.late \ {k} /\ d.lost = c.lost
      /\ d.connect = c.connect /\ d.logout = c.logout
  BY <1>1 DEF Connections, Finish
<1> HIDE DEF d
<1>3. CountInv(d) /\ d.PendingInvocations > 0
  BY <1>1, <1>2, CalledCount DEF ThreadFree
<1>4. HubInv(d)
  BY <1>2 DEF ConnInv, HubInv, ThreadFree
<1>5. Direct(d) = Direct(c)
  BY <1>2 DEF Direct
<1>6. StopInv(d)
  BY <1>2, <1>5 DEF ConnInv, StopInv
<1>7. LookInv(d)
  BY <1>3 DEF LookInv, WillBeLookedFor
<1>8. HeldInv(d)
  BY <1>2, <1>5 DEF ConnInv, HeldInv
<1>9. Quieter(c, d)
  BY <1>2 DEF Quieter
<1> QED BY <1>2, <1>3, <1>4, <1>6, <1>7, <1>8, <1>9 DEF ConnInv, d

\* InvocationCallback goes on after its Callback.
LEMMA CountedOffInv ==
    ASSUME NEW c, ConnInv(c), c.ending = "called"
    PROVE  ConnInv(CountedOff(c)) /\ Quieter(c, CountedOff(c))
             /\ CountedOff(c).registered = c.registered
<1> DEFINE d == CountedOff(c)
<1>1. /\ c \in Connections /\ c.registered \in SUBSET Chains /\ c.PendingInvocations \in Nat
      /\ Cardinality(c.registered) \in Nat
      /\ Cardinality(c.registered) + 1 <= c.PendingInvocations
  BY ChainsFinite DEF ConnInv, Connections, CountInv, Ended
<1>2. c.PendingInvocations - 1 \in Nat
  BY <1>1
<1>3. /\ d \in Connections /\ d.hub = c.hub /\ d.registered = c.registered
      /\ d.PendingInvocations = c.PendingInvocations - 1
      /\ d.PendingStopCallback = c.PendingStopCallback /\ d.Connected = c.Connected
      /\ d.stopping = c.stopping /\ d.stops = c.stops
      /\ d.ending = IF c.PendingStopCallback # None /\ c.PendingInvocations = 1
                    THEN "stopping" ELSE "no"
      /\ d.late = c.late /\ d.lost = c.lost
      /\ d.connect = c.connect /\ d.logout = c.logout
  <2>1. PICK m \in Nat : m = c.PendingInvocations - 1
    BY <1>2
  <2>2. PICK e \in {"no", "called", "stopping"} :
          e = IF c.PendingStopCallback # None /\ c.PendingInvocations = 1
              THEN "stopping" ELSE "no"
    OBVIOUS
  <2>3. d = [c EXCEPT !.PendingInvocations = m, !.ending = e]
    BY <1>1, <2>1, <2>2 DEF CountedOff, Connections
  <2> HIDE DEF d
  <2> QED BY <1>1, <2>1, <2>2, <2>3 DEF Connections
<1> HIDE DEF d
<1>4. d.ending = "stopping" => c.registered = {} /\ d.PendingInvocations = 0
  BY <1>1, <1>3, NoCalls
<1>5. CountInv(d)
  <2>1. Ended(c) = 1 /\ Ended(d) = 0
    BY <1>3 DEF Ended
  <2>2. Cardinality(d.registered) <= d.PendingInvocations
    BY <1>1, <1>3
  <2>3. Exact(d) => d.PendingInvocations = Cardinality(d.registered)
    <3>1. Exact(d) => Exact(c) \/ d.ending = "stopping"
      BY <1>3 DEF Exact, StopIsUnderWay
    <3>2. Exact(c) => c.PendingInvocations = Cardinality(c.registered) + 1
      BY <2>1 DEF ConnInv, CountInv
    <3>3. d.ending = "stopping" => d.PendingInvocations = Cardinality(d.registered)
      BY <1>1, <1>3, <1>4, NoCalls
    <3> QED BY <1>1, <1>3, <3>1, <3>2, <3>3
  <2>4. d.hub = "disconnecting" \/ StopIsUnderWay(d) => d.registered \subseteq d.late
    BY <1>3, <1>4 DEF ConnInv, CountInv, StopIsUnderWay
  <2> QED BY <1>1, <1>3, <2>1, <2>2, <2>3, <2>4 DEF CountInv
<1>6. HubInv(d)
  BY <1>3 DEF ConnInv, HubInv
<1>7. Direct(d) = Direct(c)
  BY <1>3 DEF Direct
<1>8. StopInv(d)
  BY <1>3, <1>7 DEF ConnInv, StopInv
<1>9. LookInv(d)
  <2>1. d.PendingStopCallback # None => d.PendingInvocations > 0 \/ d.ending = "stopping"
    BY <1>1, <1>3
  <2> QED BY <2>1, NoneIsNoStopper DEF LookInv, WillBeLookedFor, Stoppers
<1>10. HeldInv(d)
  BY <1>3, <1>7 DEF ConnInv, HeldInv
<1>11. Quieter(c, d)
  BY <1>3 DEF Quieter
<1> QED BY <1>3, <1>5, <1>6, <1>8, <1>9, <1>10, <1>11 DEF ConnInv, d

\* PendingStopCallback = Callback, by a stopper that is waiting for it.
LEMMA StoreStopInv ==
    ASSUME NEW c \in Connections, NEW who \in Stoppers,
           CountInv(c), HubInv(c), StopInv(c), LookInv(c),
           who # "logout" => HeldInv(c),
           who = "logout" => c.logout = "stopping" /\ c.stops["logout"] = "no",
           who = "connect" => c.connect = "stopping" /\ c.Connected /\ c.PendingInvocations > 0,
           who \notin Direct(c)
    PROVE  ConnInv(StoreStop(c, who)) /\ Quieter(c, StoreStop(c, who))
             /\ StoreStop(c, who).registered = c.registered
<1> DEFINE d == StoreStop(c, who)
<1>1. /\ d \in Connections /\ d.hub = c.hub /\ d.registered = c.registered
      /\ d.PendingInvocations = c.PendingInvocations
      /\ d.PendingStopCallback = who /\ d.Connected = c.Connected
      /\ d.stopping = c.stopping /\ d.stops = c.stops /\ d.ending = c.ending
      /\ d.late = c.late
      /\ d.lost = (c.lost \cup ({c.PendingStopCallback} \ {None, who}))
                    \cup (IF WillBeLookedFor(c) THEN {} ELSE {who})
      /\ d.connect = c.connect /\ d.logout = c.logout
  <2>1. ((c.lost \cup ({c.PendingStopCallback} \ {None, who}))
           \cup (IF WillBeLookedFor(c) THEN {} ELSE {who})) \in SUBSET Stoppers
    BY DEF Connections
  <2> QED BY <2>1 DEF Connections, StoreStop
<1> HIDE DEF d
<1>2. Direct(d) = Direct(c)
  BY <1>1 DEF Direct
<1>3. WillBeLookedFor(d) <=> WillBeLookedFor(c)
  BY <1>1 DEF WillBeLookedFor
<1>4. CountInv(d) /\ HubInv(d)
  BY <1>1 DEF CountInv, HubInv, Exact, Ended, StopIsUnderWay
<1>5. StopInv(d)
  BY <1>1, <1>2 DEF StopInv
<1>6. LookInv(d)
  BY <1>1, <1>3 DEF LookInv, WillBeLookedFor
<1>7. HeldInv(d)
  <2>1. CASE who = "logout"
    BY <1>1, <2>1 DEF HeldInv
  <2>2. CASE who # "logout"
    <3>1. c.PendingStopCallback = "logout" => "logout" \in d.lost
      BY <1>1, <2>2, NoneIsNoStopper DEF Stoppers
    <3> QED BY <1>1, <1>2, <2>2, <3>1 DEF HeldInv
  <2> QED BY <2>1, <2>2
<1>8. Quieter(c, d)
  BY <1>1 DEF Quieter
<1> QED BY <1>1, <1>4, <1>5, <1>6, <1>7, <1>8 DEF ConnInv, d

\* A call of Connect's chain that fails: c0 counts it.
LEMMA ConnectFailedInv ==
    ASSUME NEW c, ConnInv(c), c.ending = "no", c.stops["server"] = "no",
           \/ "connect" \in c.registered /\ c.hub \in {"connected", "clearing"}
           \/ c.connect = "started" /\ c.hub = "disconnecting",
           NEW c0,
           c0 = [c EXCEPT !.PendingInvocations = IF "connect" \in c.registered THEN @ ELSE @ + 1]
    PROVE  ConnInv(ConnectFailed(c0)) /\ Quieter(c, ConnectFailed(c0))
             /\ ConnectFailed(c0).registered = c.registered \ {"connect"}
<1> DEFINE d == [Finish(c0, "connect") EXCEPT !.connect = "stopping"]
<1>1. /\ c \in Connections /\ c.PendingInvocations \in Nat
      /\ c.connect \in {"started", "delete", "clientId", "listen"}
      /\ c.hub \in {"connected", "clearing", "disconnecting"}
      /\ "connect" \in Chains
  BY DEF ConnInv, HubInv, Connections, Chains
<1>2. PICK m \in Nat : m = IF "connect" \in c.registered THEN c.PendingInvocations
                           ELSE c.PendingInvocations + 1
  BY <1>1
<1>3. c0 = [c EXCEPT !.PendingInvocations = m]
  BY <1>1, <1>2 DEF Connections
<1>4. /\ d \in Connections /\ d.hub = c.hub /\ d.registered = c.registered \ {"connect"}
      /\ d.PendingInvocations = m
      /\ d.PendingStopCallback = c.PendingStopCallback /\ d.Connected = c.Connected
      /\ d.stopping = c.stopping /\ d.stops = c.stops /\ d.ending = "called"
      /\ d.late = c.late \ {"connect"} /\ d.lost = c.lost
      /\ d.connect = "stopping" /\ d.logout = c.logout
  BY <1>1, <1>3 DEF Connections, ConnectSteps, Finish
<1>5. ConnectFailed(c0) = IF c.Connected THEN StoreStop(d, "connect")
                          ELSE StopHandlers(d, {"connect"})
  BY <1>1, <1>3 DEF ConnectFailed, Connections
<1> HIDE DEF d
<1>6. CountInv(d) /\ d.PendingInvocations > 0
  BY <1>1, <1>2, <1>4, CalledCount
<1>7. HubInv(d)
  BY <1>1, <1>4 DEF ConnInv, HubInv
<1>8. Direct(d) = Direct(c)
  BY <1>4 DEF Direct
<1>9. c.PendingStopCallback # "connect"
  BY <1>1 DEF ConnInv, StopInv
<1>10. StopInv(d)
  BY <1>4, <1>8, <1>9 DEF ConnInv, StopInv
<1>11. LookInv(d)
  BY <1>6 DEF LookInv, WillBeLookedFor
<1>12. HeldInv(d)
  BY <1>4, <1>8 DEF ConnInv, HeldInv
<1>13. Quieter(c, d)
  BY <1>1, <1>4 DEF Quieter
<1>14. CASE c.Connected
  <2>1. "connect" \in Stoppers /\ "connect" \notin Direct(d)
    BY <1>10 DEF Stoppers, StopInv
  <2>2. /\ ConnInv(StoreStop(d, "connect")) /\ Quieter(d, StoreStop(d, "connect"))
        /\ StoreStop(d, "connect").registered = d.registered
    BY <1>4, <1>6, <1>7, <1>10, <1>11, <1>12, <1>14, <2>1, StoreStopInv
  <2> QED BY <1>4, <1>5, <1>13, <1>14, <2>2 DEF Quieter
<1>15. CASE ~c.Connected
  <2> DEFINE f == StopHandlers(d, {"connect"})
  <2>1. /\ f \in Connections /\ f.hub = d.hub /\ f.registered = d.registered
        /\ f.PendingInvocations = d.PendingInvocations
        /\ f.PendingStopCallback = d.PendingStopCallback
        /\ f.stopping = d.stopping /\ f.stops = d.stops /\ f.ending = d.ending
        /\ f.late = d.late /\ f.lost = d.lost \ {"connect"}
        /\ ~f.Connected /\ f.connect = "idle" /\ f.logout = d.logout
    BY <1>4, StopHandlersFields
  <2> HIDE DEF f
  <2>2. c.hub = "clearing"
    BY <1>1, <1>15 DEF ConnInv, HubInv
  <2>3. Direct(f) = Direct(d)
    BY <2>1 DEF Direct
  <2>4. CountInv(f)
    BY <1>6, <2>1 DEF CountInv, Exact, Ended, StopIsUnderWay
  <2>5. HubInv(f)
    BY <1>4, <2>1, <2>2 DEF HubInv
  <2>6. StopInv(f)
    BY <1>4, <1>9, <1>10, <2>1, <2>3 DEF StopInv
  <2>7. LookInv(f)
    BY <1>6, <2>1 DEF LookInv, WillBeLookedFor
  <2>8. HeldInv(f)
    BY <1>12, <2>1, <2>3 DEF HeldInv
  <2>9. Quieter(d, f)
    BY <1>4, <2>1 DEF Quieter
  <2> QED BY <1>4, <1>5, <1>13, <1>15, <2>1, <2>4, <2>5, <2>6, <2>7, <2>8, <2>9
          DEF ConnInv, Quieter, f
<1> QED BY <1>14, <1>15

\* A stop that found no call in flight reaches a hub that is up, or on its way
\* down.
LEMMA StopGivenInv ==
    ASSUME NEW c \in Connections, NEW who \in Disconnecters, HubInv(c), StopInv(c),
           c.hub \in {"connected", "disconnecting"}, c.registered \subseteq c.late,
           c.PendingInvocations = Cardinality(c.registered) + Ended(c),
           c.PendingStopCallback = None, who \notin Direct(c), c.stops[who] = "no",
           IF who = "logout" THEN c.logout = "stopping" ELSE HeldInv(c)
    PROVE  LET d == [c EXCEPT !.hub = "disconnecting", !.stopping = Append(@, who)]
           IN  ConnInv(d) /\ Quieter(c, d) /\ d.registered = c.registered
<1> DEFINE t == Append(c.stopping, who)
           d == [c EXCEPT !.hub = "disconnecting", !.stopping = t]
<1>1. /\ c.stopping \in Seq(StopCallbacks) /\ who \in StopCallbacks
      /\ who \in Stoppers /\ who # "deferred" /\ who # "connect"
  BY DEF Connections, StopCallbacks, Disconnecters, Stoppers
<1>2. /\ t \in Seq(StopCallbacks) /\ t # <<>>
      /\ DOMAIN c.stopping = 1 .. Len(c.stopping) /\ DOMAIN t = 1 .. Len(c.stopping) + 1
      /\ Len(c.stopping) \in Nat
      /\ \A i \in 1 .. Len(c.stopping) : t[i] = c.stopping[i]
      /\ t[Len(c.stopping) + 1] = who
      /\ {t[i] : i \in DOMAIN t} = {c.stopping[i] : i \in DOMAIN c.stopping} \cup {who}
  BY <1>1, OneStopMore
<1> HIDE DEF t
<1>3. /\ d \in Connections /\ d.hub = "disconnecting" /\ d.stopping = t
      /\ d.registered = c.registered /\ d.PendingInvocations = c.PendingInvocations
      /\ d.PendingStopCallback = None /\ d.Connected = c.Connected
      /\ d.stops = c.stops /\ d.ending = c.ending /\ d.late = c.late /\ d.lost = c.lost
      /\ d.connect = c.connect /\ d.logout = c.logout
  <2>1. t \in Seq(StopCallbacks)
    BY <1>2
  <2>2. d \in Connections
    BY <2>1 DEF Connections, HubStates
  <2> QED BY <2>2 DEF Connections
<1>4. d = [c EXCEPT !.hub = "disconnecting", !.stopping = Append(@, who)]
  BY DEF t
<1> HIDE DEF d
<1>5. Direct(d) = Direct(c) \cup {who}
  BY <1>1, <1>2, <1>3 DEF Direct
<1>6. CountInv(d)
  <2>1. c.registered \in SUBSET Chains /\ c.PendingInvocations \in Nat
    BY DEF Connections
  <2> QED BY <1>3, <2>1 DEF CountInv, Ended
<1>7. HubInv(d)
  BY <1>3 DEF HubInv
<1>8. StopInv(d)
  <2>1. \A i, j \in DOMAIN d.stopping :
          d.stopping[i] # "deferred" /\ d.stopping[j] = d.stopping[i] => i = j
    <3>1. ASSUME NEW i \in 1 .. Len(c.stopping) PROVE t[i] # who
      <4>1. c.stopping[i] \in Direct(c) \cup {"deferred"}
        BY <1>2 DEF Direct
      <4> QED BY <1>1, <1>2, <4>1
    <3>2. \A i \in DOMAIN t : i \in 1 .. Len(c.stopping) \/ i = Len(c.stopping) + 1
      BY <1>2
    <3> QED BY <1>2, <1>3, <3>1, <3>2 DEF StopInv
  <2>2. None \notin Direct(d)
    BY <1>1, <1>3, <1>5, NoneIsNoStopper DEF StopInv
  <2>3. \A x \in Disconnecters : d.stops[x] # "no" => x \notin Direct(d)
    BY <1>3, <1>5 DEF StopInv
  <2>4. "logout" \in Direct(d) => d.logout = "stopping"
    BY <1>3, <1>5 DEF StopInv
  <2>5. d.stops["logout"] # "no" => d.logout = "stopping"
    BY <1>3 DEF StopInv
  <2>6. d.PendingStopCallback # "connect" /\ d.PendingStopCallback # "logout"
    BY <1>3, NoneIsNoStopper DEF Stoppers
  <2>7. "connect" \notin Direct(d)
    BY <1>1, <1>5 DEF StopInv
  <2> QED BY <1>3, <2>1, <2>2, <2>3, <2>4, <2>5, <2>6, <2>7 DEF StopInv
<1>9. LookInv(d)
  BY <1>3, NoneIsNoStopper DEF LookInv, Stoppers
<1>10. HeldInv(d)
  BY <1>3, <1>5 DEF HeldInv
<1>11. Quieter(c, d)
  BY <1>3 DEF Quieter
<1> QED BY <1>3, <1>4, <1>6, <1>7, <1>8, <1>9, <1>10, <1>11 DEF ConnInv

\* The rest of a Stop that has read the count.
LEMMA StopActsInv ==
    ASSUME NEW c, ConnInv(c), NEW who \in Disconnecters, c.stops[who] # "no"
    PROVE  ConnInv(StopActs(c, who)) /\ Quieter(c, StopActs(c, who))
             /\ StopActs(c, who).registered = c.registered
<1> DEFINE b == [c EXCEPT !.stops[who] = "no"]
<1>1. /\ c \in Connections /\ c.hub \in HubStates /\ c.hub # "connecting"
      /\ c.stops[who] \in {"now", "later"}
      /\ who \in Stoppers /\ who # "connect"
      /\ who = "logout" => c.logout = "stopping"
      /\ who \notin Direct(c)
      /\ c.stops \in [Disconnecters -> {"no", "now", "later"}]
  BY DEF ConnInv, HubInv, StopInv, Connections, Disconnecters, Stoppers
<1>2. /\ b \in Connections /\ b.hub = c.hub /\ b.registered = c.registered
      /\ b.PendingInvocations = c.PendingInvocations
      /\ b.PendingStopCallback = c.PendingStopCallback /\ b.Connected = c.Connected
      /\ b.stopping = c.stopping /\ b.ending = c.ending
      /\ b.late = c.late /\ b.lost = c.lost
      /\ b.connect = c.connect /\ b.logout = c.logout
      /\ b.stops = [c.stops EXCEPT ![who] = "no"]
  BY DEF ConnInv, Connections
<1>3. /\ b.stops[who] = "no"
      /\ \A x \in Disconnecters : b.stops[x] # "no" => b.stops[x] = c.stops[x]
      /\ who # "logout" => b.stops["logout"] = c.stops["logout"]
      /\ "logout" \in Disconnecters /\ "server" \in Disconnecters
  BY <1>1, <1>2 DEF Disconnecters
<1>4. StopActs(c, who) = IF c.stops[who] = "now" THEN HubStop(DropStop(b), who)
                         ELSE StoreStop(b, who)
  BY DEF StopActs
<1> HIDE DEF b
<1>5. Direct(b) = Direct(c)
  BY <1>2 DEF Direct
<1>6. CountInv(b)
  BY <1>2, <1>3 DEF ConnInv, CountInv, Exact, Ended, StopIsUnderWay
<1>7. HubInv(b)
  BY <1>2, <1>3 DEF ConnInv, HubInv
<1>8. StopInv(b)
  BY <1>2, <1>3, <1>5 DEF ConnInv, StopInv
<1>9. LookInv(b)
  BY <1>2 DEF ConnInv, LookInv, WillBeLookedFor
<1>10. who # "logout" => HeldInv(b)
  BY <1>2, <1>3, <1>5 DEF ConnInv, HeldInv
<1>11. Quieter(c, b)
  BY <1>2 DEF Quieter
<1>12. CASE c.stops[who] = "later"
  <2>1. /\ ConnInv(StoreStop(b, who)) /\ Quieter(b, StoreStop(b, who))
        /\ StoreStop(b, who).registered = b.registered
    BY <1>1, <1>2, <1>3, <1>5, <1>6, <1>7, <1>8, <1>9, <1>10, StoreStopInv
  <2> QED BY <1>2, <1>4, <1>11, <1>12, <2>1 DEF Quieter
<1>13. CASE c.stops[who] = "now"
  <2> DEFINE f == DropStop(b)
  <2>1. /\ f \in Connections /\ f.hub = c.hub /\ f.registered = c.registered
        /\ f.PendingInvocations = c.PendingInvocations
        /\ f.PendingStopCallback = None /\ f.Connected = c.Connected
        /\ f.stopping = c.stopping /\ f.stops = b.stops /\ f.ending = c.ending
        /\ f.late = c.late /\ f.lost = c.lost \cup ({c.PendingStopCallback} \ {None})
        /\ f.connect = c.connect /\ f.logout = c.logout
    <3>1. c.lost \cup ({c.PendingStopCallback} \ {None}) \in SUBSET Stoppers
      BY <1>1 DEF Connections
    <3> QED BY <1>2, <3>1 DEF DropStop, Connections
  <2> HIDE DEF f
  <2>2. Direct(f) = Direct(c)
    BY <2>1 DEF Direct
  <2>3. CountInv(f) /\ HubInv(f)
    BY <1>2, <1>6, <1>7, <2>1 DEF CountInv, HubInv, Exact, Ended, StopIsUnderWay
  <2>4. StopInv(f)
    <3>1. None \notin Direct(c)
      BY <1>1, NoneIsNoStopper DEF Direct, Connections, StopCallbacks
    <3>2. f.PendingStopCallback # "connect" /\ f.PendingStopCallback # "logout"
      BY <2>1, NoneIsNoStopper DEF Stoppers
    <3> QED BY <1>2, <1>5, <1>8, <2>1, <2>2, <3>1, <3>2 DEF StopInv
  <2>5. who # "logout" => HeldInv(f)
    <3>1. c.PendingStopCallback = "logout" => "logout" \in f.lost
      BY <2>1, NoneIsNoStopper DEF Stoppers
    <3> QED BY <1>2, <1>5, <1>10, <2>1, <2>2, <3>1 DEF HeldInv
  <2>6. Quieter(c, f)
    BY <2>1 DEF Quieter
  <2>7. CASE Down(f)
    <3> DEFINE g == StopHandlers(f, {who})
    <3>1. HubStop(f, who) = g
      BY <1>1, <2>7 DEF HubStop, Stoppers
    <3>2. /\ g \in Connections /\ g.hub = f.hub /\ g.registered = f.registered
          /\ g.PendingInvocations = f.PendingInvocations
          /\ g.PendingStopCallback = None /\ ~g.Connected
          /\ g.stopping = f.stopping /\ g.stops = f.stops /\ g.ending = f.ending
          /\ g.late = f.late /\ g.lost = f.lost \ {who}
          /\ g.connect = f.connect
          /\ g.logout = IF who = "logout" THEN "post" ELSE f.logout
      BY <1>1, <2>1, StopHandlersFields
    <3> HIDE DEF g
    <3>3. Direct(g) = Direct(f)
      BY <3>2 DEF Direct
    <3>4. CountInv(g)
      BY <2>3, <3>2 DEF CountInv, Exact, Ended, StopIsUnderWay
    <3>5. HubInv(g)
      BY <1>1, <2>1, <2>3, <2>7, <3>2 DEF HubInv, Down
    <3>6. StopInv(g)
      <4>1. g.PendingStopCallback # "connect" /\ g.PendingStopCallback # "logout"
        BY <3>2, NoneIsNoStopper DEF Stoppers
      <4>2. who = "logout" => g.stops["logout"] = "no" /\ "logout" \notin Direct(g)
        BY <1>1, <1>3, <2>1, <2>2, <3>2, <3>3
      <4> QED BY <2>1, <2>4, <3>2, <3>3, <4>1, <4>2 DEF StopInv
    <3>7. LookInv(g)
      BY <3>2, NoneIsNoStopper DEF LookInv, Stoppers
    <3>8. HeldInv(g)
      <4>1. CASE who = "logout"
        BY <3>2, <4>1 DEF HeldInv
      <4>2. CASE who # "logout"
        BY <2>1, <2>5, <3>2, <3>3, <4>2, NoneIsNoStopper DEF HeldInv, Stoppers
      <4> QED BY <4>1, <4>2
    <3>9. Quieter(f, g)
      BY <1>1, <2>1, <3>2 DEF Quieter
    <3> QED BY <1>4, <1>13, <2>1, <2>6, <3>1, <3>2, <3>4, <3>5, <3>6, <3>7, <3>8, <3>9
            DEF ConnInv, Quieter, f
  <2>8. CASE ~Down(f)
    <3>1. /\ f.hub \in {"connected", "disconnecting"}
          /\ HubStop(f, who) = [f EXCEPT !.hub = "disconnecting", !.stopping = Append(@, who)]
      BY <1>1, <2>1, <2>8 DEF HubStop, Down, HubStates
    <3>2. /\ f.registered \subseteq f.late
          /\ f.PendingInvocations = Cardinality(f.registered) + Ended(f)
      BY <1>13, <2>1, <3>1 DEF ConnInv, CountInv, Exact, Ended, StopIsUnderWay
    <3>3. LET g == HubStop(f, who)
          IN  ConnInv(g) /\ Quieter(f, g) /\ g.registered = f.registered
      <4>1. /\ f.PendingStopCallback = None /\ who \notin Direct(f) /\ f.stops[who] = "no"
            /\ IF who = "logout" THEN f.logout = "stopping" ELSE HeldInv(f)
        BY <1>1, <1>3, <2>1, <2>2, <2>5
      <4>2. LET g == [f EXCEPT !.hub = "disconnecting", !.stopping = Append(@, who)]
            IN  ConnInv(g) /\ Quieter(f, g) /\ g.registered = f.registered
        <5>1. f \in Connections /\ HubInv(f) /\ StopInv(f)
          BY <2>1, <2>3, <2>4
        <5>2. f.hub \in {"connected", "disconnecting"}
          BY <3>1
        <5> QED BY <3>2, <4>1, <5>1, <5>2, StopGivenInv
      <4> QED BY <3>1, <4>2
    <3> QED BY <1>4, <1>13, <2>1, <2>6, <3>3 DEF Quieter, f
  <2> QED BY <2>7, <2>8
<1> QED BY <1>1, <1>12, <1>13

\* The stop callbacks of a connection that has closed.  A lambda that runs finds
\* a StopHandler; when none runs, a StopHandler that waits is left to the calls
\* that clear() did not reach.
LEMMA RunStopCallbacksInv ==
    ASSUME NEW c, ConnInv(c), c.hub = "clearing", ThreadFree(c)
    PROVE  LET r == RunStopCallbacks([c EXCEPT !.hub = "disconnected"])
           IN  ConnInv(r) /\ Quieter(c, r) /\ r.registered = c.registered
<1> DEFINE b == [c EXCEPT !.hub = "disconnected"]
           deferred == {i \in DOMAIN c.stopping : c.stopping[i] = "deferred"}
           throws == {i \in deferred : \/ c.PendingStopCallback = None
                                       \/ \E j \in deferred : j < i}
           ran == {i \in DOMAIN c.stopping : \A t \in throws : i < t}
           direct == {c.stopping[i] : i \in ran \ deferred}
           skipped == {c.stopping[i] : i \in (DOMAIN c.stopping) \ (ran \cup deferred)}
           d == [b EXCEPT !.stopping = <<>>, !.lost = @ \cup skipped]
           x == IF ran \cap deferred = {} THEN d ELSE DeferredStop(d)
           r == StopHandlers(x, direct)
<1>1. /\ c \in Connections /\ c.hub = "clearing" /\ c.ending = "no"
      /\ c.stops["server"] = "no" /\ c.connect # "started"
      /\ c.registered \in SUBSET Chains
      /\ c.stopping \in Seq(StopCallbacks)
  BY DEF ConnInv, ThreadFree, Connections
<1>2. /\ DOMAIN c.stopping = 1 .. Len(c.stopping) /\ Len(c.stopping) \in Nat
      /\ \A i \in DOMAIN c.stopping : c.stopping[i] \in StopCallbacks
      /\ DOMAIN c.stopping \subseteq Nat
  <2>1. /\ DOMAIN c.stopping = 1 .. Len(c.stopping) /\ Len(c.stopping) \in Nat
        /\ \A i \in 1 .. Len(c.stopping) : c.stopping[i] \in StopCallbacks
    BY <1>1, LenProperties, ElementOfSeq
  <2> QED BY <2>1
<1>3. /\ deferred \subseteq Nat
      /\ direct \subseteq Direct(c) /\ skipped \subseteq Direct(c)
      /\ Direct(c) = direct \cup skipped
      /\ Direct(c) \subseteq Stoppers \ {"connect"}
      /\ direct # {} => c.stopping # <<>>
  <2>1. deferred \subseteq Nat
    BY <1>2
  <2>2. direct \subseteq Direct(c) /\ skipped \subseteq Direct(c)
    BY DEF Direct
  <2>3. Direct(c) \subseteq direct \cup skipped
    BY DEF Direct
  <2>4. Direct(c) \subseteq Stoppers \ {"connect"}
    BY <1>2 DEF ConnInv, StopInv, Direct, StopCallbacks
  <2>5. direct # {} => c.stopping # <<>>
    <3>1. direct # {} => DOMAIN c.stopping # {}
      OBVIOUS
    <3>2. c.stopping = <<>> => DOMAIN c.stopping = {}
      BY EmptySeq
    <3> QED BY <3>1, <3>2
  <2> QED BY <2>1, <2>2, <2>3, <2>4, <2>5
<1>4. ran \cap deferred # {} => c.PendingStopCallback # None
  <2>1. SUFFICES ASSUME NEW i \in ran \cap deferred, c.PendingStopCallback = None PROVE FALSE
    OBVIOUS
  <2>2. i \in throws
    BY <2>1
  <2>3. i < i /\ i \in Nat
    BY <1>3, <2>1, <2>2
  <2> QED BY <2>3
<1>5. c.PendingStopCallback # None /\ deferred # {} => ran \cap deferred # {}
  <2>1. SUFFICES ASSUME c.PendingStopCallback # None, deferred # {}
                 PROVE  ran \cap deferred # {}
    OBVIOUS
  <2>2. PICK i \in deferred : \A j \in deferred : i <= j
    BY <1>3, <2>1, FirstPosition
  <2>3. ASSUME NEW t \in throws PROVE i < t
    <3>1. PICK j \in deferred : j < t
      BY <2>1, <2>3
    <3>2. i \in Nat /\ j \in Nat /\ t \in Nat /\ i <= j
      BY <1>3, <2>2, <2>3
    <3> QED BY <3>1, <3>2
  <2>4. i \in ran
    BY <2>3
  <2> QED BY <2>4
<1>6. r = RunStopCallbacks([c EXCEPT !.hub = "disconnected"])
  <2>1. b.stopping = c.stopping /\ b.PendingStopCallback = c.PendingStopCallback
    BY <1>1 DEF Connections
  <2> HIDE DEF b
  <2>2. r = RunStopCallbacks(b)
    BY <2>1 DEF RunStopCallbacks
  <2> QED BY <2>2 DEF b
<1>7. /\ d \in Connections /\ d.hub = "disconnected" /\ d.registered = c.registered
      /\ d.PendingInvocations = c.PendingInvocations
      /\ d.PendingStopCallback = c.PendingStopCallback /\ d.Connected = c.Connected
      /\ d.stopping = <<>> /\ d.stops = c.stops /\ d.ending = "no"
      /\ d.late = c.late /\ d.lost = c.lost \cup skipped
      /\ d.connect = c.connect /\ d.logout = c.logout
  <2>1. c.lost \cup skipped \in SUBSET Stoppers /\ <<>> \in Seq(StopCallbacks)
    BY <1>1, <1>3, EmptySeq DEF Connections
  <2> QED BY <1>1, <2>1 DEF Connections, HubStates
<1> DEFINE none == ran \cap deferred = {}
<1>8. deferred # {} /\ none => c.PendingStopCallback = None
  BY <1>5
<1>9. ~none => c.PendingStopCallback # None
  BY <1>4
<1>10. none \/ ~none
  OBVIOUS
<1>11. x = IF none THEN d ELSE DeferredStop(d)
  OBVIOUS
<1> HIDE DEF d, b, direct, skipped, none, x
<1>12. /\ x \in Connections /\ x.hub = "disconnected" /\ x.registered = c.registered
       /\ x.PendingInvocations = c.PendingInvocations
       /\ x.PendingStopCallback = IF none THEN c.PendingStopCallback ELSE None
       /\ x.Connected <=> c.Connected /\ none
       /\ x.stopping = <<>> /\ x.stops = c.stops /\ x.ending = "no"
       /\ x.late = c.late
       /\ x.lost = IF none THEN d.lost ELSE d.lost \ {c.PendingStopCallback}
       /\ x.connect = IF ~none /\ c.PendingStopCallback = "connect" THEN "idle" ELSE c.connect
       /\ x.logout = IF ~none /\ c.PendingStopCallback = "logout" THEN "post" ELSE c.logout
  <2>1. CASE none
    BY <1>7, <1>11, <2>1
  <2>2. CASE ~none
    BY <1>7, <1>9, <1>11, <2>2, DeferredStopFields
  <2> QED BY <2>1, <2>2
<1>13. /\ r \in Connections /\ r.hub = "disconnected" /\ r.registered = c.registered
       /\ r.PendingInvocations = c.PendingInvocations
       /\ r.PendingStopCallback = x.PendingStopCallback
       /\ r.Connected <=> x.Connected /\ direct = {}
       /\ r.stopping = <<>> /\ r.stops = c.stops /\ r.ending = "no"
       /\ r.late = c.late /\ r.lost = x.lost \ direct
       /\ r.connect = x.connect
       /\ r.logout = IF "logout" \in direct THEN "post" ELSE x.logout
  <2>1. "connect" \notin direct
    BY <1>3
  <2> QED BY <1>12, <2>1, StopHandlersFields
<1> HIDE DEF r
<1>14. Direct(r) = {}
  BY <1>13, EmptySeq DEF Direct
<1>15. CountInv(r)
  BY <1>1, <1>13 DEF ConnInv, CountInv, Exact, Ended, StopIsUnderWay
<1>16. HubInv(r)
  <2>1. "connect" \in c.registered => r.connect = c.connect
    BY <1>12, <1>13 DEF ConnInv, HubInv, StopInv
  <2>2. r.connect # "started"
    BY <1>1, <1>12, <1>13
  <2> QED BY <1>1, <1>13, <2>1, <2>2 DEF ConnInv, HubInv
<1>17. r.PendingStopCallback # None =>
         /\ none /\ deferred = {} /\ r.PendingStopCallback = c.PendingStopCallback
         /\ c.PendingStopCallback \in Stoppers \ Direct(c)
  BY <1>1, <1>8, <1>12, <1>13 DEF ConnInv, StopInv, Connections
<1>18. ASSUME deferred = {},
              \/ c.PendingStopCallback = "connect"
              \/ c.PendingStopCallback = "logout" /\ "logout" \notin c.lost
       PROVE  c.PendingInvocations > 0
  <2>1. deferred = {} => "deferred" \notin {c.stopping[i] : i \in DOMAIN c.stopping}
    OBVIOUS
  <2> QED BY <1>1, <1>18, <2>1 DEF ConnInv, LookInv, WillBeLookedFor
<1>19. StopInv(r)
  <2>1. r.PendingStopCallback = "connect" =>
          /\ r.connect = "stopping"
          /\ ~r.Connected => r.registered # {}
    <3>1. SUFFICES ASSUME r.PendingStopCallback = "connect"
                   PROVE  /\ r.connect = "stopping"
                          /\ ~r.Connected => r.registered # {}
      OBVIOUS
    <3>2. /\ none /\ deferred = {} /\ c.PendingStopCallback = "connect"
          /\ c.PendingInvocations > 0
      BY <1>17, <1>18, <3>1, NoneIsNoStopper DEF Stoppers
    <3>3. c.connect = "stopping" /\ c.Connected
      BY <1>1, <3>2 DEF ConnInv, StopInv
    <3>4. r.connect = "stopping" /\ (~r.Connected => direct # {})
      BY <1>12, <1>13, <3>2, <3>3
    <3>5. direct # {} => c.PendingInvocations = Cardinality(c.registered)
      <4>1. direct # {} => Exact(c)
        BY <1>3 DEF Exact
      <4>2. Cardinality(c.registered) \in Nat /\ Ended(c) = 0
        BY <1>1, ChainsFinite DEF Ended
      <4> QED BY <4>1, <4>2 DEF ConnInv, CountInv
    <3> QED BY <1>1, <1>13, <3>2, <3>4, <3>5, NoCalls
  <2>2. r.PendingStopCallback = "logout" => r.logout = "stopping"
    <3>1. SUFFICES ASSUME r.PendingStopCallback = "logout" PROVE r.logout = "stopping"
      OBVIOUS
    <3>2. none /\ c.PendingStopCallback = "logout" /\ "logout" \notin direct
      BY <1>3, <1>17, <3>1, NoneIsNoStopper DEF Stoppers
    <3> QED BY <1>12, <1>13, <3>2 DEF ConnInv, StopInv
  <2>3. r.stops["logout"] # "no" =>
          r.logout = "stopping" /\ r.PendingStopCallback # "logout"
    <3>1. SUFFICES ASSUME c.stops["logout"] # "no"
                   PROVE  r.logout = "stopping" /\ r.PendingStopCallback # "logout"
      BY <1>13
    <3>2. /\ c.logout = "stopping" /\ c.PendingStopCallback # "logout"
          /\ "logout" \notin Direct(c)
      BY <3>1 DEF ConnInv, StopInv, Disconnecters
    <3> QED BY <1>3, <1>12, <1>13, <3>2, NoneIsNoStopper DEF Stoppers
  <2> QED BY <1>13, <1>14, <2>1, <2>2, <2>3, EmptySeq DEF StopInv
<1>20. LookInv(r)
  <2>1. SUFFICES ASSUME \/ r.PendingStopCallback = "connect"
                        \/ r.PendingStopCallback = "logout" /\ "logout" \notin r.lost
                 PROVE  r.PendingInvocations > 0
    BY DEF LookInv, WillBeLookedFor
  <2>2. /\ none /\ deferred = {} /\ r.PendingStopCallback = c.PendingStopCallback
        /\ r.PendingStopCallback \notin direct
    BY <1>3, <1>17, <2>1, NoneIsNoStopper DEF Stoppers
  <2>3. r.PendingStopCallback = "logout" => "logout" \notin c.lost
    BY <1>7, <1>12, <1>13, <2>1, <2>2
  <2> QED BY <1>13, <1>18, <2>1, <2>2, <2>3
<1>21. HeldInv(r)
  <2>1. SUFFICES ASSUME r.logout = "stopping", "logout" \notin r.lost
                 PROVE  r.stops["logout"] # "no" \/ r.PendingStopCallback = "logout"
    BY DEF HeldInv
  <2>2. /\ "logout" \notin direct /\ c.logout = "stopping"
        /\ ~none => c.PendingStopCallback # "logout"
    BY <1>12, <1>13, <2>1
  <2>3. "logout" \notin c.lost /\ "logout" \notin skipped
    BY <1>7, <1>12, <1>13, <2>1, <2>2
  <2>4. c.stops["logout"] # "no" \/ c.PendingStopCallback = "logout"
    BY <1>3, <2>2, <2>3 DEF ConnInv, HeldInv
  <2> QED BY <1>12, <1>13, <2>2, <2>4
<1>22. Quieter(c, r)
  <2>1. "logout" \in direct => c.logout = "stopping"
    BY <1>3 DEF ConnInv, StopInv
  <2>2. c.PendingStopCallback = "logout" => c.logout = "stopping"
    BY DEF ConnInv, StopInv
  <2>3. c.PendingStopCallback = "connect" => c.connect = "stopping"
    BY DEF ConnInv, StopInv
  <2> QED BY <1>12, <1>13, <2>1, <2>2, <2>3 DEF Quieter
<1> QED BY <1>6, <1>13, <1>15, <1>16, <1>19, <1>20, <1>21, <1>22 DEF ConnInv

\* A call is made.
LEMMA InvokeInv ==
    ASSUME NEW c, ConnInv(c), c.hub = "connected", NEW k \in Chains \ c.registered,
           k = "connect" => c.connect \in {"delete", "clientId", "listen"}
    PROVE  ConnInv(Invoke(c, k)) /\ Quieter(c, Invoke(c, k))
             /\ Invoke(c, k).registered = c.registered \cup {k}
             /\ Invoke(c, k).hub = "connected"
<1> DEFINE late == IF StopIsUnderWay(c) THEN c.late \cup {k} ELSE c.late
           d == Invoke(c, k)
<1>1. /\ c \in Connections /\ c.registered \in SUBSET Chains /\ c.late \in SUBSET Chains
      /\ c.PendingInvocations \in Nat
      /\ late \in SUBSET Chains
  BY DEF ConnInv, Connections
<1>2. d = [c EXCEPT !.PendingInvocations = @ + 1, !.registered = @ \cup {k}, !.late = late]
  BY <1>1 DEF Invoke, Connections
<1>3. /\ StopIsUnderWay(c) => late = c.late \cup {k}
      /\ c.late \subseteq late
  OBVIOUS
<1> HIDE DEF d, late
<1>4. /\ d \in Connections /\ d.hub = c.hub /\ d.registered = c.registered \cup {k}
      /\ d.PendingInvocations = c.PendingInvocations + 1
      /\ d.PendingStopCallback = c.PendingStopCallback /\ d.Connected = c.Connected
      /\ d.stopping = c.stopping /\ d.stops = c.stops /\ d.ending = c.ending
      /\ d.late = late /\ d.lost = c.lost
      /\ d.connect = c.connect /\ d.logout = c.logout
  <2>1. PICK m \in Nat : m = c.PendingInvocations + 1
    BY <1>1
  <2>2. PICK R \in SUBSET Chains : R = c.registered \cup {k}
    BY <1>1
  <2>3. d = [c EXCEPT !.PendingInvocations = m, !.registered = R, !.late = late]
    BY <1>1, <1>2, <2>1, <2>2 DEF Connections
  <2>4. /\ d \in Connections /\ d.hub = c.hub /\ d.registered = R
        /\ d.PendingInvocations = m
        /\ d.PendingStopCallback = c.PendingStopCallback /\ d.Connected = c.Connected
        /\ d.stopping = c.stopping /\ d.stops = c.stops /\ d.ending = c.ending
        /\ d.late = late /\ d.lost = c.lost
        /\ d.connect = c.connect /\ d.logout = c.logout
    BY <1>1, <2>3 DEF Connections
  <2> QED BY <2>1, <2>2, <2>4
<1>5. CountInv(d)
  <2>1. /\ Cardinality(c.registered) \in Nat
        /\ Cardinality(d.registered) = Cardinality(c.registered) + 1
    BY <1>1, <1>4, ChainsFinite, OneCall
  <2>2. Ended(d) = Ended(c) /\ Ended(c) \in Nat
    BY <1>4 DEF Ended
  <2>3. Exact(d) <=> Exact(c)
    BY <1>4 DEF Exact, StopIsUnderWay
  <2>4. Cardinality(d.registered) + Ended(d) <= d.PendingInvocations
    BY <1>1, <1>4, <2>1, <2>2 DEF ConnInv, CountInv
  <2>5. Exact(d) => d.PendingInvocations = Cardinality(d.registered) + Ended(d)
    <3>1. Exact(d) => c.PendingInvocations = Cardinality(c.registered) + Ended(c)
      BY <2>3 DEF ConnInv, CountInv
    <3> QED BY <1>1, <1>4, <2>1, <2>2, <3>1
  <2>6. d.hub = "disconnecting" \/ StopIsUnderWay(d) => d.registered \subseteq d.late
    BY <1>3, <1>4 DEF ConnInv, CountInv, StopIsUnderWay
  <2> QED BY <2>4, <2>5, <2>6 DEF CountInv
<1>6. HubInv(d)
  BY <1>4 DEF ConnInv, HubInv
<1>7. Direct(d) = Direct(c)
  BY <1>4 DEF Direct
<1>8. StopInv(d)
  BY <1>4, <1>7 DEF ConnInv, StopInv
<1>9. LookInv(d)
  BY <1>1, <1>4 DEF LookInv, WillBeLookedFor
<1>10. HeldInv(d)
  BY <1>4, <1>7 DEF ConnInv, HeldInv
<1>11. Quieter(c, d)
  BY <1>4 DEF Quieter
<1> QED BY <1>4, <1>5, <1>6, <1>8, <1>9, <1>10, <1>11 DEF ConnInv, d

\* A page's exception goes past the count.
LEMMA PageFailedInv ==
    ASSUME NEW c, ConnInv(c), ThreadFree(c), NEW e \in c.registered,
           c.hub \in {"connected", "clearing"}
    PROVE  ConnInv(PageFailed(c, e)) /\ Quieter(c, PageFailed(c, e))
             /\ PageFailed(c, e).registered \subseteq c.registered
<1> DEFINE b == [c EXCEPT !.skipped = TRUE]
<1>1. c \in Connections /\ c.registered \in SUBSET Chains /\ c.PendingInvocations \in Nat
  BY DEF ConnInv, Connections
<1>2. /\ b \in Connections /\ b.hub = c.hub /\ b.registered = c.registered
      /\ b.PendingInvocations = c.PendingInvocations
      /\ b.PendingStopCallback = c.PendingStopCallback /\ b.Connected = c.Connected
      /\ b.stopping = c.stopping /\ b.stops = c.stops /\ b.ending = c.ending
      /\ b.late = c.late /\ b.lost = c.lost
      /\ b.connect = c.connect /\ b.logout = c.logout
  BY <1>1 DEF Connections
<1>3. PageFailed(c, e) =
        IF c.hub = "connected"
        THEN [b EXCEPT !.hub = "failing", !.registered = @ \ {e}, !.late = @ \ {e}]
        ELSE RunStopCallbacks([b EXCEPT !.hub = "disconnected"])
  BY DEF PageFailed
<1> HIDE DEF b
<1>4. Direct(b) = Direct(c)
  BY <1>2 DEF Direct
<1>5. ConnInv(b) /\ Quieter(c, b) /\ ThreadFree(b)
  <2>1. CountInv(b) /\ HubInv(b)
    BY <1>2 DEF ConnInv, CountInv, HubInv, Exact, Ended, StopIsUnderWay
  <2>2. StopInv(b) /\ LookInv(b) /\ HeldInv(b)
    BY <1>2, <1>4 DEF ConnInv, StopInv, LookInv, HeldInv, WillBeLookedFor
  <2> QED BY <1>2, <2>1, <2>2 DEF ConnInv, Quieter, ThreadFree
<1>6. CASE c.hub = "connected"
  <2> DEFINE d == [b EXCEPT !.hub = "failing", !.registered = @ \ {e}, !.late = @ \ {e}]
  <2>1. /\ d \in Connections /\ d.hub = "failing" /\ d.registered = c.registered \ {e}
        /\ d.PendingInvocations = c.PendingInvocations
        /\ d.PendingStopCallback = c.PendingStopCallback /\ d.Connected = c.Connected
        /\ d.stopping = c.stopping /\ d.stops = c.stops /\ d.ending = c.ending
        /\ d.late = c.late \ {e} /\ d.lost = c.lost
        /\ d.connect = c.connect /\ d.logout = c.logout
    BY <1>2 DEF Connections, HubStates
  <2> HIDE DEF d
  <2>2. c.stopping = <<>> /\ c.Connected
    BY <1>6 DEF ConnInv, StopInv, HubInv
  <2>3. CountInv(d)
    <3>1. /\ Cardinality(c.registered) \in Nat
          /\ Cardinality(d.registered) = Cardinality(c.registered) - 1
      BY <1>1, <2>1, ChainsFinite, OneCall
    <3>2. Ended(c) = 0 /\ Ended(d) = 0
      BY <2>1 DEF Ended, ThreadFree
    <3>3. Cardinality(c.registered) <= c.PendingInvocations
      BY <3>1, <3>2 DEF ConnInv, CountInv
    <3>4. ~Exact(d)
      BY <2>1, <2>2 DEF Exact
    <3>5. StopIsUnderWay(d) => d.registered \subseteq d.late
      BY <2>1 DEF ConnInv, CountInv, StopIsUnderWay
    <3> QED BY <1>1, <2>1, <3>1, <3>2, <3>3, <3>4, <3>5 DEF CountInv
  <2>4. HubInv(d)
    BY <2>1 DEF ConnInv, HubInv, ThreadFree
  <2>5. Direct(d) = Direct(c)
    BY <2>1 DEF Direct
  <2>6. StopInv(d)
    BY <2>1, <2>2, <2>5 DEF ConnInv, StopInv
  <2>7. LookInv(d) /\ HeldInv(d)
    BY <2>1, <2>5 DEF ConnInv, LookInv, HeldInv, WillBeLookedFor
  <2>8. Quieter(c, d)
    BY <2>1 DEF Quieter
  <2> QED BY <1>3, <1>6, <2>1, <2>3, <2>4, <2>6, <2>7, <2>8 DEF ConnInv, d
<1>7. CASE c.hub = "clearing"
  <2>1. LET r == RunStopCallbacks([b EXCEPT !.hub = "disconnected"])
        IN  ConnInv(r) /\ Quieter(b, r) /\ r.registered = b.registered
    BY <1>2, <1>5, <1>7, RunStopCallbacksInv
  <2> QED BY <1>2, <1>3, <1>5, <1>7, <2>1 DEF Quieter
<1> QED BY <1>6, <1>7

\* Stop reads the count.
LEMMA StopTestsInv ==
    ASSUME NEW c \in Connections, NEW who \in Disconnecters, CountInv(c), HubInv(c),
           StopInv(c), LookInv(c), who = "logout" => c.logout = "stopping",
           who # "logout" => HeldInv(c),
           c.Connected, c.stops[who] = "no", who \notin Direct(c),
           who = "logout" => c.PendingStopCallback # "logout",
           who = "server" => c.hub = "connected" /\ c.connect # "started"
    PROVE  ConnInv(StopTests(c, who)) /\ Quieter(c, StopTests(c, who))
             /\ StopTests(c, who).registered = c.registered
<1> DEFINE w == IF c.PendingInvocations = 0 THEN "now" ELSE "later"
           d == StopTests(c, who)
<1>1. /\ c.registered \in SUBSET Chains /\ c.PendingInvocations \in Nat
      /\ c.hub # "connecting" /\ w \in {"now", "later"}
      /\ w = "now" => c.PendingInvocations = 0
      /\ c.stops \in [Disconnecters -> {"no", "now", "later"}]
  BY DEF HubInv, Connections
<1>2. d = [c EXCEPT !.stops[who] = w]
  BY DEF StopTests
<1> HIDE DEF d, w
<1>3. /\ d \in Connections /\ d.hub = c.hub /\ d.registered = c.registered
      /\ d.PendingInvocations = c.PendingInvocations
      /\ d.PendingStopCallback = c.PendingStopCallback /\ d.Connected = c.Connected
      /\ d.stopping = c.stopping /\ d.ending = c.ending
      /\ d.late = c.late /\ d.lost = c.lost
      /\ d.connect = c.connect /\ d.logout = c.logout
      /\ d.stops = [c.stops EXCEPT ![who] = w]
  BY <1>1, <1>2 DEF Connections
<1>4. /\ d.stops[who] = w
      /\ \A x \in Disconnecters : x # who => d.stops[x] = c.stops[x]
      /\ Disconnecters = {"logout", "server"}
  BY <1>1, <1>3 DEF Disconnecters
<1>5. Direct(d) = Direct(c)
  BY <1>3 DEF Direct
<1>6. CountInv(d)
  <2>1. Cardinality(c.registered) \in Nat /\ Ended(d) = Ended(c) /\ Ended(c) \in Nat
    BY <1>1, <1>3, ChainsFinite DEF Ended
  <2>2. c.PendingInvocations = 0 =>
          c.registered = {} /\ c.PendingInvocations = Cardinality(c.registered) + Ended(c)
    BY <1>1, <2>1, NoCalls DEF CountInv
  <2>3. StopIsUnderWay(d) => StopIsUnderWay(c) \/ c.PendingInvocations = 0
    BY <1>1, <1>3, <1>4 DEF StopIsUnderWay
  <2>4. Exact(d) => Exact(c) \/ c.PendingInvocations = 0
    BY <1>3, <2>3 DEF Exact
  <2> QED BY <1>3, <2>1, <2>2, <2>3, <2>4 DEF CountInv
<1>7. HubInv(d)
  BY <1>1, <1>3, <1>4 DEF HubInv
<1>8. StopInv(d)
  BY <1>3, <1>4, <1>5 DEF StopInv
<1>9. LookInv(d)
  BY <1>3 DEF LookInv, WillBeLookedFor
<1>10. HeldInv(d)
  BY <1>1, <1>3, <1>4, <1>5 DEF HeldInv
<1>11. Quieter(c, d)
  BY <1>3 DEF Quieter
<1> QED BY <1>3, <1>6, <1>7, <1>8, <1>9, <1>10, <1>11 DEF ConnInv, d

\* Disconnect, from Logout.
LEMMA DisconnectInv ==
    ASSUME NEW c, ConnInv(c), c.logout = "idle"
    PROVE  LET d == Disconnect(c)
           IN  /\ ConnInv(d) /\ d.registered = c.registered /\ d.logout # "idle"
               /\ d.Connected => c.Connected
               /\ d.hub = c.hub /\ d.connect = c.connect
               /\ d.logout = "post" => ~d.Connected
<1> DEFINE b == [c EXCEPT !.logout = "stopping"]
<1>1. /\ c \in Connections /\ c.stops["logout"] = "no" /\ c.PendingStopCallback # "logout"
      /\ "logout" \notin Direct(c)
  BY DEF ConnInv, StopInv
<1>2. /\ b \in Connections /\ b.hub = c.hub /\ b.registered = c.registered
      /\ b.PendingInvocations = c.PendingInvocations
      /\ b.PendingStopCallback = c.PendingStopCallback /\ b.Connected = c.Connected
      /\ b.stopping = c.stopping /\ b.stops = c.stops /\ b.ending = c.ending
      /\ b.late = c.late /\ b.lost = c.lost
      /\ b.connect = c.connect /\ b.logout = "stopping"
  BY <1>1 DEF Connections
<1>3. Disconnect(c) = IF c.Connected THEN StopTests(b, "logout")
                      ELSE StopHandlers(b, {"logout"})
  BY <1>2 DEF Disconnect, DisconnectWithReason
<1> HIDE DEF b
<1>4. Direct(b) = Direct(c)
  BY <1>2 DEF Direct
<1>5. /\ CountInv(b) /\ HubInv(b) /\ StopInv(b) /\ LookInv(b)
  BY <1>1, <1>2, <1>4 DEF ConnInv, CountInv, HubInv, StopInv, LookInv, Exact, Ended,
     StopIsUnderWay, WillBeLookedFor
<1>6. CASE c.Connected
  <2>1. /\ ConnInv(StopTests(b, "logout")) /\ Quieter(b, StopTests(b, "logout"))
        /\ StopTests(b, "logout").registered = b.registered
    BY <1>1, <1>2, <1>4, <1>5, <1>6, StopTestsInv DEF Disconnecters
  <2>2. /\ StopTests(b, "logout").hub = b.hub /\ StopTests(b, "logout").connect = b.connect
        /\ StopTests(b, "logout").logout = b.logout
    BY <1>2 DEF StopTests, Connections
  <2> QED BY <1>2, <1>3, <1>6, <2>1, <2>2
<1>7. CASE ~c.Connected
  <2> DEFINE f == StopHandlers(b, {"logout"})
  <2>1. /\ f \in Connections /\ f.hub = b.hub /\ f.registered = b.registered
        /\ f.PendingInvocations = b.PendingInvocations
        /\ f.PendingStopCallback = b.PendingStopCallback
        /\ f.stopping = b.stopping /\ f.stops = b.stops /\ f.ending = b.ending
        /\ f.late = b.late /\ f.lost = b.lost \ {"logout"}
        /\ ~f.Connected /\ f.connect = b.connect /\ f.logout = "post"
    BY <1>2, StopHandlersFields
  <2> HIDE DEF f
  <2>2. Direct(f) = Direct(b)
    BY <2>1 DEF Direct
  <2>3. CountInv(f)
    BY <1>5, <2>1 DEF CountInv, Exact, Ended, StopIsUnderWay
  <2>4. HubInv(f)
    BY <1>2, <1>5, <1>7, <2>1 DEF HubInv
  <2>5. StopInv(f)
    BY <1>1, <1>2, <1>4, <1>5, <1>7, <2>1, <2>2 DEF StopInv
  <2>6. LookInv(f)
    BY <1>1, <1>2, <1>5, <2>1 DEF LookInv, WillBeLookedFor
  <2>7. HeldInv(f)
    BY <2>1 DEF HeldInv
  <2> QED BY <1>2, <1>3, <1>7, <2>1, <2>3, <2>4, <2>5, <2>6, <2>7 DEF ConnInv, f
<1> QED BY <1>6, <1>7

\* The server's request to disconnect.
LEMMA RequestInv ==
    ASSUME NEW c, ConnInv(c), c.hub = "connected", ThreadFree(c)
    PROVE  LET d == DisconnectWithReason(c, "server")
           IN  ConnInv(d) /\ Quieter(c, d) /\ d.registered = c.registered
<1>1. c.Connected /\ c.stopping = <<>> /\ c.stops["server"] = "no" /\ c.connect # "started"
  BY DEF ConnInv, HubInv, StopInv, ThreadFree
<1>2. "server" \notin Direct(c)
  BY <1>1, EmptySeq DEF Direct
<1>3. DisconnectWithReason(c, "server") = StopTests(c, "server")
  BY <1>1 DEF DisconnectWithReason
<1> QED BY <1>1, <1>2, <1>3, StopTestsInv DEF ConnInv, Disconnecters

\* Connect, from Login's callback.
LEMMA ConnectInv ==
    ASSUME NEW c, ConnInv(c), c.registered = {}, c.logout = "idle"
    PROVE  LET d == Connect(c)
           IN  /\ ConnInv(d) /\ d.registered = c.registered
               /\ d.Connected <=> c.Connected
               /\ d.logout = c.logout
               /\ d.hub = "connected" <=> c.hub = "connected"
<1>1. CASE ~c.Connected /\ c.hub = "disconnected"
  <2> DEFINE d == [c EXCEPT !.hub = "connecting", !.connect = "start"]
  <2>1. Connect(c) = d /\ c \in Connections
    BY <1>1 DEF Connect, ConnInv
  <2>2. /\ d \in Connections /\ d.hub = "connecting" /\ d.registered = {}
        /\ d.PendingInvocations = c.PendingInvocations
        /\ d.PendingStopCallback = c.PendingStopCallback /\ d.Connected = c.Connected
        /\ d.stopping = c.stopping /\ d.stops = c.stops /\ d.ending = c.ending
        /\ d.late = c.late /\ d.lost = c.lost
        /\ d.connect = "start" /\ d.logout = c.logout
    BY <2>1 DEF Connections, HubStates, ConnectSteps
  <2> HIDE DEF d
  <2>3. /\ c.stopping = <<>> /\ c.PendingStopCallback # "connect"
        /\ c.stops["logout"] = "no" /\ c.stops["server"] = "no" /\ c.ending = "no"
    BY <1>1 DEF ConnInv, StopInv, HubInv
  <2>4. Direct(d) = Direct(c)
    BY <2>2 DEF Direct
  <2>5. CountInv(d)
    BY <2>2, <2>3 DEF ConnInv, CountInv, Exact, Ended, StopIsUnderWay, Disconnecters
  <2>6. HubInv(d)
    BY <1>1, <2>2, <2>3 DEF HubInv
  <2>7. StopInv(d)
    BY <2>2, <2>3, <2>4 DEF ConnInv, StopInv
  <2>8. LookInv(d) /\ HeldInv(d)
    BY <2>2, <2>4 DEF ConnInv, LookInv, HeldInv, WillBeLookedFor
  <2> QED BY <1>1, <2>1, <2>2, <2>5, <2>6, <2>7, <2>8 DEF ConnInv
<1>2. CASE ~(~c.Connected /\ c.hub = "disconnected")
  BY <1>2 DEF Connect
<1> QED BY <1>1, <1>2

\* Start() has succeeded.
LEMMA StartedInv ==
    ASSUME NEW c, ConnInv(c), c.hub = "connecting"
    PROVE  LET d == [c EXCEPT !.hub = "connected", !.Connected = TRUE, !.connect = "started"]
           IN  /\ ConnInv(d) /\ d.registered = c.registered /\ d.connect # "idle"
               /\ d.hub = "connected" /\ d.logout = c.logout
<1> DEFINE d == [c EXCEPT !.hub = "connected", !.Connected = TRUE, !.connect = "started"]
<1>1. c \in Connections
  BY DEF ConnInv
<1>2. /\ d \in Connections /\ d.hub = "connected" /\ d.registered = c.registered
      /\ d.PendingInvocations = c.PendingInvocations
      /\ d.PendingStopCallback = c.PendingStopCallback /\ d.Connected
      /\ d.stopping = c.stopping /\ d.stops = c.stops /\ d.ending = c.ending
      /\ d.late = c.late /\ d.lost = c.lost
      /\ d.connect = "started" /\ d.logout = c.logout
  BY <1>1 DEF Connections, HubStates, ConnectSteps
<1> HIDE DEF d
<1>3. /\ c.stopping = <<>> /\ c.connect = "start" /\ c.PendingStopCallback # "connect"
      /\ c.stops["logout"] = "no" /\ c.stops["server"] = "no" /\ c.ending = "no"
      /\ "connect" \notin c.registered
  BY DEF ConnInv, StopInv, HubInv
<1>4. Direct(d) = Direct(c)
  BY <1>2 DEF Direct
<1>5. CountInv(d)
  BY <1>2, <1>3 DEF ConnInv, CountInv, Exact, Ended, StopIsUnderWay, Disconnecters
<1>6. HubInv(d)
  BY <1>2, <1>3 DEF HubInv
<1>7. StopInv(d)
  BY <1>2, <1>3, <1>4 DEF ConnInv, StopInv
<1>8. LookInv(d) /\ HeldInv(d)
  BY <1>2, <1>4 DEF ConnInv, LookInv, HeldInv, WillBeLookedFor
<1> QED BY <1>2, <1>5, <1>6, <1>7, <1>8 DEF ConnInv, d

\* Start's continuation.
LEMMA DeleteEntitiesInv ==
    ASSUME NEW c, ConnInv(c), c.connect = "started",
           NEW d,
           \/ /\ c.hub = "connected"
              /\ d = Invoke([c EXCEPT !.connect = "delete"], "connect")
           \/ /\ c.hub # "connected"
              /\ d = ConnectFailed([c EXCEPT !.PendingInvocations = @ + 1])
    PROVE  /\ ConnInv(d) /\ Quieter(c, d)
           /\ d.registered \subseteq c.registered \cup {"connect"}
<1>1. /\ c \in Connections /\ c.hub \in {"connected", "disconnecting"}
      /\ c.ending = "no" /\ c.stops["server"] = "no"
      /\ "connect" \notin c.registered
      /\ c.PendingStopCallback # "connect"
  BY DEF ConnInv, HubInv, StopInv
<1>2. CASE c.hub = "connected" /\ d = Invoke([c EXCEPT !.connect = "delete"], "connect")
  <2> DEFINE b == [c EXCEPT !.connect = "delete"]
  <2>1. /\ b \in Connections /\ b.hub = c.hub /\ b.registered = c.registered
        /\ b.PendingInvocations = c.PendingInvocations
        /\ b.PendingStopCallback = c.PendingStopCallback /\ b.Connected = c.Connected
        /\ b.stopping = c.stopping /\ b.stops = c.stops /\ b.ending = c.ending
        /\ b.late = c.late /\ b.lost = c.lost
        /\ b.connect = "delete" /\ b.logout = c.logout
    BY <1>1 DEF Connections, ConnectSteps
  <2> HIDE DEF b
  <2>2. Direct(b) = Direct(c)
    BY <2>1 DEF Direct
  <2>3. CountInv(b)
    BY <2>1 DEF ConnInv, CountInv, Exact, Ended, StopIsUnderWay
  <2>4. HubInv(b)
    BY <1>1, <2>1 DEF ConnInv, HubInv
  <2>5. StopInv(b)
    BY <1>1, <2>1, <2>2 DEF ConnInv, StopInv
  <2>6. LookInv(b) /\ HeldInv(b)
    BY <2>1, <2>2 DEF ConnInv, LookInv, HeldInv, WillBeLookedFor
  <2>7. ConnInv(b) /\ Quieter(c, b)
    BY <2>1, <2>3, <2>4, <2>5, <2>6 DEF ConnInv, Quieter
  <2>8. "connect" \in Chains \ b.registered
    BY <1>1, <2>1 DEF Chains
  <2>9. /\ ConnInv(Invoke(b, "connect")) /\ Quieter(b, Invoke(b, "connect"))
        /\ Invoke(b, "connect").registered = b.registered \cup {"connect"}
    BY <1>2, <2>1, <2>7, <2>8, InvokeInv
  <2> QED BY <1>2, <2>1, <2>7, <2>9 DEF Quieter, b
<1>3. CASE c.hub # "connected" /\ d = ConnectFailed([c EXCEPT !.PendingInvocations = @ + 1])
  <2> DEFINE c0 == [c EXCEPT !.PendingInvocations = @ + 1]
  <2>1. c0 = [c EXCEPT !.PendingInvocations = IF "connect" \in c.registered THEN @ ELSE @ + 1]
    BY <1>1
  <2> HIDE DEF c0
  <2>2. /\ ConnInv(ConnectFailed(c0)) /\ Quieter(c, ConnectFailed(c0))
        /\ ConnectFailed(c0).registered = c.registered \ {"connect"}
    BY <1>1, <1>3, <2>1, ConnectFailedInv
  <2> QED BY <1>3, <2>2 DEF c0
<1> QED BY <1>2, <1>3

\* Start() has failed.
LEMMA StartFailedInv ==
    ASSUME NEW c, ConnInv(c), c.hub = "connecting"
    PROVE  LET d == StopHandlers([c EXCEPT !.hub = "disconnected"], {"connect"})
           IN  ConnInv(d) /\ Quieter(c, d) /\ d.registered = c.registered
<1> DEFINE b == [c EXCEPT !.hub = "disconnected"]
           d == StopHandlers(b, {"connect"})
<1>1. c \in Connections
  BY DEF ConnInv
<1>2. /\ b \in Connections /\ b.hub = "disconnected" /\ b.registered = c.registered
      /\ b.PendingInvocations = c.PendingInvocations
      /\ b.PendingStopCallback = c.PendingStopCallback
      /\ b.stopping = c.stopping /\ b.stops = c.stops /\ b.ending = c.ending
      /\ b.late = c.late /\ b.lost = c.lost
      /\ b.connect = c.connect /\ b.logout = c.logout
  BY <1>1 DEF Connections, HubStates
<1> HIDE DEF b
<1>3. /\ d \in Connections /\ d.hub = "disconnected" /\ d.registered = c.registered
      /\ d.PendingInvocations = c.PendingInvocations
      /\ d.PendingStopCallback = c.PendingStopCallback /\ ~d.Connected
      /\ d.stopping = c.stopping /\ d.stops = c.stops /\ d.ending = c.ending
      /\ d.late = c.late /\ d.lost = c.lost \ {"connect"}
      /\ d.connect = "idle" /\ d.logout = c.logout
  BY <1>2, StopHandlersFields
<1> HIDE DEF d
<1>4. /\ c.stopping = <<>> /\ c.connect = "start" /\ c.PendingStopCallback # "connect"
      /\ c.stops["server"] = "no" /\ c.ending = "no" /\ "connect" \notin c.registered
  BY DEF ConnInv, StopInv, HubInv
<1>5. Direct(d) = Direct(c)
  BY <1>3 DEF Direct
<1>6. CountInv(d)
  BY <1>3, <1>4 DEF ConnInv, CountInv, Exact, Ended, StopIsUnderWay
<1>7. HubInv(d)
  BY <1>3, <1>4 DEF HubInv
<1>8. StopInv(d)
  BY <1>3, <1>4, <1>5 DEF ConnInv, StopInv
<1>9. LookInv(d) /\ HeldInv(d)
  BY <1>3, <1>4, <1>5 DEF ConnInv, LookInv, HeldInv, WillBeLookedFor
<1>10. Quieter(c, d)
  BY <1>3 DEF Quieter
<1> QED BY <1>3, <1>6, <1>7, <1>8, <1>9, <1>10 DEF ConnInv, d, b

\* The connection closes, or is interrupted.
LEMMA ClosedInv ==
    ASSUME NEW c, ConnInv(c), ThreadFree(c), c.hub \in {"connected", "disconnecting", "failing"}
    PROVE  LET d == [c EXCEPT !.hub = "clearing"]
           IN  ConnInv(d) /\ Quieter(c, d) /\ d.registered = c.registered /\ d.hub = "clearing"
<1> DEFINE d == [c EXCEPT !.hub = "clearing"]
<1>1. c \in Connections
  BY DEF ConnInv
<1>2. /\ d \in Connections /\ d.hub = "clearing" /\ d.registered = c.registered
      /\ d.PendingInvocations = c.PendingInvocations
      /\ d.PendingStopCallback = c.PendingStopCallback /\ d.Connected = c.Connected
      /\ d.stopping = c.stopping /\ d.stops = c.stops /\ d.ending = c.ending
      /\ d.late = c.late /\ d.lost = c.lost
      /\ d.connect = c.connect /\ d.logout = c.logout
  BY <1>1 DEF Connections, HubStates
<1> HIDE DEF d
<1>3. Direct(d) = Direct(c)
  BY <1>2 DEF Direct
<1>4. CountInv(d)
  BY <1>2 DEF ConnInv, CountInv, Exact, Ended, StopIsUnderWay
<1>5. HubInv(d)
  BY <1>2 DEF ConnInv, HubInv, ThreadFree
<1>6. StopInv(d)
  BY <1>2, <1>3 DEF ConnInv, StopInv
<1>7. LookInv(d) /\ HeldInv(d)
  BY <1>2, <1>3 DEF ConnInv, LookInv, HeldInv, WillBeLookedFor
<1>8. Quieter(c, d)
  BY <1>2 DEF Quieter
<1> QED BY <1>2, <1>4, <1>5, <1>6, <1>7, <1>8 DEF ConnInv, d

\* Connect's chain goes on.
LEMMA ConnectNextInv ==
    ASSUME NEW c, ConnInv(c), c.hub = "connected", "connect" \in c.registered,
           NEW step \in {"clientId", "listen"}
    PROVE  LET d == [c EXCEPT !.connect = step]
           IN  ConnInv(d) /\ Quieter(c, d) /\ d.registered = c.registered
<1> DEFINE d == [c EXCEPT !.connect = step]
<1>1. c \in Connections /\ c.connect \in {"delete", "clientId", "listen"}
  BY DEF ConnInv, HubInv
<1>2. /\ d \in Connections /\ d.hub = c.hub /\ d.registered = c.registered
      /\ d.PendingInvocations = c.PendingInvocations
      /\ d.PendingStopCallback = c.PendingStopCallback /\ d.Connected = c.Connected
      /\ d.stopping = c.stopping /\ d.stops = c.stops /\ d.ending = c.ending
      /\ d.late = c.late /\ d.lost = c.lost
      /\ d.connect = step /\ d.logout = c.logout
  BY <1>1 DEF Connections, ConnectSteps
<1> HIDE DEF d
<1>3. Direct(d) = Direct(c)
  BY <1>2 DEF Direct
<1>4. CountInv(d)
  BY <1>2 DEF ConnInv, CountInv, Exact, Ended, StopIsUnderWay
<1>5. HubInv(d)
  BY <1>2 DEF ConnInv, HubInv
<1>6. StopInv(d)
  BY <1>1, <1>2, <1>3 DEF ConnInv, StopInv
<1>7. LookInv(d) /\ HeldInv(d)
  BY <1>2, <1>3 DEF ConnInv, LookInv, HeldInv, WillBeLookedFor
<1>8. Quieter(c, d)
  BY <1>1, <1>2 DEF Quieter
<1> QED BY <1>2, <1>4, <1>5, <1>6, <1>7, <1>8 DEF ConnInv, d

\* Connect's chain has succeeded.
LEMMA ConnectDoneInv ==
    ASSUME NEW c, ConnInv(c), ThreadFree(c), c.hub = "connected", "connect" \in c.registered
    PROVE  LET d == Finish([c EXCEPT !.connect = "idle"], "connect")
           IN  ConnInv(d) /\ Quieter(c, d) /\ d.registered = c.registered \ {"connect"}
<1> DEFINE d == Finish([c EXCEPT !.connect = "idle"], "connect")
<1>1. /\ c \in Connections /\ c.connect \in {"delete", "clientId", "listen"}
      /\ "connect" \in Chains /\ c.PendingInvocations \in Nat
  BY DEF ConnInv, HubInv, Connections, Chains
<1>2. /\ d \in Connections /\ d.hub = c.hub /\ d.registered = c.registered \ {"connect"}
      /\ d.PendingInvocations = c.PendingInvocations
      /\ d.PendingStopCallback = c.PendingStopCallback /\ d.Connected = c.Connected
      /\ d.stopping = c.stopping /\ d.stops = c.stops /\ d.ending = "called"
      /\ d.late = c.late \ {"connect"} /\ d.lost = c.lost
      /\ d.connect = "idle" /\ d.logout = c.logout
  BY <1>1 DEF Connections, ConnectSteps, Finish
<1> HIDE DEF d
<1>3. CountInv(d) /\ d.PendingInvocations > 0
  BY <1>1, <1>2, CalledCount DEF ThreadFree
<1>4. HubInv(d)
  BY <1>2 DEF ConnInv, HubInv
<1>5. Direct(d) = Direct(c)
  BY <1>2 DEF Direct
<1>6. StopInv(d)
  BY <1>1, <1>2, <1>5 DEF ConnInv, StopInv
<1>7. LookInv(d)
  BY <1>3 DEF LookInv, WillBeLookedFor
<1>8. HeldInv(d)
  BY <1>2, <1>5 DEF ConnInv, HeldInv
<1>9. Quieter(c, d)
  BY <1>2 DEF Quieter
<1> QED BY <1>2, <1>3, <1>4, <1>6, <1>7, <1>8, <1>9 DEF ConnInv, d
----------------------------------------------------------------------------
(***************************************************************************)
(* The session.                                                            *)
(***************************************************************************)

\* The types of what is not part of the connection.
SessionTypes ==
    /\ server \in [scope : Spaces \cup {None}, listening : BOOLEAN]
    /\ faults \in 0..MaxFaults
    /\ LoginState \in LoginStates
    /\ enter \in [step : EnterRequests \cup EnterCalls \cup {"idle", "hung"},
                  engine : Engines \cup {None}, space : Spaces \cup {None}]
    /\ exit \in {"idle", "stopListening", "resetScopes"}
    /\ attached \in Engines \cup {None}
    /\ CurrentSpace \in Spaces \cup {None}
    /\ engineOf \in [Engines -> {"fresh", "used", "left", "released"}]
    /\ joined \in Engines \cup {None}
    /\ patient \in BOOLEAN
    /\ crashed \in BOOLEAN
    /\ calls \in 0..MaxCalls
    /\ pages \in 0..MaxPages

\* SessionInv is the sum of its parts.
LEMMA Parts ==
    SessionInv <=> /\ SessionTypes /\ ConnInv(conn) /\ ChainInv
                   /\ PatientInv /\ SuccessMeansJoined
BY DEF SessionInv, SessionTypes, TypeOK, ConnInv

\* The parts after a step.
LEMMA PartsNext ==
    SessionInv' <=> /\ SessionTypes' /\ ConnInv(conn') /\ ChainInv'
                    /\ PatientInv' /\ SuccessMeansJoined'
BY DEF SessionInv, SessionTypes, TypeOK, ConnInv, CountInv, HubInv, StopInv, LookInv,
   HeldInv, Direct, Exact, Ended, StopIsUnderWay, WillBeLookedFor

\* The initial states.
LEMMA InitInv == Init => SessionInv
<1> SUFFICES ASSUME Init PROVE SessionInv
  OBVIOUS
<1>1. SessionTypes
  <2>1. /\ faults \in 0..MaxFaults /\ calls \in 0..MaxCalls /\ pages \in 0..MaxPages
    BY BoundsAssumption, MaxFaultsAssumption DEF Init
  <2>2. /\ server \in [scope : Spaces \cup {None}, listening : BOOLEAN]
        /\ enter \in [step : EnterRequests \cup EnterCalls \cup {"idle", "hung"},
                      engine : Engines \cup {None}, space : Spaces \cup {None}]
    BY DEF Init, NotListening, Idle
  <2>3. patient \in BOOLEAN /\ crashed \in BOOLEAN
    BY DEF Init
  <2>4. /\ LoginState \in LoginStates
        /\ exit \in {"idle", "stopListening", "resetScopes"}
        /\ attached \in Engines \cup {None} /\ joined \in Engines \cup {None}
        /\ CurrentSpace \in Spaces \cup {None}
        /\ engineOf \in [Engines -> {"fresh", "used", "left", "released"}]
    BY DEF Init, LoginStates
  <2> QED BY <2>1, <2>2, <2>3, <2>4 DEF SessionTypes
<1>2. NewConnection \in Connections
  BY EmptySeq DEF NewConnection, Connections, HubStates, ConnectSteps
<1>3. /\ Cardinality({}) = 0 /\ Disconnecters = {"logout", "server"}
      /\ NewConnection.stops["logout"] = "no" /\ NewConnection.stops["server"] = "no"
  BY FS_EmptySet DEF Disconnecters, NewConnection
<1>4. CountInv(NewConnection) /\ HubInv(NewConnection)
  BY <1>3 DEF NewConnection, CountInv, HubInv, Exact, Ended, StopIsUnderWay
<1>5. StopInv(NewConnection) /\ LookInv(NewConnection) /\ HeldInv(NewConnection)
  <2>1. Direct(NewConnection) = {}
    BY EmptySeq DEF NewConnection, Direct
  <2>2. NewConnection.stopping = <<>> /\ NewConnection.PendingStopCallback = None
        /\ NewConnection.logout = "idle"
    BY DEF NewConnection
  <2> QED BY <1>3, <2>1, <2>2, NoneIsNoStopper, EmptySeq
          DEF StopInv, LookInv, HeldInv, Stoppers
<1>6. ConnInv(conn)
  BY <1>2, <1>4, <1>5 DEF Init, ConnInv
<1>7. ChainInv
  BY DEF Init, ChainInv, NewConnection, Idle, EnterRequests, EnterCalls
<1>8. PatientInv
  BY DEF Init, PatientInv, NewConnection, Idle
<1>9. SuccessMeansJoined
  BY DEF Init, SuccessMeansJoined
<1> QED BY <1>1, <1>6, <1>7, <1>8, <1>9, Parts

\* A step of the connection that changes nothing else: fewer calls in flight, or
\* that of the flag or of Connect's chain.
LEMMA QuietStep ==
    ASSUME SessionInv, UNCHANGED <<session, patient>>, SessionTypes',
           ConnInv(conn'), Quieter(conn, conn'),
           conn'.registered \subseteq conn.registered \cup {"flag", "connect"},
           conn'.hub = "connected" => server' = server
    PROVE  SessionInv'
<1> USE Parts
<1>1. ChainInv'
  <2>1. /\ "enter" \in conn'.registered => enter'.step \in EnterCalls
        /\ "exit" \in conn'.registered => exit' # "idle"
    BY DEF ChainInv, session
  <2>2. enter'.step \in EnterRequests \cup EnterCalls =>
          enter'.engine \in Engines \ conn'.registered /\ enter'.space \in Spaces
    BY EnginesAssumption DEF ChainInv, session
  <2>3. conn'.logout # "idle" <=> LoginState' = "LogoutRequested"
    BY DEF ChainInv, session, Quieter
  <2> QED BY <2>1, <2>2, <2>3 DEF ChainInv
<1>2. PatientInv'
  BY DEF PatientInv, session, Quieter
<1>3. SuccessMeansJoined'
  BY DEF SuccessMeansJoined, session, Quieter
<1> QED BY <1>1, <1>2, <1>3, PartsNext

\* The calls of the application count up to their bound.
LEMMA AppCallTypes ==
    ASSUME SessionInv, AppCall
    PROVE  calls' \in 0..MaxCalls
BY BoundsAssumption DEF SessionInv, TypeOK, AppCall

\* For an application that awaits its callbacks, who is Connected is logged in.
LEMMA PatientCall ==
    ASSUME SessionInv, AppCall, patient
    PROVE  /\ LoginState \notin {"LoginRequested", "LogoutRequested"}
           /\ conn.connect = "idle" /\ enter.step = "idle" /\ exit = "idle"
           /\ conn.Connected => LoginState = "LoggedIn"
BY Parts DEF AppCall, Waiting, PatientInv, SessionTypes, LoginStates

\* Login.
LEMMA LoginInv ==
    ASSUME SessionInv, Login PROVE SessionInv'
<1> USE Parts
<1>1. SessionTypes'
  BY AppCallTypes DEF Login, SessionTypes, LoginStates
<1>2. ConnInv(conn')
  BY DEF Login
<1>3. ChainInv'
  BY DEF Login, ChainInv
<1>4. PatientInv'
  BY DEF Login, PatientInv
<1>5. SuccessMeansJoined'
  BY DEF Login, SuccessMeansJoined
<1> QED BY <1>1, <1>2, <1>3, <1>4, <1>5, PartsNext

\* The answer to Login, which may make the connection.
LEMMA LoginAnsweredInv ==
    ASSUME SessionInv, LoginAnswered PROVE SessionInv'
<1> USE Parts
<1>1. SessionTypes'
  BY DEF LoginAnswered, SessionTypes, LoginStates
<1>2. /\ ConnInv(conn')
      /\ conn'.registered = conn.registered
      /\ conn'.Connected <=> conn.Connected
      /\ conn'.logout = conn.logout
      /\ conn'.hub = "connected" <=> conn.hub = "connected"
      /\ LoginState' = "LoggedIn" \/ (LoginState' = "Error" /\ conn' = conn)
  <2>1. conn.logout = "idle"
    BY DEF LoginAnswered, ChainInv
  <2> QED BY <2>1, ConnectInv DEF LoginAnswered
<1>3. UNCHANGED <<server, enter, exit, attached, CurrentSpace, engineOf, joined, patient>>
      /\ LoginState = "LoginRequested"
  BY DEF LoginAnswered
<1>4. ChainInv'
  BY <1>2, <1>3 DEF ChainInv
<1>5. PatientInv'
  <2>1. SUFFICES ASSUME patient PROVE PatientInv'
    BY <1>3 DEF PatientInv
  <2>2. /\ enter.step = "idle" /\ exit = "idle" /\ joined = None /\ conn.connect = "idle"
        /\ ~conn.Connected /\ conn.hub # "connecting"
    BY <1>3, <2>1 DEF PatientInv
  <2> QED BY <1>2, <1>3, <2>2 DEF PatientInv
<1>6. SuccessMeansJoined'
  BY <1>2, <1>3 DEF SuccessMeansJoined
<1> QED BY <1>1, <1>2, <1>4, <1>5, <1>6, PartsNext

\* Logout, with its Disconnect.
LEMMA LogoutInv ==
    ASSUME SessionInv, Logout PROVE SessionInv'
<1> USE Parts
<1>1. SessionTypes'
  BY AppCallTypes DEF Logout, SessionTypes, LoginStates
<1>2. conn.logout = "idle" /\ LoginState = "LoggedIn"
  BY DEF Logout, ChainInv
<1>3. /\ ConnInv(conn')
      /\ conn'.registered = conn.registered
      /\ conn'.Connected => conn.Connected
      /\ conn'.hub \in {"connected", "connecting"} => conn'.hub = conn.hub
      /\ conn'.connect = conn.connect
      /\ conn'.logout # "idle"
      /\ conn'.logout = "post" => ~conn'.Connected
  BY <1>2, DisconnectInv DEF Logout
<1>4. ChainInv'
  BY <1>3 DEF ChainInv, Logout
<1>5. PatientInv'
  BY <1>3, PatientCall DEF PatientInv, Logout
<1>6. SuccessMeansJoined'
  BY DEF SuccessMeansJoined, Logout
<1> QED BY <1>1, <1>3, <1>4, <1>5, <1>6, PartsNext

\* The answer to Logout.
LEMMA LogoutAnsweredInv ==
    ASSUME SessionInv, LogoutAnswered PROVE SessionInv'
<1> USE Parts
<1>1. SessionTypes'
  BY DEF LogoutAnswered, SessionTypes, LoginStates
<1>2. conn \in Connections /\ conn.logout = "post"
  BY DEF ConnInv, LogoutAnswered
<1>3. /\ conn' \in Connections /\ conn'.hub = conn.hub
      /\ conn'.registered = conn.registered
      /\ conn'.PendingInvocations = conn.PendingInvocations
      /\ conn'.PendingStopCallback = conn.PendingStopCallback
      /\ conn'.stopping = conn.stopping /\ conn'.Connected = conn.Connected
      /\ conn'.stops = conn.stops /\ conn'.ending = conn.ending
      /\ conn'.late = conn.late /\ conn'.lost = conn.lost
      /\ conn'.connect = conn.connect /\ conn'.logout = "idle"
  BY <1>2 DEF Connections, LogoutAnswered
<1>4. ConnInv(conn')
  <2>1. Direct(conn') = Direct(conn)
    BY <1>3 DEF Direct
  <2>2. CountInv(conn')
    BY <1>3 DEF ConnInv, CountInv, Exact, Ended, StopIsUnderWay
  <2>3. HubInv(conn')
    BY <1>3 DEF ConnInv, HubInv
  <2>4. StopInv(conn')
    BY <1>2, <1>3, <2>1 DEF ConnInv, StopInv
  <2>5. LookInv(conn') /\ HeldInv(conn')
    BY <1>3, <2>1 DEF ConnInv, LookInv, HeldInv, WillBeLookedFor
  <2> QED BY <1>3, <2>2, <2>3, <2>4, <2>5 DEF ConnInv
<1>5. LoginState = "LogoutRequested"
  BY <1>2 DEF ChainInv
<1>6. ChainInv'
  BY <1>3 DEF ChainInv, LogoutAnswered
<1>7. PatientInv'
  <2>1. patient => conn.connect = "idle" /\ ~conn.Connected
    BY <1>2, <1>5 DEF PatientInv
  <2>2. patient => conn.hub # "connecting"
    BY <2>1 DEF ConnInv, HubInv
  <2> QED BY <1>3, <1>5, <2>1, <2>2 DEF PatientInv, LogoutAnswered
<1>8. SuccessMeansJoined'
  BY <1>3 DEF SuccessMeansJoined, LogoutAnswered
<1> QED BY <1>1, <1>4, <1>6, <1>7, <1>8, PartsNext

\* A call of the flag, refused or taken.
LEMMA FlagInv ==
    ASSUME SessionInv, SetAllowSelfMessagingFlag PROVE SessionInv'
<1> USE Parts
<1>1. SessionTypes'
  BY AppCallTypes DEF SetAllowSelfMessagingFlag, SessionTypes, session
<1>2. CASE conn.hub = "connected"
  <2>1. conn' = Invoke(conn, "flag") /\ "flag" \notin conn.registered
    BY <1>2 DEF SetAllowSelfMessagingFlag
  <2>2. "flag" \in Chains \ conn.registered /\ "flag" # "connect"
    BY <2>1 DEF Chains
  <2>3. /\ ConnInv(conn') /\ Quieter(conn, conn')
        /\ conn'.registered = conn.registered \cup {"flag"}
    BY <1>2, <2>1, <2>2, InvokeInv
  <2> QED BY <1>1, <2>3, QuietStep DEF SetAllowSelfMessagingFlag
<1>3. CASE conn.hub # "connected"
  <2>1. conn' = Refused(conn) /\ conn.Connected /\ conn.hub # "clearing"
    BY <1>3 DEF SetAllowSelfMessagingFlag, MapIsFree
  <2>2. /\ ConnInv(conn') /\ Quieter(conn, conn') /\ conn'.registered = conn.registered
    BY <1>3, <2>1, RefusedInv
  <2> QED BY <1>1, <2>2, QuietStep DEF SetAllowSelfMessagingFlag
<1> QED BY <1>2, <1>3

\* The answer to the flag's call.
LEMMA FlagAnsweredInv ==
    ASSUME SessionInv, FlagAnswered PROVE SessionInv'
<1> USE Parts
<1>1. SessionTypes'
  BY DEF FlagAnswered, SessionTypes, session
<1>2. /\ conn' = Finish(conn, "flag") /\ "flag" \in conn.registered
      /\ conn.hub = "connected" /\ ThreadFree(conn)
  BY DEF FlagAnswered, Answerable, InFlight, CallbackThreadFree, ThreadFree
<1>3. /\ ConnInv(conn') /\ Quieter(conn, conn')
      /\ conn'.registered = conn.registered \ {"flag"}
  BY <1>2, FinishInv
<1> QED BY <1>1, <1>3, QuietStep DEF FlagAnswered

\* A page arrives.
LEMMA PageAnsweredInv ==
    ASSUME SessionInv, NEW e \in Engines, PageAnswered(e) PROVE SessionInv'
<1> USE Parts
<1>1. SessionTypes'
  <2>1. pages' \in 0..MaxPages
    BY BoundsAssumption DEF PageAnswered, SessionTypes
  <2> QED BY <2>1 DEF PageAnswered, SessionTypes, session
<1>2. CASE conn' = conn
  <2>1. Quieter(conn, conn')
    BY <1>2 DEF Quieter
  <2> QED BY <1>1, <1>2, <2>1, QuietStep DEF PageAnswered
<1>3. CASE conn' = Finish(conn, e)
  <2>1. e \in conn.registered /\ conn.hub = "connected" /\ ThreadFree(conn)
    BY DEF PageAnswered, Answerable, InFlight, CallbackThreadFree, ThreadFree
  <2>2. /\ ConnInv(conn') /\ Quieter(conn, conn')
        /\ conn'.registered = conn.registered \ {e}
    BY <1>3, <2>1, FinishInv
  <2> QED BY <1>1, <2>2, QuietStep DEF PageAnswered
<1> QED BY <1>2, <1>3 DEF PageAnswered

\* The application releases an engine.
LEMMA ReleaseInv ==
    ASSUME SessionInv, NEW e \in Engines, Release(e) PROVE SessionInv'
<1> USE Parts
<1>1. SessionTypes'
  BY DEF Release, SessionTypes
<1>2. ConnInv(conn') /\ ChainInv'
  BY DEF Release, ChainInv
<1>3. PatientInv' /\ SuccessMeansJoined'
  BY DEF Release, PatientInv, SuccessMeansJoined
<1> QED BY <1>1, <1>2, <1>3, PartsNext

\* The process ends.
LEMMA CrashInv ==
    ASSUME SessionInv, Crash PROVE SessionInv'
<1> USE Parts
<1>1. SessionTypes'
  BY DEF Crash, SessionTypes, session
<1>2. ConnInv(conn') /\ Quieter(conn, conn') /\ conn' = conn
  BY DEF Crash, Quieter
<1> QED BY <1>1, <1>2, QuietStep DEF Crash

\* EnterSpace with an online engine.
LEMMA EnterSpaceInv ==
    ASSUME SessionInv, NEW e \in Engines, NEW s \in Spaces, EnterSpace(e, s)
    PROVE  SessionInv'
<1> USE Parts
<1>1. SessionTypes'
  <2>1. enter' \in [step : EnterRequests \cup EnterCalls \cup {"idle", "hung"},
                    engine : Engines \cup {None}, space : Spaces \cup {None}]
    BY DEF EnterSpace, EnterRequests
  <2> QED BY <2>1, AppCallTypes DEF EnterSpace, SessionTypes
<1>2. /\ enter'.step = "getSpace" /\ enter'.engine = e /\ enter'.space = s
      /\ enter.step = "idle" /\ e \notin conn.registered /\ conn.Connected
      /\ UNCHANGED <<conn, server, LoginState, exit, CurrentSpace, patient>>
      /\ attached' = e /\ joined' = None
  BY DEF EnterSpace, Idle
<1>3. ChainInv'
  BY <1>2 DEF ChainInv, EnterCalls
<1>4. PatientInv'
  <2>1. patient => LoginState = "LoggedIn" /\ conn.connect = "idle" /\ exit = "idle"
    BY <1>2, PatientCall DEF EnterSpace
  <2> QED BY <1>2, <2>1 DEF PatientInv
<1>5. SuccessMeansJoined'
  BY <1>2 DEF SuccessMeansJoined
<1> QED BY <1>1, <1>2, <1>3, <1>4, <1>5, PartsNext

\* EnterSpace with an offline engine.
LEMMA EnterOfflineSpaceInv ==
    ASSUME SessionInv, NEW s \in Spaces, EnterOfflineSpace(s)
    PROVE  SessionInv'
<1> USE Parts
<1>1. SessionTypes'
  BY AppCallTypes DEF EnterOfflineSpace, SessionTypes
<1>2. /\ UNCHANGED <<conn, server, LoginState, enter, exit, attached, patient>>
      /\ joined' = None
  BY DEF EnterOfflineSpace
<1>3. ChainInv'
  BY <1>2 DEF ChainInv
<1>4. PatientInv'
  <2>1. patient => enter.step = "idle"
    BY PatientCall DEF EnterOfflineSpace
  <2> QED BY <1>2, <2>1 DEF PatientInv
<1>5. SuccessMeansJoined'
  BY <1>2 DEF SuccessMeansJoined
<1> QED BY <1>1, <1>2, <1>3, <1>4, <1>5, PartsNext

\* The requests of EnterSpace.
LEMMA EnterFailsInv ==
    ASSUME SessionInv, EnterFails, "enter" \notin conn.registered,
           UNCHANGED <<conn, server, faults, LoginState, exit, attached, engineOf,
                       joined, patient, crashed, calls, pages>>,
           patient => joined = None
    PROVE  SessionInv'
<1> USE Parts
<1>1. enter'.step = "idle" /\ CurrentSpace' = None
      /\ enter' \in [step : EnterRequests \cup EnterCalls \cup {"idle", "hung"},
                     engine : Engines \cup {None}, space : Spaces \cup {None}]
  BY DEF EnterFails, Idle
<1>2. SessionTypes'
  BY <1>1 DEF SessionTypes
<1>3. ChainInv'
  BY <1>1 DEF ChainInv, EnterRequests, EnterCalls
<1>4. PatientInv'
  BY <1>1 DEF PatientInv
<1>5. SuccessMeansJoined'
  BY DEF SuccessMeansJoined
<1> QED BY <1>2, <1>3, <1>4, <1>5, PartsNext

\* EnterSpace goes on to another step.  What it has come to so far is kept.
LEMMA EnterStepInv ==
    ASSUME SessionInv, ConnInv(conn'), Quieter(conn, conn'),
           NEW step \in EnterRequests \cup EnterCalls \cup {"hung"},
           enter.step \in EnterRequests \cup EnterCalls,
           enter' = [enter EXCEPT !.step = step],
           conn'.registered \subseteq conn.registered \cup {"enter"},
           "enter" \in conn'.registered => step \in EnterCalls,
           SessionTypes',
           UNCHANGED <<LoginState, exit, attached, joined, patient>>,
           patient /\ conn'.hub = "connected" /\ step = "startListening" =>
                server'.scope = enter.space,
           patient /\ conn'.hub = "connected" /\ step \in {"scopes", "leader"} =>
                server' = [scope |-> enter.space, listening |-> TRUE],
           patient /\ step \in {"scopes", "leader"} => CurrentSpace' = enter.space,
           patient => joined = None
    PROVE  SessionInv'
<1> USE Parts
<1>1. /\ enter'.step = step /\ enter'.engine = enter.engine /\ enter'.space = enter.space
      /\ enter.step # "idle" /\ step # "idle"
  BY DEF SessionTypes, EnterRequests, EnterCalls
<1>2. ChainInv'
  <2>1. /\ "enter" \in conn'.registered => enter'.step \in EnterCalls
        /\ "exit" \in conn'.registered => exit' # "idle"
    BY <1>1 DEF ChainInv
  <2>2. enter'.engine \in Engines \ conn'.registered /\ enter'.space \in Spaces
    BY <1>1, EnginesAssumption DEF ChainInv
  <2>3. conn'.logout # "idle" <=> LoginState' = "LogoutRequested"
    BY DEF ChainInv, Quieter
  <2> QED BY <2>1, <2>2, <2>3 DEF ChainInv
<1>3. PatientInv'
  <2>1. SUFFICES ASSUME patient PROVE PatientInv'
    BY DEF PatientInv
  <2>2. /\ LoginState = "LoggedIn" /\ exit = "idle" /\ joined = None
        /\ attached = enter.engine /\ conn.connect = "idle"
    BY <1>1, <2>1 DEF PatientInv
  <2>3. conn'.connect = "idle" /\ (conn'.logout = "post" => ~conn'.Connected)
    BY <2>1, <2>2 DEF PatientInv, Quieter
  <2> QED BY <1>1, <2>1, <2>2, <2>3 DEF PatientInv
<1>4. SuccessMeansJoined'
  BY DEF SuccessMeansJoined
<1> QED BY <1>2, <1>3, <1>4, PartsNext

\* The answers to EnterSpace's requests before the scope change and after it.
LEMMA EnterRequestAnsweredInv ==
    ASSUME SessionInv, EnterRequestAnswered PROVE SessionInv'
<1> USE Parts
<1>1. /\ enter.step \in {"getSpace", "addUser", "scopes"}
      /\ UNCHANGED <<server, faults, LoginState, exit, attached, engineOf, joined,
                     patient, crashed, calls, pages>>
  BY DEF EnterRequestAnswered
<1>2. /\ "enter" \notin conn.registered /\ (patient => joined = None)
      /\ enter.step \in EnterRequests \cup EnterCalls
  BY <1>1 DEF ChainInv, PatientInv, EnterCalls, EnterRequests
<1>3. CASE EnterFails /\ UNCHANGED conn
  BY <1>1, <1>2, <1>3, EnterFailsInv
<1>4. Quieter(conn, conn)
  BY DEF Quieter
<1>5. ASSUME NEW step \in EnterRequests \cup EnterCalls \cup {"hung"},
             enter' = [enter EXCEPT !.step = step], CurrentSpace' = CurrentSpace
      PROVE  SessionTypes'
  <2>1. enter' \in [step : EnterRequests \cup EnterCalls \cup {"idle", "hung"},
                    engine : Engines \cup {None}, space : Spaces \cup {None}]
    BY <1>5 DEF SessionTypes
  <2> QED BY <1>1, <1>5, <2>1 DEF SessionTypes
<1>6. CASE /\ enter.step = "getSpace"
           /\ enter' = [enter EXCEPT !.step = "addUser"]
           /\ UNCHANGED <<conn, CurrentSpace>>
  <2>1. "addUser" \in EnterRequests
    BY DEF EnterRequests
  <2>2. SessionTypes'
    BY <1>5, <1>6, <2>1
  <2> QED BY <1>1, <1>2, <1>4, <1>6, <2>1, <2>2, EnterStepInv
<1>7. CASE /\ enter.step = "scopes"
           /\ enter' = [enter EXCEPT !.step = "leader"]
           /\ UNCHANGED <<conn, CurrentSpace>>
  <2>1. "leader" \in EnterRequests
    BY DEF EnterRequests
  <2>2. SessionTypes'
    BY <1>5, <1>7, <2>1
  <2>3. /\ patient /\ conn.hub = "connected" =>
             server = [scope |-> enter.space, listening |-> TRUE]
        /\ patient => CurrentSpace = enter.space
    BY <1>7 DEF PatientInv
  <2> QED BY <1>1, <1>2, <1>4, <1>7, <2>1, <2>2, <2>3, EnterStepInv
<1>8. CASE RefreshScopes
  <2>1. CASE EnterFails /\ UNCHANGED conn
    BY <1>3, <2>1
  <2>2. CASE /\ conn.hub = "connected" /\ conn' = Invoke(conn, "enter")
             /\ enter' = [enter EXCEPT !.step = "stopListening"]
             /\ UNCHANGED CurrentSpace
    <3>1. /\ "enter" \in Chains \ conn.registered /\ "enter" # "connect"
          /\ "stopListening" \in EnterCalls
      BY <1>2 DEF Chains, EnterCalls
    <3>2. /\ ConnInv(conn') /\ Quieter(conn, conn')
          /\ conn'.registered = conn.registered \cup {"enter"}
      BY <1>2, <2>2, <3>1, InvokeInv
    <3>3. SessionTypes'
      BY <1>5, <2>2, <3>1
    <3> QED BY <1>1, <1>2, <2>2, <3>1, <3>2, <3>3, EnterStepInv
  <2>3. CASE /\ conn.Connected /\ conn.hub # "connected" /\ conn' = Refused(conn)
             /\ enter' = [enter EXCEPT !.step = "hung"]
             /\ UNCHANGED CurrentSpace
    <3>1. /\ ConnInv(conn') /\ Quieter(conn, conn') /\ conn'.registered = conn.registered
      BY <1>8, <2>3, RefusedInv DEF RefreshScopes, MapIsFree
    <3>2. SessionTypes'
      BY <1>5, <2>3
    <3> QED BY <1>1, <1>2, <2>3, <3>1, <3>2, EnterStepInv
  <2> QED BY <1>8, <2>1, <2>2, <2>3 DEF RefreshScopes
<1> QED BY <1>3, <1>6, <1>7, <1>8 DEF EnterRequestAnswered

\* The calls of the scope change.
LEMMA EnterCallAnsweredInv ==
    ASSUME SessionInv, EnterCallAnswered PROVE SessionInv'
<1> USE Parts
<1>1. /\ enter.step \in EnterCalls /\ enter' = [enter EXCEPT !.step = AfterCall(@)]
      /\ "enter" \in conn.registered /\ conn.hub = "connected" /\ ThreadFree(conn)
      /\ UNCHANGED <<faults, LoginState, exit, attached, engineOf, joined,
                     patient, crashed, calls, pages>>
  BY DEF EnterCallAnswered, Answerable, InFlight, CallbackThreadFree, ThreadFree
<1>2. /\ patient => joined = None
      /\ enter.step \in EnterRequests \cup EnterCalls
      /\ enter.space \in Spaces
  BY <1>1 DEF PatientInv, EnterCalls, EnterRequests, ChainInv
<1>3. Quieter(conn, conn)
  BY DEF Quieter
<1>4. /\ AfterCall("stopListening") = "setScopes"
      /\ AfterCall("setScopes") = "startListening"
      /\ AfterCall("startListening") = "scopes"
  BY DEF AfterCall
<1>5. ASSUME NEW step \in EnterRequests \cup EnterCalls \cup {"hung"},
             enter' = [enter EXCEPT !.step = step],
             CurrentSpace' \in Spaces \cup {None},
             server' \in [scope : Spaces \cup {None}, listening : BOOLEAN]
      PROVE  SessionTypes'
  <2>1. enter' \in [step : EnterRequests \cup EnterCalls \cup {"idle", "hung"},
                    engine : Engines \cup {None}, space : Spaces \cup {None}]
    BY <1>5 DEF SessionTypes
  <2> QED BY <1>1, <1>5, <2>1 DEF SessionTypes
<1>6. CASE /\ enter.step = "stopListening"
           /\ server' = [server EXCEPT !.listening = FALSE]
           /\ UNCHANGED <<conn, CurrentSpace>>
  <2>1. "setScopes" \in EnterCalls /\ enter' = [enter EXCEPT !.step = "setScopes"]
    BY <1>1, <1>4, <1>6 DEF EnterCalls
  <2>2. SessionTypes'
    <3>1. server' \in [scope : Spaces \cup {None}, listening : BOOLEAN]
      BY <1>6 DEF SessionTypes
    <3> QED BY <1>5, <1>6, <2>1, <3>1 DEF SessionTypes
  <2> QED BY <1>1, <1>2, <1>3, <1>6, <2>1, <2>2, EnterStepInv
<1>7. CASE /\ enter.step = "setScopes"
           /\ server' = [server EXCEPT !.scope = enter.space]
           /\ UNCHANGED <<conn, CurrentSpace>>
  <2>1. "startListening" \in EnterCalls /\ enter' = [enter EXCEPT !.step = "startListening"]
    BY <1>1, <1>4, <1>7 DEF EnterCalls
  <2>2. SessionTypes' /\ server'.scope = enter.space
    <3>1. server' \in [scope : Spaces \cup {None}, listening : BOOLEAN]
          /\ server'.scope = enter.space
      BY <1>2, <1>7 DEF SessionTypes
    <3> QED BY <1>5, <1>7, <2>1, <3>1 DEF SessionTypes
  <2> QED BY <1>1, <1>2, <1>3, <1>7, <2>1, <2>2, EnterStepInv
<1>8. CASE /\ enter.step = "startListening"
           /\ server' = [server EXCEPT !.listening = TRUE]
           /\ conn' = Finish(conn, "enter")
           /\ CurrentSpace' = enter.space
  <2>1. "scopes" \in EnterRequests /\ enter' = [enter EXCEPT !.step = "scopes"]
    BY <1>1, <1>4, <1>8 DEF EnterRequests
  <2>2. /\ ConnInv(conn') /\ Quieter(conn, conn')
        /\ conn'.registered = conn.registered \ {"enter"}
    BY <1>1, <1>8, FinishInv
  <2>3. /\ SessionTypes'
        /\ patient => server' = [scope |-> enter.space, listening |-> TRUE]
    <3>1. server' \in [scope : Spaces \cup {None}, listening : BOOLEAN]
      BY <1>8 DEF SessionTypes
    <3>2. patient => server.scope = enter.space
      BY <1>1, <1>8 DEF PatientInv
    <3>3. patient => server' = [scope |-> enter.space, listening |-> TRUE]
      BY <1>8, <3>2 DEF SessionTypes
    <3> QED BY <1>2, <1>5, <1>8, <2>1, <3>1, <3>3 DEF SessionTypes
  <2> QED BY <1>1, <1>2, <1>8, <2>1, <2>2, <2>3, EnterStepInv
<1> QED BY <1>6, <1>7, <1>8 DEF EnterCallAnswered

\* The end of EnterSpace.
LEMMA LeaderAnsweredInv ==
    ASSUME SessionInv, LeaderAnswered PROVE SessionInv'
<1> USE Parts
<1>1. /\ enter.step = "leader" /\ CurrentSpace' = enter.space /\ enter' = Idle
      /\ UNCHANGED <<server, faults, LoginState, exit, attached, engineOf,
                     patient, calls, pages>>
      /\ enter'.step = "idle"
  BY DEF LeaderAnswered, Idle
<1>2. /\ enter.engine \in Engines \ conn.registered /\ enter.space \in Spaces
      /\ "enter" \notin conn.registered
  BY <1>1 DEF ChainInv, EnterRequests, EnterCalls
<1>3. /\ patient => /\ LoginState = "LoggedIn" /\ exit = "idle" /\ joined = None
                    /\ attached = enter.engine /\ conn.connect = "idle"
      /\ patient /\ conn.hub = "connected" =>
           server = [scope |-> enter.space, listening |-> TRUE]
  BY <1>1 DEF PatientInv
<1>4. enter' \in [step : EnterRequests \cup EnterCalls \cup {"idle", "hung"},
                  engine : Engines \cup {None}, space : Spaces \cup {None}]
  BY <1>1 DEF Idle
<1>5. CASE conn.hub = "connected" /\ conn' = Invoke(conn, enter.engine)
           /\ joined' = enter.engine /\ UNCHANGED crashed
  <2>1. /\ enter.engine \in Chains \ conn.registered /\ enter.engine # "connect"
        /\ enter.engine # "enter" /\ enter.engine # "exit"
    BY <1>2, EnginesAssumption DEF Chains
  <2>2. /\ ConnInv(conn') /\ Quieter(conn, conn')
        /\ conn'.registered = conn.registered \cup {enter.engine}
        /\ conn'.hub = "connected"
    BY <1>2, <1>5, <2>1, InvokeInv
  <2>3. SessionTypes'
    BY <1>1, <1>2, <1>4, <1>5 DEF SessionTypes
  <2>4. ChainInv'
    BY <1>1, <1>2, <2>1, <2>2 DEF ChainInv, EnterRequests, EnterCalls, Quieter
  <2>5. PatientInv'
    <3>1. SUFFICES ASSUME patient PROVE PatientInv'
      BY <1>1 DEF PatientInv
    <3>2. conn'.connect = "idle" /\ (conn'.logout = "post" => ~conn'.Connected)
      BY <1>3, <2>2, <3>1 DEF PatientInv, Quieter
    <3> QED BY <1>1, <1>3, <3>1, <3>2 DEF PatientInv
  <2>6. SuccessMeansJoined'
    BY <1>1, <1>2, <1>3, <1>5, SpacesAssumption DEF SuccessMeansJoined
  <2> QED BY <2>2, <2>3, <2>4, <2>5, <2>6, PartsNext
<1>6. CASE conn.hub # "connected" /\ crashed' = TRUE /\ UNCHANGED <<conn, joined>>
  <2>1. SessionTypes'
    BY <1>1, <1>2, <1>4, <1>6 DEF SessionTypes
  <2>2. ChainInv'
    BY <1>1, <1>2, <1>6 DEF ChainInv, EnterRequests, EnterCalls
  <2>3. PatientInv'
    BY <1>1, <1>6 DEF PatientInv
  <2>4. SuccessMeansJoined'
    BY <1>1, <1>3, <1>6 DEF SuccessMeansJoined
  <2> QED BY <1>6, <2>1, <2>2, <2>3, <2>4, PartsNext
<1> QED BY <1>5, <1>6 DEF LeaderAnswered

\* Leaving changes the engines' history only.
LEMMA LeftTypes ==
    ASSUME SessionInv
    PROVE  Left \in [Engines -> {"fresh", "used", "left", "released"}]
BY DEF SessionInv, TypeOK, Left

\* ExitSpace and its answers.
LEMMA ExitSpaceInv ==
    ASSUME SessionInv, ExitSpace PROVE SessionInv'
<1> USE Parts
<1>1. /\ CurrentSpace' = None /\ joined' = None /\ exit = "idle"
      /\ UNCHANGED <<server, faults, LoginState, enter, patient, crashed, pages>>
      /\ calls' \in 0..MaxCalls
  BY AppCallTypes DEF ExitSpace
<1>2. /\ engineOf' \in [Engines -> {"fresh", "used", "left", "released"}]
      /\ exit' \in {"idle", "stopListening"} /\ attached' \in {attached, None}
  BY <1>1, LeftTypes DEF ExitSpace, SessionTypes
<1>3. SessionTypes'
  BY <1>1, <1>2 DEF SessionTypes
<1>4. /\ ConnInv(conn') /\ Quieter(conn, conn')
      /\ \/ conn'.registered = conn.registered
         \/ conn'.registered = conn.registered \cup {"exit"} /\ exit' # "idle" /\ conn.Connected
      /\ exit' # "idle" => conn.Connected
  <2>1. CASE conn' = conn /\ exit' = exit
    BY <1>1, <2>1 DEF Quieter
  <2>2. CASE conn.Connected /\ conn.hub = "connected" /\ conn' = Invoke(conn, "exit")
             /\ exit' = "stopListening"
    <3>1. "exit" \in Chains \ conn.registered /\ "exit" # "connect"
      BY <1>1 DEF Chains, ChainInv
    <3> QED BY <2>2, <3>1, InvokeInv
  <2>3. CASE conn.Connected /\ conn.hub # "connected" /\ conn' = Refused(conn)
             /\ exit' = exit
    BY <1>1, <2>3, RefusedInv DEF ExitSpace, MapIsFree
  <2> QED BY <2>1, <2>2, <2>3 DEF ExitSpace
<1>5. ChainInv'
  <2>1. enter.step \in EnterRequests \cup EnterCalls =>
          enter.engine \in Engines \ conn'.registered
    BY <1>4, EnginesAssumption DEF ChainInv
  <2> QED BY <1>1, <1>4, <2>1 DEF ChainInv, Quieter
<1>6. PatientInv'
  <2>1. SUFFICES ASSUME patient PROVE PatientInv'
    BY <1>1 DEF PatientInv
  <2>2. /\ conn.connect = "idle" /\ enter.step = "idle"
        /\ conn.Connected => LoginState = "LoggedIn"
    BY <2>1, PatientCall DEF ExitSpace
  <2>3. conn'.connect = "idle"
    BY <1>4, <2>2 DEF Quieter
  <2>4. /\ LoginState \in {"LoggedOut", "Error", "LoginRequested"} =>
             ~conn'.Connected /\ conn'.hub # "connecting"
        /\ conn'.logout = "post" => ~conn'.Connected
    BY <1>4, <2>1 DEF PatientInv, Quieter
  <2> QED BY <1>1, <1>4, <2>2, <2>3, <2>4 DEF PatientInv
<1>7. SuccessMeansJoined'
  BY <1>1 DEF SuccessMeansJoined
<1> QED BY <1>3, <1>4, <1>5, <1>6, <1>7, PartsNext

\* ExitSpace goes on, or ends.
LEMMA ExitStepInv ==
    ASSUME SessionInv, SessionTypes', ConnInv(conn'), Quieter(conn, conn'),
           conn'.registered \subseteq conn.registered,
           exit # "idle", exit' = "idle" => "exit" \notin conn'.registered,
           UNCHANGED <<LoginState, enter, CurrentSpace, joined, patient>>
    PROVE  SessionInv'
<1> USE Parts
<1>1. ChainInv'
  <2>1. enter.step \in EnterRequests \cup EnterCalls =>
          enter.engine \in Engines \ conn'.registered
    BY DEF ChainInv
  <2> QED BY <2>1 DEF ChainInv, Quieter
<1>2. PatientInv'
  <2>1. SUFFICES ASSUME patient PROVE PatientInv'
    BY DEF PatientInv
  <2>2. /\ conn.connect = "idle" /\ enter.step = "idle" /\ joined = None
        /\ LoginState = "LoggedIn"
    BY <2>1 DEF PatientInv
  <2>3. conn'.connect = "idle"
    BY <2>2 DEF Quieter
  <2>4. conn'.logout = "post" => ~conn'.Connected
    BY <2>1 DEF PatientInv, Quieter
  <2> QED BY <2>2, <2>3, <2>4 DEF PatientInv
<1>3. SuccessMeansJoined'
  BY DEF SuccessMeansJoined, PatientInv
<1> QED BY <1>1, <1>2, <1>3, PartsNext

\* The answers to ExitSpace's calls.
LEMMA ExitCallAnsweredInv ==
    ASSUME SessionInv, ExitCallAnswered PROVE SessionInv'
<1> USE Parts
<1>1. /\ "exit" \in conn.registered /\ conn.hub = "connected" /\ exit # "idle"
      /\ ThreadFree(conn)
      /\ UNCHANGED <<faults, LoginState, enter, CurrentSpace, joined, patient,
                     crashed, calls, pages>>
  BY DEF ExitCallAnswered, Answerable, InFlight, CallbackThreadFree, ThreadFree, ChainInv
<1>2. CASE /\ server' = [server EXCEPT !.listening = FALSE]
           /\ exit' = "resetScopes"
           /\ UNCHANGED <<conn, attached, engineOf>>
  <2>1. server' \in [scope : Spaces \cup {None}, listening : BOOLEAN]
    BY <1>2 DEF SessionTypes
  <2>2. SessionTypes'
    BY <1>1, <1>2, <2>1 DEF SessionTypes
  <2>3. Quieter(conn, conn')
    BY <1>2 DEF Quieter
  <2> QED BY <1>1, <1>2, <2>2, <2>3, ExitStepInv
<1>3. CASE /\ server' = [server EXCEPT !.scope = None]
           /\ exit' = "idle"
           /\ conn' = Finish(conn, "exit")
           /\ attached' = None
           /\ engineOf' = Left
  <2>1. server' \in [scope : Spaces \cup {None}, listening : BOOLEAN]
    BY <1>3 DEF SessionTypes
  <2>2. SessionTypes'
    BY <1>1, <1>3, <2>1, LeftTypes DEF SessionTypes
  <2>3. /\ ConnInv(conn') /\ Quieter(conn, conn')
        /\ conn'.registered = conn.registered \ {"exit"}
    BY <1>1, <1>3, FinishInv
  <2> QED BY <1>1, <1>3, <2>2, <2>3, ExitStepInv
<1> QED BY <1>2, <1>3 DEF ExitCallAnswered

\* A call that fails, whatever chain it belongs to.
LEMMA CallFailsInv ==
    ASSUME SessionInv, NEW k \in Chains, CallFails(k) PROVE SessionInv'
<1> USE Parts
<1>1. /\ k \in conn.registered /\ conn.hub \in {"connected", "clearing"}
      /\ ThreadFree(conn)
      /\ UNCHANGED <<server, LoginState, CurrentSpace, joined, patient, crashed, calls, pages>>
  BY DEF CallFails, CallbackThreadFree, ThreadFree
<1>2. faults' \in 0..MaxFaults
  BY MaxFaultsAssumption DEF CallFails, Fault, SessionTypes
<1>3. /\ ConnInv(Finish(conn, k)) /\ Quieter(conn, Finish(conn, k))
      /\ Finish(conn, k).registered = conn.registered \ {k}
  BY <1>1, FinishInv
<1>4. CASE /\ \/ k = "connect" /\ conn' = ConnectFailed(conn)
              \/ k = "flag" /\ conn' = Finish(conn, k)
              \/ k \in Engines /\ conn' = PageFailed(conn, k)
           /\ UNCHANGED <<enter, exit, attached, engineOf>>
  <2>1. /\ ConnInv(conn') /\ Quieter(conn, conn')
        /\ conn'.registered \subseteq conn.registered
    <3>1. CASE k = "connect" /\ conn' = ConnectFailed(conn)
      <4>1. conn = [conn EXCEPT !.PendingInvocations =
                       IF "connect" \in conn.registered THEN @ ELSE @ + 1]
        BY <1>1, <3>1 DEF ConnInv, Connections
      <4> QED BY <1>1, <3>1, <4>1, ConnectFailedInv DEF ThreadFree
    <3>2. CASE k = "flag" /\ conn' = Finish(conn, k)
      BY <1>3, <3>2
    <3>3. CASE k \in Engines /\ conn' = PageFailed(conn, k)
      BY <1>1, <3>3, PageFailedInv
    <3> QED BY <1>4, <3>1, <3>2, <3>3
  <2>2. SessionTypes'
    BY <1>1, <1>2, <1>4 DEF SessionTypes
  <2> QED BY <1>1, <1>4, <2>1, <2>2, QuietStep DEF session
<1>5. CASE /\ k = "enter" /\ conn' = Finish(conn, k)
           /\ enter' = [enter EXCEPT !.step = "hung"]
           /\ UNCHANGED <<exit, attached, engineOf>>
  <2>1. /\ enter.step \in EnterRequests \cup EnterCalls
        /\ patient => joined = None
    BY <1>1, <1>5 DEF ChainInv, PatientInv, EnterCalls
  <2>2. enter' \in [step : EnterRequests \cup EnterCalls \cup {"idle", "hung"},
                    engine : Engines \cup {None}, space : Spaces \cup {None}]
    BY <1>5 DEF SessionTypes
  <2>3. SessionTypes'
    BY <1>1, <1>2, <1>5, <2>2 DEF SessionTypes
  <2>4. /\ ConnInv(conn') /\ Quieter(conn, conn')
        /\ conn'.registered = conn.registered \ {"enter"}
    BY <1>3, <1>5
  <2> QED BY <1>1, <1>5, <2>1, <2>3, <2>4, EnterStepInv
<1>6. CASE /\ k = "exit" /\ conn' = Finish(conn, k) /\ exit' = "idle"
           /\ attached' = None /\ engineOf' = Left /\ UNCHANGED enter
  <2>1. SessionTypes'
    BY <1>1, <1>2, <1>6, LeftTypes DEF SessionTypes
  <2>2. exit # "idle"
    BY <1>1, <1>6 DEF ChainInv
  <2>3. /\ ConnInv(conn') /\ Quieter(conn, conn')
        /\ conn'.registered = conn.registered \ {"exit"}
    BY <1>3, <1>6
  <2> QED BY <1>1, <1>6, <2>1, <2>2, <2>3, ExitStepInv
<1> QED BY <1>4, <1>5, <1>6 DEF CallFails

\* The steps of the connection.  Connect's chain runs alone when the application
\* awaits its callbacks.
LEMMA StartAnsweredInv ==
    ASSUME SessionInv, StartAnswered, UNCHANGED <<session, patient, crashed, calls, pages>>
    PROVE  SessionInv'
<1> USE Parts
<1>1. conn.hub = "connecting"
  BY DEF StartAnswered
<1>2. CASE /\ conn' = [conn EXCEPT !.hub = "connected", !.Connected = TRUE,
                                  !.connect = "started"]
           /\ server' = NotListening
           /\ UNCHANGED faults
  <2>1. server' \in [scope : Spaces \cup {None}, listening : BOOLEAN]
    BY <1>2 DEF NotListening
  <2>2. SessionTypes'
    BY <1>2, <2>1 DEF SessionTypes, session
  <2>3. /\ ConnInv(conn') /\ conn'.registered = conn.registered
        /\ conn'.hub = "connected" /\ conn'.logout = conn.logout
    BY <1>1, <1>2, StartedInv
  <2>4. ChainInv'
    <3>1. enter.step \in EnterRequests \cup EnterCalls =>
            enter.engine \in Engines \ conn'.registered
      BY <2>3 DEF ChainInv
    <3> QED BY <2>3, <3>1 DEF ChainInv, session
  <2>5. patient => /\ LoginState = "LoggedIn" /\ enter.step = "idle" /\ exit = "idle"
                   /\ joined = None
    BY <1>1 DEF ConnInv, HubInv, PatientInv
  <2>6. PatientInv'
    BY <2>3, <2>5 DEF PatientInv, session, ChainInv
  <2>7. SuccessMeansJoined'
    BY <2>5 DEF SuccessMeansJoined, session
  <2> QED BY <2>2, <2>3, <2>4, <2>6, <2>7, PartsNext
<1>3. CASE /\ Fault
           /\ conn' = StopHandlers([conn EXCEPT !.hub = "disconnected"], {"connect"})
           /\ UNCHANGED server
  <2>1. faults' \in 0..MaxFaults
    BY <1>3, MaxFaultsAssumption DEF Fault, SessionTypes
  <2>2. SessionTypes'
    BY <1>3, <2>1 DEF SessionTypes, session
  <2>3. ConnInv(conn') /\ Quieter(conn, conn') /\ conn'.registered = conn.registered
    BY <1>1, <1>3, StartFailedInv
  <2> QED BY <1>3, <2>2, <2>3, QuietStep
<1> QED BY <1>2, <1>3 DEF StartAnswered

\* Start's continuation.
LEMMA DeleteEntitiesStepInv ==
    ASSUME SessionInv, DeleteEntities, UNCHANGED <<session, patient, crashed, calls, pages>>
    PROVE  SessionInv'
<1> USE Parts
<1>1. conn.connect = "started" /\ UNCHANGED <<server, faults>>
  BY DEF DeleteEntities
<1>2. /\ ConnInv(conn') /\ Quieter(conn, conn')
      /\ conn'.registered \subseteq conn.registered \cup {"connect"}
  BY <1>1, DeleteEntitiesInv DEF DeleteEntities
<1>3. SessionTypes'
  BY <1>1 DEF SessionTypes, session
<1> QED BY <1>1, <1>2, <1>3, QuietStep

\* An answer to Connect's chain.
LEMMA ConnectAnsweredInv ==
    ASSUME SessionInv, ConnectAnswered, UNCHANGED <<session, patient, crashed, calls, pages>>
    PROVE  SessionInv'
<1> USE Parts
<1>1. /\ conn.hub = "connected" /\ "connect" \in conn.registered /\ UNCHANGED faults
      /\ ThreadFree(conn)
  BY DEF ConnectAnswered, Answerable, InFlight, CallbackThreadFree, ThreadFree
<1>2. CASE /\ conn.connect \in {"delete", "clientId"}
           /\ conn' = [conn EXCEPT !.connect =
                         IF @ = "delete" THEN "clientId" ELSE "listen"]
           /\ UNCHANGED server
  <2> DEFINE step == IF conn.connect = "delete" THEN "clientId" ELSE "listen"
  <2>1. conn' = [conn EXCEPT !.connect = step] /\ step \in {"clientId", "listen"}
    BY <1>2
  <2> HIDE DEF step
  <2>2. ConnInv(conn') /\ Quieter(conn, conn') /\ conn'.registered = conn.registered
    BY <1>1, <2>1, ConnectNextInv
  <2>3. SessionTypes'
    BY <1>1, <1>2 DEF SessionTypes, session
  <2> QED BY <1>2, <2>2, <2>3, QuietStep
<1>3. CASE /\ conn' = Finish([conn EXCEPT !.connect = "idle"], "connect")
           /\ server' = [server EXCEPT !.listening = TRUE]
  <2>1. server' \in [scope : Spaces \cup {None}, listening : BOOLEAN]
    BY <1>3 DEF SessionTypes
  <2>2. SessionTypes'
    BY <1>1, <2>1 DEF SessionTypes, session
  <2>3. /\ ConnInv(conn') /\ Quieter(conn, conn')
        /\ conn'.registered = conn.registered \ {"connect"}
    BY <1>1, <1>3, ConnectDoneInv
  <2>4. patient => /\ LoginState = "LoggedIn" /\ enter.step = "idle" /\ exit = "idle"
                   /\ joined = None
    BY <1>1 DEF ConnInv, HubInv, PatientInv
  <2>5. ChainInv'
    <3>1. enter.step \in EnterRequests \cup EnterCalls =>
            enter.engine \in Engines \ conn'.registered
      BY <2>3 DEF ChainInv
    <3> QED BY <2>3, <3>1 DEF ChainInv, session, Quieter
  <2>6. PatientInv'
    BY <2>3, <2>4 DEF PatientInv, session, Quieter
  <2>7. SuccessMeansJoined'
    BY <2>4 DEF SuccessMeansJoined, session
  <2> QED BY <2>2, <2>3, <2>5, <2>6, <2>7, PartsNext
<1> QED BY <1>2, <1>3 DEF ConnectAnswered

\* The connection closes, is cleared, and goes down.
LEMMA ConnectionEndsInv ==
    ASSUME SessionInv, Closed \/ Interruption \/ Cleared,
           UNCHANGED <<session, patient, crashed, calls, pages>>
    PROVE  SessionInv'
<1> USE Parts
<1>1. ASSUME faults' \in 0..MaxFaults,
             server' \in [scope : Spaces \cup {None}, listening : BOOLEAN]
      PROVE  SessionTypes'
  BY <1>1 DEF SessionTypes, session
<1>2. /\ NotListening \in [scope : Spaces \cup {None}, listening : BOOLEAN]
      /\ server \in [scope : Spaces \cup {None}, listening : BOOLEAN]
      /\ faults \in 0..MaxFaults
      /\ Fault => faults' \in 0..MaxFaults
  BY MaxFaultsAssumption DEF NotListening, SessionTypes, Fault
<1>3. ThreadFree(conn)
  BY DEF Closed, Interruption, Cleared, CallbackThreadFree, ThreadFree
<1>4. CASE Closed \/ Interruption
  <2>1. /\ ConnInv(conn') /\ Quieter(conn, conn') /\ conn'.registered = conn.registered
        /\ conn'.hub = "clearing"
    BY <1>3, <1>4, ClosedInv DEF Closed, Interruption
  <2>2. SessionTypes'
    BY <1>1, <1>2, <1>4 DEF Closed, Interruption
  <2> QED BY <2>1, <2>2, QuietStep
<1>5. CASE Cleared
  <2>1. /\ ConnInv(conn') /\ Quieter(conn, conn') /\ conn'.registered = conn.registered
    BY <1>3, <1>5, RunStopCallbacksInv DEF Cleared
  <2>2. SessionTypes'
    BY <1>1, <1>2, <1>5 DEF Cleared
  <2> QED BY <1>5, <2>1, <2>2, QuietStep DEF Cleared
<1> QED BY <1>4, <1>5

\* A stop is asked for by the server, goes on, or is found by the last call.
LEMMA StopStepsInv ==
    ASSUME SessionInv, UNCHANGED <<session, patient, calls, pages>>,
           \/ RequestToDisconnect /\ UNCHANGED crashed
           \/ (\E who \in Disconnecters : StopContinues(who)) /\ UNCHANGED crashed
           \/ CallCountedOff /\ UNCHANGED crashed
           \/ LastCallStops
    PROVE  SessionInv'
<1> USE Parts
<1>1. faults' \in 0..MaxFaults /\ UNCHANGED server /\ crashed' \in BOOLEAN
  <2>1. faults \in 0..MaxFaults /\ crashed \in BOOLEAN
    BY DEF SessionTypes
  <2>2. CASE RequestToDisconnect /\ UNCHANGED crashed
    BY <2>1, <2>2, MaxFaultsAssumption DEF RequestToDisconnect, Fault
  <2>3. CASE (\E who \in Disconnecters : StopContinues(who)) /\ UNCHANGED crashed
    BY <2>1, <2>3 DEF StopContinues
  <2>4. CASE CallCountedOff /\ UNCHANGED crashed
    BY <2>1, <2>4 DEF CallCountedOff
  <2>5. CASE LastCallStops
    <3>1. UNCHANGED <<server, faults>> /\ crashed' \in {TRUE, crashed}
      BY <2>5 DEF LastCallStops
    <3> QED BY <2>1, <3>1
  <2> QED BY <2>2, <2>3, <2>4, <2>5
<1>2. SessionTypes'
  BY <1>1 DEF SessionTypes, session
<1>3. /\ ConnInv(conn') /\ Quieter(conn, conn') /\ conn'.registered = conn.registered
  <2>1. CASE RequestToDisconnect
    BY <2>1, RequestInv DEF RequestToDisconnect, CallbackThreadFree, ThreadFree
  <2>2. CASE \E who \in Disconnecters : StopContinues(who)
    BY <2>2, StopActsInv DEF StopContinues
  <2>3. CASE CallCountedOff
    BY <2>3, CountedOffInv DEF CallCountedOff
  <2>4. CASE LastCallStops /\ conn' = conn
    BY <2>4 DEF Quieter
  <2>5. CASE LastCallStops /\ conn' # conn
    BY <2>5, LastCallStopsInv DEF LastCallStops
  <2> QED BY <2>1, <2>2, <2>3, <2>4, <2>5
<1> QED BY <1>1, <1>2, <1>3, QuietStep

\* The last call in flight, with the stop it has found.
LEMMA LastCallInv ==
    ASSUME SessionInv, LastCallStops PROVE SessionInv'
BY StopStepsInv DEF LastCallStops

\* Every step of the connection.
LEMMA ConnectionStepInv ==
    ASSUME SessionInv, ConnectionStep PROVE SessionInv'
BY StartAnsweredInv, DeleteEntitiesStepInv, ConnectAnsweredInv, ConnectionEndsInv, StopStepsInv
   DEF ConnectionStep, ConnectionAction

----------------------------------------------------------------------------
(***************************************************************************)
(* The theorems.                                                           *)
(***************************************************************************)

\* Every step keeps the invariant.
LEMMA NextInv == SessionInv /\ [Next]_vars => SessionInv'
<1> SUFFICES ASSUME SessionInv, [Next]_vars PROVE SessionInv'
  OBVIOUS
<1>1. CASE UNCHANGED vars
  <2>1. ConnInv(conn') /\ SessionTypes'
    BY <1>1, Parts DEF vars, session, SessionTypes
  <2>2. Quieter(conn, conn') /\ conn' = conn
    BY <1>1 DEF Quieter, vars
  <2> QED BY <1>1, <2>1, <2>2, QuietStep DEF vars
<1>2. CASE Next
  BY <1>2, LoginInv, LoginAnsweredInv, LogoutInv, LogoutAnsweredInv, FlagInv,
     FlagAnsweredInv, EnterSpaceInv, EnterOfflineSpaceInv, EnterRequestAnsweredInv,
     EnterCallAnsweredInv, LeaderAnsweredInv, PageAnsweredInv, ReleaseInv,
     ExitSpaceInv, ExitCallAnsweredInv, CallFailsInv, ConnectionStepInv, LastCallInv, CrashInv
     DEF Next
<1> QED BY <1>1, <1>2

\* The invariant holds in every reachable state.
LEMMA SessionCorrect == Spec => []SessionInv
<1> QED BY InitInv, NextInv, PTL DEF Spec

\* The state of the session and of the connection is always well typed; in
\* particular the count of calls in flight never becomes negative.
THEOREM SessionIsTyped == Spec => []TypeOK
<1>1. SessionInv => TypeOK
  BY DEF SessionInv
<1> QED BY <1>1, SessionCorrect, PTL

\* Whatever steps of Stop, of Invoke and of the answers come between its test of
\* the count and the hub, a stop cuts no call but those made in that window.
THEOREM StopsCutOnlyLateCalls == Spec => []OnlyLateCallsAreCut
<1>1. SessionInv => OnlyLateCallsAreCut
  BY DEF SessionInv, ConnInv, CountInv, OnlyLateCallsAreCut
<1> QED BY <1>1, SessionCorrect, PTL

\* PendingInvocations is never less than the calls in flight, for any number of
\* engines with a page in flight and any order of the counting: a stop that finds
\* it zero found no call in flight.
THEOREM EveryCallIsCounted == Spec => []CallsAreCounted
<1>1. SessionInv => CallsAreCounted
  BY DEF SessionInv, ConnInv, CountInv, Ended, CallsAreCounted
<1> QED BY <1>1, SessionCorrect, PTL

\* The safety part of LogoutIsAnswered: nothing drops the callback of a Logout
\* in silence, in whatever order the two threads run.
THEOREM LogoutIsKept == Spec => []StopOfLogoutIsKept
<1>1. SessionInv => StopOfLogoutIsKept
  BY DEF SessionInv, ConnInv, LookInv, HeldInv, Direct, StopOfLogoutIsKept
<1> QED BY <1>1, SessionCorrect, PTL

\* A stop callback answers a caller that waits for it, and answers it once.
THEOREM StopCallbacksAnswerOnce == Spec => []StopCallbacksAreAwaited
<1>1. SessionInv => StopCallbacksAreAwaited
  <2> SUFFICES ASSUME SessionInv PROVE StopCallbacksAreAwaited
    OBVIOUS
  <2>1. StopInv(conn) /\ conn \in Connections
    BY DEF SessionInv, ConnInv
  <2>2. conn.PendingStopCallback # None => AwaitedBy(conn.PendingStopCallback)
    BY <2>1 DEF StopInv, AwaitedBy, Connections, Stoppers
  <2>3. ASSUME NEW i \in DOMAIN conn.stopping, conn.stopping[i] # "deferred"
        PROVE  /\ AwaitedBy(conn.stopping[i])
               /\ conn.stopping[i] # conn.PendingStopCallback
               /\ \A j \in DOMAIN conn.stopping : conn.stopping[j] = conn.stopping[i] => i = j
    <3>1. conn.stopping[i] \in StopCallbacks
      <4>1. conn.stopping \in Seq(StopCallbacks)
        BY <2>1 DEF Connections
      <4> QED BY <4>1, ElementOfSeq, LenProperties
    <3>2. conn.stopping[i] \in Direct(conn)
      BY <2>3 DEF Direct
    <3>3. conn.stopping[i] \in {"logout", "server"}
      BY <2>1, <2>3, <3>1, <3>2 DEF StopInv, StopCallbacks, Stoppers
    <3>4. AwaitedBy(conn.stopping[i])
      BY <2>1, <3>2, <3>3 DEF StopInv, AwaitedBy
    <3> QED BY <2>1, <2>3, <3>2, <3>4 DEF StopInv
  <2> QED BY <2>2, <2>3 DEF StopCallbacksAreAwaited
<1> QED BY <1>1, SessionCorrect, PTL

\* No continuation of an answer finds the connection gone.
THEOREM CallsHaveAConnection == Spec => []CallsNeedConnection
<1>1. SessionInv => CallsNeedConnection
  BY DEF SessionInv, ConnInv, HubInv, CallsNeedConnection
<1> QED BY <1>1, SessionCorrect, PTL

\* EnterSpace's success means what it says until the application leaves, logs
\* out or loses the connection, whatever happens to the connection meanwhile.
THEOREM EnterSpaceSuccess == Spec => []SuccessMeansJoined
<1>1. SessionInv => SuccessMeansJoined
  BY DEF SessionInv
<1> QED BY <1>1, SessionCorrect, PTL

\* Logged out means disconnected, however the stop of Logout came about.
THEOREM LogoutDisconnects == Spec => []LoggedOutIsDisconnected
<1>1. SessionInv => LoggedOutIsDisconnected
  <2>1. SUFFICES ASSUME SessionInv, patient, LoginState = "LoggedOut"
                 PROVE  ~conn.Connected /\ conn.hub \notin {"connecting", "connected"}
    BY DEF LoggedOutIsDisconnected
  <2>2. ~conn.Connected /\ conn.hub # "connecting"
    BY <2>1 DEF SessionInv, PatientInv
  <2> QED BY <2>1, <2>2 DEF SessionInv, ConnInv, HubInv
<1> QED BY <1>1, SessionCorrect, PTL
=============================================================================
