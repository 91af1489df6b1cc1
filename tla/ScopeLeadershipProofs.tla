----------------------- MODULE ScopeLeadershipProofs -----------------------
(* Proofs of the safety properties of ScopeLeadership, for any number of   *)
(* clients and any bound on the events in flight.                          *)
EXTENDS ScopeLeadership, SequenceTheorems, TLAPS

\* Appending to a sequence: its last element and its other elements.
LEMMA AppendFacts ==
    ASSUME NEW S, NEW s \in Seq(S), NEW e \in S
    PROVE  /\ Append(s, e) \in Seq(S)
           /\ Append(s, e) # <<>>
           /\ Append(s, e)[Len(Append(s, e))] = e
           /\ \A i \in 1 .. Len(Append(s, e)) : Append(s, e)[i] = e \/ (i \in 1 .. Len(s) /\ Append(s, e)[i] = s[i])
  OBVIOUS

\* Taking the head of a non-empty sequence off: the last element stays, or
\* was the head.
LEMMA TailFacts ==
    ASSUME NEW S, NEW s \in Seq(S), s # <<>>
    PROVE  /\ Head(s) \in S
           /\ Head(s) = s[1]
           /\ Len(s) \in Nat \ {0}
           /\ Tail(s) \in Seq(S)
           /\ Tail(s) = <<>> => s[Len(s)] = Head(s)
           /\ Tail(s) # <<>> => Tail(s)[Len(Tail(s))] = s[Len(s)]
           /\ \A i \in 1 .. Len(Tail(s)) : i + 1 \in 1 .. Len(s) /\ Tail(s)[i] = s[i + 1]
  <1>1. Len(s) \in Nat \ {0} /\ Head(s) = s[1] /\ Head(s) \in S
    OBVIOUS
  <1>2. /\ Tail(s) \in Seq(S)
        /\ Len(Tail(s)) = Len(s) - 1
        /\ \A i \in 1 .. Len(Tail(s)) : Tail(s)[i] = s[i + 1]
    BY HeadTailProperties
  <1>3. Tail(s) = <<>> => s[Len(s)] = Head(s)
    <2>1. Tail(s) = <<>> => Len(s) = 1
      BY <1>1, <1>2, EmptySeq
    <2>2. QED
      BY <1>1, <2>1
  <1>4. Tail(s) # <<>> => Len(Tail(s)) \in 1 .. Len(Tail(s))
    BY <1>2
  <1>5. QED
    BY <1>1, <1>2, <1>3, <1>4

-----------------------------------------------------------------------------
\* An event of the server keeps the invariant, whoever it announces.
LEMMA AnnounceKeepsInv ==
    ASSUME LeadershipInv, NEW l \in Leader, Announce(l)
    PROVE  LeadershipInv'
  <1> USE DEF LeadershipInv
  <1>1. /\ inbox \in [Clients -> Seq(Leader)]
        /\ serverLeader' = l
        /\ inbox' = [c \in Clients |-> IF Listening(c) THEN Append(inbox[c], l) ELSE inbox[c]]
        /\ elected' = elected \cup ({l} \ {None})
        /\ UNCHANGED <<phase, answer, manager, registered, view, due, tickEnabled,
                       scriptListener, informed>>
    BY DEF Announce, TypeOK, engine
  <1>2. \A c \in Clients : Listening(c)' <=> Listening(c)
    BY <1>1 DEF Listening
  <1>3. ASSUME NEW c \in Clients, Listening(c)
        PROVE  /\ inbox'[c] \in Seq(Leader)
               /\ inbox'[c] # <<>>
               /\ inbox'[c][Len(inbox'[c])] = l
               /\ \A i \in 1 .. Len(inbox'[c]) :
                    inbox'[c][i] = l \/ (i \in 1 .. Len(inbox[c]) /\ inbox'[c][i] = inbox[c][i])
    <2>1. inbox'[c] = Append(inbox[c], l)
      BY <1>1, <1>3
    <2>2. QED
      BY <1>1, <2>1, AppendFacts
  <1>4. ASSUME NEW c \in Clients, ~Listening(c)
        PROVE  inbox'[c] = inbox[c]
    BY <1>1, <1>4
  <1>5. TypeOK'
    BY <1>1, <1>3, <1>4 DEF TypeOK, Announce, Leader, Answers
  <1>6. InformedViewsFollowServer'
    BY <1>1, <1>2, <1>3 DEF InformedViewsFollowServer, SettledView
  <1>7. InboxEndsAtServer'
    BY <1>1, <1>2, <1>3 DEF InboxEndsAtServer
  <1>8. OutsideNothingIsKnown'
    BY <1>1, <1>4 DEF OutsideNothingIsKnown, Listening
  <1>9. StoredLeadersWereAnnounced'
    <2>1. l \in Announced' /\ Announced \subseteq Announced'
      BY <1>1 DEF Announced
    <2>2. ASSUME NEW c \in Clients, NEW i \in 1 .. Len(inbox'[c])
          PROVE  inbox'[c][i] \in Announced'
      <3>1. CASE Listening(c)
        BY <1>3, <2>1, <3>1 DEF StoredLeadersWereAnnounced
      <3>2. CASE ~Listening(c)
        BY <1>4, <2>1, <3>2 DEF StoredLeadersWereAnnounced
      <3>3. QED
        BY <3>1, <3>2
    <2>3. QED
      BY <1>1, <2>1, <2>2 DEF StoredLeadersWereAnnounced
  <1>10. ScriptListenerHasManager'
    BY <1>1 DEF ScriptListenerHasManager
  <1>11. QED
    BY <1>5, <1>6, <1>7, <1>8, <1>9, <1>10

\* Handling the first event in flight to a client keeps the invariant,
\* whether the manager applies it or drops it.
LEMMA HandlerKeepsInv ==
    ASSUME LeadershipInv, NEW c \in Clients,
           OnElectedScopeLeader(c) \/ OnVacatedAsScopeLeader(c)
    PROVE  LeadershipInv'
  <1> USE DEF LeadershipInv
  <1> DEFINE applied == manager[c] /\ registered[c]
  <1>1. /\ inbox[c] # <<>>
        /\ inbox' = [inbox EXCEPT ![c] = Tail(inbox[c])]
        /\ view' = IF applied THEN [view EXCEPT ![c] = Head(inbox[c])] ELSE view
        /\ due' = IF applied THEN [due EXCEPT ![c] = TRUE] ELSE due
        /\ informed' = IF applied THEN [informed EXCEPT ![c] = TRUE] ELSE informed
        /\ UNCHANGED <<serverLeader, heard, phase, answer, manager, registered, tickEnabled,
                       scriptListener, elected>>
    BY DEF OnElectedScopeLeader, OnVacatedAsScopeLeader, SetLeader, server
  <1>2. inbox \in [Clients -> Seq(Leader)] /\ view \in [Clients -> Leader]
    BY DEF TypeOK
  <1>3. /\ Head(inbox[c]) \in Leader
        /\ Head(inbox[c]) = inbox[c][1]
        /\ Len(inbox[c]) \in Nat \ {0}
        /\ Tail(inbox[c]) \in Seq(Leader)
        /\ Tail(inbox[c]) = <<>> => inbox[c][Len(inbox[c])] = Head(inbox[c])
        /\ Tail(inbox[c]) # <<>>
             => Tail(inbox[c])[Len(Tail(inbox[c]))] = inbox[c][Len(inbox[c])]
        /\ \A i \in 1 .. Len(Tail(inbox[c])) :
             i + 1 \in 1 .. Len(inbox[c]) /\ Tail(inbox[c])[i] = inbox[c][i + 1]
    BY <1>1, <1>2, TailFacts
  <1>4. \A d \in Clients : Listening(d)' <=> Listening(d)
    BY <1>1 DEF Listening
  <1>5. /\ inbox'[c] = Tail(inbox[c])
        /\ \A d \in Clients \ {c} : inbox'[d] = inbox[d] /\ view'[d] = view[d]
                                    /\ informed'[d] = informed[d]
        /\ applied => view'[c] = Head(inbox[c])
        /\ ~applied => view'[c] = view[c] /\ informed'[c] = informed[c]
    BY <1>1, <1>2 DEF TypeOK
  <1>6. TypeOK'
    BY <1>1, <1>2, <1>3 DEF TypeOK
  <1>7. InboxEndsAtServer'
    BY <1>1, <1>3, <1>4, <1>5 DEF InboxEndsAtServer
  <1>8. InformedViewsFollowServer'
    <2> SUFFICES ASSUME NEW d \in Clients, Listening(d), registered[d], informed'[d]
                 PROVE  SettledView(d)' = serverLeader
      BY <1>1, <1>4 DEF InformedViewsFollowServer
    <2>1. CASE d # c
      BY <1>1, <1>5, <2>1 DEF InformedViewsFollowServer, SettledView
    <2>2. CASE d = c /\ applied
      BY <1>1, <1>3, <1>5, <2>2 DEF InboxEndsAtServer, SettledView
    <2>3. CASE d = c /\ ~applied
      BY <2>3 DEF OutsideNothingIsKnown
    <2>4. QED
      BY <2>1, <2>2, <2>3
  <1>9. OutsideNothingIsKnown'
    BY <1>1, <1>3, <1>5 DEF OutsideNothingIsKnown
  <1>10. StoredLeadersWereAnnounced'
    BY <1>1, <1>3, <1>5 DEF StoredLeadersWereAnnounced, Announced
  <1>11. ScriptListenerHasManager'
    BY <1>1 DEF ScriptListenerHasManager
  <1>12. QED
    BY <1>6, <1>7, <1>8, <1>9, <1>10, <1>11

-----------------------------------------------------------------------------
\* ResetManager, client by client.
LEMMA ResetManagerEffect ==
    ASSUME TypeOK, NEW c \in Clients, NEW enabled \in BOOLEAN, ResetManager(c, enabled)
    PROVE  /\ manager' \in [Clients -> BOOLEAN] /\ registered' \in [Clients -> BOOLEAN]
           /\ view' \in [Clients -> Leader] /\ due' \in [Clients -> BOOLEAN]
           /\ scriptListener' \in [Clients -> BOOLEAN] /\ informed' \in [Clients -> BOOLEAN]
           /\ ~ registered'[c] /\ ~ informed'[c] /\ view'[c] = None
           /\ scriptListener'[c] => ~ manager[c] /\ scriptListener[c]
           /\ \A d \in Clients \ {c} :
                /\ manager'[d] = manager[d] /\ registered'[d] = registered[d]
                /\ view'[d] = view[d] /\ informed'[d] = informed[d]
                /\ scriptListener'[d] = scriptListener[d]
  <1>1. /\ manager' \in [Clients -> BOOLEAN] /\ registered' \in [Clients -> BOOLEAN]
        /\ due' \in [Clients -> BOOLEAN] /\ informed' \in [Clients -> BOOLEAN]
        /\ ~ registered'[c] /\ ~ informed'[c]
        /\ \A d \in Clients \ {c} :
             /\ manager'[d] = manager[d] /\ registered'[d] = registered[d]
             /\ informed'[d] = informed[d]
    BY DEF ResetManager, TypeOK
  <1>2. /\ view' \in [Clients -> Leader] /\ view'[c] = None
        /\ \A d \in Clients \ {c} : view'[d] = view[d]
    BY DEF ResetManager, TypeOK, Leader
  <1>3. /\ scriptListener' \in [Clients -> BOOLEAN]
        /\ scriptListener'[c] => ~ manager[c] /\ scriptListener[c]
        /\ \A d \in Clients \ {c} : scriptListener'[d] = scriptListener[d]
    BY DEF ResetManager, TypeOK
  <1>4. QED
    BY <1>1, <1>2, <1>3

\* A step that drops c's manager and moves c to the phase p keeps the
\* invariant, if c's phase allows it.
LEMMA DropsManager ==
    ASSUME LeadershipInv, NEW c \in Clients, ResetManager(c, FALSE),
           NEW p \in Phases, phase' = [phase EXCEPT ![c] = p],
           p = phase[c] \/ (phase[c] = "detached" /\ p = "out"),
           tickEnabled' \in [Clients -> BOOLEAN],
           UNCHANGED <<server, inbox, answer, elected>>
    PROVE  LeadershipInv'
  <1>1. TypeOK /\ UNCHANGED <<serverLeader, heard, inbox, answer, elected>>
    BY DEF LeadershipInv, server
  <1>2. /\ phase' \in [Clients -> Phases] /\ phase'[c] = p
        /\ \A d \in Clients \ {c} : phase'[d] = phase[d]
        /\ \A d \in Clients : Listening(d)' <=> Listening(d)
    BY <1>1 DEF TypeOK, Listening
  <1>3. /\ ~ registered'[c] /\ ~ informed'[c] /\ view'[c] = None
        /\ scriptListener'[c] => scriptListener[c] /\ ~ manager[c]
        /\ \A d \in Clients \ {c} :
             /\ manager'[d] = manager[d] /\ registered'[d] = registered[d]
             /\ view'[d] = view[d] /\ informed'[d] = informed[d]
             /\ scriptListener'[d] = scriptListener[d]
    BY <1>1, ResetManagerEffect
  <1>4. TypeOK'
    BY <1>1, <1>2, ResetManagerEffect DEF TypeOK
  <1>5. InformedViewsFollowServer'
    BY <1>1, <1>2, <1>3 DEF LeadershipInv, InformedViewsFollowServer, SettledView
  <1>6. InboxEndsAtServer'
    BY <1>1, <1>2 DEF LeadershipInv, InboxEndsAtServer
  <1>7. OutsideNothingIsKnown'
    BY <1>1, <1>2, <1>3 DEF LeadershipInv, OutsideNothingIsKnown
  <1>8. StoredLeadersWereAnnounced'
    BY <1>1, <1>3 DEF LeadershipInv, StoredLeadersWereAnnounced, Announced
  <1>9. ScriptListenerHasManager'
    BY <1>3 DEF LeadershipInv, ScriptListenerHasManager
  <1>10. QED
    BY <1>4, <1>5, <1>6, <1>7, <1>8, <1>9 DEF LeadershipInv

LEMMA DisableKeepsInv ==
    ASSUME LeadershipInv, NEW c \in Clients, DisableLeaderElection(c)
    PROVE  LeadershipInv'
  <1>1. PICK p : p = phase[c]
    OBVIOUS
  <1>2. /\ p \in Phases /\ phase' = [phase EXCEPT ![c] = p]
        /\ tickEnabled' \in [Clients -> BOOLEAN]
    BY <1>1 DEF DisableLeaderElection, LeadershipInv, TypeOK
  <1>3. ResetManager(c, FALSE) /\ UNCHANGED <<server, inbox, answer, elected>>
    BY DEF DisableLeaderElection
  <1>4. QED
    BY <1>1, <1>2, <1>3, DropsManager

LEMMA DestroyKeepsInv ==
    ASSUME LeadershipInv, NEW c \in Clients, DestroyEngine(c)
    PROVE  LeadershipInv'
  <1>1. phase[c] = "detached" /\ "out" \in Phases /\ phase' = [phase EXCEPT ![c] = "out"]
    BY DEF DestroyEngine, Phases
  <1>2. tickEnabled' \in [Clients -> BOOLEAN]
    BY DEF DestroyEngine, LeadershipInv, TypeOK
  <1>3. ResetManager(c, FALSE) /\ UNCHANGED <<server, inbox, answer, elected>>
    BY DEF DestroyEngine
  <1>4. QED
    BY <1>1, <1>2, <1>3, DropsManager

\* Every other step of a client leaves the events in flight and the server's
\* leader alone.
LEMMA ClientStepKeepsInv ==
    ASSUME LeadershipInv, NEW c \in Clients,
           \/ StartListening(c)
           \/ EnableLeaderElection(c)
           \/ DisableLeaderElection(c)
           \/ GetScopeLeaderAnswered(c)
           \/ RegisterDefaultScope(c)
           \/ FetchComplete(c)
           \/ ExitSpace(c)
           \/ DetachEngine(c)
           \/ DestroyEngine(c)
           \/ HeartbeatIntervalElapses(c)
           \/ SendHeartbeatIfElectedScopeLeader(c)
    PROVE  LeadershipInv'
  <1> USE DEF LeadershipInv, TypeOK, InformedViewsFollowServer, InboxEndsAtServer,
             OutsideNothingIsKnown, StoredLeadersWereAnnounced, ScriptListenerHasManager,
              Listening, SettledView, Announced, Answers, Leader, Phases
  <1>1. CASE StartListening(c)
    BY <1>1 DEF StartListening, server, engine
  <1>2. CASE EnableLeaderElection(c)
    BY <1>2 DEF EnableLeaderElection, ResetManager, server, engine
  <1>3. CASE DisableLeaderElection(c)
    BY <1>3, DisableKeepsInv
  <1>4. CASE GetScopeLeaderAnswered(c)
    BY <1>4 DEF GetScopeLeaderAnswered, server, engine
  <1>5. CASE RegisterDefaultScope(c)
    <2>1. UNCHANGED <<serverLeader, heard, inbox, manager, tickEnabled, scriptListener,
                      informed, elected>>
      BY <1>5 DEF RegisterDefaultScope, server
    <2>2. TypeOK'
      BY <1>5, <2>1 DEF RegisterDefaultScope
    <2>3. StoredLeadersWereAnnounced'
      BY <1>5, <2>1 DEF RegisterDefaultScope
    <2>4. ~informed'[c]
      BY <1>5, <2>1 DEF RegisterDefaultScope
    <2>5. InformedViewsFollowServer'
      BY <1>5, <2>1, <2>4 DEF RegisterDefaultScope
    <2>6. InboxEndsAtServer' /\ OutsideNothingIsKnown' /\ ScriptListenerHasManager'
      BY <1>5, <2>1 DEF RegisterDefaultScope
    <2>7. QED
      BY <2>2, <2>3, <2>5, <2>6
  <1>6. CASE FetchComplete(c)
    BY <1>6 DEF FetchComplete, server, engine
  <1>7. CASE ExitSpace(c)
    BY <1>7 DEF ExitSpace, server, engine
  <1>8. CASE DetachEngine(c)
    BY <1>8 DEF DetachEngine, server, engine
  <1>9. CASE DestroyEngine(c)
    BY <1>9, DestroyKeepsInv
  <1>10. CASE HeartbeatIntervalElapses(c)
    BY <1>10 DEF HeartbeatIntervalElapses, server, engine
  <1>11. CASE SendHeartbeatIfElectedScopeLeader(c)
    BY <1>11 DEF SendHeartbeatIfElectedScopeLeader, server, engine
  <1>12. QED
    BY <1>1, <1>2, <1>3, <1>4, <1>5, <1>6, <1>7, <1>8, <1>9, <1>10, <1>11

\* The inductive invariant holds in every state: the views of informed
\* clients follow the server, nothing stored was invented, and the script
\* listener never outlives the manager (OnElectedScopeLeader,
\* OnVacatedAsScopeLeader, RegisterDefaultScope, DisableLeaderElection).
THEOREM LeadershipInvariant == Spec => []LeadershipInv
  <1>1. Init => LeadershipInv
    <2> SUFFICES ASSUME Init PROVE LeadershipInv
      OBVIOUS
    <2>1. TypeOK
      <3>1. <<>> \in Seq(Leader)
        BY EmptySeq
      <3>2. QED
        BY <3>1 DEF Init, TypeOK, Answers, Leader, Phases
    <2>2. \A c \in Clients : inbox[c] = <<>> /\ 1 .. Len(inbox[c]) = {} /\ ~Listening(c)
      <3>1. Len(<<>>) = 0 /\ 1 .. 0 = {}
        BY EmptySeq
      <3>2. \A c \in Clients : inbox[c] = <<>> /\ phase[c] = "out"
        BY DEF Init
      <3>3. \A c \in Clients : ~Listening(c)
        BY <3>2 DEF Listening
      <3>4. QED
        BY <3>1, <3>2, <3>3
    <2>3. StoredLeadersWereAnnounced
      BY <2>2 DEF Init, StoredLeadersWereAnnounced, Announced
    <2>4. QED
      BY <2>1, <2>2, <2>3
         DEF Init, LeadershipInv, InformedViewsFollowServer, InboxEndsAtServer,
             OutsideNothingIsKnown, ScriptListenerHasManager
  <1>2. LeadershipInv /\ [Next]_vars => LeadershipInv'
    <2> SUFFICES ASSUME LeadershipInv, [Next]_vars PROVE LeadershipInv'
      OBVIOUS
    <2>1. CASE ServerNoticesLeaderLeft \/ ServerInterval
      <3>1. CASE Announce(None)
        BY <3>1, AnnounceKeepsInv DEF Leader
      <3>2. CASE heard' = FALSE /\ UNCHANGED <<serverLeader, inbox, phase, answer, engine,
                                                informed, elected>>
        BY <3>2 DEF LeadershipInv, TypeOK, InformedViewsFollowServer, InboxEndsAtServer,
                    OutsideNothingIsKnown, StoredLeadersWereAnnounced,
                    ScriptListenerHasManager, Listening, SettledView, Announced, engine
      <3>3. QED
        BY <2>1, <3>1, <3>2 DEF ServerNoticesLeaderLeft, ServerInterval
    <2>2. ASSUME NEW c \in Clients, ServerElects(c) \/ AssumeScopeLeadership(c)
          PROVE  LeadershipInv'
      BY <2>2, AnnounceKeepsInv DEF ServerElects, AssumeScopeLeadership, Leader
    <2>3. ASSUME NEW c \in Clients, OnElectedScopeLeader(c) \/ OnVacatedAsScopeLeader(c)
          PROVE  LeadershipInv'
      BY <2>3, HandlerKeepsInv
    <2>4. CASE UNCHANGED vars
      BY <2>4 DEF LeadershipInv, TypeOK, InformedViewsFollowServer, InboxEndsAtServer,
                  OutsideNothingIsKnown, StoredLeadersWereAnnounced,
                  ScriptListenerHasManager, Listening, SettledView, Announced, vars, server, engine
    <2>5. QED
      BY <2>1, <2>2, <2>3, <2>4, ClientStepKeepsInv DEF Next
  <1>3. QED
    BY <1>1, <1>2, PTL DEF Spec

\* For any number of clients: up to the events in flight, a client that has
\* handled an election event since it registered agrees with the server.
THEOREM InformedViewsAlwaysFollowServer == Spec => []InformedViewsFollowServer
  <1>1. LeadershipInv => InformedViewsFollowServer
    BY DEF LeadershipInv
  <1>2. QED
    BY <1>1, LeadershipInvariant, PTL

\* For any number of clients: with election on, only a client the server
\* announced as leader ticks scripts.
THEOREM OnlyElectedClientsEverTick == Spec => []OnlyElectedClientsTick
  <1>1. LeadershipInv => OnlyElectedClientsTick
    BY NoneAssumption
       DEF LeadershipInv, StoredLeadersWereAnnounced, Announced, OnlyElectedClientsTick,
           TicksScripts, IsLocalClientLeader, BelievesLeader
  <1>2. QED
    BY <1>1, LeadershipInvariant, PTL

\* The views, the events in flight and the state of every engine stay well
\* formed, whatever the server announces.
THEOREM LeadershipIsTyped == Spec => []TypeOK
  <1>1. LeadershipInv => TypeOK
    BY DEF LeadershipInv
  <1>2. QED
    BY <1>1, LeadershipInvariant, PTL

\* OnRemoteRunScriptEvent always finds the manager it dereferences: an engine
\* that listens for script events has one.
THEOREM ScriptListenersAlwaysHaveManager == Spec => []ScriptListenerHasManager
  <1>1. LeadershipInv => ScriptListenerHasManager
    BY DEF LeadershipInv
  <1>2. QED
    BY <1>1, LeadershipInvariant, PTL

=============================================================================
