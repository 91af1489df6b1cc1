---------------------------- MODULE EntityStore ----------------------------
(***************************************************************************)
(* What a realtime engine promises about the entities it shows to the      *)
(* application, with none of its queues, pages, ticks and messages: an     *)
(* entity is shown when no other of its id is, once, and the object behind *)
(* it is deleted only after the service or the application gave the entity *)
(* up, leaving the lists in the same step.  RealtimeEntities implements    *)
(* this.                                                                   *)
(***************************************************************************)
CONSTANTS
    Handles,    \* addresses of SpaceEntity objects
    Ids         \* ids of entities

VARIABLES
    life,       \* life[h]: unused, made (sent, not answered), live or freed
    key,        \* key[h]: the id of the entity at h
    shown,      \* the entities in the engine's lists
    wanted      \* the ids the service lists and this client did not destroy

vars == <<life, key, shown, wanted>>

Init ==
    /\ life = [h \in Handles |-> "unused"]
    /\ key \in [Handles -> Ids]
    /\ shown = {}
    /\ wanted \in SUBSET Ids

\* The service and the application: any change of what is wanted.
Decide ==
    /\ wanted' \in SUBSET Ids
    /\ UNCHANGED <<life, key, shown>>

\* The application creates an entity, under an id that no object has.
Make(h, i) ==
    /\ life[h] = "unused"
    /\ \A g \in Handles \ {h} : life[g] # "unused" => key[g] # i
    /\ life' = [life EXCEPT ![h] = "made"]
    /\ key' = [key EXCEPT ![h] = i]
    /\ wanted' \in SUBSET (wanted \cup {i})
    /\ UNCHANGED shown

\* The service tells of an entity.
Learn(h, i) ==
    /\ life[h] = "unused"
    /\ life' = [life EXCEPT ![h] = "live"]
    /\ key' = [key EXCEPT ![h] = i]
    /\ UNCHANGED <<shown, wanted>>

Show(h) ==
    /\ life[h] \in {"made", "live"}
    /\ \A g \in shown : key[g] # key[h]
    /\ life' = [life EXCEPT ![h] = "live"]
    /\ shown' = shown \cup {h}
    /\ UNCHANGED <<key, wanted>>

Drop(h) ==
    /\ life[h] = "live"
    /\ key[h] \notin wanted
    /\ life' = [life EXCEPT ![h] = "freed"]
    /\ shown' = shown \ {h}
    /\ UNCHANGED <<key, wanted>>

Next ==
    \/ Decide
    \/ \E h \in Handles : Show(h) \/ Drop(h) \/ \E i \in Ids : Make(h, i) \/ Learn(h, i)

Spec == Init /\ [][Next]_vars
=============================================================================
