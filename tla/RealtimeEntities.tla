------------------------- MODULE RealtimeEntities -------------------------
(***************************************************************************)
(* The entity store of one OnlineRealtimeEngine: the lists of entities it  *)
(* keeps, the queues the network handlers and the application fill, the    *)
(* flush of those queues that every tick performs, the paged fetch of a    *)
(* space, and the parent/child pointers between entities.                  *)
(*                                                                         *)
(* An entity is a C++ object: a member of Handles stands for its address,  *)
(* and two handles may carry the same server id.  A freed handle is not    *)
(* used again.  The lists are modelled as sets of handles, because nothing *)
(* here depends on their order, and the deques as sequences.               *)
(*                                                                         *)
(* The flush holds EntitiesLock, so it is a run of steps (one per queued   *)
(* item) during which no other action is enabled.  The application's calls *)
(* and the flush are assumed to be made one at a time: see the README for  *)
(* the calls the code leaves unlocked.                                     *)
(*                                                                         *)
(* The multiplayer service and the other clients are external.  What they  *)
(* send arrives in order (one SignalR connection), and a call of this      *)
(* client takes effect when it is made: what the service sends before it   *)
(* handles the call is already in inbox.                                   *)
(***************************************************************************)
EXTENDS Naturals, Sequences, FiniteSets

CONSTANTS
    Handles,        \* addresses of SpaceEntity objects
    Nil,            \* nullptr
    Ids,            \* object ids the service can generate
    NoParent,       \* the empty optional: the entity is at the root
    Clean,          \* NewParentId holds nothing: the parent is not dirty
    InitialWorlds,  \* what the space may hold when the engine joins it
    PageLimit,      \* ENTITY_PAGE_LIMIT
    MaxInbox,       \* bound on the messages in flight and the patches queued
    MaxDirty,       \* bound on the entities with a dirty parent
    KeepsPointers   \* the application uses the pointers its callbacks got,
                    \* not only those it looks up in the engine's lists

ASSUME NilAssumption == Nil \notin Handles
ASSUME IdsAssumption == Ids # {} /\ NoParent \notin Ids /\ Clean \notin Ids \cup {NoParent}
ASSUME KeepsPointersAssumption == KeepsPointers \in BOOLEAN
ASSUME PageLimitAssumption == PageLimit \in Nat \ {0}

Pointers == Handles \cup {Nil}
ParentIds == Ids \cup {NoParent}
Types == {"Avatar", "Object"}

\* What the service tells of an entity.
Records == [id : Ids, type : Types, parentId : ParentIds]

Patches == [id : Ids, destroy : BOOLEAN, parentId : ParentIds]

Messages ==
    [kind : {"object"}, object : Records] \cup
    [kind : {"patch"}, patch : Patches] \cup
    [kind : {"page"}, items : Seq(Records), next : Nat, total : Nat] \cup
    [kind : {"sent"}, entity : Handles, ok : BOOLEAN]

UniqueIds(w) == \A m, n \in DOMAIN w : w[m].id = w[n].id => m = n

ASSUME InitialWorldsAssumption ==
    \A w \in InitialWorlds :
        w \in Seq(Records) /\ UniqueIds(w)

VARIABLES
    world,      \* external: the entities the service lists, in order of creation
    ownAvatars, \* external: this client's avatars, which pages leave out
    issued,     \* external: the ids the service has given out
    inbox,      \* external: messages in flight to this client
    mem,        \* mem[h]: unused, made (sent, not answered), live or freed
    id,         \* id[h]: Id
    type,       \* type[h]: Type
    parentId,   \* parentId[h]: ParentId
    parent,     \* parent[h]: the pointer Parent
    children,   \* children[h]: ChildEntities
    newParentId,                    \* newParentId[h]: the patcher's NewParentId
    Entities, Avatars, Objects, RootHierarchyEntities,
    PendingAdds, PendingRemoves, PendingIncomingUpdates,
    PendingOutgoingUpdateUniqueSet,
    phase,      \* where the flush is, "idle" when EntitiesLock is free
    handled,    \* AddedEntities, then RemovedEntities
    sending,    \* PendingEntities: patches sent, not yet applied locally
    fetch,      \* the fetch of the space: "none", "running", "done"
    destroyed,  \* history: the ids other clients destroyed
    requested   \* history: the ids this client asked to destroy

history   == <<destroyed, requested>>
service   == <<world, ownAvatars, issued, inbox, history>>
made      == <<id, type>>
hierarchy == <<parentId, parent, children, RootHierarchyEntities>>
lists     == <<Entities, Avatars, Objects>>
queues    == <<PendingAdds, PendingRemoves, PendingIncomingUpdates,
               PendingOutgoingUpdateUniqueSet>>
flush     == <<phase, handled, sending>>
vars == <<service, mem, made, hierarchy, newParentId, lists, queues, flush, fetch>>

\* adding: adds, then incoming patches.  sent: the outgoing patches are sent;
\* they are applied locally, then the removes are flushed.
Phases == {"idle", "adding", "sent"}

ServiceTypeOK ==
    /\ world \in Seq(Records)
    /\ ownAvatars \subseteq Ids
    /\ issued \subseteq Ids
    /\ destroyed \subseteq Ids /\ requested \subseteq Ids
    /\ inbox \in Seq(Messages)

ObjectsTypeOK ==
    /\ mem \in [Handles -> {"unused", "made", "live", "freed"}]
    /\ id \in [Handles -> Ids]
    /\ type \in [Handles -> Types]
    /\ parentId \in [Handles -> ParentIds]
    /\ parent \in [Handles -> Pointers]
    /\ children \in [Handles -> SUBSET Handles]
    /\ newParentId \in [Handles -> ParentIds \cup {Clean}]

EngineTypeOK ==
    /\ Entities \subseteq Handles
    /\ Avatars \subseteq Handles
    /\ Objects \subseteq Handles
    /\ RootHierarchyEntities \subseteq Handles
    /\ PendingAdds \in Seq(Handles)
    /\ PendingRemoves \in Seq(Handles)
    /\ PendingIncomingUpdates \in Seq(Patches)
    /\ PendingOutgoingUpdateUniqueSet \subseteq Handles
    /\ phase \in Phases
    /\ handled \subseteq Handles
    /\ sending \subseteq Handles
    /\ fetch \in {"none", "running", "done"}

TypeOK == ServiceTypeOK /\ ObjectsTypeOK /\ EngineTypeOK

Elements(s) == {s[i] : i \in DOMAIN s}

WorldIds == {r.id : r \in Elements(world)} \cup ownAvatars

Init ==
    /\ world \in InitialWorlds
    /\ ownAvatars = {}
    /\ issued = WorldIds
    /\ destroyed = {} /\ requested = {}
    /\ inbox = <<>>
    /\ mem = [h \in Handles |-> "unused"]
    /\ id = [h \in Handles |-> CHOOSE i \in Ids : TRUE]
    /\ type = [h \in Handles |-> "Object"]
    /\ parentId = [h \in Handles |-> NoParent]
    /\ parent = [h \in Handles |-> Nil]
    /\ children = [h \in Handles |-> {}]
    /\ newParentId = [h \in Handles |-> Clean]
    /\ Entities = {} /\ Avatars = {} /\ Objects = {}
    /\ RootHierarchyEntities = {}
    /\ PendingAdds = <<>> /\ PendingRemoves = <<>>
    /\ PendingIncomingUpdates = <<>>
    /\ PendingOutgoingUpdateUniqueSet = {}
    /\ phase = "idle" /\ handled = {} /\ sending = {}
    /\ fetch = "none"

-----------------------------------------------------------------------------
(* The service and the other clients (external).                           *)

Send(messages) ==
    /\ Len(inbox) + Len(PendingIncomingUpdates) + Len(messages) <= MaxInbox
    /\ inbox' = inbox \o messages

ObjectMessage(r) == [kind |-> "object", object |-> r]
PatchMessage(i, destroy, p) ==
    [kind |-> "patch", patch |-> [id |-> i, destroy |-> destroy, parentId |-> p]]

\* world with the parent of the entities in moved changed; ids the service
\* does not know are ignored.
Reparented(w, moved, p) ==
    [n \in DOMAIN w |-> IF w[n].id \in moved THEN [w[n] EXCEPT !.parentId = p] ELSE w[n]]

Without(w, i) ==
    IF \A n \in DOMAIN w : w[n].id # i THEN w
    ELSE LET k == CHOOSE n \in DOMAIN w : w[n].id = i
         IN [n \in 1..(Len(w) - 1) |-> IF n < k THEN w[n] ELSE w[n + 1]]

UnchangedEngine == UNCHANGED <<mem, made, hierarchy, newParentId, lists, queues, flush, fetch>>

RemoteCreate(i, t, p) ==
    /\ i \notin issued
    /\ p \in WorldIds \cup {NoParent}
    /\ t = "Avatar" => p = NoParent
    /\ LET r == [id |-> i, type |-> t, parentId |-> p] IN
        /\ world' = Append(world, r)
        /\ Send(<<ObjectMessage(r)>>)
    /\ issued' = issued \cup {i}
    /\ UNCHANGED <<ownAvatars, history>>
    /\ UnchangedEngine

RemoteReparent(i, p) ==
    /\ i \in WorldIds
    /\ p \in (WorldIds \cup {NoParent}) \ {i}
    /\ world' = Reparented(world, {i}, p)
    /\ Send(<<PatchMessage(i, FALSE, p)>>)
    /\ UNCHANGED <<ownAvatars, issued, history>>
    /\ UnchangedEngine

\* Another client destroys entity i: its DestroyEntity sends the destruction
\* and the move of the children to the root as one call, which the service
\* forwards as one OnObjectPatch each.
RemoteDestroy(i) ==
    /\ i \in WorldIds
    /\ LET moved == {r.id : r \in {w \in Elements(world) : w.parentId = i}} IN
        /\ world' = Without(Reparented(world, moved, NoParent), i)
        /\ \E n \in 0..MaxInbox : \E order \in [1..n -> moved] :
            /\ Elements(order) = moved
            /\ \A j, k \in 1..n : order[j] = order[k] => j = k
            /\ Send(<<PatchMessage(i, TRUE, NoParent)>>
                    \o [k \in 1..n |-> PatchMessage(order[k], FALSE, NoParent)])
    /\ ownAvatars' = ownAvatars \ {i}
    /\ destroyed' = destroyed \cup {i}
    /\ UNCHANGED <<issued, requested>>
    /\ UnchangedEngine

\* The answer to PageScopedObjects: at most PageLimit entities after skip.
Page(skip) ==
    LET size == IF Len(world) > skip + PageLimit THEN PageLimit
                ELSE IF Len(world) > skip THEN Len(world) - skip ELSE 0
    IN [kind |-> "page", items |-> SubSeq(world, skip + 1, skip + size),
        next |-> skip + size, total |-> Len(world)]

-----------------------------------------------------------------------------
(* Parent and child pointers.                                              *)

FindSpaceEntityById(entities, i) ==
    IF \E h \in entities : id[h] = i THEN CHOOSE h \in entities : id[h] = i ELSE Nil

\* The first of the entities still to be added that has id p, if any.
PendingParents(p) ==
    {PendingAdds[n] : n \in {k \in DOMAIN PendingAdds :
        id[PendingAdds[k]] = p /\ \A m \in 1..(k - 1) : id[PendingAdds[m]] # p}}

\* The entity a ParentId stands for: known already, or still to be added.
FindParent(entities, p) ==
    LET known == {h \in entities : id[h] = p}
        candidates == IF known # {} THEN known ELSE PendingParents(p)
    IN IF p = NoParent \/ candidates = {} THEN Nil ELSE CHOOSE h \in candidates : TRUE

\* The list of root entities, searched by id, when e has ParentId p.
ResolvedRoot(e, p) ==
    IF p # NoParent THEN {r \in RootHierarchyEntities : id[r] # id[e]}
    ELSE IF \E r \in RootHierarchyEntities : id[r] = id[e]
         THEN RootHierarchyEntities ELSE RootHierarchyEntities \cup {e}

\* Variant: the old parent keeps e as a child.
ResolveWithoutCleanup(entities, e, p) ==
    LET found == FindParent(entities, p) IN
    /\ parentId' = [parentId EXCEPT ![e] = p]
    /\ parent' = [parent EXCEPT ![e] = found]
    /\ children' = [h \in Handles |->
          IF h = found THEN children[h] \cup {e} ELSE children[h]]
    /\ RootHierarchyEntities' = ResolvedRoot(e, p)

\* e takes ParentId p: the list of root entities and the pointers between e,
\* its old parent and its new one follow.
ResolveEntityHierarchy(entities, e, p) ==
    LET found == FindParent(entities, p) IN
    /\ parentId' = [parentId EXCEPT ![e] = p]
    /\ parent' = [parent EXCEPT ![e] = found]
    /\ children' = [h \in Handles |->
          IF h = found THEN children[h] \cup {e}
          ELSE IF h = parent[e] THEN children[h] \ {e} ELSE children[h]]
    /\ RootHierarchyEntities' = ResolvedRoot(e, p)

\* The entities of s that end up in the list of root entities when each is
\* appended unless its id is there: one per id that is missing.
RootAdditions(root, s) ==
    {a \in SUBSET s :
        /\ \A h \in a : \A r \in root : id[r] # id[h]
        /\ \A h, g \in a : id[h] = id[g] => h = g
        /\ \A h \in s : \E r \in root \cup a : id[r] = id[h]}

-----------------------------------------------------------------------------
(* Network handlers.  Each takes EntitiesLock.                             *)

Idle == phase = "idle"

Received(k) == Idle /\ inbox # <<>> /\ Head(inbox).kind = k

\* A new SpaceEntity at h made from what the service sent.
NewFromObjectMessage(h, r) ==
    /\ mem[h] = "unused"
    /\ mem' = [mem EXCEPT ![h] = "live"]
    /\ id' = [id EXCEPT ![h] = r.id]
    /\ type' = [type EXCEPT ![h] = r.type]
    /\ parentId' = [parentId EXCEPT ![h] = r.parentId]
    /\ UNCHANGED <<parent, children, RootHierarchyEntities, newParentId>>

CreateRemotelyRetrievedEntity(h, r) ==
    /\ NewFromObjectMessage(h, r)
    /\ PendingAdds' = Append(PendingAdds, h)
    /\ UNCHANGED <<lists, PendingRemoves, PendingIncomingUpdates,
                   PendingOutgoingUpdateUniqueSet, flush>>

OnObjectMessage(h) ==
    /\ Received("object")
    /\ CreateRemotelyRetrievedEntity(h, Head(inbox).object)
    /\ inbox' = Tail(inbox)
    /\ UNCHANGED <<world, ownAvatars, issued, history, fetch>>

OnObjectPatch ==
    /\ Received("patch")
    /\ PendingIncomingUpdates' = Append(PendingIncomingUpdates, Head(inbox).patch)
    /\ inbox' = Tail(inbox)
    /\ UNCHANGED <<world, ownAvatars, issued, history, mem, made, hierarchy, newParentId,
                   lists, PendingAdds, PendingRemoves, PendingOutgoingUpdateUniqueSet,
                   flush, fetch>>

FetchAllEntitiesAndPopulateBuffers ==
    /\ Idle
    /\ fetch = "none"
    /\ fetch' = "running"
    /\ Send(<<Page(0)>>) \/ UNCHANGED inbox
    /\ UNCHANGED <<world, ownAvatars, issued, history, mem, made, hierarchy, newParentId,
                   lists, queues, flush>>

\* One entity of a page.  The lock is released between two of them.
RetrievedEntity(h) ==
    /\ Received("page")
    /\ Head(inbox).items # <<>>
    /\ CreateRemotelyRetrievedEntity(h, Head(Head(inbox).items))
    /\ inbox' = <<[Head(inbox) EXCEPT !.items = Tail(@)]>> \o Tail(inbox)
    /\ UNCHANGED <<world, ownAvatars, issued, history, fetch>>

\* The end of a page: the next one is requested, or the fetch completes with
\* a flush.  After a request that fails the fetch does not complete.
RetrievedPage ==
    /\ Received("page")
    /\ Head(inbox).items = <<>>
    /\ \/ /\ Head(inbox).next < Head(inbox).total
          /\ inbox' \in {Append(Tail(inbox), Page(Head(inbox).next)), Tail(inbox)}
          /\ UNCHANGED <<phase, fetch>>
       \/ /\ Head(inbox).next >= Head(inbox).total
          /\ inbox' = Tail(inbox)
          /\ phase' = "adding"
          /\ fetch' = "done"
    /\ UNCHANGED <<world, ownAvatars, issued, history, mem, made, hierarchy, newParentId,
                   lists, queues, handled, sending>>

\* The service answers SendObjectMessage.  After a failure the object is
\* neither kept nor deleted.
ObjectSent ==
    /\ Received("sent")
    /\ LET h == Head(inbox).entity
           avatar == type[h] = "Avatar" IN
        \/ /\ ~Head(inbox).ok
           /\ UNCHANGED <<mem, hierarchy, lists>>
        \/ /\ Head(inbox).ok
           /\ mem' = [mem EXCEPT ![h] = "live"]
           /\ Entities' = Entities \cup {h}
           /\ \/ /\ avatar
                 /\ Avatars' = Avatars \cup {h}
                 /\ UNCHANGED <<hierarchy, Objects>>
              \/ /\ ~avatar
                 /\ ResolveEntityHierarchy(Entities, h, parentId[h])
                 /\ Objects' = Objects \cup {h}
                 /\ UNCHANGED Avatars
    /\ inbox' = Tail(inbox)
    /\ UNCHANGED <<world, ownAvatars, issued, history, made, newParentId, queues, flush, fetch>>

-----------------------------------------------------------------------------
(* The application's calls.                                                *)

\* EnterSpace reports back to the application once the fetch has started.
InSpace == Idle /\ fetch # "none"

\* The handles the application may use: those it was given, until it is told
\* that the entity is destroyed.
Usable(h) ==
    /\ mem[h] = "live"
    /\ h \notin Elements(PendingRemoves)
    /\ KeepsPointers \/ h \in Entities

\* CreateEntity and CreateAvatar: an id is generated, the object built and
\* sent.  It becomes an entity when the service answers.
Create(h, i, t, p) ==
    /\ InSpace
    /\ mem[h] = "unused"
    /\ i \notin issued
    /\ p \in {id[e] : e \in Entities} \cup {NoParent}
    /\ t = "Avatar" => p = NoParent
    /\ mem' = [mem EXCEPT ![h] = "made"]
    /\ id' = [id EXCEPT ![h] = i]
    /\ type' = [type EXCEPT ![h] = t]
    /\ parentId' = [parentId EXCEPT ![h] = p]
    /\ issued' = issued \cup {i}
    /\ \E ok \in BOOLEAN :
        /\ ownAvatars' = IF ok /\ t = "Avatar" THEN ownAvatars \cup {i} ELSE ownAvatars
        /\ world' = IF ok /\ t = "Object"
                    THEN Append(world, [id |-> i, type |-> t, parentId |-> p]) ELSE world
        /\ Send(<<[kind |-> "sent", entity |-> h, ok |-> ok]>>)
    /\ UNCHANGED <<history, parent, children, RootHierarchyEntities, newParentId, lists,
                   queues, flush, fetch>>

CreateEntity(h, i, p) == Create(h, i, "Object", p)
CreateAvatar(h, i) == Create(h, i, "Avatar", NoParent)

DirtyBound(h) == Cardinality({g \in Handles \ {h} : newParentId[g] # Clean}) < MaxDirty

SetParentId(h, p) ==
    /\ InSpace
    /\ Usable(h)
    /\ DirtyBound(h)
    /\ p \in {id[e] : e \in Entities} \ {id[h]}
    /\ newParentId' = [newParentId EXCEPT ![h] = p]
    /\ UNCHANGED <<service, mem, made, hierarchy, lists, queues, flush, fetch>>

RemoveParentEntity(h) ==
    /\ InSpace
    /\ Usable(h)
    /\ DirtyBound(h)
    /\ parentId[h] # NoParent
    /\ newParentId' = [newParentId EXCEPT ![h] = NoParent]
    /\ UNCHANGED <<service, mem, made, hierarchy, lists, queues, flush, fetch>>

HasPendingPatch(h) == newParentId[h] # Clean

QueueEntityUpdate(h) ==
    /\ InSpace
    /\ Usable(h)
    /\ HasPendingPatch(h)
    /\ PendingOutgoingUpdateUniqueSet' = PendingOutgoingUpdateUniqueSet \cup {h}
    /\ UNCHANGED <<service, mem, made, hierarchy, newParentId, lists, PendingAdds,
                   PendingRemoves, PendingIncomingUpdates, flush, fetch>>

\* Variant: the entity stays queued for sending.
RemoveEntityKeepsUpdate(h) ==
    /\ PendingRemoves' = Append(PendingRemoves, h)
    /\ UNCHANGED PendingOutgoingUpdateUniqueSet

RemoveEntity(h) ==
    /\ PendingRemoves' = Append(PendingRemoves, h)
    /\ PendingOutgoingUpdateUniqueSet' = PendingOutgoingUpdateUniqueSet \ {h}

\* The children of h go to the root.
LocalProcessChildUpdates(h) ==
    /\ parentId' = [c \in Handles |-> IF c \in children[h] THEN NoParent ELSE parentId[c]]
    /\ parent' = [c \in Handles |-> IF c \in children[h] THEN Nil ELSE parent[c]]
    /\ children' = [g \in Handles |->
          children[g] \ {c \in children[h] : parent[c] = g}]
    /\ LET root == RootHierarchyEntities \ {h} IN
        \E a \in RootAdditions(root, children[h]) : RootHierarchyEntities' = root \cup a

\* The entity is gone locally at once; the call to the service may fail.
DestroyEntity(h) ==
    /\ InSpace
    /\ Usable(h)
    /\ LocalProcessChildUpdates(h)
    /\ RemoveEntity(h)
    /\ requested' = requested \cup {id[h]}
    /\ \/ /\ world' = Without(Reparented(world, {id[c] : c \in children[h]}, NoParent), id[h])
          /\ ownAvatars' = ownAvatars \ {id[h]}
       \/ UNCHANGED <<world, ownAvatars>>
    /\ UNCHANGED <<issued, destroyed, inbox, mem, made, newParentId, lists, PendingAdds,
                   PendingIncomingUpdates, flush, fetch>>

-----------------------------------------------------------------------------
(* ProcessPendingEntityOperations, under EntitiesLock.                     *)

TickEntities ==
    /\ Idle
    /\ phase' = "adding"
    /\ UNCHANGED <<service, mem, made, hierarchy, newParentId, lists, queues,
                   handled, sending, fetch>>

\* Variant: an entity is added even if its id is known.
AddPendingEntityAlways(h) ==
    /\ Entities' = Entities \cup {h}
    /\ Avatars' = IF type[h] = "Avatar" THEN Avatars \cup {h} ELSE Avatars
    /\ Objects' = IF type[h] = "Object" THEN Objects \cup {h} ELSE Objects

AddPendingEntity(h) ==
    IF \E e \in Entities : id[e] = id[h] THEN UNCHANGED lists
    ELSE /\ Entities' = Entities \cup {h}
         /\ Avatars' = IF type[h] = "Avatar" THEN Avatars \cup {h} ELSE Avatars
         /\ Objects' = IF type[h] = "Object" THEN Objects \cup {h} ELSE Objects

FlushAdd ==
    /\ phase = "adding"
    /\ PendingAdds # <<>>
    /\ LET h == Head(PendingAdds) IN
        IF h \in handled THEN UNCHANGED <<hierarchy, lists, handled>>
        ELSE /\ AddPendingEntity(h)
             /\ ResolveEntityHierarchy(Entities', h, parentId[h])
             /\ handled' = handled \cup {h}
    /\ PendingAdds' = Tail(PendingAdds)
    /\ UNCHANGED <<service, mem, made, newParentId, PendingRemoves, PendingIncomingUpdates,
                   PendingOutgoingUpdateUniqueSet, phase, sending, fetch>>

\* Variant: patches do not wait for the adds.
AddsPending == TRUE

\* Patches are applied when the adds are flushed.
AddsFlushed == PendingAdds = <<>>

Destroys(patch) == patch.destroy

\* ApplyIncomingPatch for a destruction: the entity is queued for removal.
ApplyDestruction(patch) ==
    LET h == FindSpaceEntityById(Entities, patch.id) IN
    /\ IF h = Nil THEN UNCHANGED <<PendingRemoves, PendingOutgoingUpdateUniqueSet>>
       ELSE RemoveEntity(h)
    /\ UNCHANGED hierarchy

\* ApplyIncomingPatch for an update: every patch carries a ParentId.
ApplyUpdate(patch) ==
    LET h == FindSpaceEntityById(Entities, patch.id) IN
    /\ IF h = Nil THEN UNCHANGED hierarchy
       ELSE ResolveEntityHierarchy(Entities, h, patch.parentId)
    /\ UNCHANGED <<PendingRemoves, PendingOutgoingUpdateUniqueSet>>

FlushIncoming ==
    /\ phase = "adding"
    /\ AddsFlushed
    /\ PendingIncomingUpdates # <<>>
    /\ LET patch == Head(PendingIncomingUpdates) IN
        IF Destroys(patch) THEN ApplyDestruction(patch) ELSE ApplyUpdate(patch)
    /\ PendingIncomingUpdates' = Tail(PendingIncomingUpdates)
    /\ UNCHANGED <<service, mem, made, newParentId, lists, PendingAdds, flush, fetch>>

PatchParentId(h) == IF newParentId[h] = Clean THEN parentId[h] ELSE newParentId[h]

\* The queued entities whose patch rate allows it leave the queue: a patch is
\* sent for those in sent, those in refused are locked or may not be owned.
SendPatches ==
    /\ phase = "adding"
    /\ PendingAdds = <<>>
    /\ PendingIncomingUpdates = <<>>
    /\ \E sent \in SUBSET PendingOutgoingUpdateUniqueSet :
       \E refused \in SUBSET (PendingOutgoingUpdateUniqueSet \ sent) :
        /\ PendingOutgoingUpdateUniqueSet' =
              PendingOutgoingUpdateUniqueSet \ (sent \cup refused)
        /\ sending' = sent
        /\ \/ UNCHANGED world      \* the call to the service fails
           \/ world' = [n \in DOMAIN world |->
                 IF \E h \in sent : id[h] = world[n].id
                 THEN [world[n] EXCEPT !.parentId =
                         PatchParentId(CHOOSE h \in sent : id[h] = world[n].id)]
                 ELSE world[n]]
    /\ phase' = "sent"
    /\ handled' = {}
    /\ UNCHANGED <<ownAvatars, issued, history, inbox, mem, made, hierarchy, newParentId,
                   lists, PendingAdds, PendingRemoves, PendingIncomingUpdates, fetch>>

ApplyLocalPatch(h) ==
    /\ phase = "sent"
    /\ h \in sending
    /\ IF newParentId[h] = Clean THEN UNCHANGED hierarchy
       ELSE ResolveEntityHierarchy(Entities, h, newParentId[h])
    /\ newParentId' = [newParentId EXCEPT ![h] = Clean]
    /\ sending' = sending \ {h}
    /\ UNCHANGED <<service, mem, made, lists, queues, phase, handled, fetch>>

\* h leaves its parent; its children are resolved again while h is still in
\* Entities; then h is deleted, and what its fields held is gone.
RemovePendingEntity(h) ==
    LET found(c) == FindParent(Entities, parentId[c])
        orphans == children[h] \ {h}
        root == RootHierarchyEntities \ {h}
    IN
    /\ newParentId' = [c \in Handles |->
          IF c = h THEN Clean
          ELSE IF c \in orphans /\ parentId[c] # NoParent THEN NoParent ELSE newParentId[c]]
    /\ parentId' = [parentId EXCEPT ![h] = NoParent]
    /\ parent' = [c \in Handles |->
          IF c = h THEN Nil ELSE IF c \in orphans THEN found(c) ELSE parent[c]]
    /\ children' = [g \in Handles |->
          IF g = h THEN {}
          ELSE (children[g] \ (IF g = parent[h] THEN {h} ELSE {}))
               \cup {c \in orphans : found(c) = g}]
    /\ \E a \in RootAdditions(root, {c \in orphans : parentId[c] = NoParent}) :
          RootHierarchyEntities' =
              {r \in root \cup a :
                  \A c \in orphans : parentId[c] # NoParent => id[c] # id[r]}
    /\ Entities' = Entities \ {h}
    /\ Avatars' = IF type[h] = "Avatar" THEN Avatars \ {h} ELSE Avatars
    /\ Objects' = IF type[h] = "Object" THEN Objects \ {h} ELSE Objects
    /\ mem' = [mem EXCEPT ![h] = "freed"]

FlushRemove ==
    /\ phase = "sent"
    /\ sending = {}
    /\ PendingRemoves # <<>>
    /\ LET h == Head(PendingRemoves) IN
        IF h \in handled THEN UNCHANGED <<mem, hierarchy, newParentId, lists, handled>>
        ELSE /\ RemovePendingEntity(h)
             /\ handled' = handled \cup {h}
    /\ PendingRemoves' = Tail(PendingRemoves)
    /\ UNCHANGED <<service, made, PendingAdds, PendingIncomingUpdates,
                   PendingOutgoingUpdateUniqueSet, phase, sending, fetch>>

FlushEnds ==
    /\ phase = "sent"
    /\ sending = {}
    /\ PendingRemoves = <<>>
    /\ phase' = "idle"
    /\ handled' = {}
    /\ UNCHANGED <<service, mem, made, hierarchy, newParentId, lists, queues, sending, fetch>>

-----------------------------------------------------------------------------
Service ==
    \/ \E i \in Ids, t \in Types, p \in ParentIds : RemoteCreate(i, t, p)
    \/ \E i \in Ids, p \in ParentIds : RemoteReparent(i, p)
    \/ \E i \in Ids : RemoteDestroy(i)

Network ==
    \/ \E h \in Handles : OnObjectMessage(h) \/ RetrievedEntity(h)
    \/ OnObjectPatch
    \/ RetrievedPage
    \/ ObjectSent

Application ==
    \/ FetchAllEntitiesAndPopulateBuffers
    \/ \E h \in Handles, i \in Ids, p \in ParentIds : CreateEntity(h, i, p)
    \/ \E h \in Handles, i \in Ids : CreateAvatar(h, i)
    \/ \E h \in Handles, p \in ParentIds : SetParentId(h, p)
    \/ \E h \in Handles : RemoveParentEntity(h)
    \/ \E h \in Handles : QueueEntityUpdate(h)
    \/ \E h \in Handles : DestroyEntity(h)

Flush ==
    \/ TickEntities
    \/ FlushAdd
    \/ FlushIncoming
    \/ SendPatches
    \/ \E h \in Handles : ApplyLocalPatch(h)
    \/ FlushRemove
    \/ FlushEnds

Next == Service \/ Network \/ Application \/ Flush

Spec == Init /\ [][Next]_vars

\* The application ticks the engine for ever and every tick ends; a message
\* that arrived gets EntitiesLock in the end although ticks take it too.
FairSpec == Spec /\ WF_vars(Flush) /\ SF_vars(Network)
-----------------------------------------------------------------------------
(* Properties.                                                             *)

\* The three lists agree, hold live objects only, and no two entities share
\* an id, although entities enter the lists on four roads: a message, a page,
\* and the answers to CreateEntity and CreateAvatar.
EntityListsAgree ==
    /\ \A g, h \in Entities : id[g] = id[h] => g = h
    /\ \A h \in Entities : mem[h] = "live"
    /\ Avatars = {h \in Entities : type[h] = "Avatar"}
    /\ Objects = {h \in Entities : type[h] = "Object"}

\* Parent and ChildEntities of live entities are two views of one relation,
\* whatever messages, calls and removals ResolveEntityHierarchy ran for.
ParentChildAgree ==
    \A p, c \in Handles :
        mem[p] = "live" => (c \in children[p] <=> mem[c] # "freed" /\ parent[c] = p)

\* GetRootHierarchyEntities lists live entities without a ParentId, one per
\* id, even though its entries are found by id and removed by pointer.
RootListIsSound ==
    /\ \A r \in RootHierarchyEntities : mem[r] = "live" /\ parentId[r] = NoParent
    /\ \A r, s \in RootHierarchyEntities : id[r] = id[s] => r = s

\* The pointers queued for sending outlive the removals of every flush, the
\* rate limit that keeps them queued notwithstanding.
QueuedUpdatesAreLive ==
    /\ PendingOutgoingUpdateUniqueSet \cup sending \subseteq {h \in Handles : mem[h] = "live"}
    /\ phase # "sent" => Elements(PendingRemoves) \subseteq {h \in Handles : mem[h] = "live"}

Settled ==
    /\ phase = "idle"
    /\ inbox = <<>>
    /\ PendingAdds = <<>> /\ PendingRemoves = <<>> /\ PendingIncomingUpdates = <<>>

\* An entity another client destroyed does not survive at this client once it
\* has handled everything: the flush adds before it applies destructions, so
\* a destruction that arrives with its creation is not lost.
DestructionsAreNotLost ==
    Settled => \A h \in Entities : id[h] \notin destroyed

\* An object is deleted only when the service has no entity of that id, or
\* when this client asked for its destruction.
OnlyDestroyedEntitiesAreFreed ==
    [][\A h \in Handles :
          mem[h] = "live" /\ mem'[h] = "freed" =>
              id[h] \notin WorldIds \/ id[h] \in requested]_vars

\* The engine implements the abstract store: whatever queue, page, answer or
\* tick an entity passes through, it is shown once per id, and its object is
\* deleted only when it was given up, leaving the lists in the same step.
Store == INSTANCE EntityStore
            WITH life <- mem, key <- id, shown <- Entities, wanted <- WorldIds \ requested

ImplementsEntityStore == Store!Spec

\* An entity another client destroyed is removed here in the end, however
\* ticks, the fetch and further messages interleave with the destruction.
DestructionsAreApplied ==
    \A i \in Ids : i \in destroyed ~> \A h \in Entities : id[h] # i

-----------------------------------------------------------------------------
(* The inductive invariant.                                                *)

IsLive(h) == mem[h] = "live"

\* The ids a message introduces.
Mentions(message) ==
    IF message.kind = "object" THEN {message.object.id}
    ELSE IF message.kind = "page" THEN {r.id : r \in Elements(message.items)}
    ELSE {}

ListsInv ==
    /\ \A h \in Entities : IsLive(h)
    /\ Avatars = {h \in Entities : type[h] = "Avatar"}
    /\ Objects = {h \in Entities : type[h] = "Object"}
    /\ \A h \in Elements(PendingAdds) : IsLive(h)

UniqueInv == \A g, h \in Entities : id[g] = id[h] => g = h

PointersInv ==
    /\ \A p, c \in Handles :
          mem[p] # "freed" => (c \in children[p] <=> mem[c] # "freed" /\ parent[c] = p)
    /\ \A h \in Handles : mem[h] \in {"unused", "made"} => children[h] = {} /\ parent[h] = Nil

QueuesInv ==
    /\ \A h \in PendingOutgoingUpdateUniqueSet \cup sending : IsLive(h)
    /\ \A h \in Elements(PendingRemoves) :
          /\ h \notin PendingOutgoingUpdateUniqueSet
          /\ IsLive(h) \/ (phase = "sent" /\ h \in handled)
    /\ phase = "sent" => PendingAdds = <<>>

\* Ids are given out once.
IssuedInv ==
    /\ \A h \in Handles : mem[h] # "unused" => id[h] \in issued
    /\ WorldIds \subseteq issued
    /\ \A n \in DOMAIN inbox : Mentions(inbox[n]) \subseteq issued
    /\ UniqueIds(world)

\* Until the service has answered a creation, no other object has the id, and
\* no message that arrives before the answer introduces it.
AnswersInv ==
    \A n \in DOMAIN inbox : \A h \in Handles :
        inbox[n].kind = "sent" /\ inbox[n].entity = h =>
            /\ mem[h] = "made"
            /\ \A g \in Handles \ {h} : mem[g] # "unused" => id[g] # id[h]
            /\ \A m \in DOMAIN inbox : m < n =>
                  /\ id[h] \notin Mentions(inbox[m])
                  /\ inbox[m].kind = "sent" => inbox[m].entity # h

\* What is to be destroyed is no longer known to the service.
DestroyInv ==
    /\ \A n \in DOMAIN inbox :
          inbox[n].kind = "patch" /\ inbox[n].patch.destroy =>
              inbox[n].patch.id \in issued \ WorldIds
    /\ \A n \in DOMAIN PendingIncomingUpdates :
          PendingIncomingUpdates[n].destroy =>
              PendingIncomingUpdates[n].id \in issued \ WorldIds
    /\ \A h \in Elements(PendingRemoves) : id[h] \in (issued \ WorldIds) \cup requested

StoreInv ==
    /\ TypeOK
    /\ ListsInv
    /\ UniqueInv
    /\ PointersInv
    /\ RootListIsSound
    /\ QueuesInv
    /\ IssuedInv
    /\ AnswersInv
    /\ DestroyInv

-----------------------------------------------------------------------------
(* Claims the code does not keep.                                          *)

\* SpaceEntity.h calls Parent a "non-owning pointer to the parent of this
\* entity" that "may be null": it is null or the parent is alive.
ParentPointersAreLive ==
    \A h \in Entities : parent[h] # Nil => mem[parent[h]] # "freed"
=============================================================================
