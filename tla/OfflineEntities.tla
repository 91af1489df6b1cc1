-------------------------- MODULE OfflineEntities --------------------------
(***************************************************************************)
(* OfflineRealtimeEngine: the entities of a space that is not shared.      *)
(* Every call takes effect before it returns.  What interleaves is the     *)
(* application with itself: the engine's lock is recursive, and the update *)
(* and destroy callbacks that DestroyEntity runs half way may call the     *)
(* engine again.                                                           *)
(*                                                                         *)
(* A handle is the address of a SpaceEntity, and is not used again once    *)
(* the entity is deleted.  Lists are sets: which of two entities of one id *)
(* FindSpaceEntityById finds first, and the order in which the children of *)
(* a destroyed entity are visited, are left open.                          *)
(***************************************************************************)
EXTENDS Naturals, Sequences

CONSTANTS
    Handles,        \* addresses of SpaceEntity objects
    None,           \* nullptr, an empty Optional
    Scenes,         \* scene descriptions: functions from the handles their
                    \*   objects will have to [id, type, parentId]
    FirstId,        \* NextId's static counter when the engine is made
    MaxNesting      \* bound on destructions inside one another's callbacks

Types == {"Avatar", "Object"}

ASSUME NoneAssumption == None \notin Handles /\ None \notin Nat

ASSUME ScenesAssumption ==
    \A s \in Scenes :
        /\ DOMAIN s \subseteq Handles
        /\ \A h \in DOMAIN s :
             /\ s[h] \in [id : Nat, type : Types, parentId : Nat \cup {None}]
             /\ s[h].parentId # s[h].id

ASSUME FirstIdAssumption == FirstId \in Nat

VARIABLES
    scene,          \* the scene description the engine is made from
    built,          \* the constructor has run
    counter,        \* NextId's counter
    life,           \* life[h]: unused, live or freed
    id, type, parentId, parent, children, selected,    \* fields of SpaceEntity
    Entities, Avatars, Objects, SelectedEntities, RootHierarchyEntities,
    destroying,     \* the calls of DestroyEntity under way, the innermost last
    callback        \* the application runs: between calls, or in a callback

fields == <<id, type, parentId, parent, children, selected>>
lists == <<Entities, Avatars, Objects, SelectedEntities, RootHierarchyEntities>>
vars == <<scene, built, counter, life, fields, lists, destroying, callback>>

TypeOK ==
    /\ scene \in Scenes
    /\ built \in BOOLEAN
    /\ counter \in Nat
    /\ life \in [Handles -> {"unused", "live", "freed"}]
    /\ id \in [Handles -> Nat]
    /\ type \in [Handles -> Types]
    /\ parentId \in [Handles -> Nat \cup {None}]
    /\ parent \in [Handles -> Handles \cup {None}]
    /\ children \in [Handles -> SUBSET Handles]
    /\ selected \in [Handles -> BOOLEAN]
    /\ Entities \subseteq Handles
    /\ Avatars \subseteq Handles
    /\ Objects \subseteq Handles
    /\ SelectedEntities \subseteq Handles
    /\ RootHierarchyEntities \subseteq Handles
    /\ destroying \in Seq([entity : Handles, todo : SUBSET Handles, told : BOOLEAN])
    /\ callback \in BOOLEAN

Init ==
    /\ scene \in Scenes
    /\ built = FALSE
    /\ counter = FirstId
    /\ life = [h \in Handles |-> "unused"]
    /\ id = [h \in Handles |-> 0]
    /\ type = [h \in Handles |-> "Object"]
    /\ parentId = [h \in Handles |-> None]
    /\ parent = [h \in Handles |-> None]
    /\ children = [h \in Handles |-> {}]
    /\ selected = [h \in Handles |-> FALSE]
    /\ Entities = {}
    /\ Avatars = {}
    /\ Objects = {}
    /\ SelectedEntities = {}
    /\ RootHierarchyEntities = {}
    /\ destroying = <<>>
    /\ callback = TRUE

----------------------------------------------------------------------------
(***************************************************************************)
(* The hierarchy.                                                          *)
(***************************************************************************)

\* What FindSpaceEntityById may return.
FindSpaceEntityById(i) ==
    LET found == {g \in Entities : id[g] = i}
    IN  IF found = {} THEN {None} ELSE found

\* Mutant: an entity that has a parent again stays in the root list.
RootStays(h, i, pid) ==
    IF pid = None /\ \A g \in RootHierarchyEntities : id[g] # i
    THEN RootHierarchyEntities \cup {h}
    ELSE RootHierarchyEntities

\* The root list after ResolveEntityHierarchy of h, of id i: entities are
\* recognised by their ids.
RootAfter(h, i, pid) ==
    IF pid # None
    THEN {g \in RootHierarchyEntities : id[g] # i}
    ELSE IF \E g \in RootHierarchyEntities : id[g] = i
         THEN RootHierarchyEntities
         ELSE RootHierarchyEntities \cup {h}

\* Mutant: the entity is not taken out of its old parent's children.
ChildrenAfterKept(h, p) ==
    [g \in Handles |-> IF g = p THEN children[g] \cup {h} ELSE children[g]]

\* ChildEntities of all entities after h was given the parent p.
ChildrenAfter(h, p) ==
    [g \in Handles |->
        IF g = p THEN children[g] \cup {h} ELSE children[g] \ {h}]

\* ResolveEntityHierarchy and ResolveParentChildRelationship of h, whose id is
\* i and whose ParentId has become pid.
ResolveEntityHierarchy(h, i, pid) ==
    /\ RootHierarchyEntities' = RootAfter(h, i, pid)
    /\ \E p \in FindSpaceEntityById(pid) :
         /\ parent' = [parent EXCEPT ![h] = p]
         /\ children' = ChildrenAfter(h, p)

----------------------------------------------------------------------------
(***************************************************************************)
(* Construction.                                                           *)
(***************************************************************************)

\* AddEntity drops an object whose id is already there.
Added ==
    {E \in SUBSET DOMAIN scene :
        /\ \A g, h \in E : scene[g].id = scene[h].id => g = h
        /\ \A g \in DOMAIN scene : \E h \in E : scene[h].id = scene[g].id}

\* The parent of h among the entities E; every id is there once.
SceneParent(E, h) ==
    IF \E g \in E : scene[g].id = scene[h].parentId
    THEN CHOOSE g \in E : scene[g].id = scene[h].parentId
    ELSE None

\* Mutant: the constructor resolves each entity as it adds it, so that the
\* parents of the children that precede them are not found.
ConstructEagerly ==
    /\ ~built
    /\ built' = TRUE
    /\ \E E \in Added :
         /\ Entities' = E
         /\ Avatars' = {h \in E : scene[h].type = "Avatar"}
         /\ Objects' = {h \in E : scene[h].type = "Object"}
         /\ RootHierarchyEntities' = {h \in E : scene[h].parentId = None}
    /\ life' = [h \in Handles |-> IF h \in DOMAIN scene THEN "live" ELSE "unused"]
    /\ id' = [h \in Handles |-> IF h \in DOMAIN scene THEN scene[h].id ELSE id[h]]
    /\ type' = [h \in Handles |-> IF h \in DOMAIN scene THEN scene[h].type ELSE type[h]]
    /\ parentId' = [h \in Handles |-> IF h \in DOMAIN scene THEN scene[h].parentId ELSE None]
    /\ UNCHANGED <<scene, counter, parent, children, selected, SelectedEntities, destroying, callback>>

\* The constructor: the objects of the scene are made and added, and then
\* resolved, when all of them are there.
Construct ==
    /\ ~built
    /\ built' = TRUE
    /\ \E E \in Added :
         /\ Entities' = E
         /\ Avatars' = {h \in E : scene[h].type = "Avatar"}
         /\ Objects' = {h \in E : scene[h].type = "Object"}
         /\ RootHierarchyEntities' = {h \in E : scene[h].parentId = None}
         /\ parent' = [h \in Handles |-> IF h \in E THEN SceneParent(E, h) ELSE None]
         /\ children' = [g \in Handles |-> {h \in E : g = SceneParent(E, h)}]
    /\ life' = [h \in Handles |-> IF h \in DOMAIN scene THEN "live" ELSE "unused"]
    /\ id' = [h \in Handles |-> IF h \in DOMAIN scene THEN scene[h].id ELSE id[h]]
    /\ type' = [h \in Handles |-> IF h \in DOMAIN scene THEN scene[h].type ELSE type[h]]
    /\ parentId' = [h \in Handles |-> IF h \in DOMAIN scene THEN scene[h].parentId ELSE None]
    /\ UNCHANGED <<scene, counter, selected, SelectedEntities, destroying, callback>>

----------------------------------------------------------------------------
(***************************************************************************)
(* Calls of the application.                                               *)
(***************************************************************************)
AppRuns == built /\ callback

Dying == {destroying[n].entity : n \in DOMAIN destroying}

\* The ids the application has seen and may still name, those of deleted
\* entities included.  It attaches nothing to an entity it is destroying.
NamedIds == {id[g] : g \in {h \in Handles : life[h] # "unused"}} \ {id[g] : g \in Dying}

\* NextId, and a new object of type t.
NewEntity(h, t, pid) ==
    /\ life[h] = "unused"
    /\ life' = [life EXCEPT ![h] = "live"]
    /\ id' = [id EXCEPT ![h] = counter]
    /\ counter' = counter + 1
    /\ type' = [type EXCEPT ![h] = t]
    /\ parentId' = [parentId EXCEPT ![h] = pid]
    /\ Entities' = Entities \cup {h}

\* A new avatar does not enter the root list.
CreateAvatar(h) ==
    /\ AppRuns
    /\ NewEntity(h, "Avatar", None)
    /\ Avatars' = Avatars \cup {h}
    /\ UNCHANGED <<scene, built, parent, children, selected, Objects, SelectedEntities,
                   RootHierarchyEntities, destroying, callback>>

\* The hierarchy is resolved before the entity is in Entities.
CreateEntity(h, pid) ==
    /\ AppRuns
    /\ pid \in NamedIds \cup {None}
    /\ NewEntity(h, "Object", pid)
    /\ ResolveEntityHierarchy(h, counter, pid)
    /\ Objects' = Objects \cup {h}
    /\ UNCHANGED <<scene, built, selected, Avatars, SelectedEntities, destroying, callback>>

SetParentId(h, i) ==
    /\ AppRuns
    /\ h \in Entities \ Dying
    /\ i \in NamedIds \ {id[h]}
    /\ parentId' = [parentId EXCEPT ![h] = i]
    /\ ResolveEntityHierarchy(h, id[h], i)
    /\ UNCHANGED <<scene, built, counter, life, id, type, selected, Entities, Avatars,
                   Objects, SelectedEntities, destroying, callback>>

RemoveParentEntity(h) ==
    /\ AppRuns
    /\ h \in Entities \ Dying
    /\ parentId[h] # None
    /\ parentId' = [parentId EXCEPT ![h] = None]
    /\ ResolveEntityHierarchy(h, id[h], None)
    /\ UNCHANGED <<scene, built, counter, life, id, type, selected, Entities, Avatars,
                   Objects, SelectedEntities, destroying, callback>>

\* Select and Deselect.
Select(h) ==
    /\ AppRuns
    /\ h \in Entities
    /\ ~selected[h]
    /\ h \notin SelectedEntities
    /\ SelectedEntities' = SelectedEntities \cup {h}
    /\ selected' = [selected EXCEPT ![h] = TRUE]
    /\ UNCHANGED <<scene, built, counter, life, id, type, parentId, parent, children,
                   Entities, Avatars, Objects, RootHierarchyEntities, destroying, callback>>

Deselect(h) ==
    /\ AppRuns
    /\ h \in Entities
    /\ selected[h]
    /\ h \in SelectedEntities
    /\ SelectedEntities' = SelectedEntities \ {h}
    /\ selected' = [selected EXCEPT ![h] = FALSE]
    /\ UNCHANGED <<scene, built, counter, life, id, type, parentId, parent, children,
                   Entities, Avatars, Objects, RootHierarchyEntities, destroying, callback>>

----------------------------------------------------------------------------
(***************************************************************************)
(* DestroyEntity.                                                          *)
(***************************************************************************)
Top == destroying[Len(destroying)]

\* What an application may destroy from inside a callback of a destruction:
\* nothing that is being destroyed, that is the parent of what is, or that a
\* destruction under way has yet to visit.  The code checks none of this.
MayDestroy(h) ==
    \A x \in Dying :
        /\ h # x
        /\ h # parent[x]
        /\ \A n \in DOMAIN destroying : h \notin destroying[n].todo

\* DestroyEntity up to the loop over a copy of the children.  An entity that
\* is not in the lists is refused without a change.
DestroyEntity(h) ==
    /\ AppRuns
    /\ Len(destroying) < MaxNesting
    /\ h \in Entities
    /\ MayDestroy(h)
    /\ RootHierarchyEntities' = RootHierarchyEntities \ {h}
    /\ destroying' = Append(destroying, [entity |-> h, todo |-> children[h], told |-> FALSE])
    /\ callback' = FALSE
    /\ UNCHANGED <<scene, built, counter, life, fields, Entities, Avatars, Objects,
                   SelectedEntities>>

\* LocalProcessChildUpdates: one child loses its parent and its update callback
\* runs.
UpdateChild(c) ==
    /\ destroying # <<>>
    /\ c \in Top.todo
    /\ parentId' = [parentId EXCEPT ![c] = None]
    /\ ResolveEntityHierarchy(c, id[c], None)
    /\ destroying' = [destroying EXCEPT ![Len(destroying)].todo = @ \ {c}]
    /\ callback' = TRUE
    /\ UNCHANGED <<scene, built, counter, life, id, type, selected, Entities, Avatars,
                   Objects, SelectedEntities>>

\* Mutant: the application is told before the children are moved.
TellFirst ==
    /\ destroying # <<>>
    /\ ~Top.told
    /\ destroying' = [destroying EXCEPT ![Len(destroying)].told = TRUE]
    /\ callback' = TRUE
    /\ UNCHANGED <<scene, built, counter, life, fields, lists>>

\* The entity's destroy callback runs.
TellDestroyed ==
    /\ destroying # <<>>
    /\ Top.todo = {}
    /\ ~Top.told
    /\ destroying' = [destroying EXCEPT ![Len(destroying)].told = TRUE]
    /\ callback' = TRUE
    /\ UNCHANGED <<scene, built, counter, life, fields, lists>>

\* The rest of DestroyEntity.  RemoveParentChildRelationshipsFromEntity finds
\* no child left: see ChildrenMoveFirst.
RemoveDestroyed ==
    /\ destroying # <<>>
    /\ Top.told
    /\ LET x == Top.entity IN
         /\ life' = [life EXCEPT ![x] = "freed"]
         /\ Entities' = Entities \ {x}
         /\ Avatars' = Avatars \ {x}
         /\ Objects' = Objects \ {x}
         /\ parent' = [parent EXCEPT ![x] = None]
         /\ children' = [g \in Handles |-> IF g = parent[x] THEN children[g] \ {x} ELSE children[g]]
    /\ destroying' = SubSeq(destroying, 1, Len(destroying) - 1)
    /\ callback' = TRUE
    /\ UNCHANGED <<scene, built, counter, id, type, parentId, selected, SelectedEntities,
                   RootHierarchyEntities>>

Next ==
    \/ Construct
    \/ \E h \in Handles :
         \/ CreateAvatar(h)
         \/ \E pid \in NamedIds \cup {None} : CreateEntity(h, pid)
         \/ \E i \in NamedIds : SetParentId(h, i)
         \/ RemoveParentEntity(h)
         \/ Select(h) \/ Deselect(h)
         \/ DestroyEntity(h)
         \/ UpdateChild(h)
    \/ TellDestroyed
    \/ RemoveDestroyed

Spec == Init /\ [][Next]_vars

----------------------------------------------------------------------------
(***************************************************************************)
(* Properties.                                                             *)
(***************************************************************************)

\* The lists hold live entities, by type, and Parent and ChildEntities agree,
\* whatever the application does from callbacks of a destruction: a parent is
\* an entity in the lists and has the id its child names, so no pointer
\* outlives its entity.
HierarchyAgrees ==
    /\ Entities \subseteq {h \in Handles : life[h] = "live"}
    /\ Avatars = {h \in Entities : type[h] = "Avatar"}
    /\ Objects = {h \in Entities : type[h] = "Object"}
    /\ \A g, h \in Handles : parent[h] = g <=> h \in children[g]
    /\ \A h \in Handles : parent[h] # None =>
         /\ h \in Entities /\ parent[h] \in Entities
         /\ id[parent[h]] = parentId[h]

\* The root list holds entities of the lists that have no parent, none of
\* which is being deleted.
RootListIsSound ==
    \A h \in RootHierarchyEntities :
        h \in Entities /\ h \notin Dying /\ parentId[h] = None /\ parent[h] = None

\* When the destroy callback of an entity runs its children have been moved,
\* the order that OfflineRealtimeEngine.cpp says tests rely on.
ChildrenMoveFirst ==
    \A n \in DOMAIN destroying : destroying[n].told => children[destroying[n].entity] = {}

\* The ids in the scene were given out before: the counter has passed them.
SceneIsOld ==
    \A h \in DOMAIN scene :
        scene[h].id < FirstId /\ (scene[h].parentId # None => scene[h].parentId < FirstId)

\* In such a space every entity has an id of its own, an object that names no
\* parent is in the root list, and whoever names a parent that exists is
\* attached to it.
NobodyIsUnreachable ==
    SceneIsOld =>
        /\ \A g, h \in Entities : id[g] = id[h] => g = h
        /\ \A h \in Objects \ Dying : parentId[h] = None => h \in RootHierarchyEntities
        /\ \A h \in Entities : \A g \in Entities : parentId[h] = id[g] => parent[h] = g
=============================================================================
