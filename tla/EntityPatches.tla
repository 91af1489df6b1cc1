--------------------------- MODULE EntityPatches ---------------------------
(***************************************************************************)
(* The replication of one entity between the clients of a space: the       *)
(* components and the lock each client's SpaceEntity holds, the changes    *)
(* its SpaceEntityStatePatcher collects, and the patches that carry them.  *)
(*                                                                         *)
(* A change of a component's property is made at once and marked as dirty; *)
(* an added or removed component and a change of the lock are only         *)
(* recorded by the patcher.  QueueUpdate asks for a patch, the next flush  *)
(* sends it and applies it locally, whether or not the call succeeds.      *)
(*                                                                         *)
(* A component is its type and the value of one property that stands for   *)
(* all of them.  The entity is transferable, so any client may modify it   *)
(* unless it is locked; self messaging is off.  RealtimeEntities models    *)
(* the queues between the network and a patch; here a patch is received    *)
(* when the flush applies it.                                              *)
(***************************************************************************)
EXTENDS Naturals, Sequences, FiniteSets

CONSTANTS
    Clients,        \* clients that hold the entity
    Types,          \* component types a client may add
    ScriptData,     \* ComponentType::ScriptData
    Deleted,        \* ComponentType::Delete
    Values,         \* values of a component's property
    DefaultValue,   \* the value a new component is instantiated with
    None,           \* no such component, property or change
    Shared,         \* a dirty component that is the object in Components
    End,            \* COMPONENT_KEY_END_COMPONENTS
    MaxId,          \* bound: no id after this one is generated
    MaxChanges,     \* bound on the changes the applications make
    MaxInbox,       \* bound on the patches in flight to a client
    CallsFail       \* whether calls of the service may fail

ASSUME TypesAssumption == Deleted \notin Types \cup {None}
ASSUME ValuesAssumption == DefaultValue \in Values /\ None \notin Values
ASSUME EndAssumption == End \in Nat \ {0} /\ MaxId \in 0 .. End
ASSUME BoundsAssumption == MaxChanges \in Nat /\ MaxInbox \in Nat \ {0}
ASSUME CallsFailAssumption == CallsFail \in BOOLEAN

Keys == 0 .. MaxId

Components == [type : Types, value : Values \cup {None}]
Optional(S) == S \cup {None}

LockTypes == {"None", "UserAgnostic"}
Clean == "clean"        \* LockType is not a dirty property

DirtyComponents == [update : {"Add"}, object : Components] \cup
                   [update : {"Update"}, object : Components \cup {Shared}]

\* An item of a patch is a component, or the blank one that marks a deletion.
Items == Components \cup {[type |-> Deleted, value |-> None]}

ASSUME SentinelAssumption ==
    /\ None \notin Items /\ None \notin DirtyComponents
    /\ Shared \notin Components /\ Shared # None

Patches == [components : [Keys -> Optional(Items)], lock : LockTypes \cup {Clean}]

VARIABLES
    components,     \* components[c][k]: Components
    lock,           \* lock[c]: EntityLock
    nextId,         \* nextId[c]: NextComponentId
    dirty,          \* dirty[c][k]: DirtyComponents
    dirtyLock,      \* dirtyLock[c]: DirtyProperties[LockType]
    deletions,      \* deletions[c]: TransientDeletionComponentIds
    queued,         \* queued[c]: the entity is in PendingOutgoingUpdateUniqueSet
    inbox,          \* external: patches in flight to c, oldest first
    changes,        \* the changes made so far, for the bound
    disputed,       \* history: keys two clients changed at a time, or that a
                    \* failed call carried
    lockDisputed    \* history: the same for the lock

entity  == <<components, lock, nextId>>
patcher == <<dirty, dirtyLock, deletions>>
history == <<disputed, lockDisputed>>
vars    == <<entity, patcher, queued, inbox, changes, history>>

TypeOK ==
    /\ components \in [Clients -> [Keys -> Optional(Components)]]
    /\ lock \in [Clients -> LockTypes]
    /\ nextId \in [Clients -> 0 .. MaxId + 1]
    /\ dirty \in [Clients -> [Keys -> Optional(DirtyComponents)]]
    /\ dirtyLock \in [Clients -> LockTypes \cup {Clean}]
    /\ deletions \in [Clients -> Seq(Keys)]
    /\ queued \in [Clients -> BOOLEAN]
    /\ inbox \in [Clients -> Seq(Patches)]
    /\ changes \in 0 .. MaxChanges
    /\ disputed \subseteq Keys
    /\ lockDisputed \in BOOLEAN

Elements(s) == {s[i] : i \in DOMAIN s}

\* The entity was just created and sent to every client.
Init ==
    /\ components = [c \in Clients |-> [k \in Keys |-> None]]
    /\ lock = [c \in Clients |-> "None"]
    /\ nextId = [c \in Clients |-> 0]
    /\ dirty = [c \in Clients |-> [k \in Keys |-> None]]
    /\ dirtyLock = [c \in Clients |-> Clean]
    /\ deletions = [c \in Clients |-> <<>>]
    /\ queued = [c \in Clients |-> FALSE]
    /\ inbox = [c \in Clients |-> <<>>]
    /\ changes = 0
    /\ disputed = {}
    /\ lockDisputed = FALSE

-----------------------------------------------------------------------------
(* What the code reads.                                                     *)

DirtyKeys(c) == {k \in Keys : dirty[c][k] # None}

DirtyObject(c, k) ==
    IF dirty[c][k].object = Shared THEN components[c][k] ELSE dirty[c][k].object

HasPendingPatch(c) ==
    DirtyKeys(c) # {} \/ dirtyLock[c] # Clean \/ deletions[c] # <<>>

\* Mutant: any pending change counts as an unlocking.
IsModifiableIfPending(c) == lock[c] = "None" \/ HasPendingPatch(c)

\* OnlineRealtimeEngine::IsEntityModifiable: a locked entity can be modified
\* only together with its unlocking.
IsModifiable(c) == lock[c] = "None" \/ dirtyLock[c] # Clean

\* FindFirstComponentOfType looks through Components and DirtyComponents; a
\* component whose deletion is pending is still found.
HasComponentOfType(c, t) ==
    \/ \E k \in Keys : components[c][k] # None /\ components[c][k].type = t
    \/ \E k \in DirtyKeys(c) : DirtyObject(c, k).type = t

\* Mutant: only the components not yet sent are looked at.
IsFreeOfDirty(c, k) == dirty[c][k] = None

IsFree(c, k) == components[c][k] = None /\ dirty[c][k] = None

\* GenerateComponentId tries NextComponentId and the ids after it, going on
\* with 0 when the increment reaches End.  NextComponentId itself can be End.
Candidate(c, n) == IF nextId[c] = End THEN End ELSE (nextId[c] + n) % End

IsGeneratedId(c, k) ==
    \E n \in 0 .. End - 1 :
        /\ k = Candidate(c, n) /\ k \in Keys /\ IsFree(c, k)
        /\ \A m \in 0 .. n - 1 : ~ IsFree(c, Candidate(c, m))

\* Another client changed the same thing and this client does not know yet.
Contested(c, k) ==
    \/ \E d \in Clients \ {c} : dirty[d][k] # None \/ k \in Elements(deletions[d])
    \/ \E p \in Elements(inbox[c]) : p.components[k] # None

LockContested(c) ==
    \/ \E d \in Clients \ {c} : dirtyLock[d] # Clean
    \/ \E p \in Elements(inbox[c]) : p.lock # Clean

CountChange == changes < MaxChanges /\ changes' = changes + 1

NoteChange(c, k) ==
    /\ CountChange
    /\ disputed' = disputed \cup {j \in {k} : Contested(c, j)}
    /\ UNCHANGED lockDisputed

-----------------------------------------------------------------------------
(* Changes by the application.                                              *)

\* SetDirtyComponent records nothing when the key is already dirty.
SetDirtyComponent(c, k, entry) ==
    dirty' = [dirty EXCEPT ![c][k] = IF @ = None THEN entry ELSE @]

AddComponent(c, t) ==
    /\ IsModifiable(c)
    /\ t = ScriptData => ~ HasComponentOfType(c, ScriptData)
    /\ nextId[c] <= MaxId
    /\ \E k \in Keys :
        /\ IsGeneratedId(c, k)
        /\ nextId' = [nextId EXCEPT ![c] = k + 1]
        /\ SetDirtyComponent(c, k,
               [update |-> "Add", object |-> [type |-> t, value |-> DefaultValue]])
        /\ NoteChange(c, k)
    /\ UNCHANGED <<components, lock, dirtyLock, deletions, queued, inbox>>

\* The property of the object in Components is changed, and UpdateComponent
\* marks the component.
ChangeProperty(c, k, v) ==
    /\ components[c][k] # None
    /\ components' = [components EXCEPT ![c][k].value = v]
    /\ SetDirtyComponent(c, k, [update |-> "Update", object |-> Shared])
    /\ NoteChange(c, k)
    /\ UNCHANGED <<lock, nextId, dirtyLock, deletions, queued, inbox>>

\* The same for a component that was added and is not in Components yet.
ChangePendingProperty(c, k, v) ==
    /\ dirty[c][k] # None /\ dirty[c][k].update = "Add"
    /\ dirty' = [dirty EXCEPT ![c][k].object.value = v]
    /\ NoteChange(c, k)
    /\ UNCHANGED <<entity, dirtyLock, deletions, queued, inbox>>

SetPropertyDirect(c, k, v) ==
    /\ IsModifiable(c)
    /\ \/ /\ components[c][k] # None => components[c][k].value # v
          /\ ChangeProperty(c, k, v)
       \/ /\ dirty[c][k] # None => DirtyObject(c, k).value # v
          /\ ChangePendingProperty(c, k, v)

\* RemoveProperty does not ask whether the entity can be modified.
RemoveProperty(c, k) == ChangeProperty(c, k, None) \/ ChangePendingProperty(c, k, None)

\* RemoveDirtyComponent.  A key that no component has is accepted too.
RemoveComponent(c, k) ==
    /\ IsModifiable(c)
    /\ k \notin Elements(deletions[c]) \/ components[c][k] # None
    /\ dirty' = [dirty EXCEPT ![c][k] = None]
    /\ deletions' = [deletions EXCEPT ![c] = Append(@, k)]
    /\ NoteChange(c, k)
    /\ UNCHANGED <<entity, dirtyLock, queued, inbox>>

\* SetDirtyProperty: the new lock type differs from EntityLock in both calls.
SetDirtyLock(c, l) ==
    /\ dirtyLock' = [dirtyLock EXCEPT ![c] = l]
    /\ CountChange
    /\ lockDisputed' = (lockDisputed \/ LockContested(c))
    /\ UNCHANGED <<entity, dirty, deletions, queued, inbox, disputed>>

Lock(c) == lock[c] = "None" /\ IsModifiable(c) /\ SetDirtyLock(c, "UserAgnostic")

Unlock(c) == lock[c] # "None" /\ SetDirtyLock(c, "None")

QueueEntityUpdate(c) ==
    /\ HasPendingPatch(c) /\ IsModifiable(c)
    /\ queued' = [queued EXCEPT ![c] = TRUE]
    /\ UNCHANGED <<entity, patcher, inbox, changes, history>>

-----------------------------------------------------------------------------
(* The flush.                                                               *)

\* Mutant: the deletions are written first.
CreateObjectPatchDeletionsFirst(c) ==
    [components |->
        [k \in Keys |-> IF dirty[c][k] # None THEN DirtyObject(c, k)
                        ELSE IF k \in Elements(deletions[c])
                             THEN [type |-> Deleted, value |-> None]
                        ELSE None],
     lock |-> dirtyLock[c]]

\* CreateObjectPatch writes the dirty components, then the deletions.
CreateObjectPatch(c) ==
    [components |->
        [k \in Keys |-> IF k \in Elements(deletions[c]) THEN [type |-> Deleted, value |-> None]
                        ELSE IF dirty[c][k] # None THEN DirtyObject(c, k)
                        ELSE None],
     lock |-> dirtyLock[c]]

\* ApplyLocalPatch adds the components that were to be added, then removes
\* those that were to be removed.
ApplyLocalPatch(c) ==
    /\ components' = [components EXCEPT ![c] =
            [k \in Keys |->
                IF k \in Elements(deletions[c]) THEN None
                ELSE IF dirty[c][k] # None /\ dirty[c][k].update = "Add"
                     THEN dirty[c][k].object
                ELSE components[c][k]]]
    /\ lock' = [lock EXCEPT ![c] = IF dirtyLock[c] = Clean THEN @ ELSE dirtyLock[c]]
    /\ dirty' = [dirty EXCEPT ![c] = [k \in Keys |-> None]]
    /\ dirtyLock' = [dirtyLock EXCEPT ![c] = Clean]
    /\ deletions' = [deletions EXCEPT ![c] = <<>>]

Carried(p) == {k \in Keys : p.components[k] # None}

\* SendPatches: the service forwards the patch to the other clients, or the
\* call fails, which is only logged.
SendPatch(c) ==
    /\ queued[c] /\ IsModifiable(c)
    /\ \A d \in Clients \ {c} : Len(inbox[d]) < MaxInbox
    /\ LET p == CreateObjectPatch(c)
       IN  \/ /\ inbox' = [d \in Clients |-> IF d = c THEN inbox[d] ELSE Append(inbox[d], p)]
              /\ UNCHANGED history
           \/ /\ CallsFail
              /\ disputed' = disputed \cup Carried(p)
              /\ lockDisputed' = (lockDisputed \/ p.lock # Clean)
              /\ UNCHANGED inbox
    /\ ApplyLocalPatch(c)
    /\ queued' = [queued EXCEPT ![c] = FALSE]
    /\ UNCHANGED <<nextId, changes>>

\* An entity that became locked after it was queued is dropped from the queue;
\* its changes stay with the patcher.
SkipPatch(c) ==
    /\ queued[c] /\ ~ IsModifiable(c)
    /\ queued' = [queued EXCEPT ![c] = FALSE]
    /\ UNCHANGED <<entity, patcher, inbox, changes, history>>

\* Mutant: a blank component is made like any other.
PatchedComponentBlank(old, item) ==
    CASE item = None -> old
      [] item # None /\ old = None -> item
      [] item # None /\ old # None ->
            IF item.type # old.type THEN None ELSE item

\* AddComponentFromItemComponentDataPatch.  A component of another type, the
\* blank one included, removes the one that is there; Instantiate refuses to
\* make a blank one.
PatchedComponent(old, item) ==
    CASE item = None -> old
      [] item # None /\ old = None ->
            IF item.type = Deleted THEN None
            ELSE [item EXCEPT !.value = IF @ = None THEN DefaultValue ELSE @]
      [] item # None /\ old # None ->
            IF item.type # old.type THEN None
            ELSE [old EXCEPT !.value = IF item.value = None THEN @ ELSE item.value]

\* A dirty component keeps its object when the patch removes it from Components.
PatchedDirty(entry, old, new) ==
    IF entry # None /\ entry.object = Shared /\ new = None
    THEN [entry EXCEPT !.object = old]
    ELSE entry

\* ApplyPatchFromObjectPatch: the keys from End on belong to entity properties.
ReceivePatch(c) ==
    /\ inbox[c] # <<>>
    /\ LET p == Head(inbox[c])
           new == [k \in Keys |-> IF k < End
                                  THEN PatchedComponent(components[c][k], p.components[k])
                                  ELSE components[c][k]]
       IN  /\ components' = [components EXCEPT ![c] = new]
           /\ dirty' = [dirty EXCEPT ![c] =
                [k \in Keys |-> PatchedDirty(dirty[c][k], components[c][k], new[k])]]
           /\ lock' = [lock EXCEPT ![c] = IF p.lock = Clean THEN @ ELSE p.lock]
    /\ inbox' = [inbox EXCEPT ![c] = Tail(@)]
    /\ UNCHANGED <<nextId, dirtyLock, deletions, queued, changes, history>>

Next ==
    \E c \in Clients :
        \/ \E t \in Types : AddComponent(c, t)
        \/ \E k \in Keys, v \in Values : SetPropertyDirect(c, k, v)
        \/ \E k \in Keys : RemoveProperty(c, k)
        \/ \E k \in Keys : RemoveComponent(c, k)
        \/ Lock(c)
        \/ Unlock(c)
        \/ QueueEntityUpdate(c)
        \/ SendPatch(c)
        \/ SkipPatch(c)
        \/ ReceivePatch(c)

Spec == Init /\ [][Next]_vars

-----------------------------------------------------------------------------
(* Properties.                                                              *)

Settled ==
    \A c \in Clients : ~ HasPendingPatch(c) /\ inbox[c] = <<>>

\* Equal, but for the value of a property one of the clients removed.
Agree(x, y) ==
    \/ x = y
    \/ /\ x # None /\ y # None /\ x.type = y.type
       /\ None \in {x.value, y.value}

\* Once every change has been sent and applied, the clients hold the same
\* component under each key, and the same lock, unless two of them changed it
\* before they knew of each other's change or a call that carried it failed.
\* This is what the patcher's local application and the receiving client's
\* comparison of component types have to add up to.
ReplicasAgree ==
    Settled =>
        \A c, d \in Clients :
            /\ \A k \in Keys \ disputed : Agree(components[c][k], components[d][k])
            /\ ~ lockDisputed => lock[c] = lock[d]

\* A component whose key is not disputed disappears from a client only if that
\* client asked for it or a patch says so: ids generated by different clients
\* do not make a patch hit another component.
OnlyRemovedComponentsVanish ==
    [][\A c \in Clients : \A k \in Keys \ disputed :
        components[c][k] # None /\ components'[c][k] = None =>
            \/ k \in Elements(deletions[c])
            \/ inbox[c] # <<>> /\ Head(inbox[c]).components[k] # None
                              /\ Head(inbox[c]).components[k].type = Deleted]_vars

\* While the entity is locked for everyone and nobody is unlocking it, its
\* components do not change, whatever was dirty or queued before the lock
\* arrived, except that RemoveProperty takes the value away.
LockHolds ==
    [][(\A c \in Clients : lock[c] # "None" /\ dirtyLock[c] = Clean /\ inbox[c] = <<>>)
       => \A c \in Clients : \A k \in Keys :
            components'[c][k] # components[c][k] =>
                components'[c][k] = [components[c][k] EXCEPT !.value = None]]_vars
=============================================================================
