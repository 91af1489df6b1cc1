----------------------- MODULE OfflineEntitiesProofs -----------------------
(***************************************************************************)
(* Proofs about the offline engine, for any handles, scenes and nesting of *)
(* destructions.                                                           *)
(***************************************************************************)
EXTENDS OfflineEntities, SequenceTheorems, TLAPS

(***************************************************************************)
(* The inductive invariant.                                                *)
(***************************************************************************)

\* The entities being destroyed are distinct and in the lists; their children
\* are among those the loop has yet to visit, none of which is being destroyed
\* itself; and a destruction is told when the loop is over.
DestructionInv ==
    /\ \A n \in DOMAIN destroying :
         LET d == destroying[n] IN
         /\ d.entity \in Entities
         /\ d.todo \subseteq Entities \ Dying
         /\ children[d.entity] \subseteq d.todo
         /\ d.told => d.todo = {}
    /\ \A m, n \in DOMAIN destroying :
         destroying[m].entity = destroying[n].entity => m = n
    /\ ~built => destroying = <<>>

\* No entity is its own parent.
NoSelfParent == \A h \in Handles : parent[h] # h

OfflineInv ==
    TypeOK /\ HierarchyAgrees /\ NoSelfParent /\ RootListIsSound /\ DestructionInv

\* In a space whose scene is old, every id that is in use or named is below the
\* counter.
IdsAreOld ==
    /\ FirstId <= counter
    /\ \A h \in Handles : life[h] # "unused" => id[h] < counter
    /\ \A h \in Entities : parentId[h] # None => parentId[h] < counter
    /\ ~built => Entities = {}

ReachInv == OfflineInv /\ NobodyIsUnreachable /\ (SceneIsOld => IdsAreOld)

----------------------------------------------------------------------------
Destruction == [entity : Handles, todo : SUBSET Handles, told : BOOLEAN]

\* What ResolveEntityHierarchy leaves is well formed.
LEMMA ResolveTyped ==
    ASSUME TypeOK, NEW h \in Handles, NEW i \in Nat, NEW pid \in Nat \cup {None},
           ResolveEntityHierarchy(h, i, pid)
    PROVE  /\ parent' \in [Handles -> Handles \cup {None}]
           /\ children' \in [Handles -> SUBSET Handles]
           /\ RootHierarchyEntities' \subseteq Handles
<1>1. PICK p \in FindSpaceEntityById(pid) :
         /\ parent' = [parent EXCEPT ![h] = p]
         /\ children' = ChildrenAfter(h, p)
  BY DEF ResolveEntityHierarchy
<1>2. p \in Handles \cup {None}
  BY DEF FindSpaceEntityById, TypeOK
<1>3. RootHierarchyEntities' \subseteq Handles
  BY DEF ResolveEntityHierarchy, RootAfter, TypeOK
<1>4. parent' \in [Handles -> Handles \cup {None}]
  BY <1>1, <1>2 DEF TypeOK
<1>5. children' \in [Handles -> SUBSET Handles]
  BY <1>1 DEF ChildrenAfter, TypeOK
<1> QED BY <1>3, <1>4, <1>5

\* The innermost destruction and the stack without it are well formed.
LEMMA TopTyped ==
    ASSUME TypeOK, destroying # <<>>
    PROVE  /\ Len(destroying) \in Nat \ {0}
           /\ Len(destroying) \in DOMAIN destroying
           /\ Top \in Destruction
           /\ SubSeq(destroying, 1, Len(destroying) - 1) \in Seq(Destruction)
<1>1. destroying \in Seq(Destruction)
  BY DEF TypeOK, Destruction
<1>2. Len(destroying) \in Nat \ {0} /\ DOMAIN destroying = 1 .. Len(destroying)
  BY <1>1, EmptySeq, LenProperties
<1>3. Top \in Destruction
  BY <1>1, <1>2, ElementOfSeq DEF Top
<1>4. SubSeq(destroying, 1, Len(destroying) - 1) \in Seq(Destruction)
  BY <1>1, <1>2, SubSeqProperties, ElementOfSeq, SMT
<1> QED BY <1>2, <1>3, <1>4

\* The constructor leaves a well-formed engine, whatever the scene.
LEMMA ConstructTyped == TypeOK /\ Construct => TypeOK'
<1> SUFFICES ASSUME TypeOK, Construct PROVE TypeOK'
  OBVIOUS
<1>1. /\ DOMAIN scene \subseteq Handles
      /\ \A h \in DOMAIN scene :
           scene[h] \in [id : Nat, type : Types, parentId : Nat \cup {None}]
  BY ScenesAssumption DEF TypeOK
<1>2. PICK E \in Added :
         /\ Entities' = E
         /\ Avatars' = {h \in E : scene[h].type = "Avatar"}
         /\ Objects' = {h \in E : scene[h].type = "Object"}
         /\ RootHierarchyEntities' = {h \in E : scene[h].parentId = None}
         /\ parent' = [h \in Handles |-> IF h \in E THEN SceneParent(E, h) ELSE None]
         /\ children' = [g \in Handles |-> {h \in E : g = SceneParent(E, h)}]
  BY DEF Construct
<1>3. E \subseteq Handles
  BY <1>1 DEF Added
<1>4. \A h \in E : SceneParent(E, h) \in Handles \cup {None}
  BY <1>3 DEF SceneParent
<1>5. /\ parent' \in [Handles -> Handles \cup {None}]
      /\ children' \in [Handles -> SUBSET Handles]
  BY <1>2, <1>3, <1>4
<1>6. /\ id' \in [Handles -> Nat]
      /\ type' \in [Handles -> Types]
      /\ parentId' \in [Handles -> Nat \cup {None}]
      /\ life' \in [Handles -> {"unused", "live", "freed"}]
  BY <1>1 DEF TypeOK, Construct
<1>7. UNCHANGED <<scene, counter, selected, SelectedEntities, destroying, callback>> /\ built' = TRUE
  BY DEF Construct
<1> QED BY <1>2, <1>3, <1>5, <1>6, <1>7 DEF TypeOK

\* A new entity is well formed.
LEMMA NewTyped ==
    ASSUME TypeOK, NEW h \in Handles, NEW t \in Types, NEW pid \in Nat \cup {None},
           NewEntity(h, t, pid)
    PROVE  /\ life' \in [Handles -> {"unused", "live", "freed"}]
           /\ id' \in [Handles -> Nat]
           /\ counter' \in Nat
           /\ type' \in [Handles -> Types]
           /\ parentId' \in [Handles -> Nat \cup {None}]
           /\ Entities' \subseteq Handles
  BY DEF NewEntity, TypeOK

\* Every step keeps the types.
LEMMA TypedStep == TypeOK /\ [Next]_vars => TypeOK'
<1> SUFFICES ASSUME TypeOK, [Next]_vars PROVE TypeOK'
  OBVIOUS
<1>1. NamedIds \subseteq Nat
  BY DEF NamedIds, TypeOK
<1>2. CASE Construct
  BY <1>2, ConstructTyped
<1>3. ASSUME NEW h \in Handles, CreateAvatar(h) PROVE TypeOK'
  BY <1>3, NewTyped DEF CreateAvatar, TypeOK, Types
<1>4. ASSUME NEW h \in Handles, NEW pid \in NamedIds \cup {None}, CreateEntity(h, pid)
      PROVE  TypeOK'
  <2>1. pid \in Nat \cup {None} /\ counter \in Nat /\ "Object" \in Types
    BY <1>1 DEF TypeOK, Types
  <2>2. NewEntity(h, "Object", pid) /\ ResolveEntityHierarchy(h, counter, pid)
    BY <1>4 DEF CreateEntity
  <2> QED BY <1>4, <2>1, <2>2, NewTyped, ResolveTyped DEF CreateEntity, TypeOK
<1>5. ASSUME NEW h \in Handles, NEW i \in NamedIds, SetParentId(h, i) PROVE TypeOK'
  <2>1. i \in Nat \cup {None} /\ id[h] \in Nat /\ ResolveEntityHierarchy(h, id[h], i)
    BY <1>1, <1>5 DEF TypeOK, SetParentId
  <2> QED BY <1>5, <2>1, ResolveTyped DEF SetParentId, TypeOK
<1>6. ASSUME NEW h \in Handles, RemoveParentEntity(h) PROVE TypeOK'
  <2>1. id[h] \in Nat /\ ResolveEntityHierarchy(h, id[h], None)
    BY <1>6 DEF TypeOK, RemoveParentEntity
  <2> QED BY <1>6, <2>1, ResolveTyped DEF RemoveParentEntity, TypeOK
<1>7. ASSUME NEW h \in Handles, Select(h) \/ Deselect(h) PROVE TypeOK'
  BY <1>7 DEF Select, Deselect, TypeOK
<1>8. ASSUME NEW h \in Handles, DestroyEntity(h) PROVE TypeOK'
  <2>1. [entity |-> h, todo |-> children[h], told |-> FALSE] \in Destruction
    BY DEF Destruction, TypeOK
  <2>2. destroying' \in Seq(Destruction)
    BY <1>8, <2>1, AppendProperties DEF DestroyEntity, TypeOK, Destruction
  <2> QED BY <1>8, <2>2 DEF DestroyEntity, TypeOK, Destruction, fields
<1>9. ASSUME NEW h \in Handles, UpdateChild(h) PROVE TypeOK'
  <2>1. id[h] \in Nat /\ ResolveEntityHierarchy(h, id[h], None)
    BY <1>9 DEF TypeOK, UpdateChild
  <2>2. destroying' = [destroying EXCEPT ![Len(destroying)] = [Top EXCEPT !.todo = Top.todo \ {h}]]
    BY <1>9, TopTyped DEF UpdateChild, Top
  <2>3. [Top EXCEPT !.todo = Top.todo \ {h}] \in Destruction
    BY <1>9, TopTyped DEF Destruction, UpdateChild
  <2>4. destroying' \in Seq(Destruction)
    <3>1. destroying \in Seq(Destruction) /\ Len(destroying) \in 1 .. Len(destroying)
      BY <1>9, TopTyped, LenProperties DEF TypeOK, Destruction, UpdateChild
    <3> QED BY <2>2, <2>3, <3>1, ExceptSeq
  <2> QED BY <1>9, <2>1, <2>4, ResolveTyped DEF UpdateChild, TypeOK, Destruction
<1>10. CASE TellDestroyed
  <2>1. destroying' = [destroying EXCEPT ![Len(destroying)] = [Top EXCEPT !.told = TRUE]]
    BY <1>10, TopTyped DEF TellDestroyed, Top
  <2>2. [Top EXCEPT !.told = TRUE] \in Destruction
    BY <1>10, TopTyped DEF Destruction, TellDestroyed
  <2>3. destroying' \in Seq(Destruction)
    <3>1. destroying \in Seq(Destruction) /\ Len(destroying) \in 1 .. Len(destroying)
      BY <1>10, TopTyped, LenProperties DEF TypeOK, Destruction, TellDestroyed
    <3> QED BY <2>1, <2>2, <3>1, ExceptSeq
  <2> QED BY <1>10, <2>3 DEF TellDestroyed, TypeOK, Destruction, fields, lists
<1>11. CASE RemoveDestroyed
  <2>1. destroying' \in Seq(Destruction)
    BY <1>11, TopTyped DEF RemoveDestroyed
  <2>2. Top.entity \in Handles
    BY <1>11, TopTyped DEF RemoveDestroyed, Destruction
  <2> QED BY <1>11, <2>1, <2>2 DEF RemoveDestroyed, TypeOK, Destruction
<1>12. CASE UNCHANGED vars
  BY <1>12 DEF vars, fields, lists, TypeOK
<1> QED BY <1>2, <1>3, <1>4, <1>5, <1>6, <1>7, <1>8, <1>9, <1>10, <1>11, <1>12 DEF Next

\* No call, callback or scene leaves the engine's types: parents are handles,
\* ids are numbers that may come from anywhere, and the stack of destructions
\* is one.
THEOREM OfflineIsTyped == Spec => []TypeOK
<1>1. Init => TypeOK
  <2> SUFFICES ASSUME Init PROVE TypeOK
    OBVIOUS
  <2>1. destroying \in Seq(Destruction)
    BY EmptySeq DEF Init
  <2>2. type \in [Handles -> Types] /\ counter \in Nat
    BY FirstIdAssumption DEF Init, Types
  <2> QED BY <2>1, <2>2 DEF Init, TypeOK, Destruction
<1> QED BY <1>1, TypedStep, PTL DEF Spec

----------------------------------------------------------------------------
(***************************************************************************)
(* The stack of destructions.                                              *)
(***************************************************************************)

\* DestroyEntity pushes one destruction.
LEMMA Pushed ==
    ASSUME TypeOK, NEW h \in Handles, DestroyEntity(h)
    PROVE  /\ DOMAIN destroying' = DOMAIN destroying \cup {Len(destroying) + 1}
           /\ Len(destroying) + 1 \notin DOMAIN destroying
           /\ \A n \in DOMAIN destroying : destroying'[n] = destroying[n]
           /\ destroying'[Len(destroying) + 1]
                = [entity |-> h, todo |-> children[h], told |-> FALSE]
           /\ Dying' = Dying \cup {h}
<1>1. destroying \in Seq(Destruction)
  BY DEF TypeOK, Destruction
<1>2. [entity |-> h, todo |-> children[h], told |-> FALSE] \in Destruction
  BY DEF Destruction, TypeOK
<1>3. destroying' = Append(destroying, [entity |-> h, todo |-> children[h], told |-> FALSE])
  BY DEF DestroyEntity
<1>4. Len(destroying) \in Nat /\ DOMAIN destroying = 1 .. Len(destroying)
  BY <1>1, LenProperties
<1>5. /\ DOMAIN destroying' = 1 .. Len(destroying) + 1
      /\ \A n \in 1 .. Len(destroying) : destroying'[n] = destroying[n]
      /\ destroying'[Len(destroying) + 1]
           = [entity |-> h, todo |-> children[h], told |-> FALSE]
  BY <1>1, <1>2, <1>3, <1>4, AppendProperties
<1>6. DOMAIN destroying' = DOMAIN destroying \cup {Len(destroying) + 1}
  BY <1>4, <1>5
<1>7. Len(destroying) + 1 \notin DOMAIN destroying
  BY <1>4
<1>8. Dying' = Dying \cup {h}
  BY <1>4, <1>5, <1>6 DEF Dying
<1> QED BY <1>4, <1>5, <1>6, <1>7, <1>8

\* A callback changes the innermost destruction alone, and not its entity.
LEMMA TopChanged ==
    ASSUME TypeOK, destroying # <<>>, NEW e, e.entity = Top.entity,
           destroying' = [destroying EXCEPT ![Len(destroying)] = e]
    PROVE  /\ DOMAIN destroying' = DOMAIN destroying
           /\ \A n \in DOMAIN destroying :
                /\ n # Len(destroying) => destroying'[n] = destroying[n]
                /\ destroying'[n].entity = destroying[n].entity
           /\ destroying'[Len(destroying)] = e
           /\ Dying' = Dying
<1>1. destroying \in Seq(Destruction) /\ Len(destroying) \in DOMAIN destroying
  BY TopTyped DEF TypeOK, Destruction
<1>2. destroying = [n \in DOMAIN destroying |-> destroying[n]]
  BY <1>1
<1>3. /\ DOMAIN destroying' = DOMAIN destroying
      /\ \A n \in DOMAIN destroying : n # Len(destroying) => destroying'[n] = destroying[n]
      /\ destroying'[Len(destroying)] = e
  BY <1>1, <1>2
<1>4. \A n \in DOMAIN destroying : destroying'[n].entity = destroying[n].entity
  BY <1>1, <1>3 DEF Top
<1> QED BY <1>3, <1>4 DEF Dying

\* The end of a destruction pops it.
LEMMA Popped ==
    ASSUME TypeOK, DestructionInv, RemoveDestroyed
    PROVE  /\ DOMAIN destroying' = DOMAIN destroying \ {Len(destroying)}
           /\ Len(destroying) \in DOMAIN destroying
           /\ \A n \in DOMAIN destroying' : destroying'[n] = destroying[n]
           /\ Dying' = Dying \ {Top.entity}
           /\ Top.entity \in Dying
<1>1. destroying \in Seq(Destruction)
  BY DEF TypeOK, Destruction
<1>2. Len(destroying) \in Nat \ {0} /\ DOMAIN destroying = 1 .. Len(destroying)
  BY <1>1, EmptySeq, LenProperties DEF RemoveDestroyed
<1>3. destroying' = SubSeq(destroying, 1, Len(destroying) - 1)
  BY DEF RemoveDestroyed
<1>4. /\ DOMAIN destroying' = 1 .. Len(destroying) - 1
      /\ \A n \in 1 .. Len(destroying) - 1 : destroying'[n] = destroying[n]
  BY <1>1, <1>2, <1>3
<1>5. DOMAIN destroying' = DOMAIN destroying \ {Len(destroying)}
  BY <1>2, <1>4
<1>6. Len(destroying) \in DOMAIN destroying /\ Top.entity \in Dying
  BY <1>2 DEF Dying, Top
<1>7. \A n \in DOMAIN destroying :
         destroying[n].entity = Top.entity => n = Len(destroying)
  BY <1>6 DEF DestructionInv, Top
<1>8. Dying' = Dying \ {Top.entity}
  <2>1. \A n \in DOMAIN destroying' :
           n \in DOMAIN destroying /\ n # Len(destroying) /\ destroying'[n] = destroying[n]
    BY <1>2, <1>4, <1>5
  <2>2. Top.entity = destroying[Len(destroying)].entity
    BY DEF Top
  <2>3. Dying' \subseteq Dying \ {Top.entity}
    BY <1>7, <2>1 DEF Dying
  <2>4. Dying \ {Top.entity} \subseteq Dying'
    BY <1>5, <2>1, <2>2 DEF Dying
  <2> QED BY <2>3, <2>4
<1> QED BY <1>4, <1>5, <1>6, <1>8

----------------------------------------------------------------------------
(***************************************************************************)
(* The hierarchy.                                                          *)
(***************************************************************************)

\* Giving h the parent p keeps Parent and ChildEntities symmetric.
LEMMA MovesAgree ==
    ASSUME TypeOK, NEW h \in Handles, NEW p \in Handles \cup {None},
           \A g, x \in Handles : parent[x] = g <=> x \in children[g],
           parent' = [parent EXCEPT ![h] = p],
           children' = ChildrenAfter(h, p)
    PROVE  \A g, x \in Handles : parent'[x] = g <=> x \in children'[g]
  BY NoneAssumption DEF ChildrenAfter, TypeOK

\* What ResolveEntityHierarchy finds: an entity of the id, or nothing.
LEMMA Resolved ==
    ASSUME TypeOK, NEW h \in Handles, NEW i \in Nat, NEW pid \in Nat \cup {None},
           ResolveEntityHierarchy(h, i, pid)
    PROVE  \E p \in Handles \cup {None} :
             /\ parent' = [parent EXCEPT ![h] = p]
             /\ children' = ChildrenAfter(h, p)
             /\ RootHierarchyEntities' = RootAfter(h, i, pid)
             /\ p # None => p \in Entities /\ id[p] = pid /\ pid # None
             /\ p = None => \A g \in Entities : id[g] # pid
<1>1. PICK p \in FindSpaceEntityById(pid) :
         /\ parent' = [parent EXCEPT ![h] = p]
         /\ children' = ChildrenAfter(h, p)
  BY DEF ResolveEntityHierarchy
<1>2. RootHierarchyEntities' = RootAfter(h, i, pid)
  BY DEF ResolveEntityHierarchy
<1>3. /\ p \in Handles \cup {None}
      /\ p # None => p \in Entities /\ id[p] = pid /\ pid # None
      /\ p = None => \A g \in Entities : id[g] # pid
  BY NoneAssumption DEF FindSpaceEntityById, TypeOK
<1> QED BY <1>1, <1>2, <1>3

\* An entity that is not being destroyed is given another parent id, which is
\* neither its own nor that of an entity being destroyed.
LEMMA Reattached ==
    ASSUME OfflineInv, NEW h \in Entities \ Dying, NEW pid \in Nat \cup {None},
           pid # id[h], \A x \in Dying : id[x] # pid,
           parentId' = [parentId EXCEPT ![h] = pid],
           ResolveEntityHierarchy(h, id[h], pid),
           UNCHANGED <<life, id, type, Entities, Avatars, Objects>>,
           Dying' = Dying
    PROVE  /\ HierarchyAgrees' /\ NoSelfParent' /\ RootListIsSound'
           /\ \A x \in Dying : children'[x] \subseteq children[x] \ {h}
<1>1. h \in Handles /\ id[h] \in Nat
  BY DEF OfflineInv, TypeOK
<1>2. PICK p \in Handles \cup {None} :
         /\ parent' = [parent EXCEPT ![h] = p]
         /\ children' = ChildrenAfter(h, p)
         /\ RootHierarchyEntities' = RootAfter(h, id[h], pid)
         /\ p # None => p \in Entities /\ id[p] = pid /\ pid # None
         /\ p = None => \A g \in Entities : id[g] # pid
  BY <1>1, Resolved DEF OfflineInv
<1>3. \A g, x \in Handles : parent'[x] = g <=> x \in children'[g]
  BY <1>1, <1>2, MovesAgree DEF OfflineInv, HierarchyAgrees
<1>4. \A x \in Handles : parent'[x] = IF x = h THEN p ELSE parent[x]
  BY <1>1, <1>2 DEF OfflineInv, TypeOK
<1>5. \A x \in Handles : parentId'[x] = IF x = h THEN pid ELSE parentId[x]
  BY <1>1 DEF OfflineInv, TypeOK
<1>6. HierarchyAgrees'
  <2>1. ASSUME NEW x \in Handles, parent'[x] # None
        PROVE  x \in Entities /\ parent'[x] \in Entities /\ id[parent'[x]] = parentId'[x]
    BY <1>1, <1>2, <1>4, <1>5, <2>1 DEF OfflineInv, HierarchyAgrees
  <2> QED BY <1>3, <2>1 DEF OfflineInv, HierarchyAgrees
<1>7. NoSelfParent'
  BY <1>1, <1>2, <1>4, NoneAssumption DEF OfflineInv, NoSelfParent
<1>8. RootListIsSound'
  <2> SUFFICES ASSUME NEW r \in RootHierarchyEntities'
               PROVE  r \in Entities /\ r \notin Dying /\ parentId'[r] = None /\ parent'[r] = None
    BY DEF RootListIsSound
  <2>1. r # h => r \in RootHierarchyEntities
    BY <1>2 DEF RootAfter
  <2>2. r = h => pid = None
    BY <1>2 DEF RootAfter
  <2> QED BY <1>1, <1>2, <1>4, <1>5, <2>1, <2>2 DEF OfflineInv, RootListIsSound, TypeOK
<1>9. ASSUME NEW x \in Dying PROVE children'[x] \subseteq children[x] \ {h}
  <2>1. x # p /\ x \in Handles
    <3>1. x \in Entities
      BY DEF Dying, OfflineInv, DestructionInv
    <3> QED BY <1>2, <3>1, NoneAssumption DEF OfflineInv, TypeOK
  <2> QED BY <1>2, <2>1 DEF ChildrenAfter
<1> QED BY <1>6, <1>7, <1>8, <1>9

\* An entity is made, attached to the parent p or to none.
LEMMA NewAttached ==
    ASSUME OfflineInv, NEW h \in Handles, NEW t \in Types, NEW pid \in Nat \cup {None},
           NEW p \in Handles \cup {None},
           NewEntity(h, t, pid),
           parent' = [parent EXCEPT ![h] = p],
           children' = ChildrenAfter(h, p),
           p # None => p \in Entities \ Dying /\ id[p] = pid,
           t = "Avatar" => Avatars' = Avatars \cup {h} /\ Objects' = Objects,
           t = "Object" => Objects' = Objects \cup {h} /\ Avatars' = Avatars
    PROVE  /\ HierarchyAgrees' /\ NoSelfParent'
           /\ h \notin Entities
           /\ \A x \in Dying : children'[x] \subseteq children[x]
           /\ \A x \in Entities : parent'[x] = parent[x] /\ parentId'[x] = parentId[x]
                                                          /\ id'[x] = id[x]
<1>1. h \notin Entities /\ parent[h] = None
  BY DEF OfflineInv, HierarchyAgrees, NewEntity, TypeOK
<1>2. /\ \A x \in Handles : parent'[x] = IF x = h THEN p ELSE parent[x]
      /\ \A x \in Handles : parentId'[x] = IF x = h THEN pid ELSE parentId[x]
      /\ \A x \in Handles : x # h => id'[x] = id[x] /\ type'[x] = type[x] /\ life'[x] = life[x]
      /\ type'[h] = t /\ life'[h] = "live"
      /\ Entities' = Entities \cup {h}
  BY DEF OfflineInv, TypeOK, NewEntity
<1>3. \A g, x \in Handles : parent'[x] = g <=> x \in children'[g]
  BY MovesAgree DEF OfflineInv, HierarchyAgrees
<1>4. ASSUME NEW x \in Handles, parent'[x] # None
      PROVE  x \in Entities' /\ parent'[x] \in Entities' /\ id'[parent'[x]] = parentId'[x]
  BY <1>1, <1>2, <1>4 DEF OfflineInv, HierarchyAgrees, TypeOK
<1>5. /\ Entities' \subseteq {x \in Handles : life'[x] = "live"}
      /\ Avatars' = {x \in Entities' : type'[x] = "Avatar"}
      /\ Objects' = {x \in Entities' : type'[x] = "Object"}
  <2>1. t \in {"Avatar", "Object"}
    BY DEF Types
  <2>2. /\ Entities \subseteq {x \in Handles : life[x] = "live"}
        /\ Avatars = {x \in Entities : type[x] = "Avatar"}
        /\ Objects = {x \in Entities : type[x] = "Object"}
    BY DEF OfflineInv, HierarchyAgrees
  <2>3. CASE t = "Avatar"
    BY <1>1, <1>2, <2>2, <2>3
  <2>4. CASE t = "Object"
    BY <1>1, <1>2, <2>2, <2>4
  <2> QED BY <2>1, <2>3, <2>4
<1>6. NoSelfParent'
  BY <1>1, <1>2, NoneAssumption DEF OfflineInv, NoSelfParent
<1>7. ASSUME NEW x \in Dying PROVE children'[x] \subseteq children[x]
  <2>1. x # p /\ x \in Handles
    <3>1. x \in Entities
      BY DEF Dying, OfflineInv, DestructionInv
    <3> QED BY <3>1, NoneAssumption DEF OfflineInv, TypeOK
  <2> QED BY <2>1 DEF ChildrenAfter
<1>8. HierarchyAgrees'
  BY <1>3, <1>4, <1>5 DEF HierarchyAgrees
<1>9. \A x \in Entities : parent'[x] = parent[x] /\ parentId'[x] = parentId[x] /\ id'[x] = id[x]
  BY <1>1, <1>2 DEF OfflineInv, TypeOK
<1> QED BY <1>1, <1>6, <1>7, <1>8, <1>9

\* The destructions under way are not disturbed by what adds entities and takes
\* children away.
LEMMA DestructionsKept ==
    ASSUME DestructionInv, built, built' = built, destroying' = destroying,
           Entities \subseteq Entities',
           \A x \in Dying : children'[x] \subseteq children[x]
    PROVE  DestructionInv' /\ Dying' = Dying
<1>1. Dying' = Dying
  BY DEF Dying
<1>2. \A n \in DOMAIN destroying : destroying[n].entity \in Dying
  BY DEF Dying
<1>3. ASSUME NEW n \in DOMAIN destroying'
      PROVE  /\ destroying'[n].entity \in Entities'
             /\ destroying'[n].todo \subseteq Entities' \ Dying'
             /\ children'[destroying'[n].entity] \subseteq destroying'[n].todo
             /\ destroying'[n].told => destroying'[n].todo = {}
  BY <1>1, <1>2 DEF DestructionInv
<1>4. \A m, n \in DOMAIN destroying' :
         destroying'[m].entity = destroying'[n].entity => m = n
  BY DEF DestructionInv
<1> QED BY <1>1, <1>3, <1>4 DEF DestructionInv

----------------------------------------------------------------------------
(***************************************************************************)
(* Every step keeps the invariant.                                         *)
(***************************************************************************)

\* The constructor resolves every entity against all of them.
LEMMA ConstructStep == OfflineInv /\ Construct => OfflineInv'
<1> SUFFICES ASSUME OfflineInv, Construct PROVE OfflineInv'
  OBVIOUS
<1>1. TypeOK'
  BY ConstructTyped DEF OfflineInv
<1>2. /\ DOMAIN scene \subseteq Handles
      /\ \A h \in DOMAIN scene :
           /\ scene[h] \in [id : Nat, type : Types, parentId : Nat \cup {None}]
           /\ scene[h].parentId # scene[h].id
  BY ScenesAssumption DEF OfflineInv, TypeOK
<1>3. PICK E \in Added :
         /\ Entities' = E
         /\ Avatars' = {h \in E : scene[h].type = "Avatar"}
         /\ Objects' = {h \in E : scene[h].type = "Object"}
         /\ RootHierarchyEntities' = {h \in E : scene[h].parentId = None}
         /\ parent' = [h \in Handles |-> IF h \in E THEN SceneParent(E, h) ELSE None]
         /\ children' = [g \in Handles |-> {h \in E : g = SceneParent(E, h)}]
  BY DEF Construct
<1>4. E \subseteq DOMAIN scene /\ E \subseteq Handles
  BY <1>2 DEF Added
<1>5. \A h \in E : SceneParent(E, h) # None =>
         SceneParent(E, h) \in E /\ scene[SceneParent(E, h)].id = scene[h].parentId
  BY DEF SceneParent
<1>6. \A h \in E : /\ life'[h] = "live" /\ id'[h] = scene[h].id
                   /\ type'[h] = scene[h].type /\ parentId'[h] = scene[h].parentId
  BY <1>4 DEF Construct
<1>7. HierarchyAgrees'
  <2>1. \A g, h \in Handles : parent'[h] = g <=> h \in children'[g]
    BY <1>3, <1>4, NoneAssumption
  <2>2. ASSUME NEW h \in Handles, parent'[h] # None
        PROVE  h \in E /\ parent'[h] \in E /\ id'[parent'[h]] = parentId'[h]
    <3>1. h \in E /\ parent'[h] = SceneParent(E, h)
      BY <1>3, <2>2
    <3> QED BY <1>5, <1>6, <2>2, <3>1
  <2> QED BY <1>3, <1>4, <1>6, <2>1, <2>2 DEF HierarchyAgrees
<1>8. NoSelfParent'
  <2> SUFFICES ASSUME NEW h \in Handles, parent'[h] = h PROVE FALSE
    BY DEF NoSelfParent
  <2>1. h \in E /\ SceneParent(E, h) = h
    BY <1>3, NoneAssumption
  <2> QED BY <1>2, <1>4, <1>5, <2>1, NoneAssumption
<1>9. destroying = <<>> /\ destroying' = <<>>
  BY DEF OfflineInv, DestructionInv, Construct
<1>10. Dying' = {} /\ DOMAIN destroying' = {}
  BY <1>9 DEF Dying
<1>11. RootListIsSound'
  <2>1. \A h \in E : scene[h].parentId = None => SceneParent(E, h) = None
    BY <1>2, <1>4, NoneAssumption DEF SceneParent
  <2> QED BY <1>3, <1>4, <1>6, <1>10, <2>1 DEF RootListIsSound
<1>12. DestructionInv'
  BY <1>9, <1>10 DEF DestructionInv
<1> QED BY <1>1, <1>7, <1>8, <1>11, <1>12 DEF OfflineInv

\* New entities.
LEMMA CreateStep ==
    ASSUME OfflineInv, NEW h \in Handles,
           CreateAvatar(h) \/ \E pid \in NamedIds \cup {None} : CreateEntity(h, pid)
    PROVE  HierarchyAgrees' /\ NoSelfParent' /\ RootListIsSound' /\ DestructionInv'
<1>1. CASE CreateAvatar(h)
  <2>1. NewEntity(h, "Avatar", None) /\ "Avatar" \in Types /\ None \in Handles \cup {None}
    BY <1>1 DEF CreateAvatar, Types
  <2>2. parent[h] = None
    BY <2>1 DEF OfflineInv, HierarchyAgrees, NewEntity, TypeOK
  <2>3. parent' = [parent EXCEPT ![h] = None] /\ children' = ChildrenAfter(h, None)
    <3>1. parent' = parent /\ children' = children
      BY <1>1 DEF CreateAvatar
    <3>2. \A g \in Handles : h \notin children[g] /\ g # None
      <4>1. \A g \in Handles : g # None /\ (parent[h] = g <=> h \in children[g])
        BY NoneAssumption DEF OfflineInv, HierarchyAgrees
      <4> QED BY <2>2, <4>1
    <3>3. children = ChildrenAfter(h, None)
      <4>1. children \in [Handles -> SUBSET Handles]
        BY DEF OfflineInv, TypeOK
      <4>2. \A g \in Handles :
               children[g] = IF g = None THEN children[g] \cup {h} ELSE children[g] \ {h}
        BY <3>2
      <4> QED BY <4>1, <4>2 DEF ChildrenAfter
    <3> QED BY <2>2, <3>1, <3>3 DEF OfflineInv, TypeOK
  <2>4. Avatars' = Avatars \cup {h} /\ Objects' = Objects
    BY <1>1 DEF CreateAvatar
  <2>5. /\ HierarchyAgrees' /\ NoSelfParent'
        /\ h \notin Entities
        /\ \A x \in Dying : children'[x] \subseteq children[x]
        /\ \A x \in Entities : parent'[x] = parent[x] /\ parentId'[x] = parentId[x]
    BY <2>1, <2>3, <2>4, NewAttached
  <2>6. DestructionInv' /\ Dying' = Dying
    BY <1>1, <2>5, DestructionsKept DEF CreateAvatar, AppRuns, NewEntity, OfflineInv
  <2>7. RootListIsSound'
    BY <1>1, <2>5, <2>6 DEF CreateAvatar, NewEntity, OfflineInv, RootListIsSound
  <2> QED BY <2>5, <2>6, <2>7
<1>2. ASSUME NEW pid \in NamedIds \cup {None}, CreateEntity(h, pid)
      PROVE  HierarchyAgrees' /\ NoSelfParent' /\ RootListIsSound' /\ DestructionInv'
  <2>1. NewEntity(h, "Object", pid) /\ "Object" \in Types
    BY <1>2 DEF CreateEntity, Types
  <2>2. pid \in Nat \cup {None} /\ counter \in Nat /\ \A x \in Dying : id[x] # pid
    BY NoneAssumption DEF NamedIds, OfflineInv, TypeOK, Dying, DestructionInv
  <2>3. PICK p \in Handles \cup {None} :
           /\ parent' = [parent EXCEPT ![h] = p]
           /\ children' = ChildrenAfter(h, p)
           /\ RootHierarchyEntities' = RootAfter(h, counter, pid)
           /\ p # None => p \in Entities /\ id[p] = pid /\ pid # None
           /\ p = None => \A g \in Entities : id[g] # pid
    BY <1>2, <2>2, Resolved DEF CreateEntity, OfflineInv
  <2>4. p # None => p \in Entities \ Dying /\ id[p] = pid
    BY <2>2, <2>3
  <2>5. Objects' = Objects \cup {h} /\ Avatars' = Avatars
    BY <1>2 DEF CreateEntity
  <2>6. /\ HierarchyAgrees' /\ NoSelfParent'
        /\ h \notin Entities
        /\ \A x \in Dying : children'[x] \subseteq children[x]
        /\ \A x \in Entities : parent'[x] = parent[x] /\ parentId'[x] = parentId[x]
    BY <2>1, <2>2, <2>3, <2>4, <2>5, NewAttached
  <2>7. DestructionInv' /\ Dying' = Dying
    BY <1>2, <2>6, DestructionsKept DEF CreateEntity, AppRuns, NewEntity, OfflineInv
  <2>8. RootListIsSound'
    <3> SUFFICES ASSUME NEW r \in RootHierarchyEntities'
                 PROVE  /\ r \in Entities' /\ r \notin Dying
                        /\ parentId'[r] = None /\ parent'[r] = None
      BY <2>7 DEF RootListIsSound
    <3>1. r # h => r \in RootHierarchyEntities
      BY <2>3 DEF RootAfter
    <3>2. r = h => pid = None
      BY <2>3, <2>6 DEF RootAfter, OfflineInv, RootListIsSound
    <3>3. h \notin Dying
      BY <2>6 DEF Dying, OfflineInv, DestructionInv
    <3>4. parent'[h] = p /\ parentId'[h] = pid /\ Entities' = Entities \cup {h}
      BY <2>1, <2>3 DEF NewEntity, OfflineInv, TypeOK
    <3> QED BY <2>3, <2>6, <3>1, <3>2, <3>3, <3>4 DEF OfflineInv, RootListIsSound
  <2> QED BY <2>6, <2>7, <2>8
<1> QED BY <1>1, <1>2

\* The application gives an entity another parent, or none.
LEMMA MoveStep ==
    ASSUME OfflineInv, NEW h \in Handles,
           RemoveParentEntity(h) \/ \E i \in NamedIds : SetParentId(h, i)
    PROVE  HierarchyAgrees' /\ NoSelfParent' /\ RootListIsSound' /\ DestructionInv'
<1>1. PICK pid \in Nat \cup {None} :
         /\ h \in Entities \ Dying
         /\ pid # id[h]
         /\ \A x \in Dying : id[x] # pid
         /\ parentId' = [parentId EXCEPT ![h] = pid]
         /\ ResolveEntityHierarchy(h, id[h], pid)
  <2>1. \A x \in Dying \cup {h} : id[x] \in Nat /\ id[x] # None
    BY NoneAssumption DEF OfflineInv, TypeOK, Dying, DestructionInv
  <2>2. CASE RemoveParentEntity(h)
    BY <2>1, <2>2 DEF RemoveParentEntity
  <2>3. ASSUME NEW i \in NamedIds, SetParentId(h, i)
        PROVE  /\ h \in Entities \ Dying
               /\ i \in Nat /\ i # id[h]
               /\ \A x \in Dying : id[x] # i
               /\ parentId' = [parentId EXCEPT ![h] = i]
               /\ ResolveEntityHierarchy(h, id[h], i)
    BY <2>3 DEF SetParentId, NamedIds, OfflineInv, TypeOK
  <2> QED BY <2>2, <2>3
<1>2. /\ UNCHANGED <<life, id, type, Entities, Avatars, Objects, destroying, built>>
      /\ built
  BY DEF RemoveParentEntity, SetParentId, AppRuns
<1>3. Dying' = Dying
  BY <1>2 DEF Dying
<1>4. /\ HierarchyAgrees' /\ NoSelfParent' /\ RootListIsSound'
      /\ \A x \in Dying : children'[x] \subseteq children[x] \ {h}
  BY <1>1, <1>2, <1>3, Reattached
<1>5. DestructionInv'
  BY <1>2, <1>4, DestructionsKept DEF OfflineInv
<1> QED BY <1>4, <1>5

\* DestroyEntity up to the loop: what is destroyed is in nobody's loop.
LEMMA DestroyStep ==
    ASSUME OfflineInv, NEW h \in Handles, DestroyEntity(h)
    PROVE  HierarchyAgrees' /\ NoSelfParent' /\ RootListIsSound' /\ DestructionInv'
<1>1. /\ DOMAIN destroying' = DOMAIN destroying \cup {Len(destroying) + 1}
      /\ Len(destroying) + 1 \notin DOMAIN destroying
      /\ \A n \in DOMAIN destroying : destroying'[n] = destroying[n]
      /\ destroying'[Len(destroying) + 1]
           = [entity |-> h, todo |-> children[h], told |-> FALSE]
      /\ Dying' = Dying \cup {h}
  BY Pushed DEF OfflineInv
<1>2. /\ UNCHANGED <<life, id, type, parentId, parent, children, Entities, Avatars, Objects, built>>
      /\ RootHierarchyEntities' = RootHierarchyEntities \ {h}
      /\ built /\ h \in Entities /\ MayDestroy(h)
  BY DEF DestroyEntity, fields, AppRuns
<1>3. HierarchyAgrees' /\ NoSelfParent'
  BY <1>2 DEF OfflineInv, HierarchyAgrees, NoSelfParent
<1>4. RootListIsSound'
  BY <1>1, <1>2 DEF OfflineInv, RootListIsSound
<1>5. \A n \in DOMAIN destroying :
         /\ destroying[n].entity \in Dying /\ destroying[n].entity # h
         /\ h \notin destroying[n].todo
  BY <1>2 DEF MayDestroy, Dying
<1>6. children[h] \subseteq Entities \ Dying'
  <2> SUFFICES ASSUME NEW c \in children[h] PROVE c \in Entities /\ c \notin Dying /\ c # h
    BY <1>1
  <2>1. c \in Handles /\ parent[c] = h
    BY DEF OfflineInv, TypeOK, HierarchyAgrees
  <2>2. c \in Entities /\ c # h
    BY <2>1, NoneAssumption DEF OfflineInv, HierarchyAgrees, NoSelfParent
  <2>3. c \notin Dying
    BY <1>2, <2>1 DEF MayDestroy
  <2> QED BY <2>2, <2>3
<1>7. ASSUME NEW n \in DOMAIN destroying'
      PROVE  /\ destroying'[n].entity \in Entities'
             /\ destroying'[n].todo \subseteq Entities' \ Dying'
             /\ children'[destroying'[n].entity] \subseteq destroying'[n].todo
             /\ destroying'[n].told => destroying'[n].todo = {}
  <2>1. CASE n \in DOMAIN destroying
    BY <1>1, <1>2, <1>5, <2>1 DEF OfflineInv, DestructionInv
  <2>2. CASE n = Len(destroying) + 1
    BY <1>1, <1>2, <1>6, <2>2
  <2> QED BY <1>1, <2>1, <2>2
<1>8. ASSUME NEW m \in DOMAIN destroying', NEW n \in DOMAIN destroying',
             destroying'[m].entity = destroying'[n].entity
      PROVE  m = n
  <2>1. CASE m \in DOMAIN destroying /\ n \in DOMAIN destroying
    BY <1>1, <1>8, <2>1 DEF OfflineInv, DestructionInv
  <2>2. CASE m = Len(destroying) + 1 \/ n = Len(destroying) + 1
    <3>1. destroying'[Len(destroying) + 1].entity = h
      BY <1>1
    <3>2. \A k \in DOMAIN destroying : destroying'[k].entity # h
      BY <1>1, <1>5
    <3> QED BY <1>1, <1>8, <2>2, <3>1, <3>2
  <2> QED BY <1>1, <2>1, <2>2
<1>9. DestructionInv'
  BY <1>2, <1>7, <1>8 DEF DestructionInv
<1> QED BY <1>3, <1>4, <1>9

\* The innermost destruction has the hierarchy's children left to visit.
LEMMA TopInv ==
    ASSUME OfflineInv, destroying # <<>>
    PROVE  /\ Len(destroying) \in DOMAIN destroying
           /\ Top.entity \in Entities /\ Top.entity \in Dying
           /\ Top.todo \subseteq Entities \ Dying
           /\ children[Top.entity] \subseteq Top.todo
           /\ Top.told => Top.todo = {}
           /\ built
<1>1. Len(destroying) \in DOMAIN destroying
  BY TopTyped DEF OfflineInv
<1> QED BY <1>1 DEF OfflineInv, DestructionInv, Top, Dying

\* A child of the entity being destroyed loses its parent.
LEMMA UpdateChildStep ==
    ASSUME OfflineInv, NEW c \in Handles, UpdateChild(c)
    PROVE  HierarchyAgrees' /\ NoSelfParent' /\ RootListIsSound' /\ DestructionInv'
<1>0. destroying # <<>> /\ c \in Top.todo
  BY DEF UpdateChild
<1>1. /\ Len(destroying) \in DOMAIN destroying
      /\ Top.todo \subseteq Entities \ Dying
      /\ Top \in Destruction
      /\ built
  BY <1>0, TopInv, TopTyped DEF OfflineInv
<1> DEFINE e == [Top EXCEPT !.todo = Top.todo \ {c}]
<1>2. /\ destroying' = [destroying EXCEPT ![Len(destroying)] = e]
      /\ e.entity = Top.entity /\ e.todo = Top.todo \ {c} /\ e.told = Top.told
  BY <1>1 DEF UpdateChild, Top, Destruction
<1>3. /\ DOMAIN destroying' = DOMAIN destroying
      /\ \A n \in DOMAIN destroying :
           /\ n # Len(destroying) => destroying'[n] = destroying[n]
           /\ destroying'[n].entity = destroying[n].entity
      /\ destroying'[Len(destroying)] = e
      /\ Dying' = Dying
  <2> HIDE DEF e
  <2> QED BY <1>0, <1>2, TopChanged DEF OfflineInv
<1> HIDE DEF e
<1>4. /\ UNCHANGED <<life, id, type, Entities, Avatars, Objects, built>>
      /\ parentId' = [parentId EXCEPT ![c] = None]
      /\ ResolveEntityHierarchy(c, id[c], None)
  BY DEF UpdateChild
<1>5. c \in Entities \ Dying /\ None # id[c] /\ \A x \in Dying : id[x] # None
  BY <1>0, <1>1, NoneAssumption DEF OfflineInv, TypeOK, Dying, DestructionInv
<1>6. /\ HierarchyAgrees' /\ NoSelfParent' /\ RootListIsSound'
      /\ \A x \in Dying : children'[x] \subseteq children[x] \ {c}
  BY <1>3, <1>4, <1>5, Reattached
<1>7. ASSUME NEW n \in DOMAIN destroying'
      PROVE  /\ destroying'[n].entity \in Entities'
             /\ destroying'[n].todo \subseteq Entities' \ Dying'
             /\ children'[destroying'[n].entity] \subseteq destroying'[n].todo
             /\ destroying'[n].told => destroying'[n].todo = {}
  <2>1. n \in DOMAIN destroying /\ destroying[n].entity \in Dying
    BY <1>3 DEF Dying
  <2>2. /\ destroying[n].entity \in Entities
        /\ destroying[n].todo \subseteq Entities \ Dying
        /\ children[destroying[n].entity] \subseteq destroying[n].todo
        /\ destroying[n].told => destroying[n].todo = {}
    BY <2>1 DEF OfflineInv, DestructionInv
  <2>3. \/ destroying'[n] = destroying[n]
        \/ /\ destroying'[n].entity = destroying[n].entity
           /\ destroying'[n].todo = destroying[n].todo \ {c}
           /\ destroying'[n].told = destroying[n].told
    BY <1>2, <1>3, <2>1 DEF Top
  <2> QED BY <1>3, <1>4, <1>6, <2>1, <2>2, <2>3
<1>8. \A m, n \in DOMAIN destroying' :
         destroying'[m].entity = destroying'[n].entity => m = n
  BY <1>3 DEF OfflineInv, DestructionInv
<1>9. DestructionInv'
  BY <1>1, <1>4, <1>7, <1>8 DEF DestructionInv
<1> QED BY <1>6, <1>9

\* The destroy callback runs when the loop is over.
LEMMA TellStep ==
    ASSUME OfflineInv, TellDestroyed
    PROVE  HierarchyAgrees' /\ NoSelfParent' /\ RootListIsSound' /\ DestructionInv'
<1>0. destroying # <<>> /\ Top.todo = {}
  BY DEF TellDestroyed
<1>1. Len(destroying) \in DOMAIN destroying /\ Top \in Destruction /\ built
  BY <1>0, TopInv, TopTyped DEF OfflineInv
<1> DEFINE e == [Top EXCEPT !.told = TRUE]
<1>2. /\ destroying' = [destroying EXCEPT ![Len(destroying)] = e]
      /\ e.entity = Top.entity /\ e.todo = Top.todo
  BY <1>1 DEF TellDestroyed, Top, Destruction
<1>3. /\ DOMAIN destroying' = DOMAIN destroying
      /\ \A n \in DOMAIN destroying :
           /\ n # Len(destroying) => destroying'[n] = destroying[n]
           /\ destroying'[n].entity = destroying[n].entity
      /\ destroying'[Len(destroying)] = e
      /\ Dying' = Dying
  <2> HIDE DEF e
  <2> QED BY <1>0, <1>2, TopChanged DEF OfflineInv
<1> HIDE DEF e
<1>4. UNCHANGED <<life, id, type, parentId, parent, children, Entities, Avatars, Objects,
                  RootHierarchyEntities, built>>
  BY DEF TellDestroyed, fields, lists
<1>5. HierarchyAgrees' /\ NoSelfParent' /\ RootListIsSound'
  BY <1>3, <1>4 DEF OfflineInv, HierarchyAgrees, NoSelfParent, RootListIsSound
<1>6. ASSUME NEW n \in DOMAIN destroying'
      PROVE  /\ destroying'[n].entity \in Entities'
             /\ destroying'[n].todo \subseteq Entities' \ Dying'
             /\ children'[destroying'[n].entity] \subseteq destroying'[n].todo
             /\ destroying'[n].told => destroying'[n].todo = {}
  <2>1. n \in DOMAIN destroying
    BY <1>3
  <2>2. \/ destroying'[n] = destroying[n]
        \/ /\ destroying'[n].entity = destroying[n].entity
           /\ destroying'[n].todo = destroying[n].todo
           /\ destroying[n].todo = {}
    BY <1>0, <1>2, <1>3, <2>1 DEF Top
  <2> QED BY <1>3, <1>4, <2>1, <2>2 DEF OfflineInv, DestructionInv
<1>7. \A m, n \in DOMAIN destroying' :
         destroying'[m].entity = destroying'[n].entity => m = n
  BY <1>3 DEF OfflineInv, DestructionInv
<1>8. DestructionInv'
  BY <1>1, <1>4, <1>6, <1>7 DEF DestructionInv
<1> QED BY <1>5, <1>8

\* The entity is deleted: it has no children left, and nothing points to it.
LEMMA RemoveStep ==
    ASSUME OfflineInv, RemoveDestroyed
    PROVE  HierarchyAgrees' /\ NoSelfParent' /\ RootListIsSound' /\ DestructionInv'
<1> DEFINE x == Top.entity
<1>0. destroying # <<>> /\ Top.told
  BY DEF RemoveDestroyed
<1>1. /\ x \in Entities /\ x \in Handles /\ children[x] = {} /\ built
  BY <1>0, TopInv DEF OfflineInv, TypeOK
<1>2. /\ DOMAIN destroying' = DOMAIN destroying \ {Len(destroying)}
      /\ Len(destroying) \in DOMAIN destroying
      /\ \A n \in DOMAIN destroying' : destroying'[n] = destroying[n]
      /\ Dying' = Dying \ {x}
      /\ x \in Dying
  BY Popped DEF OfflineInv
<1>3. /\ life' = [life EXCEPT ![x] = "freed"]
      /\ Entities' = Entities \ {x}
      /\ Avatars' = Avatars \ {x}
      /\ Objects' = Objects \ {x}
      /\ parent' = [parent EXCEPT ![x] = None]
      /\ children' = [g \in Handles |-> IF g = parent[x] THEN children[g] \ {x} ELSE children[g]]
      /\ UNCHANGED <<built, id, type, parentId, RootHierarchyEntities>>
  BY DEF RemoveDestroyed
<1> HIDE DEF x
<1>4. \A h \in Handles : parent[h] # x
  BY <1>1 DEF OfflineInv, HierarchyAgrees
<1>5. \A h \in Handles : parent'[h] = IF h = x THEN None ELSE parent[h]
  BY <1>1, <1>3 DEF OfflineInv, TypeOK
<1>6. HierarchyAgrees'
  <2>1. \A g, h \in Handles : parent'[h] = g <=> h \in children'[g]
    BY <1>1, <1>3, <1>5, NoneAssumption DEF OfflineInv, HierarchyAgrees
  <2>2. ASSUME NEW h \in Handles, parent'[h] # None
        PROVE  h \in Entities' /\ parent'[h] \in Entities' /\ id'[parent'[h]] = parentId'[h]
    BY <1>3, <1>4, <1>5, <2>2 DEF OfflineInv, HierarchyAgrees
  <2>3. /\ Entities' \subseteq {h \in Handles : life'[h] = "live"}
        /\ Avatars' = {h \in Entities' : type'[h] = "Avatar"}
        /\ Objects' = {h \in Entities' : type'[h] = "Object"}
    BY <1>1, <1>3 DEF OfflineInv, HierarchyAgrees, TypeOK
  <2> QED BY <2>1, <2>2, <2>3 DEF HierarchyAgrees
<1>7. NoSelfParent'
  BY <1>5, NoneAssumption DEF OfflineInv, NoSelfParent
<1>8. RootListIsSound'
  BY <1>2, <1>3, <1>5 DEF OfflineInv, RootListIsSound, TypeOK
<1>9. ASSUME NEW n \in DOMAIN destroying'
      PROVE  /\ destroying'[n].entity \in Entities'
             /\ destroying'[n].todo \subseteq Entities' \ Dying'
             /\ children'[destroying'[n].entity] \subseteq destroying'[n].todo
             /\ destroying'[n].told => destroying'[n].todo = {}
  <2>1. /\ n \in DOMAIN destroying /\ destroying'[n] = destroying[n]
        /\ destroying[n].entity # x
    BY <1>2 DEF OfflineInv, DestructionInv, x, Top
  <2>2. /\ destroying[n].entity \in Entities
        /\ destroying[n].todo \subseteq Entities \ Dying
        /\ children[destroying[n].entity] \subseteq destroying[n].todo
        /\ destroying[n].told => destroying[n].todo = {}
    BY <2>1 DEF OfflineInv, DestructionInv
  <2>3. destroying[n].entity \in Handles
    BY <2>2 DEF OfflineInv, TypeOK
  <2>4. children'[destroying[n].entity] \subseteq children[destroying[n].entity]
    BY <1>3, <2>3
  <2> QED BY <1>2, <1>3, <2>1, <2>2, <2>4
<1>10. \A m, n \in DOMAIN destroying' :
         destroying'[m].entity = destroying'[n].entity => m = n
  BY <1>2 DEF OfflineInv, DestructionInv
<1>11. DestructionInv'
  BY <1>1, <1>3, <1>9, <1>10 DEF DestructionInv
<1> QED BY <1>6, <1>7, <1>8, <1>11

\* Every step keeps the invariant.
LEMMA OfflineStep == OfflineInv /\ [Next]_vars => OfflineInv'
<1> SUFFICES ASSUME OfflineInv, [Next]_vars PROVE OfflineInv'
  OBVIOUS
<1>1. TypeOK'
  BY TypedStep DEF OfflineInv
<1>2. CASE Construct
  BY <1>2, ConstructStep
<1>3. ASSUME NEW h \in Handles,
             CreateAvatar(h) \/ \E pid \in NamedIds \cup {None} : CreateEntity(h, pid)
      PROVE  OfflineInv'
  BY <1>1, <1>3, CreateStep DEF OfflineInv
<1>4. ASSUME NEW h \in Handles,
             RemoveParentEntity(h) \/ \E i \in NamedIds : SetParentId(h, i)
      PROVE  OfflineInv'
  BY <1>1, <1>4, MoveStep DEF OfflineInv
<1>5. ASSUME NEW h \in Handles, DestroyEntity(h) PROVE OfflineInv'
  BY <1>1, <1>5, DestroyStep DEF OfflineInv
<1>6. ASSUME NEW h \in Handles, UpdateChild(h) PROVE OfflineInv'
  BY <1>1, <1>6, UpdateChildStep DEF OfflineInv
<1>7. CASE TellDestroyed
  BY <1>1, <1>7, TellStep DEF OfflineInv
<1>8. CASE RemoveDestroyed
  BY <1>1, <1>8, RemoveStep DEF OfflineInv
<1>9. ASSUME UNCHANGED <<built, life, id, type, parentId, parent, children, Entities, Avatars,
                         Objects, RootHierarchyEntities, destroying>>
      PROVE  OfflineInv'
  BY <1>1, <1>9 DEF OfflineInv, HierarchyAgrees, NoSelfParent, RootListIsSound,
                    DestructionInv, Dying
<1>10. ASSUME NEW h \in Handles, Select(h) \/ Deselect(h) PROVE OfflineInv'
  BY <1>9, <1>10 DEF Select, Deselect
<1>11. CASE UNCHANGED vars
  BY <1>9, <1>11 DEF vars, fields, lists
<1> QED BY <1>2, <1>3, <1>4, <1>5, <1>6, <1>7, <1>8, <1>10, <1>11 DEF Next

\* The invariant holds when the engine is made.
LEMMA OfflineInit == Init => OfflineInv
<1> SUFFICES ASSUME Init PROVE OfflineInv
  OBVIOUS
<1>1. TypeOK
  <2>1. destroying \in Seq(Destruction)
    BY EmptySeq DEF Init
  <2>2. type \in [Handles -> Types] /\ counter \in Nat
    BY FirstIdAssumption DEF Init, Types
  <2> QED BY <2>1, <2>2 DEF Init, TypeOK, Destruction
<1>2. HierarchyAgrees /\ NoSelfParent /\ RootListIsSound
  BY NoneAssumption DEF Init, HierarchyAgrees, NoSelfParent, RootListIsSound
<1>3. destroying = <<>> /\ DOMAIN destroying = {}
  BY DEF Init
<1>4. DestructionInv
  BY <1>3 DEF DestructionInv
<1> QED BY <1>1, <1>2, <1>4 DEF OfflineInv

\* The invariant holds of every behaviour of the engine.
THEOREM OfflineInvariant == Spec => []OfflineInv
  BY OfflineInit, OfflineStep, PTL DEF Spec

\* Parent and ChildEntities agree and no pointer outlives its entity, whatever
\* the callbacks of a destruction do, however deep destructions nest and
\* however many ids of the scene occur twice.
THEOREM HierarchyAlwaysAgrees == Spec => []HierarchyAgrees
<1>1. OfflineInv => HierarchyAgrees
  BY DEF OfflineInv
<1> QED BY <1>1, OfflineInvariant, PTL

\* The root list holds only entities that are there and have no parent.
THEOREM RootListAlwaysSound == Spec => []RootListIsSound
<1>1. OfflineInv => RootListIsSound
  BY DEF OfflineInv
<1> QED BY <1>1, OfflineInvariant, PTL

\* DestroyEntity moves the children, and those that its callbacks attached
\* elsewhere too, before it tells the application: nobody can be attached to
\* an entity being destroyed in between.
THEOREM ChildrenAlwaysMoveFirst == Spec => []ChildrenMoveFirst
<1>1. OfflineInv => ChildrenMoveFirst
  BY DEF OfflineInv, DestructionInv, ChildrenMoveFirst
<1> QED BY <1>1, OfflineInvariant, PTL

----------------------------------------------------------------------------
(***************************************************************************)
(* Who can be reached, in a space whose scene is old.                      *)
(***************************************************************************)

\* What the two conjuncts say once the scene is known to be old.
Reached ==
    /\ \A g, h \in Entities : id[g] = id[h] => g = h
    /\ \A h \in Objects \ Dying : parentId[h] = None => h \in RootHierarchyEntities
    /\ \A h \in Entities : \A g \in Entities : parentId[h] = id[g] => parent[h] = g

\* The ids of the entities, and of all that were, are below the counter.
LEMMA OldIds ==
    ASSUME OfflineInv, IdsAreOld
    PROVE  /\ \A g \in Entities : g \in Handles /\ id[g] \in Nat /\ id[g] < counter /\ id[g] # None
           /\ \A i \in NamedIds : i \in Nat /\ i < counter
           /\ counter \in Nat /\ FirstId \in Nat
           /\ RootHierarchyEntities \subseteq Entities
  BY NoneAssumption, FirstIdAssumption
     DEF OfflineInv, TypeOK, HierarchyAgrees, IdsAreOld, NamedIds, RootListIsSound

\* An entity gets another parent: ids tell entities apart, so the root list
\* loses or gains that entity alone, and the parent found is the one named.
LEMMA ReachMoved ==
    ASSUME OfflineInv, Reached, IdsAreOld, NEW h \in Entities, NEW pid \in Nat \cup {None},
           pid # None => pid < counter,
           parentId' = [parentId EXCEPT ![h] = pid],
           ResolveEntityHierarchy(h, id[h], pid),
           UNCHANGED <<built, counter, life, id, Entities, Objects>>,
           Dying' = Dying
    PROVE  Reached' /\ IdsAreOld'
<1>1. h \in Handles /\ id[h] \in Nat
  BY DEF OfflineInv, TypeOK
<1>2. PICK p \in Handles \cup {None} :
         /\ parent' = [parent EXCEPT ![h] = p]
         /\ RootHierarchyEntities' = RootAfter(h, id[h], pid)
         /\ p # None => p \in Entities /\ id[p] = pid /\ pid # None
         /\ p = None => \A g \in Entities : id[g] # pid
  BY <1>1, Resolved DEF OfflineInv
<1>3. \A x \in Entities : /\ parent'[x] = IF x = h THEN p ELSE parent[x]
                          /\ parentId'[x] = IF x = h THEN pid ELSE parentId[x]
  BY <1>1, <1>2 DEF OfflineInv, TypeOK
<1>4. \A g \in RootHierarchyEntities : id[g] = id[h] => g = h
  BY OldIds DEF Reached
<1>5. /\ pid = None => h \in RootHierarchyEntities'
      /\ \A g \in RootHierarchyEntities : g # h => g \in RootHierarchyEntities'
  BY <1>2, <1>4 DEF RootAfter
<1>6. \A x \in Objects' \ Dying' : parentId'[x] = None => x \in RootHierarchyEntities'
  BY <1>3, <1>5 DEF Reached, OfflineInv, HierarchyAgrees
<1>7. ASSUME NEW x \in Entities, NEW g \in Entities, parentId'[x] = id[g]
      PROVE  parent'[x] = g
  <2>1. CASE x = h
    BY <1>2, <1>3, <1>7, <2>1 DEF Reached
  <2>2. CASE x # h
    BY <1>3, <1>7, <2>2 DEF Reached
  <2> QED BY <2>1, <2>2
<1>8. IdsAreOld'
  BY <1>3 DEF IdsAreOld
<1> QED BY <1>6, <1>7, <1>8 DEF Reached

\* A new entity has an id that nobody has or names.
LEMMA ReachNew ==
    ASSUME OfflineInv, Reached, IdsAreOld, built, built' = built, NEW h \in Handles,
           NEW t \in Types, NEW pid \in Nat \cup {None}, NEW p \in Handles \cup {None},
           pid # None => pid < counter,
           NewEntity(h, t, pid),
           parent' = [parent EXCEPT ![h] = p],
           p # None => p \in Entities /\ id[p] = pid,
           p = None => \A g \in Entities : id[g] # pid,
           Objects' = IF t = "Object" THEN Objects \cup {h} ELSE Objects,
           t = "Object" /\ pid = None => h \in RootHierarchyEntities',
           RootHierarchyEntities \subseteq RootHierarchyEntities',
           Dying' = Dying
    PROVE  Reached' /\ IdsAreOld'
<1>1. h \notin Entities /\ Entities \subseteq Handles
  BY DEF OfflineInv, HierarchyAgrees, NewEntity, TypeOK
<1>2. /\ \A x \in Handles : /\ parent'[x] = IF x = h THEN p ELSE parent[x]
                            /\ parentId'[x] = IF x = h THEN pid ELSE parentId[x]
                            /\ id'[x] = IF x = h THEN counter ELSE id[x]
                            /\ life'[x] = IF x = h THEN "live" ELSE life[x]
      /\ Entities' = Entities \cup {h}
      /\ counter' = counter + 1
  BY DEF OfflineInv, TypeOK, NewEntity
<1>3. /\ \A g \in Entities : g \in Handles /\ id[g] \in Nat /\ id[g] < counter
      /\ counter \in Nat
  BY OldIds
<1>4. \A g, x \in Entities' : id'[g] = id'[x] => g = x
  BY <1>1, <1>2, <1>3 DEF Reached
<1>5. \A x \in Objects' \ Dying' : parentId'[x] = None => x \in RootHierarchyEntities'
  BY <1>1, <1>2 DEF Reached, OfflineInv, HierarchyAgrees
<1>6. ASSUME NEW x \in Entities', NEW g \in Entities', parentId'[x] = id'[g]
      PROVE  parent'[x] = g
  <2>1. parentId'[x] # None => parentId'[x] < counter
    BY <1>1, <1>2 DEF IdsAreOld
  <2>2. g # h
    BY <1>1, <1>2, <1>3, <1>6, <2>1, NoneAssumption
  <2>3. g \in Entities /\ id'[g] = id[g]
    BY <1>1, <1>2, <2>2
  <2>4. CASE x = h
    BY <1>2, <1>6, <2>3, <2>4 DEF Reached
  <2>5. CASE x # h
    BY <1>1, <1>2, <1>6, <2>3, <2>5 DEF Reached
  <2> QED BY <2>4, <2>5
<1>7. IdsAreOld'
  <2>1. FirstId <= counter'
    BY <1>2, <1>3, FirstIdAssumption DEF IdsAreOld
  <2>2. \A x \in Handles : life'[x] # "unused" => id'[x] < counter'
    <3>1. \A x \in Handles : life[x] # "unused" => id[x] < counter /\ id[x] \in Nat
      BY DEF IdsAreOld, OfflineInv, TypeOK
    <3> QED BY <1>2, <1>3, <3>1
  <2>3. ASSUME NEW x \in Entities', parentId'[x] # None PROVE parentId'[x] < counter'
    <3>1. parentId'[x] \in Nat /\ parentId'[x] < counter
      BY <1>1, <1>2, <2>3 DEF IdsAreOld, OfflineInv, TypeOK
    <3> QED BY <1>2, <1>3, <3>1
  <2> QED BY <2>1, <2>2, <2>3 DEF IdsAreOld
<1> QED BY <1>4, <1>5, <1>6, <1>7 DEF Reached

\* The constructor adds each id once and attaches every entity whose parent is
\* in the scene.
LEMMA ReachConstruct ==
    ASSUME OfflineInv, SceneIsOld, IdsAreOld, Construct
    PROVE  Reached' /\ IdsAreOld'
<1>1. /\ DOMAIN scene \subseteq Handles
      /\ \A h \in DOMAIN scene :
           scene[h] \in [id : Nat, type : Types, parentId : Nat \cup {None}]
  BY ScenesAssumption DEF OfflineInv, TypeOK
<1>2. PICK E \in Added :
         /\ Entities' = E
         /\ Objects' = {h \in E : scene[h].type = "Object"}
         /\ RootHierarchyEntities' = {h \in E : scene[h].parentId = None}
         /\ parent' = [h \in Handles |-> IF h \in E THEN SceneParent(E, h) ELSE None]
  BY DEF Construct
<1>3. /\ E \subseteq DOMAIN scene /\ E \subseteq Handles
      /\ \A g, h \in E : scene[g].id = scene[h].id => g = h
  BY <1>1 DEF Added
<1>4. \A h \in E : id'[h] = scene[h].id /\ parentId'[h] = scene[h].parentId
  BY <1>3 DEF Construct
<1>5. ASSUME NEW h \in E, NEW g \in E, scene[h].parentId = scene[g].id
      PROVE  parent'[h] = g
  <2>1. parent'[h] = SceneParent(E, h)
    BY <1>2, <1>3
  <2>2. SceneParent(E, h) \in E /\ scene[SceneParent(E, h)].id = scene[h].parentId
    BY <1>5 DEF SceneParent
  <2> QED BY <1>3, <1>5, <2>1, <2>2
<1>6. Reached'
  BY <1>2, <1>3, <1>4, <1>5 DEF Reached
<1>7. IdsAreOld'
  <2>1. counter' = counter /\ built' /\ counter \in Nat /\ FirstId \in Nat /\ FirstId <= counter
    BY FirstIdAssumption DEF Construct, OfflineInv, TypeOK, IdsAreOld
  <2>2. ASSUME NEW h \in Handles, life'[h] # "unused" PROVE id'[h] < counter'
    <3>1. h \in DOMAIN scene /\ id'[h] = scene[h].id
      BY <2>2 DEF Construct
    <3> QED BY <1>1, <2>1, <3>1 DEF SceneIsOld
  <2>3. ASSUME NEW h \in E, parentId'[h] # None PROVE parentId'[h] < counter'
    <3>1. h \in DOMAIN scene /\ scene[h].parentId # None /\ scene[h].parentId \in Nat
      BY <1>1, <1>3, <1>4, <2>3
    <3> QED BY <1>4, <2>1, <3>1 DEF SceneIsOld
  <2> QED BY <1>2, <2>1, <2>2, <2>3 DEF IdsAreOld
<1> QED BY <1>6, <1>7

\* Every step keeps them.
LEMMA ReachStep ==
    ASSUME OfflineInv, SceneIsOld, Reached, IdsAreOld, [Next]_vars
    PROVE  Reached' /\ IdsAreOld'
<1>0. /\ \A g \in Entities : g \in Handles /\ id[g] \in Nat /\ id[g] < counter /\ id[g] # None
      /\ \A i \in NamedIds : i \in Nat /\ i < counter
      /\ counter \in Nat
      /\ RootHierarchyEntities \subseteq Entities
  BY OldIds
<1>1. CASE Construct
  BY <1>1, ReachConstruct
<1>2. ASSUME NEW h \in Handles, CreateAvatar(h) PROVE Reached' /\ IdsAreOld'
  <2>1. /\ NewEntity(h, "Avatar", None) /\ "Avatar" \in Types
        /\ None \in Nat \cup {None} /\ None \in Handles \cup {None}
    BY <1>2 DEF CreateAvatar, Types
  <2>2. parent' = [parent EXCEPT ![h] = None]
    <3>1. parent[h] = None
      BY <2>1 DEF OfflineInv, HierarchyAgrees, NewEntity, TypeOK
    <3> QED BY <1>2, <3>1 DEF CreateAvatar, OfflineInv, TypeOK
  <2>3. /\ Objects' = Objects /\ RootHierarchyEntities' = RootHierarchyEntities
        /\ built /\ built' = built /\ Dying' = Dying
    BY <1>2 DEF CreateAvatar, AppRuns, Dying
  <2> QED BY <1>0, <2>1, <2>2, <2>3, ReachNew
<1>3. ASSUME NEW h \in Handles, NEW pid \in NamedIds \cup {None}, CreateEntity(h, pid)
      PROVE  Reached' /\ IdsAreOld'
  <2>1. /\ NewEntity(h, "Object", pid) /\ "Object" \in Types
        /\ pid \in Nat \cup {None} /\ (pid # None => pid < counter)
    BY <1>0, <1>3 DEF CreateEntity, Types
  <2>2. PICK p \in Handles \cup {None} :
           /\ parent' = [parent EXCEPT ![h] = p]
           /\ RootHierarchyEntities' = RootAfter(h, counter, pid)
           /\ p # None => p \in Entities /\ id[p] = pid /\ pid # None
           /\ p = None => \A g \in Entities : id[g] # pid
    BY <1>0, <1>3, <2>1, Resolved DEF CreateEntity, OfflineInv
  <2>3. \A g \in RootHierarchyEntities : id[g] # counter
    BY <1>0
  <2>4. /\ RootHierarchyEntities \subseteq RootHierarchyEntities'
        /\ pid = None => h \in RootHierarchyEntities'
    BY <2>2, <2>3 DEF RootAfter
  <2>5. Objects' = Objects \cup {h} /\ built /\ built' = built /\ Dying' = Dying
    BY <1>3 DEF CreateEntity, AppRuns, Dying
  <2> QED BY <2>1, <2>2, <2>4, <2>5, ReachNew
<1>4. ASSUME NEW h \in Handles, NEW i \in NamedIds, SetParentId(h, i) PROVE Reached' /\ IdsAreOld'
  <2>1. /\ h \in Entities /\ i \in Nat \cup {None} /\ i < counter
        /\ parentId' = [parentId EXCEPT ![h] = i]
        /\ ResolveEntityHierarchy(h, id[h], i)
        /\ UNCHANGED <<built, counter, life, id, Entities, Objects>>
        /\ Dying' = Dying
    BY <1>0, <1>4 DEF SetParentId, Dying
  <2> QED BY <2>1, ReachMoved
<1>5. ASSUME NEW h \in Handles, RemoveParentEntity(h) PROVE Reached' /\ IdsAreOld'
  <2>1. /\ h \in Entities /\ None \in Nat \cup {None}
        /\ parentId' = [parentId EXCEPT ![h] = None]
        /\ ResolveEntityHierarchy(h, id[h], None)
        /\ UNCHANGED <<built, counter, life, id, Entities, Objects>>
        /\ Dying' = Dying
    BY <1>5 DEF RemoveParentEntity, Dying
  <2> QED BY <2>1, ReachMoved
<1>6. ASSUME NEW h \in Handles, UpdateChild(h) PROVE Reached' /\ IdsAreOld'
  <2>1. destroying # <<>> /\ Top \in Destruction /\ Top.todo \subseteq Entities
    BY <1>6, TopTyped, TopInv DEF UpdateChild, OfflineInv
  <2>2. destroying' = [destroying EXCEPT ![Len(destroying)] = [Top EXCEPT !.todo = Top.todo \ {h}]]
    BY <1>6, <2>1, TopTyped DEF UpdateChild, Top, OfflineInv
  <2>3. [Top EXCEPT !.todo = Top.todo \ {h}].entity = Top.entity
    BY <2>1 DEF Destruction
  <2>4. Dying' = Dying
    BY <2>1, <2>2, <2>3, TopChanged DEF OfflineInv
  <2>5. /\ h \in Entities /\ None \in Nat \cup {None}
        /\ parentId' = [parentId EXCEPT ![h] = None]
        /\ ResolveEntityHierarchy(h, id[h], None)
        /\ UNCHANGED <<built, counter, life, id, Entities, Objects>>
    BY <1>6, <2>1 DEF UpdateChild
  <2> QED BY <2>4, <2>5, ReachMoved
<1>7. ASSUME NEW h \in Handles, DestroyEntity(h) PROVE Reached' /\ IdsAreOld'
  <2>1. Dying' = Dying \cup {h}
    BY <1>7, Pushed DEF OfflineInv
  <2> QED BY <1>7, <2>1 DEF DestroyEntity, fields, Reached, IdsAreOld
<1>8. CASE RemoveDestroyed
  <2> DEFINE x == Top.entity
  <2>1. Dying' = Dying \ {x}
    BY <1>8, Popped DEF OfflineInv
  <2>2. x \in Entities /\ x \in Handles /\ built
    BY <1>8, TopInv DEF OfflineInv, TypeOK, RemoveDestroyed
  <2>3. /\ life' = [life EXCEPT ![x] = "freed"]
        /\ Entities' = Entities \ {x}
        /\ Objects' = Objects \ {x}
        /\ parent' = [parent EXCEPT ![x] = None]
        /\ UNCHANGED <<built, counter, id, parentId, RootHierarchyEntities>>
    BY <1>8 DEF RemoveDestroyed
  <2> HIDE DEF x
  <2>4. /\ \A h \in Entities' : parent'[h] = parent[h]
        /\ \A h \in Handles : life'[h] # "unused" => life[h] # "unused"
    BY <2>2, <2>3 DEF OfflineInv, TypeOK, HierarchyAgrees
  <2> QED BY <2>1, <2>2, <2>3, <2>4 DEF Reached, IdsAreOld
<1>9. ASSUME UNCHANGED <<built, counter, life, id, parentId, parent, Entities, Objects,
                         RootHierarchyEntities>>, Dying' = Dying
      PROVE  Reached' /\ IdsAreOld'
  BY <1>9 DEF Reached, IdsAreOld
<1>10. CASE TellDestroyed
  <2>1. destroying # <<>> /\ Top \in Destruction
    BY <1>10, TopTyped DEF TellDestroyed, OfflineInv
  <2>2. destroying' = [destroying EXCEPT ![Len(destroying)] = [Top EXCEPT !.told = TRUE]]
    BY <1>10, <2>1, TopTyped DEF TellDestroyed, Top, OfflineInv
  <2>3. [Top EXCEPT !.told = TRUE].entity = Top.entity
    BY <2>1 DEF Destruction
  <2>4. Dying' = Dying
    BY <2>1, <2>2, <2>3, TopChanged DEF OfflineInv
  <2> QED BY <1>9, <1>10, <2>4 DEF TellDestroyed, fields, lists
<1>11. ASSUME NEW h \in Handles, Select(h) \/ Deselect(h) PROVE Reached' /\ IdsAreOld'
  BY <1>9, <1>11 DEF Select, Deselect, Dying
<1>12. CASE UNCHANGED vars
  BY <1>9, <1>12 DEF vars, fields, lists, Dying
<1> QED BY <1>1, <1>2, <1>3, <1>4, <1>5, <1>6, <1>7, <1>8, <1>10, <1>11, <1>12 DEF Next

\* In a space whose scene's ids are below the counter no entity is lost from
\* the hierarchy: ids stay unique, objects without a parent id are roots, and
\* whoever names an entity that exists hangs below it, for any sequence of
\* creations, moves and nested destructions.
THEOREM NobodyIsEverUnreachable == Spec => []NobodyIsUnreachable
<1>1. Init => ReachInv
  <2> SUFFICES ASSUME Init PROVE ReachInv
    OBVIOUS
  <2>1. IdsAreOld
    BY FirstIdAssumption DEF Init, IdsAreOld
  <2>2. NobodyIsUnreachable
    BY DEF Init, NobodyIsUnreachable
  <2> QED BY <2>1, <2>2, OfflineInit DEF ReachInv
<1>2. ReachInv /\ [Next]_vars => ReachInv'
  <2> SUFFICES ASSUME ReachInv, [Next]_vars PROVE ReachInv'
    OBVIOUS
  <2>1. OfflineInv'
    BY OfflineStep DEF ReachInv
  <2>2. scene' = scene
    BY DEF Next, vars, Construct, CreateAvatar, CreateEntity, SetParentId, RemoveParentEntity,
           Select, Deselect, DestroyEntity, UpdateChild, TellDestroyed, RemoveDestroyed
  <2>3. SceneIsOld' = SceneIsOld
    BY <2>2 DEF SceneIsOld
  <2>4. SceneIsOld => Reached' /\ IdsAreOld'
    BY ReachStep DEF ReachInv, NobodyIsUnreachable, Reached
  <2> QED BY <2>1, <2>3, <2>4 DEF ReachInv, NobodyIsUnreachable, Reached
<1>3. ReachInv => NobodyIsUnreachable
  BY DEF ReachInv
<1> QED BY <1>1, <1>2, <1>3, PTL DEF Spec
=============================================================================
