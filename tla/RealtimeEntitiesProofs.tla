---------------------- MODULE RealtimeEntitiesProofs ----------------------
(* Proofs of the safety properties of RealtimeEntities and of its          *)
(* implementation of EntityStore, for any number of entities, any page     *)
(* size and any bound on the messages in flight.                           *)
EXTENDS RealtimeEntities, SequenceTheorems, TLAPS

-----------------------------------------------------------------------------
(* Sequences, messages and look-ups.                                       *)

\* Appending adds one element.
LEMMA AppendElements ==
    ASSUME NEW S, NEW s \in Seq(S), NEW e \in S
    PROVE  /\ Append(s, e) \in Seq(S)
           /\ Elements(Append(s, e)) = Elements(s) \cup {e}
           /\ DOMAIN Append(s, e) = 1 .. (Len(s) + 1)
           /\ \A n \in 1 .. Len(s) : Append(s, e)[n] = s[n]
           /\ Append(s, e)[Len(s) + 1] = e
  BY DEF Elements

\* Taking the head of a non-empty sequence off loses at most one element.
LEMMA TailElements ==
    ASSUME NEW S, NEW s \in Seq(S), s # <<>>
    PROVE  /\ Head(s) \in S
           /\ Head(s) \in Elements(s)
           /\ Head(s) = s[1]
           /\ 1 \in DOMAIN s
           /\ DOMAIN s = 1 .. Len(s)
           /\ Len(s) \in Nat \ {0}
           /\ Tail(s) \in Seq(S)
           /\ DOMAIN Tail(s) = 1 .. (Len(s) - 1)
           /\ \A n \in DOMAIN Tail(s) : n + 1 \in DOMAIN s /\ Tail(s)[n] = s[n + 1]
           /\ Elements(Tail(s)) \subseteq Elements(s)
           /\ Elements(s) = Elements(Tail(s)) \cup {Head(s)}
  <1>1. Len(s) \in Nat \ {0} /\ Head(s) = s[1] /\ Head(s) \in S /\ DOMAIN s = 1 .. Len(s)
    OBVIOUS
  <1>2. /\ Tail(s) \in Seq(S)
        /\ Len(Tail(s)) = Len(s) - 1
        /\ \A i \in 1 .. Len(Tail(s)) : Tail(s)[i] = s[i + 1]
    BY HeadTailProperties
  <1>3. DOMAIN Tail(s) = 1 .. (Len(s) - 1)
    BY <1>2
  <1>4. \A n \in DOMAIN s : n = 1 \/ (n - 1 \in DOMAIN Tail(s) /\ Tail(s)[n - 1] = s[n])
    BY <1>1, <1>2, <1>3
  <1>5. \A n \in DOMAIN Tail(s) : n + 1 \in DOMAIN s /\ Tail(s)[n] = s[n + 1]
    BY <1>1, <1>2, <1>3
  <1>6. Elements(s) = Elements(Tail(s)) \cup {Head(s)}
    <2>1. ASSUME NEW x \in Elements(s) PROVE x \in Elements(Tail(s)) \cup {Head(s)}
      <3>1. PICK n \in DOMAIN s : x = s[n]
        BY DEF Elements
      <3>2. QED
        BY <3>1, <1>1, <1>4 DEF Elements
    <2>2. Elements(Tail(s)) \subseteq Elements(s)
      BY <1>5 DEF Elements
    <2>3. Head(s) \in Elements(s)
      BY <1>1 DEF Elements
    <2>4. QED
      BY <2>1, <2>2, <2>3
  <1>7. QED
    BY <1>1, <1>2, <1>3, <1>5, <1>6

\* A message has the fields of its kind.
LEMMA MessageFields ==
    ASSUME NEW m \in Messages
    PROVE  /\ m.kind \in {"object", "patch", "page", "sent"}
           /\ m.kind = "object" => m.object \in Records
           /\ m.kind = "patch" => m.patch \in Patches
           /\ m.kind = "page" => m.items \in Seq(Records) /\ m.next \in Nat /\ m.total \in Nat
           /\ m.kind = "page" => m = [kind |-> "page", items |-> m.items, next |-> m.next, total |-> m.total]
           /\ m.kind = "sent" => m.entity \in Handles /\ m.ok \in BOOLEAN
  BY DEF Messages

\* A parent that is found is in the list or still to be added, and has the id.
LEMMA FindParentFacts ==
    ASSUME TypeOK, NEW entities \in SUBSET Handles, NEW p \in ParentIds
    PROVE  \/ FindParent(entities, p) = Nil
           \/ /\ FindParent(entities, p) \in entities \cup Elements(PendingAdds)
              /\ FindParent(entities, p) \in Handles
  <1> DEFINE known == {h \in entities : id[h] = p}
             candidates == IF known # {} THEN known ELSE PendingParents(p)
  <1>1. candidates \subseteq entities \cup Elements(PendingAdds)
    BY DEF PendingParents, Elements
  <1>2. Elements(PendingAdds) \subseteq Handles
    BY DEF TypeOK, EngineTypeOK, Elements
  <1>3. CASE p = NoParent \/ candidates = {}
    BY <1>3 DEF FindParent
  <1>4. CASE ~(p = NoParent \/ candidates = {})
    <2>1. FindParent(entities, p) = CHOOSE h \in candidates : TRUE
      BY <1>4 DEF FindParent
    <2>2. FindParent(entities, p) \in candidates
      BY <1>4, <2>1
    <2>3. QED
      BY <1>1, <1>2, <2>2
  <1>5. QED
    BY <1>3, <1>4

\* An entity found by its id is in the list.
LEMMA FindEntityFacts ==
    ASSUME NEW entities \in SUBSET Handles, NEW i
    PROVE  \/ FindSpaceEntityById(entities, i) = Nil
           \/ /\ FindSpaceEntityById(entities, i) \in entities
              /\ id[FindSpaceEntityById(entities, i)] = i
  BY DEF FindSpaceEntityById

\* Moving entities keeps what the service lists, and its ids.
LEMMA ReparentedFacts ==
    ASSUME NEW w \in Seq(Records), NEW moved, NEW p \in ParentIds
    PROVE  /\ Reparented(w, moved, p) \in Seq(Records)
           /\ DOMAIN Reparented(w, moved, p) = DOMAIN w
           /\ \A n \in DOMAIN w : Reparented(w, moved, p)[n].id = w[n].id
  <1>1. \A n \in DOMAIN w : w[n] \in Records /\ DOMAIN w = 1 .. Len(w)
    OBVIOUS
  <1>2. \A n \in DOMAIN w : [w[n] EXCEPT !.parentId = p] \in Records
    BY <1>1 DEF Records
  <1>3. \A n \in DOMAIN w : [w[n] EXCEPT !.parentId = p].id = w[n].id
    BY <1>1 DEF Records
  <1>4. Len(w) \in Nat /\ DOMAIN w = 1 .. Len(w)
    OBVIOUS
  <1>5. QED
    BY <1>1, <1>2, <1>3, <1>4 DEF Reparented

\* Taking an entity out of the service's list takes its id out, if no two
\* entities of the list share an id.
LEMMA WithoutFacts ==
    ASSUME NEW w \in Seq(Records), NEW i,
           \A m, n \in DOMAIN w : w[m].id = w[n].id => m = n
    PROVE  /\ Without(w, i) \in Seq(Records)
           /\ \A m, n \in DOMAIN Without(w, i) :
                Without(w, i)[m].id = Without(w, i)[n].id => m = n
           /\ \A n \in DOMAIN Without(w, i) :
                \E k \in DOMAIN w : Without(w, i)[n] = w[k] /\ w[k].id # i
  <1>1. Len(w) \in Nat /\ DOMAIN w = 1 .. Len(w) /\ \A n \in DOMAIN w : w[n] \in Records
    OBVIOUS
  <1>2. CASE \A n \in DOMAIN w : w[n].id # i
    BY <1>1, <1>2 DEF Without
  <1>3. CASE \E n \in DOMAIN w : w[n].id = i
    <2> DEFINE k == CHOOSE n \in DOMAIN w : w[n].id = i
               v == [n \in 1 .. (Len(w) - 1) |-> IF n < k THEN w[n] ELSE w[n + 1]]
    <2>1. k \in 1 .. Len(w) /\ w[k].id = i /\ Len(w) - 1 \in Nat
      BY <1>1, <1>3
    <2>2. Without(w, i) = v
      BY <1>3 DEF Without
    <2> HIDE DEF k
    <2>3. DOMAIN v = 1 .. (Len(w) - 1)
      OBVIOUS
    <2>4. \A n \in DOMAIN v : v[n] = w[IF n < k THEN n ELSE n + 1]
                              /\ (IF n < k THEN n ELSE n + 1) \in DOMAIN w
      BY <1>1, <2>1, <2>3
    <2>5. \A n \in DOMAIN v : v[n] \in Records
      BY <1>1, <2>4
    <2>6. v \in Seq(Records)
      BY <2>1, <2>3, <2>5
    <2> HIDE DEF v
    <2>7. \A m, n \in DOMAIN v : v[m].id = v[n].id => m = n
      <3> SUFFICES ASSUME NEW m \in DOMAIN v, NEW n \in DOMAIN v, v[m].id = v[n].id
                   PROVE  m = n
        OBVIOUS
      <3>1. (IF m < k THEN m ELSE m + 1) = (IF n < k THEN n ELSE n + 1)
        BY <2>4
      <3>2. QED
        BY <2>1, <2>3, <3>1
    <2>8. \A n \in DOMAIN v : \E j \in DOMAIN w : v[n] = w[j] /\ w[j].id # i
      BY <1>1, <2>1, <2>3, <2>4
    <2>9. QED
      BY <2>2, <2>6, <2>7, <2>8
  <1>4. QED
    BY <1>2, <1>3

-----------------------------------------------------------------------------
(* ResolveEntityHierarchy.                                                 *)

\* Its results have their types.
LEMMA ResolveTypes ==
    ASSUME TypeOK, NEW entities \in SUBSET Handles, NEW e \in Handles, NEW p \in ParentIds,
           ResolveEntityHierarchy(entities, e, p)
    PROVE  /\ parentId' \in [Handles -> ParentIds]
           /\ parent' \in [Handles -> Pointers]
           /\ children' \in [Handles -> SUBSET Handles]
           /\ RootHierarchyEntities' \in SUBSET Handles
  <1>1. FindParent(entities, p) \in Pointers
    BY FindParentFacts DEF Pointers
  <1>2. parentId' \in [Handles -> ParentIds] /\ parent' \in [Handles -> Pointers]
    BY <1>1 DEF TypeOK, ObjectsTypeOK, ResolveEntityHierarchy
  <1>3. children' \in [Handles -> SUBSET Handles]
    BY DEF TypeOK, ObjectsTypeOK, ResolveEntityHierarchy
  <1>4. RootHierarchyEntities' \in SUBSET Handles
    BY DEF TypeOK, EngineTypeOK, ResolveEntityHierarchy, ResolvedRoot
  <1>5. QED
    BY <1>2, <1>3, <1>4

\* It keeps Parent and ChildEntities in agreement, when the parents it can
\* find are live and no object is freed or made by the same step.
LEMMA ResolvePointers ==
    ASSUME TypeOK, PointersInv, NEW entities \in SUBSET Handles, NEW e \in Handles,
           NEW p \in ParentIds, mem[e] # "freed", mem'[e] = "live",
           \A h \in entities \cup Elements(PendingAdds) : mem[h] = "live",
           ResolveEntityHierarchy(entities, e, p),
           \A h \in Handles : /\ mem'[h] = "freed" <=> mem[h] = "freed"
                              /\ mem'[h] \in {"unused", "made"} => mem[h] \in {"unused", "made"}
    PROVE  PointersInv'
  <1> DEFINE found == FindParent(entities, p)
  <1>1. found = Nil \/ (found \in Handles /\ mem[found] = "live")
    BY FindParentFacts
  <1>2. /\ parent' = [parent EXCEPT ![e] = found]
        /\ children' = [h \in Handles |->
             IF h = found THEN children[h] \cup {e}
             ELSE IF h = parent[e] THEN children[h] \ {e} ELSE children[h]]
    BY DEF ResolveEntityHierarchy
  <1> HIDE DEF found
  <1>3. parent \in [Handles -> Pointers] /\ children \in [Handles -> SUBSET Handles] /\ Nil \notin Handles
    BY NilAssumption DEF TypeOK, ObjectsTypeOK
  <1>4. ASSUME NEW h \in Handles, mem'[h] \in {"unused", "made"}
        PROVE children'[h] = {} /\ parent'[h] = Nil
    BY <1>1, <1>2, <1>3, <1>4 DEF PointersInv
  <1>5. ASSUME NEW q \in Handles, NEW c \in Handles, mem'[q] # "freed"
        PROVE  c \in children'[q] <=> mem'[c] # "freed" /\ parent'[c] = q
    BY <1>1, <1>2, <1>3, <1>5 DEF PointersInv
  <1>6. QED
    BY <1>4, <1>5 DEF PointersInv

\* It keeps the list of root entities sound, when e is live afterwards.
LEMMA ResolveRoot ==
    ASSUME TypeOK, RootListIsSound, NEW entities \in SUBSET Handles, NEW e \in Handles,
           NEW p \in ParentIds, ResolveEntityHierarchy(entities, e, p), mem'[e] = "live",
           \A h \in Handles : mem[h] = "live" => mem'[h] = "live",
           id' = id
    PROVE  RootListIsSound'
  <1>1. /\ parentId' = [parentId EXCEPT ![e] = p]
        /\ RootHierarchyEntities' = ResolvedRoot(e, p)
        /\ parentId \in [Handles -> ParentIds]
        /\ RootHierarchyEntities \subseteq Handles
    BY DEF ResolveEntityHierarchy, TypeOK, ObjectsTypeOK, EngineTypeOK
  <1>2. QED
    BY <1>1 DEF RootListIsSound, ResolvedRoot
-----------------------------------------------------------------------------
(* What the service lists and sends.                                       *)

\* Sending appends to the messages in flight.
LEMMA SendFacts ==
    ASSUME NEW ms \in Seq(Messages), inbox \in Seq(Messages), inbox' = inbox \o ms
    PROVE  /\ inbox' \in Seq(Messages)
           /\ DOMAIN inbox = 1 .. Len(inbox) /\ Len(inbox) \in Nat
           /\ DOMAIN inbox \subseteq DOMAIN inbox'
           /\ \A n \in DOMAIN inbox : inbox'[n] = inbox[n]
           /\ \A n \in DOMAIN inbox' :
                n \in DOMAIN inbox \/ (n > Len(inbox) /\ n - Len(inbox) \in DOMAIN ms
                                       /\ inbox'[n] = ms[n - Len(inbox)])
           /\ \A k \in DOMAIN ms :
                Len(inbox) + k \in DOMAIN inbox' /\ inbox'[Len(inbox) + k] = ms[k]
  <1>1. /\ inbox \o ms \in Seq(Messages)
        /\ Len(inbox \o ms) = Len(inbox) + Len(ms)
        /\ \A i \in 1 .. Len(inbox) + Len(ms) :
             (inbox \o ms)[i] = IF i <= Len(inbox) THEN inbox[i] ELSE ms[i - Len(inbox)]
    BY ConcatProperties
  <1>2. Len(inbox) \in Nat /\ Len(ms) \in Nat /\ DOMAIN inbox = 1 .. Len(inbox)
        /\ DOMAIN ms = 1 .. Len(ms) /\ DOMAIN inbox' = 1 .. (Len(inbox) + Len(ms))
    BY <1>1
  <1>3. QED
    BY <1>1, <1>2

\* The message about a new entity is a message, and introduces its id.
LEMMA ObjectMessageFacts ==
    ASSUME NEW r \in Records
    PROVE  /\ ObjectMessage(r) \in Messages
           /\ ObjectMessage(r).kind = "object"
           /\ Mentions(ObjectMessage(r)) = {r.id}
  BY DEF ObjectMessage, Messages, Mentions

\* The same for a patch, which introduces no id.
LEMMA MoveMessageFacts ==
    ASSUME NEW i \in Ids, NEW p \in ParentIds
    PROVE  /\ PatchMessage(i, FALSE, p) \in Messages
           /\ PatchMessage(i, FALSE, p).kind = "patch"
           /\ ~PatchMessage(i, FALSE, p).patch.destroy
           /\ Mentions(PatchMessage(i, FALSE, p)) = {}
  BY DEF PatchMessage, Messages, Mentions, Patches

\* The same for the patch that destroys an entity.
LEMMA DestroyMessageFacts ==
    ASSUME NEW i \in Ids, NEW p \in ParentIds
    PROVE  /\ PatchMessage(i, TRUE, p) \in Messages
           /\ PatchMessage(i, TRUE, p).kind = "patch"
           /\ PatchMessage(i, TRUE, p).patch.id = i /\ PatchMessage(i, TRUE, p).patch.destroy
           /\ Mentions(PatchMessage(i, TRUE, p)) = {}
  BY DEF PatchMessage, Messages, Mentions, Patches

\* The same for a page, which introduces ids of the service's list.
LEMMA PageFacts ==
    ASSUME world \in Seq(Records), NEW skip \in Nat
    PROVE  /\ Page(skip) \in Messages
           /\ Page(skip).kind = "page"
           /\ Mentions(Page(skip)) \subseteq WorldIds
  <1> DEFINE size == IF Len(world) > skip + PageLimit THEN PageLimit
                     ELSE IF Len(world) > skip THEN Len(world) - skip ELSE 0
             items == SubSeq(world, skip + 1, skip + size)
  <1>1. PageLimit \in Nat /\ Len(world) \in Nat
    BY PageLimitAssumption
  <1>2. size \in Nat /\ (size = 0 \/ skip + size <= Len(world))
    BY <1>1
  <1>3. Page(skip) = [kind |-> "page", items |-> items, next |-> skip + size, total |-> Len(world)]
    BY DEF Page
  <1> HIDE DEF size
  <1>4. \A n \in (skip + 1) .. (skip + size) : n \in 1 .. Len(world) /\ world[n] \in Records
    BY <1>1, <1>2
  <1>5. /\ items \in Seq(Records)
        /\ Len(items) = size
        /\ \A n \in 1 .. size : items[n] = world[skip + n]
    <2>1. CASE size = 0
      <3>1. items = <<>>
        BY <2>1, <1>1, <1>2, SubSeqEmpty
      <3>2. QED
        BY <3>1, <2>1, EmptySeq
    <2>2. CASE size # 0
      <3>1. /\ items \in Seq(Records)
            /\ Len(items) = skip + size - (skip + 1) + 1
            /\ \A i \in 1 .. (skip + size - (skip + 1) + 1) : items[i] = world[skip + 1 + i - 1]
        BY <2>2, <1>1, <1>2, <1>4, SubSeqProperties
      <3>2. QED
        BY <3>1, <1>1, <1>2
    <2>3. QED
      BY <2>1, <2>2
  <1> HIDE DEF items
  <1>6. Elements(items) \subseteq Elements(world)
    BY <1>1, <1>2, <1>4, <1>5 DEF Elements
  <1>7. QED
    BY <1>1, <1>2, <1>3, <1>5, <1>6 DEF Messages, Mentions, WorldIds

\* A step that changes only what the service records of its entities keeps
\* their ids.
LEMMA SameIds ==
    ASSUME DOMAIN world' = DOMAIN world, \A n \in DOMAIN world : world'[n].id = world[n].id,
           ownAvatars' = ownAvatars
    PROVE  /\ WorldIds' = WorldIds
           /\ UniqueIds(world) => UniqueIds(world)'
  BY DEF WorldIds, Elements, UniqueIds

\* A new entity of the service has a new id.
LEMMA NewWorldId ==
    ASSUME world \in Seq(Records), NEW r \in Records, world' = Append(world, r),
           ownAvatars' = ownAvatars, UniqueIds(world), r.id \notin WorldIds
    PROVE  /\ world' \in Seq(Records)
           /\ WorldIds' = WorldIds \cup {r.id}
           /\ UniqueIds(world)'
  <1>1. /\ world' \in Seq(Records)
        /\ Elements(world') = Elements(world) \cup {r}
        /\ DOMAIN world' = 1 .. (Len(world) + 1)
        /\ \A n \in 1 .. Len(world) : world'[n] = world[n]
        /\ world'[Len(world) + 1] = r
    BY AppendElements
  <1>2. WorldIds' = WorldIds \cup {r.id}
    BY <1>1 DEF WorldIds
  <1>3. \A n \in 1 .. Len(world) : world[n].id # r.id
    BY DEF WorldIds, Elements
  <1>4. DOMAIN world = 1 .. Len(world) /\ Len(world) \in Nat
    OBVIOUS
  <1>5. UniqueIds(world)'
    BY <1>1, <1>3, <1>4 DEF UniqueIds
  <1>6. QED
    BY <1>1, <1>2, <1>5

\* A destroyed entity leaves the service's list, and nothing enters it.
LEMMA DestroyedId ==
    ASSUME world \in Seq(Records), UniqueIds(world), NEW moved, NEW i,
           world' = Without(Reparented(world, moved, NoParent), i),
           ownAvatars' = ownAvatars \ {i}
    PROVE  /\ world' \in Seq(Records)
           /\ WorldIds' \subseteq WorldIds \ {i}
           /\ UniqueIds(world)'
  <1> DEFINE w == Reparented(world, moved, NoParent)
  <1>1. w \in Seq(Records) /\ DOMAIN w = DOMAIN world /\ \A n \in DOMAIN world : w[n].id = world[n].id
    BY ReparentedFacts DEF ParentIds
  <1> HIDE DEF w
  <1>2. \A m, n \in DOMAIN w : w[m].id = w[n].id => m = n
    BY <1>1 DEF UniqueIds
  <1>3. world' = Without(w, i)
    BY DEF w
  <1>4. /\ world' \in Seq(Records)
        /\ UniqueIds(world)'
        /\ \A n \in DOMAIN world' : \E k \in DOMAIN w : world'[n] = w[k] /\ w[k].id # i
    BY <1>1, <1>2, <1>3, WithoutFacts DEF UniqueIds
  <1>5. \A n \in DOMAIN world' : \E k \in DOMAIN world : world'[n].id = world[k].id /\ world[k].id # i
    <2> SUFFICES ASSUME NEW n \in DOMAIN world'
                 PROVE  \E k \in DOMAIN world : world'[n].id = world[k].id /\ world[k].id # i
      OBVIOUS
    <2>1. PICK k \in DOMAIN w : world'[n] = w[k] /\ w[k].id # i
      BY <1>4
    <2>2. QED
      BY <1>1, <2>1
  <1>6. WorldIds' \subseteq WorldIds \ {i}
    BY <1>5 DEF WorldIds, Elements
  <1>7. QED
    BY <1>4, <1>6
-----------------------------------------------------------------------------
(* What each step does to the service's list and to the messages.          *)

\* Another client creates an entity: one message is sent, about a new id.
LEMMA RemoteCreateEffect ==
    ASSUME StoreInv, NEW i \in Ids, NEW t \in Types, NEW p \in ParentIds, RemoteCreate(i, t, p)
    PROVE  /\ world' \in Seq(Records) /\ inbox' \in Seq(Messages)
           /\ UniqueIds(world)' /\ WorldIds' = WorldIds \cup {i} /\ i \notin issued
           /\ \A n \in DOMAIN inbox :
                n \in DOMAIN inbox' /\ inbox'[n] = inbox[n]
           /\ \A n \in DOMAIN inbox' \ DOMAIN inbox :
                /\ \A m \in DOMAIN inbox : m < n
                /\ inbox'[n].kind = "object" /\ Mentions(inbox'[n]) = {i}
  <1> DEFINE r == [id |-> i, type |-> t, parentId |-> p]
  <1>1. r \in Records /\ r.id = i
    BY DEF Records
  <1>2. /\ world' = Append(world, r) /\ inbox' = inbox \o <<ObjectMessage(r)>>
        /\ ownAvatars' = ownAvatars /\ i \notin issued
    BY DEF RemoteCreate, Send
  <1> HIDE DEF r
  <1>3. /\ world \in Seq(Records) /\ inbox \in Seq(Messages) /\ UniqueIds(world)
        /\ i \notin WorldIds
    BY <1>2 DEF StoreInv, TypeOK, ServiceTypeOK, IssuedInv
  <1>4. world' \in Seq(Records) /\ UniqueIds(world)' /\ WorldIds' = WorldIds \cup {i}
    BY <1>1, <1>2, <1>3, NewWorldId
  <1>5. <<ObjectMessage(r)>> \in Seq(Messages) /\ DOMAIN <<ObjectMessage(r)>> = {1}
        /\ <<ObjectMessage(r)>>[1] = ObjectMessage(r)
    BY <1>1, ObjectMessageFacts
  <1>6. /\ inbox' \in Seq(Messages)
        /\ DOMAIN inbox = 1 .. Len(inbox) /\ Len(inbox) \in Nat
        /\ DOMAIN inbox \subseteq DOMAIN inbox'
        /\ \A n \in DOMAIN inbox : inbox'[n] = inbox[n]
        /\ \A n \in DOMAIN inbox' :
             n \in DOMAIN inbox \/ (n > Len(inbox) /\ n - Len(inbox) \in {1}
                                    /\ inbox'[n] = <<ObjectMessage(r)>>[n - Len(inbox)])
    BY <1>2, <1>3, <1>5, SendFacts
  <1>7. \A n \in DOMAIN inbox' : n \in DOMAIN inbox
                                 \/ (n > Len(inbox) /\ inbox'[n] = ObjectMessage(r))
    BY <1>5, <1>6
  <1>8. \A n \in DOMAIN inbox' : n > Len(inbox) => \A m \in DOMAIN inbox : m < n
    BY <1>6, inbox' \in Seq(Messages)
  <1>9. QED
    BY <1>1, <1>2, <1>4, <1>6, <1>7, <1>8, ObjectMessageFacts

\* Another client moves an entity: one patch is sent, which destroys nothing.
LEMMA RemoteReparentEffect ==
    ASSUME StoreInv, NEW i \in Ids, NEW p \in ParentIds, RemoteReparent(i, p)
    PROVE  /\ world' \in Seq(Records) /\ inbox' \in Seq(Messages)
           /\ UniqueIds(world)' /\ WorldIds' = WorldIds
           /\ \A n \in DOMAIN inbox :
                n \in DOMAIN inbox' /\ inbox'[n] = inbox[n]
           /\ \A n \in DOMAIN inbox' \ DOMAIN inbox :
                /\ inbox'[n].kind = "patch" /\ Mentions(inbox'[n]) = {}
                /\ ~inbox'[n].patch.destroy
  <1> DEFINE m1 == PatchMessage(i, FALSE, p)
  <1>1. /\ m1 \in Messages /\ m1.kind = "patch" /\ Mentions(m1) = {} /\ ~m1.patch.destroy
    BY MoveMessageFacts
  <1>2. /\ world' = Reparented(world, {i}, p) /\ inbox' = inbox \o <<m1>>
        /\ ownAvatars' = ownAvatars
    BY DEF RemoteReparent, Send
  <1> HIDE DEF m1
  <1>3. world \in Seq(Records) /\ inbox \in Seq(Messages) /\ UniqueIds(world)
    BY DEF StoreInv, TypeOK, ServiceTypeOK, IssuedInv
  <1>4. world' \in Seq(Records) /\ UniqueIds(world)' /\ WorldIds' = WorldIds
    BY <1>2, <1>3, ReparentedFacts, SameIds
  <1>5. <<m1>> \in Seq(Messages) /\ DOMAIN <<m1>> = {1} /\ <<m1>>[1] = m1
    BY <1>1
  <1>6. /\ inbox' \in Seq(Messages)
        /\ DOMAIN inbox \subseteq DOMAIN inbox'
        /\ \A n \in DOMAIN inbox : inbox'[n] = inbox[n]
        /\ \A n \in DOMAIN inbox' :
             n \in DOMAIN inbox \/ (n - Len(inbox) \in {1} /\ inbox'[n] = <<m1>>[n - Len(inbox)])
    BY <1>2, <1>3, <1>5, SendFacts
  <1>7. \A n \in DOMAIN inbox' : n \in DOMAIN inbox \/ inbox'[n] = m1
    BY <1>5, <1>6
  <1>8. QED
    BY <1>1, <1>4, <1>6, <1>7

\* Another client destroys an entity: the patches sent destroy it only, and
\* the service lists it no more.
LEMMA RemoteDestroyEffect ==
    ASSUME StoreInv, NEW i \in Ids, RemoteDestroy(i)
    PROVE  /\ world' \in Seq(Records) /\ inbox' \in Seq(Messages)
           /\ UniqueIds(world)' /\ WorldIds' \subseteq WorldIds \ {i} /\ i \in issued
           /\ \A n \in DOMAIN inbox :
                n \in DOMAIN inbox' /\ inbox'[n] = inbox[n]
           /\ \A n \in DOMAIN inbox' \ DOMAIN inbox :
                /\ inbox'[n].kind = "patch" /\ Mentions(inbox'[n]) = {}
                /\ inbox'[n].patch.destroy => inbox'[n].patch.id = i
           /\ Len(inbox) \in Nat /\ DOMAIN inbox = 1 .. Len(inbox)
           /\ Len(inbox) + 1 \in DOMAIN inbox' /\ inbox'[Len(inbox) + 1].patch.destroy
  <1> DEFINE moved == {r.id : r \in {w \in Elements(world) : w.parentId = i}}
             m1 == PatchMessage(i, TRUE, NoParent)
             rest(n, order) == [k \in 1 .. n |-> PatchMessage(order[k], FALSE, NoParent)]
  <1>1. world \in Seq(Records) /\ inbox \in Seq(Messages) /\ UniqueIds(world) /\ WorldIds \subseteq issued
    BY DEF StoreInv, TypeOK, ServiceTypeOK, IssuedInv
  <1>2. moved \subseteq Ids
    <2>1. Elements(world) \subseteq Records
      BY <1>1 DEF Elements
    <2>2. \A r \in Records : r.id \in Ids
      BY DEF Records
    <2>3. QED
      BY <2>1, <2>2
  <1>3. PICK n \in 0 .. MaxInbox : \E order \in [1 .. n -> moved] :
            inbox' = inbox \o (<<m1>> \o rest(n, order))
    BY DEF RemoteDestroy, Send
  <1>4. PICK order \in [1 .. n -> moved] : inbox' = inbox \o (<<m1>> \o rest(n, order))
    BY <1>3
  <1>5. /\ world' = Without(Reparented(world, moved, NoParent), i)
        /\ ownAvatars' = ownAvatars \ {i}
        /\ i \in WorldIds
    BY DEF RemoteDestroy
  <1> HIDE DEF moved, m1, rest
  <1>6. world' \in Seq(Records) /\ UniqueIds(world)' /\ WorldIds' \subseteq WorldIds \ {i}
    BY <1>1, <1>5, DestroyedId
  <1>7. /\ m1 \in Messages /\ m1.kind = "patch" /\ Mentions(m1) = {} /\ m1.patch.id = i
        /\ m1.patch.destroy
    <2>1. NoParent \in ParentIds
      BY DEF ParentIds
    <2>2. m1 = PatchMessage(i, TRUE, NoParent)
      BY DEF m1
    <2>3. QED
      BY <2>1, <2>2, DestroyMessageFacts
  <1>8. \A k \in 1 .. n :
          /\ PatchMessage(order[k], FALSE, NoParent) \in Messages
          /\ PatchMessage(order[k], FALSE, NoParent).kind = "patch"
          /\ Mentions(PatchMessage(order[k], FALSE, NoParent)) = {}
          /\ ~PatchMessage(order[k], FALSE, NoParent).patch.destroy
    <2>1. NoParent \in ParentIds
      BY DEF ParentIds
    <2> TAKE k \in 1 .. n
    <2>2. order[k] \in Ids
      BY <1>2, <1>4
    <2>3. QED
      BY <2>1, <2>2, MoveMessageFacts
  <1>9. n \in Nat
    BY <1>3
  <1>10. /\ rest(n, order) \in Seq(Messages) /\ Len(rest(n, order)) = n
         /\ \A k \in 1 .. n : rest(n, order)[k] = PatchMessage(order[k], FALSE, NoParent)
    <2>1. DOMAIN rest(n, order) = 1 .. n
          /\ \A k \in 1 .. n : rest(n, order)[k] = PatchMessage(order[k], FALSE, NoParent)
      BY DEF rest
    <2>2. \A k \in 1 .. n : rest(n, order)[k] \in Messages
      BY <1>8, <2>1
    <2>3. rest(n, order) \in [1 .. n -> Messages]
      BY <2>2 DEF rest
    <2>4. rest(n, order) \in Seq(Messages)
      BY <2>3, <1>9
    <2>5. Len(rest(n, order)) = n
      BY <2>1, <2>4, <1>9
    <2>6. QED
      BY <2>1, <2>4, <2>5
  <1> DEFINE ms == <<m1>> \o rest(n, order)
  <1>11. /\ ms \in Seq(Messages) /\ DOMAIN ms = 1 .. (n + 1)
         /\ ms[1] = m1 /\ \A k \in 2 .. (n + 1) : ms[k] = rest(n, order)[k - 1]
    BY <1>7, <1>9, <1>10, ConcatProperties
  <1>12. inbox' = inbox \o ms
    BY <1>4
  <1> HIDE DEF ms
  <1>13. \A k \in DOMAIN ms : ms[k].kind = "patch" /\ Mentions(ms[k]) = {}
                              /\ (ms[k].patch.destroy => ms[k].patch.id = i)
    <2> TAKE k \in DOMAIN ms
    <2>1. CASE k = 1
      BY <2>1, <1>7, <1>11
    <2>2. CASE k # 1
      <3>1. k - 1 \in 1 .. n /\ k \in 2 .. (n + 1)
        BY <2>2, <1>9, <1>11
      <3>2. ms[k] = PatchMessage(order[k - 1], FALSE, NoParent)
        BY <3>1, <1>10, <1>11
      <3>3. QED
        BY <3>1, <3>2, <1>8
    <2>3. QED
      BY <2>1, <2>2
  <1>14. /\ Len(inbox) \in Nat /\ DOMAIN inbox = 1 .. Len(inbox)
         /\ Len(inbox) + 1 \in DOMAIN inbox' /\ inbox'[Len(inbox) + 1].patch.destroy
    <2>1. 1 \in DOMAIN ms /\ ms[1].patch.destroy
      BY <1>7, <1>9, <1>11
    <2>2. inbox \in Seq(Messages) /\ ms \in Seq(Messages)
      BY <1>1, <1>11
    <2>3. /\ DOMAIN inbox = 1 .. Len(inbox) /\ Len(inbox) \in Nat
          /\ \A k \in DOMAIN ms :
               Len(inbox) + k \in DOMAIN inbox' /\ inbox'[Len(inbox) + k] = ms[k]
      BY <2>2, <1>12, SendFacts
    <2>4. QED
      BY <2>1, <2>3
  <1>15. QED
    BY <1>1, <1>5, <1>6, <1>11, <1>12, <1>13, <1>14, SendFacts

\* Taking the first message leaves the others in order.
LEMMA ReceivedFacts ==
    ASSUME StoreInv, inbox # <<>>, inbox' = Tail(inbox)
    PROVE  /\ inbox' \in Seq(Messages)
           /\ Head(inbox) = inbox[1] /\ 1 \in DOMAIN inbox /\ Head(inbox) \in Messages
           /\ \A n \in DOMAIN inbox' :
                n \in Nat \ {0} /\ n + 1 \in DOMAIN inbox /\ inbox'[n] = inbox[n + 1]
  <1>1. inbox \in Seq(Messages)
    BY DEF StoreInv, TypeOK, ServiceTypeOK
  <1>2. QED
    BY <1>1, TailElements

\* One entity of a page is taken off it.
LEMMA RetrievedEntityEffect ==
    ASSUME StoreInv, NEW h \in Handles, RetrievedEntity(h)
    PROVE  /\ inbox' \in Seq(Messages) /\ DOMAIN inbox' = DOMAIN inbox
           /\ Head(Head(inbox).items) \in Records
           /\ 1 \in DOMAIN inbox /\ inbox[1].kind = "page"
           /\ Head(Head(inbox).items).id \in Mentions(inbox[1])
           /\ inbox'[1].kind = "page" /\ Mentions(inbox'[1]) \subseteq Mentions(inbox[1])
           /\ \A n \in DOMAIN inbox : n \in Nat \ {0} /\ (n # 1 => inbox'[n] = inbox[n])
  <1> DEFINE page == Head(inbox)
             left == [page EXCEPT !.items = Tail(@)]
  <1>1. /\ inbox # <<>> /\ page.kind = "page" /\ page.items # <<>>
        /\ inbox' = <<left>> \o Tail(inbox)
    BY DEF RetrievedEntity, Received
  <1>2. inbox \in Seq(Messages)
    BY DEF StoreInv, TypeOK, ServiceTypeOK
  <1>3. /\ page \in Messages /\ page = inbox[1] /\ 1 \in DOMAIN inbox
        /\ DOMAIN inbox = 1 .. Len(inbox) /\ Len(inbox) \in Nat \ {0}
        /\ Tail(inbox) \in Seq(Messages) /\ DOMAIN Tail(inbox) = 1 .. (Len(inbox) - 1)
        /\ \A n \in DOMAIN Tail(inbox) : Tail(inbox)[n] = inbox[n + 1]
    BY <1>1, <1>2, TailElements
  <1> HIDE DEF page
  <1>4. /\ page.items \in Seq(Records) /\ page.next \in Nat /\ page.total \in Nat
        /\ page = [kind |-> "page", items |-> page.items, next |-> page.next, total |-> page.total]
    BY <1>1, <1>3, MessageFields
  <1>5. /\ Head(page.items) \in Records /\ Tail(page.items) \in Seq(Records)
        /\ Head(page.items) \in Elements(page.items)
        /\ Elements(Tail(page.items)) \subseteq Elements(page.items)
    BY <1>1, <1>4, TailElements
  <1>6. page \in [kind : {"page"}, items : Seq(Records), next : Nat, total : Nat]
    BY <1>4
  <1>7. left \in Messages /\ left.kind = "page" /\ left.items = Tail(page.items)
    <2>1. left \in [kind : {"page"}, items : Seq(Records), next : Nat, total : Nat]
      BY <1>5, <1>6
    <2>2. left.items = Tail(page.items)
      BY <1>6
    <2> HIDE DEF left
    <2>3. left.kind = "page"
      BY <2>1
    <2>4. QED
      BY <2>1, <2>2, <2>3 DEF Messages
  <1> HIDE DEF left
  <1>8. Mentions(left) \subseteq Mentions(page) /\ Head(page.items).id \in Mentions(page)
    BY <1>1, <1>5, <1>7 DEF Mentions
  <1>9. /\ <<left>> \in Seq(Messages) /\ Len(<<left>>) = 1 /\ <<left>>[1] = left
    BY <1>7
  <1>10. Len(Tail(inbox)) = Len(inbox) - 1
    BY <1>3
  <1>11. /\ inbox' \in Seq(Messages) /\ Len(inbox') = 1 + (Len(inbox) - 1)
         /\ \A n \in 1 .. (1 + (Len(inbox) - 1)) :
              inbox'[n] = IF n <= 1 THEN <<left>>[n] ELSE Tail(inbox)[n - 1]
    BY <1>1, <1>3, <1>9, <1>10, ConcatProperties
  <1>12. DOMAIN inbox' = DOMAIN inbox /\ inbox'[1] = left
    BY <1>3, <1>9, <1>11
  <1>13. \A n \in DOMAIN inbox : n # 1 => inbox'[n] = inbox[n]
    BY <1>3, <1>11
  <1>14. QED
    BY <1>1, <1>3, <1>5, <1>7, <1>8, <1>11, <1>12, <1>13 DEF page

\* At the end of a page the next one, if any, is appended.
LEMMA RetrievedPageEffect ==
    ASSUME StoreInv, RetrievedPage
    PROVE  /\ inbox' \in Seq(Messages)
           /\ \A n \in DOMAIN inbox' :
                /\ n \in Nat \ {0}
                /\ \/ n + 1 \in DOMAIN inbox /\ inbox'[n] = inbox[n + 1]
                   \/ /\ \A m \in DOMAIN inbox' : m <= n
                      /\ inbox'[n].kind = "page" /\ Mentions(inbox'[n]) \subseteq WorldIds
  <1>1. inbox # <<>> /\ Head(inbox).kind = "page"
    BY DEF RetrievedPage, Received
  <1>2. inbox \in Seq(Messages) /\ world \in Seq(Records)
    BY DEF StoreInv, TypeOK, ServiceTypeOK
  <1>3. /\ Head(inbox) \in Messages
        /\ Len(inbox) \in Nat \ {0}
        /\ Tail(inbox) \in Seq(Messages) /\ DOMAIN Tail(inbox) = 1 .. (Len(inbox) - 1)
        /\ \A n \in DOMAIN Tail(inbox) : n + 1 \in DOMAIN inbox /\ Tail(inbox)[n] = inbox[n + 1]
    BY <1>1, <1>2, TailElements
  <1>4. CASE inbox' = Tail(inbox)
    BY <1>3, <1>4
  <1>5. CASE inbox' = Append(Tail(inbox), Page(Head(inbox).next))
    <2> DEFINE page == Page(Head(inbox).next)
    <2>1. page \in Messages /\ page.kind = "page" /\ Mentions(page) \subseteq WorldIds
      BY <1>1, <1>2, <1>3, MessageFields, PageFacts
    <2> HIDE DEF page
    <2>2. Len(Tail(inbox)) = Len(inbox) - 1
      BY <1>3
    <2>3. /\ inbox' \in Seq(Messages) /\ DOMAIN inbox' = 1 .. Len(inbox)
          /\ \A n \in 1 .. (Len(inbox) - 1) : inbox'[n] = Tail(inbox)[n]
          /\ inbox'[Len(inbox)] = page
      BY <1>3, <1>5, <2>1, <2>2, AppendElements DEF page
    <2>4. ASSUME NEW n \in DOMAIN inbox'
          PROVE  /\ n \in Nat \ {0}
                 /\ n \in DOMAIN Tail(inbox) \/ (n = Len(inbox) /\ \A m \in DOMAIN inbox' : m <= n)
      BY <1>3, <2>3
    <2>5. QED
      BY <1>3, <2>1, <2>3, <2>4
  <1>6. QED
    BY <1>4, <1>5 DEF RetrievedPage

\* The fetch sends for a page.
LEMMA FetchEffect ==
    ASSUME StoreInv, FetchAllEntitiesAndPopulateBuffers
    PROVE  /\ inbox' \in Seq(Messages)
           /\ \A n \in DOMAIN inbox :
                n \in DOMAIN inbox' /\ inbox'[n] = inbox[n]
           /\ \A n \in DOMAIN inbox' \ DOMAIN inbox :
                /\ \A m \in DOMAIN inbox : m < n
                /\ inbox'[n].kind = "page" /\ Mentions(inbox'[n]) \subseteq WorldIds
  <1>1. inbox \in Seq(Messages) /\ world \in Seq(Records)
    BY DEF StoreInv, TypeOK, ServiceTypeOK
  <1>2. CASE inbox' = inbox
    BY <1>1, <1>2
  <1>3. CASE inbox' = inbox \o <<Page(0)>>
    <2> DEFINE page == Page(0)
    <2>1. page \in Messages /\ page.kind = "page" /\ Mentions(page) \subseteq WorldIds
      BY <1>1, PageFacts
    <2> HIDE DEF page
    <2>2. <<page>> \in Seq(Messages) /\ DOMAIN <<page>> = {1} /\ <<page>>[1] = page
      BY <2>1
    <2>3. /\ inbox' \in Seq(Messages)
          /\ DOMAIN inbox = 1 .. Len(inbox) /\ Len(inbox) \in Nat
          /\ DOMAIN inbox \subseteq DOMAIN inbox'
          /\ \A n \in DOMAIN inbox : inbox'[n] = inbox[n]
          /\ \A n \in DOMAIN inbox' :
               n \in DOMAIN inbox \/ (n > Len(inbox) /\ n - Len(inbox) \in {1}
                                      /\ inbox'[n] = <<page>>[n - Len(inbox)])
      BY <1>1, <1>3, <2>2, SendFacts DEF page
    <2>4. \A n \in DOMAIN inbox' : n \in DOMAIN inbox \/ (n > Len(inbox) /\ inbox'[n] = page)
      BY <2>2, <2>3
    <2>5. \A n \in DOMAIN inbox' : n > Len(inbox) => \A m \in DOMAIN inbox : m < n
      BY <2>3, inbox' \in Seq(Messages)
    <2>6. QED
      BY <2>1, <2>3, <2>4, <2>5
  <1>4. QED
    BY <1>2, <1>3 DEF FetchAllEntitiesAndPopulateBuffers, Send

\* A creation takes a new id and is answered once.
LEMMA CreateEffect ==
    ASSUME StoreInv, NEW h \in Handles, NEW i \in Ids, NEW t \in Types, NEW p \in ParentIds,
           Create(h, i, t, p)
    PROVE  /\ world' \in Seq(Records) /\ inbox' \in Seq(Messages)
           /\ UniqueIds(world)' /\ WorldIds' \subseteq WorldIds \cup {i} /\ i \notin issued
           /\ ownAvatars' \subseteq Ids
           /\ \A n \in DOMAIN inbox :
                n \in DOMAIN inbox' /\ inbox'[n] = inbox[n]
           /\ \A n \in DOMAIN inbox' \ DOMAIN inbox :
                /\ \A m \in DOMAIN inbox' : m <= n
                /\ inbox'[n].kind = "sent" /\ inbox'[n].entity = h /\ Mentions(inbox'[n]) = {}
  <1> DEFINE r == [id |-> i, type |-> t, parentId |-> p]
  <1>1. PICK ok \in BOOLEAN :
          /\ ownAvatars' = IF ok /\ t = "Avatar" THEN ownAvatars \cup {i} ELSE ownAvatars
          /\ world' = IF ok /\ t = "Object" THEN Append(world, r) ELSE world
          /\ inbox' = inbox \o <<[kind |-> "sent", entity |-> h, ok |-> ok]>>
    BY DEF Create, Send
  <1>2. /\ world \in Seq(Records) /\ inbox \in Seq(Messages) /\ UniqueIds(world)
        /\ ownAvatars \subseteq Ids /\ i \notin issued /\ i \notin WorldIds
    BY DEF StoreInv, TypeOK, ServiceTypeOK, IssuedInv, Create
  <1>3. r \in Records /\ r.id = i
    BY DEF Records
  <1> HIDE DEF r
  <1>4. /\ world' \in Seq(Records) /\ UniqueIds(world)' /\ WorldIds' \subseteq WorldIds \cup {i}
    <2>1. CASE world' = Append(world, r) /\ ownAvatars' = ownAvatars
      BY <2>1, <1>2, <1>3, NewWorldId
    <2>2. CASE world' = world /\ ownAvatars' = ownAvatars
      BY <2>2, <1>2 DEF WorldIds, UniqueIds
    <2>3. CASE world' = world /\ ownAvatars' = ownAvatars \cup {i}
      BY <2>3, <1>2 DEF WorldIds, UniqueIds
    <2>4. "Avatar" # "Object"
      OBVIOUS
    <2>5. QED
      BY <2>1, <2>2, <2>3, <2>4, <1>1
  <1>5. ownAvatars' \subseteq Ids
    BY <1>1, <1>2
  <1> DEFINE sent == [kind |-> "sent", entity |-> h, ok |-> ok]
  <1>6. sent \in Messages /\ sent.kind = "sent" /\ sent.entity = h /\ Mentions(sent) = {}
    BY <1>1 DEF Messages, Mentions
  <1>7. inbox' = inbox \o <<sent>>
    BY <1>1
  <1> HIDE DEF sent
  <1>8. <<sent>> \in Seq(Messages) /\ DOMAIN <<sent>> = {1} /\ <<sent>>[1] = sent
    BY <1>6
  <1>9. /\ inbox' \in Seq(Messages)
        /\ DOMAIN inbox = 1 .. Len(inbox) /\ Len(inbox) \in Nat
        /\ DOMAIN inbox \subseteq DOMAIN inbox'
        /\ \A n \in DOMAIN inbox : inbox'[n] = inbox[n]
        /\ \A n \in DOMAIN inbox' :
             n \in DOMAIN inbox \/ (n > Len(inbox) /\ n - Len(inbox) \in {1}
                                    /\ inbox'[n] = <<sent>>[n - Len(inbox)])
    BY <1>2, <1>7, <1>8, SendFacts
  <1>10. \A n \in DOMAIN inbox' : n \in DOMAIN inbox \/ (n = Len(inbox) + 1 /\ inbox'[n] = sent)
    BY <1>8, <1>9, inbox' \in Seq(Messages)
  <1>11. \A n \in DOMAIN inbox' \ DOMAIN inbox : \A m \in DOMAIN inbox' : m <= n
    BY <1>9, <1>10
  <1>12. QED
    BY <1>2, <1>4, <1>5, <1>6, <1>9, <1>10, <1>11

\* The patches this client sends change no id.
LEMMA SendPatchesEffect ==
    ASSUME StoreInv, SendPatches
    PROVE  /\ world' \in Seq(Records) /\ UniqueIds(world)' /\ WorldIds' = WorldIds
  <1>1. /\ world \in Seq(Records) /\ UniqueIds(world)
        /\ parentId \in [Handles -> ParentIds] /\ newParentId \in [Handles -> ParentIds \cup {Clean}]
        /\ PendingOutgoingUpdateUniqueSet \subseteq Handles
    BY DEF StoreInv, TypeOK, ServiceTypeOK, ObjectsTypeOK, EngineTypeOK, IssuedInv
  <1>2. PICK sent \in SUBSET PendingOutgoingUpdateUniqueSet :
          \/ world' = world
          \/ world' = [n \in DOMAIN world |->
                IF \E h \in sent : id[h] = world[n].id
                THEN [world[n] EXCEPT !.parentId =
                        PatchParentId(CHOOSE h \in sent : id[h] = world[n].id)]
                ELSE world[n]]
    BY DEF SendPatches
  <1>3. CASE world' = [n \in DOMAIN world |->
                IF \E h \in sent : id[h] = world[n].id
                THEN [world[n] EXCEPT !.parentId =
                        PatchParentId(CHOOSE h \in sent : id[h] = world[n].id)]
                ELSE world[n]]
    <2>1. \A h \in Handles : PatchParentId(h) \in ParentIds
      BY <1>1 DEF PatchParentId
    <2>2. \A n \in DOMAIN world : world[n] \in Records
      BY <1>1
    <2>3. \A r \in Records : \A p \in ParentIds :
            [r EXCEPT !.parentId = p] \in Records /\ [r EXCEPT !.parentId = p].id = r.id
      BY DEF Records
    <2>4. ASSUME NEW n \in DOMAIN world
          PROVE world'[n] \in Records /\ world'[n].id = world[n].id
      <3>1. CASE \E h \in sent : id[h] = world[n].id
        <4> DEFINE g == CHOOSE h \in sent : id[h] = world[n].id
        <4>1. g \in Handles
          BY <3>1, <1>1
        <4>2. world'[n] = [world[n] EXCEPT !.parentId = PatchParentId(g)]
          BY <3>1, <1>3
        <4> HIDE DEF g
        <4>3. QED
          BY <4>1, <4>2, <2>1, <2>2, <2>3
      <3>2. CASE ~ \E h \in sent : id[h] = world[n].id
        BY <3>2, <1>3, <2>2
      <3>3. QED
        BY <3>1, <3>2
    <2>5. DOMAIN world' = DOMAIN world /\ Len(world) \in Nat /\ DOMAIN world = 1 .. Len(world)
      BY <1>1, <1>3
    <2>6. world' \in Seq(Records)
      <3>1. world' \in [1 .. Len(world) -> Records]
        BY <1>3, <2>4, <2>5
      <3>2. QED
        BY <3>1, <2>5
    <2>7. ownAvatars' = ownAvatars
      BY DEF SendPatches
    <2>8. QED
      BY <1>1, <2>4, <2>5, <2>6, <2>7, SameIds
  <1>4. CASE world' = world
    <2>1. ownAvatars' = ownAvatars
      BY DEF SendPatches
    <2>2. QED
      BY <1>1, <1>4, <2>1 DEF WorldIds, UniqueIds
  <1>5. QED
    BY <1>2, <1>3, <1>4

\* This client destroys an entity: the service drops it, or the call fails.
LEMMA LocalDestroyEffect ==
    ASSUME StoreInv, NEW h \in Handles, DestroyEntity(h)
    PROVE  /\ world' \in Seq(Records) /\ UniqueIds(world)'
           /\ WorldIds' \subseteq WorldIds /\ ownAvatars' \subseteq ownAvatars
  <1>1. world \in Seq(Records) /\ UniqueIds(world)
    BY DEF StoreInv, TypeOK, ServiceTypeOK, IssuedInv
  <1>2. CASE UNCHANGED <<world, ownAvatars>>
    BY <1>1, <1>2 DEF WorldIds, UniqueIds
  <1> DEFINE moved == {id[c] : c \in children[h]}
  <1>3. CASE /\ world' = Without(Reparented(world, moved, NoParent), id[h])
             /\ ownAvatars' = ownAvatars \ {id[h]}
    <2> HIDE DEF moved
    <2>1. QED
      BY <1>1, <1>3, DestroyedId
  <1>4. QED
    BY <1>2, <1>3 DEF DestroyEntity

-----------------------------------------------------------------------------
(* Steps keep the types.                                                   *)

\* CreateEntity and CreateAvatar are Create with a type.
LEMMA CreateIsCreate ==
    /\ "Object" \in Types /\ "Avatar" \in Types /\ NoParent \in ParentIds
    /\ \A h, i, p : CreateEntity(h, i, p) <=> Create(h, i, "Object", p)
    /\ \A h, i : CreateAvatar(h, i) <=> Create(h, i, "Avatar", NoParent)
  BY DEF CreateEntity, CreateAvatar, Types, ParentIds


\* The patch that the flush takes from its queue.
LEMMA IncomingPatchFacts ==
    ASSUME StoreInv, FlushIncoming
    PROVE  /\ Head(PendingIncomingUpdates).id \in Ids
           /\ Head(PendingIncomingUpdates).parentId \in ParentIds
           /\ Head(PendingIncomingUpdates) = PendingIncomingUpdates[1]
           /\ 1 \in DOMAIN PendingIncomingUpdates
           /\ PendingIncomingUpdates' \in Seq(Patches)
           /\ \A n \in DOMAIN PendingIncomingUpdates' :
                 /\ n + 1 \in DOMAIN PendingIncomingUpdates
                 /\ PendingIncomingUpdates'[n] = PendingIncomingUpdates[n + 1]
           /\ Entities \in SUBSET Handles
  <1>1. /\ PendingIncomingUpdates \in Seq(Patches) /\ PendingIncomingUpdates # <<>>
        /\ PendingIncomingUpdates' = Tail(PendingIncomingUpdates) /\ Entities \in SUBSET Handles
    BY DEF FlushIncoming, StoreInv, TypeOK, EngineTypeOK
  <1>2. \A x \in Patches : x.id \in Ids /\ x.parentId \in ParentIds
    BY DEF Patches
  <1>3. QED
    BY <1>1, <1>2, TailElements

\* The service's variables keep their types.
LEMMA ServiceTypeStep == StoreInv /\ [Next]_vars => ServiceTypeOK'
  <1> SUFFICES ASSUME StoreInv, [Next]_vars PROVE ServiceTypeOK'
    OBVIOUS
  <1> USE DEF history, service, made, hierarchy, lists, queues, flush
  <1>1. ASSUME NEW i \in Ids, NEW t \in Types, NEW p \in ParentIds, RemoteCreate(i, t, p)
        PROVE ServiceTypeOK'
    BY <1>1, RemoteCreateEffect DEF RemoteCreate, StoreInv, TypeOK, ServiceTypeOK
  <1>2. ASSUME NEW i \in Ids, NEW p \in ParentIds, RemoteReparent(i, p) PROVE ServiceTypeOK'
    BY <1>2, RemoteReparentEffect DEF RemoteReparent, StoreInv, TypeOK, ServiceTypeOK
  <1>3. ASSUME NEW i \in Ids, RemoteDestroy(i) PROVE ServiceTypeOK'
    BY <1>3, RemoteDestroyEffect DEF RemoteDestroy, StoreInv, TypeOK, ServiceTypeOK
  <1>4. ASSUME NEW h \in Handles, OnObjectMessage(h) PROVE ServiceTypeOK'
    BY <1>4, ReceivedFacts DEF OnObjectMessage, Received, StoreInv, TypeOK, ServiceTypeOK
  <1>5. ASSUME NEW h \in Handles, RetrievedEntity(h) PROVE ServiceTypeOK'
    BY <1>5, RetrievedEntityEffect DEF RetrievedEntity, StoreInv, TypeOK, ServiceTypeOK
  <1>6. ASSUME OnObjectPatch PROVE ServiceTypeOK'
    BY <1>6, ReceivedFacts DEF OnObjectPatch, Received, StoreInv, TypeOK, ServiceTypeOK
  <1>7. ASSUME RetrievedPage PROVE ServiceTypeOK'
    BY <1>7, RetrievedPageEffect DEF RetrievedPage, StoreInv, TypeOK, ServiceTypeOK
  <1>8. ASSUME ObjectSent PROVE ServiceTypeOK'
    BY <1>8, ReceivedFacts DEF ObjectSent, Received, StoreInv, TypeOK, ServiceTypeOK
  <1>9. ASSUME FetchAllEntitiesAndPopulateBuffers PROVE ServiceTypeOK'
    BY <1>9, FetchEffect DEF FetchAllEntitiesAndPopulateBuffers, StoreInv, TypeOK,
       ServiceTypeOK
  <1>10. ASSUME NEW h \in Handles, NEW i \in Ids, NEW t \in Types, NEW p \in ParentIds, Create(h, i, t, p)
         PROVE ServiceTypeOK'
    BY <1>10, CreateEffect DEF Create, StoreInv, TypeOK, ServiceTypeOK
  <1>11. ASSUME NEW h \in Handles, NEW p \in ParentIds, SetParentId(h, p)
         PROVE ServiceTypeOK'
    BY <1>11 DEF SetParentId, StoreInv, TypeOK, ServiceTypeOK
  <1>12. ASSUME NEW h \in Handles, RemoveParentEntity(h) PROVE ServiceTypeOK'
    BY <1>12 DEF RemoveParentEntity, StoreInv, TypeOK, ServiceTypeOK
  <1>13. ASSUME NEW h \in Handles, QueueEntityUpdate(h) PROVE ServiceTypeOK'
    BY <1>13 DEF QueueEntityUpdate, StoreInv, TypeOK, ServiceTypeOK
  <1>14. ASSUME NEW h \in Handles, DestroyEntity(h) PROVE ServiceTypeOK'
    <2>1. id[h] \in Ids
      BY DEF StoreInv, TypeOK, ObjectsTypeOK
    <2>2. QED
      BY <1>14, <2>1, LocalDestroyEffect DEF DestroyEntity, StoreInv, TypeOK, ServiceTypeOK
  <1>15. ASSUME TickEntities PROVE ServiceTypeOK'
    BY <1>15 DEF TickEntities, StoreInv, TypeOK, ServiceTypeOK
  <1>16. ASSUME FlushAdd PROVE ServiceTypeOK'
    BY <1>16 DEF FlushAdd, StoreInv, TypeOK, ServiceTypeOK
  <1>17. ASSUME FlushIncoming PROVE ServiceTypeOK'
    BY <1>17 DEF FlushIncoming, StoreInv, TypeOK, ServiceTypeOK
  <1>18. ASSUME SendPatches PROVE ServiceTypeOK'
    BY <1>18, SendPatchesEffect DEF SendPatches, StoreInv, TypeOK, ServiceTypeOK
  <1>19. ASSUME NEW h \in Handles, ApplyLocalPatch(h) PROVE ServiceTypeOK'
    BY <1>19 DEF ApplyLocalPatch, StoreInv, TypeOK, ServiceTypeOK
  <1>20. ASSUME FlushRemove PROVE ServiceTypeOK'
    BY <1>20 DEF FlushRemove, StoreInv, TypeOK, ServiceTypeOK
  <1>21. ASSUME FlushEnds PROVE ServiceTypeOK'
    BY <1>21 DEF FlushEnds, StoreInv, TypeOK, ServiceTypeOK
  <1>22. CASE UNCHANGED vars
    BY <1>22 DEF vars, StoreInv, TypeOK, ServiceTypeOK
  <1>23. QED
    BY <1>1, <1>2, <1>3, <1>4, <1>5, <1>6, <1>7, <1>8, <1>9, <1>10, <1>11, <1>12, <1>13,
       <1>14, <1>15, <1>16, <1>17, <1>18, <1>19, <1>20, <1>21, <1>22, CreateIsCreate
       DEF Next, Service, Network, Application, Flush

\* The fields of the entities keep their types.
LEMMA ObjectsTypeStep == StoreInv /\ [Next]_vars => ObjectsTypeOK'
  <1> SUFFICES ASSUME StoreInv, [Next]_vars PROVE ObjectsTypeOK'
    OBVIOUS
  <1> USE DEF history, service, made, hierarchy, lists, queues, flush
  <1>1. ASSUME NEW i \in Ids, NEW t \in Types, NEW p \in ParentIds, RemoteCreate(i, t, p)
        PROVE ObjectsTypeOK'
    BY <1>1 DEF RemoteCreate, UnchangedEngine, StoreInv, TypeOK, ObjectsTypeOK
  <1>2. ASSUME NEW i \in Ids, NEW p \in ParentIds, RemoteReparent(i, p) PROVE ObjectsTypeOK'
    BY <1>2 DEF RemoteReparent, UnchangedEngine, StoreInv, TypeOK, ObjectsTypeOK
  <1>3. ASSUME NEW i \in Ids, RemoteDestroy(i) PROVE ObjectsTypeOK'
    BY <1>3 DEF RemoteDestroy, UnchangedEngine, StoreInv, TypeOK, ObjectsTypeOK
  <1>4. ASSUME NEW h \in Handles, OnObjectMessage(h) PROVE ObjectsTypeOK'
    <2>1. Head(inbox).object \in Records
      BY <1>4, ReceivedFacts, MessageFields DEF OnObjectMessage, Received
    <2>2. \A r \in Records : r.id \in Ids /\ r.type \in Types /\ r.parentId \in ParentIds
      BY DEF Records
    <2>3. QED
      BY <1>4, <2>1, <2>2 DEF OnObjectMessage, CreateRemotelyRetrievedEntity,
         NewFromObjectMessage, StoreInv, TypeOK, ObjectsTypeOK
  <1>5. ASSUME NEW h \in Handles, RetrievedEntity(h) PROVE ObjectsTypeOK'
    <2>1. Head(Head(inbox).items) \in Records
      BY <1>5, RetrievedEntityEffect
    <2>2. \A r \in Records : r.id \in Ids /\ r.type \in Types /\ r.parentId \in ParentIds
      BY DEF Records
    <2>3. QED
      BY <1>5, <2>1, <2>2 DEF RetrievedEntity, CreateRemotelyRetrievedEntity,
         NewFromObjectMessage, StoreInv, TypeOK, ObjectsTypeOK
  <1>6. ASSUME OnObjectPatch PROVE ObjectsTypeOK'
    BY <1>6 DEF OnObjectPatch, StoreInv, TypeOK, ObjectsTypeOK
  <1>7. ASSUME RetrievedPage PROVE ObjectsTypeOK'
    BY <1>7 DEF RetrievedPage, StoreInv, TypeOK, ObjectsTypeOK
  <1>8. ASSUME ObjectSent PROVE ObjectsTypeOK'
    <2> DEFINE h == Head(inbox).entity
    <2>1. h \in Handles
      BY <1>8, ReceivedFacts, MessageFields DEF ObjectSent, Received
    <2> HIDE DEF h
    <2>2. CASE UNCHANGED hierarchy
      <3>1. mem' = mem \/ mem' = [mem EXCEPT ![h] = "live"]
        BY <1>8 DEF ObjectSent, h
      <3>2. QED
        BY <1>8, <2>1, <2>2, <3>1 DEF ObjectSent, StoreInv, TypeOK, ObjectsTypeOK
    <2>3. CASE mem' = [mem EXCEPT ![h] = "live"] /\ ResolveEntityHierarchy(Entities, h, parentId[h])
      <3>1. parentId[h] \in ParentIds /\ Entities \in SUBSET Handles
        BY <2>1 DEF EngineTypeOK, StoreInv, TypeOK, ObjectsTypeOK
      <3>2. TypeOK
        BY DEF StoreInv
      <3>3. parentId' \in [Handles -> ParentIds] /\ parent' \in [Handles -> Pointers]
            /\ children' \in [Handles -> SUBSET Handles]
        BY <2>1, <2>3, <3>1, <3>2, ResolveTypes
      <3>4. QED
        BY <1>8, <2>1, <2>3, <3>3 DEF ObjectSent, StoreInv, TypeOK, ObjectsTypeOK
    <2>4. QED
      BY <1>8, <2>2, <2>3 DEF ObjectSent, h
  <1>9. ASSUME FetchAllEntitiesAndPopulateBuffers PROVE ObjectsTypeOK'
    BY <1>9 DEF FetchAllEntitiesAndPopulateBuffers, StoreInv, TypeOK, ObjectsTypeOK
  <1>10. ASSUME NEW h \in Handles, NEW i \in Ids, NEW t \in Types, NEW p \in ParentIds, Create(h, i, t, p)
         PROVE ObjectsTypeOK'
    BY <1>10 DEF Create, InSpace, Idle, StoreInv, TypeOK, ObjectsTypeOK
  <1>11. ASSUME NEW h \in Handles, NEW p \in ParentIds, SetParentId(h, p)
         PROVE ObjectsTypeOK'
    BY <1>11 DEF SetParentId, InSpace, Idle, StoreInv, TypeOK, ObjectsTypeOK
  <1>12. ASSUME NEW h \in Handles, RemoveParentEntity(h) PROVE ObjectsTypeOK'
    BY <1>12 DEF RemoveParentEntity, ParentIds, StoreInv, TypeOK, ObjectsTypeOK
  <1>13. ASSUME NEW h \in Handles, QueueEntityUpdate(h) PROVE ObjectsTypeOK'
    BY <1>13 DEF QueueEntityUpdate, StoreInv, TypeOK, ObjectsTypeOK
  <1>14. ASSUME NEW h \in Handles, DestroyEntity(h) PROVE ObjectsTypeOK'
    BY <1>14 DEF DestroyEntity, LocalProcessChildUpdates, ParentIds, Pointers, StoreInv,
       TypeOK, ObjectsTypeOK
  <1>15. ASSUME TickEntities PROVE ObjectsTypeOK'
    BY <1>15 DEF TickEntities, StoreInv, TypeOK, ObjectsTypeOK
  <1>16. ASSUME FlushAdd PROVE ObjectsTypeOK'
    <2> DEFINE h == Head(PendingAdds)
    <2>1. h \in Handles /\ parentId[h] \in ParentIds /\ Entities' \in SUBSET Handles
      BY <1>16, TailElements DEF FlushAdd, AddPendingEntity, EngineTypeOK, StoreInv, TypeOK,
         ObjectsTypeOK
    <2> HIDE DEF h
    <2>2. CASE UNCHANGED hierarchy
      BY <1>16, <2>2 DEF FlushAdd, StoreInv, TypeOK, ObjectsTypeOK
    <2>3. CASE ResolveEntityHierarchy(Entities', h, parentId[h])
      BY <1>16, <2>1, <2>3, ResolveTypes DEF FlushAdd, StoreInv, TypeOK, ObjectsTypeOK
    <2>4. QED
      BY <1>16, <2>2, <2>3 DEF FlushAdd, h
  <1>17. ASSUME FlushIncoming PROVE ObjectsTypeOK'
    <2> DEFINE patch == Head(PendingIncomingUpdates)
               h == FindSpaceEntityById(Entities, patch.id)
    <2>1. patch.parentId \in ParentIds /\ Entities \in SUBSET Handles
      BY <1>17, IncomingPatchFacts
    <2>2. h = Nil \/ h \in Handles
      BY <2>1, FindEntityFacts
    <2> HIDE DEF patch, h
    <2>3. CASE UNCHANGED hierarchy
      BY <1>17, <2>3 DEF FlushIncoming, StoreInv, TypeOK, ObjectsTypeOK
    <2>4. CASE h # Nil /\ ResolveEntityHierarchy(Entities, h, patch.parentId)
      BY <1>17, <2>1, <2>2, <2>4, ResolveTypes DEF FlushIncoming, StoreInv, TypeOK,
         ObjectsTypeOK
    <2>5. QED
      BY <1>17, <2>3, <2>4 DEF FlushIncoming, ApplyDestruction, ApplyUpdate, patch, h
  <1>18. ASSUME SendPatches PROVE ObjectsTypeOK'
    BY <1>18 DEF SendPatches, StoreInv, TypeOK, ObjectsTypeOK
  <1>19. ASSUME NEW h \in Handles, ApplyLocalPatch(h) PROVE ObjectsTypeOK'
    <2>1. newParentId' \in [Handles -> ParentIds \cup {Clean}]
      BY <1>19 DEF ApplyLocalPatch, StoreInv, TypeOK, ObjectsTypeOK
    <2>2. CASE UNCHANGED hierarchy
      BY <1>19, <2>1, <2>2 DEF ApplyLocalPatch, StoreInv, TypeOK, ObjectsTypeOK
    <2>3. CASE newParentId[h] # Clean /\ ResolveEntityHierarchy(Entities, h, newParentId[h])
      <3>1. newParentId[h] \in ParentIds /\ Entities \in SUBSET Handles
        BY <2>3 DEF EngineTypeOK, StoreInv, TypeOK, ObjectsTypeOK
      <3>2. QED
        BY <1>19, <2>1, <2>3, <3>1, ResolveTypes DEF ApplyLocalPatch, StoreInv, TypeOK,
           ObjectsTypeOK
    <2>4. QED
      BY <1>19, <2>2, <2>3 DEF ApplyLocalPatch
  <1>20. ASSUME FlushRemove PROVE ObjectsTypeOK'
    <2> DEFINE h == Head(PendingRemoves)
    <2>1. h \in Handles
      BY <1>20, TailElements DEF FlushRemove, EngineTypeOK, StoreInv, TypeOK
    <2> HIDE DEF h
    <2>2. CASE h \in handled
      BY <1>20, <2>2 DEF FlushRemove, h, StoreInv, TypeOK, ObjectsTypeOK
    <2>3. CASE h \notin handled
      <3>1. RemovePendingEntity(h) /\ UNCHANGED made
        BY <1>20, <2>3 DEF FlushRemove, h
      <3>2. \A c \in Handles : FindParent(Entities, parentId[c]) \in Pointers
        BY FindParentFacts DEF EngineTypeOK, Pointers, StoreInv, TypeOK, ObjectsTypeOK
      <3>3. parentId' \in [Handles -> ParentIds] /\ newParentId' \in [Handles -> ParentIds \cup {Clean}]
        BY <3>1 DEF RemovePendingEntity, ParentIds, StoreInv, TypeOK, ObjectsTypeOK
      <3>4. parent' \in [Handles -> Pointers]
        BY <3>1, <3>2 DEF RemovePendingEntity, Pointers, StoreInv, TypeOK, ObjectsTypeOK
      <3>5. children' \in [Handles -> SUBSET Handles]
        <4>1. \A g \in Handles : children[g] \subseteq Handles
          BY DEF StoreInv, TypeOK, ObjectsTypeOK
        <4>2. \A g \in Handles : children'[g] \subseteq children[g] \cup children[h]
          BY <3>1 DEF RemovePendingEntity
        <4>3. \A g \in Handles : children'[g] \subseteq Handles
          BY <2>1, <4>1, <4>2
        <4>4. children' = [g \in Handles |-> children'[g]]
          BY <3>1 DEF RemovePendingEntity
        <4>5. QED
          BY <4>3, <4>4
      <3>6. mem' \in [Handles -> {"unused", "made", "live", "freed"}]
        BY <2>1, <3>1 DEF RemovePendingEntity, StoreInv, TypeOK, ObjectsTypeOK
      <3>7. QED
        BY <3>1, <3>3, <3>4, <3>5, <3>6 DEF StoreInv, TypeOK, ObjectsTypeOK
    <2>4. QED
      BY <2>2, <2>3
  <1>21. ASSUME FlushEnds PROVE ObjectsTypeOK'
    BY <1>21 DEF FlushEnds, StoreInv, TypeOK, ObjectsTypeOK
  <1>22. CASE UNCHANGED vars
    BY <1>22 DEF vars, StoreInv, TypeOK, ObjectsTypeOK
  <1>23. QED
    BY <1>1, <1>2, <1>3, <1>4, <1>5, <1>6, <1>7, <1>8, <1>9, <1>10, <1>11, <1>12, <1>13,
       <1>14, <1>15, <1>16, <1>17, <1>18, <1>19, <1>20, <1>21, <1>22, CreateIsCreate
       DEF Next, Service, Network, Application, Flush

\* The lists and queues of the engine keep their types.
LEMMA EngineTypeStep == StoreInv /\ [Next]_vars => EngineTypeOK'
  <1> SUFFICES ASSUME StoreInv, [Next]_vars PROVE EngineTypeOK'
    OBVIOUS
  <1> USE DEF history, service, made, hierarchy, lists, queues, flush
  <1>1. ASSUME NEW i \in Ids, NEW t \in Types, NEW p \in ParentIds, RemoteCreate(i, t, p)
        PROVE EngineTypeOK'
    BY <1>1 DEF RemoteCreate, UnchangedEngine, StoreInv, TypeOK, EngineTypeOK
  <1>2. ASSUME NEW i \in Ids, NEW p \in ParentIds, RemoteReparent(i, p) PROVE EngineTypeOK'
    BY <1>2 DEF RemoteReparent, UnchangedEngine, StoreInv, TypeOK, EngineTypeOK
  <1>3. ASSUME NEW i \in Ids, RemoteDestroy(i) PROVE EngineTypeOK'
    BY <1>3 DEF RemoteDestroy, UnchangedEngine, StoreInv, TypeOK, EngineTypeOK
  <1>4. ASSUME NEW h \in Handles, OnObjectMessage(h) PROVE EngineTypeOK'
    BY <1>4 DEF OnObjectMessage, CreateRemotelyRetrievedEntity, NewFromObjectMessage,
       StoreInv, TypeOK, EngineTypeOK
  <1>5. ASSUME NEW h \in Handles, RetrievedEntity(h) PROVE EngineTypeOK'
    BY <1>5 DEF RetrievedEntity, CreateRemotelyRetrievedEntity, NewFromObjectMessage,
       StoreInv, TypeOK, EngineTypeOK
  <1>6. ASSUME OnObjectPatch PROVE EngineTypeOK'
    <2>1. Head(inbox).patch \in Patches
      BY <1>6, ReceivedFacts, MessageFields DEF OnObjectPatch, Received
    <2>2. PendingIncomingUpdates' \in Seq(Patches)
      BY <1>6, <2>1, AppendElements DEF OnObjectPatch, StoreInv, TypeOK, EngineTypeOK
    <2>3. QED
      BY <1>6, <2>2 DEF OnObjectPatch, StoreInv, TypeOK, EngineTypeOK
  <1>7. ASSUME RetrievedPage PROVE EngineTypeOK'
    BY <1>7 DEF RetrievedPage, Phases, StoreInv, TypeOK, EngineTypeOK
  <1>8. ASSUME ObjectSent PROVE EngineTypeOK'
    <2> DEFINE h == Head(inbox).entity
    <2>1. h \in Handles
      BY <1>8, ReceivedFacts, MessageFields DEF ObjectSent, Received
    <2> HIDE DEF h
    <2>2. RootHierarchyEntities' \subseteq Handles
      <3>1. CASE UNCHANGED hierarchy
        BY <3>1 DEF StoreInv, TypeOK, EngineTypeOK
      <3>2. CASE ResolveEntityHierarchy(Entities, h, parentId[h])
        <4>1. parentId[h] \in ParentIds /\ Entities \in SUBSET Handles
          BY <2>1 DEF ObjectsTypeOK, StoreInv, TypeOK, EngineTypeOK
        <4>2. QED
          BY <2>1, <3>2, <4>1, ResolveTypes DEF StoreInv
      <3>3. QED
        BY <1>8, <3>1, <3>2 DEF ObjectSent, h
    <2>3. Entities' \subseteq Handles /\ Avatars' \subseteq Handles /\ Objects' \subseteq Handles
      BY <1>8, <2>1 DEF ObjectSent, h, StoreInv, TypeOK, EngineTypeOK
    <2>4. QED
      BY <1>8, <2>2, <2>3 DEF ObjectSent, StoreInv, TypeOK, EngineTypeOK
  <1>9. ASSUME FetchAllEntitiesAndPopulateBuffers PROVE EngineTypeOK'
    BY <1>9 DEF FetchAllEntitiesAndPopulateBuffers, Phases, StoreInv, TypeOK, EngineTypeOK
  <1>10. ASSUME NEW h \in Handles, NEW i \in Ids, NEW t \in Types, NEW p \in ParentIds, Create(h, i, t, p)
         PROVE EngineTypeOK'
    BY <1>10 DEF Create, Phases, StoreInv, TypeOK, EngineTypeOK
  <1>11. ASSUME NEW h \in Handles, NEW p \in ParentIds, SetParentId(h, p)
         PROVE EngineTypeOK'
    BY <1>11 DEF SetParentId, Phases, StoreInv, TypeOK, EngineTypeOK
  <1>12. ASSUME NEW h \in Handles, RemoveParentEntity(h) PROVE EngineTypeOK'
    BY <1>12 DEF RemoveParentEntity, Phases, StoreInv, TypeOK, EngineTypeOK
  <1>13. ASSUME NEW h \in Handles, QueueEntityUpdate(h) PROVE EngineTypeOK'
    BY <1>13 DEF QueueEntityUpdate, Phases, StoreInv, TypeOK, EngineTypeOK
  <1>14. ASSUME NEW h \in Handles, DestroyEntity(h) PROVE EngineTypeOK'
    <2>1. RootHierarchyEntities' \subseteq Handles
      <3>1. children[h] \subseteq Handles
        BY DEF ObjectsTypeOK, StoreInv, TypeOK
      <3>2. PICK a \in RootAdditions(RootHierarchyEntities \ {h}, children[h]) :
              RootHierarchyEntities' = (RootHierarchyEntities \ {h}) \cup a
        BY <1>14 DEF DestroyEntity, LocalProcessChildUpdates
      <3>3. a \subseteq children[h]
        BY DEF RootAdditions
      <3>4. QED
        BY <3>1, <3>2, <3>3 DEF StoreInv, TypeOK, EngineTypeOK
    <2>2. PendingRemoves' \in Seq(Handles)
      BY <1>14, AppendElements DEF DestroyEntity, RemoveEntity, StoreInv, TypeOK, EngineTypeOK
    <2>3. PendingOutgoingUpdateUniqueSet' \subseteq Handles
      BY <1>14 DEF DestroyEntity, RemoveEntity, StoreInv, TypeOK, EngineTypeOK
    <2>4. QED
      BY <1>14, <2>1, <2>2, <2>3 DEF DestroyEntity, StoreInv, TypeOK, EngineTypeOK
  <1>15. ASSUME TickEntities PROVE EngineTypeOK'
    BY <1>15 DEF TickEntities, Phases, StoreInv, TypeOK, EngineTypeOK
  <1>16. ASSUME FlushAdd PROVE EngineTypeOK'
    <2> DEFINE h == Head(PendingAdds)
    <2>1. h \in Handles /\ PendingAdds' \in Seq(Handles)
      BY <1>16, TailElements DEF FlushAdd, StoreInv, TypeOK, EngineTypeOK
    <2> HIDE DEF h
    <2>2. Entities' \subseteq Handles /\ Avatars' \subseteq Handles /\ Objects' \subseteq Handles
          /\ handled' \subseteq Handles
      BY <1>16, <2>1 DEF FlushAdd, AddPendingEntity, h, StoreInv, TypeOK, EngineTypeOK
    <2>3. CASE UNCHANGED hierarchy
      BY <1>16, <2>1, <2>2, <2>3 DEF FlushAdd, StoreInv, TypeOK, EngineTypeOK
    <2>4. CASE ResolveEntityHierarchy(Entities', h, parentId[h])
      <3>1. parentId[h] \in ParentIds
        BY <2>1 DEF ObjectsTypeOK, StoreInv, TypeOK, EngineTypeOK
      <3>2. RootHierarchyEntities' \subseteq Handles
        BY <2>1, <2>2, <2>4, <3>1, ResolveTypes DEF StoreInv
      <3>3. QED
        BY <1>16, <2>1, <2>2, <3>2 DEF FlushAdd, StoreInv, TypeOK, EngineTypeOK
    <2>5. QED
      BY <1>16, <2>3, <2>4 DEF FlushAdd, h
  <1>17. ASSUME FlushIncoming PROVE EngineTypeOK'
    <2> DEFINE patch == Head(PendingIncomingUpdates)
               h == FindSpaceEntityById(Entities, patch.id)
    <2>1. /\ patch.parentId \in ParentIds /\ Entities \in SUBSET Handles
          /\ PendingIncomingUpdates' \in Seq(Patches)
      BY <1>17, IncomingPatchFacts
    <2>2. h = Nil \/ h \in Handles
      BY <2>1, FindEntityFacts
    <2> HIDE DEF patch, h
    <2>3. CASE /\ UNCHANGED hierarchy
               /\ \/ UNCHANGED <<PendingRemoves, PendingOutgoingUpdateUniqueSet>>
                  \/ h # Nil /\ RemoveEntity(h)
      <3>1. PendingRemoves' \in Seq(Handles) /\ PendingOutgoingUpdateUniqueSet' \subseteq Handles
        <4>1. CASE UNCHANGED <<PendingRemoves, PendingOutgoingUpdateUniqueSet>>
          BY <4>1 DEF StoreInv, TypeOK, EngineTypeOK
        <4>2. CASE h \in Handles /\ RemoveEntity(h)
          BY <4>2, AppendElements DEF RemoveEntity, StoreInv, TypeOK, EngineTypeOK
        <4>3. QED
          BY <2>2, <2>3, <4>1, <4>2
      <3>2. QED
        BY <1>17, <2>1, <2>3, <3>1 DEF FlushIncoming, StoreInv, TypeOK, EngineTypeOK
    <2>4. CASE /\ h # Nil /\ ResolveEntityHierarchy(Entities, h, patch.parentId)
               /\ UNCHANGED <<PendingRemoves, PendingOutgoingUpdateUniqueSet>>
      <3>1. RootHierarchyEntities' \subseteq Handles
        BY <2>1, <2>2, <2>4, ResolveTypes DEF StoreInv
      <3>2. QED
        BY <1>17, <2>1, <2>4, <3>1 DEF FlushIncoming, StoreInv, TypeOK, EngineTypeOK
    <2>5. QED
      BY <1>17, <2>3, <2>4 DEF FlushIncoming, ApplyDestruction, ApplyUpdate, patch, h
  <1>18. ASSUME SendPatches PROVE EngineTypeOK'
    BY <1>18 DEF SendPatches, Phases, StoreInv, TypeOK, EngineTypeOK
  <1>19. ASSUME NEW h \in Handles, ApplyLocalPatch(h) PROVE EngineTypeOK'
    <2>1. CASE UNCHANGED hierarchy
      BY <1>19, <2>1 DEF ApplyLocalPatch, StoreInv, TypeOK, EngineTypeOK
    <2>2. CASE newParentId[h] # Clean /\ ResolveEntityHierarchy(Entities, h, newParentId[h])
      <3>1. newParentId[h] \in ParentIds /\ Entities \in SUBSET Handles
        BY <2>2 DEF ObjectsTypeOK, StoreInv, TypeOK, EngineTypeOK
      <3>2. RootHierarchyEntities' \subseteq Handles
        BY <2>2, <3>1, ResolveTypes DEF StoreInv
      <3>3. QED
        BY <1>19, <3>2 DEF ApplyLocalPatch, StoreInv, TypeOK, EngineTypeOK
    <2>3. QED
      BY <1>19, <2>1, <2>2 DEF ApplyLocalPatch
  <1>20. ASSUME FlushRemove PROVE EngineTypeOK'
    <2> DEFINE h == Head(PendingRemoves)
    <2>1. h \in Handles /\ PendingRemoves' \in Seq(Handles)
      BY <1>20, TailElements DEF FlushRemove, StoreInv, TypeOK, EngineTypeOK
    <2> HIDE DEF h
    <2>2. CASE h \in handled
      BY <1>20, <2>1, <2>2 DEF FlushRemove, h, StoreInv, TypeOK, EngineTypeOK
    <2>3. CASE h \notin handled
      <3>1. RemovePendingEntity(h) /\ handled' = handled \cup {h}
        BY <1>20, <2>3 DEF FlushRemove, h
      <3>2. RootHierarchyEntities' \subseteq Handles
        <4> DEFINE root == RootHierarchyEntities \ {h}
                   free == {c \in children[h] \ {h} : parentId[c] = NoParent}
        <4>1. \E a \in RootAdditions(root, free) : RootHierarchyEntities' \subseteq root \cup a
          BY <3>1 DEF RemovePendingEntity
        <4>2. free \subseteq Handles
          BY <2>1 DEF ObjectsTypeOK, StoreInv, TypeOK, EngineTypeOK
        <4>3. \A a \in RootAdditions(root, free) : a \subseteq free
          BY DEF RootAdditions
        <4>4. QED
          BY <4>1, <4>2, <4>3 DEF StoreInv, TypeOK, EngineTypeOK
      <3>3. Entities' \subseteq Handles /\ Avatars' \subseteq Handles /\ Objects' \subseteq Handles
            /\ handled' \subseteq Handles
        BY <2>1, <3>1 DEF RemovePendingEntity, StoreInv, TypeOK, EngineTypeOK
      <3>4. QED
        BY <1>20, <2>1, <3>2, <3>3 DEF FlushRemove, StoreInv, TypeOK, EngineTypeOK
    <2>4. QED
      BY <2>2, <2>3
  <1>21. ASSUME FlushEnds PROVE EngineTypeOK'
    BY <1>21 DEF FlushEnds, Phases, StoreInv, TypeOK, EngineTypeOK
  <1>22. CASE UNCHANGED vars
    BY <1>22 DEF vars, StoreInv, TypeOK, EngineTypeOK
  <1>23. QED
    BY <1>1, <1>2, <1>3, <1>4, <1>5, <1>6, <1>7, <1>8, <1>9, <1>10, <1>11, <1>12, <1>13,
       <1>14, <1>15, <1>16, <1>17, <1>18, <1>19, <1>20, <1>21, <1>22, CreateIsCreate
       DEF Next, Service, Network, Application, Flush

-----------------------------------------------------------------------------
(* Steps keep the invariants about the service.                            *)

\* Ids are given out once, and messages introduce ids that were given out.
LEMMA IssuedStep == StoreInv /\ [Next]_vars => IssuedInv'
  <1> SUFFICES ASSUME StoreInv, [Next]_vars PROVE IssuedInv'
    OBVIOUS
  <1> USE DEF history, service, made, hierarchy, lists, queues, flush
  <1>1. ASSUME NEW i \in Ids, NEW t \in Types, NEW p \in ParentIds, RemoteCreate(i, t, p)
        PROVE IssuedInv'
    BY <1>1, RemoteCreateEffect DEF RemoteCreate, UnchangedEngine, StoreInv, IssuedInv
  <1>2. ASSUME NEW i \in Ids, NEW p \in ParentIds, RemoteReparent(i, p) PROVE IssuedInv'
    BY <1>2, RemoteReparentEffect DEF RemoteReparent, UnchangedEngine, StoreInv, IssuedInv
  <1>3. ASSUME NEW i \in Ids, RemoteDestroy(i) PROVE IssuedInv'
    BY <1>3, RemoteDestroyEffect DEF RemoteDestroy, UnchangedEngine, StoreInv, IssuedInv
  <1>4. ASSUME NEW h \in Handles, OnObjectMessage(h) PROVE IssuedInv'
    <2>1. inbox # <<>> /\ inbox' = Tail(inbox) /\ UNCHANGED <<world, ownAvatars, issued>>
      BY <1>4 DEF OnObjectMessage, Received
    <2>2. \A n \in DOMAIN inbox' : Mentions(inbox'[n]) \subseteq issued
      BY <2>1, ReceivedFacts DEF StoreInv, IssuedInv
    <2>3. WorldIds' = WorldIds /\ UniqueIds(world)'
      BY <2>1 DEF WorldIds, UniqueIds, StoreInv, IssuedInv
    <2>4. \A g \in Handles : mem'[g] # "unused" => id'[g] \in issued
      <3>1. Head(inbox).object.id \in issued
        BY <1>4, <2>1, ReceivedFacts DEF Mentions, OnObjectMessage, Received, StoreInv,
           IssuedInv
      <3>2. QED
        BY <1>4, <3>1 DEF OnObjectMessage, CreateRemotelyRetrievedEntity,
           NewFromObjectMessage, TypeOK, ObjectsTypeOK, StoreInv, IssuedInv
    <2>5. QED
      BY <2>1, <2>2, <2>3, <2>4 DEF StoreInv, IssuedInv
  <1>5. ASSUME NEW h \in Handles, RetrievedEntity(h) PROVE IssuedInv'
    <2>1. Head(Head(inbox).items).id \in issued
      BY <1>5, RetrievedEntityEffect DEF StoreInv, IssuedInv
    <2>2. \A n \in DOMAIN inbox' : Mentions(inbox'[n]) \subseteq issued
      BY <1>5, RetrievedEntityEffect DEF StoreInv, IssuedInv
    <2>3. \A g \in Handles : mem'[g] # "unused" => id'[g] \in issued
      BY <1>5, <2>1 DEF RetrievedEntity, CreateRemotelyRetrievedEntity,
         NewFromObjectMessage, TypeOK, ObjectsTypeOK, StoreInv, IssuedInv
    <2>4. UNCHANGED <<world, ownAvatars, issued>>
      BY <1>5 DEF RetrievedEntity
    <2>5. WorldIds' = WorldIds /\ UniqueIds(world)'
      BY <2>4 DEF WorldIds, UniqueIds, StoreInv, IssuedInv
    <2>6. QED
      BY <2>2, <2>3, <2>4, <2>5 DEF StoreInv, IssuedInv
  <1>6. ASSUME OnObjectPatch PROVE IssuedInv'
    <2>1. inbox # <<>> /\ inbox' = Tail(inbox) /\ UNCHANGED <<world, ownAvatars, issued>>
      BY <1>6 DEF OnObjectPatch, Received
    <2>2. \A n \in DOMAIN inbox' : Mentions(inbox'[n]) \subseteq issued
      BY <2>1, ReceivedFacts DEF StoreInv, IssuedInv
    <2>3. WorldIds' = WorldIds /\ UniqueIds(world)'
      BY <2>1 DEF WorldIds, UniqueIds, StoreInv, IssuedInv
    <2>4. \A h \in Handles : mem'[h] # "unused" => id'[h] \in issued
      BY <1>6 DEF OnObjectPatch, StoreInv, IssuedInv
    <2>5. QED
      BY <2>1, <2>2, <2>3, <2>4 DEF StoreInv, IssuedInv
  <1>7. ASSUME RetrievedPage PROVE IssuedInv'
    <2>1. \A n \in DOMAIN inbox' : Mentions(inbox'[n]) \subseteq issued
      BY <1>7, RetrievedPageEffect DEF StoreInv, IssuedInv
    <2>2. UNCHANGED <<world, ownAvatars, issued, mem, id>>
      BY <1>7 DEF RetrievedPage
    <2>3. WorldIds' = WorldIds /\ UniqueIds(world)'
      BY <2>2 DEF WorldIds, UniqueIds, StoreInv, IssuedInv
    <2>4. QED
      BY <2>1, <2>2, <2>3 DEF StoreInv, IssuedInv
  <1>8. ASSUME ObjectSent PROVE IssuedInv'
    <2>1. inbox # <<>> /\ inbox' = Tail(inbox) /\ UNCHANGED <<world, ownAvatars, issued>>
      BY <1>8 DEF ObjectSent, Received
    <2>2. \A n \in DOMAIN inbox' : Mentions(inbox'[n]) \subseteq issued
      BY <2>1, ReceivedFacts DEF StoreInv, IssuedInv
    <2>3. WorldIds' = WorldIds /\ UniqueIds(world)'
      BY <2>1 DEF WorldIds, UniqueIds, StoreInv, IssuedInv
    <2>4. \A h \in Handles : mem'[h] # "unused" => id'[h] \in issued
      <3>1. PICK h \in Handles : mem' = mem \/ (mem' = [mem EXCEPT ![h] = "live"] /\ mem[h] = "made")
        BY <1>8, ReceivedFacts, MessageFields DEF ObjectSent, Received, AnswersInv,
           StoreInv, IssuedInv
      <3>2. QED
        BY <1>8, <3>1 DEF ObjectSent, TypeOK, ObjectsTypeOK, StoreInv, IssuedInv
    <2>5. QED
      BY <2>1, <2>2, <2>3, <2>4 DEF StoreInv, IssuedInv
  <1>9. ASSUME FetchAllEntitiesAndPopulateBuffers PROVE IssuedInv'
    <2>1. \A n \in DOMAIN inbox' : Mentions(inbox'[n]) \subseteq issued
      BY <1>9, FetchEffect DEF StoreInv, IssuedInv
    <2>2. UNCHANGED <<world, ownAvatars, issued, mem, id>>
      BY <1>9 DEF FetchAllEntitiesAndPopulateBuffers
    <2>3. WorldIds' = WorldIds /\ UniqueIds(world)'
      BY <2>2 DEF WorldIds, UniqueIds, StoreInv, IssuedInv
    <2>4. QED
      BY <2>1, <2>2, <2>3 DEF StoreInv, IssuedInv
  <1>10. ASSUME NEW h \in Handles, NEW i \in Ids, NEW t \in Types, NEW p \in ParentIds, Create(h, i, t, p)
         PROVE IssuedInv'
    <2>1. issued' = issued \cup {i}
      BY <1>10 DEF Create
    <2>2. \A n \in DOMAIN inbox' : Mentions(inbox'[n]) \subseteq issued'
      BY <1>10, <2>1, CreateEffect DEF StoreInv, IssuedInv
    <2>3. WorldIds' \subseteq issued' /\ UniqueIds(world)'
      BY <1>10, <2>1, CreateEffect DEF StoreInv, IssuedInv
    <2>4. \A g \in Handles : mem'[g] # "unused" => id'[g] \in issued'
      BY <1>10, <2>1 DEF Create, TypeOK, ObjectsTypeOK, StoreInv, IssuedInv
    <2>5. QED
      BY <2>2, <2>3, <2>4 DEF StoreInv, IssuedInv
  <1>11. ASSUME NEW h \in Handles, NEW p \in ParentIds, SetParentId(h, p) PROVE IssuedInv'
    BY <1>11 DEF SetParentId, WorldIds, StoreInv, IssuedInv
  <1>12. ASSUME NEW h \in Handles, RemoveParentEntity(h) PROVE IssuedInv'
    BY <1>12 DEF RemoveParentEntity, WorldIds, StoreInv, IssuedInv
  <1>13. ASSUME NEW h \in Handles, QueueEntityUpdate(h) PROVE IssuedInv'
    BY <1>13 DEF QueueEntityUpdate, WorldIds, StoreInv, IssuedInv
  <1>14. ASSUME NEW h \in Handles, DestroyEntity(h) PROVE IssuedInv'
    <2>1. WorldIds' \subseteq WorldIds /\ UniqueIds(world)'
      BY <1>14, LocalDestroyEffect
    <2>2. QED
      BY <1>14, <2>1 DEF DestroyEntity, StoreInv, IssuedInv
  <1>15. ASSUME TickEntities PROVE IssuedInv'
    BY <1>15 DEF TickEntities, WorldIds, StoreInv, IssuedInv
  <1>16. ASSUME FlushAdd PROVE IssuedInv'
    BY <1>16 DEF FlushAdd, WorldIds, StoreInv, IssuedInv
  <1>17. ASSUME FlushIncoming PROVE IssuedInv'
    BY <1>17 DEF FlushIncoming, WorldIds, StoreInv, IssuedInv
  <1>18. ASSUME SendPatches PROVE IssuedInv'
    BY <1>18, SendPatchesEffect DEF SendPatches, StoreInv, IssuedInv
  <1>19. ASSUME NEW h \in Handles, ApplyLocalPatch(h) PROVE IssuedInv'
    BY <1>19 DEF ApplyLocalPatch, WorldIds, StoreInv, IssuedInv
  <1>20. ASSUME FlushRemove PROVE IssuedInv'
    <2>1. UNCHANGED <<world, ownAvatars, issued, inbox, id>>
      BY <1>20 DEF FlushRemove
    <2>2. WorldIds' = WorldIds /\ UniqueIds(world)'
      BY <2>1 DEF WorldIds, UniqueIds, StoreInv, IssuedInv
    <2>3. \A g \in Handles : mem'[g] # "unused" => mem[g] # "unused"
      <3>1. Head(PendingRemoves) \in Handles
        BY <1>20, TailElements DEF FlushRemove, EngineTypeOK, TypeOK, StoreInv
      <3>2. \A h \in Elements(PendingRemoves) : h \in handled \/ mem[h] = "live"
        BY DEF StoreInv, QueuesInv, IsLive
      <3>3. Head(PendingRemoves) \in Elements(PendingRemoves)
        BY <1>20, TailElements DEF FlushRemove, EngineTypeOK, TypeOK, StoreInv
      <3>4. QED
        BY <1>20, <3>1, <3>2, <3>3 DEF FlushRemove, RemovePendingEntity, TypeOK,
           ObjectsTypeOK, StoreInv
    <2>4. QED
      BY <2>1, <2>2, <2>3 DEF StoreInv, IssuedInv
  <1>21. ASSUME FlushEnds PROVE IssuedInv'
    BY <1>21 DEF FlushEnds, WorldIds, StoreInv, IssuedInv
  <1>22. CASE UNCHANGED vars
    BY <1>22 DEF vars, WorldIds, StoreInv, IssuedInv
  <1>23. QED
    BY <1>1, <1>2, <1>3, <1>4, <1>5, <1>6, <1>7, <1>8, <1>9, <1>10, <1>11, <1>12, <1>13,
       <1>14, <1>15, <1>16, <1>17, <1>18, <1>19, <1>20, <1>21, <1>22, CreateIsCreate
       DEF Next, Service, Network, Application, Flush

\* Messages are numbered from 1.
LEMMA InboxDomain ==
    ASSUME StoreInv
    PROVE  /\ \A n \in DOMAIN inbox : n \in Nat \ {0}
           /\ \A n \in DOMAIN inbox : \A m \in Nat \ {0} : m < n => m \in DOMAIN inbox
  <1>1. inbox \in Seq(Messages)
    BY DEF StoreInv, TypeOK, ServiceTypeOK
  <1>2. DOMAIN inbox = 1 .. Len(inbox) /\ Len(inbox) \in Nat
    BY <1>1
  <1>3. QED
    BY <1>2

\* The answer to a creation comes before anything else about its id.
LEMMA AnswersStep == StoreInv /\ [Next]_vars => AnswersInv'
  <1> SUFFICES ASSUME StoreInv, [Next]_vars PROVE AnswersInv'
    OBVIOUS
  <1> USE DEF history, service, made, hierarchy, lists, queues, flush
  <1>1. ASSUME NEW i \in Ids, NEW t \in Types, NEW p \in ParentIds, RemoteCreate(i, t, p)
        PROVE AnswersInv'
    <2>1. UNCHANGED <<mem, id>>
      BY <1>1 DEF RemoteCreate, UnchangedEngine
    <2>2. \A n \in DOMAIN inbox' : inbox'[n].kind = "sent" => n \in DOMAIN inbox
      BY <1>1, RemoteCreateEffect
    <2>3. \A n \in DOMAIN inbox : \A m \in DOMAIN inbox' : m < n => m \in DOMAIN inbox
      BY <1>1, RemoteCreateEffect, InboxDomain
    <2>4. QED
      BY <1>1, <2>1, <2>2, <2>3, RemoteCreateEffect DEF StoreInv, AnswersInv
  <1>2. ASSUME NEW i \in Ids, NEW p \in ParentIds, RemoteReparent(i, p) PROVE AnswersInv'
    <2>1. UNCHANGED <<mem, id>>
      BY <1>2 DEF RemoteReparent, UnchangedEngine
    <2>2. \A n \in DOMAIN inbox' \ DOMAIN inbox : inbox'[n].kind # "sent" /\ Mentions(inbox'[n]) = {}
      BY <1>2, RemoteReparentEffect
    <2>3. QED
      BY <1>2, <2>1, <2>2, RemoteReparentEffect DEF StoreInv, AnswersInv
  <1>3. ASSUME NEW i \in Ids, RemoteDestroy(i) PROVE AnswersInv'
    <2>1. UNCHANGED <<mem, id>>
      BY <1>3 DEF RemoteDestroy, UnchangedEngine
    <2>2. \A n \in DOMAIN inbox' \ DOMAIN inbox : inbox'[n].kind # "sent" /\ Mentions(inbox'[n]) = {}
      BY <1>3, RemoteDestroyEffect
    <2>3. QED
      BY <1>3, <2>1, <2>2, RemoteDestroyEffect DEF StoreInv, AnswersInv
  <1>4. ASSUME NEW h \in Handles, OnObjectMessage(h) PROVE AnswersInv'
    <2>1. inbox # <<>> /\ inbox' = Tail(inbox)
      BY <1>4 DEF OnObjectMessage, Received
    <2>2. inbox[1] = Head(inbox) /\ 1 \in DOMAIN inbox
      BY <2>1, ReceivedFacts
    <2>3. \A n \in DOMAIN inbox' : n + 1 \in DOMAIN inbox /\ inbox'[n] = inbox[n + 1] /\ n \in Nat \ {0}
      BY <2>1, ReceivedFacts
    <2>4. \A m, n \in DOMAIN inbox' : m < n => m + 1 < n + 1
      BY <2>3
    <2>5. \A n \in DOMAIN inbox' : 1 < n + 1
      BY <2>3
    <2>6. SUFFICES ASSUME NEW n \in DOMAIN inbox', NEW g \in Handles,
                          inbox'[n].kind = "sent", inbox'[n].entity = g
                   PROVE  /\ mem'[g] = "made"
                          /\ \A x \in Handles \ {g} : mem'[x] # "unused" => id'[x] # id'[g]
                          /\ \A m \in DOMAIN inbox' : m < n =>
                               /\ id'[g] \notin Mentions(inbox'[m])
                               /\ inbox'[m].kind = "sent" => inbox'[m].entity # g
      BY DEF AnswersInv
    <2>7. /\ mem[h] = "unused" /\ mem' = [mem EXCEPT ![h] = "live"]
          /\ id' = [id EXCEPT ![h] = Head(inbox).object.id] /\ Head(inbox).kind = "object"
      BY <1>4 DEF OnObjectMessage, Received, CreateRemotelyRetrievedEntity,
         NewFromObjectMessage
    <2>8. Head(inbox).object.id \in Mentions(inbox[1])
      BY <2>2, <2>7 DEF Mentions
    <2>9. /\ mem[g] = "made"
          /\ \A x \in Handles \ {g} : mem[x] # "unused" => id[x] # id[g]
          /\ \A m \in DOMAIN inbox : m < n + 1 =>
               id[g] \notin Mentions(inbox[m]) /\ (inbox[m].kind = "sent" => inbox[m].entity # g)
      BY <2>3, <2>6 DEF StoreInv, AnswersInv
    <2>10. g # h
      BY <2>7, <2>9
    <2>11. id[g] # Head(inbox).object.id
      BY <2>2, <2>5, <2>8, <2>9
    <2>12. QED
      BY <2>3, <2>4, <2>7, <2>9, <2>10, <2>11 DEF StoreInv, TypeOK, ObjectsTypeOK
  <1>5. ASSUME NEW h \in Handles, RetrievedEntity(h) PROVE AnswersInv'
    <2>1. SUFFICES ASSUME NEW n \in DOMAIN inbox', NEW g \in Handles,
                          inbox'[n].kind = "sent", inbox'[n].entity = g
                   PROVE  /\ mem'[g] = "made"
                          /\ \A x \in Handles \ {g} : mem'[x] # "unused" => id'[x] # id'[g]
                          /\ \A m \in DOMAIN inbox' : m < n =>
                               /\ id'[g] \notin Mentions(inbox'[m])
                               /\ inbox'[m].kind = "sent" => inbox'[m].entity # g
      BY DEF AnswersInv
    <2>2. /\ mem[h] = "unused" /\ mem' = [mem EXCEPT ![h] = "live"]
          /\ id' = [id EXCEPT ![h] = Head(Head(inbox).items).id]
      BY <1>5 DEF RetrievedEntity, CreateRemotelyRetrievedEntity, NewFromObjectMessage
    <2>3. n # 1 /\ n \in DOMAIN inbox /\ inbox'[n] = inbox[n] /\ 1 < n
      BY <1>5, <2>1, RetrievedEntityEffect
    <2>4. /\ mem[g] = "made"
          /\ \A x \in Handles \ {g} : mem[x] # "unused" => id[x] # id[g]
          /\ \A m \in DOMAIN inbox : m < n =>
               id[g] \notin Mentions(inbox[m]) /\ (inbox[m].kind = "sent" => inbox[m].entity # g)
      BY <2>1, <2>3 DEF StoreInv, AnswersInv
    <2>5. g # h
      BY <2>2, <2>4
    <2>6. id[g] # Head(Head(inbox).items).id
      BY <1>5, <2>3, <2>4, RetrievedEntityEffect
    <2>7. \A m \in DOMAIN inbox' : /\ m \in DOMAIN inbox /\ Mentions(inbox'[m]) \subseteq Mentions(inbox[m])
                                   /\ inbox'[m].kind = "sent" => inbox'[m] = inbox[m]
      BY <1>5, RetrievedEntityEffect
    <2>8. \A m \in DOMAIN inbox' : m < n =>
            /\ id[g] \notin Mentions(inbox'[m])
            /\ inbox'[m].kind = "sent" => inbox'[m].entity # g
      BY <2>4, <2>7
    <2>9. QED
      BY <2>2, <2>4, <2>5, <2>6, <2>8 DEF StoreInv, TypeOK, ObjectsTypeOK
  <1>6. ASSUME OnObjectPatch PROVE AnswersInv'
    <2>1. inbox # <<>> /\ inbox' = Tail(inbox)
      BY <1>6 DEF OnObjectPatch, Received
    <2>2. inbox[1] = Head(inbox) /\ 1 \in DOMAIN inbox
      BY <2>1, ReceivedFacts
    <2>3. \A n \in DOMAIN inbox' : n + 1 \in DOMAIN inbox /\ inbox'[n] = inbox[n + 1] /\ n \in Nat \ {0}
      BY <2>1, ReceivedFacts
    <2>4. \A m, n \in DOMAIN inbox' : m < n => m + 1 < n + 1
      BY <2>3
    <2>5. \A n \in DOMAIN inbox' : 1 < n + 1
      BY <2>3
    <2>6. QED
      BY <1>6, <2>3, <2>4 DEF OnObjectPatch, StoreInv, AnswersInv
  <1>7. ASSUME RetrievedPage PROVE AnswersInv'
    <2>1. UNCHANGED <<mem, id>>
      BY <1>7 DEF RetrievedPage
    <2>2. \A n \in DOMAIN inbox' : n \in Nat /\ (inbox'[n].kind = "sent" =>
            n + 1 \in DOMAIN inbox /\ inbox'[n] = inbox[n + 1])
      BY <1>7, RetrievedPageEffect
    <2>3. \A m, n \in DOMAIN inbox' : m < n =>
            m + 1 < n + 1 /\ m + 1 \in DOMAIN inbox /\ inbox'[m] = inbox[m + 1]
      BY <1>7, RetrievedPageEffect
    <2>4. QED
      BY <2>1, <2>2, <2>3 DEF StoreInv, AnswersInv
  <1>8. ASSUME ObjectSent PROVE AnswersInv'
    <2>1. inbox # <<>> /\ inbox' = Tail(inbox)
      BY <1>8 DEF ObjectSent, Received
    <2>2. inbox[1] = Head(inbox) /\ 1 \in DOMAIN inbox
      BY <2>1, ReceivedFacts
    <2>3. \A n \in DOMAIN inbox' : n + 1 \in DOMAIN inbox /\ inbox'[n] = inbox[n + 1] /\ n \in Nat \ {0}
      BY <2>1, ReceivedFacts
    <2>4. \A m, n \in DOMAIN inbox' : m < n => m + 1 < n + 1
      BY <2>3
    <2>5. \A n \in DOMAIN inbox' : 1 < n + 1
      BY <2>3
    <2>6. SUFFICES ASSUME NEW n \in DOMAIN inbox', NEW g \in Handles,
                          inbox'[n].kind = "sent", inbox'[n].entity = g
                   PROVE  /\ mem'[g] = "made"
                          /\ \A x \in Handles \ {g} : mem'[x] # "unused" => id'[x] # id'[g]
                          /\ \A m \in DOMAIN inbox' : m < n =>
                               /\ id'[g] \notin Mentions(inbox'[m])
                               /\ inbox'[m].kind = "sent" => inbox'[m].entity # g
      BY DEF AnswersInv
    <2> DEFINE h == Head(inbox).entity
    <2>7. h \in Handles /\ inbox[1].kind = "sent" /\ inbox[1].entity = h
      BY <1>8, <2>1, <2>2, ReceivedFacts, MessageFields DEF ObjectSent, Received
    <2>8. /\ mem' = mem \/ mem' = [mem EXCEPT ![h] = "live"]
          /\ id' = id
      BY <1>8 DEF ObjectSent
    <2> HIDE DEF h
    <2>9. mem[h] = "made"
      BY <2>2, <2>7 DEF StoreInv, AnswersInv
    <2>10. /\ mem[g] = "made"
           /\ \A x \in Handles \ {g} : mem[x] # "unused" => id[x] # id[g]
           /\ \A m \in DOMAIN inbox : m < n + 1 =>
                id[g] \notin Mentions(inbox[m]) /\ (inbox[m].kind = "sent" => inbox[m].entity # g)
      BY <2>3, <2>6 DEF StoreInv, AnswersInv
    <2>11. g # h
      BY <2>2, <2>5, <2>7, <2>10
    <2>12. /\ mem'[g] = "made"
           /\ \A x \in Handles \ {g} : mem'[x] # "unused" => id'[x] # id'[g]
      BY <2>7, <2>8, <2>9, <2>10, <2>11 DEF StoreInv, TypeOK, ObjectsTypeOK
    <2>13. \A m \in DOMAIN inbox' : m < n =>
             /\ id'[g] \notin Mentions(inbox'[m])
             /\ inbox'[m].kind = "sent" => inbox'[m].entity # g
      BY <2>3, <2>4, <2>8, <2>10
    <2>14. QED
      BY <2>12, <2>13
  <1>9. ASSUME FetchAllEntitiesAndPopulateBuffers PROVE AnswersInv'
    <2>1. UNCHANGED <<mem, id>>
      BY <1>9 DEF FetchAllEntitiesAndPopulateBuffers
    <2>2. \A n \in DOMAIN inbox' : inbox'[n].kind = "sent" => n \in DOMAIN inbox
      BY <1>9, FetchEffect
    <2>3. \A n \in DOMAIN inbox : \A m \in DOMAIN inbox' : m < n => m \in DOMAIN inbox
      BY <1>9, FetchEffect, InboxDomain
    <2>4. QED
      BY <1>9, <2>1, <2>2, <2>3, FetchEffect DEF StoreInv, AnswersInv
  <1>10. ASSUME NEW h \in Handles, NEW i \in Ids, NEW t \in Types, NEW p \in ParentIds, Create(h, i, t, p)
         PROVE AnswersInv'
    <2>1. SUFFICES ASSUME NEW n \in DOMAIN inbox', NEW g \in Handles,
                          inbox'[n].kind = "sent", inbox'[n].entity = g
                   PROVE  /\ mem'[g] = "made"
                          /\ \A x \in Handles \ {g} : mem'[x] # "unused" => id'[x] # id'[g]
                          /\ \A m \in DOMAIN inbox' : m < n =>
                               /\ id'[g] \notin Mentions(inbox'[m])
                               /\ inbox'[m].kind = "sent" => inbox'[m].entity # g
      BY DEF AnswersInv
    <2>2. /\ mem[h] = "unused" /\ mem' = [mem EXCEPT ![h] = "made"]
          /\ id' = [id EXCEPT ![h] = i]
      BY <1>10 DEF Create
    <2>3. /\ i \notin issued /\ \A x \in Handles : mem[x] # "unused" => id[x] \in issued
          /\ \A m \in DOMAIN inbox : Mentions(inbox[m]) \subseteq issued
      BY <1>10, CreateEffect DEF StoreInv, IssuedInv
    <2>4. mem \in [Handles -> {"unused", "made", "live", "freed"}] /\ id \in [Handles -> Ids]
      BY DEF StoreInv, TypeOK, ObjectsTypeOK
    <2>5. \A m \in DOMAIN inbox : inbox[m].kind = "sent" => inbox[m].entity # h
      BY <2>2 DEF StoreInv, AnswersInv
    <2>6. \A m \in DOMAIN inbox' : m < n => m \in DOMAIN inbox /\ inbox'[m] = inbox[m]
      <3>1. inbox' \in Seq(Messages)
        BY <1>10, CreateEffect
      <3>2. \A m \in DOMAIN inbox' : m \in Nat
        BY <3>1
      <3>3. ASSUME NEW m \in DOMAIN inbox', m < n, m \notin DOMAIN inbox PROVE FALSE
        <4>1. n <= m
          BY <1>10, <3>3, CreateEffect
        <4>2. QED
          BY <3>2, <3>3, <4>1
      <3>4. QED
        BY <1>10, <3>3, CreateEffect
    <2>7. CASE n \in DOMAIN inbox
      <3>1. inbox'[n] = inbox[n]
        BY <1>10, <2>7, CreateEffect
      <3>2. /\ mem[g] = "made"
            /\ \A x \in Handles \ {g} : mem[x] # "unused" => id[x] # id[g]
            /\ \A m \in DOMAIN inbox : m < n =>
                 id[g] \notin Mentions(inbox[m]) /\ (inbox[m].kind = "sent" => inbox[m].entity # g)
        BY <2>1, <2>7, <3>1 DEF StoreInv, AnswersInv
      <3>3. QED
        BY <2>2, <2>3, <2>4, <2>6, <3>2
    <2>8. CASE n \notin DOMAIN inbox
      <3>1. g = h
        BY <1>10, <2>1, <2>8, CreateEffect
      <3>2. QED
        BY <2>2, <2>3, <2>4, <2>5, <2>6, <3>1
    <2>9. QED
      BY <2>7, <2>8
  <1>11. ASSUME NEW h \in Handles, NEW p \in ParentIds, SetParentId(h, p) PROVE AnswersInv'
    BY <1>11 DEF SetParentId, StoreInv, AnswersInv
  <1>12. ASSUME NEW h \in Handles, RemoveParentEntity(h) PROVE AnswersInv'
    BY <1>12 DEF RemoveParentEntity, StoreInv, AnswersInv
  <1>13. ASSUME NEW h \in Handles, QueueEntityUpdate(h) PROVE AnswersInv'
    BY <1>13 DEF QueueEntityUpdate, StoreInv, AnswersInv
  <1>14. ASSUME NEW h \in Handles, DestroyEntity(h) PROVE AnswersInv'
    BY <1>14 DEF DestroyEntity, StoreInv, AnswersInv
  <1>15. ASSUME TickEntities PROVE AnswersInv'
    BY <1>15 DEF TickEntities, StoreInv, AnswersInv
  <1>16. ASSUME FlushAdd PROVE AnswersInv'
    BY <1>16 DEF FlushAdd, StoreInv, AnswersInv
  <1>17. ASSUME FlushIncoming PROVE AnswersInv'
    BY <1>17 DEF FlushIncoming, StoreInv, AnswersInv
  <1>18. ASSUME SendPatches PROVE AnswersInv'
    BY <1>18 DEF SendPatches, StoreInv, AnswersInv
  <1>19. ASSUME NEW h \in Handles, ApplyLocalPatch(h) PROVE AnswersInv'
    BY <1>19 DEF ApplyLocalPatch, StoreInv, AnswersInv
  <1>20. ASSUME FlushRemove PROVE AnswersInv'
    <2> DEFINE h == Head(PendingRemoves)
    <2>1. h \in Handles /\ h \in Elements(PendingRemoves)
      BY <1>20, TailElements DEF FlushRemove, EngineTypeOK, TypeOK, StoreInv
    <2>2. mem' = mem \/ (mem' = [mem EXCEPT ![h] = "freed"] /\ h \notin handled)
      BY <1>20 DEF FlushRemove, RemovePendingEntity
    <2>3. UNCHANGED <<inbox, id>>
      BY <1>20 DEF FlushRemove
    <2> HIDE DEF h
    <2>4. h \in handled \/ mem[h] = "live"
      BY <2>1 DEF StoreInv, QueuesInv, IsLive
    <2>5. \A g \in Handles : /\ mem[g] = "made" => mem'[g] = "made"
                             /\ mem'[g] # "unused" => mem[g] # "unused"
      BY <2>1, <2>2, <2>4 DEF StoreInv, TypeOK, ObjectsTypeOK
    <2>6. QED
      BY <2>3, <2>5 DEF StoreInv, AnswersInv
  <1>21. ASSUME FlushEnds PROVE AnswersInv'
    BY <1>21 DEF FlushEnds, StoreInv, AnswersInv
  <1>22. CASE UNCHANGED vars
    BY <1>22 DEF vars, StoreInv, AnswersInv
  <1>23. QED
    BY <1>1, <1>2, <1>3, <1>4, <1>5, <1>6, <1>7, <1>8, <1>9, <1>10, <1>11, <1>12, <1>13,
       <1>14, <1>15, <1>16, <1>17, <1>18, <1>19, <1>20, <1>21, <1>22, CreateIsCreate
       DEF Next, Service, Network, Application, Flush

\* What is to be destroyed was given out and is no longer listed.
LEMMA DestroyStep == StoreInv /\ [Next]_vars => DestroyInv'
  <1> SUFFICES ASSUME StoreInv, [Next]_vars PROVE DestroyInv'
    OBVIOUS
  <1> USE DEF history, service, made, hierarchy, lists, queues, flush
  <1>1. ASSUME NEW i \in Ids, NEW t \in Types, NEW p \in ParentIds, RemoteCreate(i, t, p)
        PROVE DestroyInv'
    <2>1. UNCHANGED <<requested, id, PendingIncomingUpdates,
                    PendingRemoves>>
      BY <1>1 DEF RemoteCreate, UnchangedEngine
    <2>2. issued' = issued \cup {i}
      BY <1>1 DEF RemoteCreate
    <2>3. QED
      BY <1>1, <2>1, <2>2, RemoteCreateEffect DEF StoreInv, DestroyInv
  <1>2. ASSUME NEW i \in Ids, NEW p \in ParentIds, RemoteReparent(i, p) PROVE DestroyInv'
    <2>1. UNCHANGED <<requested, id, PendingIncomingUpdates,
                    PendingRemoves>>
      BY <1>2 DEF RemoteReparent, UnchangedEngine
    <2>2. issued' = issued
      BY <1>2 DEF RemoteReparent
    <2>3. QED
      BY <1>2, <2>1, <2>2, RemoteReparentEffect DEF StoreInv, DestroyInv
  <1>3. ASSUME NEW i \in Ids, RemoteDestroy(i) PROVE DestroyInv'
    <2>1. UNCHANGED <<requested, id, PendingIncomingUpdates,
                    PendingRemoves>>
      BY <1>3 DEF RemoteDestroy, UnchangedEngine
    <2>2. issued' = issued
      BY <1>3 DEF RemoteDestroy
    <2>3. QED
      BY <1>3, <2>1, <2>2, RemoteDestroyEffect DEF StoreInv, DestroyInv
  <1>4. ASSUME NEW h \in Handles, OnObjectMessage(h) PROVE DestroyInv'
    <2>1. /\ inbox # <<>> /\ inbox' = Tail(inbox)
          /\ UNCHANGED <<requested, world, ownAvatars, issued, PendingRemoves>>
      BY <1>4 DEF OnObjectMessage, Received, CreateRemotelyRetrievedEntity
    <2>2. \A n \in DOMAIN inbox' : n + 1 \in DOMAIN inbox /\ inbox'[n] = inbox[n + 1]
      BY <2>1, ReceivedFacts
    <2>3. WorldIds' = WorldIds
      BY <2>1 DEF WorldIds
    <2> DEFINE unchangedIds == \A g \in Elements(PendingRemoves) : id'[g] = id[g]
    <2>4. unchangedIds
      <3>1. h \notin Elements(PendingRemoves)
        BY <1>4 DEF StoreInv, QueuesInv, IsLive, Idle, InSpace, Received, OnObjectMessage,
           CreateRemotelyRetrievedEntity, NewFromObjectMessage
      <3>2. Elements(PendingRemoves) \subseteq Handles
        BY DEF Elements, StoreInv, TypeOK, EngineTypeOK
      <3>3. \A g \in Handles \ {h} : id'[g] = id[g]
        BY <1>4 DEF OnObjectMessage, CreateRemotelyRetrievedEntity, NewFromObjectMessage,
           StoreInv, TypeOK, ObjectsTypeOK
      <3>4. QED
        BY <3>1, <3>2, <3>3
    <2>5. PendingIncomingUpdates' = PendingIncomingUpdates
      BY <1>4 DEF OnObjectMessage, CreateRemotelyRetrievedEntity
    <2>6. QED
      BY <2>1, <2>2, <2>3, <2>4, <2>5 DEF StoreInv, DestroyInv
  <1>5. ASSUME NEW h \in Handles, RetrievedEntity(h) PROVE DestroyInv'
    <2>1. UNCHANGED <<requested, world, ownAvatars, issued, PendingRemoves, PendingIncomingUpdates>>
      BY <1>5 DEF RetrievedEntity, CreateRemotelyRetrievedEntity
    <2>2. \A n \in DOMAIN inbox' : n \in DOMAIN inbox /\ (inbox'[n].kind = "patch" => inbox'[n] = inbox[n])
      BY <1>5, RetrievedEntityEffect
    <2>3. WorldIds' = WorldIds
      BY <2>1 DEF WorldIds
    <2> DEFINE unchangedIds == \A g \in Elements(PendingRemoves) : id'[g] = id[g]
    <2>4. unchangedIds
      <3>1. h \notin Elements(PendingRemoves)
        BY <1>5 DEF StoreInv, QueuesInv, IsLive, Idle, InSpace, Received, RetrievedEntity,
           CreateRemotelyRetrievedEntity, NewFromObjectMessage
      <3>2. Elements(PendingRemoves) \subseteq Handles
        BY DEF Elements, StoreInv, TypeOK, EngineTypeOK
      <3>3. \A g \in Handles \ {h} : id'[g] = id[g]
        BY <1>5 DEF RetrievedEntity, CreateRemotelyRetrievedEntity, NewFromObjectMessage,
           StoreInv, TypeOK, ObjectsTypeOK
      <3>4. QED
        BY <3>1, <3>2, <3>3
    <2>5. QED
      BY <2>1, <2>2, <2>3, <2>4 DEF StoreInv, DestroyInv
  <1>6. ASSUME OnObjectPatch PROVE DestroyInv'
    <2>1. /\ inbox # <<>> /\ inbox' = Tail(inbox)
          /\ UNCHANGED <<requested, world, ownAvatars, issued, PendingRemoves>>
      BY <1>6 DEF OnObjectPatch, Received, CreateRemotelyRetrievedEntity
    <2>2. \A n \in DOMAIN inbox' : n + 1 \in DOMAIN inbox /\ inbox'[n] = inbox[n + 1]
      BY <2>1, ReceivedFacts
    <2>3. WorldIds' = WorldIds
      BY <2>1 DEF WorldIds
    <2> DEFINE patch == Head(inbox).patch
    <2>4. patch \in Patches /\ inbox[1] = Head(inbox) /\ 1 \in DOMAIN inbox /\ Head(inbox).kind = "patch"
      BY <1>6, <2>1, ReceivedFacts, MessageFields DEF OnObjectPatch, Received
    <2>5. patch.destroy => patch.id \in issued \ WorldIds
      BY <2>4 DEF StoreInv, DestroyInv
    <2>6. PendingIncomingUpdates' = Append(PendingIncomingUpdates, patch) /\ id' = id
      BY <1>6 DEF OnObjectPatch
    <2> HIDE DEF patch
    <2>7. \A n \in DOMAIN PendingIncomingUpdates' :
            \/ n \in DOMAIN PendingIncomingUpdates
               /\ PendingIncomingUpdates'[n] = PendingIncomingUpdates[n]
            \/ PendingIncomingUpdates'[n] = patch
      BY <2>4, <2>6, AppendElements DEF StoreInv, TypeOK, EngineTypeOK
    <2>8. QED
      BY <2>1, <2>2, <2>3, <2>5, <2>6, <2>7 DEF StoreInv, DestroyInv
  <1>7. ASSUME RetrievedPage PROVE DestroyInv'
    <2>1. UNCHANGED <<requested, world, ownAvatars, issued, id, PendingRemoves, PendingIncomingUpdates>>
      BY <1>7 DEF RetrievedPage
    <2>2. \A n \in DOMAIN inbox' : inbox'[n].kind = "patch" =>
            n + 1 \in DOMAIN inbox /\ inbox'[n] = inbox[n + 1]
      BY <1>7, RetrievedPageEffect
    <2>3. WorldIds' = WorldIds
      BY <2>1 DEF WorldIds
    <2>4. QED
      BY <2>1, <2>2, <2>3 DEF StoreInv, DestroyInv
  <1>8. ASSUME ObjectSent PROVE DestroyInv'
    <2>1. /\ inbox # <<>> /\ inbox' = Tail(inbox)
          /\ UNCHANGED <<requested, world, ownAvatars, issued, PendingRemoves>>
      BY <1>8 DEF ObjectSent, Received, CreateRemotelyRetrievedEntity
    <2>2. \A n \in DOMAIN inbox' : n + 1 \in DOMAIN inbox /\ inbox'[n] = inbox[n + 1]
      BY <2>1, ReceivedFacts
    <2>3. WorldIds' = WorldIds
      BY <2>1 DEF WorldIds
    <2>4. UNCHANGED <<requested, id, PendingIncomingUpdates>>
      BY <1>8 DEF ObjectSent
    <2>5. QED
      BY <2>1, <2>2, <2>3, <2>4 DEF StoreInv, DestroyInv
  <1>9. ASSUME FetchAllEntitiesAndPopulateBuffers PROVE DestroyInv'
    <2>1. UNCHANGED <<requested, world, ownAvatars, issued, id, PendingRemoves, PendingIncomingUpdates>>
      BY <1>9 DEF FetchAllEntitiesAndPopulateBuffers
    <2>2. \A n \in DOMAIN inbox' : inbox'[n].kind = "patch" =>
            n \in DOMAIN inbox /\ inbox'[n] = inbox[n]
      BY <1>9, FetchEffect
    <2>3. WorldIds' = WorldIds
      BY <2>1 DEF WorldIds
    <2>4. QED
      BY <2>1, <2>2, <2>3 DEF StoreInv, DestroyInv
  <1>10. ASSUME NEW h \in Handles, NEW i \in Ids, NEW t \in Types, NEW p \in ParentIds, Create(h, i, t, p)
         PROVE DestroyInv'
    <2>1. /\ UNCHANGED <<requested, PendingRemoves, PendingIncomingUpdates>>
          /\ issued' = issued \cup {i}
      BY <1>10 DEF Create
    <2>2. \A n \in DOMAIN inbox' : inbox'[n].kind = "patch" =>
            n \in DOMAIN inbox /\ inbox'[n] = inbox[n]
      BY <1>10, CreateEffect
    <2>3. WorldIds' \subseteq WorldIds \cup {i} /\ i \notin issued
      BY <1>10, CreateEffect
    <2> DEFINE unchangedIds == \A g \in Elements(PendingRemoves) : id'[g] = id[g]
    <2>4. unchangedIds
      <3>1. h \notin Elements(PendingRemoves)
        BY <1>10 DEF StoreInv, QueuesInv, IsLive, Idle, InSpace, Received, Create,
           CreateRemotelyRetrievedEntity, NewFromObjectMessage
      <3>2. Elements(PendingRemoves) \subseteq Handles
        BY DEF Elements, StoreInv, TypeOK, EngineTypeOK
      <3>3. \A g \in Handles \ {h} : id'[g] = id[g]
        BY <1>10 DEF Create, CreateRemotelyRetrievedEntity, NewFromObjectMessage, StoreInv,
           TypeOK, ObjectsTypeOK
      <3>4. QED
        BY <3>1, <3>2, <3>3
    <2>5. QED
      BY <2>1, <2>2, <2>3, <2>4 DEF StoreInv, DestroyInv
  <1>11. ASSUME NEW h \in Handles, NEW p \in ParentIds, SetParentId(h, p) PROVE DestroyInv'
    <2>1. UNCHANGED <<requested, world, ownAvatars, issued, inbox, id, PendingIncomingUpdates,
                    PendingRemoves>>
      BY <1>11 DEF SetParentId
    <2>2. QED
      BY <2>1 DEF WorldIds, StoreInv, DestroyInv
  <1>12. ASSUME NEW h \in Handles, RemoveParentEntity(h) PROVE DestroyInv'
    <2>1. UNCHANGED <<requested, world, ownAvatars, issued, inbox, id, PendingIncomingUpdates,
                    PendingRemoves>>
      BY <1>12 DEF RemoveParentEntity
    <2>2. QED
      BY <2>1 DEF WorldIds, StoreInv, DestroyInv
  <1>13. ASSUME NEW h \in Handles, QueueEntityUpdate(h) PROVE DestroyInv'
    <2>1. UNCHANGED <<requested, world, ownAvatars, issued, inbox, id, PendingIncomingUpdates,
                    PendingRemoves>>
      BY <1>13 DEF QueueEntityUpdate
    <2>2. QED
      BY <2>1 DEF WorldIds, StoreInv, DestroyInv
  <1>14. ASSUME NEW h \in Handles, DestroyEntity(h) PROVE DestroyInv'
    <2>1. WorldIds' \subseteq WorldIds
      BY <1>14, LocalDestroyEffect
    <2>2. requested' = requested \cup {id[h]}
      BY <1>14 DEF DestroyEntity
    <2>3. Elements(PendingRemoves') = Elements(PendingRemoves) \cup {h}
      BY <1>14, AppendElements DEF DestroyEntity, RemoveEntity, StoreInv, TypeOK, EngineTypeOK
    <2>4. UNCHANGED <<issued, inbox, id, PendingIncomingUpdates>>
      BY <1>14 DEF DestroyEntity
    <2>5. QED
      BY <2>1, <2>2, <2>3, <2>4 DEF StoreInv, DestroyInv
  <1>15. ASSUME TickEntities PROVE DestroyInv'
    <2>1. UNCHANGED <<requested, world, ownAvatars, issued, inbox, id, PendingIncomingUpdates,
                    PendingRemoves>>
      BY <1>15 DEF TickEntities
    <2>2. QED
      BY <2>1 DEF WorldIds, StoreInv, DestroyInv
  <1>16. ASSUME FlushAdd PROVE DestroyInv'
    <2>1. UNCHANGED <<requested, world, ownAvatars, issued, inbox, id, PendingIncomingUpdates,
                    PendingRemoves>>
      BY <1>16 DEF FlushAdd
    <2>2. QED
      BY <2>1 DEF WorldIds, StoreInv, DestroyInv
  <1>17. ASSUME FlushIncoming PROVE DestroyInv'
    <2> DEFINE patch == Head(PendingIncomingUpdates)
               h == FindSpaceEntityById(Entities, patch.id)
    <2>1. UNCHANGED <<requested, world, ownAvatars, issued, inbox, id>>
      BY <1>17 DEF FlushIncoming
    <2>2. WorldIds' = WorldIds
      BY <2>1 DEF WorldIds
    <2>3. \A n \in DOMAIN PendingIncomingUpdates' :
            /\ n + 1 \in DOMAIN PendingIncomingUpdates
            /\ PendingIncomingUpdates'[n] = PendingIncomingUpdates[n + 1]
      BY <1>17, IncomingPatchFacts
    <2>4. \A g \in Elements(PendingRemoves') : id[g] \in (issued \ WorldIds) \cup requested
      <3>1. CASE PendingRemoves' = PendingRemoves
        BY <3>1 DEF StoreInv, DestroyInv
      <3>2. CASE patch.destroy /\ h # Nil /\ RemoveEntity(h)
        <4>1. h \in Handles /\ id[h] = patch.id
          BY <1>17, <3>2, FindEntityFacts DEF StoreInv, TypeOK, EngineTypeOK
        <4>2. patch.id \in issued \ WorldIds
          BY <1>17, <3>2, IncomingPatchFacts DEF StoreInv, DestroyInv
        <4>3. Elements(PendingRemoves') = Elements(PendingRemoves) \cup {h}
          BY <3>2, <4>1, AppendElements DEF RemoveEntity, StoreInv, TypeOK, EngineTypeOK
        <4>4. QED
          BY <4>1, <4>2, <4>3 DEF StoreInv, DestroyInv
      <3>3. QED
        BY <1>17, <3>1, <3>2 DEF FlushIncoming, ApplyDestruction, ApplyUpdate, Destroys
    <2>5. QED
      BY <2>1, <2>2, <2>3, <2>4 DEF StoreInv, DestroyInv
  <1>18. ASSUME SendPatches PROVE DestroyInv'
    <2>1. UNCHANGED <<requested, issued, inbox, id, PendingIncomingUpdates,
                    PendingRemoves>>
      BY <1>18 DEF SendPatches
    <2>2. QED
      BY <1>18, <2>1, SendPatchesEffect DEF StoreInv, DestroyInv
  <1>19. ASSUME NEW h \in Handles, ApplyLocalPatch(h) PROVE DestroyInv'
    <2>1. UNCHANGED <<requested, world, ownAvatars, issued, inbox, id, PendingIncomingUpdates,
                    PendingRemoves>>
      BY <1>19 DEF ApplyLocalPatch
    <2>2. QED
      BY <2>1 DEF WorldIds, StoreInv, DestroyInv
  <1>20. ASSUME FlushRemove PROVE DestroyInv'
    <2>1. UNCHANGED <<requested, world, ownAvatars, issued, inbox, id, PendingIncomingUpdates>>
      BY <1>20 DEF FlushRemove
    <2>2. Elements(PendingRemoves') \subseteq Elements(PendingRemoves)
      BY <1>20, TailElements DEF FlushRemove, StoreInv, TypeOK, EngineTypeOK
    <2>3. WorldIds' = WorldIds
      BY <2>1 DEF WorldIds
    <2>4. QED
      BY <2>1, <2>2, <2>3 DEF StoreInv, DestroyInv
  <1>21. ASSUME FlushEnds PROVE DestroyInv'
    <2>1. UNCHANGED <<requested, world, ownAvatars, issued, inbox, id, PendingIncomingUpdates,
                    PendingRemoves>>
      BY <1>21 DEF FlushEnds
    <2>2. QED
      BY <2>1 DEF WorldIds, StoreInv, DestroyInv
  <1>22. CASE UNCHANGED vars
    BY <1>22 DEF vars, WorldIds, StoreInv, DestroyInv
  <1>23. QED
    BY <1>1, <1>2, <1>3, <1>4, <1>5, <1>6, <1>7, <1>8, <1>9, <1>10, <1>11, <1>12, <1>13,
       <1>14, <1>15, <1>16, <1>17, <1>18, <1>19, <1>20, <1>21, <1>22, CreateIsCreate
       DEF Next, Service, Network, Application, Flush

-----------------------------------------------------------------------------
(* Steps keep the invariants about the engine.                             *)

\* The lists hold live entities, split by type.
LEMMA ListsStep == StoreInv /\ [Next]_vars => ListsInv'
  <1> SUFFICES ASSUME StoreInv, [Next]_vars PROVE ListsInv'
    OBVIOUS
  <1> USE DEF history, service, made, hierarchy, lists, queues, flush
  <1>1. ASSUME NEW i \in Ids, NEW t \in Types, NEW p \in ParentIds, RemoteCreate(i, t, p)
        PROVE ListsInv'
    BY <1>1 DEF RemoteCreate, UnchangedEngine, StoreInv, ListsInv, IsLive
  <1>2. ASSUME NEW i \in Ids, NEW p \in ParentIds, RemoteReparent(i, p) PROVE ListsInv'
    BY <1>2 DEF RemoteReparent, UnchangedEngine, StoreInv, ListsInv, IsLive
  <1>3. ASSUME NEW i \in Ids, RemoteDestroy(i) PROVE ListsInv'
    BY <1>3 DEF RemoteDestroy, UnchangedEngine, StoreInv, ListsInv, IsLive
  <1>4. ASSUME NEW h \in Handles, OnObjectMessage(h) PROVE ListsInv'
    <2>1. Elements(PendingAdds') = Elements(PendingAdds) \cup {h}
      BY <1>4, AppendElements DEF OnObjectMessage, CreateRemotelyRetrievedEntity, StoreInv,
         TypeOK, ObjectsTypeOK, EngineTypeOK
    <2>2. \A g \in Handles : mem[g] = "live" => mem'[g] = "live" /\ type'[g] = type[g]
      BY <1>4 DEF OnObjectMessage, CreateRemotelyRetrievedEntity, NewFromObjectMessage,
         StoreInv, TypeOK, ObjectsTypeOK, EngineTypeOK
    <2>3. mem'[h] = "live" /\ UNCHANGED lists
      BY <1>4 DEF OnObjectMessage, CreateRemotelyRetrievedEntity, NewFromObjectMessage,
         StoreInv, TypeOK, ObjectsTypeOK, EngineTypeOK
    <2>4. Entities \subseteq Handles /\ Elements(PendingAdds) \subseteq Handles
      BY DEF Elements, StoreInv, TypeOK, ObjectsTypeOK, EngineTypeOK
    <2>5. QED
      BY <2>1, <2>2, <2>3, <2>4 DEF StoreInv, ListsInv, IsLive
  <1>5. ASSUME NEW h \in Handles, RetrievedEntity(h) PROVE ListsInv'
    <2>1. Elements(PendingAdds') = Elements(PendingAdds) \cup {h}
      BY <1>5, AppendElements DEF RetrievedEntity, CreateRemotelyRetrievedEntity, StoreInv,
         TypeOK, ObjectsTypeOK, EngineTypeOK
    <2>2. \A g \in Handles : mem[g] = "live" => mem'[g] = "live" /\ type'[g] = type[g]
      BY <1>5 DEF RetrievedEntity, CreateRemotelyRetrievedEntity, NewFromObjectMessage,
         StoreInv, TypeOK, ObjectsTypeOK, EngineTypeOK
    <2>3. mem'[h] = "live" /\ UNCHANGED lists
      BY <1>5 DEF RetrievedEntity, CreateRemotelyRetrievedEntity, NewFromObjectMessage,
         StoreInv, TypeOK, ObjectsTypeOK, EngineTypeOK
    <2>4. Entities \subseteq Handles /\ Elements(PendingAdds) \subseteq Handles
      BY DEF Elements, StoreInv, TypeOK, ObjectsTypeOK, EngineTypeOK
    <2>5. QED
      BY <2>1, <2>2, <2>3, <2>4 DEF StoreInv, ListsInv, IsLive
  <1>6. ASSUME OnObjectPatch PROVE ListsInv'
    BY <1>6 DEF OnObjectPatch, StoreInv, ListsInv, IsLive
  <1>7. ASSUME RetrievedPage PROVE ListsInv'
    BY <1>7 DEF RetrievedPage, StoreInv, ListsInv, IsLive
  <1>8. ASSUME ObjectSent PROVE ListsInv'
    <2> DEFINE h == Head(inbox).entity
    <2>1. h \in Handles /\ mem[h] = "made"
      BY <1>8, ReceivedFacts, MessageFields DEF ObjectSent, Received, StoreInv, AnswersInv
    <2>2. \/ UNCHANGED <<mem, lists>>
          \/ /\ mem' = [mem EXCEPT ![h] = "live"] /\ Entities' = Entities \cup {h}
             /\ type[h] = "Avatar" /\ Avatars' = Avatars \cup {h} /\ Objects' = Objects
          \/ /\ mem' = [mem EXCEPT ![h] = "live"] /\ Entities' = Entities \cup {h}
             /\ type[h] # "Avatar" /\ Objects' = Objects \cup {h} /\ Avatars' = Avatars
      BY <1>8 DEF ObjectSent
    <2>3. UNCHANGED <<type, PendingAdds>>
      BY <1>8 DEF ObjectSent
    <2> HIDE DEF h
    <2>4. Elements(PendingAdds) \subseteq Handles
      BY DEF Elements, StoreInv, TypeOK, ObjectsTypeOK, EngineTypeOK
    <2>5. QED
      BY <2>1, <2>2, <2>3, <2>4 DEF Types, StoreInv, ListsInv, IsLive, TypeOK,
         ObjectsTypeOK, EngineTypeOK
  <1>9. ASSUME FetchAllEntitiesAndPopulateBuffers PROVE ListsInv'
    BY <1>9 DEF FetchAllEntitiesAndPopulateBuffers, StoreInv, ListsInv, IsLive
  <1>10. ASSUME NEW h \in Handles, NEW i \in Ids, NEW t \in Types, NEW p \in ParentIds, Create(h, i, t, p)
         PROVE ListsInv'
    <2>1. \A g \in Handles : mem[g] = "live" => mem'[g] = "live" /\ type'[g] = type[g]
      BY <1>10 DEF Create, StoreInv, TypeOK, ObjectsTypeOK, EngineTypeOK
    <2>2. Elements(PendingAdds) \subseteq Handles /\ Entities \subseteq Handles
      BY DEF Elements, StoreInv, TypeOK, ObjectsTypeOK, EngineTypeOK
    <2>3. UNCHANGED <<lists, PendingAdds>>
      BY <1>10 DEF Create
    <2>4. QED
      BY <2>1, <2>2, <2>3 DEF StoreInv, ListsInv, IsLive
  <1>11. ASSUME NEW h \in Handles, NEW p \in ParentIds, SetParentId(h, p) PROVE ListsInv'
    BY <1>11 DEF SetParentId, StoreInv, ListsInv, IsLive
  <1>12. ASSUME NEW h \in Handles, RemoveParentEntity(h) PROVE ListsInv'
    BY <1>12 DEF RemoveParentEntity, StoreInv, ListsInv, IsLive
  <1>13. ASSUME NEW h \in Handles, QueueEntityUpdate(h) PROVE ListsInv'
    BY <1>13 DEF QueueEntityUpdate, StoreInv, ListsInv, IsLive
  <1>14. ASSUME NEW h \in Handles, DestroyEntity(h) PROVE ListsInv'
    BY <1>14 DEF DestroyEntity, StoreInv, ListsInv, IsLive
  <1>15. ASSUME TickEntities PROVE ListsInv'
    BY <1>15 DEF TickEntities, StoreInv, ListsInv, IsLive
  <1>16. ASSUME FlushAdd PROVE ListsInv'
    <2> DEFINE h == Head(PendingAdds)
    <2>1. /\ h \in Handles /\ h \in Elements(PendingAdds)
          /\ Elements(PendingAdds') \subseteq Elements(PendingAdds)
      BY <1>16, TailElements DEF FlushAdd, StoreInv, TypeOK, ObjectsTypeOK, EngineTypeOK
    <2>2. UNCHANGED lists \/ (Entities' = Entities \cup {h}
             /\ Avatars' = (IF type[h] = "Avatar" THEN Avatars \cup {h} ELSE Avatars)
             /\ Objects' = (IF type[h] = "Object" THEN Objects \cup {h} ELSE Objects))
      BY <1>16 DEF FlushAdd, AddPendingEntity
    <2>3. UNCHANGED <<mem, type>>
      BY <1>16 DEF FlushAdd
    <2> HIDE DEF h
    <2>4. QED
      BY <2>1, <2>2, <2>3 DEF StoreInv, ListsInv, IsLive
  <1>17. ASSUME FlushIncoming PROVE ListsInv'
    BY <1>17 DEF FlushIncoming, StoreInv, ListsInv, IsLive
  <1>18. ASSUME SendPatches PROVE ListsInv'
    BY <1>18 DEF SendPatches, StoreInv, ListsInv, IsLive
  <1>19. ASSUME NEW h \in Handles, ApplyLocalPatch(h) PROVE ListsInv'
    BY <1>19 DEF ApplyLocalPatch, StoreInv, ListsInv, IsLive
  <1>20. ASSUME FlushRemove PROVE ListsInv'
    <2> DEFINE h == Head(PendingRemoves)
    <2>1. h \in Handles
      BY <1>20, TailElements DEF FlushRemove, StoreInv, TypeOK, ObjectsTypeOK, EngineTypeOK
    <2>2. \/ UNCHANGED <<mem, lists>>
          \/ /\ mem' = [mem EXCEPT ![h] = "freed"] /\ Entities' = Entities \ {h}
             /\ Avatars' = (IF type[h] = "Avatar" THEN Avatars \ {h} ELSE Avatars)
             /\ Objects' = (IF type[h] = "Object" THEN Objects \ {h} ELSE Objects)
      BY <1>20 DEF FlushRemove, RemovePendingEntity
    <2>3. UNCHANGED <<type, PendingAdds>> /\ Elements(PendingAdds) = {}
      BY <1>20 DEF FlushRemove, StoreInv, QueuesInv, Elements
    <2> HIDE DEF h
    <2>4. QED
      BY <2>1, <2>2, <2>3 DEF StoreInv, ListsInv, IsLive, TypeOK, ObjectsTypeOK, EngineTypeOK
  <1>21. ASSUME FlushEnds PROVE ListsInv'
    BY <1>21 DEF FlushEnds, StoreInv, ListsInv, IsLive
  <1>22. CASE UNCHANGED vars
    BY <1>22 DEF vars, StoreInv, ListsInv, IsLive
  <1>23. QED
    BY <1>1, <1>2, <1>3, <1>4, <1>5, <1>6, <1>7, <1>8, <1>9, <1>10, <1>11, <1>12, <1>13,
       <1>14, <1>15, <1>16, <1>17, <1>18, <1>19, <1>20, <1>21, <1>22, CreateIsCreate
       DEF Next, Service, Network, Application, Flush

\* No two entities of the lists share an id.
LEMMA UniqueStep == StoreInv /\ [Next]_vars => UniqueInv'
  <1> SUFFICES ASSUME StoreInv, [Next]_vars PROVE UniqueInv'
    OBVIOUS
  <1> USE DEF history, service, made, hierarchy, lists, queues, flush
  <1>1. ASSUME NEW i \in Ids, NEW t \in Types, NEW p \in ParentIds, RemoteCreate(i, t, p)
        PROVE UniqueInv'
    BY <1>1 DEF RemoteCreate, UnchangedEngine, StoreInv, UniqueInv
  <1>2. ASSUME NEW i \in Ids, NEW p \in ParentIds, RemoteReparent(i, p) PROVE UniqueInv'
    BY <1>2 DEF RemoteReparent, UnchangedEngine, StoreInv, UniqueInv
  <1>3. ASSUME NEW i \in Ids, RemoteDestroy(i) PROVE UniqueInv'
    BY <1>3 DEF RemoteDestroy, UnchangedEngine, StoreInv, UniqueInv
  <1>4. ASSUME NEW h \in Handles, OnObjectMessage(h) PROVE UniqueInv'
    <2>1. h \notin Entities /\ Entities \subseteq Handles
      BY <1>4 DEF OnObjectMessage, CreateRemotelyRetrievedEntity, NewFromObjectMessage,
         ListsInv, IsLive, StoreInv, TypeOK, EngineTypeOK
    <2>2. Entities' = Entities /\ \A g \in Handles \ {h} : id'[g] = id[g]
      BY <1>4 DEF OnObjectMessage, CreateRemotelyRetrievedEntity, NewFromObjectMessage,
         StoreInv, TypeOK, ObjectsTypeOK
    <2>3. QED
      BY <2>1, <2>2 DEF StoreInv, UniqueInv
  <1>5. ASSUME NEW h \in Handles, RetrievedEntity(h) PROVE UniqueInv'
    <2>1. h \notin Entities /\ Entities \subseteq Handles
      BY <1>5 DEF RetrievedEntity, CreateRemotelyRetrievedEntity, NewFromObjectMessage,
         ListsInv, IsLive, StoreInv, TypeOK, EngineTypeOK
    <2>2. Entities' = Entities /\ \A g \in Handles \ {h} : id'[g] = id[g]
      BY <1>5 DEF RetrievedEntity, CreateRemotelyRetrievedEntity, NewFromObjectMessage,
         StoreInv, TypeOK, ObjectsTypeOK
    <2>3. QED
      BY <2>1, <2>2 DEF StoreInv, UniqueInv
  <1>6. ASSUME OnObjectPatch PROVE UniqueInv'
    BY <1>6 DEF OnObjectPatch, StoreInv, UniqueInv
  <1>7. ASSUME RetrievedPage PROVE UniqueInv'
    BY <1>7 DEF RetrievedPage, StoreInv, UniqueInv
  <1>8. ASSUME ObjectSent PROVE UniqueInv'
    <2> DEFINE h == Head(inbox).entity
    <2>1. /\ h \in Handles
          /\ \A g \in Handles \ {h} : mem[g] # "unused" => id[g] # id[h]
      BY <1>8, ReceivedFacts, MessageFields DEF ObjectSent, Received, StoreInv, AnswersInv
    <2>2. (Entities' = Entities \/ Entities' = Entities \cup {h}) /\ id' = id
      BY <1>8 DEF ObjectSent
    <2> HIDE DEF h
    <2>3. QED
      BY <2>1, <2>2 DEF ListsInv, IsLive, TypeOK, EngineTypeOK, StoreInv, UniqueInv
  <1>9. ASSUME FetchAllEntitiesAndPopulateBuffers PROVE UniqueInv'
    BY <1>9 DEF FetchAllEntitiesAndPopulateBuffers, StoreInv, UniqueInv
  <1>10. ASSUME NEW h \in Handles, NEW i \in Ids, NEW t \in Types, NEW p \in ParentIds, Create(h, i, t, p)
         PROVE UniqueInv'
    <2>1. h \notin Entities /\ Entities \subseteq Handles
      BY <1>10 DEF Create, ListsInv, IsLive, StoreInv, TypeOK, EngineTypeOK
    <2>2. Entities' = Entities /\ \A g \in Handles \ {h} : id'[g] = id[g]
      BY <1>10 DEF Create, StoreInv, TypeOK, ObjectsTypeOK
    <2>3. QED
      BY <2>1, <2>2 DEF StoreInv, UniqueInv
  <1>11. ASSUME NEW h \in Handles, NEW p \in ParentIds, SetParentId(h, p) PROVE UniqueInv'
    BY <1>11 DEF SetParentId, StoreInv, UniqueInv
  <1>12. ASSUME NEW h \in Handles, RemoveParentEntity(h) PROVE UniqueInv'
    BY <1>12 DEF RemoveParentEntity, StoreInv, UniqueInv
  <1>13. ASSUME NEW h \in Handles, QueueEntityUpdate(h) PROVE UniqueInv'
    BY <1>13 DEF QueueEntityUpdate, StoreInv, UniqueInv
  <1>14. ASSUME NEW h \in Handles, DestroyEntity(h) PROVE UniqueInv'
    BY <1>14 DEF DestroyEntity, StoreInv, UniqueInv
  <1>15. ASSUME TickEntities PROVE UniqueInv'
    BY <1>15 DEF TickEntities, StoreInv, UniqueInv
  <1>16. ASSUME FlushAdd PROVE UniqueInv'
    BY <1>16 DEF FlushAdd, AddPendingEntity, StoreInv, UniqueInv
  <1>17. ASSUME FlushIncoming PROVE UniqueInv'
    BY <1>17 DEF FlushIncoming, StoreInv, UniqueInv
  <1>18. ASSUME SendPatches PROVE UniqueInv'
    BY <1>18 DEF SendPatches, StoreInv, UniqueInv
  <1>19. ASSUME NEW h \in Handles, ApplyLocalPatch(h) PROVE UniqueInv'
    BY <1>19 DEF ApplyLocalPatch, StoreInv, UniqueInv
  <1>20. ASSUME FlushRemove PROVE UniqueInv'
    BY <1>20 DEF FlushRemove, RemovePendingEntity, StoreInv, UniqueInv
  <1>21. ASSUME FlushEnds PROVE UniqueInv'
    BY <1>21 DEF FlushEnds, StoreInv, UniqueInv
  <1>22. CASE UNCHANGED vars
    BY <1>22 DEF vars, StoreInv, UniqueInv
  <1>23. QED
    BY <1>1, <1>2, <1>3, <1>4, <1>5, <1>6, <1>7, <1>8, <1>9, <1>10, <1>11, <1>12, <1>13,
       <1>14, <1>15, <1>16, <1>17, <1>18, <1>19, <1>20, <1>21, <1>22, CreateIsCreate
       DEF Next, Service, Network, Application, Flush

\* RemovePendingEntity keeps Parent and ChildEntities of what remains in
\* agreement.
LEMMA RemovePointers ==
    ASSUME StoreInv, NEW h \in Handles, mem[h] = "live", RemovePendingEntity(h)
    PROVE  PointersInv'
  <1> DEFINE found(c) == FindParent(Entities, parentId[c])
             orphans == children[h] \ {h}
  <1>1. /\ parent' = [c \in Handles |->
              IF c = h THEN Nil ELSE IF c \in orphans THEN found(c) ELSE parent[c]]
        /\ children' = [g \in Handles |->
              IF g = h THEN {}
              ELSE (children[g] \ (IF g = parent[h] THEN {h} ELSE {}))
                   \cup {c \in orphans : found(c) = g}]
        /\ mem' = [mem EXCEPT ![h] = "freed"]
    BY DEF RemovePendingEntity
  <1>2. /\ parent \in [Handles -> Pointers] /\ children \in [Handles -> SUBSET Handles]
        /\ mem \in [Handles -> {"unused", "made", "live", "freed"}]
        /\ parentId \in [Handles -> ParentIds] /\ Entities \in SUBSET Handles
        /\ Nil \notin Handles
    BY NilAssumption DEF StoreInv, TypeOK, ObjectsTypeOK, EngineTypeOK
  <1>3. \A c \in Handles : found(c) = Nil \/ (found(c) \in Handles /\ mem[found(c)] = "live")
    BY <1>2, FindParentFacts DEF StoreInv, ListsInv, IsLive
  <1> HIDE DEF found
  <1>4. \A q, c \in Handles :
          mem[q] # "freed" => (c \in children[q] <=> mem[c] # "freed" /\ parent[c] = q)
    BY DEF StoreInv, PointersInv
  <1>5. ASSUME NEW q \in Handles, NEW c \in Handles, mem'[q] # "freed"
        PROVE  c \in children'[q] <=> mem'[c] # "freed" /\ parent'[c] = q
    <2>1. q # h /\ mem[q] # "freed"
      BY <1>1, <1>2, <1>5
    <2>2. CASE c = h
      BY <2>1, <2>2, <1>1, <1>2, <1>4
    <2>3. CASE c # h /\ c \in orphans
      BY <2>1, <2>3, <1>1, <1>2, <1>4
    <2>4. CASE c # h /\ c \notin orphans
      BY <2>1, <2>4, <1>1, <1>2, <1>4
    <2>5. QED
      BY <2>2, <2>3, <2>4
  <1>6. ASSUME NEW g \in Handles, mem'[g] \in {"unused", "made"}
        PROVE  children'[g] = {} /\ parent'[g] = Nil
    <2>1. g # h /\ mem[g] \in {"unused", "made"}
      BY <1>1, <1>2, <1>6
    <2>2. children[g] = {} /\ parent[g] = Nil
      BY <2>1 DEF StoreInv, PointersInv
    <2>3. g \notin orphans
      BY <2>2, <1>2, <1>4
    <2>4. \A c \in orphans : found(c) # g
      BY <2>1, <1>2, <1>3
    <2>5. QED
      BY <2>1, <2>2, <2>3, <2>4, <1>1
  <1>7. QED
    BY <1>5, <1>6 DEF PointersInv

\* Parent and ChildEntities stay two views of one relation.
LEMMA PointersStep == StoreInv /\ [Next]_vars => PointersInv'
  <1> SUFFICES ASSUME StoreInv, [Next]_vars PROVE PointersInv'
    OBVIOUS
  <1> USE DEF history, service, made, hierarchy, lists, queues, flush
  <1>1. ASSUME NEW i \in Ids, NEW t \in Types, NEW p \in ParentIds, RemoteCreate(i, t, p)
        PROVE PointersInv'
    BY <1>1 DEF RemoteCreate, UnchangedEngine, StoreInv, PointersInv
  <1>2. ASSUME NEW i \in Ids, NEW p \in ParentIds, RemoteReparent(i, p) PROVE PointersInv'
    BY <1>2 DEF RemoteReparent, UnchangedEngine, StoreInv, PointersInv
  <1>3. ASSUME NEW i \in Ids, RemoteDestroy(i) PROVE PointersInv'
    BY <1>3 DEF RemoteDestroy, UnchangedEngine, StoreInv, PointersInv
  <1>4. ASSUME NEW h \in Handles, OnObjectMessage(h) PROVE PointersInv'
    BY <1>4 DEF OnObjectMessage, CreateRemotelyRetrievedEntity, NewFromObjectMessage,
       TypeOK, ObjectsTypeOK, StoreInv, PointersInv
  <1>5. ASSUME NEW h \in Handles, RetrievedEntity(h) PROVE PointersInv'
    BY <1>5 DEF RetrievedEntity, CreateRemotelyRetrievedEntity, NewFromObjectMessage,
       TypeOK, ObjectsTypeOK, StoreInv, PointersInv
  <1>6. ASSUME OnObjectPatch PROVE PointersInv'
    BY <1>6 DEF OnObjectPatch, StoreInv, PointersInv
  <1>7. ASSUME RetrievedPage PROVE PointersInv'
    BY <1>7 DEF RetrievedPage, StoreInv, PointersInv
  <1>8. ASSUME ObjectSent PROVE PointersInv'
    <2> DEFINE h == Head(inbox).entity
    <2>1. h \in Handles /\ mem[h] = "made"
      BY <1>8, ReceivedFacts, MessageFields DEF ObjectSent, Received, StoreInv, AnswersInv
    <2>2. \/ UNCHANGED <<mem, hierarchy>>
          \/ mem' = [mem EXCEPT ![h] = "live"] /\ UNCHANGED hierarchy
          \/ mem' = [mem EXCEPT ![h] = "live"] /\ ResolveEntityHierarchy(Entities, h, parentId[h])
      BY <1>8 DEF ObjectSent
    <2> HIDE DEF h
    <2>3. mem \in [Handles -> {"unused", "made", "live", "freed"}] /\ parentId[h] \in ParentIds
          /\ Entities \in SUBSET Handles
      BY <2>1 DEF StoreInv, TypeOK, ObjectsTypeOK, EngineTypeOK
    <2>4. CASE UNCHANGED hierarchy
      BY <2>1, <2>2, <2>3, <2>4 DEF StoreInv, PointersInv
    <2>5. CASE mem' = [mem EXCEPT ![h] = "live"] /\ ResolveEntityHierarchy(Entities, h, parentId[h])
      <3>1. \A g \in Handles : /\ mem'[g] = "freed" <=> mem[g] = "freed"
                               /\ mem'[g] \in {"unused", "made"} => mem[g] \in {"unused", "made"}
        BY <2>1, <2>3, <2>5
      <3>2. mem'[h] = "live" /\ mem[h] # "freed"
        BY <2>1, <2>3, <2>5
      <3>3. \A g \in Entities \cup Elements(PendingAdds) : mem[g] = "live"
        BY DEF StoreInv, ListsInv, IsLive
      <3>4. QED
        BY <2>1, <2>3, <2>5, <3>1, <3>2, <3>3, ResolvePointers DEF StoreInv
    <2>6. QED
      BY <2>2, <2>4, <2>5
  <1>9. ASSUME FetchAllEntitiesAndPopulateBuffers PROVE PointersInv'
    BY <1>9 DEF FetchAllEntitiesAndPopulateBuffers, StoreInv, PointersInv
  <1>10. ASSUME NEW h \in Handles, NEW i \in Ids, NEW t \in Types, NEW p \in ParentIds, Create(h, i, t, p)
         PROVE PointersInv'
    BY <1>10 DEF Create, TypeOK, ObjectsTypeOK, StoreInv, PointersInv
  <1>11. ASSUME NEW h \in Handles, NEW p \in ParentIds, SetParentId(h, p) PROVE PointersInv'
    BY <1>11 DEF SetParentId, StoreInv, PointersInv
  <1>12. ASSUME NEW h \in Handles, RemoveParentEntity(h) PROVE PointersInv'
    BY <1>12 DEF RemoveParentEntity, StoreInv, PointersInv
  <1>13. ASSUME NEW h \in Handles, QueueEntityUpdate(h) PROVE PointersInv'
    BY <1>13 DEF QueueEntityUpdate, StoreInv, PointersInv
  <1>14. ASSUME NEW h \in Handles, DestroyEntity(h) PROVE PointersInv'
    <2>1. /\ parent' = [c \in Handles |-> IF c \in children[h] THEN Nil ELSE parent[c]]
          /\ children' = [g \in Handles |-> children[g] \ {c \in children[h] : parent[c] = g}]
          /\ mem' = mem
      BY <1>14 DEF DestroyEntity, LocalProcessChildUpdates
    <2>2. parent \in [Handles -> Pointers] /\ children \in [Handles -> SUBSET Handles] /\ Nil \notin Handles
      BY NilAssumption DEF StoreInv, TypeOK, ObjectsTypeOK
    <2>3. ASSUME NEW q \in Handles, NEW c \in Handles, mem[q] # "freed"
          PROVE  c \in children'[q] <=> mem[c] # "freed" /\ parent'[c] = q
      BY <2>1, <2>2, <2>3 DEF StoreInv, PointersInv
    <2>4. ASSUME NEW g \in Handles, mem[g] \in {"unused", "made"}
          PROVE children'[g] = {} /\ parent'[g] = Nil
      BY <2>1, <2>2, <2>4 DEF StoreInv, PointersInv
    <2>5. QED
      BY <2>1, <2>3, <2>4 DEF PointersInv
  <1>15. ASSUME TickEntities PROVE PointersInv'
    BY <1>15 DEF TickEntities, StoreInv, PointersInv
  <1>16. ASSUME FlushAdd PROVE PointersInv'
    <2> DEFINE h == Head(PendingAdds)
    <2>1. /\ h \in Handles /\ h \in Elements(PendingAdds) /\ parentId[h] \in ParentIds
          /\ Entities' \in SUBSET Handles /\ Entities' \subseteq Entities \cup {h}
      BY <1>16, TailElements DEF FlushAdd, AddPendingEntity, StoreInv, TypeOK,
         ObjectsTypeOK, EngineTypeOK
    <2>2. \A g \in Entities \cup Elements(PendingAdds) : mem[g] = "live"
      BY DEF StoreInv, ListsInv, IsLive
    <2>3. mem' = mem /\ (UNCHANGED hierarchy \/ ResolveEntityHierarchy(Entities', h, parentId[h]))
      BY <1>16 DEF FlushAdd
    <2> HIDE DEF h
    <2>4. CASE UNCHANGED hierarchy
      BY <2>3, <2>4 DEF StoreInv, PointersInv
    <2>5. CASE ResolveEntityHierarchy(Entities', h, parentId[h])
      BY <2>1, <2>2, <2>3, <2>5, ResolvePointers DEF StoreInv
    <2>6. QED
      BY <2>3, <2>4, <2>5
  <1>17. ASSUME FlushIncoming PROVE PointersInv'
    <2> DEFINE patch == Head(PendingIncomingUpdates)
               h == FindSpaceEntityById(Entities, patch.id)
    <2>1. patch.parentId \in ParentIds /\ Entities \in SUBSET Handles
      BY <1>17, IncomingPatchFacts
    <2>2. \A g \in Entities \cup Elements(PendingAdds) : mem[g] = "live"
      BY DEF StoreInv, ListsInv, IsLive
    <2>3. h = Nil \/ h \in Entities
      BY <2>1, FindEntityFacts
    <2>4. mem' = mem
      BY <1>17 DEF FlushIncoming
    <2>5. \/ UNCHANGED hierarchy
          \/ h # Nil /\ ResolveEntityHierarchy(Entities, h, patch.parentId)
      BY <1>17 DEF FlushIncoming, ApplyDestruction, ApplyUpdate
    <2> HIDE DEF patch, h
    <2>6. CASE UNCHANGED hierarchy
      BY <2>4, <2>6 DEF StoreInv, PointersInv
    <2>7. CASE h # Nil /\ ResolveEntityHierarchy(Entities, h, patch.parentId)
      BY <2>1, <2>2, <2>3, <2>4, <2>7, ResolvePointers DEF StoreInv
    <2>8. QED
      BY <2>6, <2>7, <2>5
  <1>18. ASSUME SendPatches PROVE PointersInv'
    BY <1>18 DEF SendPatches, StoreInv, PointersInv
  <1>19. ASSUME NEW h \in Handles, ApplyLocalPatch(h) PROVE PointersInv'
    <2>1. \A g \in Entities \cup Elements(PendingAdds) : mem[g] = "live"
      BY DEF StoreInv, ListsInv, IsLive
    <2>2. mem' = mem
      BY <1>19 DEF ApplyLocalPatch
    <2>3. \/ UNCHANGED hierarchy
          \/ newParentId[h] # Clean /\ ResolveEntityHierarchy(Entities, h, newParentId[h])
      BY <1>19 DEF ApplyLocalPatch
    <2>4. CASE UNCHANGED hierarchy
      BY <2>2, <2>4 DEF StoreInv, PointersInv
    <2>5. CASE newParentId[h] # Clean /\ ResolveEntityHierarchy(Entities, h, newParentId[h])
      <3>1. newParentId[h] \in ParentIds /\ Entities \in SUBSET Handles
        BY <2>5 DEF StoreInv, TypeOK, ObjectsTypeOK, EngineTypeOK
      <3>2. mem[h] = "live"
        BY <1>19 DEF ApplyLocalPatch, StoreInv, QueuesInv, IsLive
      <3>3. QED
        BY <2>1, <2>2, <2>5, <3>1, <3>2, ResolvePointers DEF StoreInv
    <2>6. QED
      BY <2>4, <2>5, <2>3
  <1>20. ASSUME FlushRemove PROVE PointersInv'
    <2> DEFINE h == Head(PendingRemoves)
    <2>1. h \in Handles /\ h \in Elements(PendingRemoves)
      BY <1>20, TailElements DEF FlushRemove, StoreInv, TypeOK, ObjectsTypeOK, EngineTypeOK
    <2>2. UNCHANGED <<mem, hierarchy>> \/ (h \notin handled /\ RemovePendingEntity(h))
      BY <1>20 DEF FlushRemove
    <2> HIDE DEF h
    <2>3. CASE UNCHANGED <<mem, hierarchy>>
      BY <2>3 DEF StoreInv, PointersInv
    <2>4. CASE h \notin handled /\ RemovePendingEntity(h)
      <3>1. mem[h] = "live"
        BY <2>1, <2>4 DEF StoreInv, QueuesInv, IsLive
      <3>2. QED
        BY <2>1, <2>4, <3>1, RemovePointers
    <2>5. QED
      BY <2>2, <2>3, <2>4
  <1>21. ASSUME FlushEnds PROVE PointersInv'
    BY <1>21 DEF FlushEnds, StoreInv, PointersInv
  <1>22. CASE UNCHANGED vars
    BY <1>22 DEF vars, StoreInv, PointersInv
  <1>23. QED
    BY <1>1, <1>2, <1>3, <1>4, <1>5, <1>6, <1>7, <1>8, <1>9, <1>10, <1>11, <1>12, <1>13,
       <1>14, <1>15, <1>16, <1>17, <1>18, <1>19, <1>20, <1>21, <1>22, CreateIsCreate
       DEF Next, Service, Network, Application, Flush

\* The list of root entities stays sound.
LEMMA RootStep == StoreInv /\ [Next]_vars => RootListIsSound'
  <1> SUFFICES ASSUME StoreInv, [Next]_vars PROVE RootListIsSound'
    OBVIOUS
  <1> USE DEF history, service, made, hierarchy, lists, queues, flush
  <1>1. ASSUME NEW i \in Ids, NEW t \in Types, NEW p \in ParentIds, RemoteCreate(i, t, p)
        PROVE RootListIsSound'
    BY <1>1 DEF RemoteCreate, UnchangedEngine, StoreInv, RootListIsSound
  <1>2. ASSUME NEW i \in Ids, NEW p \in ParentIds, RemoteReparent(i, p)
        PROVE RootListIsSound'
    BY <1>2 DEF RemoteReparent, UnchangedEngine, StoreInv, RootListIsSound
  <1>3. ASSUME NEW i \in Ids, RemoteDestroy(i) PROVE RootListIsSound'
    BY <1>3 DEF RemoteDestroy, UnchangedEngine, StoreInv, RootListIsSound
  <1>4. ASSUME NEW h \in Handles, OnObjectMessage(h) PROVE RootListIsSound'
    BY <1>4 DEF OnObjectMessage, CreateRemotelyRetrievedEntity, NewFromObjectMessage,
       TypeOK, ObjectsTypeOK, EngineTypeOK, StoreInv, RootListIsSound
  <1>5. ASSUME NEW h \in Handles, RetrievedEntity(h) PROVE RootListIsSound'
    BY <1>5 DEF RetrievedEntity, CreateRemotelyRetrievedEntity, NewFromObjectMessage,
       TypeOK, ObjectsTypeOK, EngineTypeOK, StoreInv, RootListIsSound
  <1>6. ASSUME OnObjectPatch PROVE RootListIsSound'
    BY <1>6 DEF OnObjectPatch, StoreInv, RootListIsSound
  <1>7. ASSUME RetrievedPage PROVE RootListIsSound'
    BY <1>7 DEF RetrievedPage, StoreInv, RootListIsSound
  <1>8. ASSUME ObjectSent PROVE RootListIsSound'
    <2> DEFINE h == Head(inbox).entity
    <2>1. h \in Handles /\ mem[h] = "made"
      BY <1>8, ReceivedFacts, MessageFields DEF ObjectSent, Received, StoreInv, AnswersInv
    <2>2. \/ UNCHANGED <<mem, hierarchy>>
          \/ mem' = [mem EXCEPT ![h] = "live"] /\ UNCHANGED hierarchy
          \/ mem' = [mem EXCEPT ![h] = "live"] /\ ResolveEntityHierarchy(Entities, h, parentId[h])
      BY <1>8 DEF ObjectSent
    <2>3. id' = id
      BY <1>8 DEF ObjectSent
    <2> HIDE DEF h
    <2>4. mem \in [Handles -> {"unused", "made", "live", "freed"}] /\ parentId[h] \in ParentIds
          /\ Entities \in SUBSET Handles /\ RootHierarchyEntities \subseteq Handles
      BY <2>1 DEF StoreInv, TypeOK, ObjectsTypeOK, EngineTypeOK
    <2>5. CASE UNCHANGED hierarchy
      BY <2>1, <2>2, <2>3, <2>4, <2>5 DEF StoreInv, RootListIsSound
    <2>6. CASE mem' = [mem EXCEPT ![h] = "live"] /\ ResolveEntityHierarchy(Entities, h, parentId[h])
      <3>1. mem'[h] = "live" /\ \A g \in Handles : mem[g] = "live" => mem'[g] = "live"
        BY <2>1, <2>4, <2>6
      <3>2. QED
        BY <2>1, <2>3, <2>4, <2>6, <3>1, ResolveRoot DEF StoreInv
    <2>7. QED
      BY <2>2, <2>5, <2>6
  <1>9. ASSUME FetchAllEntitiesAndPopulateBuffers PROVE RootListIsSound'
    BY <1>9 DEF FetchAllEntitiesAndPopulateBuffers, StoreInv, RootListIsSound
  <1>10. ASSUME NEW h \in Handles, NEW i \in Ids, NEW t \in Types, NEW p \in ParentIds, Create(h, i, t, p)
         PROVE RootListIsSound'
    BY <1>10 DEF Create, TypeOK, ObjectsTypeOK, EngineTypeOK, StoreInv, RootListIsSound
  <1>11. ASSUME NEW h \in Handles, NEW p \in ParentIds, SetParentId(h, p)
         PROVE RootListIsSound'
    BY <1>11 DEF SetParentId, StoreInv, RootListIsSound
  <1>12. ASSUME NEW h \in Handles, RemoveParentEntity(h) PROVE RootListIsSound'
    BY <1>12 DEF RemoveParentEntity, StoreInv, RootListIsSound
  <1>13. ASSUME NEW h \in Handles, QueueEntityUpdate(h) PROVE RootListIsSound'
    BY <1>13 DEF QueueEntityUpdate, StoreInv, RootListIsSound
  <1>14. ASSUME NEW h \in Handles, DestroyEntity(h) PROVE RootListIsSound'
    <2>1. PICK a \in RootAdditions(RootHierarchyEntities \ {h}, children[h]) :
            RootHierarchyEntities' = (RootHierarchyEntities \ {h}) \cup a
      BY <1>14 DEF DestroyEntity, LocalProcessChildUpdates
    <2>2. /\ parentId' = [c \in Handles |-> IF c \in children[h] THEN NoParent ELSE parentId[c]]
          /\ mem' = mem /\ id' = id /\ mem[h] = "live"
      BY <1>14 DEF DestroyEntity, LocalProcessChildUpdates, Usable
    <2>3. /\ children[h] \subseteq Handles /\ RootHierarchyEntities \subseteq Handles
          /\ \A c \in children[h] : parent[c] = h /\ h # Nil
      BY <2>2, NilAssumption DEF StoreInv, PointersInv, TypeOK, ObjectsTypeOK, EngineTypeOK
    <2>4. \A c \in children[h] : mem[c] = "live"
      BY <2>2, <2>3 DEF StoreInv, PointersInv, TypeOK, ObjectsTypeOK, EngineTypeOK
    <2>5. /\ a \subseteq children[h]
          /\ \A g \in a : \A r \in RootHierarchyEntities \ {h} : id[r] # id[g]
          /\ \A g, k \in a : id[g] = id[k] => g = k
      BY <2>1 DEF RootAdditions
    <2>6. QED
      BY <2>1, <2>2, <2>3, <2>4, <2>5 DEF StoreInv, RootListIsSound
  <1>15. ASSUME TickEntities PROVE RootListIsSound'
    BY <1>15 DEF TickEntities, StoreInv, RootListIsSound
  <1>16. ASSUME FlushAdd PROVE RootListIsSound'
    <2> DEFINE h == Head(PendingAdds)
    <2>1. /\ h \in Handles /\ h \in Elements(PendingAdds) /\ parentId[h] \in ParentIds
          /\ Entities' \in SUBSET Handles
      BY <1>16, TailElements DEF FlushAdd, AddPendingEntity, StoreInv, TypeOK,
         ObjectsTypeOK, EngineTypeOK
    <2>2. UNCHANGED <<mem, id>>
      BY <1>16 DEF FlushAdd
    <2>3. UNCHANGED hierarchy \/ ResolveEntityHierarchy(Entities', h, parentId[h])
      BY <1>16 DEF FlushAdd
    <2> HIDE DEF h
    <2>4. mem[h] = "live"
      BY <2>1 DEF StoreInv, ListsInv, IsLive
    <2>5. CASE UNCHANGED hierarchy
      BY <2>2, <2>5 DEF StoreInv, RootListIsSound
    <2>6. CASE ResolveEntityHierarchy(Entities', h, parentId[h])
      BY <2>1, <2>2, <2>4, <2>6, ResolveRoot DEF StoreInv
    <2>7. QED
      BY <2>3, <2>5, <2>6
  <1>17. ASSUME FlushIncoming PROVE RootListIsSound'
    <2> DEFINE patch == Head(PendingIncomingUpdates)
               h == FindSpaceEntityById(Entities, patch.id)
    <2>1. patch.parentId \in ParentIds /\ Entities \in SUBSET Handles
      BY <1>17, IncomingPatchFacts
    <2>2. h = Nil \/ (h \in Handles /\ mem[h] = "live")
      BY <2>1, FindEntityFacts DEF StoreInv, ListsInv, IsLive
    <2>3. UNCHANGED <<mem, id>>
      BY <1>17 DEF FlushIncoming
    <2>4. \/ UNCHANGED hierarchy
          \/ h # Nil /\ ResolveEntityHierarchy(Entities, h, patch.parentId)
      BY <1>17 DEF FlushIncoming, ApplyDestruction, ApplyUpdate
    <2> HIDE DEF patch, h
    <2>5. CASE UNCHANGED hierarchy
      BY <2>3, <2>5 DEF StoreInv, RootListIsSound
    <2>6. CASE h # Nil /\ ResolveEntityHierarchy(Entities, h, patch.parentId)
      BY <2>1, <2>2, <2>3, <2>6, ResolveRoot DEF StoreInv
    <2>7. QED
      BY <2>4, <2>5, <2>6
  <1>18. ASSUME SendPatches PROVE RootListIsSound'
    BY <1>18 DEF SendPatches, StoreInv, RootListIsSound
  <1>19. ASSUME NEW h \in Handles, ApplyLocalPatch(h) PROVE RootListIsSound'
    <2>1. UNCHANGED <<mem, id>> /\ mem[h] = "live"
      BY <1>19 DEF ApplyLocalPatch, StoreInv, QueuesInv, IsLive
    <2>2. \/ UNCHANGED hierarchy
          \/ newParentId[h] # Clean /\ ResolveEntityHierarchy(Entities, h, newParentId[h])
      BY <1>19 DEF ApplyLocalPatch
    <2>3. CASE UNCHANGED hierarchy
      BY <2>1, <2>3 DEF StoreInv, RootListIsSound
    <2>4. CASE newParentId[h] # Clean /\ ResolveEntityHierarchy(Entities, h, newParentId[h])
      <3>1. newParentId[h] \in ParentIds /\ Entities \in SUBSET Handles
        BY <2>4 DEF StoreInv, TypeOK, ObjectsTypeOK, EngineTypeOK
      <3>2. QED
        BY <2>1, <2>4, <3>1, ResolveRoot DEF StoreInv
    <2>5. QED
      BY <2>2, <2>3, <2>4
  <1>20. ASSUME FlushRemove PROVE RootListIsSound'
    <2> DEFINE h == Head(PendingRemoves)
    <2>1. h \in Handles /\ h \in Elements(PendingRemoves)
      BY <1>20, TailElements DEF FlushRemove, StoreInv, TypeOK, ObjectsTypeOK, EngineTypeOK
    <2>2. UNCHANGED <<mem, hierarchy>> \/ (h \notin handled /\ RemovePendingEntity(h))
      BY <1>20 DEF FlushRemove
    <2>3. id' = id
      BY <1>20 DEF FlushRemove
    <2> HIDE DEF h
    <2>4. CASE UNCHANGED <<mem, hierarchy>>
      BY <2>3, <2>4 DEF StoreInv, RootListIsSound
    <2>5. CASE h \notin handled /\ RemovePendingEntity(h)
      <3> DEFINE root == RootHierarchyEntities \ {h}
                 free == {c \in children[h] \ {h} : parentId[c] = NoParent}
      <3>1. mem[h] = "live"
        BY <2>1, <2>5 DEF StoreInv, QueuesInv, IsLive
      <3>2. PICK a \in RootAdditions(root, free) : RootHierarchyEntities' \subseteq root \cup a
        BY <2>5 DEF RemovePendingEntity
      <3>3. parentId' = [parentId EXCEPT ![h] = NoParent] /\ mem' = [mem EXCEPT ![h] = "freed"]
        BY <2>5 DEF RemovePendingEntity
      <3>4. children[h] \subseteq Handles /\ \A c \in children[h] : parent[c] = h /\ h # Nil
        BY <2>1, <3>1, NilAssumption DEF StoreInv, PointersInv, TypeOK, ObjectsTypeOK,
           EngineTypeOK
      <3>5. \A c \in free : c \in Handles \ {h} /\ mem[c] = "live" /\ parentId[c] = NoParent
        BY <3>1, <3>4, <2>1 DEF StoreInv, PointersInv, TypeOK, ObjectsTypeOK, EngineTypeOK
      <3> HIDE DEF free
      <3>6. /\ a \subseteq free
            /\ \A g \in a : \A r \in root : id[r] # id[g]
            /\ \A g, k \in a : id[g] = id[k] => g = k
        BY <3>2 DEF RootAdditions
      <3>7. \A r \in root \cup a : r \in Handles \ {h} /\ mem[r] = "live" /\ parentId[r] = NoParent
        BY <3>5, <3>6 DEF StoreInv, RootListIsSound, TypeOK, ObjectsTypeOK, EngineTypeOK
      <3>8. \A r \in root \cup a : mem'[r] = "live" /\ parentId'[r] = NoParent
        BY <3>3, <3>7 DEF StoreInv, RootListIsSound, TypeOK, ObjectsTypeOK, EngineTypeOK
      <3>9. \A r, s \in root \cup a : id[r] = id[s] => r = s
        BY <3>6 DEF StoreInv, RootListIsSound
      <3>10. QED
        BY <2>3, <3>2, <3>8, <3>9 DEF RootListIsSound
    <2>6. QED
      BY <2>2, <2>4, <2>5
  <1>21. ASSUME FlushEnds PROVE RootListIsSound'
    BY <1>21 DEF FlushEnds, StoreInv, RootListIsSound
  <1>22. CASE UNCHANGED vars
    BY <1>22 DEF vars, StoreInv, RootListIsSound
  <1>23. QED
    BY <1>1, <1>2, <1>3, <1>4, <1>5, <1>6, <1>7, <1>8, <1>9, <1>10, <1>11, <1>12, <1>13,
       <1>14, <1>15, <1>16, <1>17, <1>18, <1>19, <1>20, <1>21, <1>22, CreateIsCreate
       DEF Next, Service, Network, Application, Flush

\* What is queued for sending is live, and what is queued for removal is not
\* queued for sending.
LEMMA QueuesStep == StoreInv /\ [Next]_vars => QueuesInv'
  <1> SUFFICES ASSUME StoreInv, [Next]_vars PROVE QueuesInv'
    OBVIOUS
  <1> USE DEF history, service, made, hierarchy, lists, queues, flush
  <1>1. ASSUME NEW i \in Ids, NEW t \in Types, NEW p \in ParentIds, RemoteCreate(i, t, p)
        PROVE QueuesInv'
    BY <1>1 DEF RemoteCreate, UnchangedEngine, StoreInv, QueuesInv, IsLive
  <1>2. ASSUME NEW i \in Ids, NEW p \in ParentIds, RemoteReparent(i, p) PROVE QueuesInv'
    BY <1>2 DEF RemoteReparent, UnchangedEngine, StoreInv, QueuesInv, IsLive
  <1>3. ASSUME NEW i \in Ids, RemoteDestroy(i) PROVE QueuesInv'
    BY <1>3 DEF RemoteDestroy, UnchangedEngine, StoreInv, QueuesInv, IsLive
  <1>4. ASSUME NEW h \in Handles, OnObjectMessage(h) PROVE QueuesInv'
    <2>1. \A g \in Handles : mem[g] = "live" => mem'[g] = "live"
      BY <1>4 DEF OnObjectMessage, CreateRemotelyRetrievedEntity, NewFromObjectMessage,
         StoreInv, TypeOK, ObjectsTypeOK, EngineTypeOK
    <2>2. phase = "idle" /\ UNCHANGED <<PendingOutgoingUpdateUniqueSet, PendingRemoves, flush>>
      BY <1>4 DEF OnObjectMessage, CreateRemotelyRetrievedEntity, NewFromObjectMessage,
         Received, InSpace, Idle
    <2>3. Elements(PendingRemoves) \subseteq Handles
          /\ PendingOutgoingUpdateUniqueSet \cup sending \subseteq Handles
      BY DEF Elements, StoreInv, TypeOK, ObjectsTypeOK, EngineTypeOK
    <2>4. QED
      BY <2>1, <2>2, <2>3 DEF StoreInv, QueuesInv, IsLive
  <1>5. ASSUME NEW h \in Handles, RetrievedEntity(h) PROVE QueuesInv'
    <2>1. \A g \in Handles : mem[g] = "live" => mem'[g] = "live"
      BY <1>5 DEF RetrievedEntity, CreateRemotelyRetrievedEntity, NewFromObjectMessage,
         StoreInv, TypeOK, ObjectsTypeOK, EngineTypeOK
    <2>2. phase = "idle" /\ UNCHANGED <<PendingOutgoingUpdateUniqueSet, PendingRemoves, flush>>
      BY <1>5 DEF RetrievedEntity, CreateRemotelyRetrievedEntity, NewFromObjectMessage,
         Received, InSpace, Idle
    <2>3. Elements(PendingRemoves) \subseteq Handles
          /\ PendingOutgoingUpdateUniqueSet \cup sending \subseteq Handles
      BY DEF Elements, StoreInv, TypeOK, ObjectsTypeOK, EngineTypeOK
    <2>4. QED
      BY <2>1, <2>2, <2>3 DEF StoreInv, QueuesInv, IsLive
  <1>6. ASSUME OnObjectPatch PROVE QueuesInv'
    BY <1>6 DEF OnObjectPatch, StoreInv, QueuesInv, IsLive
  <1>7. ASSUME RetrievedPage PROVE QueuesInv'
    BY <1>7 DEF RetrievedPage, Idle, Received, StoreInv, QueuesInv, IsLive
  <1>8. ASSUME ObjectSent PROVE QueuesInv'
    <2>1. \A g \in Handles : mem[g] = "live" => mem'[g] = "live"
      BY <1>8 DEF ObjectSent, StoreInv, TypeOK, ObjectsTypeOK, EngineTypeOK
    <2>2. UNCHANGED <<queues, flush>>
      BY <1>8 DEF ObjectSent
    <2>3. Elements(PendingRemoves) \subseteq Handles
          /\ PendingOutgoingUpdateUniqueSet \cup sending \subseteq Handles
      BY DEF Elements, StoreInv, TypeOK, ObjectsTypeOK, EngineTypeOK
    <2>4. QED
      BY <2>1, <2>2, <2>3 DEF StoreInv, QueuesInv, IsLive
  <1>9. ASSUME FetchAllEntitiesAndPopulateBuffers PROVE QueuesInv'
    BY <1>9 DEF FetchAllEntitiesAndPopulateBuffers, StoreInv, QueuesInv, IsLive
  <1>10. ASSUME NEW h \in Handles, NEW i \in Ids, NEW t \in Types, NEW p \in ParentIds, Create(h, i, t, p)
         PROVE QueuesInv'
    <2>1. \A g \in Handles : mem[g] = "live" => mem'[g] = "live"
      BY <1>10 DEF Create, StoreInv, TypeOK, ObjectsTypeOK, EngineTypeOK
    <2>2. phase = "idle" /\ UNCHANGED <<PendingOutgoingUpdateUniqueSet, PendingRemoves, flush>>
      BY <1>10 DEF Create, Received, InSpace, Idle
    <2>3. Elements(PendingRemoves) \subseteq Handles
          /\ PendingOutgoingUpdateUniqueSet \cup sending \subseteq Handles
      BY DEF Elements, StoreInv, TypeOK, ObjectsTypeOK, EngineTypeOK
    <2>4. QED
      BY <2>1, <2>2, <2>3 DEF StoreInv, QueuesInv, IsLive
  <1>11. ASSUME NEW h \in Handles, NEW p \in ParentIds, SetParentId(h, p) PROVE QueuesInv'
    BY <1>11 DEF SetParentId, StoreInv, QueuesInv, IsLive
  <1>12. ASSUME NEW h \in Handles, RemoveParentEntity(h) PROVE QueuesInv'
    BY <1>12 DEF RemoveParentEntity, StoreInv, QueuesInv, IsLive
  <1>13. ASSUME NEW h \in Handles, QueueEntityUpdate(h) PROVE QueuesInv'
    BY <1>13 DEF QueueEntityUpdate, Usable, InSpace, Idle, StoreInv, QueuesInv, IsLive
  <1>14. ASSUME NEW h \in Handles, DestroyEntity(h) PROVE QueuesInv'
    <2>1. Elements(PendingRemoves') = Elements(PendingRemoves) \cup {h}
      BY <1>14, AppendElements DEF DestroyEntity, RemoveEntity, StoreInv, TypeOK,
         ObjectsTypeOK, EngineTypeOK
    <2>2. QED
      BY <1>14, <2>1 DEF DestroyEntity, RemoveEntity, Usable, InSpace, Idle, StoreInv,
         QueuesInv, IsLive
  <1>15. ASSUME TickEntities PROVE QueuesInv'
    BY <1>15 DEF TickEntities, Idle, Received, StoreInv, QueuesInv, IsLive
  <1>16. ASSUME FlushAdd PROVE QueuesInv'
    BY <1>16 DEF FlushAdd, StoreInv, QueuesInv, IsLive
  <1>17. ASSUME FlushIncoming PROVE QueuesInv'
    <2> DEFINE h == FindSpaceEntityById(Entities, Head(PendingIncomingUpdates).id)
    <2>1. h = Nil \/ (h \in Handles /\ mem[h] = "live")
      BY FindEntityFacts DEF StoreInv, ListsInv, IsLive, TypeOK, ObjectsTypeOK, EngineTypeOK
    <2>2. \/ UNCHANGED <<PendingRemoves, PendingOutgoingUpdateUniqueSet>>
          \/ h # Nil /\ RemoveEntity(h)
      BY <1>17 DEF FlushIncoming, ApplyDestruction, ApplyUpdate
    <2>3. UNCHANGED <<mem, PendingAdds, flush>> /\ phase = "adding"
      BY <1>17 DEF FlushIncoming
    <2> HIDE DEF h
    <2>4. CASE UNCHANGED <<PendingRemoves, PendingOutgoingUpdateUniqueSet>>
      BY <2>3, <2>4 DEF StoreInv, QueuesInv, IsLive
    <2>5. CASE h # Nil /\ RemoveEntity(h)
      <3>1. Elements(PendingRemoves') = Elements(PendingRemoves) \cup {h}
        BY <2>1, <2>5, AppendElements DEF RemoveEntity, StoreInv, TypeOK, ObjectsTypeOK,
           EngineTypeOK
      <3>2. QED
        BY <2>1, <2>3, <2>5, <3>1 DEF RemoveEntity, StoreInv, QueuesInv, IsLive
    <2>6. QED
      BY <2>2, <2>4, <2>5
  <1>18. ASSUME SendPatches PROVE QueuesInv'
    BY <1>18 DEF SendPatches, StoreInv, QueuesInv, IsLive
  <1>19. ASSUME NEW h \in Handles, ApplyLocalPatch(h) PROVE QueuesInv'
    BY <1>19 DEF ApplyLocalPatch, StoreInv, QueuesInv, IsLive
  <1>20. ASSUME FlushRemove PROVE QueuesInv'
    <2> DEFINE h == Head(PendingRemoves)
    <2>1. /\ h \in Handles /\ h \in Elements(PendingRemoves)
          /\ Elements(PendingRemoves') \subseteq Elements(PendingRemoves)
      BY <1>20, TailElements DEF FlushRemove, StoreInv, TypeOK, ObjectsTypeOK, EngineTypeOK
    <2>2. \/ UNCHANGED <<mem, handled>>
          \/ mem' = [mem EXCEPT ![h] = "freed"] /\ handled' = handled \cup {h}
      BY <1>20 DEF FlushRemove, RemovePendingEntity
    <2>3. /\ phase = "sent" /\ sending = {}
          /\ UNCHANGED <<phase, sending, PendingAdds, PendingOutgoingUpdateUniqueSet>>
      BY <1>20 DEF FlushRemove
    <2> HIDE DEF h
    <2>4. CASE UNCHANGED <<mem, handled>>
      BY <2>1, <2>3, <2>4 DEF StoreInv, QueuesInv, IsLive
    <2>5. CASE mem' = [mem EXCEPT ![h] = "freed"] /\ handled' = handled \cup {h}
      <3>1. Elements(PendingRemoves) \subseteq Handles /\ PendingOutgoingUpdateUniqueSet \subseteq Handles
            /\ mem \in [Handles -> {"unused", "made", "live", "freed"}]
        BY DEF Elements, StoreInv, TypeOK, ObjectsTypeOK, EngineTypeOK
      <3>2. QED
        BY <2>1, <2>3, <2>5, <3>1 DEF StoreInv, QueuesInv, IsLive
    <2>6. QED
      BY <2>2, <2>4, <2>5
  <1>21. ASSUME FlushEnds PROVE QueuesInv'
    <2>1. Elements(PendingRemoves) = {}
      BY <1>21 DEF FlushEnds, Elements
    <2>2. QED
      BY <1>21, <2>1 DEF FlushEnds, StoreInv, QueuesInv, IsLive
  <1>22. CASE UNCHANGED vars
    BY <1>22 DEF vars, StoreInv, QueuesInv, IsLive
  <1>23. QED
    BY <1>1, <1>2, <1>3, <1>4, <1>5, <1>6, <1>7, <1>8, <1>9, <1>10, <1>11, <1>12, <1>13,
       <1>14, <1>15, <1>16, <1>17, <1>18, <1>19, <1>20, <1>21, <1>22, CreateIsCreate
       DEF Next, Service, Network, Application, Flush

-----------------------------------------------------------------------------
(* The theorems.                                                           *)

\* A new engine satisfies the invariant.
LEMMA InitStoreInv == Init => StoreInv
  <1> SUFFICES ASSUME Init PROVE StoreInv
    OBVIOUS
  <1>1. world \in Seq(Records) /\ UniqueIds(world)
    BY InitialWorldsAssumption DEF Init
  <1>2. WorldIds \subseteq Ids /\ issued = WorldIds /\ ownAvatars = {}
    <2>1. Elements(world) \subseteq Records
      BY <1>1 DEF Elements
    <2>2. \A r \in Records : r.id \in Ids
      BY DEF Records
    <2>3. QED
      BY <2>1, <2>2 DEF Init, WorldIds
  <1>3. inbox = <<>> /\ DOMAIN inbox = {} /\ inbox \in Seq(Messages)
    BY EmptySeq DEF Init
  <1>4. ServiceTypeOK
    BY <1>1, <1>2, <1>3 DEF Init, ServiceTypeOK
  <1>5. ObjectsTypeOK
    <2>1. (CHOOSE i \in Ids : TRUE) \in Ids
      BY IdsAssumption
    <2>2. QED
      BY <2>1 DEF Init, ObjectsTypeOK, Types, ParentIds, Pointers
  <1>6. EngineTypeOK
    BY EmptySeq DEF Init, EngineTypeOK, Phases
  <1>7. Elements(PendingAdds) = {} /\ Elements(PendingRemoves) = {} /\ DOMAIN PendingIncomingUpdates = {}
    BY DEF Init, Elements
  <1>8. ListsInv /\ UniqueInv /\ QueuesInv
    BY <1>7 DEF Init, ListsInv, UniqueInv, QueuesInv
  <1>9. PointersInv
    BY NilAssumption DEF Init, PointersInv
  <1>10. RootListIsSound
    BY DEF Init, RootListIsSound
  <1>11. IssuedInv /\ AnswersInv /\ DestroyInv
    BY <1>1, <1>2, <1>3, <1>7 DEF Init, IssuedInv, AnswersInv, DestroyInv
  <1>12. QED
    BY <1>4, <1>5, <1>6, <1>8, <1>9, <1>10, <1>11 DEF StoreInv, TypeOK

\* Every step keeps the invariant.
LEMMA NextStoreInv == StoreInv /\ [Next]_vars => StoreInv'
  BY ServiceTypeStep, ObjectsTypeStep, EngineTypeStep, ListsStep, UniqueStep, PointersStep,
     RootStep, QueuesStep, IssuedStep, AnswersStep, DestroyStep
     DEF StoreInv, TypeOK

\* The inductive invariant of the entity store, for any number of entities and
\* ids, any page size and any number of messages in flight.
THEOREM StoreInvariant == Spec => []StoreInv
  BY InitStoreInv, NextStoreInv, PTL DEF Spec

\* Entities, Avatars and Objects agree, hold live objects only and hold each
\* id once, whichever of the four roads AddPendingEntity, the fetch,
\* CreateEntity and CreateAvatar an entity came by.
THEOREM EntityListsAlwaysAgree == Spec => []EntityListsAgree
  <1>1. StoreInv => EntityListsAgree
    BY DEF StoreInv, ListsInv, UniqueInv, IsLive, EntityListsAgree
  <1>2. QED
    BY <1>1, StoreInvariant, PTL

\* Parent and ChildEntities of live entities are two views of one relation
\* after any sequence of ResolveEntityHierarchy, LocalProcessChildUpdates and
\* RemovePendingEntity.
THEOREM ParentsAndChildrenAlwaysAgree == Spec => []ParentChildAgree
  <1>1. StoreInv => ParentChildAgree
    BY DEF StoreInv, PointersInv, ParentChildAgree
  <1>2. QED
    BY <1>1, StoreInvariant, PTL

\* The list of root entities holds live entities without a ParentId, one per
\* id.
THEOREM RootListAlwaysSound == Spec => []RootListIsSound
  <1>1. StoreInv => RootListIsSound
    BY DEF StoreInv
  <1>2. QED
    BY <1>1, StoreInvariant, PTL

\* No pointer queued for sending or for removal outlives its entity.
THEOREM QueuedUpdatesAlwaysLive == Spec => []QueuedUpdatesAreLive
  <1>1. StoreInv => QueuedUpdatesAreLive
    <2> SUFFICES ASSUME StoreInv PROVE QueuedUpdatesAreLive
      OBVIOUS
    <2>1. PendingOutgoingUpdateUniqueSet \cup sending \subseteq Handles
          /\ Elements(PendingRemoves) \subseteq Handles
      BY DEF StoreInv, TypeOK, EngineTypeOK, Elements
    <2>2. QED
      BY <2>1 DEF StoreInv, QueuesInv, IsLive, QueuedUpdatesAreLive
  <1>2. QED
    BY <1>1, StoreInvariant, PTL

\* RemovePendingEntity deletes an object only when the service no longer has
\* an entity of that id or this client asked for its destruction.
THEOREM OnlyDestroyedEntitiesAreEverFreed == Spec => OnlyDestroyedEntitiesAreFreed
  <1> DEFINE Frees == \A h \in Handles :
                 mem[h] = "live" /\ mem'[h] = "freed" =>
                     id[h] \notin WorldIds \/ id[h] \in requested
  <1>1. ASSUME StoreInv, [Next]_vars PROVE [Frees]_vars
    <2> USE DEF history, service, made, hierarchy, lists, queues, flush
    <2> SUFFICES ASSUME NEW h \in Handles, mem[h] = "live", mem'[h] = "freed"
                 PROVE  id[h] \notin WorldIds \/ id[h] \in requested
      OBVIOUS
    <2>1. mem \in [Handles -> {"unused", "made", "live", "freed"}]
      BY <1>1 DEF StoreInv, TypeOK, ObjectsTypeOK
    <2>2. ASSUME FlushRemove PROVE id[h] \notin WorldIds \/ id[h] \in requested
      <3>1. h = Head(PendingRemoves)
        BY <2>1, <2>2 DEF FlushRemove, RemovePendingEntity
      <3>2. h \in Elements(PendingRemoves)
        BY <1>1, <2>2, <3>1, TailElements DEF FlushRemove, StoreInv, TypeOK, EngineTypeOK
      <3>3. QED
        BY <1>1, <3>2 DEF StoreInv, DestroyInv
    <2>3. ASSUME NEW i \in Ids, NEW t \in Types, NEW p \in ParentIds, RemoteCreate(i, t, p)
          PROVE FALSE
      BY <2>1, <2>3 DEF RemoteCreate, UnchangedEngine
    <2>4. ASSUME NEW i \in Ids, NEW p \in ParentIds, RemoteReparent(i, p) PROVE FALSE
      BY <2>1, <2>4 DEF RemoteReparent, UnchangedEngine
    <2>5. ASSUME NEW i \in Ids, RemoteDestroy(i) PROVE FALSE
      BY <2>1, <2>5 DEF RemoteDestroy, UnchangedEngine
    <2>6. ASSUME NEW g \in Handles, OnObjectMessage(g) PROVE FALSE
      BY <2>1, <2>6 DEF OnObjectMessage, CreateRemotelyRetrievedEntity, NewFromObjectMessage
    <2>7. ASSUME NEW g \in Handles, RetrievedEntity(g) PROVE FALSE
      BY <2>1, <2>7 DEF RetrievedEntity, CreateRemotelyRetrievedEntity, NewFromObjectMessage
    <2>8. ASSUME OnObjectPatch PROVE FALSE
      BY <2>1, <2>8 DEF OnObjectPatch
    <2>9. ASSUME RetrievedPage PROVE FALSE
      BY <2>1, <2>9 DEF RetrievedPage
    <2>10. ASSUME ObjectSent PROVE FALSE
      BY <2>1, <2>10 DEF ObjectSent
    <2>11. ASSUME FetchAllEntitiesAndPopulateBuffers PROVE FALSE
      BY <2>1, <2>11 DEF FetchAllEntitiesAndPopulateBuffers
    <2>12. ASSUME NEW g \in Handles, NEW i \in Ids, NEW t \in Types, NEW p \in ParentIds, Create(g, i, t, p)
           PROVE FALSE
      BY <2>1, <2>12 DEF Create
    <2>13. ASSUME NEW g \in Handles, NEW p \in ParentIds, SetParentId(g, p) PROVE FALSE
      BY <2>1, <2>13 DEF SetParentId
    <2>14. ASSUME NEW g \in Handles, RemoveParentEntity(g) PROVE FALSE
      BY <2>1, <2>14 DEF RemoveParentEntity
    <2>15. ASSUME NEW g \in Handles, QueueEntityUpdate(g) PROVE FALSE
      BY <2>1, <2>15 DEF QueueEntityUpdate
    <2>16. ASSUME NEW g \in Handles, DestroyEntity(g) PROVE FALSE
      BY <2>1, <2>16 DEF DestroyEntity
    <2>17. ASSUME TickEntities PROVE FALSE
      BY <2>1, <2>17 DEF TickEntities
    <2>18. ASSUME FlushAdd PROVE FALSE
      BY <2>1, <2>18 DEF FlushAdd
    <2>19. ASSUME FlushIncoming PROVE FALSE
      BY <2>1, <2>19 DEF FlushIncoming
    <2>20. ASSUME SendPatches PROVE FALSE
      BY <2>1, <2>20 DEF SendPatches
    <2>21. ASSUME NEW g \in Handles, ApplyLocalPatch(g) PROVE FALSE
      BY <2>1, <2>21 DEF ApplyLocalPatch
    <2>22. ASSUME FlushEnds PROVE FALSE
      BY <2>1, <2>22 DEF FlushEnds
    <2>23. CASE UNCHANGED vars
      BY <2>23 DEF vars
    <2>24. QED
      BY <1>1, <2>2, <2>3, <2>4, <2>5, <2>6, <2>7, <2>8, <2>9, <2>10, <2>11, <2>12, <2>13,
         <2>14, <2>15, <2>16, <2>17, <2>18, <2>19, <2>20, <2>21, <2>22, <2>23,
         CreateIsCreate
         DEF Next, Service, Network, Application, Flush
  <1>2. QED
    BY <1>1, StoreInvariant, PTL DEF Spec, OnlyDestroyedEntitiesAreFreed
-----------------------------------------------------------------------------
(* Destructions are not lost.                                              *)

\* The message is the destruction of i by another client.
DestroyPatch(message, i) ==
    message.kind = "patch" /\ message.patch.destroy /\ message.patch.id = i

\* The message, once handled, may show an entity with the id i.
Introduces(message, i) ==
    \/ i \in Mentions(message)
    \/ message.kind = "sent" /\ message.ok /\ id[message.entity] = i

\* The destruction of i comes after the message at m.
DestroyAfter(m, i) == \E n \in DOMAIN inbox : n > m /\ DestroyPatch(inbox[n], i)

\* The destruction of i was received and is to be applied by the flush.
Queued(i) ==
    \E n \in DOMAIN PendingIncomingUpdates :
        PendingIncomingUpdates[n].destroy /\ PendingIncomingUpdates[n].id = i

Coming(i) == DestroyAfter(0, i) \/ Queued(i)

\* The service no longer lists what was destroyed.
GoneInv == destroyed \subseteq issued \ WorldIds

\* Whatever introduces a destroyed id is followed by its destruction.
AfterInv ==
    \A m \in DOMAIN inbox : \A i \in destroyed : Introduces(inbox[m], i) => DestroyAfter(m, i)

\* A destroyed entity that is shown, or to be shown, has its destruction
\* coming, or is queued for removal.
ComingInv ==
    /\ \A h \in Elements(PendingAdds) : id[h] \in destroyed => Coming(id[h])
    /\ \A h \in Entities :
          id[h] \in destroyed => Coming(id[h]) \/ h \in Elements(PendingRemoves)

\* What this flush removed is not shown.
HandledInv == phase = "sent" => \A h \in handled : h \notin Entities

LostInv == GoneInv /\ AfterInv /\ ComingInv /\ HandledInv

\* The messages moved up by one.
Shifted == \A n \in DOMAIN inbox : n = 1 \/ (n - 1 \in DOMAIN inbox' /\ inbox'[n - 1] = inbox[n])

\* Handling the first message moves the others up.
LEMMA TakenShifts ==
    ASSUME StoreInv, inbox # <<>>, inbox' = Tail(inbox)
    PROVE  Shifted
  <1>1. inbox \in Seq(Messages)
    BY DEF StoreInv, TypeOK, ServiceTypeOK
  <1>2. /\ DOMAIN inbox = 1 .. Len(inbox) /\ Len(inbox) \in Nat \ {0}
        /\ DOMAIN Tail(inbox) = 1 .. (Len(inbox) - 1)
        /\ \A n \in DOMAIN Tail(inbox) : Tail(inbox)[n] = inbox[n + 1]
    BY <1>1, TailElements
  <1>3. ASSUME NEW n \in DOMAIN inbox, n # 1
        PROVE  n - 1 \in DOMAIN Tail(inbox) /\ (n - 1) + 1 = n
    BY <1>2, <1>3
  <1>4. QED
    BY <1>2, <1>3 DEF Shifted

\* So does the end of a page, whether or not the next one is appended.
LEMMA PageShifts ==
    ASSUME StoreInv, RetrievedPage
    PROVE  Shifted
  <1>1. inbox # <<>>
    BY DEF RetrievedPage, Received
  <1>2. CASE inbox' = Tail(inbox)
    BY <1>1, <1>2, TakenShifts
  <1>3. ASSUME NEW page, inbox' = Append(Tail(inbox), page)
        PROVE  Shifted
    <2>1. inbox \in Seq(Messages)
      BY DEF StoreInv, TypeOK, ServiceTypeOK
    <2>2. /\ DOMAIN inbox = 1 .. Len(inbox) /\ Len(inbox) \in Nat \ {0}
          /\ Tail(inbox) \in Seq(Messages) /\ DOMAIN Tail(inbox) = 1 .. (Len(inbox) - 1)
          /\ \A n \in DOMAIN Tail(inbox) : Tail(inbox)[n] = inbox[n + 1]
      BY <1>1, <2>1, TailElements
    <2>3. Len(Tail(inbox)) = Len(inbox) - 1
      BY <2>2
    <2>4. /\ DOMAIN inbox' = 1 .. Len(inbox)
          /\ \A n \in 1 .. (Len(inbox) - 1) : inbox'[n] = Tail(inbox)[n]
      BY <1>3, <2>2, <2>3
    <2>5. ASSUME NEW n \in DOMAIN inbox, n # 1
          PROVE  /\ n - 1 \in DOMAIN Tail(inbox) /\ (n - 1) + 1 = n
                 /\ n - 1 \in DOMAIN inbox'
      BY <2>2, <2>4, <2>5
    <2>6. QED
      BY <2>2, <2>4, <2>5 DEF Shifted
  <1>4. QED
    BY <1>2, <1>3 DEF RetrievedPage

\* A destruction that comes after the first message comes one place earlier
\* once that message is handled.
LEMMA ShiftedAfter ==
    ASSUME StoreInv, Shifted, NEW m \in Nat, NEW i, DestroyAfter(m + 1, i)
    PROVE  DestroyAfter(m, i)'
  <1>1. PICK n \in DOMAIN inbox : n > m + 1 /\ DestroyPatch(inbox[n], i)
    BY DEF DestroyAfter
  <1>2. n \in Nat \ {0}
    BY InboxDomain
  <1>3. n # 1 /\ n - 1 > m
    BY <1>1, <1>2
  <1>4. n - 1 \in DOMAIN inbox' /\ inbox'[n - 1] = inbox[n]
    BY <1>3 DEF Shifted
  <1>5. DestroyPatch(inbox'[n - 1], i)
    BY <1>1, <1>4
  <1>6. QED
    BY <1>3, <1>4, <1>5 DEF DestroyAfter, DestroyPatch

\* A destruction in flight is still so when the first message, which is not
\* it, is handled.
LEMMA ShiftedComing ==
    ASSUME StoreInv, Shifted, NEW i, DestroyAfter(0, i), ~DestroyPatch(inbox[1], i)
    PROVE  DestroyAfter(0, i)'
  <1>1. PICK n \in DOMAIN inbox : n > 0 /\ DestroyPatch(inbox[n], i)
    BY DEF DestroyAfter
  <1>2. n \in Nat \ {0} /\ n # 1
    BY <1>1, InboxDomain
  <1>3. n > 0 + 1
    BY <1>2
  <1>4. DestroyAfter(0 + 1, i)
    BY <1>1, <1>3 DEF DestroyAfter
  <1>5. QED
    BY <1>4, ShiftedAfter

\* The messages in flight stay where they are.
Kept == \A n \in DOMAIN inbox : n \in DOMAIN inbox' /\ inbox'[n] = inbox[n]

LEMMA KeptAfter ==
    ASSUME Kept, NEW m, NEW i, DestroyAfter(m, i)
    PROVE  DestroyAfter(m, i)'
  BY DEF Kept, DestroyAfter, DestroyPatch

\* A new object at h does not change the id of one whose creation is to be
\* answered.
LEMMA AnsweredIds ==
    ASSUME StoreInv, NEW h \in Handles, mem[h] = "unused", NEW i, id' = [id EXCEPT ![h] = i]
    PROVE  /\ \A n \in DOMAIN inbox : inbox[n].kind = "sent" =>
                id'[inbox[n].entity] = id[inbox[n].entity]
           /\ \A g \in Entities \cup Elements(PendingAdds) : id'[g] = id[g]
           /\ id'[h] = i
  <1>1. /\ inbox \in Seq(Messages) /\ id \in [Handles -> Ids] /\ Entities \subseteq Handles
        /\ Elements(PendingAdds) \subseteq Handles
    BY DEF StoreInv, TypeOK, ServiceTypeOK, ObjectsTypeOK, EngineTypeOK, Elements
  <1>2. \A g \in Handles : g # h => id'[g] = id[g]
    BY <1>1
  <1>3. \A n \in DOMAIN inbox : inbox[n].kind = "sent" => inbox[n].entity \in Handles
    BY <1>1, MessageFields
  <1>4. \A n \in DOMAIN inbox : inbox[n].kind = "sent" => inbox[n].entity # h
    BY <1>3 DEF StoreInv, AnswersInv
  <1>5. \A g \in Entities \cup Elements(PendingAdds) : g # h
    BY DEF StoreInv, ListsInv, IsLive
  <1>6. QED
    BY <1>1, <1>2, <1>3, <1>4, <1>5

\* A destroyed id is never listed again.
LEMMA GoneStep == StoreInv /\ GoneInv /\ [Next]_vars => GoneInv'
  <1> SUFFICES ASSUME StoreInv, GoneInv, [Next]_vars PROVE GoneInv'
    OBVIOUS
  <1> USE DEF history, service, made, hierarchy, lists, queues, flush
  <1>1. ASSUME NEW i \in Ids, NEW t \in Types, NEW p \in ParentIds, RemoteCreate(i, t, p)
        PROVE GoneInv'
    <2>1. destroyed' = destroyed /\ issued' = issued \cup {i}
      BY <1>1 DEF RemoteCreate
    <2>2. QED
      BY <1>1, <2>1, RemoteCreateEffect DEF GoneInv
  <1>2. ASSUME NEW i \in Ids, NEW p \in ParentIds, RemoteReparent(i, p) PROVE GoneInv'
    <2>1. destroyed' = destroyed /\ issued' = issued
      BY <1>2 DEF RemoteReparent
    <2>2. QED
      BY <1>2, <2>1, RemoteReparentEffect DEF GoneInv
  <1>3. ASSUME NEW i \in Ids, RemoteDestroy(i) PROVE GoneInv'
    <2>1. destroyed' = destroyed \cup {i} /\ issued' = issued
      BY <1>3 DEF RemoteDestroy
    <2>2. QED
      BY <1>3, <2>1, RemoteDestroyEffect DEF GoneInv
  <1>4. ASSUME NEW h \in Handles, NEW i \in Ids, NEW t \in Types, NEW p \in ParentIds, Create(h, i, t, p)
        PROVE GoneInv'
    <2>1. destroyed' = destroyed /\ issued' = issued \cup {i}
      BY <1>4 DEF Create
    <2>2. QED
      BY <1>4, <2>1, CreateEffect DEF GoneInv
  <1>5. ASSUME NEW h \in Handles, DestroyEntity(h) PROVE GoneInv'
    <2>1. destroyed' = destroyed /\ issued' = issued
      BY <1>5 DEF DestroyEntity
    <2>2. QED
      BY <1>5, <2>1, LocalDestroyEffect DEF GoneInv
  <1>6. ASSUME SendPatches PROVE GoneInv'
    <2>1. destroyed' = destroyed /\ issued' = issued
      BY <1>6 DEF SendPatches
    <2>2. QED
      BY <1>6, <2>1, SendPatchesEffect DEF GoneInv
  <1>7. ASSUME UNCHANGED <<destroyed, issued, world, ownAvatars>> PROVE GoneInv'
    BY <1>7 DEF GoneInv, WorldIds
  <1>8. ASSUME NEW h \in Handles, OnObjectMessage(h) \/ RetrievedEntity(h) PROVE GoneInv'
    BY <1>7, <1>8 DEF OnObjectMessage, RetrievedEntity
  <1>9. ASSUME OnObjectPatch \/ RetrievedPage \/ ObjectSent PROVE GoneInv'
    BY <1>7, <1>9 DEF OnObjectPatch, RetrievedPage, ObjectSent
  <1>10. ASSUME FetchAllEntitiesAndPopulateBuffers PROVE GoneInv'
    BY <1>7, <1>10 DEF FetchAllEntitiesAndPopulateBuffers
  <1>11. ASSUME NEW h \in Handles, NEW p \in ParentIds, SetParentId(h, p) PROVE GoneInv'
    BY <1>7, <1>11 DEF SetParentId
  <1>12. ASSUME NEW h \in Handles, RemoveParentEntity(h) \/ QueueEntityUpdate(h) \/ ApplyLocalPatch(h)
         PROVE GoneInv'
    BY <1>7, <1>12 DEF RemoveParentEntity, QueueEntityUpdate, ApplyLocalPatch
  <1>13. ASSUME TickEntities \/ FlushAdd \/ FlushIncoming \/ FlushRemove \/ FlushEnds PROVE GoneInv'
    BY <1>7, <1>13 DEF TickEntities, FlushAdd, FlushIncoming, FlushRemove, FlushEnds
  <1>14. CASE UNCHANGED vars
    BY <1>7, <1>14 DEF vars
  <1>15. QED
    BY <1>1, <1>2, <1>3, <1>4, <1>5, <1>6, <1>8, <1>9, <1>10, <1>11, <1>12, <1>13, <1>14,
       CreateIsCreate DEF Next, Service, Network, Application, Flush

\* Messages that stay, and new ones that introduce nothing destroyed, keep
\* destructions after what they destroy.
LEMMA KeptInv ==
    ASSUME StoreInv, AfterInv, Kept, destroyed' = destroyed,
           \A n \in DOMAIN inbox : inbox[n].kind = "sent" =>
               id'[inbox[n].entity] = id[inbox[n].entity],
           \A n \in DOMAIN inbox' \ DOMAIN inbox : \A j \in destroyed : ~Introduces(inbox[n], j)'
    PROVE  AfterInv'
  <1> SUFFICES ASSUME NEW m \in DOMAIN inbox', NEW j \in destroyed', Introduces(inbox[m], j)'
               PROVE  DestroyAfter(m, j)'
    BY DEF AfterInv
  <1>1. j \in destroyed /\ m \in DOMAIN inbox
    OBVIOUS
  <1>2. inbox'[m] = inbox[m]
    BY <1>1 DEF Kept
  <1>3. Introduces(inbox[m], j)
    BY <1>1, <1>2 DEF Introduces, Mentions
  <1>4. DestroyAfter(m, j)
    BY <1>1, <1>3 DEF AfterInv
  <1>5. QED
    BY <1>4, KeptAfter

\* The same when the first message is handled.
LEMMA ShiftedInv ==
    ASSUME StoreInv, AfterInv, Shifted, destroyed' = destroyed,
           \A n \in DOMAIN inbox : inbox[n].kind = "sent" =>
               id'[inbox[n].entity] = id[inbox[n].entity],
           \A n \in DOMAIN inbox' :
               \/ n \in Nat /\ n + 1 \in DOMAIN inbox /\ inbox'[n] = inbox[n + 1]
               \/ \A j \in destroyed : ~Introduces(inbox[n], j)'
    PROVE  AfterInv'
  <1> SUFFICES ASSUME NEW m \in DOMAIN inbox', NEW j \in destroyed', Introduces(inbox[m], j)'
               PROVE  DestroyAfter(m, j)'
    BY DEF AfterInv
  <1>1. j \in destroyed /\ m \in Nat /\ m + 1 \in DOMAIN inbox /\ inbox'[m] = inbox[m + 1]
    OBVIOUS
  <1>2. Introduces(inbox[m + 1], j)
    BY <1>1 DEF Introduces, Mentions
  <1>3. DestroyAfter(m + 1, j)
    BY <1>1, <1>2 DEF AfterInv
  <1>4. QED
    BY <1>1, <1>3, ShiftedAfter

\* A destruction stays behind what introduces its id.
LEMMA AfterStep == StoreInv /\ GoneInv /\ AfterInv /\ [Next]_vars => AfterInv'
  <1> SUFFICES ASSUME StoreInv, GoneInv, AfterInv, [Next]_vars PROVE AfterInv'
    OBVIOUS
  <1> USE DEF history, service, made, hierarchy, lists, queues, flush
  <1>1. ASSUME NEW i \in Ids, NEW t \in Types, NEW p \in ParentIds, RemoteCreate(i, t, p)
        PROVE AfterInv'
    <2>1. destroyed' = destroyed /\ id' = id
      BY <1>1 DEF RemoteCreate, UnchangedEngine
    <2>2. Kept /\ i \notin destroyed
      BY <1>1, RemoteCreateEffect DEF Kept, GoneInv
    <2>3. \A n \in DOMAIN inbox' \ DOMAIN inbox : \A j \in destroyed : ~Introduces(inbox[n], j)'
      BY <1>1, <2>2, RemoteCreateEffect DEF Introduces, Mentions
    <2>4. QED
      BY <2>1, <2>2, <2>3, KeptInv
  <1>2. ASSUME NEW i \in Ids, NEW p \in ParentIds, RemoteReparent(i, p) PROVE AfterInv'
    <2>1. destroyed' = destroyed /\ id' = id
      BY <1>2 DEF RemoteReparent, UnchangedEngine
    <2>2. Kept
      BY <1>2, RemoteReparentEffect DEF Kept
    <2>3. \A n \in DOMAIN inbox' \ DOMAIN inbox : \A j \in destroyed : ~Introduces(inbox[n], j)'
      BY <1>2, RemoteReparentEffect DEF Introduces, Mentions
    <2>4. QED
      BY <2>1, <2>2, <2>3, KeptInv
  <1>3. ASSUME NEW i \in Ids, RemoteDestroy(i) PROVE AfterInv'
    <2>1. destroyed' = destroyed \cup {i} /\ id' = id
      BY <1>3 DEF RemoteDestroy, UnchangedEngine
    <2>2. /\ Kept
          /\ \A n \in DOMAIN inbox' \ DOMAIN inbox : inbox'[n].kind = "patch"
          /\ \A n \in DOMAIN inbox' \ DOMAIN inbox : Mentions(inbox'[n]) = {}
      BY <1>3, RemoteDestroyEffect DEF Kept
    <2> SUFFICES ASSUME NEW m \in DOMAIN inbox', NEW j \in destroyed', Introduces(inbox[m], j)'
                 PROVE  DestroyAfter(m, j)'
      BY DEF AfterInv
    <2>3. m \in DOMAIN inbox /\ inbox'[m] = inbox[m]
      BY <2>2 DEF Kept, Introduces, Mentions
    <2>4. CASE j = i
      <3>1. /\ Len(inbox) \in Nat /\ DOMAIN inbox = 1 .. Len(inbox)
            /\ Len(inbox) + 1 \in DOMAIN inbox' /\ inbox'[Len(inbox) + 1].patch.destroy
        BY <1>3, RemoteDestroyEffect
      <3>2. Len(inbox) + 1 > m /\ Len(inbox) + 1 \notin DOMAIN inbox
        BY <2>3, <3>1
      <3>3. inbox'[Len(inbox) + 1].kind = "patch" /\ inbox'[Len(inbox) + 1].patch.id = i
        BY <1>3, <3>1, <3>2, RemoteDestroyEffect
      <3>4. QED
        BY <2>4, <3>1, <3>2, <3>3 DEF DestroyAfter, DestroyPatch
    <2>5. CASE j # i
      <3>1. j \in destroyed
        BY <2>1, <2>5
      <3>2. Introduces(inbox[m], j)
        BY <2>1, <2>3 DEF Introduces, Mentions
      <3>3. DestroyAfter(m, j)
        BY <2>3, <3>1, <3>2 DEF AfterInv
      <3>4. QED
        BY <2>2, <3>3, KeptAfter
    <2>6. QED
      BY <2>4, <2>5
  <1>4. ASSUME NEW h \in Handles, OnObjectMessage(h) PROVE AfterInv'
    <2>1. /\ inbox # <<>> /\ inbox' = Tail(inbox) /\ destroyed' = destroyed /\ mem[h] = "unused"
          /\ id' = [id EXCEPT ![h] = Head(inbox).object.id]
      BY <1>4 DEF OnObjectMessage, Received, CreateRemotelyRetrievedEntity, NewFromObjectMessage
    <2>2. \A n \in DOMAIN inbox : inbox[n].kind = "sent" => id'[inbox[n].entity] = id[inbox[n].entity]
      BY <2>1, AnsweredIds
    <2>3. \A n \in DOMAIN inbox' : n \in Nat /\ n + 1 \in DOMAIN inbox /\ inbox'[n] = inbox[n + 1]
      BY <2>1, ReceivedFacts
    <2>4. Shifted
      BY <2>1, TakenShifts
    <2>5. QED
      BY <2>1, <2>2, <2>3, <2>4, ShiftedInv
  <1>5. ASSUME NEW h \in Handles, RetrievedEntity(h) PROVE AfterInv'
    <2>1. /\ destroyed' = destroyed /\ mem[h] = "unused"
          /\ id' = [id EXCEPT ![h] = Head(Head(inbox).items).id]
      BY <1>5 DEF RetrievedEntity, CreateRemotelyRetrievedEntity, NewFromObjectMessage
    <2>2. \A n \in DOMAIN inbox : inbox[n].kind = "sent" => id'[inbox[n].entity] = id[inbox[n].entity]
      BY <2>1, AnsweredIds
    <2>3. /\ DOMAIN inbox' = DOMAIN inbox
          /\ inbox'[1].kind = "page" /\ Mentions(inbox'[1]) \subseteq Mentions(inbox[1])
          /\ \A n \in DOMAIN inbox : n \in Nat \ {0} /\ (n # 1 => inbox'[n] = inbox[n])
      BY <1>5, RetrievedEntityEffect
    <2> SUFFICES ASSUME NEW m \in DOMAIN inbox', NEW j \in destroyed', Introduces(inbox[m], j)'
                 PROVE  DestroyAfter(m, j)'
      BY DEF AfterInv
    <2>4. Introduces(inbox[m], j)
      <3>1. CASE m = 1
        BY <2>3, <3>1 DEF Introduces, Mentions
      <3>2. CASE m # 1
        BY <2>2, <2>3, <3>2 DEF Introduces, Mentions
      <3>3. QED
        BY <3>1, <3>2
    <2>5. DestroyAfter(m, j)
      BY <2>1, <2>3, <2>4 DEF AfterInv
    <2>6. PICK n \in DOMAIN inbox : n > m /\ DestroyPatch(inbox[n], j)
      BY <2>5 DEF DestroyAfter
    <2>7. n # 1
      BY <2>3, <2>6
    <2>8. QED
      BY <2>3, <2>6, <2>7 DEF DestroyAfter, DestroyPatch
  <1>6. ASSUME OnObjectPatch \/ ObjectSent PROVE AfterInv'
    <2>1. inbox # <<>> /\ inbox' = Tail(inbox) /\ destroyed' = destroyed /\ id' = id
      BY <1>6 DEF OnObjectPatch, ObjectSent, Received
    <2>2. \A n \in DOMAIN inbox' : n \in Nat /\ n + 1 \in DOMAIN inbox /\ inbox'[n] = inbox[n + 1]
      BY <2>1, ReceivedFacts
    <2>3. Shifted
      BY <2>1, TakenShifts
    <2>4. QED
      BY <2>1, <2>2, <2>3, ShiftedInv
  <1>7. ASSUME RetrievedPage PROVE AfterInv'
    <2>1. destroyed' = destroyed /\ id' = id
      BY <1>7 DEF RetrievedPage
    <2>2. \A j \in destroyed : j \notin WorldIds
      BY DEF GoneInv
    <2>3. ASSUME NEW n \in DOMAIN inbox'
          PROVE  \/ n \in Nat /\ n + 1 \in DOMAIN inbox /\ inbox'[n] = inbox[n + 1]
                 \/ \A j \in destroyed : ~Introduces(inbox[n], j)'
      <3>1. \/ n \in Nat /\ n + 1 \in DOMAIN inbox /\ inbox'[n] = inbox[n + 1]
            \/ inbox'[n].kind = "page" /\ Mentions(inbox'[n]) \subseteq WorldIds
        BY <1>7, RetrievedPageEffect
      <3>2. QED
        BY <2>2, <3>1 DEF Introduces, Mentions
    <2>4. Shifted
      BY <1>7, PageShifts
    <2>5. QED
      BY <2>1, <2>3, <2>4, ShiftedInv
  <1>8. ASSUME FetchAllEntitiesAndPopulateBuffers PROVE AfterInv'
    <2>1. destroyed' = destroyed /\ id' = id
      BY <1>8 DEF FetchAllEntitiesAndPopulateBuffers
    <2>2. Kept /\ \A j \in destroyed : j \notin WorldIds
      BY <1>8, FetchEffect DEF Kept, GoneInv
    <2>3. \A n \in DOMAIN inbox' \ DOMAIN inbox : \A j \in destroyed : ~Introduces(inbox[n], j)'
      BY <1>8, <2>2, FetchEffect DEF Introduces, Mentions
    <2>4. QED
      BY <2>1, <2>2, <2>3, KeptInv
  <1>9. ASSUME NEW h \in Handles, NEW i \in Ids, NEW t \in Types, NEW p \in ParentIds, Create(h, i, t, p)
        PROVE AfterInv'
    <2>1. destroyed' = destroyed /\ mem[h] = "unused" /\ id' = [id EXCEPT ![h] = i]
      BY <1>9 DEF Create
    <2>2. /\ \A n \in DOMAIN inbox : inbox[n].kind = "sent" =>
               id'[inbox[n].entity] = id[inbox[n].entity]
          /\ id'[h] = i
      BY <2>1, AnsweredIds
    <2>3. Kept /\ i \notin destroyed
      BY <1>9, CreateEffect DEF Kept, GoneInv
    <2>4. \A n \in DOMAIN inbox' \ DOMAIN inbox :
            inbox'[n].kind = "sent" /\ inbox'[n].entity = h /\ Mentions(inbox'[n]) = {}
      BY <1>9, CreateEffect
    <2>5. \A n \in DOMAIN inbox' \ DOMAIN inbox : \A j \in destroyed : ~Introduces(inbox[n], j)'
      BY <2>2, <2>3, <2>4 DEF Introduces, Mentions
    <2>6. QED
      BY <2>1, <2>2, <2>3, <2>5, KeptInv
  <1>10. ASSUME UNCHANGED <<destroyed, inbox, id>> PROVE AfterInv'
    BY <1>10 DEF AfterInv, Introduces, Mentions, DestroyAfter, DestroyPatch
  <1>11. ASSUME NEW h \in Handles, NEW p \in ParentIds, SetParentId(h, p) PROVE AfterInv'
    BY <1>10, <1>11 DEF SetParentId
  <1>12. ASSUME NEW h \in Handles, \/ RemoveParentEntity(h) \/ QueueEntityUpdate(h)
                                   \/ ApplyLocalPatch(h) \/ DestroyEntity(h)
         PROVE AfterInv'
    BY <1>10, <1>12 DEF RemoveParentEntity, QueueEntityUpdate, ApplyLocalPatch, DestroyEntity
  <1>13. ASSUME \/ TickEntities \/ FlushAdd \/ FlushIncoming \/ SendPatches \/ FlushRemove
                \/ FlushEnds
         PROVE AfterInv'
    BY <1>10, <1>13 DEF TickEntities, FlushAdd, FlushIncoming, SendPatches, FlushRemove, FlushEnds
  <1>14. CASE UNCHANGED vars
    BY <1>10, <1>14 DEF vars
  <1>15. QED
    BY <1>1, <1>2, <1>3, <1>4, <1>5, <1>6, <1>7, <1>8, <1>9, <1>11, <1>12, <1>13, <1>14,
       CreateIsCreate DEF Next, Service, Network, Application, Flush

\* The flush takes the destruction of i from its queue.
Takes(i) ==
    /\ FlushIncoming
    /\ Head(PendingIncomingUpdates).destroy /\ Head(PendingIncomingUpdates).id = i

\* A destruction that is coming is coming until the flush takes it.
LEMMA ComingStays ==
    ASSUME StoreInv, [Next]_vars, NEW i, Coming(i)
    PROVE  Coming(i)' \/ Takes(i)
  <1> USE DEF history, service, made, hierarchy, lists, queues, flush
  <1>1. ASSUME Kept, PendingIncomingUpdates' = PendingIncomingUpdates PROVE Coming(i)'
    BY <1>1, KeptAfter DEF Coming, Queued
  <1>2. ASSUME Shifted, ~DestroyPatch(inbox[1], i), PendingIncomingUpdates' = PendingIncomingUpdates
        PROVE Coming(i)'
    BY <1>2, ShiftedComing DEF Coming, Queued
  <1>3. ASSUME NEW j \in Ids, NEW t \in Types, NEW p \in ParentIds, RemoteCreate(j, t, p)
        PROVE Coming(i)'
    BY <1>1, <1>3, RemoteCreateEffect DEF Kept, RemoteCreate, UnchangedEngine
  <1>4. ASSUME NEW j \in Ids, NEW p \in ParentIds, RemoteReparent(j, p) PROVE Coming(i)'
    BY <1>1, <1>4, RemoteReparentEffect DEF Kept, RemoteReparent, UnchangedEngine
  <1>5. ASSUME NEW j \in Ids, RemoteDestroy(j) PROVE Coming(i)'
    BY <1>1, <1>5, RemoteDestroyEffect DEF Kept, RemoteDestroy, UnchangedEngine
  <1>6. ASSUME NEW h \in Handles, OnObjectMessage(h) PROVE Coming(i)'
    <2>1. /\ inbox # <<>> /\ inbox' = Tail(inbox) /\ Head(inbox).kind = "object"
          /\ PendingIncomingUpdates' = PendingIncomingUpdates
      BY <1>6 DEF OnObjectMessage, Received, CreateRemotelyRetrievedEntity
    <2>2. ~DestroyPatch(inbox[1], i) /\ Shifted
      BY <2>1, ReceivedFacts, TakenShifts DEF DestroyPatch
    <2>3. QED
      BY <1>2, <2>1, <2>2
  <1>7. ASSUME NEW h \in Handles, RetrievedEntity(h) PROVE Coming(i)'
    <2>1. PendingIncomingUpdates' = PendingIncomingUpdates
      BY <1>7 DEF RetrievedEntity, CreateRemotelyRetrievedEntity
    <2>2. /\ DOMAIN inbox' = DOMAIN inbox /\ inbox[1].kind = "page"
          /\ \A n \in DOMAIN inbox : n # 1 => inbox'[n] = inbox[n]
      BY <1>7, RetrievedEntityEffect
    <2>3. ASSUME DestroyAfter(0, i) PROVE DestroyAfter(0, i)'
      <3>1. PICK n \in DOMAIN inbox : n > 0 /\ DestroyPatch(inbox[n], i)
        BY <2>3 DEF DestroyAfter
      <3>2. n # 1
        BY <2>2, <3>1 DEF DestroyPatch
      <3>3. QED
        BY <2>2, <3>1, <3>2 DEF DestroyAfter, DestroyPatch
    <2>4. QED
      BY <2>1, <2>3 DEF Coming, Queued
  <1>8. ASSUME OnObjectPatch PROVE Coming(i)'
    <2> DEFINE patch == Head(inbox).patch
    <2>1. /\ inbox # <<>> /\ inbox' = Tail(inbox) /\ Head(inbox).kind = "patch"
          /\ PendingIncomingUpdates' = Append(PendingIncomingUpdates, patch)
      BY <1>8 DEF OnObjectPatch, Received
    <2>2. inbox[1] = Head(inbox) /\ patch \in Patches /\ Shifted
      BY <2>1, ReceivedFacts, TakenShifts, MessageFields
    <2> HIDE DEF patch
    <2>3. PendingIncomingUpdates \in Seq(Patches)
      BY DEF StoreInv, TypeOK, EngineTypeOK
    <2>4. /\ Len(PendingIncomingUpdates) \in Nat
          /\ DOMAIN PendingIncomingUpdates = 1 .. Len(PendingIncomingUpdates)
          /\ DOMAIN PendingIncomingUpdates' = 1 .. (Len(PendingIncomingUpdates) + 1)
          /\ \A n \in 1 .. Len(PendingIncomingUpdates) :
                PendingIncomingUpdates'[n] = PendingIncomingUpdates[n]
          /\ PendingIncomingUpdates'[Len(PendingIncomingUpdates) + 1] = patch
      BY <2>1, <2>2, <2>3, AppendElements
    <2>5. /\ DOMAIN PendingIncomingUpdates \subseteq DOMAIN PendingIncomingUpdates'
          /\ Len(PendingIncomingUpdates) + 1 \in DOMAIN PendingIncomingUpdates'
      BY <2>4
    <2>6. ASSUME Queued(i) PROVE Queued(i)'
      BY <2>4, <2>5, <2>6 DEF Queued
    <2>7. ASSUME DestroyPatch(inbox[1], i) PROVE Queued(i)'
      <3>1. patch.destroy /\ patch.id = i
        BY <2>2, <2>7 DEF DestroyPatch, patch
      <3>2. QED
        BY <2>4, <2>5, <3>1 DEF Queued
    <2>8. ASSUME DestroyAfter(0, i), ~DestroyPatch(inbox[1], i) PROVE DestroyAfter(0, i)'
      BY <2>2, <2>8, ShiftedComing
    <2>9. QED
      BY <2>6, <2>7, <2>8 DEF Coming
  <1>9. ASSUME RetrievedPage PROVE Coming(i)'
    <2>1. /\ inbox # <<>> /\ Head(inbox).kind = "page"
          /\ PendingIncomingUpdates' = PendingIncomingUpdates
      BY <1>9 DEF RetrievedPage, Received
    <2>2. inbox[1] = Head(inbox)
      BY <2>1, TailElements DEF StoreInv, TypeOK, ServiceTypeOK
    <2>3. ~DestroyPatch(inbox[1], i) /\ Shifted
      BY <1>9, <2>1, <2>2, PageShifts DEF DestroyPatch
    <2>4. QED
      BY <1>2, <2>1, <2>3
  <1>10. ASSUME ObjectSent PROVE Coming(i)'
    <2>1. /\ inbox # <<>> /\ inbox' = Tail(inbox) /\ Head(inbox).kind = "sent"
          /\ PendingIncomingUpdates' = PendingIncomingUpdates
      BY <1>10 DEF ObjectSent, Received
    <2>2. ~DestroyPatch(inbox[1], i) /\ Shifted
      BY <2>1, ReceivedFacts, TakenShifts DEF DestroyPatch
    <2>3. QED
      BY <1>2, <2>1, <2>2
  <1>11. ASSUME FetchAllEntitiesAndPopulateBuffers PROVE Coming(i)'
    BY <1>1, <1>11, FetchEffect DEF Kept, FetchAllEntitiesAndPopulateBuffers
  <1>12. ASSUME NEW h \in Handles, NEW j \in Ids, NEW t \in Types, NEW p \in ParentIds, Create(h, j, t, p)
         PROVE Coming(i)'
    BY <1>1, <1>12, CreateEffect DEF Kept, Create
  <1>13. ASSUME FlushIncoming PROVE Coming(i)' \/ Takes(i)
    <2>1. inbox' = inbox /\ PendingIncomingUpdates # <<>>
          /\ PendingIncomingUpdates' = Tail(PendingIncomingUpdates)
      BY <1>13 DEF FlushIncoming
    <2>2. PendingIncomingUpdates \in Seq(Patches)
      BY DEF StoreInv, TypeOK, EngineTypeOK
    <2>3. /\ Head(PendingIncomingUpdates) = PendingIncomingUpdates[1]
          /\ DOMAIN PendingIncomingUpdates = 1 .. Len(PendingIncomingUpdates)
          /\ Len(PendingIncomingUpdates) \in Nat \ {0}
          /\ DOMAIN PendingIncomingUpdates' = 1 .. (Len(PendingIncomingUpdates) - 1)
          /\ \A n \in DOMAIN PendingIncomingUpdates' :
                PendingIncomingUpdates'[n] = PendingIncomingUpdates[n + 1]
      BY <2>1, <2>2, TailElements
    <2>4. ASSUME Queued(i), ~Takes(i) PROVE Queued(i)'
      <3>1. PICK n \in DOMAIN PendingIncomingUpdates :
              PendingIncomingUpdates[n].destroy /\ PendingIncomingUpdates[n].id = i
        BY <2>4 DEF Queued
      <3>2. n # 1
        BY <1>13, <2>3, <2>4, <3>1 DEF Takes
      <3>3. n - 1 \in DOMAIN PendingIncomingUpdates' /\ (n - 1) + 1 = n
        BY <2>3, <3>2
      <3>4. PendingIncomingUpdates'[n - 1] = PendingIncomingUpdates[n]
        BY <2>3, <3>3
      <3>5. QED
        BY <3>1, <3>3, <3>4 DEF Queued
    <2>5. ASSUME DestroyAfter(0, i) PROVE DestroyAfter(0, i)'
      BY <2>1, <2>5 DEF DestroyAfter, DestroyPatch
    <2>6. QED
      BY <2>4, <2>5 DEF Coming
  <1>14. ASSUME UNCHANGED <<inbox, PendingIncomingUpdates>> PROVE Coming(i)'
    BY <1>14 DEF Coming, Queued, DestroyAfter, DestroyPatch
  <1>15. ASSUME NEW h \in Handles, NEW p \in ParentIds, SetParentId(h, p) PROVE Coming(i)'
    BY <1>14, <1>15 DEF SetParentId
  <1>16. ASSUME NEW h \in Handles, \/ RemoveParentEntity(h) \/ QueueEntityUpdate(h)
                                   \/ ApplyLocalPatch(h) \/ DestroyEntity(h)
         PROVE Coming(i)'
    BY <1>14, <1>16 DEF RemoveParentEntity, QueueEntityUpdate, ApplyLocalPatch, DestroyEntity
  <1>17. ASSUME TickEntities \/ FlushAdd \/ SendPatches \/ FlushRemove \/ FlushEnds
         PROVE Coming(i)'
    BY <1>14, <1>17 DEF TickEntities, FlushAdd, SendPatches, FlushRemove, FlushEnds
  <1>18. CASE UNCHANGED vars
    BY <1>14, <1>18 DEF vars
  <1>19. QED
    BY <1>3, <1>4, <1>5, <1>6, <1>7, <1>8, <1>9, <1>10, <1>11, <1>12, <1>13, <1>15, <1>16,
       <1>17, <1>18, CreateIsCreate DEF Next, Service, Network, Application, Flush

\* An entity, shown or to be shown, whose id was destroyed, is accounted for
\* after a step that changes neither it nor what was destroyed.
LEMMA ComingKept ==
    ASSUME StoreInv, ComingInv, [Next]_vars, ~FlushIncoming, NEW g \in Handles,
           id'[g] = id[g], id[g] \in destroyed
    PROVE  /\ g \in Elements(PendingAdds) => Coming(id[g])'
           /\ g \in Entities => Coming(id[g])' \/ g \in Elements(PendingRemoves)
  <1>1. PICK i : i = id[g]
    OBVIOUS
  <1>2. Coming(i) => Coming(i)'
    BY ComingStays DEF Takes
  <1>3. Coming(id[g])' <=> Coming(i)'
    BY <1>1 DEF Coming, DestroyAfter, DestroyPatch, Queued
  <1>4. QED
    BY <1>1, <1>2, <1>3 DEF ComingInv

\* The steps that show no entity and destroy none.
LEMMA ComingFrame ==
    ASSUME StoreInv, ComingInv, [Next]_vars, ~FlushIncoming,
           destroyed' = destroyed, id' = id,
           Elements(PendingAdds)' \subseteq Elements(PendingAdds), Entities' \subseteq Entities,
           Elements(PendingRemoves) \subseteq Elements(PendingRemoves)'
    PROVE  ComingInv'
  <1>1. Entities \subseteq Handles /\ Elements(PendingAdds) \subseteq Handles
    BY DEF StoreInv, TypeOK, EngineTypeOK, Elements
  <1>2. ASSUME NEW g \in Elements(PendingAdds)', id'[g] \in destroyed' PROVE Coming(id[g])'
    BY <1>1, <1>2, ComingKept
  <1>3. ASSUME NEW g \in Entities', id'[g] \in destroyed'
        PROVE  Coming(id[g])' \/ g \in Elements(PendingRemoves)'
    BY <1>1, <1>3, ComingKept
  <1>4. QED
    BY <1>2, <1>3 DEF ComingInv

\* The steps that make an object at h of an entity the service tells of.
LEMMA ComingNew ==
    ASSUME StoreInv, ComingInv, [Next]_vars, ~FlushIncoming,
           destroyed' = destroyed, NEW h \in Handles, mem[h] = "unused",
           NEW i, id' = [id EXCEPT ![h] = i],
           Elements(PendingAdds)' \subseteq Elements(PendingAdds) \cup {h}, Entities' = Entities,
           PendingRemoves' = PendingRemoves,
           h \in Elements(PendingAdds)' => (i \in destroyed => DestroyAfter(0, i)')
    PROVE  ComingInv'
  <1>1. Entities \subseteq Handles /\ Elements(PendingAdds) \subseteq Handles
    BY DEF StoreInv, TypeOK, EngineTypeOK, Elements
  <1>2. /\ \A g \in Entities \cup Elements(PendingAdds) : id'[g] = id[g]
        /\ id'[h] = i
    BY AnsweredIds
  <1>3. ASSUME NEW g \in Elements(PendingAdds)', id'[g] \in destroyed' PROVE Coming(id[g])'
    <2>1. CASE g = h
      <3>1. DestroyAfter(0, i)'
        BY <1>2, <1>3, <2>1
      <3>2. QED
        BY <1>2, <2>1, <3>1 DEF Coming, DestroyAfter, DestroyPatch
    <2>2. CASE g \in Elements(PendingAdds)
      BY <1>1, <1>2, <1>3, <2>2, ComingKept
    <2>3. QED
      BY <2>1, <2>2
  <1>4. ASSUME NEW g \in Entities', id'[g] \in destroyed'
        PROVE  Coming(id[g])' \/ g \in Elements(PendingRemoves)'
    <2>1. Elements(PendingRemoves)' = Elements(PendingRemoves)
      BY DEF Elements
    <2>2. QED
      BY <1>1, <1>2, <1>4, <2>1, ComingKept
  <1>5. QED
    BY <1>3, <1>4 DEF ComingInv

\* Every destroyed entity is accounted for.
LEMMA ComingStep ==
    StoreInv /\ LostInv /\ [Next]_vars => ComingInv'
  <1> SUFFICES ASSUME StoreInv, LostInv, [Next]_vars PROVE ComingInv'
    OBVIOUS
  <1> USE DEF history, service, made, hierarchy, lists, queues, flush
  <1>a. AfterInv /\ ComingInv /\ HandledInv
    BY DEF LostInv
  <1>b. /\ PendingAdds \in Seq(Handles) /\ PendingRemoves \in Seq(Handles) /\ Entities \subseteq Handles
        /\ inbox \in Seq(Messages)
    BY DEF StoreInv, TypeOK, EngineTypeOK, ServiceTypeOK
  <1>c. Elements(PendingAdds) \subseteq Handles
    BY <1>b DEF Elements
  <1>1. CASE /\ UNCHANGED <<destroyed, id, PendingAdds, Entities, PendingRemoves>>
             /\ ~FlushIncoming
    BY <1>1, <1>a, ComingFrame DEF Elements
  <1>2. ASSUME NEW i \in Ids, NEW t \in Types, NEW p \in ParentIds, RemoteCreate(i, t, p)
        PROVE ComingInv'
    BY <1>2, <1>1 DEF RemoteCreate, UnchangedEngine, FlushIncoming
  <1>3. ASSUME NEW i \in Ids, NEW p \in ParentIds, RemoteReparent(i, p) PROVE ComingInv'
    BY <1>3, <1>1 DEF RemoteReparent, UnchangedEngine, FlushIncoming
  <1>4. ASSUME NEW i \in Ids, RemoteDestroy(i) PROVE ComingInv'
    <2>1. /\ destroyed' = destroyed \cup {i} /\ ~FlushIncoming
          /\ UNCHANGED <<id, PendingAdds, Entities, PendingRemoves>>
      BY <1>4 DEF RemoteDestroy, UnchangedEngine, FlushIncoming
    <2>2. DestroyAfter(0, i)'
      <3>1. /\ Len(inbox) \in Nat /\ DOMAIN inbox = 1 .. Len(inbox)
            /\ Len(inbox) + 1 \in DOMAIN inbox' /\ inbox'[Len(inbox) + 1].patch.destroy
        BY <1>4, RemoteDestroyEffect
      <3>2. Len(inbox) + 1 > 0 /\ Len(inbox) + 1 \notin DOMAIN inbox
        BY <3>1
      <3>3. inbox'[Len(inbox) + 1].kind = "patch" /\ inbox'[Len(inbox) + 1].patch.id = i
        BY <1>4, <3>1, <3>2, RemoteDestroyEffect
      <3>4. QED
        BY <3>1, <3>2, <3>3 DEF DestroyAfter, DestroyPatch
    <2>3. ASSUME NEW g \in Handles, id'[g] = i PROVE Coming(id[g])'
      BY <2>2, <2>3 DEF Coming, DestroyAfter, DestroyPatch
    <2>4. ASSUME NEW g \in Elements(PendingAdds)', id'[g] \in destroyed' PROVE Coming(id[g])'
      <3>1. g \in Handles /\ g \in Elements(PendingAdds) /\ id'[g] = id[g]
        BY <1>c, <2>1 DEF Elements
      <3>2. QED
        BY <1>a, <2>1, <2>3, <2>4, <3>1, ComingKept
    <2>5. ASSUME NEW g \in Entities', id'[g] \in destroyed'
          PROVE  Coming(id[g])' \/ g \in Elements(PendingRemoves)'
      <3>1. g \in Handles /\ g \in Entities /\ id'[g] = id[g]
        BY <1>b, <2>1
      <3>2. Elements(PendingRemoves)' = Elements(PendingRemoves)
        BY <2>1 DEF Elements
      <3>3. QED
        BY <1>a, <2>1, <2>3, <2>5, <3>1, <3>2, ComingKept
    <2>6. QED
      BY <2>4, <2>5 DEF ComingInv
  <1>5. ASSUME NEW h \in Handles, OnObjectMessage(h) PROVE ComingInv'
    <2>0. PICK i : i = Head(inbox).object.id
      OBVIOUS
    <2>1. /\ inbox # <<>> /\ inbox' = Tail(inbox) /\ Head(inbox).kind = "object"
          /\ mem[h] = "unused" /\ id' = [id EXCEPT ![h] = i]
          /\ PendingAdds' = Append(PendingAdds, h)
          /\ UNCHANGED <<destroyed, Entities, PendingRemoves>> /\ ~FlushIncoming
      BY <1>5, <2>0 DEF OnObjectMessage, Received, CreateRemotelyRetrievedEntity, NewFromObjectMessage,
         FlushIncoming
    <2>2. inbox[1] = Head(inbox) /\ 1 \in DOMAIN inbox /\ Shifted
      BY <2>1, ReceivedFacts, TakenShifts
    <2>3. i \in Mentions(inbox[1])
      BY <2>0, <2>1, <2>2 DEF Mentions
    <2>4. i \in destroyed => DestroyAfter(0, i)'
      <3>1. i \in destroyed => DestroyAfter(0 + 1, i)
        BY <1>a, <2>2, <2>3 DEF AfterInv, Introduces
      <3>2. QED
        BY <2>2, <3>1, ShiftedAfter
    <2>5. Elements(PendingAdds)' = Elements(PendingAdds) \cup {h}
      BY <1>b, <2>1, AppendElements
    <2>6. QED
      BY <1>a, <2>1, <2>4, <2>5, ComingNew
  <1>6. ASSUME NEW h \in Handles, RetrievedEntity(h) PROVE ComingInv'
    <2>0. PICK i : i = Head(Head(inbox).items).id
      OBVIOUS
    <2>1. /\ mem[h] = "unused" /\ id' = [id EXCEPT ![h] = i]
          /\ PendingAdds' = Append(PendingAdds, h)
          /\ UNCHANGED <<destroyed, Entities, PendingRemoves>> /\ ~FlushIncoming
      BY <1>6, <2>0 DEF RetrievedEntity, Received, CreateRemotelyRetrievedEntity, NewFromObjectMessage,
         Idle, FlushIncoming
    <2>2. /\ 1 \in DOMAIN inbox /\ i \in Mentions(inbox[1]) /\ DOMAIN inbox' = DOMAIN inbox
          /\ \A n \in DOMAIN inbox : n \in Nat \ {0} /\ (n # 1 => inbox'[n] = inbox[n])
      BY <1>6, <2>0, RetrievedEntityEffect
    <2>3. ASSUME i \in destroyed PROVE DestroyAfter(0, i)'
      <3>1. DestroyAfter(1, i)
        BY <1>a, <2>2, <2>3 DEF AfterInv, Introduces
      <3>2. PICK n \in DOMAIN inbox : n > 1 /\ DestroyPatch(inbox[n], i)
        BY <3>1 DEF DestroyAfter
      <3>3. n # 1 /\ n > 0
        BY <2>2, <3>2
      <3>4. QED
        BY <2>2, <3>2, <3>3 DEF DestroyAfter, DestroyPatch
    <2>4. Elements(PendingAdds)' = Elements(PendingAdds) \cup {h}
      BY <1>b, <2>1, AppendElements
    <2>5. QED
      BY <1>a, <2>1, <2>3, <2>4, ComingNew
  <1>7. ASSUME OnObjectPatch \/ RetrievedPage PROVE ComingInv'
    BY <1>7, <1>1 DEF OnObjectPatch, RetrievedPage, Received, Idle, FlushIncoming
  <1>8. ASSUME ObjectSent PROVE ComingInv'
    <2>0. PICK h : h = Head(inbox).entity
      OBVIOUS
    <2>1. /\ inbox # <<>> /\ inbox' = Tail(inbox) /\ Head(inbox).kind = "sent"
          /\ Entities' = Entities \/ (Head(inbox).ok /\ Entities' = Entities \cup {h})
          /\ UNCHANGED <<destroyed, id, PendingAdds, PendingRemoves>> /\ ~FlushIncoming
      BY <1>8, <2>0 DEF ObjectSent, Received, Idle, FlushIncoming
    <2>2. inbox[1] = Head(inbox) /\ 1 \in DOMAIN inbox /\ Head(inbox) \in Messages /\ Shifted
      BY <2>1, ReceivedFacts, TakenShifts
    <2>3. h \in Handles
      BY <2>0, <2>1, <2>2, MessageFields
    <2>4. ASSUME Head(inbox).ok, id[h] \in destroyed PROVE Coming(id[h])'
      <3>1. Introduces(inbox[1], id[h])
        BY <2>0, <2>1, <2>2, <2>4 DEF Introduces
      <3>2. PICK i : i = id[h]
        OBVIOUS
      <3>3. DestroyAfter(0 + 1, i)
        BY <1>a, <2>2, <2>4, <3>1, <3>2 DEF AfterInv
      <3>4. DestroyAfter(0, i)'
        BY <2>2, <3>3, ShiftedAfter
      <3>5. QED
        BY <2>1, <3>2, <3>4 DEF Coming, DestroyAfter, DestroyPatch
    <2>5. ASSUME NEW g \in Elements(PendingAdds)', id'[g] \in destroyed' PROVE Coming(id[g])'
      <3>1. g \in Handles /\ g \in Elements(PendingAdds) /\ id'[g] = id[g]
        BY <1>c, <2>1 DEF Elements
      <3>2. QED
        BY <1>a, <2>1, <2>5, <3>1, ComingKept
    <2>6. ASSUME NEW g \in Entities', id'[g] \in destroyed'
          PROVE  Coming(id[g])' \/ g \in Elements(PendingRemoves)'
      <3>1. Elements(PendingRemoves)' = Elements(PendingRemoves) /\ id'[g] = id[g]
        BY <2>1 DEF Elements
      <3>2. CASE g \in Entities
        BY <1>a, <1>b, <2>1, <2>6, <3>1, <3>2, ComingKept
      <3>3. CASE Head(inbox).ok /\ g = h
        BY <2>1, <2>4, <2>6, <3>1, <3>3
      <3>4. QED
        BY <2>1, <3>2, <3>3
    <2>7. QED
      BY <2>5, <2>6 DEF ComingInv
  <1>9. ASSUME NEW h \in Handles, NEW i \in Ids, NEW t \in Types, NEW p \in ParentIds, Create(h, i, t, p)
        PROVE ComingInv'
    <2>1. /\ mem[h] = "unused" /\ id' = [id EXCEPT ![h] = i]
          /\ UNCHANGED <<destroyed, PendingAdds, Entities, PendingRemoves>> /\ ~FlushIncoming
      BY <1>9 DEF Create, InSpace, Idle, FlushIncoming
    <2>2. h \notin Elements(PendingAdds)
      BY <2>1 DEF StoreInv, ListsInv, IsLive
    <2>3. Elements(PendingAdds)' = Elements(PendingAdds)
      BY <2>1 DEF Elements
    <2>4. QED
      BY <1>a, <2>1, <2>2, <2>3, ComingNew
  <1>10. ASSUME FetchAllEntitiesAndPopulateBuffers PROVE ComingInv'
    BY <1>10, <1>1 DEF FetchAllEntitiesAndPopulateBuffers, Idle, FlushIncoming
  <1>11. ASSUME NEW h \in Handles, NEW p \in ParentIds, SetParentId(h, p) PROVE ComingInv'
    BY <1>11, <1>1 DEF SetParentId, InSpace, Idle, FlushIncoming
  <1>12. ASSUME NEW h \in Handles, RemoveParentEntity(h) \/ QueueEntityUpdate(h) PROVE ComingInv'
    BY <1>12, <1>1 DEF RemoveParentEntity, QueueEntityUpdate, InSpace, Idle, FlushIncoming
  <1>13. ASSUME NEW h \in Handles, DestroyEntity(h) PROVE ComingInv'
    <2>1. /\ UNCHANGED <<destroyed, id, PendingAdds, Entities>> /\ ~FlushIncoming
          /\ PendingRemoves' = Append(PendingRemoves, h)
      BY <1>13 DEF DestroyEntity, RemoveEntity, InSpace, Idle, FlushIncoming
    <2>2. Elements(PendingRemoves) \subseteq Elements(PendingRemoves)'
      BY <1>b, <2>1, AppendElements
    <2>3. Elements(PendingAdds)' = Elements(PendingAdds)
      BY <2>1 DEF Elements
    <2>4. QED
      BY <1>a, <2>1, <2>2, <2>3, ComingFrame
  <1>14. ASSUME TickEntities \/ FlushEnds PROVE ComingInv'
    BY <1>14, <1>1 DEF TickEntities, FlushEnds, Idle, FlushIncoming
  <1>15. ASSUME FlushAdd PROVE ComingInv'
    <2>0. PICK h : h = Head(PendingAdds)
      OBVIOUS
    <2>1. /\ UNCHANGED <<destroyed, id, PendingRemoves>> /\ ~FlushIncoming
          /\ PendingAdds # <<>> /\ PendingAdds' = Tail(PendingAdds)
          /\ Entities' \subseteq Entities \cup {h}
      BY <1>15, <2>0 DEF FlushAdd, AddPendingEntity, FlushIncoming, AddsFlushed
    <2>2. /\ h \in Handles /\ h \in Elements(PendingAdds)
          /\ Elements(PendingAdds)' \subseteq Elements(PendingAdds)
      BY <1>b, <2>0, <2>1, TailElements
    <2>3. ASSUME NEW g \in Elements(PendingAdds)', id'[g] \in destroyed' PROVE Coming(id[g])'
      BY <1>a, <1>c, <2>1, <2>2, <2>3, ComingKept
    <2>4. ASSUME NEW g \in Entities', id'[g] \in destroyed'
          PROVE  Coming(id[g])' \/ g \in Elements(PendingRemoves)'
      <3>1. Elements(PendingRemoves)' = Elements(PendingRemoves) /\ id'[g] = id[g] /\ g \in Handles
        BY <1>b, <2>1, <2>2 DEF Elements
      <3>2. QED
        BY <1>a, <2>1, <2>2, <2>4, <3>1, ComingKept
    <2>5. QED
      BY <2>3, <2>4 DEF ComingInv
  <1>16. ASSUME FlushIncoming PROVE ComingInv'
    <2>1. /\ UNCHANGED <<destroyed, id, PendingAdds, Entities>> /\ PendingAdds = <<>>
      BY <1>16 DEF FlushIncoming, AddsFlushed
    <2>2. Elements(PendingAdds)' = {}
      BY <2>1 DEF Elements
    <2>3. ASSUME NEW g \in Entities', id'[g] \in destroyed'
          PROVE  Coming(id[g])' \/ g \in Elements(PendingRemoves)'
      <3>1. PICK i : i = id[g]
        OBVIOUS
      <3>2. g \in Entities /\ i \in destroyed /\ (Coming(i)' => Coming(id[g])')
        BY <2>1, <2>3, <3>1 DEF Coming, DestroyAfter, DestroyPatch, Queued
      <3>3. Elements(PendingRemoves) \subseteq Elements(PendingRemoves)'
        <4> DEFINE h == FindSpaceEntityById(Entities, Head(PendingIncomingUpdates).id)
        <4>1. CASE PendingRemoves' = PendingRemoves
          BY <4>1 DEF Elements
        <4>2. CASE h # Nil /\ RemoveEntity(h)
          <5>1. h \in Handles
            BY <1>b, <4>2, FindEntityFacts
          <5>2. QED
            BY <1>b, <4>2, <5>1, AppendElements DEF RemoveEntity
        <4>3. QED
          BY <1>16, <4>1, <4>2 DEF FlushIncoming, ApplyDestruction, ApplyUpdate
      <3>4. CASE Takes(i)
        <4>1. /\ Head(PendingIncomingUpdates).destroy /\ Head(PendingIncomingUpdates).id = i
          BY <3>4 DEF Takes
        <4>2. FindSpaceEntityById(Entities, i) = g
          BY <3>1, <3>2 DEF StoreInv, UniqueInv, FindSpaceEntityById
        <4>3. g # Nil /\ g \in Handles
          BY <1>b, <3>2, NilAssumption
        <4>4. PendingRemoves' = Append(PendingRemoves, g)
          BY <1>16, <4>1, <4>2, <4>3 DEF FlushIncoming, Destroys, ApplyDestruction, RemoveEntity
        <4>5. QED
          BY <1>b, <4>3, <4>4, AppendElements
      <3>5. CASE ~Takes(i)
        BY <1>a, <3>1, <3>2, <3>3, <3>5, ComingStays DEF ComingInv
      <3>6. QED
        BY <3>4, <3>5
    <2>4. QED
      BY <2>2, <2>3 DEF ComingInv
  <1>17. ASSUME SendPatches PROVE ComingInv'
    BY <1>17, <1>1 DEF SendPatches, FlushIncoming
  <1>18. ASSUME NEW h \in Handles, ApplyLocalPatch(h) PROVE ComingInv'
    BY <1>18, <1>1 DEF ApplyLocalPatch, FlushIncoming
  <1>19. ASSUME FlushRemove PROVE ComingInv'
    <2>0. PICK h : h = Head(PendingRemoves)
      OBVIOUS
    <2>1. /\ UNCHANGED <<destroyed, id, PendingAdds>> /\ ~FlushIncoming /\ phase = "sent"
          /\ PendingRemoves # <<>> /\ PendingRemoves' = Tail(PendingRemoves)
          /\ (h \in handled /\ Entities' = Entities) \/ Entities' = Entities \ {h}
      BY <1>19, <2>0 DEF FlushRemove, RemovePendingEntity, FlushIncoming
    <2>2. Elements(PendingRemoves) = Elements(PendingRemoves)' \cup {h}
      BY <1>b, <2>0, <2>1, TailElements
    <2>3. h \notin Entities' /\ Entities' \subseteq Entities
      BY <1>a, <2>1 DEF HandledInv
    <2>4. ASSUME NEW g \in Elements(PendingAdds)', id'[g] \in destroyed' PROVE Coming(id[g])'
      <3>1. g \in Handles /\ g \in Elements(PendingAdds) /\ id'[g] = id[g]
        BY <1>c, <2>1 DEF Elements
      <3>2. QED
        BY <1>a, <2>1, <2>4, <3>1, ComingKept
    <2>5. ASSUME NEW g \in Entities', id'[g] \in destroyed'
          PROVE  Coming(id[g])' \/ g \in Elements(PendingRemoves)'
      <3>1. g \in Handles /\ g \in Entities /\ id'[g] = id[g] /\ g # h
        BY <1>b, <2>1, <2>3
      <3>2. QED
        BY <1>a, <2>1, <2>2, <2>5, <3>1, ComingKept
    <2>6. QED
      BY <2>4, <2>5 DEF ComingInv
  <1>20. CASE UNCHANGED vars
    BY <1>20, <1>1 DEF vars, FlushIncoming
  <1>21. QED
    BY <1>2, <1>3, <1>4, <1>5, <1>6, <1>7, <1>8, <1>9, <1>10, <1>11, <1>12, <1>13, <1>14,
       <1>15, <1>16, <1>17, <1>18, <1>19, <1>20, CreateIsCreate
       DEF Next, Service, Network, Application, Flush

\* While the removals are flushed nothing else changes what is shown.
LEMMA HandledStep == StoreInv /\ HandledInv /\ [Next]_vars => HandledInv'
  <1> SUFFICES ASSUME StoreInv, HandledInv, [Next]_vars PROVE HandledInv'
    OBVIOUS
  <1> USE DEF history, service, made, hierarchy, lists, queues, flush
  <1>1. ASSUME UNCHANGED <<phase, handled, Entities>> PROVE HandledInv'
    BY <1>1 DEF HandledInv
  <1>2. ASSUME phase' # "sent" \/ handled' = {} PROVE HandledInv'
    BY <1>2 DEF HandledInv
  <1>3. ASSUME NEW i \in Ids, NEW t \in Types, NEW p \in ParentIds, RemoteCreate(i, t, p)
        PROVE HandledInv'
    BY <1>1, <1>3 DEF RemoteCreate, UnchangedEngine
  <1>4. ASSUME NEW i \in Ids, NEW p \in ParentIds, RemoteReparent(i, p) PROVE HandledInv'
    BY <1>1, <1>4 DEF RemoteReparent, UnchangedEngine
  <1>5. ASSUME NEW i \in Ids, RemoteDestroy(i) PROVE HandledInv'
    BY <1>1, <1>5 DEF RemoteDestroy, UnchangedEngine
  <1>6. ASSUME NEW h \in Handles, OnObjectMessage(h) \/ RetrievedEntity(h) PROVE HandledInv'
    BY <1>1, <1>6 DEF OnObjectMessage, RetrievedEntity, CreateRemotelyRetrievedEntity
  <1>7. ASSUME OnObjectPatch \/ FetchAllEntitiesAndPopulateBuffers PROVE HandledInv'
    BY <1>1, <1>7 DEF OnObjectPatch, FetchAllEntitiesAndPopulateBuffers
  <1>8. ASSUME RetrievedPage \/ ObjectSent PROVE HandledInv'
    BY <1>2, <1>8 DEF RetrievedPage, ObjectSent, Received, Idle
  <1>9. ASSUME NEW h \in Handles, NEW i \in Ids, NEW t \in Types, NEW p \in ParentIds, Create(h, i, t, p)
        PROVE HandledInv'
    BY <1>1, <1>9 DEF Create
  <1>10. ASSUME NEW h \in Handles, NEW p \in ParentIds, SetParentId(h, p) PROVE HandledInv'
    BY <1>1, <1>10 DEF SetParentId
  <1>11. ASSUME NEW h \in Handles, \/ RemoveParentEntity(h) \/ QueueEntityUpdate(h)
                                   \/ DestroyEntity(h) \/ ApplyLocalPatch(h)
         PROVE HandledInv'
    BY <1>1, <1>11 DEF RemoveParentEntity, QueueEntityUpdate, DestroyEntity, ApplyLocalPatch
  <1>12. ASSUME TickEntities \/ FlushAdd \/ FlushIncoming \/ SendPatches \/ FlushEnds PROVE HandledInv'
    BY <1>2, <1>12 DEF TickEntities, FlushAdd, FlushIncoming, SendPatches, FlushEnds
  <1>13. ASSUME FlushRemove PROVE HandledInv'
    <2>1. CASE UNCHANGED <<phase, handled, Entities>>
      BY <1>1, <2>1
    <2>2. CASE /\ Entities' = Entities \ {Head(PendingRemoves)} /\ phase' = phase
               /\ handled' = handled \cup {Head(PendingRemoves)}
      BY <2>2 DEF HandledInv
    <2>3. QED
      BY <1>13, <2>1, <2>2 DEF FlushRemove, RemovePendingEntity
  <1>14. CASE UNCHANGED vars
    BY <1>1, <1>14 DEF vars
  <1>15. QED
    BY <1>3, <1>4, <1>5, <1>6, <1>7, <1>8, <1>9, <1>10, <1>11, <1>12, <1>13, <1>14,
       CreateIsCreate DEF Next, Service, Network, Application, Flush

\* Where the destructions of other clients are, at every moment: whatever may
\* still show a destroyed entity is followed by its destruction, and what shows
\* one has the destruction coming or is queued for removal.
THEOREM DestructionsAreUnderWay == Spec => []LostInv
  <1>1. Init => LostInv
    <2> SUFFICES ASSUME Init PROVE LostInv
      OBVIOUS
    <2>1. destroyed = {} /\ DOMAIN inbox = {} /\ Entities = {} /\ phase = "idle"
      BY DEF Init
    <2>2. Elements(PendingAdds) = {}
      BY DEF Init, Elements
    <2>3. QED
      BY <2>1, <2>2 DEF LostInv, GoneInv, AfterInv, ComingInv, HandledInv
  <1>2. StoreInv /\ LostInv /\ [Next]_vars => LostInv'
    BY GoneStep, AfterStep, ComingStep, HandledStep DEF LostInv
  <1>3. QED
    BY <1>1, <1>2, StoreInvariant, PTL DEF Spec

\* An entity that another client destroyed is not among the entities once
\* everything was handled, however its creation, the fetch, the ticks and the
\* destruction interleave.
THEOREM DestructionsAreNeverLost == Spec => []DestructionsAreNotLost
  <1>1. LostInv => DestructionsAreNotLost
    <2> SUFFICES ASSUME LostInv, Settled, NEW h \in Entities PROVE id[h] \notin destroyed
      BY DEF DestructionsAreNotLost
    <2>1. /\ DOMAIN inbox = {} /\ DOMAIN PendingIncomingUpdates = {} /\ Elements(PendingRemoves) = {}
      BY DEF Settled, Elements
    <2>2. QED
      BY <2>1 DEF LostInv, ComingInv, Coming, DestroyAfter, Queued
  <1>2. QED
    BY <1>1, DestructionsAreUnderWay, PTL

-----------------------------------------------------------------------------
(* The engine implements EntityStore, for any number of entities, any page *)
(* size and any bound on the messages in flight.                           *)

\* The abstract variables after a step that leaves the store alone.
LEMMA DecideStep ==
    ASSUME StoreInv', mem' = mem, id' = id, Entities' = Entities
    PROVE  Store!Next
  <1>1. world' \in Seq(Records) /\ ownAvatars' \subseteq Ids
    BY DEF StoreInv, TypeOK, ServiceTypeOK
  <1>2. Elements(world') \subseteq Records
    BY <1>1 DEF Elements
  <1>3. WorldIds' \subseteq Ids
    BY <1>1, <1>2 DEF WorldIds, Records, Elements
  <1>4. Store!Decide
    BY <1>3 DEF Store!Decide
  <1>5. QED
    BY <1>4 DEF Store!Next

\* What is wanted changes with the service and with the application's own
\* destructions only.
LEMMA SameWanted ==
    ASSUME UNCHANGED <<world, ownAvatars, requested>>
    PROVE  (WorldIds \ requested)' = WorldIds \ requested
  BY DEF WorldIds, Elements

\* An object made from a message or from an entity of a page.
LEMMA LearnStep ==
    ASSUME NEW h \in Handles, NEW r \in Records, CreateRemotelyRetrievedEntity(h, r),
           UNCHANGED <<world, ownAvatars, requested>>
    PROVE  Store!Next
  <1>1. /\ mem[h] = "unused" /\ mem' = [mem EXCEPT ![h] = "live"]
        /\ id' = [id EXCEPT ![h] = r.id] /\ Entities' = Entities
    BY DEF CreateRemotelyRetrievedEntity, NewFromObjectMessage, lists
  <1>2. r.id \in Ids
    BY DEF Records
  <1>3. Store!Learn(h, r.id)
    BY <1>1, SameWanted DEF Store!Learn
  <1>4. QED
    BY <1>2, <1>3 DEF Store!Next

\* CreateEntity and CreateAvatar.
LEMMA MakeStep ==
    ASSUME StoreInv, NEW h \in Handles, NEW i \in Ids, NEW t \in Types, NEW p \in ParentIds,
           Create(h, i, t, p)
    PROVE  Store!Next
  <1>1. /\ mem[h] = "unused" /\ mem' = [mem EXCEPT ![h] = "made"]
        /\ id' = [id EXCEPT ![h] = i] /\ Entities' = Entities /\ requested' = requested
    BY DEF Create, lists, history
  <1>2. WorldIds' \subseteq WorldIds \cup {i} /\ i \notin issued
    BY CreateEffect
  <1>3. \A g \in Handles \ {h} : mem[g] # "unused" => id[g] # i
    BY <1>2 DEF StoreInv, IssuedInv
  <1>4. (WorldIds \ requested)' \in SUBSET ((WorldIds \ requested) \cup {i})
    BY <1>1, <1>2
  <1>5. Store!Make(h, i)
    BY <1>1, <1>3, <1>4 DEF Store!Make
  <1>6. QED
    BY <1>5 DEF Store!Next

\* The answer to CreateEntity or CreateAvatar: the entity enters the lists.
LEMMA SentStep ==
    ASSUME StoreInv, StoreInv', ObjectSent
    PROVE  Store!Next
  <1> DEFINE h == Head(inbox).entity
  <1>1. /\ h \in Handles /\ mem[h] = "made"
        /\ \A g \in Handles \ {h} : mem[g] # "unused" => id[g] # id[h]
    BY ReceivedFacts, MessageFields DEF ObjectSent, Received, StoreInv, AnswersInv
  <1>2. /\ id' = id /\ UNCHANGED <<world, ownAvatars, requested>>
        /\ \/ mem' = mem /\ Entities' = Entities
           \/ mem' = [mem EXCEPT ![h] = "live"] /\ Entities' = Entities \cup {h}
    BY DEF ObjectSent, lists, made, history
  <1> HIDE DEF h
  <1>3. CASE mem' = mem /\ Entities' = Entities
    BY <1>2, <1>3, DecideStep
  <1>4. CASE mem' = [mem EXCEPT ![h] = "live"] /\ Entities' = Entities \cup {h}
    <2>1. \A g \in Entities : id[g] # id[h]
      BY <1>1 DEF StoreInv, ListsInv, IsLive, TypeOK, EngineTypeOK
    <2>2. Store!Show(h)
      BY <1>1, <1>2, <1>4, <2>1, SameWanted DEF Store!Show
    <2>3. QED
      BY <1>1, <2>2 DEF Store!Next
  <1>5. QED
    BY <1>2, <1>3, <1>4

\* AddPendingEntity shows the entity unless its id is known.
LEMMA AddStep ==
    ASSUME StoreInv, StoreInv', FlushAdd
    PROVE  Store!Next
  <1> DEFINE h == Head(PendingAdds)
  <1>1. h \in Elements(PendingAdds) /\ h \in Handles
    BY TailElements DEF FlushAdd, StoreInv, TypeOK, EngineTypeOK
  <1>2. mem[h] = "live"
    BY <1>1 DEF StoreInv, ListsInv, IsLive
  <1>3. /\ id' = id /\ mem' = mem /\ UNCHANGED <<world, ownAvatars, requested>>
        /\ \/ Entities' = Entities
           \/ (\A e \in Entities : id[e] # id[h]) /\ Entities' = Entities \cup {h}
    BY DEF FlushAdd, AddPendingEntity, lists, made, service, history
  <1> HIDE DEF h
  <1>4. CASE Entities' = Entities
    BY <1>3, <1>4, DecideStep
  <1>5. CASE (\A e \in Entities : id[e] # id[h]) /\ Entities' = Entities \cup {h}
    <2>1. mem' = [mem EXCEPT ![h] = "live"]
      BY <1>1, <1>2, <1>3 DEF StoreInv, TypeOK, ObjectsTypeOK
    <2>2. Store!Show(h)
      BY <1>2, <1>3, <1>5, <2>1, SameWanted DEF Store!Show
    <2>3. QED
      BY <1>1, <2>2 DEF Store!Next
  <1>6. QED
    BY <1>3, <1>4, <1>5

\* RemovePendingEntity deletes what was given up.
LEMMA RemoveStep ==
    ASSUME StoreInv, StoreInv', FlushRemove
    PROVE  Store!Next
  <1> DEFINE h == Head(PendingRemoves)
  <1>1. h \in Elements(PendingRemoves) /\ h \in Handles
    BY TailElements DEF FlushRemove, StoreInv, TypeOK, EngineTypeOK
  <1>2. id[h] \notin WorldIds \ requested
    BY <1>1 DEF StoreInv, DestroyInv
  <1>3. /\ id' = id /\ UNCHANGED <<world, ownAvatars, requested>>
        /\ \/ mem' = mem /\ Entities' = Entities
           \/ /\ h \notin handled
              /\ mem' = [mem EXCEPT ![h] = "freed"] /\ Entities' = Entities \ {h}
    BY DEF FlushRemove, RemovePendingEntity, lists, made, service, history
  <1>4. CASE mem' = mem /\ Entities' = Entities
    BY <1>3, <1>4, DecideStep
  <1>5. CASE h \notin handled /\ mem' = [mem EXCEPT ![h] = "freed"] /\ Entities' = Entities \ {h}
    <2>1. mem[h] = "live"
      BY <1>1, <1>5 DEF StoreInv, QueuesInv, IsLive
    <2> HIDE DEF h
    <2>2. Store!Drop(h)
      BY <1>2, <1>3, <1>5, <2>1, SameWanted DEF Store!Drop
    <2>3. QED
      BY <1>1, <2>2 DEF Store!Next
  <1>6. QED
    BY <1>3, <1>4, <1>5

\* Every step of the engine is a step of the abstract store or leaves it alone.
LEMMA StepSimulation ==
    ASSUME StoreInv, StoreInv', [Next]_vars
    PROVE  [Store!Next]_(Store!vars)
  <1> USE DEF history, service, made, hierarchy, lists, queues, flush
  <1>1. ASSUME NEW i \in Ids, NEW t \in Types, NEW p \in ParentIds, RemoteCreate(i, t, p)
        PROVE  Store!Next
    BY <1>1, DecideStep DEF RemoteCreate, UnchangedEngine
  <1>2. ASSUME NEW i \in Ids, NEW p \in ParentIds, RemoteReparent(i, p) PROVE Store!Next
    BY <1>2, DecideStep DEF RemoteReparent, UnchangedEngine
  <1>3. ASSUME NEW i \in Ids, RemoteDestroy(i) PROVE Store!Next
    BY <1>3, DecideStep DEF RemoteDestroy, UnchangedEngine
  <1>4. ASSUME NEW h \in Handles, OnObjectMessage(h) PROVE Store!Next
    <2>1. Head(inbox).object \in Records
      BY <1>4, ReceivedFacts, MessageFields DEF OnObjectMessage, Received
    <2>2. QED
      BY <1>4, <2>1, LearnStep DEF OnObjectMessage
  <1>5. ASSUME NEW h \in Handles, RetrievedEntity(h) PROVE Store!Next
    <2>1. Head(Head(inbox).items) \in Records
      BY <1>5, RetrievedEntityEffect
    <2>2. QED
      BY <1>5, <2>1, LearnStep DEF RetrievedEntity
  <1>6. ASSUME OnObjectPatch PROVE Store!Next
    BY <1>6, DecideStep DEF OnObjectPatch
  <1>7. ASSUME RetrievedPage PROVE Store!Next
    BY <1>7, DecideStep DEF RetrievedPage
  <1>8. ASSUME ObjectSent PROVE Store!Next
    BY <1>8, SentStep
  <1>9. ASSUME FetchAllEntitiesAndPopulateBuffers PROVE Store!Next
    BY <1>9, DecideStep DEF FetchAllEntitiesAndPopulateBuffers
  <1>10. ASSUME NEW h \in Handles, NEW i \in Ids, NEW t \in Types, NEW p \in ParentIds,
                Create(h, i, t, p)
         PROVE  Store!Next
    BY <1>10, MakeStep
  <1>11. ASSUME NEW h \in Handles, NEW p \in ParentIds, SetParentId(h, p) PROVE Store!Next
    BY <1>11, DecideStep DEF SetParentId
  <1>12. ASSUME NEW h \in Handles, RemoveParentEntity(h) PROVE Store!Next
    BY <1>12, DecideStep DEF RemoveParentEntity
  <1>13. ASSUME NEW h \in Handles, QueueEntityUpdate(h) PROVE Store!Next
    BY <1>13, DecideStep DEF QueueEntityUpdate
  <1>14. ASSUME NEW h \in Handles, DestroyEntity(h) PROVE Store!Next
    BY <1>14, DecideStep DEF DestroyEntity
  <1>15. ASSUME TickEntities PROVE Store!Next
    BY <1>15, DecideStep DEF TickEntities
  <1>16. ASSUME FlushAdd PROVE Store!Next
    BY <1>16, AddStep
  <1>17. ASSUME FlushIncoming PROVE Store!Next
    BY <1>17, DecideStep DEF FlushIncoming
  <1>18. ASSUME SendPatches PROVE Store!Next
    BY <1>18, DecideStep DEF SendPatches
  <1>19. ASSUME NEW h \in Handles, ApplyLocalPatch(h) PROVE Store!Next
    BY <1>19, DecideStep DEF ApplyLocalPatch
  <1>20. ASSUME FlushRemove PROVE Store!Next
    BY <1>20, RemoveStep
  <1>21. ASSUME FlushEnds PROVE Store!Next
    BY <1>21, DecideStep DEF FlushEnds
  <1>22. CASE UNCHANGED vars
    BY <1>22, DecideStep DEF vars
  <1>23. QED
    BY <1>1, <1>2, <1>3, <1>4, <1>5, <1>6, <1>7, <1>8, <1>9, <1>10, <1>11, <1>12, <1>13,
       <1>14, <1>15, <1>16, <1>17, <1>18, <1>19, <1>20, <1>21, <1>22, CreateIsCreate
       DEF Next, Service, Network, Application, Flush

\* The initial states are those of an empty store.
LEMMA InitSimulation == Init => Store!Init
  <1> SUFFICES ASSUME Init PROVE Store!Init
    OBVIOUS
  <1>1. StoreInv
    BY InitStoreInv
  <1>2. world \in Seq(Records) /\ ownAvatars \subseteq Ids /\ id \in [Handles -> Ids]
    BY <1>1 DEF StoreInv, TypeOK, ServiceTypeOK, ObjectsTypeOK
  <1>3. Elements(world) \subseteq Records
    BY <1>2 DEF Elements
  <1>4. WorldIds \subseteq Ids
    BY <1>2, <1>3 DEF WorldIds, Records
  <1>5. QED
    BY <1>2, <1>4 DEF Init, Store!Init

\* The engine implements the abstract store, whatever the service sends and in
\* whatever order the application calls and ticks it.
THEOREM EngineImplementsStore == Spec => ImplementsEntityStore
  <1>1. Init => Store!Init
    BY InitSimulation
  <1>2. StoreInv /\ StoreInv' /\ [Next]_vars => [Store!Next]_(Store!vars)
    BY StepSimulation
  <1>3. QED
    BY <1>1, <1>2, StoreInvariant, PTL DEF Spec, ImplementsEntityStore, Store!Spec

\* Every reachable state of the engine is well typed.
THEOREM StoreIsTyped == Spec => []TypeOK
  <1>1. StoreInv => TypeOK
    BY DEF StoreInv
  <1>2. QED
    BY <1>1, StoreInvariant, PTL

=============================================================================
