------------------------ MODULE EntityPatchesProofs ------------------------
(***************************************************************************)
(* Proofs about the replication of an entity, for any number of clients,   *)
(* keys, changes and patches in flight.                                    *)
(***************************************************************************)
EXTENDS EntityPatches, SequenceTheorems, TLAPS

(***************************************************************************)
(* The inductive invariant.                                                *)
(***************************************************************************)

\* Client c has changed key k and has not sent the change.
Touched(c, k) == dirty[c][k] # None \/ k \in Elements(deletions[c])

Carries(q, k) == \E i \in DOMAIN q : q[i].components[k] # None

\* A component that shares its object with Components is there.
SharedIsPresent ==
    \A c \in Clients, k \in Keys :
        dirty[c][k] # None /\ dirty[c][k].object = Shared => components[c][k] # None

\* The patches of q, applied one after the other to the component old of key
\* k, come to fin, and none of them removes a component that it does not
\* delete: f[i] is the component after the first i patches.
Leads(q, k, old, fin) ==
    \E f \in [0 .. Len(q) -> Optional(Components)] :
        /\ f[0] = old /\ f[Len(q)] = fin
        /\ \A i \in 1 .. Len(q) :
             /\ f[i] = PatchedComponent(f[i - 1], q[i].components[k])
             /\ f[i - 1] # None /\ f[i] = None => q[i].components[k].type = Deleted
        /\ \A i \in 0 .. Len(q) :
             (\A j \in 1 .. Len(q) : j > i => q[j].components[k] = None) => f[i] = fin

\* What a client will have once the patches in flight are applied, seen from the
\* client that has an unsent change of the component: own and entry are its
\* component and its dirty component.
Awaits(entry, own, fin) ==
    \/ entry.update = "Add" /\ own = None /\ fin = None
    \/ entry.object = Shared /\ own # None /\ fin # None /\ fin.type = own.type

OneTouches(k) ==
    \A c \in Clients :
        Touched(c, k) => /\ ~ Carries(inbox[c], k)
                         /\ \A d \in Clients : Touched(d, k) => d = c

KeyAgrees(k) ==
    \E fin \in [Clients -> Optional(Components)] :
        /\ \A c \in Clients : Leads(inbox[c], k, components[c][k], fin[c])
        /\ \A c, d \in Clients : ~ Touched(c, k) /\ ~ Touched(d, k) => Agree(fin[c], fin[d])
        /\ \A c \in Clients : dirty[c][k] # None /\ k \notin Elements(deletions[c]) =>
             \A d \in Clients \ {c} : Awaits(dirty[c][k], components[c][k], fin[d])

\* Keys from End on are not received: see EndAssumption.
KeysInv == \A k \in Keys \ disputed : k < End => OneTouches(k) /\ KeyAgrees(k)

CarriesLock(q) == \E i \in DOMAIN q : q[i].lock # Clean

\* The patches of q, applied to the lock old, come to fin.
LockLeads(q, old, fin) ==
    \/ \E i \in DOMAIN q :
         /\ q[i].lock = fin /\ fin # Clean
         /\ \A j \in DOMAIN q : j > i => q[j].lock = Clean
    \/ ~ CarriesLock(q) /\ old = fin

OneLocks ==
    \A c \in Clients :
        dirtyLock[c] # Clean => /\ ~ CarriesLock(inbox[c])
                                /\ \A d \in Clients : dirtyLock[d] # Clean => d = c

LockAgrees ==
    \E fin \in LockTypes : \A c \in Clients : LockLeads(inbox[c], lock[c], fin)

LockInv == ~ lockDisputed => OneLocks /\ LockAgrees

PatchesInv == TypeOK /\ SharedIsPresent /\ KeysInv /\ LockInv

----------------------------------------------------------------------------
(***************************************************************************)
(* What a patch does to a component.                                       *)
(***************************************************************************)

Blank == [type |-> Deleted, value |-> None]

\* Components, the blank one and the marks are told apart.
LEMMA Sentinels ==
    /\ None \notin Components /\ None # Blank /\ Blank \notin Components
    /\ Shared \notin Components /\ Shared # None /\ None \notin DirtyComponents
    /\ Items = Components \cup {Blank}
    /\ \A x \in Components : x.type \in Types /\ x.type # Deleted /\ x.value \in Optional(Values)
<1>1. \A x \in Components : x.type \in Types /\ x.type # Deleted /\ x.value \in Optional(Values)
  BY TypesAssumption DEF Components, Optional
<1>2. Items = Components \cup {Blank}
  BY DEF Items, Blank
<1>3. Blank \notin Components
  BY <1>1 DEF Blank
<1> QED BY <1>1, <1>2, <1>3, SentinelAssumption

\* A patched component is one, or none.
LEMMA PatchedTyped ==
    ASSUME NEW old \in Optional(Components), NEW item \in Optional(Items)
    PROVE  PatchedComponent(old, item) \in Optional(Components)
<1>1. CASE item = None
  BY <1>1 DEF PatchedComponent
<1>2. CASE item # None /\ old = None
  <2>1. CASE item.type = Deleted
    BY <1>2, <2>1 DEF PatchedComponent, Optional
  <2>2. CASE item.type # Deleted
    <3>1. item \in Components
      BY <1>2, <2>2, Sentinels DEF Optional, Blank
    <3>2. PatchedComponent(old, item)
            = [item EXCEPT !.value = IF item.value = None THEN DefaultValue ELSE item.value]
      BY <1>2, <2>2 DEF PatchedComponent
    <3>3. [item EXCEPT !.value = IF item.value = None THEN DefaultValue ELSE item.value] \in Components
      BY <3>1, ValuesAssumption DEF Components
    <3> QED BY <3>2, <3>3 DEF Optional
  <2> QED BY <2>1, <2>2
<1>3. CASE item # None /\ old # None
  <2>1. CASE item.type # old.type
    BY <1>3, <2>1 DEF PatchedComponent, Optional
  <2>2. CASE item.type = old.type
    <3>1. old \in Components
      BY <1>3 DEF Optional
    <3>2. item \in Components
      BY <1>3, <2>2, <3>1, Sentinels DEF Optional, Blank
    <3>3. PatchedComponent(old, item)
            = [old EXCEPT !.value = IF item.value = None THEN old.value ELSE item.value]
      BY <1>3, <2>2 DEF PatchedComponent
    <3>4. [old EXCEPT !.value = IF item.value = None THEN old.value ELSE item.value] \in Components
      BY <3>1, <3>2 DEF Components
    <3> QED BY <3>3, <3>4 DEF Optional
  <2> QED BY <2>1, <2>2
<1> QED BY <1>1, <1>2, <1>3

\* No item leaves the component as it is.
LEMMA PatchedByNone ==
    ASSUME NEW old
    PROVE  PatchedComponent(old, None) = old
  BY DEF PatchedComponent

\* The blank component removes whatever there is.
LEMMA PatchedByBlank ==
    ASSUME NEW old \in Optional(Components)
    PROVE  PatchedComponent(old, Blank) = None
<1>1. Blank # None /\ Blank.type = Deleted
  BY Sentinels DEF Blank
<1>2. CASE old = None
  BY <1>1, <1>2 DEF PatchedComponent
<1>3. CASE old # None
  <2>1. old.type # Deleted
    BY <1>3, Sentinels DEF Optional
  <2> QED BY <1>1, <1>3, <2>1 DEF PatchedComponent
<1> QED BY <1>2, <1>3

\* A component makes a new one, or gives its value to one of its type.
LEMMA PatchedByComponent ==
    ASSUME NEW old \in Optional(Components), NEW item \in Components,
           old # None => old.type = item.type
    PROVE  /\ PatchedComponent(old, item) \in Components
           /\ PatchedComponent(old, item).type = item.type
           /\ item.value # None => PatchedComponent(old, item).value = item.value
           /\ item.value = None /\ old # None => PatchedComponent(old, item) = old
           /\ item.value = None /\ old = None => PatchedComponent(old, item).value = DefaultValue
<1>1. item # None /\ item.type # Deleted
  BY Sentinels
<1>2. CASE old = None
  <2>1. PatchedComponent(old, item)
          = [item EXCEPT !.value = IF item.value = None THEN DefaultValue ELSE item.value]
    BY <1>1, <1>2 DEF PatchedComponent
  <2> QED BY <1>2, <2>1, ValuesAssumption DEF Components
<1>3. CASE old # None
  <2>1. old \in Components
    BY <1>3 DEF Optional
  <2>2. PatchedComponent(old, item)
          = [old EXCEPT !.value = IF item.value = None THEN old.value ELSE item.value]
    BY <1>1, <1>3 DEF PatchedComponent
  <2> QED BY <1>3, <2>1, <2>2 DEF Components
<1> QED BY <1>2, <1>3

----------------------------------------------------------------------------
(***************************************************************************)
(* What the patches in flight to a client come to.                         *)
(***************************************************************************)

\* Nothing in flight for the key: the component stays.
LEMMA LeadsClear ==
    ASSUME NEW q \in Seq(Patches), NEW k \in Keys, NEW old \in Optional(Components),
           NEW fin, ~ Carries(q, k), Leads(q, k, old, fin)
    PROVE  fin = old
<1>1. Len(q) \in Nat /\ DOMAIN q = 1 .. Len(q)
  BY LenProperties
<1>2. \A j \in 1 .. Len(q) : q[j].components[k] = None
  BY <1>1 DEF Carries
<1> QED BY <1>1, <1>2 DEF Leads

\* And so does any other that is put in its place.
LEMMA LeadsStill ==
    ASSUME NEW q \in Seq(Patches), NEW k \in Keys, NEW x \in Optional(Components),
           ~ Carries(q, k)
    PROVE  Leads(q, k, x, x)
<1>1. Len(q) \in Nat /\ DOMAIN q = 1 .. Len(q)
  BY LenProperties
<1>2. \A j \in 1 .. Len(q) : q[j].components[k] = None
  BY <1>1 DEF Carries
<1> DEFINE f == [i \in 0 .. Len(q) |-> x]
<1>3. f \in [0 .. Len(q) -> Optional(Components)] /\ f[0] = x /\ f[Len(q)] = x
  BY <1>1
<1>4. ASSUME NEW i \in 1 .. Len(q)
      PROVE  /\ f[i] = PatchedComponent(f[i - 1], q[i].components[k])
             /\ f[i - 1] # None /\ f[i] = None => q[i].components[k].type = Deleted
  <2>1. f[i] = x /\ f[i - 1] = x
    BY <1>1
  <2> QED BY <1>2, <2>1, PatchedByNone
<1>5. \A i \in 0 .. Len(q) : f[i] = x
  OBVIOUS
<1> HIDE DEF f
<1> QED BY <1>3, <1>4, <1>5 DEF Leads

\* One more patch, that does not replace a component by one of another type.
LEMMA LeadsAppend ==
    ASSUME NEW q \in Seq(Patches), NEW p \in Patches, NEW k \in Keys,
           NEW old, NEW fin \in Optional(Components), Leads(q, k, old, fin),
           \/ p.components[k] = None
           \/ fin = None
           \/ p.components[k].type \in {Deleted, fin.type}
    PROVE  Leads(Append(q, p), k, old, PatchedComponent(fin, p.components[k]))
<1> DEFINE r == Append(q, p)
           item == p.components[k]
           new == PatchedComponent(fin, item)
<1>1. Len(q) \in Nat /\ DOMAIN q = 1 .. Len(q)
  BY LenProperties
<1>2. /\ r \in Seq(Patches) /\ Len(r) = Len(q) + 1
      /\ \A i \in 1 .. Len(q) : r[i] = q[i]
      /\ r[Len(q) + 1] = p
  BY <1>1, AppendProperties
<1>3. item \in Optional(Items) /\ new \in Optional(Components)
  BY PatchedTyped DEF Patches
<1>4. PICK f \in [0 .. Len(q) -> Optional(Components)] :
        /\ f[0] = old /\ f[Len(q)] = fin
        /\ \A i \in 1 .. Len(q) :
             /\ f[i] = PatchedComponent(f[i - 1], q[i].components[k])
             /\ f[i - 1] # None /\ f[i] = None => q[i].components[k].type = Deleted
        /\ \A i \in 0 .. Len(q) :
             (\A j \in 1 .. Len(q) : j > i => q[j].components[k] = None) => f[i] = fin
  BY DEF Leads
<1> DEFINE g == [i \in 0 .. Len(q) + 1 |-> IF i = Len(q) + 1 THEN new ELSE f[i]]
<1> HIDE DEF r, new
<1>5. /\ g \in [0 .. Len(r) -> Optional(Components)] /\ g[0] = old /\ g[Len(r)] = new
      /\ \A i \in 0 .. Len(q) : g[i] = f[i]
  BY <1>1, <1>2, <1>3, <1>4
<1> HIDE DEF g
<1>6. fin # None /\ new = None => item # None /\ item.type = Deleted
  <2> SUFFICES ASSUME fin # None, new = None PROVE item # None /\ item.type = Deleted
    OBVIOUS
  <2>1. item # None
    BY PatchedByNone DEF new
  <2>2. CASE item.type = fin.type
    <3>1. item \in Components /\ fin \in Components
      BY <1>3, <2>1, <2>2, Sentinels DEF Optional, Blank
    <3> QED BY <2>2, <3>1, PatchedByComponent, Sentinels DEF new
  <2> QED BY <2>1, <2>2
<1>7. ASSUME NEW i \in 1 .. Len(r)
      PROVE  /\ g[i] = PatchedComponent(g[i - 1], r[i].components[k])
             /\ g[i - 1] # None /\ g[i] = None => r[i].components[k].type = Deleted
  <2>1. CASE i \in 1 .. Len(q)
    <3>1. g[i] = f[i] /\ g[i - 1] = f[i - 1] /\ r[i] = q[i]
      BY <1>1, <1>2, <1>5, <2>1
    <3> QED BY <1>4, <2>1, <3>1
  <2>2. CASE i = Len(q) + 1
    <3>1. g[i] = new /\ g[i - 1] = fin /\ r[i] = p
      BY <1>1, <1>2, <1>4, <1>5, <2>2
    <3> QED BY <1>6, <3>1 DEF new
  <2> QED BY <1>1, <1>2, <2>1, <2>2
<1>8. ASSUME NEW i \in 0 .. Len(r), \A j \in 1 .. Len(r) : j > i => r[j].components[k] = None
      PROVE  g[i] = new
  <2>1. CASE i = Len(r)
    BY <1>5, <2>1
  <2>2. CASE i # Len(r)
    <3>1. i \in 0 .. Len(q)
      BY <1>1, <1>2, <2>2
    <3>2. item = None
      BY <1>1, <1>2, <1>8, <3>1
    <3>3. \A j \in 1 .. Len(q) : j > i => q[j].components[k] = None
      BY <1>1, <1>2, <1>8
    <3> QED BY <1>4, <1>5, <3>1, <3>2, <3>3, PatchedByNone DEF new
  <2> QED BY <2>1, <2>2
<1> QED BY <1>5, <1>7, <1>8 DEF Leads, r, new

\* The first patch is applied, and deletes the component if it removes it.
LEMMA LeadsTail ==
    ASSUME NEW q \in Seq(Patches), q # <<>>, NEW k \in Keys,
           NEW old, NEW fin, Leads(q, k, old, fin)
    PROVE  /\ Leads(Tail(q), k, PatchedComponent(old, Head(q).components[k]), fin)
           /\ old # None /\ PatchedComponent(old, Head(q).components[k]) = None
                => Head(q).components[k].type = Deleted
<1> DEFINE r == Tail(q)
           new == PatchedComponent(old, Head(q).components[k])
<1>1. Len(q) \in Nat /\ DOMAIN q = 1 .. Len(q) /\ Len(q) > 0
  BY LenProperties, EmptySeq
<1>2. /\ r \in Seq(Patches) /\ Len(r) = Len(q) - 1 /\ Head(q) = q[1]
      /\ \A i \in 1 .. Len(q) - 1 : r[i] = q[i + 1]
  BY <1>1, HeadTailProperties
<1>3. PICK f \in [0 .. Len(q) -> Optional(Components)] :
        /\ f[0] = old /\ f[Len(q)] = fin
        /\ \A i \in 1 .. Len(q) :
             /\ f[i] = PatchedComponent(f[i - 1], q[i].components[k])
             /\ f[i - 1] # None /\ f[i] = None => q[i].components[k].type = Deleted
        /\ \A i \in 0 .. Len(q) :
             (\A j \in 1 .. Len(q) : j > i => q[j].components[k] = None) => f[i] = fin
  BY DEF Leads
<1>4. f[1] = new /\ (old # None /\ new = None => Head(q).components[k].type = Deleted)
  <2>1. 1 \in 1 .. Len(q) /\ 1 - 1 = 0
    BY <1>1
  <2> QED BY <1>2, <1>3, <2>1
<1> DEFINE g == [i \in 0 .. Len(q) - 1 |-> f[i + 1]]
<1> HIDE DEF r, new
<1>5. /\ g \in [0 .. Len(r) -> Optional(Components)] /\ g[0] = new /\ g[Len(r)] = fin
      /\ \A i \in 0 .. Len(r) : g[i] = f[i + 1]
  BY <1>1, <1>2, <1>3, <1>4
<1> HIDE DEF g
<1>6. ASSUME NEW i \in 1 .. Len(r)
      PROVE  /\ g[i] = PatchedComponent(g[i - 1], r[i].components[k])
             /\ g[i - 1] # None /\ g[i] = None => r[i].components[k].type = Deleted
  <2>1. /\ g[i] = f[i + 1] /\ g[i - 1] = f[i] /\ r[i] = q[i + 1]
        /\ i + 1 \in 1 .. Len(q) /\ (i + 1) - 1 = i
    BY <1>1, <1>2, <1>5
  <2> QED BY <1>3, <2>1
<1>7. ASSUME NEW i \in 0 .. Len(r), \A j \in 1 .. Len(r) : j > i => r[j].components[k] = None
      PROVE  g[i] = fin
  <2>1. ASSUME NEW j \in 1 .. Len(q), j > i + 1 PROVE q[j].components[k] = None
    <3>1. j - 1 \in 1 .. Len(r) /\ j - 1 > i /\ r[j - 1] = q[j]
      BY <1>1, <1>2, <2>1
    <3> QED BY <1>7, <3>1
  <2>2. i + 1 \in 0 .. Len(q) /\ g[i] = f[i + 1]
    BY <1>1, <1>2, <1>5
  <2> QED BY <1>3, <2>1, <2>2
<1> QED BY <1>4, <1>5, <1>6, <1>7 DEF Leads, r, new

\* What the queues of patches and of deletions hold.
LEMMA CarriesAppend ==
    ASSUME NEW q \in Seq(Patches), NEW p \in Patches, NEW k \in Keys
    PROVE  /\ Append(q, p) \in Seq(Patches)
           /\ Carries(Append(q, p), k) <=> Carries(q, k) \/ p.components[k] # None
           /\ CarriesLock(Append(q, p)) <=> CarriesLock(q) \/ p.lock # Clean
<1> DEFINE r == Append(q, p)
<1>1. Len(q) \in Nat /\ DOMAIN q = 1 .. Len(q)
  BY LenProperties
<1>2. /\ r \in Seq(Patches) /\ Len(r) = Len(q) + 1
      /\ \A i \in 1 .. Len(q) : r[i] = q[i]
      /\ r[Len(q) + 1] = p
  BY <1>1, AppendProperties
<1>3. DOMAIN r = 1 .. Len(q) + 1
  BY <1>2, LenProperties
<1> HIDE DEF r
<1>4. Carries(r, k) <=> Carries(q, k) \/ p.components[k] # None
  BY <1>1, <1>2, <1>3 DEF Carries
<1>5. CarriesLock(r) <=> CarriesLock(q) \/ p.lock # Clean
  BY <1>1, <1>2, <1>3 DEF CarriesLock
<1> QED BY <1>2, <1>4, <1>5 DEF r

LEMMA CarriesTail ==
    ASSUME NEW q \in Seq(Patches), q # <<>>, NEW k \in Keys
    PROVE  /\ Tail(q) \in Seq(Patches) /\ Head(q) \in Patches
           /\ Carries(Tail(q), k) => Carries(q, k)
           /\ Head(q).components[k] # None => Carries(q, k)
           /\ CarriesLock(Tail(q)) => CarriesLock(q)
           /\ Head(q).lock # Clean => CarriesLock(q)
<1> DEFINE r == Tail(q)
<1>1. Len(q) \in Nat /\ DOMAIN q = 1 .. Len(q) /\ Len(q) > 0
  BY LenProperties, EmptySeq
<1>2. /\ r \in Seq(Patches) /\ Len(r) = Len(q) - 1 /\ Head(q) = q[1]
      /\ \A i \in 1 .. Len(q) - 1 : r[i] = q[i + 1]
  BY <1>1, HeadTailProperties
<1>3. DOMAIN r = 1 .. Len(q) - 1 /\ Head(q) \in Patches
  BY <1>1, <1>2, LenProperties, ElementOfSeq
<1> HIDE DEF r
<1>a. \A i \in DOMAIN r : i + 1 \in DOMAIN q /\ r[i] = q[i + 1]
  BY <1>1, <1>2, <1>3
<1>4. Carries(r, k) => Carries(q, k)
  BY <1>a DEF Carries
<1>5. CarriesLock(r) => CarriesLock(q)
  BY <1>a DEF CarriesLock
<1>6. 1 \in DOMAIN q
  BY <1>1
<1>7. /\ Head(q).components[k] # None => Carries(q, k)
      /\ Head(q).lock # Clean => CarriesLock(q)
  BY <1>2, <1>6 DEF Carries, CarriesLock
<1> QED BY <1>2, <1>3, <1>4, <1>5, <1>7 DEF r

LEMMA ElementsAppend ==
    ASSUME NEW S, NEW s \in Seq(S), NEW e \in S
    PROVE  Append(s, e) \in Seq(S) /\ Elements(Append(s, e)) = Elements(s) \cup {e}
<1> DEFINE t == Append(s, e)
<1>1. Len(s) \in Nat /\ DOMAIN s = 1 .. Len(s)
  BY LenProperties
<1>2. /\ t \in Seq(S) /\ Len(t) = Len(s) + 1
      /\ \A n \in 1 .. Len(s) : t[n] = s[n]
      /\ t[Len(s) + 1] = e
  BY <1>1, AppendProperties
<1>3. DOMAIN t = 1 .. Len(s) + 1
  BY <1>2, LenProperties
<1> HIDE DEF t
<1> QED BY <1>1, <1>2, <1>3 DEF Elements, t

LEMMA ElementsEmpty == Elements(<<>>) = {}
  BY DEF Elements

\* The lock that the patches in flight come to.
LEMMA LockLeadsAppend ==
    ASSUME NEW q \in Seq(Patches), NEW p \in Patches, NEW old, NEW fin, LockLeads(q, old, fin)
    PROVE  LockLeads(Append(q, p), old, IF p.lock = Clean THEN fin ELSE p.lock)
<1> DEFINE r == Append(q, p)
<1>1. Len(q) \in Nat /\ DOMAIN q = 1 .. Len(q)
  BY LenProperties
<1>2. /\ r \in Seq(Patches) /\ Len(r) = Len(q) + 1
      /\ \A i \in 1 .. Len(q) : r[i] = q[i]
      /\ r[Len(q) + 1] = p
  BY <1>1, AppendProperties
<1>3. DOMAIN r = 1 .. Len(q) + 1
  BY <1>2, LenProperties
<1> HIDE DEF r
<1>4. CASE p.lock # Clean
  <2>1. Len(q) + 1 \in DOMAIN r /\ \A j \in DOMAIN r : ~ (j > Len(q) + 1)
    BY <1>1, <1>3
  <2> QED BY <1>2, <1>4, <2>1 DEF LockLeads, r
<1>5. CASE p.lock = Clean
  <2>1. CASE ~ CarriesLock(q) /\ old = fin
    <3>1. ~ CarriesLock(r)
      BY <1>1, <1>2, <1>3, <1>5, <2>1 DEF CarriesLock
    <3> QED BY <1>5, <2>1, <3>1 DEF LockLeads, r
  <2>2. ASSUME NEW i \in DOMAIN q, q[i].lock = fin, fin # Clean,
               \A j \in DOMAIN q : j > i => q[j].lock = Clean
        PROVE  LockLeads(r, old, fin)
    <3>1. i \in DOMAIN r /\ r[i].lock = fin
      BY <1>1, <1>2, <1>3, <2>2
    <3>2. \A j \in DOMAIN r : j > i => r[j].lock = Clean
      BY <1>1, <1>2, <1>3, <1>5, <2>2
    <3> QED BY <2>2, <3>1, <3>2 DEF LockLeads
  <2> QED BY <1>5, <2>1, <2>2 DEF LockLeads, r
<1> QED BY <1>4, <1>5

LEMMA LockLeadsTail ==
    ASSUME NEW q \in Seq(Patches), q # <<>>, NEW old, NEW fin, LockLeads(q, old, fin)
    PROVE  LockLeads(Tail(q), IF Head(q).lock = Clean THEN old ELSE Head(q).lock, fin)
<1> DEFINE r == Tail(q)
           new == IF Head(q).lock = Clean THEN old ELSE Head(q).lock
<1>1. Len(q) \in Nat /\ DOMAIN q = 1 .. Len(q) /\ Len(q) > 0
  BY LenProperties, EmptySeq
<1>2. /\ r \in Seq(Patches) /\ Len(r) = Len(q) - 1 /\ Head(q) = q[1]
      /\ \A i \in 1 .. Len(q) - 1 : r[i] = q[i + 1]
  BY <1>1, HeadTailProperties
<1>3. DOMAIN r = 1 .. Len(q) - 1
  BY <1>1, <1>2, LenProperties
<1> HIDE DEF r
<1>a. \A i \in DOMAIN r : i + 1 \in DOMAIN q /\ r[i] = q[i + 1]
  BY <1>1, <1>2, <1>3
<1>4. CASE ~ CarriesLock(q) /\ old = fin
  <2>1. ~ CarriesLock(r)
    BY <1>4, <1>a DEF CarriesLock
  <2>2. 1 \in DOMAIN q
    BY <1>1
  <2>3. new = old
    BY <1>2, <1>4, <2>2 DEF CarriesLock
  <2> QED BY <1>4, <2>1, <2>3 DEF LockLeads, r
<1>5. ASSUME NEW i \in DOMAIN q, q[i].lock = fin, fin # Clean,
             \A j \in DOMAIN q : j > i => q[j].lock = Clean
      PROVE  LockLeads(r, new, fin)
  <2>1. CASE i = 1
    <3>1. ASSUME NEW j \in DOMAIN r PROVE r[j].lock = Clean
      <4>1. j + 1 \in DOMAIN q /\ j + 1 > i /\ r[j] = q[j + 1]
        BY <1>1, <1>2, <1>3, <2>1
      <4> QED BY <1>5, <4>1
    <3>2. new = fin
      BY <1>2, <1>5, <2>1
    <3> QED BY <3>1, <3>2 DEF LockLeads, CarriesLock
  <2>2. CASE i # 1
    <3>1. i - 1 \in DOMAIN r /\ r[i - 1] = q[i]
      BY <1>1, <1>2, <1>3, <2>2
    <3>2. ASSUME NEW j \in DOMAIN r, j > i - 1 PROVE r[j].lock = Clean
      <4>1. j + 1 \in DOMAIN q /\ j + 1 > i /\ r[j] = q[j + 1]
        BY <1>1, <1>2, <1>3, <3>2
      <4> QED BY <1>5, <4>1
    <3> QED BY <1>5, <3>1, <3>2 DEF LockLeads
  <2> QED BY <2>1, <2>2
<1> QED BY <1>4, <1>5 DEF LockLeads, r

----------------------------------------------------------------------------
(***************************************************************************)
(* Steps that leave the keys, or all keys but one, alone.                  *)
(***************************************************************************)

SameAt(c, k) ==
    /\ components'[c][k] = components[c][k]
    /\ dirty'[c][k] = dirty[c][k]
    /\ k \in Elements(deletions'[c]) <=> k \in Elements(deletions[c])

\* Client c changes key k only.
OnlyChanges(c, k) ==
    \A d \in Clients, j \in Keys : d # c \/ j # k => SameAt(d, j)

\* A key nobody changes.
LEMMA KeyFrame ==
    ASSUME NEW k \in Keys, \A d \in Clients : SameAt(d, k), inbox' = inbox,
           OneTouches(k), KeyAgrees(k)
    PROVE  OneTouches(k)' /\ KeyAgrees(k)'
<1>1. \A d \in Clients : Touched(d, k)' <=> Touched(d, k)
  BY DEF SameAt, Touched
<1>2. OneTouches(k)'
  BY <1>1 DEF OneTouches, Carries
<1>3. PICK fin \in [Clients -> Optional(Components)] :
        /\ \A c \in Clients : Leads(inbox[c], k, components[c][k], fin[c])
        /\ \A c, d \in Clients : ~ Touched(c, k) /\ ~ Touched(d, k) => Agree(fin[c], fin[d])
        /\ \A c \in Clients : dirty[c][k] # None /\ k \notin Elements(deletions[c]) =>
             \A d \in Clients \ {c} : Awaits(dirty[c][k], components[c][k], fin[d])
  BY DEF KeyAgrees
<1>4. \A c \in Clients : Leads(inbox[c], k, components[c][k], fin[c])'
  BY <1>3 DEF SameAt, Leads
<1>5. \A c, d \in Clients : ~ Touched(c, k)' /\ ~ Touched(d, k)' => Agree(fin[c], fin[d])
  BY <1>1, <1>3
<1>6. \A c \in Clients : dirty'[c][k] # None /\ k \notin Elements(deletions'[c]) =>
             \A d \in Clients \ {c} : Awaits(dirty'[c][k], components'[c][k], fin[d])
  BY <1>3 DEF SameAt
<1>7. \A c, d \in Clients : ~ Touched(c, k)' /\ ~ Touched(d, k)' => Agree(fin[c], fin[d])'
  BY <1>5 DEF Agree
<1>8. \A c \in Clients : dirty'[c][k] # None /\ k \notin Elements(deletions'[c]) =>
             \A d \in Clients \ {c} : Awaits(dirty[c][k], components[c][k], fin[d])'
  BY <1>6 DEF Awaits
<1>9. KeyAgrees(k)'
  BY <1>4, <1>7, <1>8 DEF KeyAgrees
<1> QED BY <1>2, <1>9

\* A lock nobody changes.
LEMMA LockFrame ==
    ASSUME LockInv, UNCHANGED <<lock, dirtyLock, inbox, lockDisputed>>
    PROVE  LockInv'
  BY DEF LockInv, OneLocks, LockAgrees, LockLeads, CarriesLock

\* What the change of c waits for at another client follows from what held of
\* that client before the change.
KeepsAwaiting(c, k) ==
    dirty'[c][k] # None /\ k \notin Elements(deletions'[c]) =>
        \A x \in Optional(Components) :
            /\ ~ Touched(c, k) => Agree(components[c][k], x)
            /\ dirty[c][k] # None /\ k \notin Elements(deletions[c]) =>
                 Awaits(dirty[c][k], components[c][k], x)
            => Awaits(dirty'[c][k], components'[c][k], x)

\* The application of c changes key k.
LEMMA ChangeKeys ==
    ASSUME TypeOK, KeysInv, NEW c \in Clients, NEW k \in Keys, NoteChange(c, k), inbox' = inbox,
           OnlyChanges(c, k), components'[c][k] \in Optional(Components),
           Touched(c, k)', KeepsAwaiting(c, k)
    PROVE  KeysInv'
<1> SUFFICES ASSUME NEW j \in Keys, j \notin disputed', j < End
             PROVE  OneTouches(j)' /\ KeyAgrees(j)'
  BY DEF KeysInv
<1>1. disputed' = disputed \cup {i \in {k} : Contested(c, i)}
  BY DEF NoteChange
<1>2. OneTouches(j) /\ KeyAgrees(j)
  BY <1>1 DEF KeysInv
<1>3. CASE j # k
  <2>1. \A d \in Clients : SameAt(d, j)
    BY <1>3 DEF OnlyChanges
  <2> QED BY <1>2, <2>1, KeyFrame
<1>4. CASE j = k
  <2>1. ~ Contested(c, k)
    BY <1>1, <1>4
  <2>2. /\ \A d \in Clients \ {c} : ~ Touched(d, k)
        /\ ~ Carries(inbox[c], k)
    BY <2>1 DEF Contested, Touched, Carries, Elements
  <2>3. \A d \in Clients \ {c} : SameAt(d, k)
    BY DEF OnlyChanges
  <2>4. \A d \in Clients \ {c} : ~ Touched(d, k)'
    BY <2>2, <2>3 DEF SameAt, Touched
  <2>5. OneTouches(k)'
    BY <2>2, <2>4 DEF OneTouches, Carries
  <2>6. PICK fin \in [Clients -> Optional(Components)] :
        /\ \A b \in Clients : Leads(inbox[b], k, components[b][k], fin[b])
        /\ \A b, d \in Clients : ~ Touched(b, k) /\ ~ Touched(d, k) => Agree(fin[b], fin[d])
        /\ \A b \in Clients : dirty[b][k] # None /\ k \notin Elements(deletions[b]) =>
             \A d \in Clients \ {b} : Awaits(dirty[b][k], components[b][k], fin[d])
    BY <1>2, <1>4 DEF KeyAgrees
  <2>7. PICK new \in [Clients -> Optional(Components)] :
          new[c] = components'[c][k] /\ \A d \in Clients \ {c} : new[d] = fin[d]
    <3> DEFINE f == [fin EXCEPT ![c] = components'[c][k]]
    <3>1. /\ f \in [Clients -> Optional(Components)] /\ f[c] = components'[c][k]
          /\ \A d \in Clients \ {c} : f[d] = fin[d]
      BY <2>6
    <3> QED BY <3>1
  <2>8. inbox[c] \in Seq(Patches) /\ components[c][k] \in Optional(Components)
    BY DEF TypeOK
  <2>9. fin[c] = components[c][k]
    BY <2>2, <2>6, <2>8, LeadsClear
  <2>10. ASSUME NEW d \in Clients PROVE Leads(inbox[d], k, components'[d][k], new[d])
    <3>1. CASE d = c
      BY <2>2, <2>7, <2>8, <3>1, LeadsStill
    <3>2. CASE d # c
      BY <2>3, <2>6, <2>7, <3>2 DEF SameAt
    <3> QED BY <3>1, <3>2
  <2>11. \A b, d \in Clients : ~ Touched(b, k)' /\ ~ Touched(d, k)' => Agree(new[b], new[d])
    BY <2>2, <2>6, <2>7
  <2>12. ASSUME NEW b \in Clients, dirty'[b][k] # None, k \notin Elements(deletions'[b]),
                NEW d \in Clients \ {b}
         PROVE  Awaits(dirty'[b][k], components'[b][k], new[d])
    <3>1. b = c
      BY <2>4, <2>12 DEF Touched
    <3>2. new[d] = fin[d] /\ fin[d] \in Optional(Components) /\ d # c /\ ~ Touched(d, k)
      BY <2>2, <2>6, <2>7, <3>1
    <3>3. ~ Touched(c, k) => Agree(components[c][k], fin[d])
      BY <2>6, <2>9, <3>2
    <3>4. dirty[c][k] # None /\ k \notin Elements(deletions[c]) =>
            Awaits(dirty[c][k], components[c][k], fin[d])
      BY <2>6, <3>2
    <3> QED BY <2>12, <3>1, <3>2, <3>3, <3>4 DEF KeepsAwaiting
  <2>13. \A d \in Clients : Leads(inbox[d], k, components[d][k], new[d])'
    BY <2>10 DEF Leads
  <2>14. \A b, d \in Clients : ~ Touched(b, k)' /\ ~ Touched(d, k)' => Agree(new[b], new[d])'
    BY <2>11 DEF Agree
  <2>15. \A b \in Clients : dirty'[b][k] # None /\ k \notin Elements(deletions'[b]) =>
            \A d \in Clients \ {b} : Awaits(dirty[b][k], components[b][k], new[d])'
    BY <2>12 DEF Awaits
  <2>16. KeyAgrees(k)'
    BY <2>13, <2>14, <2>15 DEF KeyAgrees
  <2> QED BY <1>4, <2>5, <2>16
<1> QED BY <1>3, <1>4

----------------------------------------------------------------------------
(***************************************************************************)
(* Changes by the application keep the invariant.                          *)
(***************************************************************************)

\* A dirty component is one that is added, or the update of one that is shared
\* or was removed by another client.
LEMMA DirtyKinds ==
    ASSUME NEW e \in DirtyComponents
    PROVE  /\ e # None /\ e.update \in {"Add", "Update"}
           /\ e.object \in Components \cup {Shared}
           /\ e.update = "Add" => e.object \in Components /\ e.object # Shared
  BY Sentinels DEF DirtyComponents

ComponentBecomes(c, k, x) ==
    components' = [components EXCEPT ![c] = [components[c] EXCEPT ![k] = x]]

DirtyBecomes(c, k, e) ==
    dirty' = [dirty EXCEPT ![c] = [dirty[c] EXCEPT ![k] = e]]

\* The client's part of the state after a change of one key.
LEMMA ChangeTyped ==
    ASSUME TypeOK, NEW c \in Clients, NEW k \in Keys,
           NEW x \in Optional(Components), NEW e \in Optional(DirtyComponents),
           ComponentBecomes(c, k, x),
           DirtyBecomes(c, k, e)
    PROVE  /\ components' \in [Clients -> [Keys -> Optional(Components)]]
           /\ dirty' \in [Clients -> [Keys -> Optional(DirtyComponents)]]
           /\ components'[c][k] = x /\ dirty'[c][k] = e
           /\ \A d \in Clients, j \in Keys : d # c \/ j # k =>
                /\ components'[d][j] = components[d][j]
                /\ dirty'[d][j] = dirty[d][j]
<1>1. /\ components \in [Clients -> [Keys -> Optional(Components)]]
      /\ dirty \in [Clients -> [Keys -> Optional(DirtyComponents)]]
  BY DEF TypeOK
<1>2. /\ [components[c] EXCEPT ![k] = x] \in [Keys -> Optional(Components)]
      /\ [dirty[c] EXCEPT ![k] = e] \in [Keys -> Optional(DirtyComponents)]
  BY <1>1
<1> QED BY <1>1, <1>2 DEF ComponentBecomes, DirtyBecomes

\* A component that stays as it was.
LEMMA SameUpdate ==
    ASSUME TypeOK, NEW c \in Clients, NEW k \in Keys
    PROVE  /\ components' = components => ComponentBecomes(c, k, components[c][k])
           /\ components[c][k] \in Optional(Components)
           /\ dirty[c][k] \in Optional(DirtyComponents)
  BY DEF TypeOK, ComponentBecomes

LEMMA AddStep ==
    ASSUME PatchesInv, NEW c \in Clients, NEW t \in Types, AddComponent(c, t)
    PROVE  PatchesInv'
<1>1. PICK k \in Keys :
        /\ IsGeneratedId(c, k)
        /\ nextId' = [nextId EXCEPT ![c] = k + 1]
        /\ SetDirtyComponent(c, k,
               [update |-> "Add", object |-> [type |-> t, value |-> DefaultValue]])
        /\ NoteChange(c, k)
  BY DEF AddComponent
<1> DEFINE e == [update |-> "Add", object |-> [type |-> t, value |-> DefaultValue]]
<1>2. e \in DirtyComponents /\ e.update = "Add" /\ e.object \in Components
  BY ValuesAssumption DEF DirtyComponents, Components
<1>3. e # None /\ e.object # Shared
  BY <1>2, DirtyKinds
<1>4. TypeOK /\ components[c][k] = None /\ dirty[c][k] = None
  BY <1>1 DEF IsGeneratedId, IsFree, PatchesInv
<1>5. UNCHANGED <<components, lock, dirtyLock, deletions, queued, inbox>>
  BY DEF AddComponent
<1>6. DirtyBecomes(c, k, e)
  BY <1>1, <1>4 DEF SetDirtyComponent, DirtyBecomes
<1> HIDE DEF e
<1>7. ComponentBecomes(c, k, components[c][k])
  BY <1>4, <1>5, SameUpdate
<1>8. components[c][k] \in Optional(Components) /\ e \in Optional(DirtyComponents)
  BY <1>2, <1>4 DEF Optional
<1>9. /\ components' \in [Clients -> [Keys -> Optional(Components)]]
      /\ dirty' \in [Clients -> [Keys -> Optional(DirtyComponents)]]
      /\ components'[c][k] = None /\ dirty'[c][k] = e
      /\ \A d \in Clients, j \in Keys : d # c \/ j # k =>
           /\ components'[d][j] = components[d][j]
           /\ dirty'[d][j] = dirty[d][j]
  BY <1>4, <1>6, <1>7, <1>8, ChangeTyped
<1>10. /\ changes' \in 0 .. MaxChanges /\ disputed' \subseteq Keys
       /\ lockDisputed' = lockDisputed
  BY <1>1, <1>4, BoundsAssumption DEF NoteChange, CountChange, TypeOK
<1>11. nextId' \in [Clients -> 0 .. MaxId + 1]
  BY <1>1, <1>4, EndAssumption DEF TypeOK, Keys
<1>12. TypeOK'
  BY <1>4, <1>5, <1>9, <1>10, <1>11 DEF TypeOK
<1>13. SharedIsPresent'
  BY <1>3, <1>9 DEF PatchesInv, SharedIsPresent
<1>14. OnlyChanges(c, k)
  BY <1>5, <1>9 DEF OnlyChanges, SameAt
<1>15. Touched(c, k)'
  BY <1>3, <1>9 DEF Touched
<1>16. KeepsAwaiting(c, k)
  BY <1>2, <1>4, <1>5, <1>9 DEF KeepsAwaiting, Touched, Awaits, Agree
<1>17. KeysInv'
  BY <1>1, <1>4, <1>5, <1>8, <1>9, <1>14, <1>15, <1>16, ChangeKeys DEF PatchesInv
<1>18. LockInv'
  BY <1>5, <1>10, LockFrame DEF PatchesInv
<1> QED BY <1>12, <1>13, <1>17, <1>18 DEF PatchesInv

LEMMA ChangeStep ==
    ASSUME PatchesInv, NEW c \in Clients, NEW k \in Keys, NEW v \in Optional(Values),
           ChangeProperty(c, k, v)
    PROVE  PatchesInv'
<1> DEFINE s == [update |-> "Update", object |-> Shared]
<1>1. TypeOK /\ SharedIsPresent /\ components[c][k] # None
  BY DEF PatchesInv, ChangeProperty
<1>2. UNCHANGED <<lock, nextId, dirtyLock, deletions, queued, inbox>> /\ NoteChange(c, k)
  BY DEF ChangeProperty
<1>3. PICK x : x = [components[c][k] EXCEPT !.value = v]
  OBVIOUS
<1>4. components[c][k] \in Components /\ x \in Components /\ x.type = components[c][k].type
  BY <1>1, <1>3, SameUpdate DEF Components, Optional
<1>5. ComponentBecomes(c, k, x)
  BY <1>3 DEF ChangeProperty, ComponentBecomes
<1>6. s \in DirtyComponents /\ s.object = Shared
  BY DEF DirtyComponents
<1>7. PICK e : e = IF dirty[c][k] = None THEN s ELSE dirty[c][k]
  OBVIOUS
<1>8. DirtyBecomes(c, k, e)
  BY <1>7 DEF ChangeProperty, SetDirtyComponent, DirtyBecomes
<1>9. e \in DirtyComponents
  BY <1>1, <1>6, <1>7, SameUpdate DEF Optional
<1> HIDE DEF s
<1>10. e # None /\ x # None /\ x \in Optional(Components) /\ e \in Optional(DirtyComponents)
  BY <1>4, <1>9, Sentinels DEF Optional
<1>11. /\ components' \in [Clients -> [Keys -> Optional(Components)]]
       /\ dirty' \in [Clients -> [Keys -> Optional(DirtyComponents)]]
       /\ components'[c][k] = x /\ dirty'[c][k] = e
       /\ \A d \in Clients, j \in Keys : d # c \/ j # k =>
            /\ components'[d][j] = components[d][j]
            /\ dirty'[d][j] = dirty[d][j]
  BY <1>1, <1>5, <1>8, <1>10, ChangeTyped
<1>12. /\ changes' \in 0 .. MaxChanges /\ disputed' \subseteq Keys
       /\ lockDisputed' = lockDisputed
  BY <1>1, <1>2, BoundsAssumption DEF NoteChange, CountChange, TypeOK
<1>13. TypeOK'
  BY <1>1, <1>2, <1>11, <1>12 DEF TypeOK
<1>14. SharedIsPresent'
  BY <1>1, <1>10, <1>11 DEF SharedIsPresent
<1>15. OnlyChanges(c, k)
  BY <1>2, <1>11 DEF OnlyChanges, SameAt
<1>16. Touched(c, k)'
  BY <1>10, <1>11 DEF Touched
<1>17. KeepsAwaiting(c, k)
  <2> SUFFICES ASSUME k \notin Elements(deletions[c]), NEW y \in Optional(Components),
                      ~ Touched(c, k) => Agree(components[c][k], y),
                      dirty[c][k] # None => Awaits(dirty[c][k], components[c][k], y)
               PROVE  Awaits(e, x, y)
    BY <1>2, <1>11 DEF KeepsAwaiting
  <2>1. CASE dirty[c][k] = None
    <3>1. Agree(components[c][k], y) /\ e = s
      BY <1>7, <2>1 DEF Touched
    <3> QED BY <1>1, <1>4, <1>6, <1>10, <3>1 DEF Agree, Awaits
  <2>2. CASE dirty[c][k] # None
    <3>1. Awaits(e, components[c][k], y)
      BY <1>7, <2>2
    <3> QED BY <1>1, <1>4, <1>10, <3>1 DEF Awaits
  <2> QED BY <2>1, <2>2
<1>18. KeysInv'
  BY <1>1, <1>2, <1>10, <1>11, <1>15, <1>16, <1>17, ChangeKeys DEF PatchesInv
<1>19. LockInv'
  BY <1>2, <1>12, LockFrame DEF PatchesInv
<1> QED BY <1>13, <1>14, <1>18, <1>19 DEF PatchesInv

LEMMA ChangePendingStep ==
    ASSUME PatchesInv, NEW c \in Clients, NEW k \in Keys, NEW v \in Optional(Values),
           ChangePendingProperty(c, k, v)
    PROVE  PatchesInv'
<1>1. TypeOK /\ SharedIsPresent /\ dirty[c][k] # None /\ dirty[c][k].update = "Add"
  BY DEF PatchesInv, ChangePendingProperty
<1>2. UNCHANGED <<components, lock, nextId, dirtyLock, deletions, queued, inbox>> /\ NoteChange(c, k)
  BY DEF ChangePendingProperty, entity
<1>3. PICK x : x = [dirty[c][k].object EXCEPT !.value = v]
  OBVIOUS
<1>4. PICK e : e = [dirty[c][k] EXCEPT !.object = x]
  OBVIOUS
<1>5. dirty[c][k] \in DirtyComponents /\ dirty[c][k].object \in Components
  BY <1>1, SameUpdate, DirtyKinds DEF Optional
<1>6. x \in Components
  BY <1>3, <1>5 DEF Components, Optional
<1>7. e \in DirtyComponents /\ e.update = "Add"
  BY <1>1, <1>4, <1>5, <1>6 DEF DirtyComponents
<1>8. e # None /\ e.object # Shared /\ dirty[c][k].object # Shared
  BY <1>1, <1>5, <1>7, DirtyKinds
<1>9. DirtyBecomes(c, k, e)
  BY <1>3, <1>4 DEF ChangePendingProperty, DirtyBecomes
<1>10. /\ ComponentBecomes(c, k, components[c][k])
       /\ components[c][k] \in Optional(Components) /\ e \in Optional(DirtyComponents)
  BY <1>1, <1>2, <1>7, SameUpdate DEF Optional
<1>11. /\ components' \in [Clients -> [Keys -> Optional(Components)]]
       /\ dirty' \in [Clients -> [Keys -> Optional(DirtyComponents)]]
       /\ components'[c][k] = components[c][k] /\ dirty'[c][k] = e
       /\ \A d \in Clients, j \in Keys : d # c \/ j # k =>
            /\ components'[d][j] = components[d][j]
            /\ dirty'[d][j] = dirty[d][j]
  BY <1>1, <1>9, <1>10, ChangeTyped
<1>12. /\ changes' \in 0 .. MaxChanges /\ disputed' \subseteq Keys
       /\ lockDisputed' = lockDisputed
  BY <1>1, <1>2, BoundsAssumption DEF NoteChange, CountChange, TypeOK
<1>13. TypeOK'
  BY <1>1, <1>2, <1>11, <1>12 DEF TypeOK
<1>14. SharedIsPresent'
  BY <1>1, <1>8, <1>11 DEF SharedIsPresent
<1>15. OnlyChanges(c, k)
  BY <1>2, <1>11 DEF OnlyChanges, SameAt
<1>16. Touched(c, k)'
  BY <1>8, <1>11 DEF Touched
<1>17. KeepsAwaiting(c, k)
  BY <1>1, <1>2, <1>7, <1>8, <1>11 DEF KeepsAwaiting, Awaits
<1>18. KeysInv'
  BY <1>1, <1>2, <1>10, <1>11, <1>15, <1>16, <1>17, ChangeKeys DEF PatchesInv
<1>19. LockInv'
  BY <1>2, <1>12, LockFrame DEF PatchesInv
<1> QED BY <1>13, <1>14, <1>18, <1>19 DEF PatchesInv

LEMMA RemoveStep ==
    ASSUME PatchesInv, NEW c \in Clients, NEW k \in Keys, RemoveComponent(c, k)
    PROVE  PatchesInv'
<1>1. TypeOK /\ SharedIsPresent
  BY DEF PatchesInv
<1>2. UNCHANGED <<components, lock, nextId, dirtyLock, queued, inbox>> /\ NoteChange(c, k)
  BY DEF RemoveComponent, entity
<1>3. DirtyBecomes(c, k, None)
  BY DEF RemoveComponent, DirtyBecomes
<1>4. /\ ComponentBecomes(c, k, components[c][k])
      /\ components[c][k] \in Optional(Components) /\ None \in Optional(DirtyComponents)
  BY <1>1, <1>2, SameUpdate DEF Optional
<1>5. /\ components' \in [Clients -> [Keys -> Optional(Components)]]
      /\ dirty' \in [Clients -> [Keys -> Optional(DirtyComponents)]]
      /\ components'[c][k] = components[c][k] /\ dirty'[c][k] = None
      /\ \A d \in Clients, j \in Keys : d # c \/ j # k =>
           /\ components'[d][j] = components[d][j]
           /\ dirty'[d][j] = dirty[d][j]
  BY <1>1, <1>3, <1>4, ChangeTyped
<1>6. /\ deletions[c] \in Seq(Keys) /\ deletions \in [Clients -> Seq(Keys)]
      /\ deletions' = [deletions EXCEPT ![c] = Append(deletions[c], k)]
  BY <1>1 DEF TypeOK, RemoveComponent
<1>7. /\ Append(deletions[c], k) \in Seq(Keys)
      /\ Elements(Append(deletions[c], k)) = Elements(deletions[c]) \cup {k}
  BY <1>6, ElementsAppend
<1>8. /\ deletions' \in [Clients -> Seq(Keys)]
      /\ Elements(deletions'[c]) = Elements(deletions[c]) \cup {k}
      /\ \A d \in Clients \ {c} : deletions'[d] = deletions[d]
  BY <1>6, <1>7
<1>9. /\ changes' \in 0 .. MaxChanges /\ disputed' \subseteq Keys
      /\ lockDisputed' = lockDisputed
  BY <1>1, <1>2, BoundsAssumption DEF NoteChange, CountChange, TypeOK
<1>10. TypeOK'
  BY <1>1, <1>2, <1>5, <1>8, <1>9 DEF TypeOK
<1>11. SharedIsPresent'
  BY <1>1, <1>5 DEF SharedIsPresent
<1>12. OnlyChanges(c, k)
  <2> SUFFICES ASSUME NEW d \in Clients, NEW j \in Keys, d # c \/ j # k PROVE SameAt(d, j)
    BY DEF OnlyChanges
  <2>1. j \in Elements(deletions'[d]) <=> j \in Elements(deletions[d])
    BY <1>8
  <2> QED BY <1>5, <2>1 DEF SameAt
<1>13. Touched(c, k)' /\ KeepsAwaiting(c, k)
  BY <1>8 DEF Touched, KeepsAwaiting
<1>14. KeysInv'
  BY <1>1, <1>2, <1>4, <1>5, <1>12, <1>13, ChangeKeys DEF PatchesInv
<1>15. LockInv'
  BY <1>2, <1>9, LockFrame DEF PatchesInv
<1> QED BY <1>10, <1>11, <1>14, <1>15 DEF PatchesInv

\* Steps that only ask for a patch, or drop it, change nothing that is replicated.
LEMMA QueueStep ==
    ASSUME PatchesInv, NEW c \in Clients, QueueEntityUpdate(c) \/ SkipPatch(c)
    PROVE  PatchesInv'
<1>1. TypeOK
  BY DEF PatchesInv
<1>2. /\ UNCHANGED <<components, lock, nextId, dirty, dirtyLock, deletions, inbox, changes>>
      /\ UNCHANGED <<disputed, lockDisputed>>
      /\ queued' \in [Clients -> BOOLEAN]
  BY <1>1 DEF QueueEntityUpdate, SkipPatch, entity, patcher, history, TypeOK
<1>3. TypeOK'
  BY <1>1, <1>2 DEF TypeOK
<1>4. SharedIsPresent'
  BY <1>2 DEF PatchesInv, SharedIsPresent
<1>5. ASSUME NEW k \in Keys, k \notin disputed', k < End PROVE OneTouches(k)' /\ KeyAgrees(k)'
  <2>1. OneTouches(k) /\ KeyAgrees(k)
    BY <1>2, <1>5 DEF PatchesInv, KeysInv
  <2>2. \A d \in Clients : SameAt(d, k)
    BY <1>2 DEF SameAt
  <2> QED BY <1>2, <2>1, <2>2, KeyFrame
<1>6. LockInv'
  BY <1>2, LockFrame DEF PatchesInv
<1> QED BY <1>3, <1>4, <1>5, <1>6 DEF PatchesInv, KeysInv

LEMMA LockStep ==
    ASSUME PatchesInv, NEW c \in Clients, NEW l \in LockTypes, SetDirtyLock(c, l)
    PROVE  PatchesInv'
<1>1. TypeOK
  BY DEF PatchesInv
<1>2. UNCHANGED <<components, lock, nextId, dirty, deletions, queued, inbox, disputed>>
  BY DEF SetDirtyLock, entity
<1>3. /\ changes' \in 0 .. MaxChanges /\ lockDisputed' \in BOOLEAN
      /\ dirtyLock' \in [Clients -> LockTypes \cup {Clean}]
      /\ \A d \in Clients \ {c} : dirtyLock'[d] = dirtyLock[d]
  BY <1>1, BoundsAssumption DEF SetDirtyLock, CountChange, TypeOK
<1>4. TypeOK'
  BY <1>1, <1>2, <1>3 DEF TypeOK
<1>5. SharedIsPresent'
  BY <1>2 DEF PatchesInv, SharedIsPresent
<1>6. ASSUME NEW k \in Keys, k \notin disputed', k < End PROVE OneTouches(k)' /\ KeyAgrees(k)'
  <2>1. OneTouches(k) /\ KeyAgrees(k)
    BY <1>2, <1>6 DEF PatchesInv, KeysInv
  <2>2. \A d \in Clients : SameAt(d, k)
    BY <1>2 DEF SameAt
  <2> QED BY <1>2, <2>1, <2>2, KeyFrame
<1>7. LockInv'
  <2> SUFFICES ASSUME ~ lockDisputed' PROVE OneLocks' /\ LockAgrees'
    BY DEF LockInv
  <2>1. ~ lockDisputed /\ ~ LockContested(c)
    BY DEF SetDirtyLock
  <2>2. OneLocks /\ LockAgrees
    BY <2>1 DEF PatchesInv, LockInv
  <2>3. /\ \A d \in Clients \ {c} : dirtyLock[d] = Clean
        /\ ~ CarriesLock(inbox[c])
    BY <2>1 DEF LockContested, CarriesLock, Elements
  <2>4. OneLocks'
    BY <1>2, <1>3, <2>3 DEF OneLocks, CarriesLock
  <2>5. LockAgrees'
    BY <1>2, <2>2 DEF LockAgrees, LockLeads, CarriesLock
  <2> QED BY <2>4, <2>5
<1> QED BY <1>4, <1>5, <1>6, <1>7 DEF PatchesInv, KeysInv

----------------------------------------------------------------------------
(***************************************************************************)
(* Sending a patch.                                                        *)
(***************************************************************************)

\* What a patch carries for a key.
LEMMA PatchItems ==
    ASSUME TypeOK, SharedIsPresent, NEW c \in Clients, NEW p, p = CreateObjectPatch(c)
    PROVE  /\ p \in Patches /\ p.lock = dirtyLock[c]
           /\ \A k \in Keys :
                /\ k \in Elements(deletions[c]) => p.components[k] = Blank
                /\ k \notin Elements(deletions[c]) /\ dirty[c][k] # None =>
                     /\ p.components[k] = DirtyObject(c, k)
                     /\ DirtyObject(c, k) \in Components
                /\ ~ Touched(c, k) => p.components[k] = None
                /\ Touched(c, k) => p.components[k] # None
<1>1. ASSUME NEW k \in Keys, dirty[c][k] # None PROVE DirtyObject(c, k) \in Components
  <2>1. /\ dirty[c][k].object \in Components \cup {Shared}
        /\ components[c][k] \in Optional(Components)
    BY <1>1, SameUpdate, DirtyKinds DEF Optional
  <2> QED BY <1>1, <2>1 DEF DirtyObject, SharedIsPresent, Optional
<1>2. PICK g : g = [k \in Keys |->
                      IF k \in Elements(deletions[c]) THEN [type |-> Deleted, value |-> None]
                      ELSE IF dirty[c][k] # None THEN DirtyObject(c, k)
                      ELSE None]
  OBVIOUS
<1>3. p = [components |-> g, lock |-> dirtyLock[c]]
  BY <1>2 DEF CreateObjectPatch
<1>4. ASSUME NEW k \in Keys
      PROVE  /\ k \in Elements(deletions[c]) => g[k] = Blank
             /\ k \notin Elements(deletions[c]) /\ dirty[c][k] # None => g[k] = DirtyObject(c, k)
             /\ ~ Touched(c, k) => g[k] = None
  BY <1>2 DEF Blank, Touched
<1>5. ASSUME NEW k \in Keys
      PROVE  g[k] \in Optional(Items) /\ (Touched(c, k) => g[k] # None)
  BY <1>1, <1>4, Sentinels DEF Optional, Touched
<1>6. g \in [Keys -> Optional(Items)] /\ dirtyLock[c] \in LockTypes \cup {Clean}
  BY <1>2, <1>5 DEF TypeOK
<1> QED BY <1>1, <1>3, <1>4, <1>5, <1>6 DEF Patches

\* The sender after it has applied its patch.
LEMMA Applied ==
    ASSUME TypeOK, NEW c \in Clients, ApplyLocalPatch(c)
    PROVE  /\ components' \in [Clients -> [Keys -> Optional(Components)]]
           /\ dirty' \in [Clients -> [Keys -> Optional(DirtyComponents)]]
           /\ lock' \in [Clients -> LockTypes]
           /\ dirtyLock' \in [Clients -> LockTypes \cup {Clean}]
           /\ deletions' \in [Clients -> Seq(Keys)]
           /\ \A d \in Clients \ {c} :
                /\ components'[d] = components[d] /\ dirty'[d] = dirty[d]
                /\ deletions'[d] = deletions[d]
                /\ lock'[d] = lock[d] /\ dirtyLock'[d] = dirtyLock[d]
           /\ \A k \in Keys :
                /\ dirty'[c][k] = None
                /\ components'[c][k] = IF k \in Elements(deletions[c]) THEN None
                                       ELSE IF dirty[c][k] # None /\ dirty[c][k].update = "Add"
                                       THEN dirty[c][k].object
                                       ELSE components[c][k]
           /\ Elements(deletions'[c]) = {}
           /\ dirtyLock'[c] = Clean
           /\ lock'[c] = IF dirtyLock[c] = Clean THEN lock[c] ELSE dirtyLock[c]
<1>1. PICK new : new = [k \in Keys |->
                          IF k \in Elements(deletions[c]) THEN None
                          ELSE IF dirty[c][k] # None /\ dirty[c][k].update = "Add"
                          THEN dirty[c][k].object
                          ELSE components[c][k]]
  OBVIOUS
<1>2. PICK none : none = [k \in Keys |-> None]
  OBVIOUS
<1>3. ASSUME NEW k \in Keys
      PROVE  new[k] \in Optional(Components)
  <2>1. /\ components[c][k] \in Optional(Components)
        /\ dirty[c][k] # None /\ dirty[c][k].update = "Add" => dirty[c][k].object \in Components
    BY SameUpdate, DirtyKinds DEF Optional
  <2> QED BY <1>1, <2>1 DEF Optional
<1>4. new \in [Keys -> Optional(Components)] /\ none \in [Keys -> Optional(DirtyComponents)]
  BY <1>1, <1>2, <1>3 DEF Optional
<1>5. /\ components' = [components EXCEPT ![c] = new]
      /\ dirty' = [dirty EXCEPT ![c] = none]
      /\ lock' = [lock EXCEPT ![c] = IF dirtyLock[c] = Clean THEN lock[c] ELSE dirtyLock[c]]
      /\ dirtyLock' = [dirtyLock EXCEPT ![c] = Clean]
      /\ deletions' = [deletions EXCEPT ![c] = <<>>]
  BY <1>1, <1>2 DEF ApplyLocalPatch
<1>6. /\ components \in [Clients -> [Keys -> Optional(Components)]]
      /\ dirty \in [Clients -> [Keys -> Optional(DirtyComponents)]]
      /\ components' \in [Clients -> [Keys -> Optional(Components)]]
      /\ dirty' \in [Clients -> [Keys -> Optional(DirtyComponents)]]
      /\ components'[c] = new /\ dirty'[c] = none
      /\ \A d \in Clients \ {c} : components'[d] = components[d] /\ dirty'[d] = dirty[d]
  BY <1>4, <1>5 DEF TypeOK
<1>7. <<>> \in Seq(Keys) /\ Elements(<<>>) = {}
  BY EmptySeq, ElementsEmpty
<1>8. /\ deletions' \in [Clients -> Seq(Keys)] /\ Elements(deletions'[c]) = {}
      /\ \A d \in Clients \ {c} : deletions'[d] = deletions[d]
  BY <1>5, <1>7 DEF TypeOK
<1>9. /\ lock' \in [Clients -> LockTypes]
      /\ dirtyLock' \in [Clients -> LockTypes \cup {Clean}]
      /\ \A d \in Clients \ {c} : lock'[d] = lock[d] /\ dirtyLock'[d] = dirtyLock[d]
      /\ dirtyLock'[c] = Clean
      /\ lock'[c] = IF dirtyLock[c] = Clean THEN lock[c] ELSE dirtyLock[c]
  BY <1>5 DEF TypeOK
<1> QED BY <1>1, <1>2, <1>6, <1>8, <1>9

\* Agreement is symmetric, and equal types and values make equal components.
LEMMA AgreeBasics ==
    /\ \A x : Agree(x, x)
    /\ \A x, y : Agree(x, y) => Agree(y, x)
    /\ \A x, y \in Components :
         x.type = y.type /\ (x.value = y.value \/ None \in {x.value, y.value}) => Agree(x, y)
<1>1. \A x, y \in Components : x.type = y.type /\ x.value = y.value => x = y
  BY DEF Components
<1>2. \A x, y \in Components : x # None /\ y # None
  BY Sentinels
<1> QED BY <1>1, <1>2 DEF Agree

\* Receivers that agree with each other, and have no component or one of the
\* sender's type, agree with the sender and with each other when they have
\* applied its component.
LEMMA AgreeAfter ==
    ASSUME NEW x \in Components, NEW f \in Optional(Components), NEW g \in Optional(Components),
           Agree(f, g),
           \/ f = None /\ g = None
           \/ f # None /\ g # None /\ f.type = x.type /\ g.type = x.type
    PROVE  /\ Agree(x, PatchedComponent(f, x))
           /\ Agree(PatchedComponent(f, x), PatchedComponent(g, x))
<1> DEFINE a == PatchedComponent(f, x)
           b == PatchedComponent(g, x)
<1>1. /\ a \in Components /\ a.type = x.type
      /\ x.value # None => a.value = x.value
      /\ x.value = None /\ f # None => a = f
      /\ x.value = None /\ f = None => a.value = DefaultValue
  BY PatchedByComponent
<1>2. /\ b \in Components /\ b.type = x.type
      /\ x.value # None => b.value = x.value
      /\ x.value = None /\ g # None => b = g
      /\ x.value = None /\ g = None => b.value = DefaultValue
  BY PatchedByComponent
<1> HIDE DEF a, b
<1>3. Agree(x, a)
  <2>1. x.value = a.value \/ None \in {x.value, a.value}
    BY <1>1
  <2> QED BY <1>1, <2>1, AgreeBasics
<1>4. Agree(a, b)
  <2>1. CASE x.value = None /\ f # None
    BY <1>1, <1>2, <2>1
  <2>2. CASE x.value # None \/ f = None
    <3>1. a.type = b.type /\ a.value = b.value
      BY <1>1, <1>2, <2>2
    <3> QED BY <1>1, <1>2, <3>1, AgreeBasics
  <2> QED BY <2>1, <2>2
<1> QED BY <1>3, <1>4 DEF a, b

\* The patch p of client c is in flight to the others.
Forwards(c, p) ==
    \A d \in Clients : inbox'[d] = IF d = c THEN inbox[d] ELSE Append(inbox[d], p)

\* A key whose change is sent, or that the patch does not carry.
LEMMA SendKey ==
    ASSUME TypeOK, SharedIsPresent, NEW c \in Clients, ApplyLocalPatch(c),
           NEW p, p = CreateObjectPatch(c), Forwards(c, p),
           NEW k \in Keys, OneTouches(k), KeyAgrees(k)
    PROVE  OneTouches(k)' /\ KeyAgrees(k)'
<1>1. /\ p \in Patches
      /\ k \in Elements(deletions[c]) => p.components[k] = Blank
      /\ k \notin Elements(deletions[c]) /\ dirty[c][k] # None =>
           p.components[k] = DirtyObject(c, k) /\ DirtyObject(c, k) \in Components
      /\ ~ Touched(c, k) => p.components[k] = None
      /\ Touched(c, k) => p.components[k] # None
  BY PatchItems
<1>2. /\ \A d \in Clients \ {c} :
           /\ components'[d][k] = components[d][k] /\ dirty'[d][k] = dirty[d][k]
           /\ deletions'[d] = deletions[d]
      /\ dirty'[c][k] = None /\ Elements(deletions'[c]) = {}
      /\ components'[c][k] = IF k \in Elements(deletions[c]) THEN None
                             ELSE IF dirty[c][k] # None /\ dirty[c][k].update = "Add"
                             THEN dirty[c][k].object
                             ELSE components[c][k]
      /\ components'[c][k] \in Optional(Components)
  <2>1. components' \in [Clients -> [Keys -> Optional(Components)]]
    BY Applied
  <2>2. components'[c][k] \in Optional(Components)
    BY <2>1
  <2> QED BY <2>2, Applied
<1>3. ~ Touched(c, k)' /\ \A d \in Clients \ {c} : Touched(d, k)' <=> Touched(d, k)
  BY <1>2 DEF Touched
<1>4. \A d \in Clients : inbox[d] \in Seq(Patches) /\ components[d][k] \in Optional(Components)
  BY DEF TypeOK
<1>5. OneTouches(k)'
  <2> SUFFICES ASSUME NEW d \in Clients, Touched(d, k)'
               PROVE  /\ ~ Carries(inbox'[d], k)
                      /\ \A b \in Clients : Touched(b, k)' => b = d
    BY DEF OneTouches, Carries
  <2>1. d # c /\ Touched(d, k)
    BY <1>3
  <2>2. ~ Touched(c, k) /\ ~ Carries(inbox[d], k)
    BY <2>1 DEF OneTouches
  <2>3. inbox'[d] = Append(inbox[d], p) /\ p.components[k] = None
    BY <1>1, <2>1, <2>2 DEF Forwards
  <2>4. ~ Carries(inbox'[d], k)
    BY <1>1, <1>4, <2>2, <2>3, CarriesAppend
  <2> QED BY <1>3, <2>1, <2>4 DEF OneTouches
<1>6. PICK fin \in [Clients -> Optional(Components)] :
        /\ \A b \in Clients : Leads(inbox[b], k, components[b][k], fin[b])
        /\ \A b, d \in Clients : ~ Touched(b, k) /\ ~ Touched(d, k) => Agree(fin[b], fin[d])
        /\ \A b \in Clients : dirty[b][k] # None /\ k \notin Elements(deletions[b]) =>
             \A d \in Clients \ {b} : Awaits(dirty[b][k], components[b][k], fin[d])
  BY DEF KeyAgrees
<1>7. CASE ~ Touched(c, k)
  <2>1. p.components[k] = None /\ components'[c][k] = components[c][k]
    BY <1>1, <1>2, <1>7 DEF Touched
  <2>2. ASSUME NEW d \in Clients PROVE Leads(inbox'[d], k, components'[d][k], fin[d])
    <3>1. CASE d = c
      BY <1>6, <2>1, <3>1 DEF Forwards
    <3>2. CASE d # c
      <4>1. PatchedComponent(fin[d], p.components[k]) = fin[d] /\ fin[d] \in Optional(Components)
        BY <1>6, <2>1, PatchedByNone
      <4>2. Leads(inbox[d], k, components[d][k], fin[d])
        BY <1>6
      <4>3. Leads(Append(inbox[d], p), k, components[d][k], fin[d])
        BY <1>1, <1>4, <2>1, <4>1, <4>2, LeadsAppend
      <4> QED BY <1>2, <3>2, <4>3 DEF Forwards
    <3> QED BY <3>1, <3>2
  <2>3. \A d \in Clients : Leads(inbox[d], k, components[d][k], fin[d])'
    BY <2>2 DEF Leads
  <2>4. \A b, d \in Clients : ~ Touched(b, k)' /\ ~ Touched(d, k)' => Agree(fin[b], fin[d])
    BY <1>3, <1>6, <1>7
  <2>5. \A b \in Clients : dirty'[b][k] # None /\ k \notin Elements(deletions'[b]) =>
          \A d \in Clients \ {b} : Awaits(dirty'[b][k], components'[b][k], fin[d])
    BY <1>2, <1>6
  <2>6. \A b, d \in Clients : ~ Touched(b, k)' /\ ~ Touched(d, k)' => Agree(fin[b], fin[d])'
    BY <2>4 DEF Agree
  <2>7. \A b \in Clients : dirty'[b][k] # None /\ k \notin Elements(deletions'[b]) =>
          \A d \in Clients \ {b} : Awaits(dirty[b][k], components[b][k], fin[d])'
    BY <2>5 DEF Awaits
  <2>8. KeyAgrees(k)'
    BY <2>3, <2>6, <2>7 DEF KeyAgrees
  <2> QED BY <1>5, <2>8
<1>8. CASE Touched(c, k)
  <2>1. ~ Carries(inbox[c], k) /\ \A d \in Clients \ {c} : ~ Touched(d, k)
    BY <1>8 DEF OneTouches
  <2>2. PICK item \in Optional(Items) : item = p.components[k]
    BY <1>1 DEF Patches
  <2>3. PICK new \in [Clients -> Optional(Components)] :
          /\ new[c] = components'[c][k]
          /\ \A d \in Clients \ {c} : new[d] = PatchedComponent(fin[d], item)
    <3> DEFINE f == [d \in Clients |-> IF d = c THEN components'[c][k]
                                       ELSE PatchedComponent(fin[d], item)]
    <3>1. \A d \in Clients : PatchedComponent(fin[d], item) \in Optional(Components)
      BY <1>6, <2>2, PatchedTyped
    <3>2. /\ f \in [Clients -> Optional(Components)] /\ f[c] = components'[c][k]
          /\ \A d \in Clients \ {c} : f[d] = PatchedComponent(fin[d], item)
      BY <1>2, <3>1
    <3> HIDE DEF f
    <3> QED BY <3>2
  <2>4. ASSUME \A d \in Clients \ {c} :
                 fin[d] = None \/ item.type \in {Deleted, fin[d].type},
               \A b, d \in Clients : Agree(new[b], new[d])
        PROVE  KeyAgrees(k)'
    <3>1. ASSUME NEW d \in Clients PROVE Leads(inbox'[d], k, components'[d][k], new[d])
      <4>1. CASE d = c
        BY <1>2, <1>4, <2>1, <2>3, <4>1, LeadsStill DEF Forwards
      <4>2. CASE d # c
        <5>1. /\ Leads(inbox[d], k, components[d][k], fin[d]) /\ fin[d] \in Optional(Components)
              /\ fin[d] = None \/ p.components[k].type \in {Deleted, fin[d].type}
          BY <1>6, <2>2, <2>4, <4>2
        <5>2. Leads(Append(inbox[d], p), k, components[d][k], new[d])
          BY <1>1, <1>4, <2>2, <2>3, <4>2, <5>1, LeadsAppend
        <5> QED BY <1>2, <4>2, <5>2 DEF Forwards
      <4> QED BY <4>1, <4>2
    <3>2. \A d \in Clients : Leads(inbox[d], k, components[d][k], new[d])'
      BY <3>1 DEF Leads
    <3>3. \A b \in Clients : dirty'[b][k] = None
      BY <1>2, <2>1 DEF Touched
    <3>4. \A b, d \in Clients : Agree(new[b], new[d])'
      BY <2>4 DEF Agree
    <3> QED BY <3>2, <3>3, <3>4 DEF KeyAgrees
  <2>5. CASE k \in Elements(deletions[c])
    <3>1. item = Blank /\ item.type = Deleted /\ new[c] = None
      BY <1>1, <1>2, <2>2, <2>3, <2>5 DEF Blank
    <3>2. \A d \in Clients : new[d] = None
      BY <1>6, <2>3, <3>1, PatchedByBlank
    <3>3. \A b, d \in Clients : Agree(new[b], new[d])
      BY <3>2, AgreeBasics
    <3> QED BY <1>5, <2>4, <3>1, <3>3
  <2>6. CASE k \notin Elements(deletions[c])
    <3>1. dirty[c][k] # None /\ item = DirtyObject(c, k) /\ item \in Components
      BY <1>1, <1>8, <2>2, <2>6 DEF Touched
    <3>2. \A d \in Clients \ {c} : Awaits(dirty[c][k], components[c][k], fin[d])
      BY <1>6, <2>6, <3>1
    <3>3. /\ dirty[c][k] \in DirtyComponents
          /\ dirty[c][k].update = "Add" => dirty[c][k].object # Shared
      BY <3>1, SameUpdate, DirtyKinds DEF Optional
    <3>4. /\ new[c] = item \/ Clients = {c}
          /\ \/ \A d \in Clients \ {c} : fin[d] = None
             \/ \A d \in Clients \ {c} : fin[d] # None /\ fin[d].type = item.type
      <4>1. CASE dirty[c][k].update = "Add"
        BY <1>2, <2>3, <2>6, <3>1, <3>2, <3>3, <4>1 DEF Awaits, DirtyObject
      <4>2. CASE dirty[c][k].update # "Add"
        <5>1. new[c] = components[c][k]
          BY <1>2, <2>3, <2>6, <4>2
        <5>2. CASE dirty[c][k].object = Shared
          BY <3>1, <3>2, <4>2, <5>1, <5>2 DEF Awaits, DirtyObject
        <5>3. CASE dirty[c][k].object # Shared
          BY <3>2, <4>2, <5>3 DEF Awaits
        <5> QED BY <5>2, <5>3
      <4> QED BY <4>1, <4>2
    <3>5. \A b, d \in Clients \ {c} : Agree(fin[b], fin[d])
      BY <1>6, <2>1
    <3>6. ASSUME NEW b \in Clients, NEW d \in Clients PROVE Agree(new[b], new[d])
      <4>1. CASE b = c /\ d = c
        BY <4>1, AgreeBasics
      <4>2. CASE b # c /\ d # c
        BY <1>6, <2>3, <3>1, <3>4, <3>5, <4>2, AgreeAfter
      <4>3. CASE b = c /\ d # c
        BY <1>6, <2>3, <3>1, <3>4, <3>5, <4>3, AgreeAfter
      <4>4. CASE b # c /\ d = c
        <5>1. Agree(new[d], new[b])
          BY <1>6, <2>3, <3>1, <3>4, <3>5, <4>4, AgreeAfter
        <5> QED BY <5>1, AgreeBasics
      <4> QED BY <4>1, <4>2, <4>3, <4>4
    <3>7. \A d \in Clients \ {c} : fin[d] = None \/ item.type \in {Deleted, fin[d].type}
      BY <3>4
    <3> QED BY <1>5, <2>4, <3>6, <3>7
  <2> QED BY <2>5, <2>6
<1> QED BY <1>7, <1>8

LEMMA SendStep ==
    ASSUME PatchesInv, NEW c \in Clients, SendPatch(c)
    PROVE  PatchesInv'
<1>1. TypeOK /\ SharedIsPresent /\ KeysInv /\ LockInv
  BY DEF PatchesInv
<1>2. PICK p : p = CreateObjectPatch(c)
  OBVIOUS
<1>3. /\ ApplyLocalPatch(c) /\ UNCHANGED <<nextId, changes>>
      /\ queued' = [queued EXCEPT ![c] = FALSE]
      /\ \/ /\ inbox' = [d \in Clients |-> IF d = c THEN inbox[d] ELSE Append(inbox[d], p)]
            /\ UNCHANGED <<disputed, lockDisputed>>
         \/ /\ disputed' = disputed \cup Carried(p)
            /\ lockDisputed' = (lockDisputed \/ p.lock # Clean)
            /\ UNCHANGED inbox
  BY <1>2 DEF SendPatch, history
<1>4. /\ p \in Patches /\ p.lock = dirtyLock[c]
      /\ \A k \in Keys : Touched(c, k) => p.components[k] # None
  BY <1>1, <1>2, PatchItems
<1>5. /\ components' \in [Clients -> [Keys -> Optional(Components)]]
      /\ dirty' \in [Clients -> [Keys -> Optional(DirtyComponents)]]
      /\ lock' \in [Clients -> LockTypes]
      /\ dirtyLock' \in [Clients -> LockTypes \cup {Clean}]
      /\ deletions' \in [Clients -> Seq(Keys)]
  BY <1>1, <1>3, Applied
<1>6. /\ \A d \in Clients \ {c} :
           /\ components'[d] = components[d] /\ dirty'[d] = dirty[d]
           /\ deletions'[d] = deletions[d]
           /\ lock'[d] = lock[d] /\ dirtyLock'[d] = dirtyLock[d]
      /\ \A k \in Keys :
           /\ dirty'[c][k] = None
           /\ components'[c][k] = IF k \in Elements(deletions[c]) THEN None
                                  ELSE IF dirty[c][k] # None /\ dirty[c][k].update = "Add"
                                  THEN dirty[c][k].object
                                  ELSE components[c][k]
      /\ Elements(deletions'[c]) = {}
      /\ dirtyLock'[c] = Clean
      /\ lock'[c] = IF dirtyLock[c] = Clean THEN lock[c] ELSE dirtyLock[c]
  BY <1>1, <1>3, Applied
<1>7. inbox \in [Clients -> Seq(Patches)] /\ \A d \in Clients : Append(inbox[d], p) \in Seq(Patches)
  <2>1. inbox \in [Clients -> Seq(Patches)]
    BY <1>1 DEF TypeOK
  <2> QED BY <1>4, <2>1, AppendProperties
<1>8. TypeOK'
  <2>1. inbox' \in [Clients -> Seq(Patches)]
    BY <1>3, <1>7
  <2>2. disputed' \subseteq Keys /\ lockDisputed' \in BOOLEAN /\ queued' \in [Clients -> BOOLEAN]
    BY <1>1, <1>3 DEF TypeOK, Carried
  <2> QED BY <1>1, <1>3, <1>5, <2>1, <2>2 DEF TypeOK
<1>9. SharedIsPresent'
  BY <1>1, <1>6 DEF SharedIsPresent
<1>10. CASE /\ inbox' = [d \in Clients |-> IF d = c THEN inbox[d] ELSE Append(inbox[d], p)]
            /\ UNCHANGED <<disputed, lockDisputed>>
  <2>1. Forwards(c, p)
    BY <1>10 DEF Forwards
  <2>2. ASSUME NEW k \in Keys, k \notin disputed', k < End PROVE OneTouches(k)' /\ KeyAgrees(k)'
    <3>1. OneTouches(k) /\ KeyAgrees(k)
      BY <1>1, <1>10, <2>2 DEF KeysInv
    <3> QED BY <1>1, <1>2, <1>3, <2>1, <3>1, SendKey
  <2>3. ASSUME ~ lockDisputed' PROVE OneLocks' /\ LockAgrees'
    <3>1. OneLocks /\ LockAgrees
      BY <1>1, <1>10, <2>3 DEF LockInv
    <3>2. PICK fin \in LockTypes : \A d \in Clients : LockLeads(inbox[d], lock[d], fin)
      BY <3>1 DEF LockAgrees
    <3>3. PICK new : new = IF dirtyLock[c] = Clean THEN fin ELSE dirtyLock[c]
      OBVIOUS
    <3>4. new \in LockTypes
      BY <1>1, <3>3 DEF TypeOK
    <3>5. ASSUME NEW d \in Clients PROVE LockLeads(inbox'[d], lock'[d], new)
      <4>1. CASE d # c
        <5>1. inbox'[d] = Append(inbox[d], p) /\ lock'[d] = lock[d]
          BY <1>6, <1>10, <4>1
        <5> QED BY <1>4, <1>7, <3>2, <3>3, <5>1, LockLeadsAppend
      <4>2. CASE d = c /\ dirtyLock[c] = Clean
        BY <1>6, <1>10, <3>2, <3>3, <4>2
      <4>3. CASE d = c /\ dirtyLock[c] # Clean
        BY <1>6, <1>10, <3>1, <3>3, <4>3 DEF OneLocks, LockLeads
      <4> QED BY <4>1, <4>2, <4>3
    <3>6. \A d \in Clients : LockLeads(inbox[d], lock[d], new)'
      BY <3>5 DEF LockLeads, CarriesLock
    <3>7. LockAgrees'
      BY <3>4, <3>6 DEF LockAgrees, LockLeads, CarriesLock
    <3>8. ASSUME NEW d \in Clients, dirtyLock'[d] # Clean
          PROVE  /\ ~ CarriesLock(inbox'[d])
                 /\ \A b \in Clients : dirtyLock'[b] # Clean => b = d
      <4>1. d # c /\ dirtyLock[d] # Clean
        BY <1>6, <3>8
      <4>2. dirtyLock[c] = Clean /\ ~ CarriesLock(inbox[d])
        BY <3>1, <4>1 DEF OneLocks
      <4>3. inbox'[d] = Append(inbox[d], p) /\ p.lock = Clean /\ inbox[d] \in Seq(Patches)
        BY <1>4, <1>7, <1>10, <4>1, <4>2
      <4>4. 0 \in Keys
        BY EndAssumption DEF Keys
      <4>5. ~ CarriesLock(inbox'[d])
        BY <1>4, <4>2, <4>3, <4>4, CarriesAppend
      <4> QED BY <1>6, <3>1, <4>1, <4>5 DEF OneLocks
    <3>9. OneLocks'
      BY <3>8 DEF OneLocks, CarriesLock
    <3> QED BY <3>7, <3>9
  <2> QED BY <1>8, <1>9, <2>2, <2>3 DEF PatchesInv, KeysInv, LockInv
<1>11. CASE /\ disputed' = disputed \cup Carried(p)
            /\ lockDisputed' = (lockDisputed \/ p.lock # Clean)
            /\ UNCHANGED inbox
  <2>1. ASSUME NEW k \in Keys, k \notin disputed', k < End PROVE OneTouches(k)' /\ KeyAgrees(k)'
    <3>1. OneTouches(k) /\ KeyAgrees(k)
      BY <1>1, <1>11, <2>1 DEF KeysInv
    <3>2. dirty[c][k] = None /\ k \notin Elements(deletions[c])
      BY <1>4, <1>11, <2>1 DEF Carried, Touched
    <3>3. \A d \in Clients : SameAt(d, k)
      BY <1>6, <3>2 DEF SameAt
    <3> QED BY <1>11, <3>1, <3>3, KeyFrame
  <2>2. ASSUME ~ lockDisputed' PROVE OneLocks' /\ LockAgrees'
    <3>1. dirtyLock[c] = Clean /\ ~ lockDisputed
      BY <1>4, <1>11, <2>2
    <3>2. lock' = lock /\ dirtyLock' = dirtyLock
      BY <1>1, <1>5, <1>6, <3>1 DEF TypeOK
    <3>3. OneLocks /\ LockAgrees
      BY <1>1, <3>1 DEF LockInv
    <3> QED BY <1>11, <3>2, <3>3 DEF OneLocks, LockAgrees, LockLeads, CarriesLock
  <2> QED BY <1>8, <1>9, <2>1, <2>2 DEF PatchesInv, KeysInv, LockInv
<1> QED BY <1>3, <1>10, <1>11

----------------------------------------------------------------------------
(***************************************************************************)
(* Receiving a patch.                                                      *)
(***************************************************************************)

\* What the receiver has after it has applied the first patch of its queue.
LEMMA Received ==
    ASSUME TypeOK, SharedIsPresent, NEW c \in Clients, ReceivePatch(c)
    PROVE  /\ TypeOK' /\ SharedIsPresent'
           /\ inbox[c] # <<>> /\ inbox[c] \in Seq(Patches)
           /\ inbox'[c] = Tail(inbox[c])
           /\ lock'[c] = IF Head(inbox[c]).lock = Clean THEN lock[c] ELSE Head(inbox[c]).lock
           /\ \A d \in Clients \ {c} :
                /\ components'[d] = components[d] /\ dirty'[d] = dirty[d]
                /\ inbox'[d] = inbox[d] /\ lock'[d] = lock[d]
           /\ \A k \in Keys :
                /\ components'[c][k] =
                     IF k < End THEN PatchedComponent(components[c][k], Head(inbox[c]).components[k])
                     ELSE components[c][k]
                /\ dirty'[c][k] = PatchedDirty(dirty[c][k], components[c][k], components'[c][k])
<1>1. PICK p : p = Head(inbox[c])
  OBVIOUS
<1>2. PICK new : new = [k \in Keys |-> IF k < End
                                       THEN PatchedComponent(components[c][k], p.components[k])
                                       ELSE components[c][k]]
  OBVIOUS
<1>3. PICK e : e = [k \in Keys |-> PatchedDirty(dirty[c][k], components[c][k], new[k])]
  OBVIOUS
<1>4. /\ inbox[c] # <<>>
      /\ components' = [components EXCEPT ![c] = new]
      /\ dirty' = [dirty EXCEPT ![c] = e]
      /\ lock' = [lock EXCEPT ![c] = IF p.lock = Clean THEN lock[c] ELSE p.lock]
      /\ inbox' = [inbox EXCEPT ![c] = Tail(inbox[c])]
      /\ UNCHANGED <<nextId, dirtyLock, deletions, queued, changes, disputed, lockDisputed>>
  BY <1>1, <1>2, <1>3 DEF ReceivePatch, history
<1>5. inbox[c] \in Seq(Patches)
  BY DEF TypeOK
<1>6. Tail(inbox[c]) \in Seq(Patches) /\ p \in Patches
  <2>1. 0 \in Keys
    BY EndAssumption DEF Keys
  <2> QED BY <1>1, <1>4, <1>5, <2>1, CarriesTail
<1>7. ASSUME NEW k \in Keys
      PROVE  /\ new[k] \in Optional(Components)
             /\ e[k] \in Optional(DirtyComponents)
             /\ e[k] # None /\ e[k].object = Shared => new[k] # None
  <2>1. components[c][k] \in Optional(Components) /\ dirty[c][k] \in Optional(DirtyComponents)
    BY SameUpdate
  <2>2. p.components[k] \in Optional(Items)
    BY <1>6 DEF Patches
  <2>3. new[k] \in Optional(Components)
    BY <1>2, <2>1, <2>2, PatchedTyped
  <2>4. CASE dirty[c][k] # None /\ dirty[c][k].object = Shared /\ new[k] = None
    <3>1. components[c][k] \in Components /\ dirty[c][k] \in DirtyComponents
      BY <2>1, <2>4 DEF SharedIsPresent, Optional
    <3>2. e[k] = [dirty[c][k] EXCEPT !.object = components[c][k]]
      BY <1>3, <2>4 DEF PatchedDirty
    <3>3. dirty[c][k].update = "Update"
      BY <2>4, <3>1, DirtyKinds
    <3>4. e[k] \in DirtyComponents /\ e[k].object = components[c][k]
      BY <3>1, <3>2, <3>3 DEF DirtyComponents
    <3> QED BY <2>3, <3>1, <3>4, Sentinels DEF Optional
  <2>5. CASE ~ (dirty[c][k] # None /\ dirty[c][k].object = Shared /\ new[k] = None)
    <3>1. e[k] = dirty[c][k]
      BY <1>3, <2>5 DEF PatchedDirty
    <3> QED BY <2>1, <2>3, <2>5, <3>1
  <2> QED BY <2>4, <2>5
<1>8. new \in [Keys -> Optional(Components)] /\ e \in [Keys -> Optional(DirtyComponents)]
  BY <1>2, <1>3, <1>7
<1>9. /\ components' \in [Clients -> [Keys -> Optional(Components)]]
      /\ dirty' \in [Clients -> [Keys -> Optional(DirtyComponents)]]
      /\ components'[c] = new /\ dirty'[c] = e
      /\ \A d \in Clients \ {c} : components'[d] = components[d] /\ dirty'[d] = dirty[d]
  BY <1>4, <1>8 DEF TypeOK
<1>10. /\ lock' \in [Clients -> LockTypes] /\ inbox' \in [Clients -> Seq(Patches)]
       /\ inbox'[c] = Tail(inbox[c])
       /\ lock'[c] = IF p.lock = Clean THEN lock[c] ELSE p.lock
       /\ \A d \in Clients \ {c} : inbox'[d] = inbox[d] /\ lock'[d] = lock[d]
  BY <1>4, <1>6 DEF TypeOK, Patches
<1>11. TypeOK'
  BY <1>4, <1>9, <1>10 DEF TypeOK
<1>12. SharedIsPresent'
  BY <1>7, <1>9 DEF SharedIsPresent
<1> QED BY <1>1, <1>2, <1>3, <1>4, <1>5, <1>9, <1>10, <1>11, <1>12

LEMMA ReceiveStep ==
    ASSUME PatchesInv, NEW c \in Clients, ReceivePatch(c)
    PROVE  PatchesInv'
<1>1. TypeOK /\ SharedIsPresent /\ KeysInv /\ LockInv
  BY DEF PatchesInv
<1>2. /\ TypeOK' /\ SharedIsPresent'
      /\ inbox[c] # <<>> /\ inbox[c] \in Seq(Patches)
      /\ inbox'[c] = Tail(inbox[c])
      /\ lock'[c] = IF Head(inbox[c]).lock = Clean THEN lock[c] ELSE Head(inbox[c]).lock
      /\ \A d \in Clients \ {c} :
           /\ components'[d] = components[d] /\ dirty'[d] = dirty[d]
           /\ inbox'[d] = inbox[d] /\ lock'[d] = lock[d]
      /\ \A k \in Keys :
           /\ components'[c][k] =
                IF k < End THEN PatchedComponent(components[c][k], Head(inbox[c]).components[k])
                ELSE components[c][k]
           /\ dirty'[c][k] = PatchedDirty(dirty[c][k], components[c][k], components'[c][k])
  BY <1>1, Received
<1>3. UNCHANGED <<dirtyLock, deletions, disputed, lockDisputed>>
  BY DEF ReceivePatch, history
<1>4. ASSUME NEW k \in Keys, k \notin disputed', k < End PROVE OneTouches(k)' /\ KeyAgrees(k)'
  <2>1. OneTouches(k) /\ KeyAgrees(k)
    BY <1>1, <1>3, <1>4 DEF KeysInv
  <2>2. PICK item : item = Head(inbox[c]).components[k]
    OBVIOUS
  <2>3. components'[c][k] = PatchedComponent(components[c][k], item)
    BY <1>2, <1>4, <2>2
  <2>4. /\ item # None => Carries(inbox[c], k)
        /\ Carries(inbox'[c], k) => Carries(inbox[c], k)
    BY <1>2, <2>2, CarriesTail
  <2>5. Touched(c, k) => components'[c][k] = components[c][k]
    BY <2>1, <2>3, <2>4, PatchedByNone DEF OneTouches
  <2>6. dirty'[c][k] = dirty[c][k]
    <3>1. CASE dirty[c][k] = None
      BY <1>2, <3>1 DEF PatchedDirty
    <3>2. CASE dirty[c][k] # None
      <4>1. components'[c][k] = components[c][k]
        BY <2>5, <3>2 DEF Touched
      <4> QED BY <1>1, <1>2, <3>2, <4>1 DEF PatchedDirty, SharedIsPresent
    <3> QED BY <3>1, <3>2
  <2>7. \A d \in Clients : dirty'[d][k] = dirty[d][k]
    BY <1>2, <2>6
  <2>8. \A d \in Clients : Touched(d, k)' <=> Touched(d, k)
    BY <1>3, <2>7 DEF Touched
  <2>9. ASSUME NEW d \in Clients, Touched(d, k)' PROVE ~ Carries(inbox'[d], k)
    <3>1. ~ Carries(inbox[d], k)
      BY <2>1, <2>8, <2>9 DEF OneTouches
    <3> QED BY <1>2, <2>4, <3>1
  <2>10. OneTouches(k)'
    BY <2>1, <2>8, <2>9 DEF OneTouches, Carries
  <2>11. PICK fin \in [Clients -> Optional(Components)] :
        /\ \A b \in Clients : Leads(inbox[b], k, components[b][k], fin[b])
        /\ \A b, d \in Clients : ~ Touched(b, k) /\ ~ Touched(d, k) => Agree(fin[b], fin[d])
        /\ \A b \in Clients : dirty[b][k] # None /\ k \notin Elements(deletions[b]) =>
             \A d \in Clients \ {b} : Awaits(dirty[b][k], components[b][k], fin[d])
    BY <2>1 DEF KeyAgrees
  <2>12. ASSUME NEW d \in Clients PROVE Leads(inbox'[d], k, components'[d][k], fin[d])
    <3>1. CASE d = c
      <4>1. Leads(inbox[c], k, components[c][k], fin[c])
        BY <2>11
      <4>2. Leads(Tail(inbox[c]), k, PatchedComponent(components[c][k], Head(inbox[c]).components[k]), fin[c])
        BY <1>2, <4>1, LeadsTail
      <4> QED BY <1>2, <2>2, <2>3, <3>1, <4>2
    <3>2. CASE d # c
      BY <1>2, <2>11, <3>2
    <3> QED BY <3>1, <3>2
  <2>13. \A d \in Clients : Leads(inbox[d], k, components[d][k], fin[d])'
    BY <2>12 DEF Leads
  <2>14. \A b, d \in Clients : ~ Touched(b, k)' /\ ~ Touched(d, k)' => Agree(fin[b], fin[d])
    BY <2>8, <2>11
  <2>15. ASSUME NEW b \in Clients, dirty'[b][k] # None, k \notin Elements(deletions'[b]),
                NEW d \in Clients \ {b}
         PROVE  Awaits(dirty'[b][k], components'[b][k], fin[d])
    <3>1. dirty[b][k] # None /\ k \notin Elements(deletions[b]) /\ dirty'[b][k] = dirty[b][k]
      BY <1>3, <2>7, <2>15
    <3>2. components'[b][k] = components[b][k]
      BY <1>2, <2>5, <3>1 DEF Touched
    <3> QED BY <2>11, <3>1, <3>2
  <2>16. \A b, d \in Clients : ~ Touched(b, k)' /\ ~ Touched(d, k)' => Agree(fin[b], fin[d])'
    BY <2>14 DEF Agree
  <2>17. \A b \in Clients : dirty'[b][k] # None /\ k \notin Elements(deletions'[b]) =>
            \A d \in Clients \ {b} : Awaits(dirty[b][k], components[b][k], fin[d])'
    BY <2>15 DEF Awaits
  <2>18. KeyAgrees(k)'
    BY <2>13, <2>16, <2>17 DEF KeyAgrees
  <2> QED BY <2>10, <2>18
<1>5. ASSUME ~ lockDisputed' PROVE OneLocks' /\ LockAgrees'
  <2>1. OneLocks /\ LockAgrees
    BY <1>1, <1>3, <1>5 DEF LockInv
  <2>2. 0 \in Keys
    BY EndAssumption DEF Keys
  <2>3. CarriesLock(inbox'[c]) => CarriesLock(inbox[c])
    BY <1>2, <2>2, CarriesTail
  <2>4. ASSUME NEW d \in Clients, dirtyLock'[d] # Clean PROVE ~ CarriesLock(inbox'[d])
    <3>1. ~ CarriesLock(inbox[d])
      BY <1>3, <2>1, <2>4 DEF OneLocks
    <3> QED BY <1>2, <2>3, <3>1
  <2>5. OneLocks'
    BY <1>3, <2>1, <2>4 DEF OneLocks, CarriesLock
  <2>6. PICK fin \in LockTypes : \A d \in Clients : LockLeads(inbox[d], lock[d], fin)
    BY <2>1 DEF LockAgrees
  <2>7. ASSUME NEW d \in Clients PROVE LockLeads(inbox'[d], lock'[d], fin)
    <3>1. CASE d = c
      <4>1. LockLeads(inbox[c], lock[c], fin)
        BY <2>6
      <4>2. LockLeads(Tail(inbox[c]), IF Head(inbox[c]).lock = Clean THEN lock[c] ELSE Head(inbox[c]).lock, fin)
        BY <1>2, <4>1, LockLeadsTail
      <4> QED BY <1>2, <3>1, <4>2
    <3>2. CASE d # c
      BY <1>2, <2>6, <3>2
    <3> QED BY <3>1, <3>2
  <2>8. \A d \in Clients : LockLeads(inbox[d], lock[d], fin)'
    BY <2>7 DEF LockLeads, CarriesLock
  <2>9. LockAgrees'
    BY <2>8 DEF LockAgrees, LockLeads, CarriesLock
  <2> QED BY <2>5, <2>9
<1> QED BY <1>2, <1>4, <1>5 DEF PatchesInv, KeysInv, LockInv

----------------------------------------------------------------------------
(***************************************************************************)
(* The theorems.                                                           *)
(***************************************************************************)

\* The invariant holds when the entity was created.
LEMMA PatchesInit == Init => PatchesInv
<1> SUFFICES ASSUME Init PROVE PatchesInv
  OBVIOUS
<1>1. \A c \in Clients, k \in Keys :
        /\ components[c][k] = None /\ dirty[c][k] = None
        /\ deletions[c] = <<>> /\ inbox[c] = <<>>
        /\ lock[c] = "None" /\ dirtyLock[c] = Clean
  BY DEF Init
<1>2. TypeOK
  <2>1. /\ components \in [Clients -> [Keys -> Optional(Components)]]
        /\ dirty \in [Clients -> [Keys -> Optional(DirtyComponents)]]
    BY DEF Init, Optional
  <2>2. deletions \in [Clients -> Seq(Keys)] /\ inbox \in [Clients -> Seq(Patches)]
    BY EmptySeq DEF Init
  <2>3. /\ lock \in [Clients -> LockTypes] /\ dirtyLock \in [Clients -> LockTypes \cup {Clean}]
        /\ queued \in [Clients -> BOOLEAN] /\ lockDisputed \in BOOLEAN /\ disputed \subseteq Keys
    BY DEF Init, LockTypes
  <2>4. nextId \in [Clients -> 0 .. MaxId + 1] /\ changes \in 0 .. MaxChanges
    BY EndAssumption, BoundsAssumption DEF Init
  <2> QED BY <2>1, <2>2, <2>3, <2>4 DEF TypeOK
<1>3. SharedIsPresent
  BY <1>1 DEF SharedIsPresent
<1>4. ASSUME NEW k \in Keys PROVE OneTouches(k) /\ KeyAgrees(k)
  <2>1. \A c \in Clients : ~ Touched(c, k) /\ ~ Carries(inbox[c], k) /\ inbox[c] \in Seq(Patches)
    BY <1>1, <1>2, ElementsEmpty DEF Touched, Carries, TypeOK
  <2>2. PICK fin \in [Clients -> Optional(Components)] : \A c \in Clients : fin[c] = None
    <3> DEFINE f == [c \in Clients |-> None]
    <3>1. f \in [Clients -> Optional(Components)] /\ \A c \in Clients : f[c] = None
      BY DEF Optional
    <3> QED BY <3>1
  <2>3. \A c \in Clients : Leads(inbox[c], k, components[c][k], fin[c])
    <3>1. None \in Optional(Components)
      BY DEF Optional
    <3> QED BY <1>1, <2>1, <2>2, <3>1, LeadsStill
  <2>4. KeyAgrees(k)
    BY <1>1, <2>2, <2>3, AgreeBasics DEF KeyAgrees
  <2> QED BY <2>1, <2>4 DEF OneTouches
<1>5. OneLocks /\ LockAgrees
  <2>1. \A c \in Clients : lock[c] = "None" /\ dirtyLock[c] = Clean /\ inbox[c] = <<>>
    BY DEF Init
  <2>2. \A c \in Clients : ~ CarriesLock(inbox[c])
    BY <2>1 DEF CarriesLock
  <2>3. "None" \in LockTypes
    BY DEF LockTypes
  <2> QED BY <2>1, <2>2, <2>3 DEF OneLocks, LockAgrees, LockLeads
<1> QED BY <1>2, <1>3, <1>4, <1>5 DEF PatchesInv, KeysInv, LockInv

\* Every step keeps the invariant.
LEMMA PatchesStep == PatchesInv /\ [Next]_vars => PatchesInv'
<1> SUFFICES ASSUME PatchesInv, [Next]_vars PROVE PatchesInv'
  OBVIOUS
<1>1. CASE UNCHANGED vars
  <2>1. UNCHANGED <<components, lock, nextId, dirty, dirtyLock, deletions, queued, inbox,
                    changes, disputed, lockDisputed>>
    BY <1>1 DEF vars, entity, patcher, history
  <2>2. TypeOK' /\ SharedIsPresent'
    BY <2>1 DEF PatchesInv, TypeOK, SharedIsPresent
  <2>3. ASSUME NEW k \in Keys, k \notin disputed', k < End PROVE OneTouches(k)' /\ KeyAgrees(k)'
    <3>1. OneTouches(k) /\ KeyAgrees(k)
      BY <2>1, <2>3 DEF PatchesInv, KeysInv
    <3>2. \A d \in Clients : SameAt(d, k)
      BY <2>1 DEF SameAt
    <3> QED BY <2>1, <3>1, <3>2, KeyFrame
  <2>4. LockInv'
    BY <2>1, LockFrame DEF PatchesInv
  <2> QED BY <2>2, <2>3, <2>4 DEF PatchesInv, KeysInv
<1>2. ASSUME NEW c \in Clients, NEW k \in Keys, NEW v \in Values, SetPropertyDirect(c, k, v)
      PROVE  PatchesInv'
  <2>1. v \in Optional(Values)
    BY DEF Optional
  <2> QED BY <1>2, <2>1, ChangeStep, ChangePendingStep DEF SetPropertyDirect
<1>3. ASSUME NEW c \in Clients, NEW k \in Keys, RemoveProperty(c, k)
      PROVE  PatchesInv'
  <2>1. None \in Optional(Values)
    BY DEF Optional
  <2> QED BY <1>3, <2>1, ChangeStep, ChangePendingStep DEF RemoveProperty
<1>4. ASSUME NEW c \in Clients, Lock(c) \/ Unlock(c) PROVE PatchesInv'
  BY <1>4, LockStep DEF Lock, Unlock, LockTypes
<1> QED BY <1>1, <1>2, <1>3, <1>4, AddStep, RemoveStep, QueueStep, SendStep, ReceiveStep DEF Next

\* The invariant holds of every behaviour of the clients.
THEOREM PatchesInvariant == Spec => []PatchesInv
  BY PatchesInit, PatchesStep, PTL DEF Spec

\* Components, dirty components and patches stay well formed: an update that
\* loses its component to another client's deletion keeps an object to send.
THEOREM PatchesAreTyped == Spec => []TypeOK
<1>1. PatchesInv => TypeOK
  BY DEF PatchesInv
<1> QED BY <1>1, PatchesInvariant, PTL

\* Once every change was sent and applied, all clients hold the same components
\* and the same lock, but where they changed the same thing at a time or a call
\* failed, for any number of clients, keys, changes and patches in flight: as
\* long as GenerateComponentId does not hand out the id End, whose component the
\* other clients do not receive.
THEOREM ReplicasAlwaysAgree ==
    ASSUME MaxId < End
    PROVE  Spec => []ReplicasAgree
<1>1. PatchesInv => ReplicasAgree
  <2> SUFFICES ASSUME PatchesInv, Settled, NEW c \in Clients, NEW d \in Clients
               PROVE  /\ \A k \in Keys \ disputed : Agree(components[c][k], components[d][k])
                      /\ ~ lockDisputed => lock[c] = lock[d]
    BY DEF ReplicasAgree
  <2>1. \A b \in Clients : /\ \A k \in Keys : ~ Touched(b, k)
                           /\ inbox[b] = <<>> /\ inbox[b] \in Seq(Patches)
    BY ElementsEmpty DEF Settled, HasPendingPatch, DirtyKeys, Touched, PatchesInv, TypeOK
  <2>2. ASSUME NEW k \in Keys \ disputed PROVE Agree(components[c][k], components[d][k])
    <3>1. k \in Keys /\ k < End
      BY EndAssumption DEF Keys
    <3>2. PICK fin \in [Clients -> Optional(Components)] :
            /\ \A b \in Clients : Leads(inbox[b], k, components[b][k], fin[b])
            /\ \A a, b \in Clients : ~ Touched(a, k) /\ ~ Touched(b, k) => Agree(fin[a], fin[b])
      BY <3>1 DEF PatchesInv, KeysInv, KeyAgrees
    <3>3. ASSUME NEW b \in Clients PROVE fin[b] = components[b][k]
      <4>1. ~ Carries(inbox[b], k)
        BY <2>1 DEF Carries
      <4>2. components[b][k] \in Optional(Components)
        BY DEF PatchesInv, TypeOK
      <4> QED BY <2>1, <3>1, <3>2, <4>1, <4>2, LeadsClear
    <3> QED BY <2>1, <3>1, <3>2, <3>3
  <2>3. ASSUME ~ lockDisputed PROVE lock[c] = lock[d]
    <3>1. PICK fin \in LockTypes : \A b \in Clients : LockLeads(inbox[b], lock[b], fin)
      BY <2>3 DEF PatchesInv, LockInv, LockAgrees
    <3>2. \A b \in Clients : DOMAIN inbox[b] = {}
      BY <2>1
    <3> QED BY <3>1, <3>2 DEF LockLeads
  <2> QED BY <2>2, <2>3
<1> QED BY <1>1, PatchesInvariant, PTL

\* Which steps change components.
LEMMA WhoChanges ==
    ASSUME Next
    PROVE  \/ components' = components
           \/ \E c \in Clients, k \in Keys, v \in Optional(Values) :
                ChangeProperty(c, k, v) /\ (v = None \/ IsModifiable(c))
           \/ \E c \in Clients : SendPatch(c)
           \/ \E c \in Clients : ReceivePatch(c)
<1>1. ASSUME NEW c \in Clients, NEW k \in Keys, NEW v \in Values, SetPropertyDirect(c, k, v)
      PROVE  \/ components' = components
             \/ v \in Optional(Values) /\ ChangeProperty(c, k, v) /\ IsModifiable(c)
  BY <1>1 DEF SetPropertyDirect, ChangePendingProperty, entity, Optional
<1>2. ASSUME NEW c \in Clients, NEW k \in Keys, RemoveProperty(c, k)
      PROVE  \/ components' = components
             \/ None \in Optional(Values) /\ ChangeProperty(c, k, None)
  BY <1>2 DEF RemoveProperty, ChangePendingProperty, entity, Optional
<1>3. ASSUME NEW c \in Clients,
             \/ \E t \in Types : AddComponent(c, t)
             \/ \E k \in Keys : RemoveComponent(c, k)
             \/ Lock(c) \/ Unlock(c) \/ QueueEntityUpdate(c) \/ SkipPatch(c)
      PROVE  components' = components
  BY <1>3 DEF AddComponent, RemoveComponent, Lock, Unlock, SetDirtyLock, QueueEntityUpdate, SkipPatch, entity
<1> QED BY <1>1, <1>2, <1>3 DEF Next

\* The component of a changed property.
LEMMA PropertyChanged ==
    ASSUME TypeOK, NEW c \in Clients, NEW k \in Keys, NEW v \in Optional(Values), ChangeProperty(c, k, v)
    PROVE  /\ components'[c][k] = [components[c][k] EXCEPT !.value = v]
           /\ components'[c][k] # None
           /\ \A d \in Clients, j \in Keys : d # c \/ j # k => components'[d][j] = components[d][j]
<1>1. PICK x : x = [components[c][k] EXCEPT !.value = v]
  OBVIOUS
<1>2. components[c][k] \in Components
  BY SameUpdate DEF ChangeProperty, Optional
<1>3. x # None
  BY <1>1, <1>2, Sentinels DEF Components, Optional
<1>4. /\ components' = [components EXCEPT ![c] = [components[c] EXCEPT ![k] = x]]
      /\ components \in [Clients -> [Keys -> Optional(Components)]]
  BY <1>1 DEF ChangeProperty, TypeOK
<1> QED BY <1>1, <1>3, <1>4

\* A component nobody disputes disappears from a client only by its own removal
\* or by a patch that deletes it, never because a patch carries a component of
\* another type under its key.
THEOREM OnlyRemovedVanish == Spec => OnlyRemovedComponentsVanish
<1>1. ASSUME PatchesInv, Next, NEW c \in Clients, NEW k \in Keys \ disputed,
             components[c][k] # None, components'[c][k] = None
      PROVE  \/ k \in Elements(deletions[c])
             \/ inbox[c] # <<>> /\ Head(inbox[c]).components[k] # None
                               /\ Head(inbox[c]).components[k].type = Deleted
  <2>1. TypeOK /\ SharedIsPresent /\ components' # components /\ k \in Keys
    BY <1>1 DEF PatchesInv
  <2>2. ASSUME NEW b \in Clients, NEW j \in Keys, NEW v \in Optional(Values), ChangeProperty(b, j, v)
        PROVE  FALSE
    <3>1. /\ components'[b][j] # None
          /\ \A d \in Clients, i \in Keys : d # b \/ i # j => components'[d][i] = components[d][i]
      BY <2>1, <2>2, PropertyChanged
    <3> QED BY <1>1, <2>1, <3>1
  <2>3. ASSUME NEW b \in Clients, SendPatch(b) PROVE k \in Elements(deletions[c])
    <3>1. ApplyLocalPatch(b)
      BY <2>3 DEF SendPatch
    <3>2. /\ \A d \in Clients \ {b} : components'[d] = components[d]
          /\ components'[b][k] = IF k \in Elements(deletions[b]) THEN None
                                 ELSE IF dirty[b][k] # None /\ dirty[b][k].update = "Add"
                                 THEN dirty[b][k].object
                                 ELSE components[b][k]
      BY <2>1, <3>1, Applied
    <3>3. dirty[b][k] # None /\ dirty[b][k].update = "Add" => dirty[b][k].object # None
      BY <2>1, SameUpdate, DirtyKinds, Sentinels DEF Optional
    <3>4. b = c
      BY <1>1, <3>2
    <3> QED BY <1>1, <3>2, <3>3, <3>4
  <2>4. ASSUME NEW b \in Clients, ReceivePatch(b)
        PROVE  inbox[c] # <<>> /\ Head(inbox[c]).components[k] # None
                               /\ Head(inbox[c]).components[k].type = Deleted
    <3>1. /\ inbox[b] # <<>> /\ inbox[b] \in Seq(Patches)
          /\ \A d \in Clients \ {b} : components'[d] = components[d]
          /\ components'[b][k] =
               IF k < End THEN PatchedComponent(components[b][k], Head(inbox[b]).components[k])
               ELSE components[b][k]
      BY <2>1, <2>4, Received
    <3>2. b = c
      BY <1>1, <3>1
    <3>3. k < End /\ PatchedComponent(components[c][k], Head(inbox[c]).components[k]) = None
      BY <1>1, <3>1, <3>2
    <3>4. PICK fin : Leads(inbox[c], k, components[c][k], fin)
      BY <1>1, <2>1, <3>3 DEF PatchesInv, KeysInv, KeyAgrees
    <3>5. Head(inbox[c]).components[k].type = Deleted
      BY <1>1, <2>1, <3>1, <3>2, <3>3, <3>4, LeadsTail
    <3>6. Head(inbox[c]).components[k] # None
      BY <1>1, <3>3, PatchedByNone
    <3> QED BY <3>1, <3>2, <3>5, <3>6
  <2> QED BY <1>1, <2>1, <2>2, <2>3, <2>4, WhoChanges
<1>2. PatchesInv /\ [Next]_vars =>
        [\A c \in Clients : \A k \in Keys \ disputed :
            components[c][k] # None /\ components'[c][k] = None =>
                \/ k \in Elements(deletions[c])
                \/ inbox[c] # <<>> /\ Head(inbox[c]).components[k] # None
                                  /\ Head(inbox[c]).components[k].type = Deleted]_vars
  BY <1>1
<1> QED BY <1>2, PatchesInvariant, PTL DEF Spec, OnlyRemovedComponentsVanish

\* While everyone has the entity locked, nobody is unlocking it and no patch is
\* in flight, no component changes but by RemoveProperty, which does not ask
\* whether the entity can be modified.
THEOREM LockAlwaysHolds == Spec => LockHolds
<1>1. ASSUME PatchesInv, Next,
             \A c \in Clients : lock[c] # "None" /\ dirtyLock[c] = Clean /\ inbox[c] = <<>>,
             NEW c \in Clients, NEW k \in Keys, components'[c][k] # components[c][k]
      PROVE  components'[c][k] = [components[c][k] EXCEPT !.value = None]
  <2>1. \A d \in Clients : ~ IsModifiable(d)
    BY <1>1 DEF IsModifiable
  <2>2. ASSUME NEW b \in Clients, NEW j \in Keys, ChangeProperty(b, j, None), None \in Optional(Values)
        PROVE  components'[c][k] = [components[c][k] EXCEPT !.value = None]
    <3>1. /\ components'[b][j] = [components[b][j] EXCEPT !.value = None]
          /\ \A d \in Clients, i \in Keys : d # b \/ i # j => components'[d][i] = components[d][i]
      BY <1>1, <2>2, PropertyChanged DEF PatchesInv
    <3> QED BY <1>1, <3>1
  <2>3. ASSUME NEW b \in Clients PROVE ~ SendPatch(b) /\ ~ ReceivePatch(b)
    BY <1>1, <2>1 DEF SendPatch, ReceivePatch
  <2> QED BY <1>1, <2>1, <2>2, <2>3, WhoChanges
<1>2. PatchesInv /\ [Next]_vars =>
        [(\A c \in Clients : lock[c] # "None" /\ dirtyLock[c] = Clean /\ inbox[c] = <<>>)
         => \A c \in Clients : \A k \in Keys :
              components'[c][k] # components[c][k] =>
                  components'[c][k] = [components[c][k] EXCEPT !.value = None]]_vars
  BY <1>1
<1> QED BY <1>2, PatchesInvariant, PTL DEF Spec, LockHolds
=============================================================================
