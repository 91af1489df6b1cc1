----------------------- MODULE ConversationCallsProofs -----------------------
(***************************************************************************)
(* Proofs about ConversationCalls, for every number of calls, of overlaps  *)
(* and of failures.                                                        *)
(*                                                                         *)
(* Two calls that meet know of it (Met); a call holds only assets of its   *)
(* own collection (Progress); and what a call that has met no other knows  *)
(* of its collection is still true (Whole).  The steps of the calls it     *)
(* does not meet leave its collection as it is (Same).                     *)
(***************************************************************************)
EXTENDS ConversationCalls, FiniteSetTheorems, TLAPS

Editing == Updates \cup Settings \cup Unsettings

\* Two calls under way that meet are both known not to be alone, and their
\* collections to be raced.
Met ==
    /\ \A b, c \in Calls :
         (b # c /\ Active(b) /\ Active(c) /\ Meet(call[b].op, call[c].op)) => ~call[b].alone
    /\ \A c \in Calls : (Active(c) /\ ~call[c].alone) => K(c) \in raced

\* a is an asset of the kind on the collection k, there or not.
Asset(k, kind, a) == a \in DOMAIN assets /\ assets[a].on = k /\ assets[a].kind = kind

\* What a call under way has gathered at each place of its chain.
Progress(c) ==
    Active(c) =>
        LET r == call[c] IN
        /\ r.at <= Len(Chain(r.op))
        /\ (r.op \in Editing /\ r.at >= 2) => r.read \in Metadata
        /\ (r.op \in Editing /\ r.at >= 2 /\ ~(r.op \in Unsettings /\ r.at \in {3, 4}))
             => r.copy \in Metadata
        /\ (r.op \in Settings /\ r.at >= 4) => Asset(K(c), "image", r.image)
        /\ (r.op \in Settings /\ r.at >= 7) => Asset(K(c), "thumbnail", r.thumbnail)
        /\ (r.op \in Unsettings /\ r.at >= 5) => Asset(K(c), "image", r.image)
        /\ (r.op \in Unsettings /\ r.at >= 7) => Asset(K(c), "thumbnail", r.thumbnail)
        /\ (r.op \in Deletions /\ r.at >= 3) => K(c) \in announced

\* What the creation, or the update of a text, by a lone call has done.
WholeText(c, r, data) ==
    /\ (r.op \in Creations /\ r.at >= 2) => data.text = c
    /\ (r.op \in Updates /\ r.at = 2) => r.copy = r.read /\ data.annotation = r.read.annotation
    /\ (r.op \in Updates /\ r.at >= 3) => data.text = c /\ data.annotation = r.read.annotation

\* The assets of the kind on the collection k are at most n and the surplus.
Few(k, kind, n) == Cardinality(Found(k, kind)) <= n + surplus[k][kind]

\* What the setting of an annotation by a lone call has done.
WholeSetting(c, r, k, data) ==
    r.op \in Settings =>
        /\ r.at \in 2 .. 8 => r.copy = r.read
        /\ (r.at = 3 /\ k \notin raced) => Few(k, "image", 0)
        /\ r.at >= 4 => r.image \in Found(k, "image")
        /\ r.at >= 5 => assets[r.image].data = c
        /\ (r.at = 6 /\ k \notin raced) => Few(k, "thumbnail", 0)
        /\ r.at >= 7 => r.thumbnail \in Found(k, "thumbnail")
        /\ r.at >= 8 => assets[r.thumbnail].data = c
        /\ r.at >= 9 =>
             /\ data.text = r.read.text
             /\ data.annotation = [image |-> r.image, thumbnail |-> r.thumbnail, by |-> c]

\* What the removal of an annotation by a lone call has done.
WholeUnsetting(r, k, data) ==
    r.op \in Unsettings =>
        /\ r.at = 2 => r.copy = r.read
        /\ (r.at >= 3 /\ r.copy # None) => data.annotation = None /\ data.text = r.read.text
        /\ r.at = 5 => Found(k, "image") \subseteq {r.image}
        /\ r.at >= 6 => Found(k, "image") = {}
        /\ r.at >= 7 => Found(k, "thumbnail") \subseteq {r.thumbnail}

\* A call that has met no other knows its collection.
Whole(c) ==
    (Active(c) /\ call[c].alone) =>
        /\ WholeText(c, call[c], collection[K(c)].data)
        /\ WholeSetting(c, call[c], K(c), collection[K(c)].data)
        /\ WholeUnsetting(call[c], K(c), collection[K(c)].data)

\* AnnotationsAreBacked and AssetsAreSingle of one collection.
Backed(k) ==
    collection[k].data.annotation # None =>
        \A kind \in Kinds :
            /\ collection[k].data.annotation[kind] \in Found(k, kind)
            /\ assets[collection[k].data.annotation[kind]].data # None

Single(k) == \A kind \in Kinds : Few(k, kind, 1)

CallsInv ==
    /\ TypeOK
    /\ Met
    /\ \A c \in Calls : Progress(c)
    /\ \A c \in Calls : Whole(c)
    /\ \A k \in Collections \ raced : Backed(k)
    /\ \A k \in Collections \ raced : Single(k)

----------------------------------------------------------------------------
(***************************************************************************)
(* Chains, records and assets.                                             *)
(***************************************************************************)

\* The chain of each kind of call, and its length.
LEMMA Chains ==
    ASSUME NEW op \in Operations
    PROVE  /\ op \in Creations => Chain(op) = CreateChain /\ Len(Chain(op)) = 2
           /\ op \in Deletions => Chain(op) = DeleteChain /\ Len(Chain(op)) = 3
           /\ op \in Updates => Chain(op) = UpdateChain /\ Len(Chain(op)) = 3
           /\ op \in Settings => Chain(op) = SetChain /\ Len(Chain(op)) = 9
           /\ op \in Unsettings => Chain(op) = UnsetChain /\ Len(Chain(op)) = 7
<1>1. /\ Len(CreateChain) = 2 /\ Len(DeleteChain) = 3 /\ Len(UpdateChain) = 3
      /\ Len(SetChain) = 9 /\ Len(UnsetChain) = 7
  BY DEF CreateChain, DeleteChain, UpdateChain, SetChain, UnsetChain
<1>2. /\ op \in Creations => Chain(op) = CreateChain
      /\ op \in Deletions => Chain(op) = DeleteChain
      /\ op \in Updates => Chain(op) = UpdateChain
      /\ op \in Settings => Chain(op) = SetChain
      /\ op \in Unsettings => Chain(op) = UnsetChain
  BY DEF Chain, Operations, Creations, Deletions, Updates, Settings, Unsettings
<1>3. QED
  BY <1>1, <1>2

\* Every call is of one kind.
LEMMA KindsOfCalls ==
    ASSUME NEW op \in Operations
    PROVE  \/ op \in Creations /\ op \notin Deletions \cup Updates \cup Settings \cup Unsettings
           \/ op \in Deletions /\ op \notin Creations \cup Updates \cup Settings \cup Unsettings
           \/ op \in Updates /\ op \notin Creations \cup Deletions \cup Settings \cup Unsettings
           \/ op \in Settings /\ op \notin Creations \cup Deletions \cup Updates \cup Unsettings
           \/ op \in Unsettings /\ op \notin Creations \cup Deletions \cup Updates \cup Settings
BY DEF Operations, Creations, Deletions, Updates, Settings, Unsettings

\* The places of a step in the chains.
LEMMA Places ==
    ASSUME TypeOK, NEW c \in Calls, Progress(c), Active(c)
    PROVE  /\ call[c] \in CallState
           /\ Step(c) = "get" => call[c].at = 1 /\ call[c].op \in Deletions \cup Editing
           /\ Step(c) = "create" => call[c].at = 1 /\ call[c].op \in Creations
           /\ Step(c) = "delete" => call[c].at = 3 /\ call[c].op \in Deletions
           /\ Step(c) = "put" => \/ call[c].at = 2 /\ call[c].op \in Updates \cup Unsettings
                                 \/ call[c].at = 8 /\ call[c].op \in Settings
           /\ Step(c) = "event" => \/ call[c].at = 2 /\ call[c].op \in Creations \cup Deletions
                                   \/ call[c].at = 3 /\ call[c].op \in Updates \cup Unsettings
                                   \/ call[c].at = 9 /\ call[c].op \in Settings
           /\ Step(c) = "find image" => \/ call[c].at = 2 /\ call[c].op \in Settings
                                        \/ call[c].at = 4 /\ call[c].op \in Unsettings
           /\ Step(c) = "find thumbnail" => \/ call[c].at = 5 /\ call[c].op \in Settings
                                            \/ call[c].at = 6 /\ call[c].op \in Unsettings
           /\ Step(c) = "create image" => call[c].at = 3 /\ call[c].op \in Settings
           /\ Step(c) = "create thumbnail" => call[c].at = 6 /\ call[c].op \in Settings
           /\ Step(c) = "upload image" => call[c].at = 4 /\ call[c].op \in Settings
           /\ Step(c) = "upload thumbnail" => call[c].at = 7 /\ call[c].op \in Settings
           /\ Step(c) = "remove image" => call[c].at = 5 /\ call[c].op \in Unsettings
           /\ Step(c) = "remove thumbnail" => call[c].at = 7 /\ call[c].op \in Unsettings
<1> DEFINE r == call[c]
<1>1. r \in CallState
  BY DEF TypeOK, Active
<1>2. r.op \in Operations /\ r.at \in 1 .. 9 /\ r.at <= Len(Chain(r.op))
  BY <1>1 DEF Progress, CallState
<1>3. CASE r.op \in Creations
  <2>1. r.at \in {1, 2} /\ Step(c) = CreateChain[r.at]
    BY <1>2, <1>3, Chains DEF Step
  <2>2. Step(c) = IF r.at = 1 THEN "create" ELSE "event"
    BY <2>1 DEF CreateChain
  <2>3. QED
    BY <1>1, <1>3, <2>1, <2>2
<1>4. CASE r.op \in Deletions
  <2>1. r.at \in {1, 2, 3} /\ Step(c) = DeleteChain[r.at]
    BY <1>2, <1>4, Chains DEF Step
  <2>2. \/ r.at = 1 /\ Step(c) = "get"
        \/ r.at = 2 /\ Step(c) = "event"
        \/ r.at = 3 /\ Step(c) = "delete"
    BY <2>1 DEF DeleteChain
  <2>3. QED
    BY <1>1, <1>4, <2>2
<1>5. CASE r.op \in Updates
  <2>1. r.at \in {1, 2, 3} /\ Step(c) = UpdateChain[r.at]
    BY <1>2, <1>5, Chains DEF Step
  <2>2. \/ r.at = 1 /\ Step(c) = "get"
        \/ r.at = 2 /\ Step(c) = "put"
        \/ r.at = 3 /\ Step(c) = "event"
    BY <2>1 DEF UpdateChain
  <2>3. QED
    BY <1>1, <1>5, <2>2 DEF Editing
<1>6. CASE r.op \in Settings
  <2>1. r.at \in 1 .. 9 /\ Step(c) = SetChain[r.at]
    BY <1>2, <1>6, Chains DEF Step
  <2>2. \/ r.at = 1 /\ Step(c) = "get"
        \/ r.at = 2 /\ Step(c) = "find image"
        \/ r.at = 3 /\ Step(c) = "create image"
        \/ r.at = 4 /\ Step(c) = "upload image"
        \/ r.at = 5 /\ Step(c) = "find thumbnail"
        \/ r.at = 6 /\ Step(c) = "create thumbnail"
        \/ r.at = 7 /\ Step(c) = "upload thumbnail"
        \/ r.at = 8 /\ Step(c) = "put"
        \/ r.at = 9 /\ Step(c) = "event"
    <3>1. /\ SetChain[1] = "get"
          /\ SetChain[2] = "find image"
          /\ SetChain[3] = "create image"
          /\ SetChain[4] = "upload image"
          /\ SetChain[5] = "find thumbnail"
          /\ SetChain[6] = "create thumbnail"
          /\ SetChain[7] = "upload thumbnail"
          /\ SetChain[8] = "put"
          /\ SetChain[9] = "event"
      BY DEF SetChain
    <3>2. /\ r.at = 1 => Step(c) = "get"
          /\ r.at = 2 => Step(c) = "find image"
          /\ r.at = 3 => Step(c) = "create image"
          /\ r.at = 4 => Step(c) = "upload image"
          /\ r.at = 5 => Step(c) = "find thumbnail"
          /\ r.at = 6 => Step(c) = "create thumbnail"
          /\ r.at = 7 => Step(c) = "upload thumbnail"
          /\ r.at = 8 => Step(c) = "put"
          /\ r.at = 9 => Step(c) = "event"
      BY <2>1, <3>1
    <3>3. r.at \in {1, 2, 3, 4, 5, 6, 7, 8, 9}
      BY <2>1
    <3>4. QED
      BY <3>2, <3>3
  <2>3. QED
    BY <1>1, <1>6, <2>2 DEF Editing
<1>7. CASE r.op \in Unsettings
  <2>1. r.at \in 1 .. 7 /\ Step(c) = UnsetChain[r.at]
    BY <1>2, <1>7, Chains DEF Step
  <2>2. \/ r.at = 1 /\ Step(c) = "get"
        \/ r.at = 2 /\ Step(c) = "put"
        \/ r.at = 3 /\ Step(c) = "event"
        \/ r.at = 4 /\ Step(c) = "find image"
        \/ r.at = 5 /\ Step(c) = "remove image"
        \/ r.at = 6 /\ Step(c) = "find thumbnail"
        \/ r.at = 7 /\ Step(c) = "remove thumbnail"
    <3>1. /\ UnsetChain[1] = "get"
          /\ UnsetChain[2] = "put"
          /\ UnsetChain[3] = "event"
          /\ UnsetChain[4] = "find image"
          /\ UnsetChain[5] = "remove image"
          /\ UnsetChain[6] = "find thumbnail"
          /\ UnsetChain[7] = "remove thumbnail"
      BY DEF UnsetChain
    <3>2. /\ r.at = 1 => Step(c) = "get"
          /\ r.at = 2 => Step(c) = "put"
          /\ r.at = 3 => Step(c) = "event"
          /\ r.at = 4 => Step(c) = "find image"
          /\ r.at = 5 => Step(c) = "remove image"
          /\ r.at = 6 => Step(c) = "find thumbnail"
          /\ r.at = 7 => Step(c) = "remove thumbnail"
      BY <2>1, <3>1
    <3>3. r.at \in {1, 2, 3, 4, 5, 6, 7}
      BY <2>1
    <3>4. QED
      BY <3>2, <3>3
  <2>3. QED
    BY <1>1, <1>7, <2>2 DEF Editing
<1>8. QED
  BY <1>2, <1>3, <1>4, <1>5, <1>6, <1>7 DEF Operations

\* A call is on one of the collections.
LEMMA CallsAreOnCollections ==
    ASSUME NEW op PROVE On(op) \in Collections
BY DEF On, Collections

----------------------------------------------------------------------------
(***************************************************************************)
(* What a request of a call does to the calls.                             *)
(***************************************************************************)

\* Only the call c changes, and it stays the call it is.
Moves(c) ==
    /\ call' \in [Calls -> CallState \cup {None}]
    /\ \A b \in Calls : b # c => call'[b] = call[b]
    /\ call'[c] \in CallState
    /\ call'[c].op = call[c].op
    /\ call'[c].result = None => call'[c].alone = call[c].alone

\* The call c ends.
Stops(c, result) == Moves(c) /\ call'[c].result = result

\* The call c goes on from r at another place of its chain.
GoesTo(c, r, n) ==
    /\ Moves(c)
    /\ call'[c].result = None
    /\ call'[c].at = n
    /\ call'[c].copy = r.copy
    /\ call'[c].read = r.read
    /\ call'[c].image = r.image
    /\ call'[c].thumbnail = r.thumbnail

\* A call that ends stays a call of its operation.
LEMMA EndedCall ==
    ASSUME NEW r \in CallState, NEW result \in {"success", "failed", "silent"}, NEW q,
           q = Ended(r, result)
    PROVE  q \in CallState /\ q.op = r.op /\ q.result = result
<1>1. q = [op |-> r.op, at |-> 1, allowed |-> TRUE, copy |-> None, read |-> None,
           image |-> 0, thumbnail |-> 0, alone |-> TRUE, result |-> result]
  BY DEF Ended, CallState
<1>2. r.op \in Operations
  BY DEF CallState
<1>3. q \in CallState
  BY <1>1, <1>2 DEF CallState
<1>4. QED
  BY <1>1, <1>3

\* Ends ends a call.
LEMMA EndsStops ==
    ASSUME TypeOK, NEW c \in Calls, Active(c), NEW result \in {"success", "failed", "silent"},
           Ends(c, result)
    PROVE  Stops(c, result)
<1>1. call[c] \in CallState
  BY DEF TypeOK, Active
<1>2. PICK r : r = Ended(call[c], result)
  OBVIOUS
<1>3. /\ r \in CallState
      /\ r.op = call[c].op
      /\ r.result = result
  BY <1>1, <1>2, EndedCall
<1>4. call' = [call EXCEPT ![c] = r]
  BY <1>2 DEF Ends
<1>5. call \in [Calls -> CallState \cup {None}]
  BY DEF TypeOK
<1>6. /\ call' \in [Calls -> CallState \cup {None}]
      /\ call'[c] = r
      /\ \A b \in Calls : b # c => call'[b] = call[b]
  BY <1>3, <1>4, <1>5
<1>7. result # None
  BY NoneAssumption
<1>8. QED
  BY <1>3, <1>6, <1>7 DEF Stops, Moves

\* Onward ends a call after the last step of its chain.
LEMMA OnwardStops ==
    ASSUME TypeOK, NEW c \in Calls, Active(c), NEW r \in CallState, NEW n \in {1, 2},
           r.op = call[c].op, r.at + n > Len(Chain(r.op)), Onward(c, r, n)
    PROVE  Stops(c, "success")
<1>2. PICK q : q = Ended(r, "success")
  OBVIOUS
<1>3. /\ q \in CallState
      /\ q.op = call[c].op
      /\ q.result = "success"
  BY <1>2, EndedCall
<1>4. call' = [call EXCEPT ![c] = q]
  BY <1>2 DEF Onward
<1>5. call \in [Calls -> CallState \cup {None}]
  BY DEF TypeOK
<1>6. /\ call' \in [Calls -> CallState \cup {None}]
      /\ call'[c] = q
      /\ \A b \in Calls : b # c => call'[b] = call[b]
  BY <1>3, <1>4, <1>5
<1>7. "success" # None
  BY NoneAssumption
<1>8. QED
  BY <1>3, <1>6, <1>7 DEF Stops, Moves

\* Before that, it takes the call further.
LEMMA OnwardGoes ==
    ASSUME TypeOK, NEW c \in Calls, Active(c), NEW r \in CallState, NEW n \in {1, 2},
           r.op = call[c].op, r.alone = call[c].alone, r.result = None,
           NEW m \in 1 .. 9, m = r.at + n, ~(m > Len(Chain(r.op))), Onward(c, r, n)
    PROVE  GoesTo(c, r, m)
<1>2. PICK q : q = [r EXCEPT !.at = @ + n]
  OBVIOUS
<1>3. /\ q \in CallState
      /\ q.op = call[c].op /\ q.alone = call[c].alone /\ q.result = None
      /\ q.at = m /\ q.copy = r.copy /\ q.read = r.read
      /\ q.image = r.image /\ q.thumbnail = r.thumbnail
  BY <1>2 DEF CallState
<1>4. call' = [call EXCEPT ![c] = q]
  BY <1>2 DEF Onward
<1>5. call \in [Calls -> CallState \cup {None}]
  BY DEF TypeOK
<1>6. /\ call' \in [Calls -> CallState \cup {None}]
      /\ call'[c] = q
      /\ \A b \in Calls : b # c => call'[b] = call[b]
  BY <1>3, <1>4, <1>5
<1>7. QED
  BY <1>3, <1>6 DEF GoesTo, Moves

\* The places of the chains.
Fits(op, m) ==
    \/ op \in Creations /\ m <= 2
    \/ op \in Deletions \cup Updates /\ m <= 3
    \/ op \in Settings /\ m <= 9
    \/ op \in Unsettings /\ m <= 7

LEMMA Room ==
    ASSUME NEW op \in Operations, NEW m \in Nat
    PROVE  /\ Fits(op, m) => m <= Len(Chain(op)) /\ ~(m > Len(Chain(op)))
           /\ ~Fits(op, m) => m > Len(Chain(op))
<1>1. PICK n : n = Len(Chain(op))
  OBVIOUS
<1>2. /\ n \in {2, 3, 7, 9}
      /\ op \in Creations => n = 2
      /\ op \in Deletions \cup Updates => n = 3
      /\ op \in Settings => n = 9
      /\ op \in Unsettings => n = 7
  BY <1>1, Chains DEF Operations
<1>3. /\ Fits(op, m) => m <= n /\ ~(m > n)
      /\ ~Fits(op, m) => m > n
  BY <1>2 DEF Fits, Operations
<1>4. QED
  BY <1>1, <1>3

\* Onward takes a call to the next place of its chain,
LEMMA Advance ==
    ASSUME TypeOK, NEW c \in Calls, Active(c), NEW r \in CallState, NEW n \in {1, 2},
           r.op = call[c].op, r.alone = call[c].alone, r.result = None,
           NEW m \in 1 .. 9, m = r.at + n, Fits(call[c].op, m), Onward(c, r, n)
    PROVE  GoesTo(c, r, m)
<1>1. r.op \in Operations /\ m \in Nat
  BY DEF CallState
<1>2. ~(m > Len(Chain(r.op)))
  BY <1>1, Room
<1>3. QED
  BY <1>2, OnwardGoes

\* and ends it after the last.
LEMMA Finish ==
    ASSUME TypeOK, NEW c \in Calls, Active(c), ~Fits(call[c].op, call[c].at + 1),
           Onward(c, call[c], 1)
    PROVE  Stops(c, "success")
<1>1. call[c] \in CallState
  BY DEF TypeOK, Active
<1>2. call[c].op \in Operations /\ call[c].at + 1 \in Nat
  BY <1>1 DEF CallState
<1>3. call[c].at + 1 > Len(Chain(call[c].op))
  BY <1>2, Room
<1>4. QED
  BY <1>1, <1>3, OnwardStops

\* A call with another asset of a kind.
LEMMA AssetField ==
    ASSUME NEW r \in CallState, NEW kind \in Kinds, NEW a \in Nat, NEW q, q = [r EXCEPT ![kind] = a]
    PROVE  /\ q \in CallState
           /\ q.op = r.op /\ q.at = r.at /\ q.alone = r.alone /\ q.result = r.result
           /\ q.copy = r.copy /\ q.read = r.read
           /\ kind = "image" => q.image = a /\ q.thumbnail = r.thumbnail
           /\ kind = "thumbnail" => q.thumbnail = a /\ q.image = r.image
<1>1. CASE kind = "image"
  <2>1. q = [r EXCEPT !.image = a]
    BY <1>1
  <2>2. QED
    BY <1>1, <2>1 DEF CallState
<1>2. CASE kind = "thumbnail"
  <2>1. q = [r EXCEPT !.thumbnail = a]
    BY <1>2
  <2>2. QED
    BY <1>2, <2>1 DEF CallState
<1>3. QED
  BY <1>1, <1>2 DEF Kinds

----------------------------------------------------------------------------
(***************************************************************************)
(* What a request of a call does to the collections.                       *)
(***************************************************************************)
AssetRecord == [on : Collections, kind : Kinds, data : Calls \cup {None}, there : BOOLEAN]

\* The assets found are finitely many.
LEMMA FoundIsFinite ==
    ASSUME TypeOK, NEW k, NEW kind
    PROVE  /\ IsFiniteSet(Found(k, kind))
           /\ Found(k, kind) \subseteq Nat
           /\ Cardinality(Found(k, kind)) \in Nat
           /\ Cardinality(Found(k, kind)) = 1 =>
                \E a : Found(k, kind) = {a} /\ a \in Nat /\ Asset(k, kind, a)
<1>1. assets \in Seq(AssetRecord)
  BY DEF TypeOK, AssetRecord
<1>2. DOMAIN assets = 1 .. Len(assets) /\ Len(assets) \in Nat
  BY <1>1
<1>3. IsFiniteSet(1 .. Len(assets))
  BY <1>2, FS_Interval
<1>4. Found(k, kind) \subseteq 1 .. Len(assets)
  BY <1>2 DEF Found
<1>5. IsFiniteSet(Found(k, kind))
  BY <1>3, <1>4, FS_Subset
<1>6. Cardinality(Found(k, kind)) \in Nat
  BY <1>5, FS_CardinalityType
<1>7. ASSUME Cardinality(Found(k, kind)) = 1
      PROVE  \E a : Found(k, kind) = {a} /\ a \in Nat /\ Asset(k, kind, a)
  <2>1. PICK a : Found(k, kind) = {a}
    BY <1>5, <1>7, FS_Singleton
  <2>2. a \in Found(k, kind)
    BY <2>1
  <2>3. a \in Nat /\ Asset(k, kind, a)
    BY <1>2, <2>2 DEF Found, Asset
  <2>4. QED
    BY <2>1, <2>3
<1>8. QED
  BY <1>2, <1>4, <1>5, <1>6, <1>7

\* A step leaves the collection k and its assets as they are.
Same(k) ==
    /\ collection'[k] = collection[k]
    /\ \A a \in DOMAIN assets : assets[a].on = k => assets'[a] = assets[a]
    /\ \A a \in DOMAIN assets' : a \notin DOMAIN assets => assets'[a].on # k

\* A step leaves nothing of the collection k.
Wiped(k) ==
    /\ collection'[k].data.annotation = None
    /\ \A kind \in Kinds : Found(k, kind)' = {}

\* No asset changes its collection or its kind.
Kept ==
    \A a \in DOMAIN assets :
        /\ a \in DOMAIN assets'
        /\ assets'[a].on = assets[a].on
        /\ assets'[a].kind = assets[a].kind

\* The surplus of a collection only grows.
Grows ==
    /\ surplus' \in [Collections -> [Kinds -> Nat]]
    /\ \A k \in Collections, kind \in Kinds : surplus[k][kind] <= surplus'[k][kind]

\* What a request of c may do beyond its own collection.
Steady(c) ==
    /\ Kept
    /\ announced \subseteq announced'
    /\ raced' = raced
    /\ Grows
    /\ \A k \in Collections :
         k # K(c) => Same(k) \/ (call[c].op = "DeleteConversation" /\ Wiped(k))

\* Where no asset is gained and the surplus grows, few assets stay few.
LEMMA FewKept ==
    ASSUME TypeOK, Grows, NEW k \in Collections, NEW kind \in Kinds, NEW n \in Nat,
           Found(k, kind)' \subseteq Found(k, kind), Few(k, kind, n)
    PROVE  Few(k, kind, n)'
<1>1. /\ IsFiniteSet(Found(k, kind))
      /\ Cardinality(Found(k, kind)) \in Nat
  BY FoundIsFinite
<1>2. /\ Cardinality(Found(k, kind)') <= Cardinality(Found(k, kind))
      /\ Cardinality(Found(k, kind)') \in Nat
  BY <1>1, FS_Subset, FS_CardinalityType
<1>3. surplus[k][kind] \in Nat /\ surplus'[k][kind] \in Nat /\ surplus[k][kind] <= surplus'[k][kind]
  BY DEF TypeOK, Grows
<1>4. Cardinality(Found(k, kind)) <= n + surplus[k][kind]
  BY DEF Few
<1>5. Cardinality(Found(k, kind)') <= n + surplus'[k][kind]
  BY <1>1, <1>2, <1>3, <1>4
<1>6. QED
  BY <1>5 DEF Few

\* None are few.
LEMMA NoneAreFew ==
    ASSUME Grows, NEW k \in Collections, NEW kind \in Kinds, NEW n \in Nat, Found(k, kind)' = {}
    PROVE  Few(k, kind, n)'
<1>1. surplus'[k][kind] \in Nat
  BY DEF Grows
<1>2. Cardinality(Found(k, kind)') = 0
  BY FS_EmptySet
<1>3. Cardinality(Found(k, kind)') <= n + surplus'[k][kind]
  BY <1>1, <1>2
<1>4. QED
  BY <1>3 DEF Few

\* A surplus that does not change grows.
LEMMA NoGrowth ==
    ASSUME TypeOK, surplus' = surplus
    PROVE  Grows
BY DEF TypeOK, Grows

\* Nor does one that is counted up shrink.
LEMMA OneMore ==
    ASSUME TypeOK, NEW k \in Collections, NEW kind \in Kinds,
           surplus' = [surplus EXCEPT ![k][kind] = @ + 1]
    PROVE  Grows /\ surplus'[k][kind] = surplus[k][kind] + 1
<1>1. surplus \in [Collections -> [Kinds -> Nat]]
  BY DEF TypeOK
<1>2. PICK row : row = [surplus[k] EXCEPT ![kind] = @ + 1]
  OBVIOUS
<1>3. surplus[k] \in [Kinds -> Nat]
  BY <1>1
<1>4. /\ row \in [Kinds -> Nat]
      /\ row[kind] = surplus[k][kind] + 1
      /\ \A q \in Kinds : surplus[k][q] <= row[q]
  BY <1>2, <1>3
<1>5. surplus' = [surplus EXCEPT ![k] = row]
  BY <1>2
<1>6. QED
  BY <1>1, <1>4, <1>5 DEF Grows

\* The assets found on a collection that a step leaves alone are the same.
LEMMA SameFound ==
    ASSUME NEW k, Same(k), Kept
    PROVE  /\ \A kind : Found(k, kind)' = Found(k, kind)
           /\ \A kind : \A a \in Found(k, kind) : assets'[a] = assets[a]
           /\ \A kind, a : Asset(k, kind, a) => assets'[a] = assets[a]
BY DEF Same, Kept, Found, Asset

\* So its annotation stays backed and its assets single.
LEMMA SameCollection ==
    ASSUME TypeOK, NEW k \in Collections, Same(k), Kept, Grows
    PROVE  /\ Backed(k) => Backed(k)'
           /\ Single(k) => Single(k)'
<1>1. /\ \A kind : Found(k, kind)' = Found(k, kind)
      /\ \A kind : \A a \in Found(k, kind) : assets'[a] = assets[a]
  BY SameFound
<1>2. collection'[k] = collection[k]
  BY DEF Same
<1>3. \A kind \in Kinds : Few(k, kind, 1) => Few(k, kind, 1)'
  BY <1>1, FewKept
<1>4. QED
  BY <1>1, <1>2, <1>3 DEF Backed, Single

\* And so does what a call knows of it.
LEMMA SameWhole ==
    ASSUME TypeOK, NEW b \in Calls, call'[b] = call[b], call[b] \in CallState,
           Same(K(b)), Kept, Grows, raced' = raced, Progress(b), Whole(b)
    PROVE  Whole(b)'
<1> SUFFICES ASSUME Active(b), call[b].alone
             PROVE  Whole(b)'
  BY DEF Whole, Active
<1> PICK r : r = call[b]
  OBVIOUS
<1> PICK k : k = K(b)
  OBVIOUS
<1> PICK data : data = collection[k].data
  OBVIOUS
<1> Same(k)
  OBVIOUS
<1>1. K(b)' = k /\ collection'[k].data = data /\ call'[b] = r
  BY DEF K, Same
<1>2. /\ \A kind : Found(k, kind)' = Found(k, kind)
      /\ \A kind, a : Asset(k, kind, a) => assets'[a] = assets[a]
  BY SameFound
<1>3. WholeText(b, r, data) /\ WholeSetting(b, r, k, data) /\ WholeUnsetting(r, k, data)
  BY DEF Whole
<1>4. (r.op \in Settings /\ r.at >= 4) => assets'[r.image] = assets[r.image]
  BY <1>2 DEF Progress
<1>5. (r.op \in Settings /\ r.at >= 7) => assets'[r.thumbnail] = assets[r.thumbnail]
  BY <1>2 DEF Progress
<1>6. r.at \in Nat
  BY DEF CallState
<1>7. WholeSetting(b, call[b], K(b), collection[K(b)].data)'
  <2>1. k \in Collections
    BY CallsAreOnCollections DEF K
  <2>2. /\ Few(k, "image", 0) => Few(k, "image", 0)'
        /\ Few(k, "thumbnail", 0) => Few(k, "thumbnail", 0)'
    BY <1>2, <2>1, FewKept DEF Kinds
  <2>3. QED
    BY <1>1, <1>2, <1>3, <1>4, <1>5, <1>6, <2>2 DEF WholeSetting
<1>8. /\ WholeText(b, call[b], collection[K(b)].data)'
      /\ WholeUnsetting(call[b], K(b), collection[K(b)].data)'
  BY <1>1, <1>2, <1>3 DEF WholeText, WholeUnsetting
<1>9. QED
  BY <1>7, <1>8 DEF Whole

\* A request of c leaves what holds of the other calls and collections.
LEMMA OthersKeep ==
    ASSUME CallsInv, NEW c \in Calls, Active(c), Moves(c), Steady(c)
    PROVE  /\ Met'
           /\ \A b \in Calls : b # c => Progress(b)' /\ Whole(b)'
           /\ \A k \in Collections : k # K(c) =>
                /\ k \notin raced' => Backed(k)'
                /\ k \notin raced' => Single(k)'
<1>1. /\ \A b \in Calls : b # c => call'[b] = call[b]
      /\ call'[c].op = call[c].op
      /\ call'[c].result = None => call'[c].alone = call[c].alone
      /\ raced' = raced
      /\ Grows /\ TypeOK
      /\ Kept
  BY DEF Moves, Steady, CallsInv
<1>2. Met'
  <2>1. \A b \in Calls : K(b)' = K(b) /\ call'[b].op = call[b].op
    BY <1>1 DEF K
  <2>2. \A b \in Calls : Active(b)' => Active(b) /\ call'[b].alone = call[b].alone
    BY <1>1 DEF Active
  <2>3. Met
    BY DEF CallsInv
  <2>4. QED
    BY <1>1, <2>1, <2>2, <2>3 DEF Met
<1>3. ASSUME NEW b \in Calls, b # c
      PROVE  Progress(b)'
  <2>1. Progress(b) /\ call'[b] = call[b] /\ K(b)' = K(b)
    BY <1>1, <1>3 DEF CallsInv, K
  <2>2. \A kind, a : Asset(K(b), kind, a) => Asset(K(b), kind, a)'
    BY <1>1, <2>1 DEF Kept, Asset
  <2>3. announced \subseteq announced'
    BY DEF Steady
  <2>4. QED
    BY <2>1, <2>2, <2>3 DEF Progress, Active
<1>4. ASSUME NEW b \in Calls, b # c
      PROVE  Whole(b)'
  <2>1. call'[b] = call[b] /\ K(b) \in Collections
    BY <1>1, <1>4, CallsAreOnCollections DEF K
  <2>2. CASE Active(b) /\ call[b].alone
    <3>1. ~Meet(call[b].op, call[c].op)
      BY <1>4, <2>2 DEF CallsInv, Met
    <3>2. K(b) # K(c) /\ call[c].op # "DeleteConversation"
      BY <3>1 DEF Meet, K
    <3>3. Same(K(b))
      BY <2>1, <3>2 DEF Steady
    <3>4. call[b] \in CallState /\ Progress(b) /\ Whole(b)
      BY <2>2 DEF CallsInv, TypeOK, Active
    <3>5. QED
      BY <1>1, <2>1, <3>3, <3>4, SameWhole
  <2>3. CASE ~(Active(b) /\ call[b].alone)
    BY <2>1, <2>3 DEF Whole, Active
  <2>4. QED
    BY <2>2, <2>3
<1>5. ASSUME NEW k \in Collections, k # K(c)
      PROVE  /\ k \notin raced' => Backed(k)'
             /\ k \notin raced' => Single(k)'
  <2>1. /\ k \notin raced' => Backed(k)
        /\ k \notin raced' => Single(k)
    BY <1>1 DEF CallsInv
  <2>2. CASE Same(k)
    BY <1>1, <1>5, <2>1, <2>2, SameCollection
  <2>3. CASE Wiped(k)
    BY <1>1, <1>5, <2>3, NoneAreFew DEF Wiped, Backed, Single
  <2>4. QED
    BY <1>5, <2>2, <2>3 DEF Steady
<1>6. QED
  BY <1>2, <1>3, <1>4, <1>5

\* What is left to show of a request of c: its own place and collection.
LEMMA OwnStep ==
    ASSUME CallsInv, TypeOK', NEW c \in Calls, Active(c), Moves(c), Steady(c),
           Progress(c)', Whole(c)',
           K(c) \notin raced => Backed(K(c))',
           K(c) \notin raced => Single(K(c))'
    PROVE  CallsInv'
<1>1. raced' = raced /\ K(c)' = K(c)
  BY DEF Steady, Moves, K
<1>2. /\ \A b \in Calls : Progress(b)' /\ Whole(b)'
      /\ \A k \in Collections \ raced' : Backed(k)'
      /\ \A k \in Collections \ raced' : Single(k)'
  BY <1>1, OthersKeep
<1>3. QED
  BY <1>2, OthersKeep DEF CallsInv

\* A call that has ended has no place in its chain.
LEMMA StoppedOwn ==
    ASSUME NEW c \in Calls, NEW result \in {"success", "failed", "silent"}, Stops(c, result)
    PROVE  Moves(c) /\ Progress(c)' /\ Whole(c)'
<1>1. ~Active(c)'
  BY NoneAssumption DEF Stops, Active
<1>2. QED
  BY <1>1 DEF Stops, Progress, Whole

\* A call on a collection that is not raced is alone.
LEMMA NotRacedIsAlone ==
    ASSUME CallsInv, NEW c \in Calls, Active(c), K(c) \notin raced
    PROVE  call[c].alone /\ Whole(c) /\ Backed(K(c)) /\ Single(K(c))
BY CallsAreOnCollections DEF CallsInv, Met, K

----------------------------------------------------------------------------
(***************************************************************************)
(* The requests that leave the collections and the assets as they are.     *)
(***************************************************************************)

\* A step that leaves them leaves each of them.
LEMMA NothingTouched ==
    ASSUME collection' = collection, assets' = assets
    PROVE  Kept /\ \A k : Same(k)
BY DEF Kept, Same

\* The failures stay within their bound.
LEMMA CountTyped ==
    ASSUME TypeOK, NEW o \in Attempts, Count(o)
    PROVE  failures' \in 0 .. MaxFailures
BY MaxFailuresAssumption DEF TypeOK, Attempts, Outcomes, Count

\* An attempt may end as any request may, and in one more way.
LEMMA AttemptsAre ==
    /\ Outcomes \subseteq Attempts
    /\ Attempts \subseteq {"answered", "lost", "refused", "resent"}
BY DEF Attempts, Outcomes

\* A call whose request is sent again stays where it is.
LEMMA StaysInOrder ==
    ASSUME CallsInv, NEW c \in Calls, Active(c), UNCHANGED call, Kept, announced \subseteq announced'
    PROVE  Moves(c) /\ Progress(c)' /\ K(c)' = K(c) /\ Active(c)'
<1>1. call \in [Calls -> CallState \cup {None}] /\ call[c] \in CallState
  BY DEF CallsInv, TypeOK, Active
<1>2. Moves(c) /\ K(c)' = K(c) /\ Active(c)'
  BY <1>1 DEF Moves, K, Active
<1>3. Progress(c)
  BY DEF CallsInv
<1>4. \A kind, a : Asset(K(c), kind, a) => Asset(K(c), kind, a)'
  BY <1>2 DEF Kept, Asset
<1>5. QED
  BY <1>2, <1>3, <1>4 DEF Progress

\* Such a request keeps the invariant if its own call stays in order.
LEMMA OnlyTheCall ==
    ASSUME CallsInv, NEW c \in Calls, Active(c), Moves(c),
           collection' = collection, assets' = assets, raced' = raced,
           announced \subseteq announced', announced' \subseteq Collections,
           Grows, failures' \in 0 .. MaxFailures, Progress(c)', Whole(c)'
    PROVE  CallsInv'
<1>1. TypeOK'
  BY DEF CallsInv, TypeOK, Moves, Grows
<1>2. Kept /\ \A k : Same(k)
  BY NothingTouched
<1>3. Steady(c)
  BY <1>2 DEF Steady
<1>4. PICK k : k = K(c)
  OBVIOUS
<1>5. k \in Collections
  BY <1>4, CallsAreOnCollections DEF K
<1>6. /\ k \notin raced => Backed(k)'
      /\ k \notin raced => Single(k)'
  BY <1>2, <1>5, SameCollection DEF CallsInv
<1>7. K(c)' = k
  BY <1>4 DEF Moves, K
<1>8. /\ K(c) \notin raced => Backed(K(c))'
      /\ K(c) \notin raced => Single(K(c))'
  BY <1>4, <1>6, <1>7 DEF Backed, Single, Few, Found
<1>9. QED
  BY <1>1, <1>3, <1>8, OwnStep

\* A failed call keeps the invariant.
LEMMA RejectedInv ==
    ASSUME CallsInv, NEW c \in Calls, Active(c), Rejected(c)
    PROVE  CallsInv'
<1>1. Stops(c, "failed")
  BY EndsStops DEF Rejected, CallsInv
<1>2. Moves(c) /\ Progress(c)' /\ Whole(c)'
  BY <1>1, StoppedOwn
<1>3. TypeOK
  BY DEF CallsInv
<1>4. QED
  BY <1>2, <1>3, NoGrowth, OnlyTheCall DEF Rejected, history, TypeOK

\* The fields of a call that went on.
LEMMA WentOn ==
    ASSUME NEW c \in Calls, NEW r, NEW n, GoesTo(c, r, n)
    PROVE  /\ K(c)' = K(c)
           /\ call'[c].op = call[c].op /\ call'[c].at = n
           /\ call'[c].copy = r.copy /\ call'[c].read = r.read
           /\ call'[c].image = r.image /\ call'[c].thumbnail = r.thumbnail
           /\ call'[c].alone = call[c].alone
BY DEF GoesTo, Moves, K

\* The answer of GetAssetCollectionById is what the call knows.
LEMMA GetInv ==
    ASSUME CallsInv, NEW c \in Calls, Get(c)
    PROVE  CallsInv'
<1> PICK k : k = K(c)
  OBVIOUS
<1> PICK data : data = collection[k].data
  OBVIOUS
<1>1. Active(c) /\ TypeOK /\ Progress(c)
  BY DEF Get, At, CallsInv
<1>2. call[c] \in CallState /\ call[c].at = 1 /\ call[c].op \in Deletions \cup Editing
  BY <1>1, Places DEF Get, At
<1>3. CASE Rejected(c)
  BY <1>1, <1>3, RejectedInv
<1>4. ASSUME NEW o \in Outcomes, Count(o),
             IF o = "answered"
             THEN Onward(c, [call[c] EXCEPT !.copy = data, !.read = data], 1)
             ELSE Ends(c, "failed"),
             UNCHANGED <<collection, assets, announced, history>>
      PROVE  CallsInv'
  <2>1. SUFFICES Moves(c) /\ Progress(c)' /\ Whole(c)'
    BY <1>1, <1>4, AttemptsAre, CountTyped, NoGrowth, OnlyTheCall DEF history, TypeOK
  <2>2. CASE o # "answered"
    BY <1>1, <1>4, <2>2, EndsStops, StoppedOwn
  <2>3. CASE o = "answered"
    <3>1. k \in Collections /\ data \in Metadata
      BY <1>1, CallsAreOnCollections DEF K, TypeOK
    <3>2. PICK r : r = [call[c] EXCEPT !.copy = data, !.read = data]
      OBVIOUS
    <3>3. /\ r \in CallState /\ r.op = call[c].op /\ r.at = 1 /\ r.copy = data /\ r.read = data
          /\ r.alone = call[c].alone /\ r.result = None
      BY <1>1, <1>2, <3>1, <3>2 DEF CallState, Active
    <3>4. call[c].op \in Operations /\ Fits(call[c].op, 2)
      BY <1>2 DEF CallState, Fits, Editing
    <3>5. GoesTo(c, r, 2)
      <4>1. Onward(c, r, 1)
        BY <1>4, <2>3, <3>2
      <4>2. QED
        BY <1>1, <3>3, <3>4, <4>1, Advance
    <3>6. /\ K(c)' = k /\ collection'[k].data = data
          /\ call'[c].op = call[c].op /\ call'[c].at = 2
          /\ call'[c].copy = data /\ call'[c].read = data
      BY <1>4, <3>3, <3>5, WentOn
    <3>7. Progress(c)'
      BY <3>1, <3>4, <3>6, Room DEF Progress
    <3>8. call[c].op \notin Creations
      BY <1>2 DEF Editing, Creations, Deletions, Updates, Settings, Unsettings
    <3>9. Whole(c)'
      BY <3>6, <3>8 DEF Whole, WholeText, WholeSetting, WholeUnsetting
    <3>10. QED
      BY <3>5, <3>7, <3>9 DEF GoesTo
  <2>4. QED
    BY <2>2, <2>3
<1>5. QED
  BY <1>3, <1>4 DEF Get

\* SendNetworkEvent tells of a deletion before it is made.
LEMMA SendEventInv ==
    ASSUME CallsInv, NEW c \in Calls, SendEvent(c)
    PROVE  CallsInv'
<1> PICK k : k = K(c)
  OBVIOUS
<1>1. Active(c) /\ TypeOK /\ Progress(c) /\ Whole(c)
  BY DEF SendEvent, At, CallsInv
<1>2. /\ call[c] \in CallState
      /\ \/ call[c].at = 2 /\ call[c].op \in Creations \cup Deletions
         \/ call[c].at = 3 /\ call[c].op \in Updates \cup Unsettings
         \/ call[c].at = 9 /\ call[c].op \in Settings
  BY <1>1, Places DEF SendEvent, At
<1>3. call[c].op \in Operations /\ call[c].result = None /\ call[c].at \in Nat
  BY <1>1, <1>2 DEF CallState, Active
<1>4. PICK o \in Outcomes :
        /\ Count(o)
        /\ announced' = IF o = "refused" \/ call[c].op \notin Deletions THEN announced
                        ELSE announced \cup {k}
        /\ IF o = "answered" THEN Onward(c, call[c], 1)
           ELSE Ends(c, IF call[c].op \in Unhandled THEN "silent" ELSE "failed")
  BY DEF SendEvent
<1>5. UNCHANGED <<collection, assets, raced, surplus>>
  BY DEF SendEvent, history
<1>6. SUFFICES Moves(c) /\ Progress(c)' /\ Whole(c)'
  <2>1. k \in Collections
    BY CallsAreOnCollections DEF K
  <2>2. announced \subseteq announced' /\ announced' \subseteq Collections
    BY <1>1, <1>4, <2>1 DEF TypeOK
  <2>3. failures' \in 0 .. MaxFailures
    BY <1>1, <1>4, AttemptsAre, CountTyped
  <2>4. QED
    BY <1>1, <1>5, <2>2, <2>3, NoGrowth, OnlyTheCall DEF TypeOK
<1>7. CASE o # "answered"
  BY <1>1, <1>4, <1>7, EndsStops, StoppedOwn
<1>8. CASE o = "answered" /\ call[c].op \in Creations \cup Updates \cup Settings
  <2>1. ~Fits(call[c].op, call[c].at + 1)
    BY <1>2, <1>8 DEF Fits, Creations, Deletions, Updates, Settings, Unsettings
  <2>2. QED
    BY <1>1, <1>4, <1>8, <2>1, Finish, StoppedOwn
<1>9. CASE o = "answered" /\ call[c].op \in Deletions
  <2>1. call[c].at = 2 /\ call[c].op \notin Creations \cup Editing
    BY <1>2, <1>3, <1>9, KindsOfCalls DEF Editing
  <2>2. GoesTo(c, call[c], 3)
    BY <1>1, <1>2, <1>3, <1>4, <1>9, <2>1, Advance DEF Fits
  <2>3. K(c)' = k /\ call'[c].op = call[c].op /\ call'[c].at = 3
    BY <2>2, WentOn
  <2>4. k \in announced' /\ 3 <= Len(Chain(call[c].op))
    BY <1>3, <1>4, <1>9, Room DEF Fits
  <2>5. Progress(c)'
    BY <2>1, <2>3, <2>4 DEF Progress, Editing
  <2>6. Whole(c)'
    BY <2>1, <2>3 DEF Whole, WholeText, WholeSetting, WholeUnsetting, Editing
  <2>7. QED
    BY <2>2, <2>5, <2>6 DEF GoesTo
<1>10. CASE o = "answered" /\ call[c].op \in Unsettings
  <2>1. call[c].at = 3 /\ call[c].op \notin Creations \cup Deletions \cup Updates \cup Settings
    BY <1>2, <1>3, <1>10, KindsOfCalls
  <2>2. GoesTo(c, call[c], 4)
    BY <1>1, <1>2, <1>3, <1>4, <1>10, <2>1, Advance DEF Fits
  <2>3. /\ K(c)' = k /\ collection'[k].data = collection[k].data
        /\ call'[c].op = call[c].op /\ call'[c].at = 4
        /\ call'[c].copy = call[c].copy /\ call'[c].read = call[c].read
        /\ call'[c].alone = call[c].alone
    BY <1>5, <2>2, WentOn
  <2>4. call[c].read \in Metadata /\ 4 <= Len(Chain(call[c].op))
    BY <1>1, <1>3, <1>10, <2>1, Room DEF Progress, Editing, Fits
  <2>5. Progress(c)'
    BY <2>1, <2>3, <2>4 DEF Progress, Editing
  <2>6. Whole(c)'
    <3>1. (call[c].alone /\ call[c].copy # None) =>
             /\ collection[k].data.annotation = None
             /\ collection[k].data.text = call[c].read.text
      BY <1>1, <1>10, <2>1 DEF Whole, WholeUnsetting
    <3>2. QED
      BY <2>1, <2>3, <3>1 DEF Whole, WholeText, WholeSetting, WholeUnsetting
  <2>7. QED
    BY <2>2, <2>5, <2>6 DEF GoesTo
<1>11. QED
  BY <1>3, <1>7, <1>8, <1>9, <1>10 DEF Operations

----------------------------------------------------------------------------
(***************************************************************************)
(* The requests that write the collection.                                 *)
(***************************************************************************)
Entry == [state : {"absent", "there", "gone"}, data : Metadata]

Writes(k, entry) == collection' = [collection EXCEPT ![k] = entry]

\* Such a request keeps the invariant if its own call stays in order and the
\* annotation it writes is backed.
LEMMA OnlyTheData ==
    ASSUME CallsInv, NEW c \in Calls, Active(c), Moves(c), NEW entry \in Entry,
           Writes(K(c), entry), assets' = assets, announced' = announced,
           raced' = raced, surplus' = surplus, failures' \in 0 .. MaxFailures,
           Progress(c)', Whole(c)', K(c) \notin raced => Backed(K(c))'
    PROVE  CallsInv'
<1>1. PICK k : k = K(c)
  OBVIOUS
<1>2. k \in Collections /\ collection \in [Collections -> Entry]
  BY <1>1, CallsAreOnCollections DEF K, CallsInv, TypeOK, Entry
<1>3. collection' \in [Collections -> Entry] /\ \A j \in Collections : j # k => collection'[j] = collection[j]
  BY <1>1, <1>2 DEF Writes
<1>4. TypeOK'
  BY <1>3 DEF CallsInv, TypeOK, Moves, Entry
<1>5. Kept /\ \A j \in Collections : j # k => Same(j)
  BY <1>3 DEF Kept, Same
<1>6. Steady(c)
  BY <1>1, <1>5, NoGrowth DEF Steady, CallsInv
<1>7. K(c) \notin raced => Single(K(c))'
  <2>1. k \notin raced => Single(k)
    BY <1>2 DEF CallsInv
  <2>2. K(c)' = k
    BY <1>1 DEF K, Moves
  <2>3. QED
    BY <1>1, <2>1, <2>2 DEF Single, Few, Found
<1>8. QED
  BY <1>4, <1>6, <1>7, OwnStep

\* CreateAssetCollection makes a collection without annotation.
LEMMA CreateCollectionInv ==
    ASSUME CallsInv, NEW c \in Calls, CreateCollection(c)
    PROVE  CallsInv'
<1> PICK k : k = K(c)
  OBVIOUS
<1> PICK data : data = [text |-> c, annotation |-> None]
  OBVIOUS
<1> PICK entry : entry = [state |-> "there", data |-> data]
  OBVIOUS
<1>1. Active(c) /\ TypeOK /\ Progress(c) /\ k \in Collections
  BY CallsAreOnCollections DEF CreateCollection, At, CallsInv, K
<1>2. call[c] \in CallState /\ call[c].at = 1 /\ call[c].op \in Creations
  BY <1>1, Places DEF CreateCollection, At
<1>3. call[c].op \in Operations /\ call[c].result = None
  BY <1>1, <1>2 DEF CallState, Active
<1>4. data \in Metadata /\ entry \in Entry
  BY DEF Metadata, Entry
<1>5. CASE Rejected(c)
  BY <1>1, <1>5, RejectedInv
<1>6. ASSUME NEW o \in Outcomes, Count(o),
             collection' = IF o = "refused" THEN collection
                           ELSE [collection EXCEPT ![k] = [state |-> "there", data |-> data]],
             IF o = "answered" THEN Onward(c, [call[c] EXCEPT !.copy = data], 1)
                               ELSE Ends(c, "failed"),
             UNCHANGED <<assets, announced, history>>
      PROVE  CallsInv'
  <2>1. UNCHANGED <<assets, announced, raced, surplus>> /\ failures' \in 0 .. MaxFailures
    BY <1>1, <1>6, AttemptsAre, CountTyped DEF history
  <2>2. CASE o = "refused"
    <3>1. Moves(c) /\ Progress(c)' /\ Whole(c)'
      BY <1>1, <1>6, <2>2, EndsStops, StoppedOwn
    <3>2. QED
      BY <1>1, <1>6, <2>1, <2>2, <3>1, NoGrowth, OnlyTheCall DEF TypeOK
  <2>3. CASE o # "refused"
    <3>1. Writes(k, entry)
      BY <1>6, <2>3 DEF Writes
    <3>2. collection'[k].data = data
      BY <1>1, <3>1 DEF Writes, TypeOK
    <3>3. SUFFICES Moves(c) /\ Progress(c)' /\ Whole(c)'
      <4>1. K(c)' = k
        BY <3>3 DEF Moves, K
      <4>2. Backed(K(c))'
        BY <3>2, <4>1 DEF Backed
      <4>3. QED
        BY <1>1, <1>4, <2>1, <3>1, <3>3, <4>2, OnlyTheData
    <3>4. CASE o # "answered"
      BY <1>1, <1>6, <3>4, EndsStops, StoppedOwn
    <3>5. CASE o = "answered"
      <4>1. PICK r : r = [call[c] EXCEPT !.copy = data]
        OBVIOUS
      <4>2. r \in CallState /\ r.op = call[c].op /\ r.at = 1 /\ r.alone = call[c].alone /\ r.result = None
        BY <1>2, <1>3, <1>4, <4>1 DEF CallState
      <4>3. GoesTo(c, r, 2)
        <5>1. Onward(c, r, 1)
          BY <1>6, <3>5, <4>1
        <5>2. Fits(call[c].op, 2)
          BY <1>2 DEF Fits
        <5>3. QED
          BY <1>1, <4>2, <5>1, <5>2, Advance
      <4>4. K(c)' = k /\ call'[c].op = call[c].op /\ call'[c].at = 2
        BY <4>3, WentOn
      <4>5. 2 <= Len(Chain(call[c].op)) /\ call[c].op \notin Deletions \cup Editing
        BY <1>2, <1>3, Room, KindsOfCalls DEF Fits, Editing
      <4>6. Progress(c)'
        BY <1>2, <1>3, <4>4, <4>5 DEF Progress, Editing
      <4>7. Whole(c)'
        BY <3>2, <4>4, <4>5 DEF Whole, WholeText, WholeSetting, WholeUnsetting, Editing
      <4>8. QED
        BY <4>3, <4>6, <4>7 DEF GoesTo
    <3>6. QED
      BY <3>4, <3>5
  <2>4. QED
    BY <2>2, <2>3
<1>7. QED
  BY <1>5, <1>6 DEF CreateCollection

\* The metadata a call sends: what it read but for the keys it is about.
LEMMA NewMetadataKeeps ==
    ASSUME TypeOK, NEW c \in Calls, Active(c), Progress(c), Step(c) = "put", NEW data,
           data = NewMetadata(c)
    PROVE  /\ data \in Metadata
           /\ call[c].op \in Updates =>
                data.text = c /\ data.annotation = call[c].copy.annotation
           /\ call[c].op \in Settings =>
                /\ data.text = call[c].copy.text
                /\ data.annotation = [image |-> call[c].image, thumbnail |-> call[c].thumbnail, by |-> c]
           /\ call[c].op \in Unsettings =>
                data.text = call[c].copy.text /\ data.annotation = None
<1> PICK r : r = call[c]
  OBVIOUS
<1>1. /\ r \in CallState
      /\ \/ r.at = 2 /\ r.op \in Updates \cup Unsettings
         \/ r.at = 8 /\ r.op \in Settings
  BY Places
<1>2. r.copy \in Metadata
  BY <1>1 DEF Progress, Editing
<1>3. r.image \in Nat /\ r.thumbnail \in Nat /\ r.op \in Operations
  BY <1>1 DEF CallState
<1>4. CASE r.op \in Updates
  <2>1. data = [r.copy EXCEPT !.text = c]
    BY <1>4 DEF NewMetadata
  <2>2. QED
    BY <1>2, <1>3, <1>4, <2>1, KindsOfCalls DEF Metadata
<1>5. CASE r.op \in Settings
  <2>1. PICK ann : ann = [image |-> r.image, thumbnail |-> r.thumbnail, by |-> c]
    OBVIOUS
  <2>2. ann \in Annotation
    BY <1>3, <2>1 DEF Annotation
  <2>3. data = [r.copy EXCEPT !.annotation = ann]
    BY <1>3, <1>5, <2>1, KindsOfCalls DEF NewMetadata
  <2>4. data \in Metadata /\ data.text = r.copy.text /\ data.annotation = ann
    BY <1>2, <2>2, <2>3 DEF Metadata
  <2>5. QED
    BY <1>3, <1>5, <2>1, <2>4, KindsOfCalls
<1>6. CASE r.op \in Unsettings
  <2>1. data = [r.copy EXCEPT !.annotation = None]
    BY <1>3, <1>6, KindsOfCalls DEF NewMetadata
  <2>2. QED
    BY <1>2, <1>3, <1>6, <2>1, KindsOfCalls DEF Metadata
<1>7. QED
  BY <1>1, <1>4, <1>5, <1>6

\* How a call goes on after UpdateAssetCollectionMetadata.
AfterPut(c, data, ok) ==
    IF ok \/ call[c].op \in Unsettings
    THEN Onward(c, [call[c] EXCEPT !.copy = IF ok THEN data ELSE None], 1)
    ELSE Ends(c, "failed")

\* After a failed one, the removal of an annotation knows nothing any more.
LEMMA FailedPut ==
    ASSUME CallsInv, NEW c \in Calls, Active(c), Step(c) = "put", NEW data, AfterPut(c, data, FALSE)
    PROVE  Moves(c) /\ Progress(c)' /\ Whole(c)'
<1>1. TypeOK /\ Progress(c)
  BY DEF CallsInv
<1>2. CASE call[c].op \notin Unsettings
  BY <1>1, <1>2, EndsStops, StoppedOwn DEF AfterPut
<1>3. CASE call[c].op \in Unsettings
  <2>1. call[c] \in CallState /\ call[c].op \in Operations /\ call[c].result = None
    BY <1>1, Places DEF CallState, Active
  <2>2. /\ call[c].at = 2
        /\ call[c].op \notin Creations \cup Deletions \cup Updates \cup Settings
    BY <1>1, <1>3, <2>1, Places, KindsOfCalls
  <2>3. PICK r : r = [call[c] EXCEPT !.copy = None]
    OBVIOUS
  <2>4. /\ r \in CallState /\ r.op = call[c].op /\ r.at = 2 /\ r.copy = None
        /\ r.read = call[c].read /\ r.alone = call[c].alone /\ r.result = None
    BY <2>1, <2>2, <2>3 DEF CallState
  <2>5. GoesTo(c, r, 3)
    <3>1. Onward(c, r, 1)
      BY <1>3, <2>3 DEF AfterPut
    <3>2. Fits(call[c].op, 3)
      BY <1>3 DEF Fits
    <3>3. QED
      BY <1>1, <2>4, <3>1, <3>2, Advance
  <2>6. /\ K(c)' = K(c) /\ call'[c].op = call[c].op /\ call'[c].at = 3
        /\ call'[c].copy = None /\ call'[c].read = call[c].read
    BY <2>4, <2>5, WentOn
  <2>7. call[c].read \in Metadata /\ 3 <= Len(Chain(call[c].op))
    BY <1>1, <1>3, <2>1, <2>2, Room DEF Progress, Editing, Fits
  <2>8. Progress(c)'
    BY <2>2, <2>6, <2>7 DEF Progress, Editing
  <2>9. Whole(c)'
    BY <2>2, <2>6 DEF Whole, WholeText, WholeSetting, WholeUnsetting
  <2>10. QED
    BY <2>5, <2>8, <2>9 DEF GoesTo
<1>4. QED
  BY <1>2, <1>3

\* After an answered one, the call knows what it wrote.
LEMMA AnsweredPut ==
    ASSUME CallsInv, NEW c \in Calls, Active(c), Step(c) = "put", NEW data, data = NewMetadata(c),
           AfterPut(c, data, TRUE), collection'[K(c)].data = data,
           assets' = assets, announced' = announced
    PROVE  Moves(c) /\ Progress(c)' /\ Whole(c)'
<1> PICK k : k = K(c)
  OBVIOUS
<1>1. TypeOK /\ Progress(c) /\ Whole(c)
  BY DEF CallsInv
<1>2. /\ call[c] \in CallState /\ call[c].op \in Operations /\ call[c].result = None
      /\ \/ call[c].at = 2 /\ call[c].op \in Updates \cup Unsettings
         \/ call[c].at = 8 /\ call[c].op \in Settings
  <2>1. /\ call[c] \in CallState
        /\ \/ call[c].at = 2 /\ call[c].op \in Updates \cup Unsettings
           \/ call[c].at = 8 /\ call[c].op \in Settings
    BY <1>1, Places
  <2>2. QED
    BY <2>1 DEF CallState, Active
<1>3. /\ data \in Metadata
      /\ call[c].op \in Updates =>
           data.text = c /\ data.annotation = call[c].copy.annotation
      /\ call[c].op \in Settings =>
           /\ data.text = call[c].copy.text
           /\ data.annotation = [image |-> call[c].image, thumbnail |-> call[c].thumbnail, by |-> c]
      /\ call[c].op \in Unsettings =>
           data.text = call[c].copy.text /\ data.annotation = None
  BY <1>1, NewMetadataKeeps
<1>4. PICK r : r = [call[c] EXCEPT !.copy = data]
  OBVIOUS
<1>5. /\ r \in CallState /\ r.op = call[c].op /\ r.at = call[c].at /\ r.copy = data
      /\ r.read = call[c].read /\ r.image = call[c].image /\ r.thumbnail = call[c].thumbnail
      /\ r.alone = call[c].alone /\ r.result = None
  BY <1>2, <1>3, <1>4 DEF CallState
<1>6. PICK m : m = call[c].at + 1
  OBVIOUS
<1>7. m \in 1 .. 9 /\ m = r.at + 1 /\ Fits(call[c].op, m)
  BY <1>2, <1>5, <1>6 DEF Fits
<1>8. GoesTo(c, r, m)
  <2>1. Onward(c, r, 1)
    BY <1>4 DEF AfterPut
  <2>2. QED
    BY <1>1, <1>5, <1>7, <2>1, Advance
<1>9. /\ K(c)' = k /\ call'[c].op = call[c].op /\ call'[c].at = m
      /\ call'[c].copy = data /\ call'[c].read = call[c].read
      /\ call'[c].image = call[c].image /\ call'[c].thumbnail = call[c].thumbnail
      /\ call'[c].alone = call[c].alone
  BY <1>5, <1>8, WentOn
<1>10. m <= Len(Chain(call[c].op)) /\ call[c].read \in Metadata
  <2>1. m \in Nat /\ call[c].at >= 2 /\ call[c].op \in Editing
    BY <1>2, <1>7 DEF Editing
  <2>2. call[c].read \in Metadata
    BY <1>1, <2>1 DEF Progress
  <2>3. QED
    BY <1>2, <1>7, <2>1, <2>2, Room
<1>11. CASE call[c].op \in Updates
  <2>1. call[c].op \notin Creations \cup Deletions \cup Settings \cup Unsettings /\ m = 3 /\ call[c].at = 2
    BY <1>2, <1>6, <1>11, KindsOfCalls
  <2>2. Progress(c)'
    BY <1>3, <1>9, <1>10, <2>1 DEF Progress, Editing
  <2>3. call[c].alone => call[c].copy = call[c].read
    BY <1>1, <1>11, <2>1 DEF Whole, WholeText
  <2>4. Whole(c)'
    BY <1>3, <1>9, <1>11, <2>1, <2>3 DEF Whole, WholeText, WholeSetting, WholeUnsetting
  <2>5. QED
    BY <1>8, <2>2, <2>4 DEF GoesTo
<1>12. CASE call[c].op \in Unsettings
  <2>1. call[c].op \notin Creations \cup Deletions \cup Settings \cup Updates /\ m = 3 /\ call[c].at = 2
    BY <1>2, <1>6, <1>12, KindsOfCalls
  <2>2. Progress(c)'
    BY <1>3, <1>9, <1>10, <2>1 DEF Progress, Editing
  <2>3. call[c].alone => call[c].copy = call[c].read
    BY <1>1, <1>12, <2>1 DEF Whole, WholeUnsetting
  <2>4. Whole(c)'
    BY <1>3, <1>9, <1>12, <2>1, <2>3 DEF Whole, WholeText, WholeSetting, WholeUnsetting
  <2>5. QED
    BY <1>8, <2>2, <2>4 DEF GoesTo
<1>13. CASE call[c].op \in Settings
  <2>1. call[c].op \notin Creations \cup Deletions \cup Unsettings \cup Updates /\ m = 9 /\ call[c].at = 8
    BY <1>2, <1>6, <1>13, KindsOfCalls
  <2>2. Asset(k, "image", call[c].image) /\ Asset(k, "thumbnail", call[c].thumbnail)
    BY <1>1, <1>13, <2>1 DEF Progress
  <2>3. Asset(k, "image", call[c].image)' /\ Asset(k, "thumbnail", call[c].thumbnail)'
    BY <1>9, <2>2 DEF Asset
  <2>4. Progress(c)'
    BY <1>3, <1>9, <1>10, <2>1, <2>3 DEF Progress, Editing
  <2>5. call[c].alone =>
          /\ call[c].copy = call[c].read
          /\ call[c].image \in Found(k, "image") /\ assets[call[c].image].data = c
          /\ call[c].thumbnail \in Found(k, "thumbnail") /\ assets[call[c].thumbnail].data = c
    BY <1>1, <1>13, <2>1 DEF Whole, WholeSetting
  <2>6. Found(k, "image")' = Found(k, "image") /\ Found(k, "thumbnail")' = Found(k, "thumbnail")
    BY DEF Found
  <2>7. Whole(c)'
    BY <1>3, <1>9, <1>13, <2>1, <2>5, <2>6 DEF Whole, WholeText, WholeSetting, WholeUnsetting
  <2>8. QED
    BY <1>8, <2>4, <2>7 DEF GoesTo
<1>14. QED
  BY <1>2, <1>11, <1>12, <1>13

\* After one that is sent again, the call knows as much as before.
LEMMA ResentPut ==
    ASSUME CallsInv, NEW c \in Calls, Active(c), Step(c) = "put", NEW data, data = NewMetadata(c),
           UNCHANGED call, collection'[K(c)].data = data,
           assets' = assets, announced' = announced, surplus' = surplus, raced' = raced
    PROVE  Moves(c) /\ Progress(c)' /\ Whole(c)'
<1> PICK k : k = K(c)
  OBVIOUS
<1>1. TypeOK /\ Progress(c) /\ Whole(c)
  BY DEF CallsInv
<1>2. Moves(c) /\ Progress(c)' /\ K(c)' = k
  BY StaysInOrder DEF Kept
<1>3. /\ call[c] \in CallState /\ call[c].op \in Operations
      /\ \/ call[c].at = 2 /\ call[c].op \in Updates \cup Unsettings
         \/ call[c].at = 8 /\ call[c].op \in Settings
  <2>1. /\ call[c] \in CallState
        /\ \/ call[c].at = 2 /\ call[c].op \in Updates \cup Unsettings
           \/ call[c].at = 8 /\ call[c].op \in Settings
    BY <1>1, Places
  <2>2. QED
    BY <2>1 DEF CallState
<1>4. call[c].op \in Updates => data.annotation = call[c].copy.annotation
  BY <1>1, NewMetadataKeeps
<1>5. Found(k, "image")' = Found(k, "image") /\ Found(k, "thumbnail")' = Found(k, "thumbnail")
  BY DEF Found
<1>6. CASE call[c].op \in Updates
  <2>1. call[c].op \notin Creations \cup Deletions \cup Settings \cup Unsettings /\ call[c].at = 2
    BY <1>3, <1>6, KindsOfCalls
  <2>2. call[c].alone => call[c].copy = call[c].read
    BY <1>1, <1>6, <2>1 DEF Whole, WholeText
  <2>3. Whole(c)'
    BY <1>2, <1>4, <1>6, <2>1, <2>2 DEF Whole, WholeText, WholeSetting, WholeUnsetting
  <2>4. QED
    BY <1>2, <2>3
<1>7. CASE call[c].op \in Unsettings
  <2>1. call[c].op \notin Creations \cup Deletions \cup Settings \cup Updates /\ call[c].at = 2
    BY <1>3, <1>7, KindsOfCalls
  <2>2. call[c].alone => call[c].copy = call[c].read
    BY <1>1, <1>7, <2>1 DEF Whole, WholeUnsetting
  <2>3. Whole(c)'
    BY <1>2, <2>1, <2>2 DEF Whole, WholeText, WholeSetting, WholeUnsetting
  <2>4. QED
    BY <1>2, <2>3
<1>8. CASE call[c].op \in Settings
  <2>1. call[c].op \notin Creations \cup Deletions \cup Unsettings \cup Updates /\ call[c].at = 8
    BY <1>3, <1>8, KindsOfCalls
  <2>2. call[c].alone =>
          /\ call[c].copy = call[c].read
          /\ call[c].image \in Found(k, "image") /\ assets[call[c].image].data = c
          /\ call[c].thumbnail \in Found(k, "thumbnail") /\ assets[call[c].thumbnail].data = c
    BY <1>1, <1>8, <2>1 DEF Whole, WholeSetting
  <2>3. Whole(c)'
    BY <1>2, <1>5, <2>1, <2>2 DEF Whole, WholeText, WholeSetting, WholeUnsetting
  <2>4. QED
    BY <1>2, <2>3
<1>9. QED
  BY <1>3, <1>6, <1>7, <1>8

\* UpdateAssetCollectionMetadata keeps the annotation backed: an annotation is
\* named after its assets are uploaded, and removed before they are.
LEMMA PutInv ==
    ASSUME CallsInv, NEW c \in Calls, Put(c)
    PROVE  CallsInv'
<1> PICK k : k = K(c)
  OBVIOUS
<1> PICK data : data = NewMetadata(c)
  OBVIOUS
<1>1. Active(c) /\ TypeOK /\ Progress(c) /\ Step(c) = "put" /\ k \in Collections
  BY CallsAreOnCollections DEF Put, At, CallsInv, K
<1>2. UNCHANGED <<assets, announced, raced, surplus>>
  BY DEF Put, history
<1>3. ASSUME AfterPut(c, data, FALSE), collection' = collection, failures' \in 0 .. MaxFailures
      PROVE  CallsInv'
  <2>1. Moves(c) /\ Progress(c)' /\ Whole(c)'
    BY <1>1, <1>3, FailedPut
  <2>2. QED
    BY <1>1, <1>2, <1>3, <2>1, NoGrowth, OnlyTheCall DEF TypeOK
<1>4. ASSUME AfterPut(c, data, FALSE) \/ AfterPut(c, data, TRUE) \/ UNCHANGED call,
             collection' = [collection EXCEPT ![k].data = data], failures' \in 0 .. MaxFailures
      PROVE  CallsInv'
  <2>1. PICK entry : entry = [collection[k] EXCEPT !.data = data]
    OBVIOUS
  <2>2. data \in Metadata
    BY <1>1, NewMetadataKeeps
  <2>3. collection[k] \in Entry
    BY <1>1 DEF TypeOK, Entry
  <2>4. entry \in Entry /\ entry.data = data
    BY <2>1, <2>2, <2>3 DEF Entry
  <2>5. Writes(K(c), entry)
    BY <1>4, <2>1 DEF Writes
  <2>6. collection'[k].data = data
    BY <1>1, <2>4, <2>5 DEF Writes, TypeOK
  <2>7. Moves(c) /\ Progress(c)' /\ Whole(c)'
    BY <1>1, <1>2, <1>4, <2>6, FailedPut, AnsweredPut, ResentPut
  <2>8. K(c)' = k
    BY <2>7 DEF Moves, K
  <2>9. k \notin raced => Backed(K(c))'
    <3> SUFFICES ASSUME k \notin raced
                 PROVE  Backed(K(c))'
      OBVIOUS
    <3>1. /\ call[c].alone /\ Whole(c) /\ Backed(k)
      BY <1>1, NotRacedIsAlone
    <3>2. \A kind : Found(k, kind)' = Found(k, kind)
      BY <1>2 DEF Found
    <3>3. CASE call[c].op \in Updates
      <4>1. call[c].op \in Operations /\ call[c].at = 2
        BY <1>1, <3>3, Places, KindsOfCalls DEF CallState
      <4>2. data.annotation = collection[k].data.annotation
        <5>1. call[c].copy.annotation = collection[k].data.annotation
          BY <1>1, <3>1, <3>3, <4>1 DEF Whole, WholeText
        <5>2. data.annotation = call[c].copy.annotation
          BY <1>1, <3>3, NewMetadataKeeps
        <5>3. QED
          BY <5>1, <5>2
      <4>3. QED
        BY <1>2, <2>6, <2>8, <3>1, <3>2, <4>2 DEF Backed
    <3>4. CASE call[c].op \in Settings
      <4>1. call[c].op \in Operations /\ call[c].at = 8
        BY <1>1, <3>4, Places, KindsOfCalls DEF CallState
      <4>2. data.annotation = [image |-> call[c].image, thumbnail |-> call[c].thumbnail, by |-> c]
        BY <1>1, <3>4, NewMetadataKeeps
      <4>3. /\ call[c].image \in Found(k, "image") /\ assets[call[c].image].data = c
            /\ call[c].thumbnail \in Found(k, "thumbnail") /\ assets[call[c].thumbnail].data = c
        BY <1>1, <3>1, <3>4, <4>1 DEF Whole, WholeSetting
      <4>4. c # None
        BY NoneAssumption
      <4>5. \A kind \in Kinds :
              /\ data.annotation[kind] \in Found(k, kind)
              /\ assets[data.annotation[kind]].data # None
        BY <4>2, <4>3, <4>4 DEF Kinds
      <4>6. QED
        BY <1>2, <2>6, <2>8, <3>2, <4>5 DEF Backed
    <3>5. CASE call[c].op \in Unsettings
      <4>1. data.annotation = None
        BY <1>1, <3>5, NewMetadataKeeps
      <4>2. QED
        BY <2>6, <2>8, <4>1 DEF Backed
    <3>6. QED
      BY <1>1, <3>3, <3>4, <3>5, Places
  <2>10. QED
    BY <1>1, <1>2, <1>4, <2>4, <2>5, <2>7, <2>9, OnlyTheData
<1>5. failures \in 0 .. MaxFailures
  BY <1>1 DEF TypeOK
<1>6. \/ AfterPut(c, data, FALSE) /\ UNCHANGED <<collection, failures>>
      \/ \E o \in Attempts :
           /\ Count(o)
           /\ collection' = IF o = "refused" THEN collection
                            ELSE [collection EXCEPT ![k].data = data]
           /\ IF o = "resent" THEN UNCHANGED call ELSE AfterPut(c, data, o = "answered")
  BY DEF Put, AfterPut
<1>7. CASE AfterPut(c, data, FALSE) /\ UNCHANGED <<collection, failures>>
  BY <1>3, <1>5, <1>7
<1>8. ASSUME NEW o \in Attempts, Count(o),
             collection' = IF o = "refused" THEN collection
                           ELSE [collection EXCEPT ![k].data = data],
             IF o = "resent" THEN UNCHANGED call ELSE AfterPut(c, data, o = "answered")
      PROVE  CallsInv'
  <2>1. failures' \in 0 .. MaxFailures
    BY <1>1, <1>8, CountTyped
  <2>2. CASE o = "refused"
    <3>1. AfterPut(c, data, FALSE)
      BY <1>8, <2>2
    <3>2. QED
      BY <1>3, <1>8, <2>1, <2>2, <3>1
  <2>3. CASE o # "refused"
    <3>1. AfterPut(c, data, FALSE) \/ AfterPut(c, data, TRUE) \/ UNCHANGED call
      BY <1>8 DEF AfterPut
    <3>2. QED
      BY <1>4, <1>8, <2>1, <2>3, <3>1
  <2>4. QED
    BY <2>2, <2>3
<1>9. QED
  BY <1>6, <1>7, <1>8

\* What DeleteAssetCollection removes with the collection k.
GoneWith(k, j) == j = k \/ (k = "conversation" /\ collection[j].state = "there")

Deletes(k) ==
    /\ collection' = [j \in Collections |->
          IF GoneWith(k, j) THEN [state |-> "gone", data |-> NoMetadata] ELSE collection[j]]
    /\ assets' = [a \in DOMAIN assets |->
          [assets[a] EXCEPT !.there = @ /\ ~GoneWith(k, assets[a].on)]]

\* A deletion leaves nothing of what it removes, and the rest as it is.
LEMMA DeletesWipe ==
    ASSUME TypeOK, NEW k \in Collections, Deletes(k)
    PROVE  /\ collection' \in [Collections -> Entry] /\ assets' \in Seq(AssetRecord)
           /\ Kept
           /\ \A j \in Collections : GoneWith(k, j) => Wiped(j)
           /\ \A j \in Collections : ~GoneWith(k, j) => Same(j)
<1>1. collection \in [Collections -> Entry] /\ assets \in Seq(AssetRecord)
  BY DEF TypeOK, Entry, AssetRecord
<1>2. NoMetadata \in Metadata /\ NoMetadata.annotation = None
  BY DEF NoMetadata, Metadata
<1>3. [state |-> "gone", data |-> NoMetadata] \in Entry
  BY <1>2 DEF Entry
<1>4. collection' \in [Collections -> Entry]
  BY <1>1, <1>3 DEF Deletes
<1>5. ASSUME NEW a \in DOMAIN assets
      PROVE  /\ assets[a] \in AssetRecord /\ assets'[a] \in AssetRecord
             /\ assets'[a].on = assets[a].on /\ assets'[a].kind = assets[a].kind
             /\ assets'[a].there => assets[a].there /\ ~GoneWith(k, assets[a].on)
             /\ ~GoneWith(k, assets[a].on) => assets'[a] = assets[a]
  <2>1. PICK r : r = assets[a]
    OBVIOUS
  <2>2. r \in AssetRecord
    BY <1>1, <2>1
  <2>3. PICK there : there = (r.there /\ ~GoneWith(k, r.on))
    OBVIOUS
  <2>4. there \in BOOLEAN
    BY <2>3
  <2>5. assets'[a] = [r EXCEPT !.there = there]
    BY <2>1, <2>3 DEF Deletes
  <2>6. ~GoneWith(k, r.on) => there = r.there
    <3>1. r.there \in BOOLEAN
      BY <2>2 DEF AssetRecord
    <3>2. QED
      BY <2>3, <3>1
  <2>7. ~GoneWith(k, r.on) => assets'[a] = r
    BY <2>2, <2>5, <2>6 DEF AssetRecord
  <2>8. /\ assets'[a] \in AssetRecord /\ assets'[a].on = r.on /\ assets'[a].kind = r.kind
        /\ assets'[a].there = there
    BY <2>2, <2>4, <2>5 DEF AssetRecord
  <2>9. QED
    BY <2>1, <2>2, <2>3, <2>7, <2>8
<1>6. DOMAIN assets' = DOMAIN assets
  BY DEF Deletes
<1>7. assets' \in Seq(AssetRecord)
  <2>1. DOMAIN assets = 1 .. Len(assets) /\ Len(assets) \in Nat
    BY <1>1
  <2>2. assets' = [a \in 1 .. Len(assets) |-> assets'[a]]
    BY <2>1 DEF Deletes
  <2>3. QED
    BY <1>5, <2>1, <2>2
<1>8. Kept
  BY <1>5, <1>6 DEF Kept
<1>9. ASSUME NEW j \in Collections, GoneWith(k, j)
      PROVE  Wiped(j)
  <2>1. collection'[j].data.annotation = None
    BY <1>2, <1>9 DEF Deletes
  <2>2. \A kind \in Kinds : \A a \in DOMAIN assets' :
           ~(assets'[a].there /\ assets'[a].on = j /\ assets'[a].kind = kind)
    BY <1>5, <1>6, <1>9
  <2>3. \A kind \in Kinds : Found(j, kind)' = {}
    BY <2>2 DEF Found
  <2>4. QED
    BY <2>1, <2>3 DEF Wiped
<1>10. ASSUME NEW j \in Collections, ~GoneWith(k, j)
       PROVE  Same(j)
  <2>1. collection'[j] = collection[j]
    BY <1>10 DEF Deletes
  <2>2. QED
    BY <1>5, <1>6, <1>10, <2>1 DEF Same
<1>11. QED
  BY <1>4, <1>7, <1>8, <1>9, <1>10

\* DeleteAssetCollection leaves nothing of the collection to be backed.
LEMMA DeleteCollectionInv ==
    ASSUME CallsInv, NEW c \in Calls, DeleteCollection(c)
    PROVE  CallsInv'
<1> PICK k : k = K(c)
  OBVIOUS
<1>1. Active(c) /\ TypeOK /\ Progress(c) /\ k \in Collections
  BY CallsAreOnCollections DEF DeleteCollection, At, CallsInv, K
<1>2. call[c] \in CallState /\ call[c].at = 3 /\ call[c].op \in Deletions
  BY <1>1, Places DEF DeleteCollection, At
<1>3. CASE Rejected(c)
  BY <1>1, <1>3, RejectedInv
<1>4. ASSUME NEW o \in Attempts, Count(o),
             o = "refused" => collection' = collection /\ assets' = assets,
             o # "refused" => Deletes(k),
             Continues(c, call[c], o),
             UNCHANGED <<announced, history>>
      PROVE  CallsInv'
  <2>1. failures' \in 0 .. MaxFailures /\ UNCHANGED <<announced, raced, surplus>>
    BY <1>1, <1>4, CountTyped DEF history
  <2>2. Moves(c) /\ Progress(c)' /\ Whole(c)'
    <3>1. ~Fits(call[c].op, call[c].at + 1)
      BY <1>2 DEF Fits, Creations, Deletions, Updates, Settings, Unsettings
    <3>2. CASE Onward(c, call[c], 1) \/ Ends(c, "failed")
      BY <1>1, <3>1, <3>2, EndsStops, Finish, StoppedOwn
    <3>3. CASE o = "resent" /\ UNCHANGED call
      <4>1. Kept
        BY <1>1, <1>4, <3>3, DeletesWipe
      <4>2. Moves(c) /\ Progress(c)'
        BY <1>1, <2>1, <3>3, <4>1, StaysInOrder
      <4>3. call[c].op \notin Creations \cup Editing
        <5>1. call[c].op \in Operations
          BY <1>2 DEF CallState
        <5>2. QED
          BY <1>2, <5>1, KindsOfCalls DEF Editing
      <4>4. Whole(c)'
        BY <3>3, <4>3 DEF Whole, WholeText, WholeSetting, WholeUnsetting, Editing
      <4>5. QED
        BY <4>2, <4>4
    <3>4. QED
      BY <1>4, <3>2, <3>3 DEF Continues
  <2>3. CASE o = "refused"
    BY <1>1, <1>4, <2>1, <2>2, <2>3, NoGrowth, OnlyTheCall DEF TypeOK
  <2>4. CASE o # "refused"
    <3>1. Deletes(k)
      BY <1>4, <2>4
    <3>2. /\ collection' \in [Collections -> Entry] /\ assets' \in Seq(AssetRecord)
          /\ Kept
          /\ \A j \in Collections : GoneWith(k, j) => Wiped(j)
          /\ \A j \in Collections : ~GoneWith(k, j) => Same(j)
      BY <1>1, <3>1, DeletesWipe
    <3>3. TypeOK'
      BY <1>1, <2>1, <2>2, <3>2 DEF TypeOK, Entry, AssetRecord, Moves
    <3>4. k = "conversation" => call[c].op = "DeleteConversation"
      BY <1>2 DEF K, On, Deletions
    <3>5. Steady(c)
      BY <1>1, <2>1, <3>2, <3>4, NoGrowth DEF Steady, GoneWith
    <3>6. Wiped(k) /\ K(c)' = k
      BY <1>1, <2>2, <3>2 DEF GoneWith, Moves, K
    <3>7. Backed(K(c))' /\ Single(K(c))'
      <4>1. Grows
        BY <1>1, <2>1, NoGrowth
      <4>2. Backed(k)' /\ Single(k)'
        BY <1>1, <3>6, <4>1, NoneAreFew DEF Wiped, Backed, Single
      <4>3. QED
        BY <3>6, <4>2 DEF Backed, Single, Few
    <3>8. QED
      BY <1>1, <2>2, <3>3, <3>5, <3>7, OwnStep
  <2>5. QED
    BY <2>3, <2>4
<1>5. QED
  BY <1>3, <1>4 DEF DeleteCollection, Deletes, GoneWith

----------------------------------------------------------------------------
(***************************************************************************)
(* The requests about the annotation assets.                               *)
(***************************************************************************)

\* GetOrCreateAnnotationAsset: the asset it settles on is the collection's.
LEMMA FindForSettingKeeps ==
    ASSUME CallsInv, NEW c \in Calls, Active(c), NEW kind \in Kinds, call[c].op \in Settings,
           call[c].at = IF kind = "image" THEN 2 ELSE 5,
           NEW ok \in BOOLEAN, FindForSetting(c, kind, Found(K(c), kind), ok),
           collection' = collection, assets' = assets, announced' = announced,
           raced' = raced, Grows,
           ~ok /\ Found(K(c), kind) # {} => surplus'[K(c)][kind] = surplus[K(c)][kind] + 1
    PROVE  Moves(c) /\ Progress(c)' /\ Whole(c)'
<1> PICK k : k = K(c)
  OBVIOUS
<1> PICK found : found = Found(k, kind)
  OBVIOUS
<1>1. TypeOK /\ Progress(c) /\ Whole(c)
  BY DEF CallsInv
<1>2. call[c] \in CallState /\ call[c].op \in Operations /\ call[c].result = None
  BY <1>1 DEF TypeOK, Active, CallState
<1>3. call[c].op \notin Creations \cup Deletions \cup Updates \cup Unsettings
  BY <1>2, KindsOfCalls
<1>4. call[c].read \in Metadata /\ call[c].copy \in Metadata
  BY <1>1, <1>3 DEF Progress, Editing, Kinds
<1>5. call[c].alone => call[c].copy = call[c].read
  BY <1>1 DEF Whole, WholeSetting, Kinds
<1>6. kind = "thumbnail" => Asset(k, "image", call[c].image)
  BY <1>1 DEF Progress
<1>7. (kind = "thumbnail" /\ call[c].alone) =>
         call[c].image \in Found(k, "image") /\ assets[call[c].image].data = c
  BY <1>1 DEF Whole, WholeSetting
<1>8. \A j, q : Found(j, q)' = Found(j, q)
  BY DEF Found
<1>14. ASSUME k \notin raced, ~ok \/ found = {}
       PROVE  Few(k, kind, 0)'
  <2>1. k \in Collections
    BY CallsAreOnCollections DEF K
  <2>2. CASE found = {}
    BY <1>8, <2>1, <2>2, NoneAreFew
  <2>3. CASE found # {}
    <3>1. /\ surplus[k][kind] \in Nat
          /\ surplus'[k][kind] = surplus[k][kind] + 1
      BY <1>1, <1>14, <2>1, <2>3 DEF TypeOK
    <3>2. Cardinality(found) \in Nat
      BY <1>1, FoundIsFinite
    <3>3. Cardinality(found) <= 1 + surplus[k][kind]
      BY <1>14, <2>1 DEF CallsInv, Single, Few
    <3>4. Cardinality(found) <= 0 + surplus'[k][kind]
      BY <3>1, <3>2, <3>3
    <3>5. Found(k, kind)' = found
      BY <1>8
    <3>6. QED
      BY <3>4, <3>5 DEF Few
  <2>4. QED
    BY <2>2, <2>3
<1>9. ASSUME NEW r \in CallState, NEW m \in 3 .. 7, GoesTo(c, r, m),
             r.copy = call[c].copy, r.read = call[c].read,
             kind = "image" => m \in {3, 4},
             kind = "thumbnail" => m \in {6, 7} /\ r.image = call[c].image,
             (m = 3 \/ m = 6) => ~ok \/ found = {},
             m = 4 => r.image \in found /\ Asset(k, "image", r.image),
             m = 7 => r.thumbnail \in found /\ Asset(k, "thumbnail", r.thumbnail)
      PROVE  Moves(c) /\ Progress(c)' /\ Whole(c)'
  <2>1. /\ K(c)' = k /\ call'[c].op = call[c].op /\ call'[c].at = m
        /\ call'[c].copy = call[c].copy /\ call'[c].read = call[c].read
        /\ call'[c].image = r.image /\ call'[c].thumbnail = r.thumbnail
        /\ call'[c].alone = call[c].alone
    BY <1>9, WentOn
  <2>2. m <= Len(Chain(call[c].op))
    BY <1>2, Room DEF Fits
  <2>3. m >= 4 => Asset(k, "image", r.image)
    BY <1>6, <1>9 DEF Kinds
  <2>4. /\ m >= 4 => Asset(K(c), "image", call[c].image)'
        /\ m = 7 => Asset(K(c), "thumbnail", call[c].thumbnail)'
    BY <1>9, <2>1, <2>3 DEF Asset
  <2>5. Progress(c)'
    BY <1>3, <1>4, <2>1, <2>2, <2>4 DEF Progress, Editing
  <2>6. ASSUME call[c].alone
        PROVE  WholeSetting(c, call[c], K(c), collection[K(c)].data)'
    <3>1. /\ m = 3 /\ k \notin raced' => Few(k, "image", 0)'
          /\ m = 6 /\ k \notin raced' => Few(k, "thumbnail", 0)'
      <4>1. (m = 3 \/ m = 6) /\ k \notin raced => Few(k, kind, 0)'
        BY <1>9, <1>14
      <4>2. /\ kind = "image" => m # 6
            /\ kind = "thumbnail" => m # 3
        BY <1>9
      <4>3. QED
        BY <4>1, <4>2 DEF Kinds
    <3>2. /\ m >= 4 => r.image \in Found(k, "image")
          /\ m >= 5 => assets[r.image].data = c
          /\ m = 7 => r.thumbnail \in Found(k, "thumbnail")
      BY <1>7, <1>9, <2>6 DEF Kinds
    <3>3. QED
      BY <1>5, <1>8, <2>1, <2>6, <3>1, <3>2 DEF WholeSetting
  <2>7. Whole(c)'
    BY <1>3, <2>1, <2>6 DEF Whole, WholeText, WholeUnsetting
  <2>8. QED
    BY <1>9, <2>5, <2>7 DEF GoesTo
<1>10. CASE ~ok \/ found = {}
  <2>1. PICK m : m = IF kind = "image" THEN 3 ELSE 6
    OBVIOUS
  <2>2. m \in 1 .. 9 /\ m \in 3 .. 7 /\ m = call[c].at + 1 /\ Fits(call[c].op, m)
    BY <2>1 DEF Fits, Kinds
  <2>3. Onward(c, call[c], 1)
    BY <1>10 DEF FindForSetting
  <2>4. GoesTo(c, call[c], m)
    BY <1>1, <1>2, <2>2, <2>3, Advance
  <2>5. QED
    BY <1>2, <1>9, <1>10, <2>1, <2>2, <2>4 DEF Kinds
<1>11. CASE ok /\ found # {} /\ Cardinality(found) = 1
  <2>1. PICK a : found = {a} /\ a \in Nat /\ Asset(k, kind, a)
    BY <1>1, <1>11, FoundIsFinite
  <2>2. PICK r : r = [call[c] EXCEPT ![kind] = a]
    OBVIOUS
  <2>3. /\ r \in CallState
        /\ r.op = call[c].op /\ r.at = call[c].at /\ r.alone = call[c].alone
        /\ r.result = None
        /\ r.copy = call[c].copy /\ r.read = call[c].read
        /\ kind = "image" => r.image = a
        /\ kind = "thumbnail" => r.thumbnail = a /\ r.image = call[c].image
    BY <1>2, <2>1, <2>2, AssetField
  <2>4. Onward(c, r, 2)
    <3>1. (CHOOSE x \in found : TRUE) = a
      BY <2>1
    <3>2. QED
      BY <1>11, <2>2, <3>1 DEF FindForSetting
  <2>5. PICK m : m = IF kind = "image" THEN 4 ELSE 7
    OBVIOUS
  <2>6. m \in 1 .. 9 /\ m \in 3 .. 7 /\ m = r.at + 2 /\ Fits(call[c].op, m)
    BY <2>3, <2>5 DEF Fits, Kinds
  <2>7. GoesTo(c, r, m)
    BY <1>1, <2>3, <2>4, <2>6, Advance
  <2>8. QED
    BY <1>9, <2>1, <2>3, <2>5, <2>6, <2>7 DEF Kinds
<1>12. CASE ok /\ found # {} /\ Cardinality(found) # 1
  <2>1. Ends(c, "failed")
    BY <1>12 DEF FindForSetting
  <2>2. QED
    BY <1>1, <2>1, EndsStops, StoppedOwn
<1>13. QED
  BY <1>10, <1>11, <1>12

\* GetAnnotationAsset: the asset it goes on with is the collection's only one.
LEMMA FindForRemovingKeeps ==
    ASSUME CallsInv, NEW c \in Calls, Active(c), NEW kind \in Kinds, call[c].op \in Unsettings,
           call[c].at = IF kind = "image" THEN 4 ELSE 6,
           NEW found, found = IF call[c].copy = None THEN {} ELSE Found(K(c), kind),
           NEW ok \in BOOLEAN, FindForRemoving(c, kind, found, ok),
           collection' = collection, assets' = assets, announced' = announced
    PROVE  Moves(c) /\ Progress(c)' /\ Whole(c)'
<1> PICK k : k = K(c)
  OBVIOUS
<1>1. TypeOK /\ Progress(c) /\ Whole(c)
  BY DEF CallsInv
<1>2. call[c] \in CallState /\ call[c].op \in Operations /\ call[c].result = None
  BY <1>1 DEF TypeOK, Active, CallState
<1>3. call[c].op \notin Creations \cup Deletions \cup Updates \cup Settings
  BY <1>2, KindsOfCalls
<1>4. CASE ~(ok /\ Cardinality(found) = 1)
  <2>1. Ends(c, "failed")
    BY <1>4 DEF FindForRemoving
  <2>2. QED
    BY <1>1, <2>1, EndsStops, StoppedOwn
<1>5. CASE ok /\ Cardinality(found) = 1
  <2>1. call[c].copy # None /\ found = Found(k, kind)
    BY <1>5, FS_EmptySet
  <2>2. call[c].copy \in Metadata /\ call[c].read \in Metadata
    BY <1>1, <1>2, <2>1 DEF CallState, Progress, Editing, Kinds
  <2>3. PICK a : found = {a} /\ a \in Nat /\ Asset(k, kind, a)
    BY <1>1, <1>5, <2>1, FoundIsFinite
  <2>4. PICK r : r = [call[c] EXCEPT ![kind] = a]
    OBVIOUS
  <2>5. /\ r \in CallState
        /\ r.op = call[c].op /\ r.at = call[c].at /\ r.alone = call[c].alone
        /\ r.result = None
        /\ r.copy = call[c].copy /\ r.read = call[c].read
        /\ kind = "image" => r.image = a
        /\ kind = "thumbnail" => r.thumbnail = a /\ r.image = call[c].image
    BY <1>2, <2>3, <2>4, AssetField
  <2>6. Onward(c, r, 1)
    <3>1. (CHOOSE x \in found : TRUE) = a
      BY <2>3
    <3>2. QED
      BY <1>5, <2>4, <3>1 DEF FindForRemoving
  <2>7. PICK m : m = IF kind = "image" THEN 5 ELSE 7
    OBVIOUS
  <2>8. m \in {5, 7} /\ m \in 1 .. 9 /\ m = r.at + 1 /\ Fits(call[c].op, m)
    BY <2>5, <2>7 DEF Fits, Kinds
  <2>9. GoesTo(c, r, m)
    BY <1>1, <2>5, <2>6, <2>8, Advance
  <2>10. /\ K(c)' = k /\ call'[c].op = call[c].op /\ call'[c].at = m
         /\ call'[c].copy = call[c].copy /\ call'[c].read = call[c].read
         /\ call'[c].image = r.image /\ call'[c].thumbnail = r.thumbnail
         /\ call'[c].alone = call[c].alone
    BY <2>5, <2>9, WentOn
  <2>11. m <= Len(Chain(call[c].op))
    BY <1>2, <2>8, Room DEF Fits
  <2>12. /\ Asset(k, "image", r.image)
         /\ m = 7 => Asset(k, "thumbnail", r.thumbnail)
    BY <1>1, <2>3, <2>5, <2>7 DEF Progress, Kinds
  <2>13. /\ Asset(K(c), "image", call[c].image)'
         /\ m = 7 => Asset(K(c), "thumbnail", call[c].thumbnail)'
    BY <2>10, <2>12 DEF Asset
  <2>14. Progress(c)'
    BY <1>3, <2>2, <2>8, <2>10, <2>11, <2>13 DEF Progress, Editing
  <2>15. \A j, q : Found(j, q)' = Found(j, q)
    BY DEF Found
  <2>16. ASSUME call[c].alone
         PROVE  WholeUnsetting(call[c], K(c), collection[K(c)].data)'
    <3>1. collection[k].data.annotation = None /\ collection[k].data.text = call[c].read.text
      BY <1>1, <2>1, <2>16 DEF Whole, WholeUnsetting, Kinds
    <3>2. /\ m = 5 => Found(k, "image") = {r.image}
          /\ m = 7 => Found(k, "image") = {} /\ Found(k, "thumbnail") = {r.thumbnail}
      <4>1. kind = "image" => m = 5 /\ found = {r.image} /\ found = Found(k, "image")
        BY <2>1, <2>3, <2>5, <2>7
      <4>2. kind = "thumbnail" => m = 7 /\ found = {r.thumbnail} /\ found = Found(k, "thumbnail")
        BY <2>1, <2>3, <2>5, <2>7
      <4>3. kind = "thumbnail" => Found(k, "image") = {}
        BY <1>1, <2>16 DEF Whole, WholeUnsetting
      <4>4. QED
        BY <4>1, <4>2, <4>3 DEF Kinds
    <3>3. QED
      BY <2>8, <2>10, <2>15, <3>1, <3>2 DEF WholeUnsetting
  <2>17. Whole(c)'
    BY <1>3, <2>10, <2>16 DEF Whole, WholeText, WholeSetting
  <2>18. QED
    BY <2>9, <2>14, <2>17 DEF GoesTo
<1>6. QED
  BY <1>4, <1>5

\* GetAssetsByCriteria.
LEMMA FindInv ==
    ASSUME CallsInv, NEW c \in Calls, NEW kind \in Kinds, Find(c, kind)
    PROVE  CallsInv'
<1> PICK k : k = K(c)
  OBVIOUS
<1>1. /\ Active(c) /\ TypeOK /\ Progress(c) /\ k \in Collections
      /\ Step(c) = IF kind = "image" THEN "find image" ELSE "find thumbnail"
  BY CallsAreOnCollections DEF Find, At, CallsInv, K
<1>2. /\ call[c] \in CallState
      /\ \/ call[c].op \in Settings /\ call[c].at = IF kind = "image" THEN 2 ELSE 5
         \/ call[c].op \in Unsettings /\ call[c].at = IF kind = "image" THEN 4 ELSE 6
  <2>1. CASE kind = "image"
    BY <1>1, <2>1, Places
  <2>2. CASE kind = "thumbnail"
    BY <1>1, <2>2, Places
  <2>3. QED
    BY <2>1, <2>2 DEF Kinds
<1>3. call[c].op \in Operations
  BY <1>2 DEF CallState
<1>4. PICK found : found = IF call[c].copy = None THEN {} ELSE Found(k, kind)
  OBVIOUS
<1>5. PICK o \in Outcomes :
        /\ Count(o)
        /\ IF call[c].op \in Settings THEN FindForSetting(c, kind, found, o = "answered")
                                      ELSE FindForRemoving(c, kind, found, o = "answered")
        /\ surplus' = IF o # "answered" /\ found # {} /\ call[c].op \in Settings
                      THEN [surplus EXCEPT ![k][kind] = @ + 1] ELSE surplus
  BY <1>4 DEF Find
<1> Grows
  <2>1. CASE surplus' = surplus
    BY <1>1, <2>1, NoGrowth
  <2>2. CASE surplus' = [surplus EXCEPT ![k][kind] = @ + 1]
    BY <1>1, <2>2, OneMore
  <2>3. QED
    BY <1>5, <2>1, <2>2
<1>6. UNCHANGED <<collection, assets, announced, raced>>
  BY DEF Find
<1>7. PICK ok \in BOOLEAN : ok = (o = "answered")
  OBVIOUS
<1>8. SUFFICES Moves(c) /\ Progress(c)' /\ Whole(c)'
  <2>1. failures' \in 0 .. MaxFailures
    BY <1>1, <1>5, AttemptsAre, CountTyped
  <2>2. QED
    BY <1>1, <1>6, <2>1, OnlyTheCall DEF TypeOK
<1>9. CASE call[c].op \in Settings
  <2>1. call[c].at = IF kind = "image" THEN 2 ELSE 5
    BY <1>2, <1>3, <1>9, KindsOfCalls
  <2>2. found = Found(K(c), kind)
    <3>1. call[c].copy \in Metadata
      <4>1. call[c].op \in Editing /\ call[c].op \notin Unsettings /\ call[c].at >= 2
        BY <1>3, <1>9, <2>1, KindsOfCalls DEF Editing, Kinds
      <4>2. QED
        BY <1>1, <4>1 DEF Progress
    <3>2. call[c].copy # None
      BY <3>1, NoneAssumption
    <3>3. QED
      BY <1>4, <3>2
  <2>3. FindForSetting(c, kind, Found(K(c), kind), ok)
    BY <1>5, <1>7, <1>9, <2>2
  <2>4. ~ok /\ Found(K(c), kind) # {} => surplus'[K(c)][kind] = surplus[K(c)][kind] + 1
    <3>1. ~ok /\ found # {} => surplus' = [surplus EXCEPT ![k][kind] = @ + 1]
      BY <1>5, <1>7, <1>9
    <3>2. surplus' = [surplus EXCEPT ![k][kind] = @ + 1] => surplus'[k][kind] = surplus[k][kind] + 1
      BY <1>1, OneMore
    <3>3. QED
      BY <2>2, <3>1, <3>2
  <2>5. QED
    BY <1>1, <1>6, <1>9, <2>1, <2>3, <2>4, FindForSettingKeeps
<1>10. CASE call[c].op \in Unsettings
  <2>1. call[c].at = (IF kind = "image" THEN 4 ELSE 6) /\ call[c].op \notin Settings
    BY <1>2, <1>3, <1>10, KindsOfCalls
  <2>2. FindForRemoving(c, kind, found, ok)
    BY <1>5, <1>7, <2>1
  <2>3. QED
    BY <1>1, <1>4, <1>6, <1>10, <2>1, <2>2, FindForRemovingKeeps
<1>11. QED
  BY <1>2, <1>9, <1>10

\* A request that touches only the assets of its collection keeps the invariant
\* if its own call and collection stay in order.
LEMMA OnlyTheAssets ==
    ASSUME CallsInv, NEW c \in Calls, Active(c), Moves(c),
           assets' \in Seq(AssetRecord), Kept, \A j \in Collections : j # K(c) => Same(j),
           collection' = collection, announced' = announced,
           raced' = raced, Grows, failures' \in 0 .. MaxFailures,
           Progress(c)', Whole(c)', K(c) \notin raced => Backed(K(c))',
           K(c) \notin raced => Single(K(c))'
    PROVE  CallsInv'
<1>1. TypeOK'
  BY DEF CallsInv, TypeOK, Moves, AssetRecord, Grows
<1>2. Steady(c)
  BY DEF Steady
<1>3. QED
  BY <1>1, <1>2, OwnStep

\* One more asset of this kind is found in the collection; nothing else changes.
AssetGained(k, kind, n) ==
    /\ assets' \in Seq(AssetRecord) /\ Kept /\ n \in Nat
    /\ \A j : j # k => Same(j)
    /\ \A a \in DOMAIN assets : assets'[a] = assets[a]
    /\ \A j, q : Found(j, q) \subseteq Found(j, q)'
    /\ \A q : q # kind => Found(k, q)' = Found(k, q)
    /\ Found(k, kind)' = Found(k, kind) \cup {n}
    /\ Asset(k, kind, n)'

\* Appending an asset of the collection gains it.
LEMMA AssetAdded ==
    ASSUME TypeOK, NEW k \in Collections, NEW kind \in Kinds, NEW new,
           new = [on |-> k, kind |-> kind, data |-> None, there |-> TRUE],
           collection' = collection, assets' = Append(assets, new), NEW n, n = Len(assets) + 1
    PROVE  AssetGained(k, kind, n)
<1>1. assets \in Seq(AssetRecord) /\ new \in AssetRecord
  BY DEF TypeOK, AssetRecord
<1>2. /\ n \in Nat /\ n \notin DOMAIN assets /\ DOMAIN assets' = DOMAIN assets \cup {n}
      /\ assets'[n] = new
      /\ \A a \in DOMAIN assets : assets'[a] = assets[a]
      /\ assets' \in Seq(AssetRecord)
  BY <1>1
<1>3. new.on = k /\ new.kind = kind /\ new.there
  OBVIOUS
<1>4. Kept /\ \A j : j # k => Same(j)
  BY <1>2, <1>3 DEF Kept, Same
<1>5. /\ \A j, q : Found(j, q) \subseteq Found(j, q)'
      /\ \A q : q # kind => Found(k, q)' = Found(k, q)
      /\ Found(k, kind)' = Found(k, kind) \cup {n}
      /\ Asset(k, kind, n)'
  BY <1>2, <1>3 DEF Found, Asset
<1>6. QED
  BY <1>2, <1>4, <1>5 DEF AssetGained

Replaces(a, new) == assets' = [assets EXCEPT ![a] = new]

\* A changed asset is found as it was, or no more if it was removed.
LEMMA AssetChanged ==
    ASSUME TypeOK, NEW k, NEW kind, NEW a, Asset(k, kind, a), NEW new \in AssetRecord,
           new.on = k, new.kind = kind, assets[a].there,
           collection' = collection, Replaces(a, new)
    PROVE  /\ assets' \in Seq(AssetRecord) /\ Kept
           /\ \A j : j # k => Same(j)
           /\ assets'[a] = new
           /\ \A b \in DOMAIN assets : b # a => assets'[b] = assets[b]
           /\ \A q : q # kind => Found(k, q)' = Found(k, q)
           /\ Found(k, kind)' = IF new.there THEN Found(k, kind) ELSE Found(k, kind) \ {a}
           /\ a \in Found(k, kind)
           /\ \A j, q, b : Asset(j, q, b) => Asset(j, q, b)'
<1>1. assets \in Seq(AssetRecord) /\ a \in DOMAIN assets /\ assets[a].on = k /\ assets[a].kind = kind
  BY DEF TypeOK, AssetRecord, Asset
<1>2. /\ assets' \in Seq(AssetRecord) /\ DOMAIN assets' = DOMAIN assets
      /\ assets'[a] = new
      /\ \A b \in DOMAIN assets : b # a => assets'[b] = assets[b]
  BY <1>1 DEF Replaces
<1>3. Kept
  <2>1. \A b \in DOMAIN assets : assets'[b].on = assets[b].on /\ assets'[b].kind = assets[b].kind
    BY <1>1, <1>2
  <2>2. QED
    BY <1>2, <2>1 DEF Kept
<1>4. \A j : j # k => Same(j)
  <2> SUFFICES ASSUME NEW j, j # k
               PROVE  Same(j)
    OBVIOUS
  <2>1. \A b \in DOMAIN assets : assets[b].on = j => assets'[b] = assets[b]
    BY <1>1, <1>2
  <2>2. collection'[j] = collection[j]
    OBVIOUS
  <2>3. QED
    BY <1>2, <2>1, <2>2 DEF Same
<1>5. /\ \A q : q # kind => Found(k, q)' = Found(k, q)
      /\ a \in Found(k, kind)
      /\ \A j, q, b : Asset(j, q, b) => Asset(j, q, b)'
  BY <1>1, <1>2, <1>3 DEF Found, Asset, Kept
<1>6. Found(k, kind)' = IF new.there THEN Found(k, kind) ELSE Found(k, kind) \ {a}
  BY <1>1, <1>2 DEF Found
<1>7. QED
  BY <1>2, <1>3, <1>4, <1>5, <1>6

\* A gained asset is one more.
LEMMA OneMoreAsset ==
    ASSUME TypeOK, NEW k \in Collections, NEW kind \in Kinds, NEW n,
           AssetGained(k, kind, n), Grows
    PROVE  /\ Few(k, kind, 0) => Few(k, kind, 1)'
           /\ (Few(k, kind, 0) /\ surplus'[k][kind] = surplus[k][kind] + 1) => Few(k, kind, 0)'
           /\ \A q \in Kinds : q # kind /\ Few(k, q, 1) => Few(k, q, 1)'
<1>1. /\ IsFiniteSet(Found(k, kind))
      /\ Cardinality(Found(k, kind)) \in Nat
  BY FoundIsFinite
<1>2. Found(k, kind)' = Found(k, kind) \cup {n}
  BY DEF AssetGained
<1>3. /\ Cardinality(Found(k, kind)') <= Cardinality(Found(k, kind)) + 1
      /\ Cardinality(Found(k, kind)') \in Nat
  <2>1. PICK grown : grown = Found(k, kind) \cup {n}
    OBVIOUS
  <2>2. /\ IsFiniteSet(grown)
        /\ \/ Cardinality(grown) = Cardinality(Found(k, kind))
           \/ Cardinality(grown) = Cardinality(Found(k, kind)) + 1
    BY <1>1, <2>1, FS_AddElement
  <2>3. Cardinality(grown) \in Nat
    BY <2>2, FS_CardinalityType
  <2>4. QED
    BY <1>1, <1>2, <2>1, <2>2, <2>3
<1>4. surplus[k][kind] \in Nat /\ surplus'[k][kind] \in Nat /\ surplus[k][kind] <= surplus'[k][kind]
  BY DEF TypeOK, Grows
<1>5. ASSUME Few(k, kind, 0)
      PROVE  /\ Few(k, kind, 1)'
             /\ surplus'[k][kind] = surplus[k][kind] + 1 => Few(k, kind, 0)'
  <2>1. Cardinality(Found(k, kind)) <= 0 + surplus[k][kind]
    BY <1>5 DEF Few
  <2>2. /\ Cardinality(Found(k, kind)') <= 1 + surplus'[k][kind]
        /\ surplus'[k][kind] = surplus[k][kind] + 1 =>
              Cardinality(Found(k, kind)') <= 0 + surplus'[k][kind]
    BY <1>1, <1>3, <1>4, <2>1
  <2>3. QED
    BY <2>2 DEF Few
<1>6. \A q \in Kinds : q # kind /\ Few(k, q, 1) => Few(k, q, 1)'
  BY FewKept DEF AssetGained
<1>7. QED
  BY <1>5, <1>6

\* CreateAsset makes the only asset of its kind but for the surplus.
LEMMA CreateAssetInv ==
    ASSUME CallsInv, NEW c \in Calls, NEW kind \in Kinds, CreateAsset(c, kind)
    PROVE  CallsInv'
<1> PICK k : k = K(c)
  OBVIOUS
<1> PICK n : n = Len(assets) + 1
  OBVIOUS
<1> PICK new : new = [on |-> k, kind |-> kind, data |-> None, there |-> TRUE]
  OBVIOUS
<1>1. /\ Active(c) /\ TypeOK /\ Progress(c) /\ Whole(c) /\ k \in Collections
      /\ Step(c) = IF kind = "image" THEN "create image" ELSE "create thumbnail"
  BY CallsAreOnCollections DEF CreateAsset, At, CallsInv, K
<1>2. /\ call[c] \in CallState /\ call[c].op \in Settings
      /\ call[c].at = IF kind = "image" THEN 3 ELSE 6
  <2>1. CASE kind = "image"
    BY <1>1, <2>1, Places
  <2>2. CASE kind = "thumbnail"
    BY <1>1, <2>2, Places
  <2>3. QED
    BY <2>1, <2>2 DEF Kinds
<1>3. call[c].op \in Operations /\ call[c].result = None
  BY <1>1, <1>2 DEF CallState, Active
<1>4. call[c].op \notin Creations \cup Deletions \cup Updates \cup Unsettings
  BY <1>2, <1>3, KindsOfCalls
<1> PICK at : at = call[c].at
  OBVIOUS
<1>5. /\ Active(c) /\ Progress(c) /\ Whole(c) /\ call[c].at = at
      /\ kind = "image" => at = 3
      /\ kind = "thumbnail" => at = 6
      /\ at \in {3, 6}
  BY <1>1, <1>2 DEF Kinds
<1>6. CASE Rejected(c)
  BY <1>1, <1>6, RejectedInv
<1>7. ASSUME NEW o \in Attempts, Count(o),
             assets' = IF o = "refused" THEN assets ELSE Append(assets, new),
             Continues(c, [call[c] EXCEPT ![kind] = n], o),
             surplus' = IF o = "resent" THEN [surplus EXCEPT ![k][kind] = @ + 1] ELSE surplus,
             UNCHANGED <<collection, announced, raced>>
      PROVE  CallsInv'
  <2>1. /\ UNCHANGED <<collection, announced, raced>> /\ failures' \in 0 .. MaxFailures
        /\ Grows
        /\ o = "resent" => surplus'[k][kind] = surplus[k][kind] + 1
    BY <1>1, <1>7, CountTyped, NoGrowth, OneMore
  <2>2. CASE o = "refused"
    <3>1. Moves(c) /\ Progress(c)' /\ Whole(c)'
      BY <1>1, <1>7, <2>2, EndsStops, StoppedOwn DEF Continues
    <3>2. QED
      BY <1>1, <1>7, <2>1, <2>2, <3>1, OnlyTheCall DEF TypeOK
  <2>3. CASE o # "refused"
    <3>1. /\ AssetGained(k, kind, n)
          /\ assets' \in Seq(AssetRecord) /\ Kept /\ n \in Nat
          /\ \A j : j # k => Same(j)
          /\ \A a \in DOMAIN assets : assets'[a] = assets[a]
          /\ \A j, q : Found(j, q) \subseteq Found(j, q)'
          /\ \A q : q # kind => Found(k, q)' = Found(k, q)
          /\ Found(k, kind)' = Found(k, kind) \cup {n}
          /\ Asset(k, kind, n)'
      <4>1. assets' = Append(assets, new) /\ collection' = collection
        BY <1>7, <2>1, <2>3
      <4>2. TypeOK /\ k \in Collections
        BY <1>1
      <4>3. AssetGained(k, kind, n)
        BY <4>1, <4>2, AssetAdded
      <4>4. QED
        BY <4>3 DEF AssetGained
    <3>2. SUFFICES Moves(c) /\ Progress(c)' /\ Whole(c)'
      <4>1. K(c)' = k
        BY <3>2 DEF Moves, K
      <4>2. k \notin raced => Backed(K(c))'
        <5> SUFFICES ASSUME k \notin raced
                     PROVE  Backed(K(c))'
          OBVIOUS
        <5>1. Backed(k)
          BY <1>1, NotRacedIsAlone
        <5>2. \A q : \A a \in Found(k, q) : a \in Found(k, q)' /\ assets'[a] = assets[a]
          BY <3>1 DEF Found
        <5>3. QED
          BY <2>1, <4>1, <5>1, <5>2 DEF Backed
      <4>3. k \notin raced => Single(K(c))'
        <5> SUFFICES ASSUME k \notin raced
                     PROVE  Single(K(c))'
          OBVIOUS
        <5>1. call[c].alone /\ Single(k)
          BY <1>1, NotRacedIsAlone
        <5>2. Few(k, kind, 0)
          BY <1>1, <1>2, <5>1 DEF Whole, WholeSetting, Kinds
        <5>3. \A q \in Kinds : Few(k, q, 1)'
          BY <1>1, <2>1, <3>1, <5>1, <5>2, OneMoreAsset DEF Single
        <5>4. QED
          BY <4>1, <5>3 DEF Single, Few
      <4>4. QED
        BY <1>1, <2>1, <3>1, <3>2, <4>2, <4>3, OnlyTheAssets
    <3>3. CASE o \in {"lost", "refused"}
      BY <1>1, <1>7, <3>3, EndsStops, StoppedOwn DEF Continues
    <3>6. CASE o = "resent"
      <4>1. UNCHANGED call
        BY <1>7, <3>6 DEF Continues
      <4>2. Moves(c) /\ Progress(c)' /\ K(c)' = k
        BY <1>1, <2>1, <3>1, <4>1, StaysInOrder
      <4>3. ASSUME call[c].alone
            PROVE  WholeSetting(c, call[c], K(c), collection[K(c)].data)'
        <5>1. Active(c) /\ Whole(c)
          BY <1>1
        <5>2. call[c].copy = call[c].read
          BY <1>2, <1>5, <4>3, <5>1 DEF Whole, WholeSetting
        <5>3. k \notin raced => Few(k, kind, 0)'
          <6>1. k \notin raced => Few(k, kind, 0)
            BY <1>2, <4>3, <5>1 DEF Whole, WholeSetting, Kinds
          <6>2. QED
            BY <1>1, <2>1, <3>1, <3>6, <6>1, OneMoreAsset
        <5>4. CASE kind = "image"
          BY <1>5, <2>1, <4>1, <4>2, <5>2, <5>3, <5>4 DEF WholeSetting
        <5>5. CASE kind = "thumbnail"
          <6>1. call[c].image \in Found(k, "image") /\ assets[call[c].image].data = c
            BY <1>2, <1>5, <4>3, <5>1, <5>5 DEF Whole, WholeSetting
          <6>2. call[c].image \in Found(k, "image")' /\ assets'[call[c].image].data = c
            BY <3>1, <6>1 DEF Found
          <6>3. QED
            BY <1>5, <2>1, <4>1, <4>2, <5>2, <5>3, <5>5, <6>2 DEF WholeSetting
        <5>6. QED
          BY <5>4, <5>5 DEF Kinds
      <4>4. Whole(c)'
        BY <1>4, <4>1, <4>3 DEF Whole, WholeText, WholeUnsetting
      <4>5. QED
        BY <4>2, <4>4
    <3>4. CASE o = "answered"
      <4>1. PICK r : r = [call[c] EXCEPT ![kind] = n]
        OBVIOUS
      <4>2. /\ r \in CallState
            /\ r.op = call[c].op /\ r.at = call[c].at /\ r.alone = call[c].alone
            /\ r.result = None
            /\ r.copy = call[c].copy /\ r.read = call[c].read
            /\ kind = "image" => r.image = n
            /\ kind = "thumbnail" => r.thumbnail = n /\ r.image = call[c].image
        BY <1>2, <1>3, <3>1, <4>1, AssetField
      <4>3. PICK m : m = IF kind = "image" THEN 4 ELSE 7
        OBVIOUS
      <4>4. m \in 1 .. 9 /\ m \in Nat /\ m = r.at + 1 /\ Fits(call[c].op, m)
        BY <1>2, <4>2, <4>3 DEF Fits, Kinds
      <4>5. GoesTo(c, r, m)
        <5>1. Onward(c, r, 1)
          BY <1>7, <3>4, <4>1 DEF Continues
        <5>2. QED
          BY <1>1, <4>2, <4>4, <5>1, Advance
      <4>6. /\ K(c)' = k /\ call'[c].op = call[c].op /\ call'[c].at = m
            /\ call'[c].copy = call[c].copy /\ call'[c].read = call[c].read
            /\ call'[c].image = r.image /\ call'[c].thumbnail = r.thumbnail
            /\ call'[c].alone = call[c].alone
        BY <4>2, <4>5, WentOn
      <4>7. m <= Len(Chain(call[c].op))
        BY <1>3, <4>4, Room
      <4>8. call[c].read \in Metadata /\ call[c].copy \in Metadata
        BY <1>2, <1>4, <1>5 DEF Progress, Editing
      <4>9. kind = "thumbnail" => Asset(k, "image", call[c].image)
        BY <1>2, <1>5 DEF Progress
      <4>10. \A q, a : Asset(k, q, a) => Asset(k, q, a)' /\ assets'[a] = assets[a]
        BY <3>1 DEF Asset, Kept
      <4>11. /\ Asset(K(c), "image", call[c].image)'
             /\ m = 7 => Asset(K(c), "thumbnail", call[c].thumbnail)'
        <5>1. CASE kind = "image"
          BY <3>1, <4>2, <4>3, <4>6, <5>1 DEF Asset
        <5>2. CASE kind = "thumbnail"
          BY <3>1, <4>2, <4>6, <4>9, <4>10, <5>2 DEF Asset
        <5>3. QED
          BY <5>1, <5>2 DEF Kinds
      <4>12. Progress(c)'
        BY <1>4, <4>3, <4>6, <4>7, <4>8, <4>11 DEF Progress, Editing
      <4>13. ASSUME call[c].alone
             PROVE  WholeSetting(c, call[c], K(c), collection[K(c)].data)'
        <5>1. call[c].copy = call[c].read
          BY <1>2, <1>5, <4>13 DEF Whole, WholeSetting
        <5>2. CASE kind = "image"
          <6>1. r.image \in Found(k, "image")'
            BY <3>1, <4>2, <5>2
          <6>2. QED
            BY <2>1, <4>3, <4>6, <5>1, <5>2, <6>1 DEF WholeSetting
        <5>3. CASE kind = "thumbnail"
          <6>1. r.thumbnail \in Found(k, "thumbnail")'
            BY <3>1, <4>2, <5>3
          <6>2. call[c].image \in Found(k, "image") /\ assets[call[c].image].data = c
            BY <1>2, <1>5, <4>13, <5>3 DEF Whole, WholeSetting
          <6>3. r.image \in Found(k, "image")' /\ assets'[r.image].data = c
            BY <3>1, <4>2, <4>9, <4>10, <5>3, <6>2
          <6>4. QED
            BY <2>1, <4>3, <4>6, <5>1, <5>3, <6>1, <6>3 DEF WholeSetting
        <5>4. QED
          BY <5>2, <5>3 DEF Kinds
      <4>14. Whole(c)'
        BY <1>4, <4>6, <4>13 DEF Whole, WholeText, WholeUnsetting
      <4>15. QED
        BY <4>5, <4>12, <4>14 DEF GoesTo
    <3>5. QED
      BY <3>3, <3>4, <3>6, AttemptsAre
  <2>4. QED
    BY <2>2, <2>3
<1>8. QED
  BY <1>6, <1>7 DEF CreateAsset

\* UploadAssetDataEx changes what the collection's asset holds.
LEMMA UploadInv ==
    ASSUME CallsInv, NEW c \in Calls, NEW kind \in Kinds, Upload(c, kind)
    PROVE  CallsInv'
<1> PICK k : k = K(c)
  OBVIOUS
<1> PICK a : a = call[c][kind]
  OBVIOUS
<1> PICK at : at = call[c].at
  OBVIOUS
<1>1. /\ Active(c) /\ TypeOK /\ Progress(c) /\ Whole(c) /\ k \in Collections
      /\ Step(c) = IF kind = "image" THEN "upload image" ELSE "upload thumbnail"
  BY CallsAreOnCollections DEF Upload, At, CallsInv, K
<1>2. /\ call[c] \in CallState /\ call[c].op \in Settings /\ call[c].at = at
      /\ kind = "image" => at = 4
      /\ kind = "thumbnail" => at = 7
      /\ at \in {4, 7}
  <2>1. CASE kind = "image"
    BY <1>1, <2>1, Places
  <2>2. CASE kind = "thumbnail"
    BY <1>1, <2>2, Places
  <2>3. QED
    BY <2>1, <2>2 DEF Kinds
<1>3. call[c].op \in Operations /\ call[c].result = None
  BY <1>1, <1>2 DEF CallState, Active
<1>4. call[c].op \notin Creations \cup Deletions \cup Updates \cup Unsettings
  BY <1>2, <1>3, KindsOfCalls
<1>5. kind = "image" => a = call[c].image
  OBVIOUS
<1>6. kind = "thumbnail" => a = call[c].thumbnail
  OBVIOUS
<1>7. /\ Asset(k, "image", call[c].image)
      /\ kind = "thumbnail" => Asset(k, "thumbnail", call[c].thumbnail)
      /\ call[c].read \in Metadata /\ call[c].copy \in Metadata
  <2>1. Active(c) /\ Progress(c)
    BY <1>1
  <2>2. QED
    BY <1>2, <1>4, <2>1 DEF Progress, Editing
<1>8. Asset(k, kind, a)
  BY <1>5, <1>6, <1>7 DEF Kinds
<1>9. CASE Rejected(c)
  BY <1>1, <1>9, RejectedInv
<1>10. ASSUME assets[a].there, NEW o \in Attempts, Count(o),
              assets' = IF o = "refused" THEN assets ELSE [assets EXCEPT ![a].data = c],
              Continues(c, call[c], o),
              UNCHANGED <<collection, announced, history>>
       PROVE  CallsInv'
  <2>1. UNCHANGED <<collection, announced, raced, surplus>> /\ failures' \in 0 .. MaxFailures
    BY <1>1, <1>10, CountTyped DEF history
  <2>2. CASE o = "refused"
    <3>1. Moves(c) /\ Progress(c)' /\ Whole(c)'
      BY <1>1, <1>10, <2>2, EndsStops, StoppedOwn DEF Continues
    <3>2. QED
      BY <1>1, <1>10, <2>1, <2>2, <3>1, NoGrowth, OnlyTheCall DEF TypeOK
  <2>3. CASE o # "refused"
    <3>1. PICK new : new = [assets[a] EXCEPT !.data = c]
      OBVIOUS
    <3>2. assets[a] \in AssetRecord /\ assets[a].on = k /\ assets[a].kind = kind
      <4>1. assets \in Seq(AssetRecord)
        BY <1>1 DEF TypeOK, AssetRecord
      <4>2. QED
        BY <1>8, <4>1 DEF Asset
    <3>3. /\ new \in AssetRecord /\ new.on = k /\ new.kind = kind /\ new.data = c
          /\ new.there = assets[a].there
      BY <3>1, <3>2 DEF AssetRecord
    <3>4. Replaces(a, new)
      BY <1>10, <2>3, <3>1 DEF Replaces
    <3>5. /\ assets' \in Seq(AssetRecord) /\ Kept
          /\ \A j : j # k => Same(j)
          /\ assets'[a] = new
          /\ \A b \in DOMAIN assets : b # a => assets'[b] = assets[b]
          /\ \A q : q # kind => Found(k, q)' = Found(k, q)
          /\ Found(k, kind)' = IF new.there THEN Found(k, kind) ELSE Found(k, kind) \ {a}
          /\ a \in Found(k, kind)
          /\ \A j, q, b : Asset(j, q, b) => Asset(j, q, b)'
      <4>1. TypeOK /\ assets[a].there /\ collection' = collection
        BY <1>1, <1>10, <2>1
      <4>2. new \in AssetRecord /\ new.on = k /\ new.kind = kind
        BY <3>3
      <4>3. QED
        BY <1>8, <3>4, <4>1, <4>2, AssetChanged
    <3>6. \A q : Found(k, q)' = Found(k, q)
      BY <1>10, <3>3, <3>5
    <3>7. \A b \in DOMAIN assets : assets'[b].data = c \/ assets'[b].data = assets[b].data
      BY <3>3, <3>5
    <3>8. SUFFICES Moves(c) /\ Progress(c)' /\ Whole(c)'
      <4>1. K(c)' = k
        BY <3>8 DEF Moves, K
      <4>2. k \notin raced => Backed(K(c))'
        <5> SUFFICES ASSUME k \notin raced
                     PROVE  Backed(K(c))'
          OBVIOUS
        <5>1. Backed(k)
          BY <1>1, NotRacedIsAlone
        <5>2. c # None
          BY NoneAssumption
        <5>3. \A q : \A b \in Found(k, q) : assets[b].data # None => assets'[b].data # None
          BY <3>7, <5>2 DEF Found
        <5>4. QED
          BY <2>1, <3>6, <4>1, <5>1, <5>3 DEF Backed
      <4>3. k \notin raced => Single(K(c))'
        <5>1. k \notin raced => Single(k)
          BY <1>1 DEF CallsInv
        <5>2. QED
          BY <2>1, <3>6, <4>1, <5>1 DEF Single, Few
      <4>4. QED
        BY <1>1, <2>1, <3>5, <3>8, <4>2, <4>3, NoGrowth, OnlyTheAssets
    <3>9. CASE o \in {"lost", "refused"}
      BY <1>1, <1>10, <3>9, EndsStops, StoppedOwn DEF Continues
    <3>12. CASE o = "resent"
      <4>1. UNCHANGED call
        BY <1>10, <3>12 DEF Continues
      <4>2. Moves(c) /\ Progress(c)' /\ K(c)' = k
        BY <1>1, <2>1, <3>5, <4>1, StaysInOrder
      <4>3. ASSUME call[c].alone
            PROVE  WholeSetting(c, call[c], K(c), collection[K(c)].data)'
        <5>1. /\ call[c].copy = call[c].read
              /\ call[c].image \in Found(k, "image")
              /\ kind = "thumbnail" => /\ assets[call[c].image].data = c
                                       /\ call[c].thumbnail \in Found(k, "thumbnail")
          <6>1. Active(c) /\ Whole(c)
            BY <1>1
          <6>2. QED
            BY <1>2, <4>3, <6>1 DEF Whole, WholeSetting
        <5>2. kind = "thumbnail" => assets'[call[c].image].data = c
          BY <1>7, <3>7, <5>1 DEF Asset
        <5>3. QED
          BY <1>2, <3>6, <4>1, <4>2, <5>1, <5>2 DEF WholeSetting, Kinds
      <4>4. Whole(c)'
        BY <1>4, <4>1, <4>3 DEF Whole, WholeText, WholeUnsetting
      <4>5. QED
        BY <4>2, <4>4
    <3>10. CASE o = "answered"
      <4>1. PICK m : m = at + 1
        OBVIOUS
      <4>2. /\ m \in {5, 8} /\ m \in 1 .. 9 /\ m \in Nat /\ Fits(call[c].op, m)
            /\ kind = "image" => m = 5
            /\ kind = "thumbnail" => m = 8
        BY <1>2, <4>1 DEF Fits
      <4>3. GoesTo(c, call[c], m)
        BY <1>1, <1>2, <1>3, <1>10, <3>10, <4>1, <4>2, Advance DEF Continues
      <4>4. /\ K(c)' = k /\ call'[c].op = call[c].op /\ call'[c].at = m
            /\ call'[c].copy = call[c].copy /\ call'[c].read = call[c].read
            /\ call'[c].image = call[c].image /\ call'[c].thumbnail = call[c].thumbnail
            /\ call'[c].alone = call[c].alone
        BY <4>3, WentOn
      <4>5. m <= Len(Chain(call[c].op))
        BY <1>3, <4>2, Room
      <4>6. /\ Asset(K(c), "image", call[c].image)'
            /\ m = 8 => Asset(K(c), "thumbnail", call[c].thumbnail)'
        <5>1. /\ Asset(k, "image", call[c].image)
              /\ m = 8 => Asset(k, "thumbnail", call[c].thumbnail)
          BY <1>7, <4>2 DEF Kinds
        <5>2. QED
          BY <3>5, <4>4, <5>1 DEF Asset, Kept
      <4>7. Progress(c)'
        BY <1>4, <1>7, <4>2, <4>4, <4>5, <4>6 DEF Progress, Editing
      <4>8. ASSUME call[c].alone
            PROVE  WholeSetting(c, call[c], K(c), collection[K(c)].data)'
        <5>1. /\ call[c].copy = call[c].read
              /\ call[c].image \in Found(k, "image")
              /\ kind = "thumbnail" => /\ assets[call[c].image].data = c
                                       /\ call[c].thumbnail \in Found(k, "thumbnail")
          <6>1. Active(c) /\ Whole(c)
            BY <1>1
          <6>2. QED
            BY <1>2, <4>8, <6>1 DEF Whole, WholeSetting
        <5>2. assets'[call[c].image].data = c
          <6>1. CASE kind = "image"
            BY <1>5, <3>3, <3>5, <6>1
          <6>2. CASE kind = "thumbnail"
            BY <1>7, <3>7, <5>1, <6>2 DEF Asset
          <6>3. QED
            BY <6>1, <6>2 DEF Kinds
        <5>3. kind = "thumbnail" => assets'[call[c].thumbnail].data = c
          BY <1>6, <3>3, <3>5
        <5>4. QED
          BY <2>1, <3>6, <4>2, <4>4, <5>1, <5>2, <5>3 DEF WholeSetting, Kinds
      <4>9. Whole(c)'
        BY <1>4, <4>4, <4>8 DEF Whole, WholeText, WholeUnsetting
      <4>10. QED
        BY <4>3, <4>7, <4>9 DEF GoesTo
    <3>11. QED
      BY <3>9, <3>10, <3>12, AttemptsAre
  <2>4. QED
    BY <2>2, <2>3
<1>11. QED
  BY <1>9, <1>10 DEF Upload

\* DeleteAsset removes the collection's only asset of the kind, which no
\* annotation names any more.
LEMMA RemoveAssetInv ==
    ASSUME CallsInv, NEW c \in Calls, NEW kind \in Kinds, RemoveAsset(c, kind)
    PROVE  CallsInv'
<1> PICK k : k = K(c)
  OBVIOUS
<1> PICK a : a = call[c][kind]
  OBVIOUS
<1> PICK at : at = call[c].at
  OBVIOUS
<1>1. /\ Active(c) /\ TypeOK /\ Progress(c) /\ Whole(c) /\ k \in Collections
      /\ Step(c) = IF kind = "image" THEN "remove image" ELSE "remove thumbnail"
  BY CallsAreOnCollections DEF RemoveAsset, At, CallsInv, K
<1>2. /\ call[c] \in CallState /\ call[c].op \in Unsettings /\ call[c].at = at
      /\ kind = "image" => at = 5
      /\ kind = "thumbnail" => at = 7
      /\ at \in {5, 7}
  <2>1. CASE kind = "image"
    BY <1>1, <2>1, Places
  <2>2. CASE kind = "thumbnail"
    BY <1>1, <2>2, Places
  <2>3. QED
    BY <2>1, <2>2 DEF Kinds
<1>3. call[c].op \in Operations /\ call[c].result = None
  BY <1>1, <1>2 DEF CallState, Active
<1>4. call[c].op \notin Creations \cup Deletions \cup Updates \cup Settings
  BY <1>2, <1>3, KindsOfCalls
<1>5. kind = "image" => a = call[c].image
  OBVIOUS
<1>6. kind = "thumbnail" => a = call[c].thumbnail
  OBVIOUS
<1>7. /\ Asset(k, "image", call[c].image)
      /\ kind = "thumbnail" => Asset(k, "thumbnail", call[c].thumbnail)
      /\ call[c].read \in Metadata /\ call[c].copy \in Metadata
  <2>1. Active(c) /\ Progress(c)
    BY <1>1
  <2>2. QED
    BY <1>2, <1>4, <2>1 DEF Progress, Editing
<1>8. Asset(k, kind, a)
  BY <1>5, <1>6, <1>7 DEF Kinds
<1>9. call[c].alone =>
        /\ collection[k].data.annotation = None
        /\ collection[k].data.text = call[c].read.text
        /\ Found(k, kind) \subseteq {a}
        /\ kind = "thumbnail" => Found(k, "image") = {}
  <2>1. Active(c) /\ Whole(c) /\ call[c].copy # None
    BY <1>1, <1>7, NoneAssumption
  <2>2. call[c].alone =>
          /\ collection[k].data.annotation = None
          /\ collection[k].data.text = call[c].read.text
          /\ at = 5 => Found(k, "image") \subseteq {call[c].image}
          /\ at = 7 => Found(k, "image") = {} /\ Found(k, "thumbnail") \subseteq {call[c].thumbnail}
    BY <1>2, <2>1 DEF Whole, WholeUnsetting
  <2>3. QED
    BY <1>2, <1>5, <1>6, <2>2 DEF Kinds
<1>10. CASE Rejected(c)
  BY <1>1, <1>10, RejectedInv
<1>11. ASSUME assets[a].there, NEW o \in Attempts, Count(o),
              assets' = IF o = "refused" THEN assets ELSE [assets EXCEPT ![a].there = FALSE],
              Continues(c, call[c], o),
              UNCHANGED <<collection, announced, history>>
       PROVE  CallsInv'
  <2>1. UNCHANGED <<collection, announced, raced, surplus>> /\ failures' \in 0 .. MaxFailures
    BY <1>1, <1>11, CountTyped DEF history
  <2>2. CASE o = "refused"
    <3>1. Moves(c) /\ Progress(c)' /\ Whole(c)'
      BY <1>1, <1>11, <2>2, EndsStops, StoppedOwn DEF Continues
    <3>2. QED
      BY <1>1, <1>11, <2>1, <2>2, <3>1, NoGrowth, OnlyTheCall DEF TypeOK
  <2>3. CASE o # "refused"
    <3>1. PICK new : new = [assets[a] EXCEPT !.there = FALSE]
      OBVIOUS
    <3>2. assets[a] \in AssetRecord /\ assets[a].on = k /\ assets[a].kind = kind
      <4>1. assets \in Seq(AssetRecord)
        BY <1>1 DEF TypeOK, AssetRecord
      <4>2. QED
        BY <1>8, <4>1 DEF Asset
    <3>3. new \in AssetRecord /\ new.on = k /\ new.kind = kind /\ ~new.there
      BY <3>1, <3>2 DEF AssetRecord
    <3>4. Replaces(a, new)
      BY <1>11, <2>3, <3>1 DEF Replaces
    <3>5. /\ assets' \in Seq(AssetRecord) /\ Kept
          /\ \A j : j # k => Same(j)
          /\ \A q : q # kind => Found(k, q)' = Found(k, q)
          /\ Found(k, kind)' = IF new.there THEN Found(k, kind) ELSE Found(k, kind) \ {a}
          /\ \A j, q, b : Asset(j, q, b) => Asset(j, q, b)'
      <4>1. TypeOK /\ assets[a].there /\ collection' = collection
        BY <1>1, <1>11, <2>1
      <4>2. new \in AssetRecord /\ new.on = k /\ new.kind = kind
        BY <3>3
      <4>3. QED
        BY <1>8, <3>4, <4>1, <4>2, AssetChanged
    <3>6. Found(k, kind)' = Found(k, kind) \ {a}
      BY <3>3, <3>5
    <3>7. SUFFICES Moves(c) /\ Progress(c)' /\ Whole(c)'
      <4>1. K(c)' = k
        BY <3>7 DEF Moves, K
      <4>2. k \notin raced => Backed(K(c))'
        <5>1. k \notin raced => call[c].alone
          BY <1>1, NotRacedIsAlone
        <5>2. QED
          BY <1>9, <2>1, <4>1, <5>1 DEF Backed
      <4>3. k \notin raced => Single(K(c))'
        <5>1. k \notin raced => Single(k)
          BY <1>1 DEF CallsInv
        <5>2. \A q \in Kinds : Found(k, q)' \subseteq Found(k, q)
          BY <3>5, <3>6
        <5>3. k \notin raced => \A q \in Kinds : Few(k, q, 1)'
          BY <1>1, <2>1, <5>1, <5>2, NoGrowth, FewKept DEF Single
        <5>4. QED
          BY <4>1, <5>3 DEF Single, Few
      <4>4. QED
        BY <1>1, <2>1, <3>5, <3>7, <4>2, <4>3, NoGrowth, OnlyTheAssets
    <3>8. CASE o \in {"lost", "refused"}
      BY <1>1, <1>11, <3>8, EndsStops, StoppedOwn DEF Continues
    <3>12. CASE o = "resent"
      <4>1. UNCHANGED call
        BY <1>11, <3>12 DEF Continues
      <4>2. Moves(c) /\ Progress(c)' /\ K(c)' = k
        BY <1>1, <2>1, <3>5, <4>1, StaysInOrder
      <4>3. call[c].alone =>
              /\ at = 5 => Found(k, "image")' \subseteq {call[c].image}
              /\ at = 7 => /\ Found(k, "image")' = {}
                           /\ Found(k, "thumbnail")' \subseteq {call[c].thumbnail}
        BY <1>2, <1>5, <1>6, <1>9, <3>5, <3>6 DEF Kinds
      <4>4. call[c].alone => WholeUnsetting(call[c], K(c), collection[K(c)].data)'
        BY <1>2, <1>9, <2>1, <4>1, <4>2, <4>3 DEF WholeUnsetting
      <4>5. Whole(c)'
        BY <1>4, <4>1, <4>4 DEF Whole, WholeText, WholeSetting
      <4>6. QED
        BY <4>2, <4>5
    <3>9. CASE o = "answered" /\ kind = "thumbnail"
      <4>1. ~Fits(call[c].op, call[c].at + 1)
        BY <1>2, <1>4, <3>9 DEF Fits
      <4>2. QED
        BY <1>1, <1>11, <3>9, <4>1, Finish, StoppedOwn DEF Continues
    <3>10. CASE o = "answered" /\ kind = "image"
      <4>1. at = 5 /\ Fits(call[c].op, 6)
        BY <1>2, <3>10 DEF Fits
      <4>2. GoesTo(c, call[c], 6)
        <5>1. PICK m : m = 6
          OBVIOUS
        <5>2. /\ Onward(c, call[c], 1) /\ m = call[c].at + 1 /\ m \in 1 .. 9
              /\ Fits(call[c].op, m)
          BY <1>2, <1>11, <3>10, <4>1, <5>1 DEF Continues
        <5>3. TypeOK /\ Active(c) /\ call[c] \in CallState /\ call[c].result = None
          BY <1>1, <1>2, <1>3
        <5>4. GoesTo(c, call[c], m)
          BY <5>2, <5>3, Advance
        <5>5. QED
          BY <5>1, <5>4
      <4>3. /\ K(c)' = k /\ call'[c].op = call[c].op /\ call'[c].at = 6
            /\ call'[c].copy = call[c].copy /\ call'[c].read = call[c].read
            /\ call'[c].image = call[c].image
            /\ call'[c].alone = call[c].alone
        BY <4>2, WentOn
      <4>4. 6 <= Len(Chain(call[c].op))
        BY <1>3, <4>1, Room
      <4>5. Asset(K(c), "image", call[c].image)'
        BY <1>7, <3>5, <4>3 DEF Asset, Kept
      <4>6. Progress(c)'
        BY <1>4, <1>7, <4>3, <4>4, <4>5 DEF Progress, Editing
      <4>7. call[c].alone => Found(k, "image")' = {}
        BY <1>9, <3>6, <3>10
      <4>8. call[c].alone => WholeUnsetting(call[c], K(c), collection[K(c)].data)'
        BY <1>9, <2>1, <4>3, <4>7 DEF WholeUnsetting
      <4>9. Whole(c)'
        BY <1>4, <4>3, <4>8 DEF Whole, WholeText, WholeSetting
      <4>10. QED
        BY <4>2, <4>6, <4>9 DEF GoesTo
    <3>11. QED
      BY <3>8, <3>9, <3>10, <3>12, AttemptsAre DEF Kinds
  <2>4. QED
    BY <2>2, <2>3
<1>12. QED
  BY <1>10, <1>11 DEF RemoveAsset

----------------------------------------------------------------------------
(***************************************************************************)
(* The start of a call.                                                    *)
(***************************************************************************)

\* What a new call does to the calls it meets: they are no longer alone.
LEMMA StartKeeps ==
    ASSUME CallsInv, NEW c \in Calls, NEW op \in Operations, NEW allowed \in BOOLEAN,
           Start(c, op, allowed), NEW b \in Calls, b # c
    PROVE  /\ call'[b] \in CallState \cup {None}
           /\ Active(b)' <=> Active(b)
           /\ Active(b) =>
                /\ call'[b].op = call[b].op /\ call'[b].at = call[b].at
                /\ call'[b].copy = call[b].copy /\ call'[b].read = call[b].read
                /\ call'[b].image = call[b].image /\ call'[b].thumbnail = call[b].thumbnail
                /\ Meet(call[b].op, op) => ~call'[b].alone
                /\ ~Meet(call[b].op, op) => call'[b].alone = call[b].alone
<1>1. call \in [Calls -> CallState \cup {None}]
  BY DEF CallsInv, TypeOK
<1>2. call'[b] = IF Active(b) /\ Meet(call[b].op, op) THEN [call[b] EXCEPT !.alone = FALSE] ELSE call[b]
  BY DEF Start
<1>3. CASE ~(Active(b) /\ Meet(call[b].op, op))
  BY <1>1, <1>2, <1>3 DEF Active
<1>4. CASE Active(b) /\ Meet(call[b].op, op)
  <2>1. call[b] \in CallState /\ call[b].result = None
    BY <1>1, <1>4 DEF Active
  <2>2. call'[b] = [call[b] EXCEPT !.alone = FALSE]
    BY <1>2, <1>4
  <2>3. /\ call'[b] \in CallState /\ call'[b].result = None /\ ~call'[b].alone
        /\ call'[b].op = call[b].op /\ call'[b].at = call[b].at
        /\ call'[b].copy = call[b].copy /\ call'[b].read = call[b].read
        /\ call'[b].image = call[b].image /\ call'[b].thumbnail = call[b].thumbnail
    BY <2>1, <2>2 DEF CallState
  <2>4. call'[b] # None
    BY <2>3, NoneAssumption
  <2>5. QED
    BY <1>4, <2>3, <2>4 DEF Active
<1>5. QED
  BY <1>3, <1>4

\* A new call has nothing yet, and is alone only if it meets no other.
LEMMA StartInv ==
    ASSUME CallsInv, NEW c \in Calls, NEW op \in Operations, NEW allowed \in BOOLEAN,
           Start(c, op, allowed)
    PROVE  CallsInv'
<1> PICK met : met = {b \in Calls : Active(b) /\ Meet(call[b].op, op)}
  OBVIOUS
<1>1. TypeOK /\ Met /\ UNCHANGED <<collection, assets, announced, failures, surplus>>
  BY DEF CallsInv, Start
<1>2. /\ call'[c] = [op |-> op, at |-> 1, allowed |-> allowed, copy |-> None, read |-> None,
                     image |-> 0, thumbnail |-> 0, alone |-> met = {}, result |-> None]
      /\ raced' = raced \cup {K(b) : b \in met} \cup (IF met = {} THEN {} ELSE {On(op)})
      /\ call[c] = None
  BY DEF Start
<1>3. /\ call'[c] \in CallState /\ call'[c].op = op /\ call'[c].at = 1 /\ call'[c].result = None
      /\ call'[c].alone <=> met = {}
  <2>1. PICK lone \in BOOLEAN : lone = (met = {})
    OBVIOUS
  <2>2. call'[c] = [op |-> op, at |-> 1, allowed |-> allowed, copy |-> None, read |-> None,
                    image |-> 0, thumbnail |-> 0, alone |-> lone, result |-> None]
    BY <1>2, <2>1
  <2>3. /\ call'[c] \in CallState /\ call'[c].op = op /\ call'[c].at = 1
        /\ call'[c].result = None /\ call'[c].alone = lone
    BY <2>2 DEF CallState
  <2>4. QED
    BY <2>1, <2>3
<1>4. \A b \in Calls : b # c =>
        /\ call'[b] \in CallState \cup {None}
        /\ Active(b)' <=> Active(b)
        /\ Active(b) =>
             /\ call'[b].op = call[b].op /\ call'[b].at = call[b].at
             /\ call'[b].copy = call[b].copy /\ call'[b].read = call[b].read
             /\ call'[b].image = call[b].image /\ call'[b].thumbnail = call[b].thumbnail
             /\ Meet(call[b].op, op) => ~call'[b].alone
             /\ ~Meet(call[b].op, op) => call'[b].alone = call[b].alone
  BY StartKeeps
<1>5. raced \subseteq raced' /\ raced' \subseteq Collections
  BY <1>1, <1>2, CallsAreOnCollections DEF TypeOK, K
<1>6. TypeOK'
  <2>1. call' = [b \in Calls |-> call'[b]]
    BY DEF Start
  <2>2. call' \in [Calls -> CallState \cup {None}]
    BY <1>3, <1>4, <2>1
  <2>3. QED
    BY <1>1, <1>5, <2>2 DEF TypeOK
<1>7. \A b \in Calls : b # c /\ Active(b) => K(b)' = K(b)
  BY <1>4 DEF K
<1>8. K(c)' = On(op)
  BY <1>3 DEF K
<1>9. Met'
  <2>1. ASSUME NEW a \in Calls, NEW b \in Calls, a # b, Active(a)', Active(b)',
               Meet(call'[a].op, call'[b].op)
        PROVE  ~call'[a].alone
    <3>1. CASE a = c
      <4>1. Active(b) /\ call'[b].op = call[b].op
        BY <1>4, <2>1, <3>1
      <4>2. Meet(call[b].op, op)
        BY <1>3, <2>1, <3>1, <4>1 DEF Meet
      <4>3. b \in met
        BY <4>1, <4>2
      <4>4. QED
        BY <1>3, <3>1, <4>3
    <3>2. CASE b = c
      <4>1. Active(a) /\ Meet(call[a].op, op)
        BY <1>3, <1>4, <2>1, <3>2
      <4>2. QED
        BY <1>4, <2>1, <3>2, <4>1
    <3>3. CASE a # c /\ b # c
      <4>1. Active(a) /\ Active(b) /\ call'[a].op = call[a].op /\ call'[b].op = call[b].op
        BY <1>4, <2>1, <3>3
      <4>2. ~call[a].alone
        BY <1>1, <2>1, <4>1 DEF Met
      <4>3. QED
        BY <1>4, <3>3, <4>1, <4>2
    <3>4. QED
      BY <3>1, <3>2, <3>3
  <2>2. ASSUME NEW b \in Calls, Active(b)', ~call'[b].alone
        PROVE  K(b)' \in raced'
    <3>1. CASE b = c
      BY <1>2, <1>3, <1>8, <2>2, <3>1
    <3>2. CASE b # c /\ Meet(call[b].op, op)
      <4>1. Active(b) /\ K(b)' = K(b)
        BY <1>4, <1>7, <2>2, <3>2
      <4>2. b \in met
        BY <3>2, <4>1
      <4>3. QED
        BY <1>2, <4>1, <4>2
    <3>3. CASE b # c /\ ~Meet(call[b].op, op)
      <4>1. Active(b) /\ K(b)' = K(b) /\ ~call[b].alone
        BY <1>4, <1>7, <2>2, <3>3
      <4>2. QED
        BY <1>1, <1>5, <4>1 DEF Met
    <3>4. QED
      BY <3>1, <3>2, <3>3
  <2>3. QED
    BY <2>1, <2>2 DEF Met
<1>10. ASSUME NEW b \in Calls
       PROVE  Progress(b)'
  <2>1. CASE b = c
    BY <1>3, <2>1, Room DEF Progress, Fits, Operations
  <2>2. CASE b # c
    <3> SUFFICES ASSUME Active(b)
                 PROVE  Progress(b)'
      BY <1>4, <2>2 DEF Progress
    <3>1. Progress(b) /\ K(b)' = K(b)
      BY <1>7, <2>2 DEF CallsInv
    <3>2. \A kind, a : Asset(K(b), kind, a)' <=> Asset(K(b), kind, a)
      BY <1>1, <3>1 DEF Asset
    <3>3. QED
      BY <1>1, <1>4, <2>2, <3>1, <3>2 DEF Progress
  <2>3. QED
    BY <2>1, <2>2
<1>11. ASSUME NEW b \in Calls
       PROVE  Whole(b)'
  <2>1. CASE b = c
    BY <1>3, <2>1 DEF Whole, WholeText, WholeSetting, WholeUnsetting
  <2>2. CASE b # c
    <3> SUFFICES ASSUME Active(b), call'[b].alone
                 PROVE  Whole(b)'
      BY <1>4, <2>2 DEF Whole
    <3>1. Whole(b) /\ K(b)' = K(b) /\ call[b].alone
      BY <1>4, <1>7, <2>2 DEF CallsInv
    <3>2. \A k, kind : Found(k, kind)' = Found(k, kind)
      BY <1>1 DEF Found
    <3>3. WholeText(b, call[b], collection[K(b)].data)'
      BY <1>1, <1>4, <2>2, <3>1 DEF Whole, WholeText
    <3>4. WholeSetting(b, call[b], K(b), collection[K(b)].data)'
      BY <1>1, <1>4, <1>5, <2>2, <3>1, <3>2 DEF Whole, WholeSetting, Few
    <3>5. WholeUnsetting(call[b], K(b), collection[K(b)].data)'
      BY <1>1, <1>4, <2>2, <3>1, <3>2 DEF Whole, WholeUnsetting
    <3>6. QED
      BY <3>3, <3>4, <3>5 DEF Whole
  <2>3. QED
    BY <2>1, <2>2
<1>12. /\ \A k \in Collections \ raced' : Backed(k)'
       /\ \A k \in Collections \ raced' : Single(k)'
  <2>1. Kept /\ \A k : Same(k)
    BY <1>1, NothingTouched
  <2>2. QED
    BY <1>1, <1>5, <2>1, NoGrowth, SameCollection DEF CallsInv
<1>13. QED
  BY <1>6, <1>9, <1>10, <1>11, <1>12 DEF CallsInv

----------------------------------------------------------------------------
(***************************************************************************)
(* The theorems.                                                           *)
(***************************************************************************)
LEMMA InitInv ==
    ASSUME Init
    PROVE  CallsInv
<1>1. PICK there \in {{}, {"conversation"}, Collections} :
        collection = [k \in Collections |->
          [state |-> IF k \in there THEN "there" ELSE "absent", data |-> NoMetadata]]
  BY DEF Init
<1>2. /\ assets = <<>> /\ call = [c \in Calls |-> None] /\ announced = {} /\ failures = 0
      /\ raced = {} /\ surplus = [k \in Collections |-> [kind \in Kinds |-> 0]]
  BY DEF Init
<1>3. NoMetadata \in Metadata /\ NoMetadata.annotation = None
  BY DEF NoMetadata, Metadata
<1>4. \A k \in Collections : collection[k] \in Entry /\ collection[k].data = NoMetadata
  BY <1>1, <1>3 DEF Entry
<1>5. TypeOK
  <2>1. collection \in [Collections -> Entry]
    BY <1>1, <1>4
  <2>2. assets \in Seq(AssetRecord)
    BY <1>2
  <2>3. call \in [Calls -> CallState \cup {None}]
    BY <1>2
  <2>4. QED
    BY <1>2, <2>1, <2>2, <2>3, MaxFailuresAssumption DEF TypeOK, Entry, AssetRecord
<1>6. \A c \in Calls : ~Active(c)
  BY <1>2 DEF Active
<1>7. Met /\ (\A c \in Calls : Progress(c)) /\ (\A c \in Calls : Whole(c))
  BY <1>6 DEF Met, Progress, Whole
<1>8. \A k \in Collections : Backed(k) /\ Single(k)
  <2>1. \A k, kind : Found(k, kind) = {}
    BY <1>2 DEF Found
  <2>2. Cardinality({}) = 0
    BY FS_EmptySet
  <2>3. \A k \in Collections, kind \in Kinds : surplus[k][kind] = 0
    BY <1>2
  <2>4. \A k \in Collections : Single(k)
    BY <2>1, <2>2, <2>3 DEF Single, Few
  <2>5. QED
    BY <1>3, <1>4, <2>4 DEF Backed
<1>9. QED
  BY <1>5, <1>7, <1>8 DEF CallsInv

LEMMA RequestInv ==
    ASSUME CallsInv, NEW c \in Calls, Request(c)
    PROVE  CallsInv'
BY GetInv, CreateCollectionInv, PutInv, SendEventInv, DeleteCollectionInv, FindInv,
   CreateAssetInv, UploadInv, RemoveAssetInv DEF Request

LEMMA StutterInv ==
    ASSUME CallsInv, UNCHANGED vars
    PROVE  CallsInv'
<1>1. UNCHANGED <<collection, assets, call, announced, failures, raced, surplus>>
  BY DEF vars
<1>2. Kept /\ \A k : Same(k)
  BY <1>1, NothingTouched
<1>3. TypeOK' /\ Met'
  BY <1>1 DEF CallsInv, TypeOK, Met, Active, K
<1>8. \A k, kind : Found(k, kind)' = Found(k, kind)
  BY <1>1 DEF Found
<1>9. \A k, kind, a : Asset(k, kind, a)' <=> Asset(k, kind, a)
  BY <1>1 DEF Asset
<1>4. \A c \in Calls : Progress(c)'
  <2> SUFFICES ASSUME NEW c \in Calls PROVE Progress(c)'
    OBVIOUS
  <2>1. Progress(c)
    BY DEF CallsInv
  <2>2. QED
    BY <1>1, <1>9, <2>1 DEF Progress, Active, K
<1>5. \A c \in Calls : Whole(c)'
  <2> SUFFICES ASSUME NEW c \in Calls PROVE Whole(c)'
    OBVIOUS
  <2>1. Whole(c)
    BY DEF CallsInv
  <2>2. QED
    BY <1>1, <1>8, <2>1 DEF Whole, WholeText, WholeSetting, WholeUnsetting, Few, Active, K
<1>6. /\ \A k \in Collections \ raced' : Backed(k)'
      /\ \A k \in Collections \ raced' : Single(k)'
  BY <1>1, <1>2, NoGrowth, SameCollection DEF CallsInv
<1>7. QED
  BY <1>3, <1>4, <1>5, <1>6 DEF CallsInv

\* The inductive invariant of the calls on a conversation holds in every state.
THEOREM CallsInvariant == Spec => []CallsInv
<1>1. Init => CallsInv
  BY InitInv
<1>2. CallsInv /\ [Next]_vars => CallsInv'
  BY StartInv, RequestInv, StutterInv DEF Next
<1>3. QED
  BY <1>1, <1>2, PTL DEF Spec

\* Every value the chains of ConversationSystemInternal keep is one the code
\* can hold.
THEOREM CallsAreTyped == Spec => []TypeOK
<1>1. CallsInv => TypeOK
  BY DEF CallsInv
<1>2. QED
  BY <1>1, CallsInvariant, PTL

\* An annotation names an image and a thumbnail that are there and uploaded,
\* whichever request failed, unless calls on the collection overlapped.
THEOREM AnnotationsStayBacked == Spec => []AnnotationsAreBacked
<1>1. CallsInv => AnnotationsAreBacked
  BY DEF CallsInv, Backed, AnnotationsAreBacked
<1>2. QED
  BY <1>1, CallsInvariant, PTL

\* A collection that calls did not overlap on has at most one asset of each kind
\* and one more for every failed lookup that was taken for an empty answer and
\* for every creation that was sent again.
THEOREM AssetsStaySingle == Spec => []AssetsAreSingle
<1>1. CallsInv => AssetsAreSingle
  BY DEF CallsInv, Single, Few, AssetsAreSingle
<1>2. QED
  BY <1>1, CallsInvariant, PTL

----------------------------------------------------------------------------
(***************************************************************************)
(* The end of a call.                                                      *)
(***************************************************************************)

\* r is the call c with other fields that are no part of its place.
SamePlace(c, r) ==
    /\ {"op", "at", "result"} \subseteq DOMAIN r
    /\ r.op = call[c].op /\ r.at = call[c].at /\ r.result = None

\* A call that is not at the end of its chain has not succeeded.
LEMMA NotYet ==
    ASSUME CallsInv, NEW c \in Calls, Active(c), NEW r, SamePlace(c, r), NEW n \in {1, 2},
           Fits(call[c].op, call[c].at + n), Onward(c, r, n)
    PROVE  call'[c].result # "success"
<1>1. call[c] \in CallState /\ call \in [Calls -> CallState \cup {None}]
  BY DEF CallsInv, TypeOK, Active
<1>2. call[c].op \in Operations /\ call[c].at + n \in Nat
  BY <1>1 DEF CallState
<1>3. ~(call[c].at + n > Len(Chain(call[c].op)))
  BY <1>2, Room
<1>4. PICK q : q = [r EXCEPT !.at = @ + n]
  OBVIOUS
<1>5. call' = [call EXCEPT ![c] = q]
  BY <1>3, <1>4 DEF Onward, SamePlace
<1>6. call'[c] = q
  BY <1>1, <1>5
<1>7. q.result = None
  BY <1>4 DEF SamePlace
<1>8. QED
  BY <1>6, <1>7, NoneAssumption

\* Nor has one whose request is sent again,
LEMMA NotMoved ==
    ASSUME CallsInv, NEW c \in Calls, Active(c), UNCHANGED call
    PROVE  call'[c].result # "success"
BY NoneAssumption DEF Active

\* or one that failed.
LEMMA Failed ==
    ASSUME CallsInv, NEW c \in Calls, Active(c), NEW result \in {"failed", "silent"}, Ends(c, result)
    PROVE  call'[c].result # "success"
<1>1. Stops(c, result)
  BY EndsStops DEF CallsInv
<1>2. QED
  BY <1>1 DEF Stops

\* What may have changed of the call does not move it.
LEMMA FieldsKeepPlace ==
    ASSUME CallsInv, NEW c \in Calls, Active(c)
    PROVE  /\ SamePlace(c, call[c])
           /\ \A x : SamePlace(c, [call[c] EXCEPT !.copy = x])
           /\ \A x, y : SamePlace(c, [call[c] EXCEPT !.copy = x, !.read = y])
           /\ \A kind \in Kinds : \A x : SamePlace(c, [call[c] EXCEPT ![kind] = x])
<1>1. call[c] \in CallState /\ call[c].result = None
  BY DEF CallsInv, TypeOK, Active
<1>2. DOMAIN call[c] = {"op", "at", "allowed", "copy", "read", "image", "thumbnail", "alone", "result"}
  BY <1>1 DEF CallState
<1>3. \A kind \in Kinds : \A x : SamePlace(c, [call[c] EXCEPT ![kind] = x])
  BY <1>1, <1>2 DEF SamePlace, Kinds
<1>4. QED
  BY <1>1, <1>2, <1>3 DEF SamePlace

\* The requests before the last of a chain do not end it in success.
LEMMA NoSuccessBefore ==
    ASSUME CallsInv, NEW c \in Calls
    PROVE  /\ Get(c) => call'[c].result # "success"
           /\ CreateCollection(c) => call'[c].result # "success"
           /\ Put(c) => call'[c].result # "success"
           /\ \A kind \in Kinds : Find(c, kind) => call'[c].result # "success"
           /\ \A kind \in Kinds : CreateAsset(c, kind) => call'[c].result # "success"
           /\ \A kind \in Kinds : Upload(c, kind) => call'[c].result # "success"
<1>1. TypeOK /\ Progress(c)
  BY DEF CallsInv
<1>2. ASSUME Active(c), Rejected(c)
      PROVE  call'[c].result # "success"
  BY <1>2, Failed DEF Rejected
<1>3. ASSUME Get(c)
      PROVE  call'[c].result # "success"
  <2>1. Active(c) /\ Step(c) = "get"
    BY <1>3 DEF Get, At
  <2>2. call[c].at = 1 /\ call[c].op \in Deletions \cup Editing
    BY <1>1, <2>1, Places
  <2>3. Fits(call[c].op, call[c].at + 1)
    BY <2>2 DEF Fits, Editing
  <2>4. PICK data : data = collection[K(c)].data
    OBVIOUS
  <2>5. \/ Rejected(c) \/ Ends(c, "failed")
        \/ Onward(c, [call[c] EXCEPT !.copy = data, !.read = data], 1)
    BY <1>3, <2>4 DEF Get
  <2>6. PICK r : r = [call[c] EXCEPT !.copy = data, !.read = data]
    OBVIOUS
  <2>7. SamePlace(c, r)
    BY <2>1, <2>6, FieldsKeepPlace
  <2>8. QED
    BY <1>2, <2>1, <2>3, <2>5, <2>6, <2>7, Failed, NotYet
<1>4. ASSUME CreateCollection(c)
      PROVE  call'[c].result # "success"
  <2>1. Active(c) /\ Step(c) = "create"
    BY <1>4 DEF CreateCollection, At
  <2>2. call[c].at = 1 /\ call[c].op \in Creations
    BY <1>1, <2>1, Places
  <2>3. Fits(call[c].op, call[c].at + 1)
    BY <2>2 DEF Fits
  <2>4. PICK data : data = [text |-> c, annotation |-> None]
    OBVIOUS
  <2>5. \/ Rejected(c) \/ Ends(c, "failed")
        \/ Onward(c, [call[c] EXCEPT !.copy = data], 1)
    BY <1>4, <2>4 DEF CreateCollection
  <2>6. PICK r : r = [call[c] EXCEPT !.copy = data]
    OBVIOUS
  <2>7. SamePlace(c, r)
    BY <2>1, <2>6, FieldsKeepPlace
  <2>8. QED
    BY <1>2, <2>1, <2>3, <2>5, <2>6, <2>7, Failed, NotYet
<1>5. ASSUME Put(c)
      PROVE  call'[c].result # "success"
  <2>1. Active(c) /\ Step(c) = "put"
    BY <1>5 DEF Put, At
  <2>2. \/ call[c].at = 2 /\ call[c].op \in Updates \cup Unsettings
        \/ call[c].at = 8 /\ call[c].op \in Settings
    BY <1>1, <2>1, Places
  <2>3. Fits(call[c].op, call[c].at + 1)
    BY <2>2 DEF Fits
  <2>4. PICK data : data = NewMetadata(c)
    OBVIOUS
  <2>5. AfterPut(c, data, FALSE) \/ AfterPut(c, data, TRUE) \/ UNCHANGED call
    BY <1>5, <2>4 DEF Put, AfterPut
  <2>6. \/ Ends(c, "failed")
        \/ UNCHANGED call
        \/ Onward(c, [call[c] EXCEPT !.copy = None], 1)
        \/ Onward(c, [call[c] EXCEPT !.copy = data], 1)
    BY <2>5 DEF AfterPut
  <2>7. PICK r : r = [call[c] EXCEPT !.copy = data]
    OBVIOUS
  <2>8. PICK q : q = [call[c] EXCEPT !.copy = None]
    OBVIOUS
  <2>9. SamePlace(c, r) /\ SamePlace(c, q)
    BY <2>1, <2>7, <2>8, FieldsKeepPlace
  <2>10. QED
    BY <2>1, <2>3, <2>6, <2>7, <2>8, <2>9, Failed, NotMoved, NotYet
<1>6. ASSUME NEW kind \in Kinds, Find(c, kind)
      PROVE  call'[c].result # "success"
  <2>1. Active(c) /\ Step(c) = IF kind = "image" THEN "find image" ELSE "find thumbnail"
    BY <1>6 DEF Find, At
  <2>2. \/ call[c].at \in {2, 5} /\ call[c].op \in Settings
        \/ call[c].at \in {4, 6} /\ call[c].op \in Unsettings
    <3>1. Step(c) = "find image" \/ Step(c) = "find thumbnail"
      BY <2>1
    <3>2. QED
      BY <1>1, <2>1, <3>1, Places
  <2>3. /\ Fits(call[c].op, call[c].at + 1)
        /\ call[c].op \in Settings => Fits(call[c].op, call[c].at + 2)
    <3>1. call[c] \in CallState /\ call[c].op \in Operations
      <4>1. call[c] \in CallState
        BY <1>1, <2>1 DEF TypeOK, Active
      <4>2. QED
        BY <4>1 DEF CallState
    <3>2. call[c].op \in Settings => call[c].op \notin Unsettings
      BY <3>1, KindsOfCalls
    <3>3. CASE call[c].op \in Settings
      BY <2>2, <3>2, <3>3 DEF Fits
    <3>4. CASE call[c].op \in Unsettings
      BY <2>2, <3>2, <3>4 DEF Fits
    <3>5. QED
      BY <2>2, <3>3, <3>4
  <2>4. \/ Ends(c, "failed")
        \/ Onward(c, call[c], 1)
        \/ \E x : Onward(c, [call[c] EXCEPT ![kind] = x], 1)
        \/ call[c].op \in Settings /\ \E x : Onward(c, [call[c] EXCEPT ![kind] = x], 2)
    BY <1>6 DEF Find, FindForSetting, FindForRemoving
  <2>5. ASSUME NEW x, NEW n \in {1, 2}, Onward(c, [call[c] EXCEPT ![kind] = x], n),
               Fits(call[c].op, call[c].at + n)
        PROVE  call'[c].result # "success"
    <3>1. PICK r : r = [call[c] EXCEPT ![kind] = x]
      OBVIOUS
    <3>2. SamePlace(c, r)
      BY <2>1, <3>1, FieldsKeepPlace
    <3>3. QED
      BY <2>1, <2>5, <3>1, <3>2, NotYet
  <2>6. SamePlace(c, call[c])
    BY <2>1, FieldsKeepPlace
  <2>7. QED
    BY <2>1, <2>3, <2>4, <2>5, <2>6, Failed, NotYet
<1>7. ASSUME NEW kind \in Kinds, CreateAsset(c, kind)
      PROVE  call'[c].result # "success"
  <2>1. Active(c) /\ Step(c) = IF kind = "image" THEN "create image" ELSE "create thumbnail"
    BY <1>7 DEF CreateAsset, At
  <2>2. call[c].at \in {3, 6} /\ call[c].op \in Settings
    <3>1. Step(c) = "create image" \/ Step(c) = "create thumbnail"
      BY <2>1
    <3>2. QED
      BY <1>1, <2>1, <3>1, Places
  <2>3. Fits(call[c].op, call[c].at + 1)
    BY <2>2 DEF Fits
  <2>4. PICK n : n = Len(assets) + 1
    OBVIOUS
  <2>5. PICK r : r = [call[c] EXCEPT ![kind] = n]
    OBVIOUS
  <2>6. SamePlace(c, r)
    BY <2>1, <2>5, FieldsKeepPlace
  <2>7. Rejected(c) \/ Ends(c, "failed") \/ UNCHANGED call \/ Onward(c, r, 1)
    BY <1>7, <2>4, <2>5 DEF CreateAsset, Continues
  <2>8. QED
    BY <1>2, <2>1, <2>3, <2>6, <2>7, Failed, NotMoved, NotYet
<1>8. ASSUME NEW kind \in Kinds, Upload(c, kind)
      PROVE  call'[c].result # "success"
  <2>1. Active(c) /\ Step(c) = IF kind = "image" THEN "upload image" ELSE "upload thumbnail"
    BY <1>8 DEF Upload, At
  <2>2. call[c].at \in {4, 7} /\ call[c].op \in Settings
    <3>1. Step(c) = "upload image" \/ Step(c) = "upload thumbnail"
      BY <2>1
    <3>2. QED
      BY <1>1, <2>1, <3>1, Places
  <2>3. Fits(call[c].op, call[c].at + 1) /\ SamePlace(c, call[c])
    <3>1. Fits(call[c].op, call[c].at + 1)
      BY <2>2 DEF Fits
    <3>2. SamePlace(c, call[c])
      BY <2>1, FieldsKeepPlace
    <3>3. QED
      BY <3>1, <3>2
  <2>4. Rejected(c) \/ Ends(c, "failed") \/ UNCHANGED call \/ Onward(c, call[c], 1)
    BY <1>8 DEF Upload, Continues
  <2>5. QED
    BY <1>2, <2>1, <2>3, <2>4, Failed, NotMoved, NotYet
<1>9. QED
  BY <1>3, <1>4, <1>5, <1>6, <1>7, <1>8

\* A request of one call does not end another.
LEMMA OthersStay ==
    ASSUME NEW d \in Calls, Request(d), NEW c \in Calls, c # d, TypeOK
    PROVE  call'[c] = call[c]
<1>1. call \in [Calls -> CallState \cup {None}]
  BY DEF TypeOK
<1>2. \A r, n : Onward(d, r, n) => call'[c] = call[c]
  BY <1>1 DEF Onward
<1>3. \A result : Ends(d, result) => call'[c] = call[c]
  BY <1>1 DEF Ends
<1>4. Rejected(d) => call'[c] = call[c]
  BY <1>3 DEF Rejected
<1>8. \A r, o : Continues(d, r, o) => call'[c] = call[c]
  BY <1>2, <1>3 DEF Continues
<1>5. /\ Get(d) => call'[c] = call[c]
      /\ CreateCollection(d) => call'[c] = call[c]
      /\ Put(d) => call'[c] = call[c]
      /\ SendEvent(d) => call'[c] = call[c]
      /\ DeleteCollection(d) => call'[c] = call[c]
  BY <1>2, <1>3, <1>4, <1>8 DEF Get, CreateCollection, Put, SendEvent, DeleteCollection
<1>6. \A kind \in Kinds :
        /\ Find(d, kind) => call'[c] = call[c]
        /\ CreateAsset(d, kind) => call'[c] = call[c]
        /\ Upload(d, kind) => call'[c] = call[c]
        /\ RemoveAsset(d, kind) => call'[c] = call[c]
  BY <1>2, <1>3, <1>4, <1>8 DEF Find, FindForSetting, FindForRemoving, CreateAsset, Upload, RemoveAsset
<1>7. QED
  BY <1>5, <1>6 DEF Request

\* What SuccessIsWhole says of one call.
Done(c) ==
    LET k == K(c)
        data == collection'[k].data
    IN  /\ call[c].op \in Updates \cup Creations => data.text = c
        /\ call[c].op \in Updates => data.annotation = call[c].read.annotation
        /\ call[c].op \in Settings \cup Unsettings => data.text = call[c].read.text
        /\ call[c].op \in Settings =>
             /\ data.annotation # None
             /\ data.annotation.by = c
             /\ \A kind \in Kinds : assets'[data.annotation[kind]].data = c
        /\ call[c].op \in Unsettings =>
             /\ data.annotation = None
             /\ \A kind \in Kinds : Found(k, kind)' = {}
        /\ call[c].op \in Deletions => collection'[k].state = "gone" /\ k \in announced'

\* The event is the last request of a creation, an update and a setting.
LEMMA EventDone ==
    ASSUME CallsInv, NEW c \in Calls, SendEvent(c), call[c].alone, call'[c].result = "success"
    PROVE  Done(c)
<1> PICK k : k = K(c)
  OBVIOUS
<1>1. Active(c) /\ TypeOK /\ Progress(c) /\ Whole(c) /\ Step(c) = "event"
  BY DEF SendEvent, At, CallsInv
<1>2. /\ call[c] \in CallState
      /\ \/ call[c].at = 2 /\ call[c].op \in Creations \cup Deletions
         \/ call[c].at = 3 /\ call[c].op \in Updates \cup Unsettings
         \/ call[c].at = 9 /\ call[c].op \in Settings
  BY <1>1, Places
<1>3. call[c].op \in Operations /\ call[c].image \in Nat /\ call[c].thumbnail \in Nat
  BY <1>2 DEF CallState
<1>4. UNCHANGED <<collection, assets>>
  BY DEF SendEvent
<1>5. ~Fits(call[c].op, call[c].at + 1)
  <2>1. SamePlace(c, call[c])
    BY <1>1, FieldsKeepPlace
  <2>2. Onward(c, call[c], 1) \/ Ends(c, "failed") \/ Ends(c, "silent")
    BY DEF SendEvent
  <2>3. QED
    BY <1>1, <2>1, <2>2, Failed, NotYet
<1>6. call[c].op \in Creations \cup Updates \cup Settings
  BY <1>2, <1>5 DEF Fits
<1>7. CASE call[c].op \in Creations
  <2>1. call[c].at = 2 /\ call[c].op \notin Deletions \cup Updates \cup Settings \cup Unsettings
    BY <1>2, <1>3, <1>7, KindsOfCalls
  <2>2. collection[k].data.text = c
    BY <1>1, <1>7, <2>1 DEF Whole, WholeText
  <2>3. QED
    BY <1>4, <2>1, <2>2 DEF Done
<1>8. CASE call[c].op \in Updates
  <2>1. call[c].at = 3 /\ call[c].op \notin Creations \cup Deletions \cup Settings \cup Unsettings
    BY <1>2, <1>3, <1>8, KindsOfCalls
  <2>2. collection[k].data.text = c /\ collection[k].data.annotation = call[c].read.annotation
    BY <1>1, <1>8, <2>1 DEF Whole, WholeText
  <2>3. QED
    BY <1>4, <2>1, <2>2 DEF Done
<1>9. CASE call[c].op \in Settings
  <2>1. call[c].at = 9 /\ call[c].op \notin Creations \cup Deletions \cup Updates \cup Unsettings
    BY <1>2, <1>3, <1>9, KindsOfCalls
  <2>2. PICK ann : ann = [image |-> call[c].image, thumbnail |-> call[c].thumbnail, by |-> c]
    OBVIOUS
  <2>3. /\ collection[k].data.text = call[c].read.text
        /\ collection[k].data.annotation = ann
        /\ assets[call[c].image].data = c /\ assets[call[c].thumbnail].data = c
    BY <1>1, <1>9, <2>1, <2>2 DEF Whole, WholeSetting
  <2>4. ann # None
    <3>1. ann \in Annotation
      BY <1>3, <2>2 DEF Annotation
    <3>2. QED
      BY <3>1, NoneAssumption
  <2>5. ann.by = c /\ \A kind \in Kinds : assets[ann[kind]].data = c
    BY <2>2, <2>3 DEF Kinds
  <2>6. QED
    BY <1>4, <2>1, <2>3, <2>4, <2>5 DEF Done
<1>10. QED
  BY <1>6, <1>7, <1>8, <1>9

\* The deletion is the last request of a deletion.
LEMMA DeletionDone ==
    ASSUME CallsInv, NEW c \in Calls, DeleteCollection(c), call'[c].result = "success"
    PROVE  Done(c)
<1> PICK k : k = K(c)
  OBVIOUS
<1>1. Active(c) /\ TypeOK /\ Progress(c) /\ Step(c) = "delete" /\ k \in Collections
  BY CallsAreOnCollections DEF DeleteCollection, At, CallsInv, K
<1>2. call[c] \in CallState /\ call[c].at = 3 /\ call[c].op \in Deletions
  BY <1>1, Places
<1>3. call[c].op \in Operations
  BY <1>2 DEF CallState
<1>4. call[c].op \notin Creations \cup Updates \cup Settings \cup Unsettings
  BY <1>2, <1>3, KindsOfCalls
<1>5. ~Rejected(c) /\ ~Ends(c, "failed") /\ ~UNCHANGED call
  BY <1>1, Failed, NotMoved DEF Rejected
<1>6. Deletes(k) /\ announced' = announced
  BY <1>5 DEF DeleteCollection, Deletes, GoneWith, Continues
<1>7. collection'[k].state = "gone"
  BY <1>1, <1>6 DEF Deletes, GoneWith
<1>8. k \in announced
  BY <1>1, <1>2 DEF Progress
<1>9. QED
  BY <1>2, <1>4, <1>6, <1>7, <1>8 DEF Done

\* The removal of the thumbnail is the last request of the removal of an
\* annotation.
LEMMA RemovalDone ==
    ASSUME CallsInv, NEW c \in Calls, NEW kind \in Kinds, RemoveAsset(c, kind), call[c].alone,
           call'[c].result = "success"
    PROVE  Done(c)
<1> PICK k : k = K(c)
  OBVIOUS
<1> PICK a : a = call[c][kind]
  OBVIOUS
<1>1. /\ Active(c) /\ TypeOK /\ Progress(c) /\ Whole(c)
      /\ Step(c) = IF kind = "image" THEN "remove image" ELSE "remove thumbnail"
  BY DEF RemoveAsset, At, CallsInv
<1>2. /\ call[c] \in CallState /\ call[c].op \in Unsettings
      /\ kind = "image" => call[c].at = 5
      /\ kind = "thumbnail" => call[c].at = 7
  <2>1. CASE kind = "image"
    BY <1>1, <2>1, Places
  <2>2. CASE kind = "thumbnail"
    BY <1>1, <2>2, Places
  <2>3. QED
    BY <2>1, <2>2 DEF Kinds
<1>3. call[c].op \in Operations
  BY <1>2 DEF CallState
<1>4. call[c].op \notin Creations \cup Deletions \cup Updates \cup Settings
  BY <1>2, <1>3, KindsOfCalls
<1>5. ~Rejected(c) /\ ~Ends(c, "failed") /\ ~UNCHANGED call
  BY <1>1, Failed, NotMoved DEF Rejected
<1>6. /\ assets[a].there /\ Onward(c, call[c], 1)
      /\ assets' = [assets EXCEPT ![a].there = FALSE]
      /\ collection' = collection
  BY <1>5 DEF RemoveAsset, Continues
<1>7. kind = "thumbnail"
  <2>1. SUFFICES ASSUME kind = "image"
                 PROVE  FALSE
    BY DEF Kinds
  <2>2. Fits(call[c].op, call[c].at + 1)
    BY <1>2, <2>1 DEF Fits
  <2>3. SamePlace(c, call[c])
    BY <1>1, FieldsKeepPlace
  <2>4. QED
    BY <1>1, <1>6, <2>2, <2>3, NotYet
<1>8. a = call[c].thumbnail /\ call[c].at = 7
  BY <1>2, <1>7
<1>9. call[c].copy \in Metadata /\ Asset(k, "thumbnail", a)
  <2>1. Active(c) /\ Progress(c)
    BY <1>1
  <2>2. QED
    BY <1>2, <1>4, <1>8, <2>1 DEF Progress, Editing
<1>10. /\ collection[k].data.annotation = None
       /\ collection[k].data.text = call[c].read.text
       /\ Found(k, "image") = {} /\ Found(k, "thumbnail") \subseteq {a}
  <2>1. Active(c) /\ Whole(c) /\ call[c].copy # None
    BY <1>1, <1>9, NoneAssumption
  <2>2. QED
    BY <1>2, <1>8, <2>1 DEF Whole, WholeUnsetting
<1>11. Found(k, "image")' = {} /\ Found(k, "thumbnail")' = {}
  <2>1. PICK new : new = [assets[a] EXCEPT !.there = FALSE]
    OBVIOUS
  <2>2. assets[a] \in AssetRecord /\ assets[a].on = k /\ assets[a].kind = "thumbnail"
    <3>1. assets \in Seq(AssetRecord)
      BY <1>1 DEF TypeOK, AssetRecord
    <3>2. QED
      BY <1>9, <3>1 DEF Asset
  <2>3. new \in AssetRecord /\ new.on = k /\ new.kind = "thumbnail" /\ ~new.there
    BY <2>1, <2>2 DEF AssetRecord
  <2>4. Replaces(a, new)
    BY <1>6, <2>1 DEF Replaces
  <2>5. /\ \A q : q # "thumbnail" => Found(k, q)' = Found(k, q)
        /\ Found(k, "thumbnail")' =
             IF new.there THEN Found(k, "thumbnail") ELSE Found(k, "thumbnail") \ {a}
    <3>1. new \in AssetRecord /\ new.on = k /\ new.kind = "thumbnail"
      BY <2>3
    <3>2. TypeOK /\ assets[a].there /\ collection' = collection
      BY <1>1, <1>6
    <3>3. QED
      BY <1>9, <2>4, <3>1, <3>2, AssetChanged
  <2>6. QED
    BY <1>10, <2>3, <2>5
<1>12. K(c)' = k
  <2>1. Stops(c, "success")
    <3>1. ~Fits(call[c].op, call[c].at + 1)
      BY <1>4, <1>8 DEF Fits
    <3>2. TypeOK /\ Active(c)
      BY <1>1
    <3>3. QED
      BY <1>6, <3>1, <3>2, Finish
  <2>2. QED
    BY <2>1 DEF Stops, Moves, K
<1>13. \A q \in Kinds : Found(K(c), q)' = {}
  BY <1>11, <1>12 DEF Kinds
<1>14. QED
  BY <1>4, <1>6, <1>10, <1>13 DEF Done

\* A call that succeeded without meeting another did all of what it says, and
\* kept the rest of the collection's metadata.
THEOREM SuccessStaysWhole == Spec => SuccessIsWhole
<1>1. ASSUME CallsInv, [Next]_vars, NEW c \in Calls,
             Active(c), call[c].alone, call'[c].result = "success"
      PROVE  Done(c)
  <2>1. call[c] \in CallState /\ call[c].result = None /\ TypeOK
    BY <1>1 DEF CallsInv, TypeOK, Active
  <2>2. call'[c] # call[c]
    BY <1>1, <2>1, NoneAssumption
  <2>3. CASE UNCHANGED vars
    BY <2>2, <2>3 DEF vars
  <2>4. ASSUME NEW d \in Calls, NEW op \in Operations, NEW allowed \in BOOLEAN, Start(d, op, allowed)
        PROVE  Done(c)
    <3>1. c # d
      BY <1>1, <2>4 DEF Start, Active
    <3>2. Active(c)'
      BY <1>1, <2>4, <3>1, StartKeeps
    <3>3. QED
      BY <1>1, <3>2, NoneAssumption DEF Active
  <2>5. ASSUME NEW d \in Calls, Request(d)
        PROVE  Done(c)
    <3>1. c = d
      BY <2>1, <2>2, <2>5, OthersStay
    <3>2. \/ SendEvent(c) \/ DeleteCollection(c) \/ \E kind \in Kinds : RemoveAsset(c, kind)
      BY <1>1, <2>5, <3>1, NoSuccessBefore DEF Request
    <3>3. QED
      BY <1>1, <3>2, EventDone, DeletionDone, RemovalDone
  <2>6. QED
    BY <1>1, <2>3, <2>4, <2>5 DEF Next
<1>2. CallsInv /\ [Next]_vars =>
        [\A c \in Calls : (Active(c) /\ call[c].alone /\ call'[c].result = "success") => Done(c)]_vars
  BY <1>1
<1>3. QED
  BY <1>2, CallsInvariant, PTL DEF Spec, SuccessIsWhole, Done
=============================================================================
