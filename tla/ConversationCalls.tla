------------------------- MODULE ConversationCalls -------------------------
(***************************************************************************)
(* ConversationSystemInternal: the calls on a conversation and on one of   *)
(* its messages.  Both are asset collections of the asset service; a call  *)
(* is a chain of requests to that service and an event to the other        *)
(* clients.  Calls of one or of several clients interleave between their   *)
(* requests, and any request may fail, with or without having had its      *)
(* effect, or have its effect more than once: the web client sends it      *)
(* again when the status of the answer is 408, 429 or 5xx.                 *)
(*                                                                         *)
(* Texts and data are named by the call that wrote them.  Calls that only  *)
(* read are left out.                                                      *)
(***************************************************************************)
EXTENDS Naturals, Sequences, FiniteSets

CONSTANTS
    MaxCalls,       \* bound on the calls made
    MaxOverlap,     \* bound on the calls under way at once
    MaxFailures,    \* bound on the requests that fail
    None            \* nothing

ASSUME MaxCallsAssumption == MaxCalls \in Nat
ASSUME MaxFailuresAssumption == MaxFailures \in Nat

Calls == 1 .. MaxCalls
Collections == {"conversation", "message"}
Kinds == {"image", "thumbnail"}     \* ANNOTATION and ANNOTATION_THUMBNAIL

VARIABLES
    collection,     \* the collections of the service
    assets,         \* the annotation assets of the service, oldest first
    call,           \* call[c]: how far a call has come
    announced,      \* collections whose deletion the other clients were told
    failures,       \* requests that failed
    raced,          \* history: collections two calls were on at once
    surplus         \* history: surplus[k][kind], the failed lookups taken for empty
                    \*   although there was an asset, and the creations sent again

history == <<raced, surplus>>
vars == <<collection, assets, call, announced, failures, raced, surplus>>

----------------------------------------------------------------------------
(***************************************************************************)
(* The calls and their chains.                                             *)
(***************************************************************************)
Creations == {"CreateConversation", "AddMessage"}
Deletions == {"DeleteConversation", "DeleteMessage"}
Updates == {"UpdateConversation", "UpdateMessage"}
Settings == {"SetConversationAnnotation", "SetAnnotation"}
Unsettings == {"DeleteConversationAnnotation", "DeleteAnnotation"}
Operations == Creations \cup Deletions \cup Updates \cup Settings \cup Unsettings

On(op) ==
    IF op \in {"CreateConversation", "DeleteConversation", "UpdateConversation",
               "SetConversationAnnotation", "DeleteConversationAnnotation"}
    THEN "conversation" ELSE "message"

CreateChain == <<"create", "event">>

DeleteChain == <<"get", "event", "delete">>

UpdateChain == <<"get", "put", "event">>

\* Mutant: the metadata names the assets before they are uploaded.
SetChainPutsFirst ==
    <<"get", "find image", "create image", "find thumbnail", "create thumbnail",
      "put", "upload image", "upload thumbnail", "event">>

SetChain ==
    <<"get", "find image", "create image", "upload image",
      "find thumbnail", "create thumbnail", "upload thumbnail", "put", "event">>

UnsetChain ==
    <<"get", "put", "event", "find image", "remove image", "find thumbnail", "remove thumbnail">>

Chain(op) ==
    CASE op \in Creations -> CreateChain
      [] op \in Deletions -> DeleteChain
      [] op \in Updates -> UpdateChain
      [] op \in Settings -> SetChain
      [] op \in Unsettings -> UnsetChain

\* Calls whose chain ends in a handler of expected exceptions only: the
\* exception that a failed event raises is not one.
Unhandled == {"SetConversationAnnotation", "DeleteConversationAnnotation", "DeleteAnnotation"}

\* Calls that only the author may make, or that check that the message is one
\* of the conversation.
Checked == {"UpdateConversation", "UpdateMessage", "DeleteMessage",
            "SetAnnotation", "DeleteAnnotation"}

Annotation == [image : Nat, thumbnail : Nat, by : Calls]

Metadata == [text : Calls \cup {0}, annotation : Annotation \cup {None}]

CallState ==
    [op : Operations, at : 1 .. 9,
     allowed : BOOLEAN,                     \* passes the check of Checked
     copy : Metadata \cup {None},           \* the collection as last answered
     read : Metadata \cup {None},           \* history: the collection as first read
     image : Nat, thumbnail : Nat,          \* assets, 0 for none
     alone : BOOLEAN,                       \* history: met no other call
     result : {None, "success", "failed", "silent"}]

\* Nothing is told from everything that may stand where it does.
ASSUME NoneAssumption ==
    None \notin Calls \cup Annotation \cup Metadata \cup CallState \cup {"success", "failed", "silent"}

TypeOK ==
    /\ collection \in [Collections ->
            [state : {"absent", "there", "gone"}, data : Metadata]]
    /\ assets \in Seq([on : Collections, kind : Kinds, data : Calls \cup {None}, there : BOOLEAN])
    /\ call \in [Calls -> CallState \cup {None}]
    /\ announced \subseteq Collections
    /\ failures \in 0 .. MaxFailures
    /\ raced \subseteq Collections
    /\ surplus \in [Collections -> [Kinds -> Nat]]

NoMetadata == [text |-> 0, annotation |-> None]

Init ==
    /\ \E there \in {{}, {"conversation"}, Collections} :
         collection = [k \in Collections |->
            [state |-> IF k \in there THEN "there" ELSE "absent", data |-> NoMetadata]]
    /\ assets = <<>>
    /\ call = [c \in Calls |-> None]
    /\ announced = {}
    /\ failures = 0
    /\ raced = {}
    /\ surplus = [k \in Collections |-> [kind \in Kinds |-> 0]]

----------------------------------------------------------------------------
(***************************************************************************)
(* Requests.                                                               *)
(***************************************************************************)
Active(c) == call[c] # None /\ call[c].result = None

Step(c) == Chain(call[c].op)[call[c].at]

At(c, step) == Active(c) /\ Step(c) = step

K(c) == On(call[c].op)

\* How an attempt may end: done and answered, done with the answer lost, or not
\* done.
Outcomes == IF failures < MaxFailures THEN {"answered", "lost", "refused"} ELSE {"answered"}

\* Or done and answered with a status on which it is sent again, whatever the
\* method.  To send again what only reads, or what was not done, changes
\* nothing, and the second of two collections is one no call is on.
Attempts == IF failures < MaxFailures THEN Outcomes \cup {"resent"} ELSE Outcomes

Count(o) == failures' = IF o = "answered" THEN failures ELSE failures + 1

\* What a call has captured is released when it ends.
Ended(r, result) ==
    [r EXCEPT !.result = result, !.at = 1, !.allowed = TRUE, !.copy = None, !.read = None,
              !.image = 0, !.thumbnail = 0, !.alone = TRUE]

\* The call of c goes on from r with the n-th next step.
Onward(c, r, n) ==
    call' = [call EXCEPT ![c] =
                IF r.at + n > Len(Chain(r.op)) THEN Ended(r, "success")
                                               ELSE [r EXCEPT !.at = @ + n]]

Ends(c, result) == call' = [call EXCEPT ![c] = Ended(@, result)]

\* The call of c after an attempt that ended with o.
Continues(c, r, o) ==
    \/ o = "answered" /\ Onward(c, r, 1)
    \/ o = "resent" /\ UNCHANGED call
    \/ o \in {"lost", "refused"} /\ Ends(c, "failed")

\* Mutant: an early return without a callback.
RejectedSilently(c) ==
    /\ Ends(c, "silent")
    /\ UNCHANGED <<collection, assets, announced, failures, history>>

\* The service has no such collection or asset, or the client refuses: the
\* call fails.
Rejected(c) ==
    /\ Ends(c, "failed")
    /\ UNCHANGED <<collection, assets, announced, failures, history>>

\* Two calls meet when they are on one collection; the deletion of the
\* conversation is on its messages too.
Meet(op1, op2) == On(op1) = On(op2) \/ "DeleteConversation" \in {op1, op2}

Start(c, op, allowed) ==
    /\ call[c] = None
    /\ \A b \in Calls : b < c => call[b] # None
    /\ Cardinality({b \in Calls : Active(b)}) < MaxOverlap
    /\ op \in Creations => /\ collection[On(op)].state = "absent"
                           /\ \A b \in Calls : call[b] # None => call[b].op # op
    /\ op \notin Creations => collection[On(op)].state # "absent"
    /\ op = "AddMessage" => collection["conversation"].state # "absent"
    /\ op \notin Checked => allowed
    /\ LET met == {b \in Calls : Active(b) /\ Meet(call[b].op, op)} IN
         /\ call' = [b \in Calls |->
                IF b = c
                THEN [op |-> op, at |-> 1, allowed |-> allowed, copy |-> None, read |-> None,
                      image |-> 0, thumbnail |-> 0, alone |-> met = {}, result |-> None]
                ELSE IF b \in met THEN [call[b] EXCEPT !.alone = FALSE] ELSE call[b]]
         /\ raced' = raced \cup {K(b) : b \in met} \cup (IF met = {} THEN {} ELSE {On(op)})
    /\ UNCHANGED <<collection, assets, announced, failures, surplus>>

\* GetAssetCollectionById, and the checks of the answer.
Get(c) ==
    /\ At(c, "get")
    /\ LET k == K(c)
           found == collection[k].state = "there"
           data == collection[k].data
           passes == /\ call[c].allowed
                     /\ call[c].op \in Unsettings => data.annotation # None
       IN  \/ ~(found /\ passes) /\ Rejected(c)
           \/ /\ found /\ passes
              /\ \E o \in Outcomes :
                   /\ Count(o)
                   /\ IF o = "answered"
                      THEN Onward(c, [call[c] EXCEPT !.copy = data, !.read = data], 1)
                      ELSE Ends(c, "failed")
              /\ UNCHANGED <<collection, assets, announced, history>>

\* CreateAssetCollection.
CreateCollection(c) ==
    /\ At(c, "create")
    /\ LET k == K(c)
           data == [text |-> c, annotation |-> None]
           possible == k = "message" => collection["conversation"].state = "there"
       IN  \/ ~possible /\ Rejected(c)
           \/ /\ possible
              /\ \E o \in Outcomes :
                   /\ Count(o)
                   /\ collection' = IF o = "refused" THEN collection
                        ELSE [collection EXCEPT ![k] = [state |-> "there", data |-> data]]
                   /\ IF o = "answered" THEN Onward(c, [call[c] EXCEPT !.copy = data], 1)
                                        ELSE Ends(c, "failed")
              /\ UNCHANGED <<assets, announced, history>>

\* Mutant: only the new keys are sent.
NewMetadataOnly(c) ==
    LET op == call[c].op IN
    IF op \in Updates THEN [NoMetadata EXCEPT !.text = c]
    ELSE IF op \in Settings
    THEN [NoMetadata EXCEPT !.annotation =
            [image |-> call[c].image, thumbnail |-> call[c].thumbnail, by |-> c]]
    ELSE [call[c].copy EXCEPT !.annotation = None]

\* Mutant: the keys of an annotation are emptied instead of removed.
NewMetadataEmptied(c) ==
    LET op == call[c].op IN
    IF op \in Updates THEN [call[c].copy EXCEPT !.text = c]
    ELSE IF op \in Settings
    THEN [call[c].copy EXCEPT !.annotation =
            [image |-> call[c].image, thumbnail |-> call[c].thumbnail, by |-> c]]
    ELSE [call[c].copy EXCEPT !.annotation = [image |-> 0, thumbnail |-> 0, by |-> None]]

\* The metadata a call sends: the copy it read with its own keys replaced or
\* removed.
NewMetadata(c) ==
    LET op == call[c].op IN
    IF op \in Updates THEN [call[c].copy EXCEPT !.text = c]
    ELSE IF op \in Settings
    THEN [call[c].copy EXCEPT !.annotation =
            [image |-> call[c].image, thumbnail |-> call[c].thumbnail, by |-> c]]
    ELSE [call[c].copy EXCEPT !.annotation = None]

\* UpdateAssetCollectionMetadata.  A removal of the annotation does not look
\* whether the update succeeded: it goes on with the empty collection of the
\* failed result.
Put(c) ==
    /\ At(c, "put")
    /\ LET k == K(c)
           data == NewMetadata(c)
           possible == collection[k].state = "there"
           GoesOn(ok) ==
                IF ok \/ call[c].op \in Unsettings
                THEN Onward(c, [call[c] EXCEPT !.copy = IF ok THEN data ELSE None], 1)
                ELSE Ends(c, "failed")
       IN  \/ /\ ~possible
              /\ GoesOn(FALSE)
              /\ UNCHANGED <<collection, failures>>
           \/ /\ possible
              /\ \E o \in Attempts :
                   /\ Count(o)
                   /\ collection' = IF o = "refused" THEN collection
                                    ELSE [collection EXCEPT ![k].data = data]
                   /\ IF o = "resent" THEN UNCHANGED call ELSE GoesOn(o = "answered")
    /\ UNCHANGED <<assets, announced, history>>

\* SendNetworkEvent.  A failed one is reported to the caller, but for the
\* calls of Unhandled, which end without a callback.
SendEvent(c) ==
    /\ At(c, "event")
    /\ \E o \in Outcomes :
         /\ Count(o)
         /\ announced' = IF o = "refused" \/ call[c].op \notin Deletions THEN announced
                         ELSE announced \cup {K(c)}
         /\ IF o = "answered" THEN Onward(c, call[c], 1)
            ELSE Ends(c, IF call[c].op \in Unhandled THEN "silent" ELSE "failed")
    /\ UNCHANGED <<collection, assets, history>>

\* DeleteAssetCollection; the service deletes the assets, and the messages of
\* a conversation.
DeleteCollection(c) ==
    /\ At(c, "delete")
    /\ LET k == K(c)
           possible == collection[k].state = "there"
           Gone(j) == j = k \/ (k = "conversation" /\ collection[j].state = "there")
       IN  \/ ~possible /\ Rejected(c)
           \/ /\ possible
              /\ \E o \in Attempts :
                   /\ Count(o)
                   /\ collection' = IF o = "refused" THEN collection
                        ELSE [j \in Collections |->
                                IF Gone(j) THEN [state |-> "gone", data |-> NoMetadata]
                                           ELSE collection[j]]
                   /\ assets' = IF o = "refused" THEN assets
                        ELSE [a \in DOMAIN assets |->
                                [assets[a] EXCEPT !.there = @ /\ ~Gone(assets[a].on)]]
                   /\ Continues(c, call[c], o)
              /\ UNCHANGED <<announced, history>>

----------------------------------------------------------------------------
(***************************************************************************)
(* Annotation assets.                                                      *)
(***************************************************************************)
Found(k, kind) ==
    {a \in DOMAIN assets : assets[a].there /\ assets[a].on = k /\ assets[a].kind = kind}

\* Mutant: an asset is made though there is one.
FindForSettingAnew(c, kind, found, ok) ==
    Onward(c, call[c], 1)

\* GetOrCreateAnnotationAsset: the asset there is, or a new one.  Whether the
\* lookup succeeded is not looked at: a failed one has no assets.
FindForSetting(c, kind, found, ok) ==
    IF ~ok \/ found = {} THEN Onward(c, call[c], 1)
    ELSE IF Cardinality(found) = 1
    THEN Onward(c, [call[c] EXCEPT ![kind] = CHOOSE a \in found : TRUE], 2)
    ELSE Ends(c, "failed")

\* GetAnnotationAsset and DeleteAnnotationAsset up to its request.
FindForRemoving(c, kind, found, ok) ==
    IF ok /\ Cardinality(found) = 1
    THEN Onward(c, [call[c] EXCEPT ![kind] = CHOOSE a \in found : TRUE], 1)
    ELSE Ends(c, "failed")

\* GetAssetsByCriteria.
Find(c, kind) ==
    /\ At(c, IF kind = "image" THEN "find image" ELSE "find thumbnail")
    /\ LET found == IF call[c].copy = None THEN {} ELSE Found(K(c), kind) IN
       \E o \in Outcomes :
         /\ Count(o)
         /\ IF call[c].op \in Settings THEN FindForSetting(c, kind, found, o = "answered")
                                       ELSE FindForRemoving(c, kind, found, o = "answered")
         /\ surplus' = IF o # "answered" /\ found # {} /\ call[c].op \in Settings
                       THEN [surplus EXCEPT ![K(c)][kind] = @ + 1] ELSE surplus
    /\ UNCHANGED <<collection, assets, announced, raced>>

\* CreateAsset.  One that is sent again makes another asset.
CreateAsset(c, kind) ==
    /\ At(c, IF kind = "image" THEN "create image" ELSE "create thumbnail")
    /\ LET possible == collection[K(c)].state = "there"
           new == [on |-> K(c), kind |-> kind, data |-> None, there |-> TRUE]
       IN  \/ ~possible /\ Rejected(c)
           \/ /\ possible
              /\ \E o \in Attempts :
                   /\ Count(o)
                   /\ assets' = IF o = "refused" THEN assets ELSE Append(assets, new)
                   /\ Continues(c, [call[c] EXCEPT ![kind] = Len(assets) + 1], o)
                   /\ surplus' = IF o = "resent" THEN [surplus EXCEPT ![K(c)][kind] = @ + 1]
                                                 ELSE surplus
              /\ UNCHANGED <<collection, announced, raced>>

\* UploadAssetDataEx.
Upload(c, kind) ==
    /\ At(c, IF kind = "image" THEN "upload image" ELSE "upload thumbnail")
    /\ LET a == call[c][kind] IN
       \/ ~assets[a].there /\ Rejected(c)
       \/ /\ assets[a].there
          /\ \E o \in Attempts :
               /\ Count(o)
               /\ assets' = IF o = "refused" THEN assets ELSE [assets EXCEPT ![a].data = c]
               /\ Continues(c, call[c], o)
          /\ UNCHANGED <<collection, announced, history>>

\* DeleteAsset.
RemoveAsset(c, kind) ==
    /\ At(c, IF kind = "image" THEN "remove image" ELSE "remove thumbnail")
    /\ LET a == call[c][kind] IN
       \/ ~assets[a].there /\ Rejected(c)
       \/ /\ assets[a].there
          /\ \E o \in Attempts :
               /\ Count(o)
               /\ assets' = IF o = "refused" THEN assets ELSE [assets EXCEPT ![a].there = FALSE]
               /\ Continues(c, call[c], o)
          /\ UNCHANGED <<collection, announced, history>>

Request(c) ==
    \/ Get(c) \/ CreateCollection(c) \/ Put(c) \/ SendEvent(c) \/ DeleteCollection(c)
    \/ \E kind \in Kinds : Find(c, kind) \/ CreateAsset(c, kind) \/ Upload(c, kind) \/ RemoveAsset(c, kind)

Next ==
    \E c \in Calls :
        \/ \E op \in Operations, allowed \in BOOLEAN : Start(c, op, allowed)
        \/ Request(c)

\* Every request is answered, if only by a failure: see WebRequests.
Spec == Init /\ [][Next]_vars /\ \A c \in Calls : WF_vars(Request(c))

----------------------------------------------------------------------------
(***************************************************************************)
(* Properties.                                                             *)
(***************************************************************************)

\* The annotation of a collection names an image and a thumbnail that are
\* there and were uploaded, whichever request of SetAnnotation or
\* DeleteAnnotation failed, as long as calls on it do not overlap.
AnnotationsAreBacked ==
    \A k \in Collections \ raced :
        LET annotation == collection[k].data.annotation IN
        annotation # None =>
            \A kind \in Kinds :
                /\ annotation[kind] \in Found(k, kind)
                /\ assets[annotation[kind]].data # None

\* A call that succeeded without meeting another did what it says and nothing
\* else: a new annotation is that of the call, image and thumbnail included,
\* and the text is kept; a new text keeps the annotation's assets; after the
\* removal of an annotation there is neither annotation nor asset; and a deleted
\* collection is gone and the other clients were told.
SuccessIsWhole ==
    [][\A c \in Calls :
        (Active(c) /\ call[c].alone /\ call'[c].result = "success") =>
            LET k == K(c)
                data == collection'[k].data
            IN  /\ call[c].op \in Updates \cup Creations => data.text = c
                /\ call[c].op \in Updates => data.annotation = call[c].read.annotation
                /\ call[c].op \in Settings \cup Unsettings => data.text = call[c].read.text
                /\ call[c].op \in Settings =>
                     /\ data.annotation # None
                     /\ data.annotation.by = c
                     /\ \A kind \in Kinds : assets'[data.annotation[kind]].data = c
                /\ call[c].op \in Unsettings =>
                     /\ data.annotation = None
                     /\ \A kind \in Kinds : Found(k, kind)' = {}
                /\ call[c].op \in Deletions => collection'[k].state = "gone" /\ k \in announced']_vars

\* A collection has at most one image and one thumbnail, without which neither
\* SetAnnotation nor DeleteAnnotation can succeed again: unless calls on it
\* overlapped, every other one stands for a failed lookup taken for an empty
\* answer or for a creation that was sent again.
AssetsAreSingle ==
    \A k \in Collections \ raced, kind \in Kinds : Cardinality(Found(k, kind)) <= 1 + surplus[k][kind]

Answered(c) == call[c] # None /\ call[c].result \in {"success", "failed"}

\* When no more calls are made, every call whose chain handles all exceptions
\* has been answered.
HandledCallsAreAnswered ==
    <>[](\A c \in Calls : (call[c] # None /\ call[c].op \notin Unhandled) => Answered(c))
=============================================================================
