------------------------ MODULE WebRequestsProofs ------------------------
(***************************************************************************)
(* Proofs about the web client, for any number of worker threads, retries  *)
(* and requests.                                                           *)
(***************************************************************************)
EXTENDS WebRequests, FiniteSetTheorems, SequenceTheorems, TLAPS

(***************************************************************************)
(* The inductive invariant.                                                *)
(***************************************************************************)

\* An attempt at a request is in one place: with a thread before it sends, with
\* the worker that sends it or has its answer, or in one of the two queues.
Unsent == {"gate", "mark", "start", "send", "refresh", "add"}
Carrying == Unsent \cup {"sending", "answer"}

Waiting == Queued(jobs) \cup Queued(polls)

NoRepeats(s) == \A i, j \in DOMAIN s : s[i] = s[j] => i = j

\* A thread has a request exactly while it works on one, and no worker has the
\* one that the application is sending.
PointsAgree ==
    /\ \A w \in Workers : cur[w] = 0 <=> at[w] \in {"idle", "exited"}
    /\ cur[App] = 0 <=> at[App] \notin {"refresh", "add"}
    /\ \A w \in Workers : cur[w] # 0 => cur[w] # cur[App]

OneAttempt ==
    /\ NoRepeats(jobs) /\ NoRepeats(polls)
    /\ Queued(jobs) \cap Queued(polls) = {}
    /\ \A t \in Threads : at[t] \in Carrying => cur[t] \notin Waiting
    /\ \A t, u \in Threads :
         at[t] \in Carrying /\ at[u] \in Carrying /\ cur[t] = cur[u] => t = u

WorkersOn(r) == {w \in Workers : cur[w] = r}

\* Every worker on a request, and its place in a queue, has a reference.
RefsSuffice ==
    \A r \in Ids :
        /\ reqs[r].refs >= Cardinality(WorkersOn(r))
        /\ r \in Waiting => reqs[r].refs > Cardinality(WorkersOn(r))

\* A registered request has yet to be taken out of Requests by whoever has it.
RegisteredAreHeld ==
    \A r \in registered :
        \/ r \in Waiting
        \/ \E w \in WorkersOn(r) : at[w] \in Carrying \cup {"destroy"}

Busy == {w \in Workers : at[w] \notin {"idle", "release", "exited"}}

\* RequestCount covers what is queued, unpolled or with a busy worker.
CountSuffices == count >= Len(jobs) + Len(polls) + Cardinality(Busy)

\* A request whose attempt has yet to be sent, is being sent, or has ended: it
\* was not called back so far.
Fresh(q) ==
    /\ q.answers = 0
    /\ q.sends <= q.retries
    /\ ~q.cancelled => q.sends = q.retries
Sent(q) ==
    /\ q.answers = 0
    /\ ~q.cancelled => q.sends = q.retries + 1
GaveUp(q) == q.code = "busy" /\ ~q.cancelled => q.sends = MaxRetries + 1
Ended(q) == q.answers = 0 /\ GaveUp(q)

\* What holds of every request.
Sane(q) ==
    /\ q.answers <= 1
    /\ q.answers = 1 => GaveUp(q)
    /\ q.retries <= MaxRetries
    /\ q.sends <= q.retries + 1
    /\ ~q.autoRetry => q.cancelled

RequestsAgree ==
    /\ \A r \in Ids : Sane(reqs[r])
    /\ \A r \in Queued(jobs) : Fresh(reqs[r])
    /\ \A r \in Queued(polls) : Ended(reqs[r])
    /\ \A t \in Threads :
         /\ at[t] \in Unsent => Fresh(reqs[cur[t]])
         /\ at[t] = "sending" => Sent(reqs[cur[t]])
         /\ at[t] = "answer" => Ended(reqs[cur[t]])

WebInv ==
    /\ TypeOK /\ PointsAgree /\ OneAttempt /\ RequestsAgree /\ RefsSuffice
    /\ RegisteredAreHeld /\ CountSuffices /\ ClosesOnlyWhenIdle

----------------------------------------------------------------------------
(***************************************************************************)
(* Queues, requests and sets of threads.                                   *)
(***************************************************************************)

\* A queue with one more element.
LEMMA QueuedAppend ==
    ASSUME NEW S, NEW s \in Seq(S), NEW e \in S
    PROVE  /\ Append(s, e) \in Seq(S) /\ Len(Append(s, e)) = Len(s) + 1
           /\ Queued(Append(s, e)) = Queued(s) \cup {e}
           /\ NoRepeats(s) /\ e \notin Queued(s) => NoRepeats(Append(s, e))
<1> DEFINE t == Append(s, e)
<1>1. Len(s) \in Nat /\ DOMAIN s = 1 .. Len(s)
  BY LenProperties
<1>2. /\ t \in Seq(S) /\ Len(t) = Len(s) + 1
      /\ \A n \in 1 .. Len(s) : t[n] = s[n]
      /\ t[Len(s) + 1] = e
  BY <1>1, AppendProperties
<1>3. DOMAIN t = 1 .. Len(s) + 1
  BY <1>2, LenProperties
<1> HIDE DEF t
<1>4. Queued(t) = Queued(s) \cup {e}
  BY <1>1, <1>2, <1>3 DEF Queued
<1>5. ASSUME NoRepeats(s), e \notin Queued(s) PROVE NoRepeats(t)
  <2> SUFFICES ASSUME NEW i \in 1 .. Len(s) + 1, NEW j \in 1 .. Len(s) + 1, t[i] = t[j]
               PROVE  i = j
    BY <1>3 DEF NoRepeats
  <2>1. \A n \in 1 .. Len(s) : s[n] # e
    BY <1>1, <1>5 DEF Queued
  <2> QED BY <1>1, <1>2, <1>5, <2>1 DEF NoRepeats
<1> QED BY <1>2, <1>4, <1>5 DEF t

\* A queue without its first element.
LEMMA QueuedTail ==
    ASSUME NEW S, NEW s \in Seq(S), s # <<>>, NoRepeats(s)
    PROVE  /\ Tail(s) \in Seq(S) /\ Len(Tail(s)) = Len(s) - 1 /\ Len(s) \in Nat \ {0}
           /\ Head(s) \in Queued(s) /\ Head(s) \in S
           /\ Queued(Tail(s)) = Queued(s) \ {Head(s)}
           /\ NoRepeats(Tail(s))
<1> DEFINE t == Tail(s)
<1>1. Len(s) \in Nat \ {0} /\ DOMAIN s = 1 .. Len(s)
  BY LenProperties, EmptySeq
<1>2. /\ t \in Seq(S) /\ Len(t) = Len(s) - 1
      /\ \A n \in 1 .. Len(t) : t[n] = s[n + 1]
      /\ Head(s) \in S
  BY HeadTailProperties
<1>3. DOMAIN t = 1 .. Len(s) - 1
  BY <1>2, LenProperties
<1>4. Head(s) = s[1]
  OBVIOUS
<1> HIDE DEF t
<1>5. Head(s) \in Queued(s)
  BY <1>1, <1>4 DEF Queued
<1>6. \A n \in 1 .. Len(s) : s[n] = s[1] => n = 1
  BY <1>1 DEF NoRepeats
<1>7. Queued(t) \subseteq Queued(s) \ {Head(s)}
  <2> SUFFICES ASSUME NEW n \in 1 .. Len(s) - 1 PROVE t[n] \in Queued(s) /\ t[n] # Head(s)
    BY <1>3 DEF Queued
  <2>1. n + 1 \in 1 .. Len(s) /\ n + 1 # 1 /\ t[n] = s[n + 1]
    BY <1>1, <1>2
  <2> QED BY <1>1, <1>4, <1>6, <2>1 DEF Queued
<1>8. Queued(s) \ {Head(s)} \subseteq Queued(t)
  <2> SUFFICES ASSUME NEW n \in 1 .. Len(s), s[n] # s[1] PROVE s[n] \in Queued(t)
    BY <1>1, <1>4 DEF Queued
  <2>1. n - 1 \in 1 .. Len(s) - 1 /\ n = (n - 1) + 1
    BY <1>1
  <2>2. t[n - 1] = s[n]
    BY <1>2, <2>1
  <2> QED BY <1>3, <2>1, <2>2 DEF Queued
<1>9. NoRepeats(t)
  <2> SUFFICES ASSUME NEW i \in 1 .. Len(s) - 1, NEW j \in 1 .. Len(s) - 1, t[i] = t[j]
               PROVE  i = j
    BY <1>3 DEF NoRepeats
  <2>1. /\ i + 1 \in 1 .. Len(s) /\ j + 1 \in 1 .. Len(s)
        /\ s[i + 1] = s[j + 1]
    BY <1>1, <1>2
  <2>2. i + 1 = j + 1
    BY <1>1, <2>1 DEF NoRepeats
  <2> QED BY <2>2
<1> QED BY <1>1, <1>2, <1>5, <1>7, <1>8, <1>9 DEF t

\* What TypeOK says of the requests, the queues and the sets of threads.
LEMMA Basics ==
    ASSUME TypeOK
    PROVE  /\ Len(reqs) \in Nat /\ Ids = 1 .. Len(reqs) /\ 0 \notin Ids
           /\ \A r \in Ids : reqs[r] \in Request
           /\ Queued(jobs) \subseteq Ids /\ Queued(polls) \subseteq Ids
           /\ Len(jobs) \in Nat /\ Len(polls) \in Nat
           /\ \A t \in Threads : cur[t] \in Ids \cup {0}
           /\ IsFiniteSet(Busy) /\ Cardinality(Busy) \in Nat
           /\ \A r : IsFiniteSet(WorkersOn(r)) /\ Cardinality(WorkersOn(r)) \in Nat
<1>1. Len(reqs) \in Nat /\ Ids = 1 .. Len(reqs) /\ \A r \in Ids : reqs[r] \in Request
  BY LenProperties, ElementOfSeq DEF TypeOK, Ids
<1>2. jobs \in Seq(Ids) /\ polls \in Seq(Ids)
  BY DEF TypeOK
<1> DEFINE I == Ids
<1> HIDE DEF I
<1>3. ASSUME NEW s \in Seq(I) PROVE Queued(s) \subseteq I /\ Len(s) \in Nat
  BY LenProperties DEF Queued
<1>4. Queued(jobs) \subseteq Ids /\ Queued(polls) \subseteq Ids /\ Len(jobs) \in Nat /\ Len(polls) \in Nat
  BY <1>2, <1>3 DEF I
<1>5. IsFiniteSet(Busy) /\ Cardinality(Busy) \in Nat
  BY ThreadsAssumption, FS_Subset, FS_CardinalityType DEF Busy
<1>6. ASSUME NEW r PROVE IsFiniteSet(WorkersOn(r)) /\ Cardinality(WorkersOn(r)) \in Nat
  BY ThreadsAssumption, FS_Subset, FS_CardinalityType DEF WorkersOn
<1> QED BY <1>1, <1>4, <1>5, <1>6 DEF TypeOK

\* One request is changed.
LEMMA Revalued ==
    ASSUME TypeOK, NEW r \in Ids, NEW q \in Request, reqs' = [reqs EXCEPT ![r] = q]
    PROVE  /\ reqs' \in Seq(Request) /\ Ids' = Ids
           /\ \A x \in Ids : reqs'[x] = IF x = r THEN q ELSE reqs[x]
<1>1. reqs \in Seq(Request) /\ DOMAIN reqs = 1 .. Len(reqs) /\ r \in 1 .. Len(reqs)
  BY LenProperties DEF TypeOK, Ids
<1>2. /\ reqs' \in Seq(Request) /\ Len(reqs') = Len(reqs)
      /\ \A x \in 1 .. Len(reqs) : reqs'[x] = IF x = r THEN q ELSE reqs[x]
  BY <1>1, ExceptSeq
<1>3. DOMAIN reqs' = 1 .. Len(reqs)
  BY <1>2, LenProperties
<1> QED BY <1>1, <1>2, <1>3 DEF Ids

\* A request is made.
LEMMA Made ==
    ASSUME TypeOK, NEW q \in Request, reqs' = Append(reqs, q)
    PROVE  /\ reqs' \in Seq(Request) /\ Ids' = Ids \cup {Len(reqs) + 1}
           /\ Len(reqs) + 1 \notin Ids
           /\ \A x \in Ids : reqs'[x] = reqs[x]
           /\ reqs'[Len(reqs) + 1] = q
<1>1. reqs \in Seq(Request) /\ Len(reqs) \in Nat /\ DOMAIN reqs = 1 .. Len(reqs)
  BY LenProperties DEF TypeOK
<1>2. /\ reqs' \in Seq(Request) /\ Len(reqs') = Len(reqs) + 1
      /\ \A x \in 1 .. Len(reqs) : reqs'[x] = reqs[x]
      /\ reqs'[Len(reqs) + 1] = q
  BY <1>1, AppendProperties
<1>3. DOMAIN reqs' = 1 .. Len(reqs) + 1
  BY <1>2, LenProperties
<1> QED BY <1>1, <1>2, <1>3 DEF Ids

\* A thread leaves or joins a request, becomes busy or stops to be.
LEMMA Joined ==
    ASSUME NEW S \in SUBSET Workers, NEW w \in Workers, w \notin S
    PROVE  Cardinality(S) \in Nat /\ Cardinality(S \cup {w}) = Cardinality(S) + 1
  BY ThreadsAssumption, FS_Subset, FS_AddElement, FS_CardinalityType

LEMMA Left ==
    ASSUME NEW S \in SUBSET Workers, NEW w \in S
    PROVE  /\ Cardinality(S) \in Nat \ {0} /\ Cardinality(S \ {w}) \in Nat
           /\ Cardinality(S \ {w}) = Cardinality(S) - 1
<1>1. IsFiniteSet(S)
  BY ThreadsAssumption, FS_Subset
<1>2. /\ IsFiniteSet(S \ {w}) /\ Cardinality(S \ {w}) = Cardinality(S) - 1
      /\ Cardinality(S) \in Nat /\ Cardinality(S \ {w}) \in Nat
  BY <1>1, FS_RemoveElement, FS_CardinalityType
<1> QED BY <1>2

\* A new request has never been sent.
LEMMA NewIsFresh ==
    ASSUME NEW kind \in {"call", "refresh"}, NEW mode \in Modes
    PROVE  /\ NewRequest(kind, mode) \in Request /\ NewRequest(kind, mode).refs = 0
           /\ Fresh(NewRequest(kind, mode)) /\ Sane(NewRequest(kind, mode))
  BY MaxRetriesAssumption DEF NewRequest, Request, Codes, Fresh, Sane

----------------------------------------------------------------------------
(***************************************************************************)
(* The steps of one attempt.                                               *)
(***************************************************************************)
RestTyped ==
    /\ needed \in BOOLEAN /\ started \in BOOLEAN
    /\ expired \in BOOLEAN /\ login \in {"LoggedIn", "LogoutRequested", "Error"}
    /\ load \in 0 .. MaxLoad

\* A thread that has an attempt has a request, which no queue holds.
LEMMA CarrierHasRequest ==
    ASSUME WebInv, NEW t \in Threads, at[t] \in Carrying
    PROVE  /\ cur[t] \in Ids /\ cur[t] \notin Waiting
           /\ t = App => at[t] \in {"refresh", "add"}
           /\ t # App => t \in Workers
           /\ reqs[cur[t]] \in Request
<1>1. cur[t] # 0 /\ (t = App => at[t] \in {"refresh", "add"}) /\ (t # App => t \in Workers)
  BY DEF WebInv, TypeOK, PointsAgree, Threads, Carrying, Unsent, AppPoints
<1>2. cur[t] \in Ids
  BY <1>1, Basics DEF WebInv
<1> QED BY <1>1, <1>2, Basics DEF WebInv, OneAttempt

\* Where the threads are after one of them moved.
LEMMA Went ==
    ASSUME TypeOK, NEW t \in Threads, NEW p, Goto(t, p),
           t = App => p \in AppPoints, t # App => p \in WorkerPoints
    PROVE  /\ \A u \in Threads : at'[u] = IF u = t THEN p ELSE at[u]
           /\ at' \in [Threads -> WorkerPoints \cup AppPoints]
           /\ at'[App] \in AppPoints /\ \A w \in Workers : at'[w] \in WorkerPoints
           /\ Workers \subseteq Threads /\ App \in Threads /\ App \notin Workers
  BY ThreadsAssumption DEF TypeOK, Goto, Threads

\* A thread goes on with an attempt, and may change its request.
LEMMA Carried ==
    ASSUME WebInv, NEW t \in Threads, at[t] \in Carrying,
           NEW q \in Request, reqs' = [reqs EXCEPT ![cur[t]] = q],
           q.refs = reqs[cur[t]].refs, Sane(q),
           NEW p \in Carrying, Goto(t, p), t = App => p \in {"refresh", "add"},
           p \in Unsent => Fresh(q), p = "sending" => Sent(q), p = "answer" => Ended(q),
           UNCHANGED <<registered, count, jobs, polls, closing, cur>>, RestTyped'
    PROVE  WebInv'
<1> DEFINE r == cur[t]
<1>1. /\ r \in Ids /\ r \notin Waiting /\ TypeOK
      /\ t = App => at[t] \in {"refresh", "add"}
      /\ t # App => t \in Workers
  BY CarrierHasRequest DEF WebInv
<1>2. /\ \A u \in Threads : at'[u] = IF u = t THEN p ELSE at[u]
      /\ at' \in [Threads -> WorkerPoints \cup AppPoints]
      /\ at'[App] \in AppPoints /\ \A w \in Workers : at'[w] \in WorkerPoints
      /\ Workers \subseteq Threads /\ App \in Threads /\ App \notin Workers
  BY <1>1, Went DEF Carrying, Unsent, AppPoints, WorkerPoints
<1>3. /\ reqs' \in Seq(Request) /\ Ids' = Ids
      /\ \A x \in Ids : reqs'[x] = IF x = r THEN q ELSE reqs[x]
  BY <1>1, Revalued
<1>4. /\ Queued(jobs)' = Queued(jobs) /\ Queued(polls)' = Queued(polls) /\ Waiting' = Waiting
      /\ \A x : WorkersOn(x)' = WorkersOn(x)
      /\ Queued(jobs) \subseteq Ids /\ Queued(polls) \subseteq Ids
      /\ \A u \in Threads : cur[u] \in Ids \cup {0}
  BY <1>1, Basics DEF Waiting, Queued, WorkersOn
<1> HIDE DEF r
<1>5. TypeOK'
  BY <1>1, <1>2, <1>3 DEF TypeOK, RestTyped, closing
<1>6. PointsAgree'
  BY <1>1, <1>2 DEF WebInv, PointsAgree, Carrying, Unsent
<1>7. OneAttempt'
  BY <1>2, <1>4 DEF WebInv, OneAttempt
<1>8. RequestsAgree'
  <2>1. \A x \in Ids : Sane(reqs'[x])
    BY <1>3 DEF WebInv, RequestsAgree
  <2>2. /\ \A x \in Queued(jobs) : Fresh(reqs'[x])
        /\ \A x \in Queued(polls) : Ended(reqs'[x])
    BY <1>1, <1>3, <1>4 DEF WebInv, RequestsAgree, Waiting
  <2>3. ASSUME NEW u \in Threads
        PROVE  /\ at'[u] \in Unsent => Fresh(reqs'[cur[u]])
               /\ at'[u] = "sending" => Sent(reqs'[cur[u]])
               /\ at'[u] = "answer" => Ended(reqs'[cur[u]])
    <3>1. CASE u = t
      BY <1>1, <1>2, <1>3, <3>1 DEF r
    <3>2. CASE u # t /\ at[u] \in Carrying
      <4>1. cur[u] # r /\ cur[u] \in Ids
        BY <3>2, CarrierHasRequest DEF WebInv, OneAttempt, r
      <4> QED BY <1>2, <1>3, <3>2, <4>1 DEF WebInv, RequestsAgree
    <3>3. CASE u # t /\ at[u] \notin Carrying
      BY <1>2, <3>3 DEF Carrying
    <3> QED BY <3>1, <3>2, <3>3
  <2> QED BY <1>3, <1>4, <2>1, <2>2, <2>3 DEF RequestsAgree
<1>9. RefsSuffice'
  BY <1>3, <1>4 DEF WebInv, RefsSuffice, r
<1>10. RegisteredAreHeld'
  <2>1. \A x : \A w \in WorkersOn(x) :
           at[w] \in Carrying \cup {"destroy"} => at'[w] \in Carrying \cup {"destroy"}
    BY <1>2 DEF WorkersOn
  <2> QED BY <1>4, <2>1 DEF WebInv, RegisteredAreHeld
<1>11. CountSuffices'
  <2>1. Busy' = Busy
    BY <1>1, <1>2 DEF Busy, Carrying, Unsent
  <2> QED BY <2>1 DEF WebInv, CountSuffices
<1>12. ClosesOnlyWhenIdle'
  <2>1. CASE t = App
    BY <1>2, <2>1 DEF ClosesOnlyWhenIdle
  <2>2. CASE t # App
    <3>1. at'[App] = at[App] /\ timedOut' = timedOut /\ jobs' = jobs /\ polls' = polls /\ r # 0
      BY <1>1, <1>2, <2>2, Basics DEF closing
    <3>2. at[App] \in {"joining", "closed"} /\ ~timedOut => at[t] = "release"
      BY <1>1, <2>2, <3>1 DEF WebInv, ClosesOnlyWhenIdle, r
    <3>3. ~(at[App] \in {"joining", "closed"} /\ ~timedOut)
      BY <3>2 DEF Carrying, Unsent
    <3> QED BY <3>1, <3>3 DEF ClosesOnlyWhenIdle
  <2> QED BY <2>1, <2>2
<1> QED BY <1>5, <1>6, <1>7, <1>8, <1>9, <1>10, <1>11, <1>12 DEF WebInv

\* The destructor is not past its waits while a worker has a request to work on.
LEMMA NotClosing ==
    ASSUME WebInv, NEW w \in Workers, cur[w] # 0, at[w] # "release"
    PROVE  ~(at[App] \in {"joining", "closed"} /\ ~timedOut)
  BY DEF WebInv, ClosesOnlyWhenIdle

\* SendRequest makes a request that nobody else has.
LEMMA SendStep ==
    ASSUME WebInv, NEW mode \in Modes, SendRequest(mode)
    PROVE  WebInv'
<1> DEFINE r == Len(reqs) + 1
           n == NewRequest("call", mode)
<1>1. TypeOK /\ at[App] = "app" /\ App \in Threads
  BY DEF WebInv, SendRequest, Holds, Threads
<1>2. n \in Request /\ n.refs = 0 /\ Fresh(n) /\ Sane(n)
  BY NewIsFresh
<1>3. PICK p \in {"refresh", "add"} : Goto(App, p)
  BY DEF SendRequest, AfterExpiryCheck
<1>4. /\ \A u \in Threads : at'[u] = IF u = App THEN p ELSE at[u]
      /\ at' \in [Threads -> WorkerPoints \cup AppPoints]
      /\ at'[App] \in AppPoints /\ \A w \in Workers : at'[w] \in WorkerPoints
      /\ Workers \subseteq Threads /\ App \notin Workers
  BY <1>1, <1>3, Went DEF AppPoints
<1> HIDE DEF n
<1>5. /\ reqs' \in Seq(Request) /\ Ids' = Ids \cup {r} /\ r \notin Ids
      /\ \A x \in Ids : reqs'[x] = reqs[x]
      /\ reqs'[r] = n
  BY <1>1, <1>2, Made DEF SendRequest, n
<1>6. /\ Len(reqs) \in Nat /\ r \in Nat \ {0}
      /\ Queued(jobs) \subseteq Ids /\ Queued(polls) \subseteq Ids
      /\ \A u \in Threads : cur[u] \in Ids \cup {0}
  BY <1>1, Basics
<1> HIDE DEF r
<1>7. /\ cur' = [cur EXCEPT ![App] = r]
      /\ load' = load + 1 /\ load < MaxLoad
      /\ UNCHANGED <<registered, count, jobs, polls, needed, started, expired, login,
                     shutdown, timedOut>>
  BY DEF SendRequest, r, queues, flags, token, closing
<1>8. /\ \A u \in Threads : cur'[u] = IF u = App THEN r ELSE cur[u]
      /\ cur' \in [Threads -> Ids' \cup {0}]
  BY <1>1, <1>5, <1>7 DEF TypeOK
<1>9. /\ Queued(jobs)' = Queued(jobs) /\ Queued(polls)' = Queued(polls) /\ Waiting' = Waiting
      /\ \A x : WorkersOn(x)' = WorkersOn(x)
      /\ Busy' = Busy
  BY <1>4, <1>7, <1>8 DEF Waiting, Queued, WorkersOn, Busy
<1>10. WorkersOn(r) = {} /\ r \notin Waiting
  BY <1>4, <1>5, <1>6 DEF WorkersOn, Waiting
<1>11. TypeOK'
  <2>1. jobs' \in Seq(Ids') /\ polls' \in Seq(Ids')
    BY <1>1, <1>5, <1>7, SeqMonotonic DEF TypeOK
  <2>2. load' \in 0 .. MaxLoad
    BY <1>1, <1>7, MaxLoadAssumption DEF TypeOK
  <2> QED BY <1>1, <1>4, <1>5, <1>7, <1>8, <2>1, <2>2 DEF TypeOK
<1>12. PointsAgree'
  BY <1>1, <1>4, <1>5, <1>6, <1>8 DEF WebInv, PointsAgree
<1>13. OneAttempt'
  <2>1. \A u \in Threads : at'[u] \in Carrying => cur'[u] \notin Waiting
    BY <1>4, <1>8, <1>10 DEF WebInv, OneAttempt
  <2>2. ASSUME NEW u \in Threads, NEW v \in Threads, at'[u] \in Carrying, at'[v] \in Carrying,
               cur'[u] = cur'[v]
        PROVE  u = v
    <3>1. \A x \in Threads : x # App => cur'[x] = cur[x] /\ at'[x] = at[x] /\ cur[x] # r
      BY <1>4, <1>5, <1>6, <1>8
    <3> QED BY <1>8, <2>2, <3>1 DEF WebInv, OneAttempt
  <2> QED BY <1>7, <1>9, <2>1, <2>2 DEF WebInv, OneAttempt
<1>14. RequestsAgree'
  <2>1. \A x \in Ids' : Sane(reqs'[x])
    BY <1>2, <1>5 DEF WebInv, RequestsAgree
  <2>2. /\ \A x \in Queued(jobs) : Fresh(reqs'[x])
        /\ \A x \in Queued(polls) : Ended(reqs'[x])
    BY <1>5, <1>6 DEF WebInv, RequestsAgree
  <2>3. ASSUME NEW u \in Threads
        PROVE  /\ at'[u] \in Unsent => Fresh(reqs'[cur'[u]])
               /\ at'[u] = "sending" => Sent(reqs'[cur'[u]])
               /\ at'[u] = "answer" => Ended(reqs'[cur'[u]])
    <3>1. CASE u = App
      BY <1>2, <1>4, <1>5, <1>8, <3>1
    <3>2. CASE u # App /\ at[u] \in Carrying
      <4>1. cur[u] \in Ids
        BY <3>2, CarrierHasRequest
      <4> QED BY <1>4, <1>5, <1>8, <3>2, <4>1 DEF WebInv, RequestsAgree
    <3>3. CASE u # App /\ at[u] \notin Carrying
      BY <1>4, <3>3 DEF Carrying
    <3> QED BY <3>1, <3>2, <3>3
  <2> QED BY <1>9, <2>1, <2>2, <2>3 DEF RequestsAgree
<1>15. RefsSuffice'
  <2>1. ASSUME NEW x \in Ids'
        PROVE  /\ reqs'[x].refs >= Cardinality(WorkersOn(x))
               /\ x \in Waiting => reqs'[x].refs > Cardinality(WorkersOn(x))
    <3>1. CASE x = r
      <4>1. Cardinality(WorkersOn(x)) = 0
        BY <1>10, <3>1, FS_EmptySet
      <4> QED BY <1>2, <1>5, <1>10, <3>1, <4>1
    <3>2. CASE x # r
      BY <1>5, <3>2 DEF WebInv, RefsSuffice
    <3> QED BY <3>1, <3>2
  <2> QED BY <1>9, <2>1 DEF RefsSuffice
<1>16. RegisteredAreHeld'
  BY <1>4, <1>7, <1>9 DEF WebInv, RegisteredAreHeld, WorkersOn
<1>17. CountSuffices'
  BY <1>7, <1>9 DEF WebInv, CountSuffices
<1>18. ClosesOnlyWhenIdle'
  BY <1>1, <1>4 DEF ClosesOnlyWhenIdle
<1> QED BY <1>11, <1>12, <1>13, <1>14, <1>15, <1>16, <1>17, <1>18 DEF WebInv

\* AddRequest hands the attempt over to the pool's queue, with a reference of
\* its own.
LEMMA AddStep ==
    ASSUME WebInv, NEW t \in Threads, AddRequest(t)
    PROVE  WebInv'
<1> DEFINE r == cur[t]
           q == [reqs[r] EXCEPT !.refs = reqs[r].refs + 1]
<1>1. /\ at[t] = "add" /\ at[t] \in Carrying /\ TypeOK
      /\ r \in Ids /\ r \notin Waiting /\ reqs[r] \in Request
      /\ t # App => t \in Workers
  BY CarrierHasRequest DEF AddRequest, Holds, Carrying, Unsent, WebInv
<1>2. /\ q \in Request /\ q.refs = reqs[r].refs + 1
      /\ Fresh(q) /\ Sane(q)
  BY <1>1 DEF Request, Fresh, Sane, GaveUp, WebInv, RequestsAgree, Unsent
<1>3. reqs' = [reqs EXCEPT ![r] = q]
  BY DEF AddRequest, Enqueued
<1> HIDE DEF q
<1>4. /\ reqs' \in Seq(Request) /\ Ids' = Ids
      /\ \A x \in Ids : reqs'[x] = IF x = r THEN q ELSE reqs[x]
  BY <1>1, <1>2, <1>3, Revalued
<1> DEFINE p == IF t = App THEN "app" ELSE "retried"
<1>5. /\ \A u \in Threads : at'[u] = IF u = t THEN p ELSE at[u]
      /\ at' \in [Threads -> WorkerPoints \cup AppPoints]
      /\ at'[App] \in AppPoints /\ \A w \in Workers : at'[w] \in WorkerPoints
      /\ Workers \subseteq Threads /\ App \in Threads /\ App \notin Workers
  BY <1>1, Went DEF AddRequest, AppPoints, WorkerPoints
<1>6. /\ registered' = registered \cup {r} /\ count' = count + 1
      /\ jobs' = Append(jobs, r)
      /\ UNCHANGED <<polls, needed, started, expired, login, shutdown, timedOut, load>>
  BY DEF AddRequest, Enqueued, r, flags, token, closing
<1>7. \A u \in Threads : cur'[u] = IF u = t /\ t = App THEN 0 ELSE cur[u]
  BY <1>1 DEF AddRequest, TypeOK
<1>8. /\ jobs' \in Seq(Ids) /\ Len(jobs') = Len(jobs) + 1
      /\ Queued(jobs)' = Queued(jobs) \cup {r}
      /\ NoRepeats(jobs)'
  <2>1. jobs \in Seq(Ids) /\ NoRepeats(jobs) /\ r \notin Queued(jobs)
    BY <1>1 DEF WebInv, TypeOK, OneAttempt, Waiting
  <2>2. /\ Append(jobs, r) \in Seq(Ids) /\ Len(Append(jobs, r)) = Len(jobs) + 1
        /\ Queued(Append(jobs, r)) = Queued(jobs) \cup {r}
        /\ NoRepeats(Append(jobs, r))
    BY <1>1, <2>1, QueuedAppend
  <2> QED BY <1>6, <2>2
<1>9. /\ Queued(polls)' = Queued(polls) /\ Waiting' = Waiting \cup {r}
      /\ \A x : WorkersOn(x)' = WorkersOn(x)
      /\ Busy' = Busy
  BY <1>1, <1>5, <1>6, <1>7, <1>8 DEF Waiting, Queued, WorkersOn, Busy
<1>10. /\ Queued(jobs) \subseteq Ids /\ Queued(polls) \subseteq Ids
       /\ Len(jobs) \in Nat /\ Len(polls) \in Nat /\ Cardinality(Busy) \in Nat
       /\ \A x : Cardinality(WorkersOn(x)) \in Nat
       /\ count \in Nat /\ reqs[r].refs \in Nat
  BY <1>1, Basics DEF TypeOK, Request
<1> HIDE DEF r
<1>11. TypeOK'
  <2>1. cur' \in [Threads -> Ids' \cup {0}]
    BY <1>1, <1>4, <1>7 DEF TypeOK, AddRequest
  <2> QED BY <1>1, <1>4, <1>5, <1>6, <1>8, <1>10, <2>1 DEF TypeOK
<1>12. PointsAgree'
  <2>1. CASE t = App
    BY <1>5, <1>7, <2>1 DEF WebInv, PointsAgree
  <2>2. CASE t # App
    BY <1>1, <1>5, <1>7, <2>2 DEF WebInv, PointsAgree
  <2> QED BY <2>1, <2>2
<1>13. p \notin Carrying
  BY DEF Carrying, Unsent
<1>14. \A u \in Threads : at'[u] \in Carrying =>
          u # t /\ at[u] \in Carrying /\ at'[u] = at[u] /\ cur'[u] = cur[u] /\ cur[u] # r
  BY <1>1, <1>5, <1>7, <1>13 DEF WebInv, OneAttempt, r
<1> HIDE DEF p
<1>15. OneAttempt'
  BY <1>1, <1>6, <1>8, <1>9, <1>14 DEF WebInv, OneAttempt, Waiting
<1>16. RequestsAgree'
  <2>1. \A x \in Ids : Sane(reqs'[x])
    BY <1>2, <1>4 DEF WebInv, RequestsAgree
  <2>2. \A x \in Queued(jobs) \cup {r} : Fresh(reqs'[x])
    BY <1>1, <1>2, <1>4, <1>10 DEF WebInv, RequestsAgree
  <2>3. \A x \in Queued(polls) : Ended(reqs'[x])
    BY <1>1, <1>4, <1>10 DEF WebInv, RequestsAgree, Waiting
  <2>4. ASSUME NEW u \in Threads
        PROVE  /\ at'[u] \in Unsent => Fresh(reqs'[cur'[u]])
               /\ at'[u] = "sending" => Sent(reqs'[cur'[u]])
               /\ at'[u] = "answer" => Ended(reqs'[cur'[u]])
    <3>1. CASE at'[u] \in Carrying
      <4>1. cur[u] \in Ids
        BY <1>14, <3>1, CarrierHasRequest
      <4> QED BY <1>4, <1>14, <3>1, <4>1 DEF WebInv, RequestsAgree
    <3>2. CASE at'[u] \notin Carrying
      BY <3>2 DEF Carrying
    <3> QED BY <3>1, <3>2
  <2> QED BY <1>4, <1>8, <1>9, <2>1, <2>2, <2>3, <2>4 DEF RequestsAgree
<1>17. RefsSuffice'
  <2>1. ASSUME NEW x \in Ids
        PROVE  /\ reqs'[x].refs >= Cardinality(WorkersOn(x))
               /\ x \in Waiting' => reqs'[x].refs > Cardinality(WorkersOn(x))
    BY <1>2, <1>4, <1>9, <1>10 DEF WebInv, RefsSuffice
  <2> QED BY <1>4, <1>9, <2>1 DEF RefsSuffice
<1>18. RegisteredAreHeld'
  <2> SUFFICES ASSUME NEW x \in registered, x # r, x \notin Waiting
               PROVE  \E w \in WorkersOn(x) : at'[w] \in Carrying \cup {"destroy"}
    BY <1>6, <1>9 DEF RegisteredAreHeld
  <2>1. PICK w \in WorkersOn(x) : at[w] \in Carrying \cup {"destroy"}
    BY DEF WebInv, RegisteredAreHeld
  <2> QED BY <1>5, <2>1 DEF WorkersOn, r
<1>19. CountSuffices'
  BY <1>6, <1>8, <1>9, <1>10 DEF WebInv, CountSuffices
<1>20. ClosesOnlyWhenIdle'
  <2>1. CASE t = App
    BY <1>5, <2>1 DEF ClosesOnlyWhenIdle, p
  <2>2. CASE t # App
    <3>1. ~(at[App] \in {"joining", "closed"} /\ ~timedOut)
      BY <1>1, <2>2, NotClosing, Basics DEF r
    <3> QED BY <1>5, <1>6, <2>2, <3>1 DEF ClosesOnlyWhenIdle
  <2> QED BY <2>1, <2>2
<1> QED BY <1>11, <1>12, <1>15, <1>16, <1>17, <1>18, <1>19, <1>20 DEF WebInv

\* RefreshIfExpired sends a request of its own before the attempt goes on.
LEMMA RefreshStep ==
    ASSUME WebInv, NEW t \in Threads, StartRefresh(t), login = "LoggedIn"
    PROVE  WebInv'
<1> DEFINE r == Len(reqs) + 1
           n == NewRequest("refresh", "async")
           q == [n EXCEPT !.refs = n.refs + 1]
<1>1. /\ at[t] = "refresh" /\ at[t] \in Carrying /\ TypeOK
      /\ t # App => t \in Workers
      /\ Len(reqs) \in Nat /\ reqs \in Seq(Request) /\ Ids = 1 .. Len(reqs)
  BY CarrierHasRequest, Basics DEF StartRefresh, Holds, Carrying, Unsent, WebInv, TypeOK
<1>2. n \in Request /\ n.refs = 0 /\ Fresh(n) /\ Sane(n)
  BY NewIsFresh DEF Modes
<1> HIDE DEF n
<1>3. q \in Request /\ q.refs = 1 /\ Fresh(q) /\ Sane(q)
  BY <1>2 DEF Request, Fresh, Sane, GaveUp
<1>4. /\ reqs' = [Append(reqs, n) EXCEPT ![r].refs = @ + 1]
      /\ registered' = registered \cup {r} /\ count' = count + 1
      /\ jobs' = Append(jobs, r)
  BY DEF StartRefresh, RefreshToken, Enqueued, n
<1>5. /\ Append(reqs, n) \in Seq(Request) /\ Len(Append(reqs, n)) = r
      /\ \A x \in 1 .. Len(reqs) : Append(reqs, n)[x] = reqs[x]
      /\ Append(reqs, n)[r] = n
      /\ r \in 1 .. r
  BY <1>1, <1>2, AppendProperties
<1>6. reqs' = [Append(reqs, n) EXCEPT ![r] = q]
  BY <1>4, <1>5
<1> HIDE DEF q
<1>7. /\ reqs' \in Seq(Request) /\ Len(reqs') = r
      /\ \A x \in 1 .. r : reqs'[x] = IF x = r THEN q ELSE Append(reqs, n)[x]
  <2> DEFINE a == Append(reqs, n)
  <2> HIDE DEF a
  <2>1. a \in Seq(Request) /\ r \in 1 .. Len(a) /\ Len(a) = r /\ reqs' = [a EXCEPT ![r] = q]
    BY <1>5, <1>6 DEF a
  <2>2. /\ reqs' \in Seq(Request) /\ Len(reqs') = Len(a)
        /\ \A x \in 1 .. Len(a) : reqs'[x] = IF x = r THEN q ELSE a[x]
    BY <1>3, <2>1, ExceptSeq
  <2> QED BY <2>1, <2>2 DEF a
<1>8. /\ Ids' = Ids \cup {r} /\ r \notin Ids /\ r # 0
      /\ \A x \in Ids : reqs'[x] = reqs[x]
      /\ reqs'[r] = q
  <2>1. DOMAIN reqs' = 1 .. r
    BY <1>7, LenProperties
  <2> QED BY <1>1, <1>5, <1>7, <2>1 DEF Ids
<1> HIDE DEF r
<1>9. /\ \A u \in Threads : at'[u] = IF u = t THEN "add" ELSE at[u]
      /\ at' \in [Threads -> WorkerPoints \cup AppPoints]
      /\ at'[App] \in AppPoints /\ \A w \in Workers : at'[w] \in WorkerPoints
      /\ Workers \subseteq Threads /\ App \in Threads /\ App \notin Workers
  BY <1>1, Went DEF StartRefresh, AppPoints, WorkerPoints
<1>10. /\ needed' = TRUE
       /\ UNCHANGED <<polls, started, expired, login, shutdown, timedOut, cur, load>>
  BY DEF StartRefresh, token, closing
<1>11. /\ Queued(jobs) \subseteq Ids /\ Queued(polls) \subseteq Ids
       /\ Len(jobs) \in Nat /\ Len(polls) \in Nat /\ Cardinality(Busy) \in Nat
       /\ \A u \in Threads : cur[u] \in Ids \cup {0}
       /\ count \in Nat
  BY <1>1, Basics DEF TypeOK
<1>12. /\ jobs' \in Seq(Ids') /\ Len(jobs') = Len(jobs) + 1
       /\ Queued(jobs)' = Queued(jobs) \cup {r}
       /\ NoRepeats(jobs)'
  <2> DEFINE I == Ids'
  <2>1. jobs \in Seq(I) /\ NoRepeats(jobs) /\ r \notin Queued(jobs) /\ r \in I
    BY <1>8, <1>11, SeqMonotonic DEF WebInv, TypeOK, OneAttempt
  <2> HIDE DEF I
  <2>2. /\ Append(jobs, r) \in Seq(I) /\ Len(Append(jobs, r)) = Len(jobs) + 1
        /\ Queued(Append(jobs, r)) = Queued(jobs) \cup {r}
        /\ NoRepeats(Append(jobs, r))
    BY <2>1, QueuedAppend
  <2> QED BY <1>4, <2>2 DEF I
<1>13. /\ Queued(polls)' = Queued(polls) /\ Waiting' = Waiting \cup {r}
       /\ \A x : WorkersOn(x)' = WorkersOn(x)
       /\ Busy' = Busy
  BY <1>1, <1>9, <1>10, <1>12 DEF Waiting, Queued, WorkersOn, Busy
<1>14. WorkersOn(r) = {} /\ r \notin Waiting /\ \A u \in Threads : cur[u] # r
  BY <1>8, <1>9, <1>11 DEF WorkersOn, Waiting
<1>15. TypeOK'
  <2>1. polls' \in Seq(Ids') /\ cur' \in [Threads -> Ids' \cup {0}]
    BY <1>1, <1>8, <1>10, SeqMonotonic DEF TypeOK
  <2>2. registered' \subseteq Ids' /\ count' \in Nat
    BY <1>1, <1>4, <1>8, <1>11 DEF TypeOK
  <2> QED BY <1>1, <1>7, <1>9, <1>10, <1>12, <2>1, <2>2 DEF TypeOK
<1>16. PointsAgree'
  BY <1>1, <1>9, <1>10 DEF WebInv, PointsAgree
<1>17. \A u \in Threads : at'[u] \in Carrying <=> at[u] \in Carrying
  BY <1>1, <1>9 DEF Carrying, Unsent
<1>18. OneAttempt'
  BY <1>10, <1>8, <1>11, <1>12, <1>13, <1>14, <1>17 DEF WebInv, OneAttempt
<1>19. RequestsAgree'
  <2>1. \A x \in Ids' : Sane(reqs'[x])
    BY <1>3, <1>8 DEF WebInv, RequestsAgree
  <2>2. /\ \A x \in Queued(jobs) \cup {r} : Fresh(reqs'[x])
        /\ \A x \in Queued(polls) : Ended(reqs'[x])
    BY <1>3, <1>8, <1>11 DEF WebInv, RequestsAgree
  <2>3. ASSUME NEW u \in Threads
        PROVE  /\ at'[u] \in Unsent => Fresh(reqs'[cur'[u]])
               /\ at'[u] = "sending" => Sent(reqs'[cur'[u]])
               /\ at'[u] = "answer" => Ended(reqs'[cur'[u]])
    <3>1. CASE at[u] \in Carrying
      <4>1. cur[u] \in Ids /\ reqs'[cur'[u]] = reqs[cur[u]]
        BY <1>8, <1>10, <3>1, CarrierHasRequest
      <4>2. at'[u] # at[u] => at[u] \in Unsent /\ at'[u] \in Unsent
        BY <1>1, <1>9 DEF Unsent
      <4>3. \A x \in Unsent : x # "sending" /\ x # "answer"
        BY DEF Unsent
      <4> QED BY <4>1, <4>2, <4>3 DEF WebInv, RequestsAgree
    <3>2. CASE at[u] \notin Carrying
      BY <1>17, <3>2 DEF Carrying
    <3> QED BY <3>1, <3>2
  <2> QED BY <1>12, <1>13, <2>1, <2>2, <2>3 DEF RequestsAgree
<1>20. RefsSuffice'
  <2>1. ASSUME NEW x \in Ids'
        PROVE  /\ reqs'[x].refs >= Cardinality(WorkersOn(x))
               /\ x \in Waiting' => reqs'[x].refs > Cardinality(WorkersOn(x))
    <3>1. CASE x = r
      <4>1. Cardinality(WorkersOn(x)) = 0
        BY <1>14, <3>1, FS_EmptySet
      <4> QED BY <1>3, <1>8, <3>1, <4>1
    <3>2. CASE x # r
      BY <1>8, <1>13, <3>2 DEF WebInv, RefsSuffice
    <3> QED BY <3>1, <3>2
  <2> QED BY <1>13, <2>1 DEF RefsSuffice
<1>21. RegisteredAreHeld'
  <2>1. \A x : \A w \in WorkersOn(x) :
           at[w] \in Carrying \cup {"destroy"} => at'[w] \in Carrying \cup {"destroy"}
    BY <1>1, <1>9, <1>17 DEF WorkersOn
  <2> QED BY <1>4, <1>13, <2>1 DEF WebInv, RegisteredAreHeld
<1>22. CountSuffices'
  BY <1>4, <1>10, <1>11, <1>12, <1>13 DEF WebInv, CountSuffices
<1>23. ClosesOnlyWhenIdle'
  <2>1. CASE t = App
    BY <1>9, <2>1 DEF ClosesOnlyWhenIdle
  <2>2. CASE t # App
    <3>1. t \in Workers /\ cur[t] # 0
      BY <1>1, <2>2 DEF WebInv, PointsAgree
    <3>2. ~(at[App] \in {"joining", "closed"} /\ ~timedOut)
      BY <1>1, <3>1, NotClosing
    <3> QED BY <1>9, <1>10, <2>2, <3>2 DEF ClosesOnlyWhenIdle
  <2> QED BY <2>1, <2>2
<1> QED BY <1>15, <1>16, <1>18, <1>19, <1>20, <1>21, <1>22, <1>23 DEF WebInv

\* A worker takes the attempt, and its reference, from the queue.
LEMMA TakeStep ==
    ASSUME WebInv, NEW w \in Workers, TakeJob(w)
    PROVE  WebInv'
<1>0. PICK r : r = Head(jobs)
  OBVIOUS
<1>1. TypeOK /\ at[w] = "idle" /\ cur[w] = 0 /\ w \in Threads /\ jobs # <<>> /\ w # App
  BY ThreadsAssumption DEF WebInv, TakeJob, Holds, PointsAgree, Threads
<1>2. /\ \A u \in Threads : at'[u] = IF u = w THEN "gate" ELSE at[u]
      /\ at' \in [Threads -> WorkerPoints \cup AppPoints]
      /\ at'[App] \in AppPoints /\ \A v \in Workers : at'[v] \in WorkerPoints
      /\ Workers \subseteq Threads /\ App \in Threads /\ App \notin Workers
  BY <1>1, Went DEF TakeJob, WorkerPoints
<1>3. /\ jobs' \in Seq(Ids) /\ Len(jobs') = Len(jobs) - 1
      /\ r \in Queued(jobs) /\ r \in Ids
      /\ Queued(jobs)' = Queued(jobs) \ {r}
      /\ NoRepeats(jobs)'
  <2>1. jobs \in Seq(Ids) /\ NoRepeats(jobs) /\ jobs' = Tail(jobs)
    BY DEF WebInv, TypeOK, OneAttempt, TakeJob
  <2>2. /\ Tail(jobs) \in Seq(Ids) /\ Len(Tail(jobs)) = Len(jobs) - 1
        /\ Head(jobs) \in Queued(jobs) /\ Head(jobs) \in Ids
        /\ Queued(Tail(jobs)) = Queued(jobs) \ {Head(jobs)}
        /\ NoRepeats(Tail(jobs))
    BY <1>1, <2>1, QueuedTail
  <2> QED BY <1>0, <2>1, <2>2
<1>4. cur' = [cur EXCEPT ![w] = r]
  BY <1>0 DEF TakeJob
<1>5. UNCHANGED <<reqs, registered, count, polls, needed, started, expired, login,
                  shutdown, timedOut, load>>
  BY DEF TakeJob, requests, flags, token, closing
<1>6. /\ \A u \in Threads : cur'[u] = IF u = w THEN r ELSE cur[u]
      /\ cur' \in [Threads -> Ids \cup {0}] /\ Ids' = Ids /\ r # 0
  BY <1>1, <1>3, <1>4, <1>5, Basics DEF TypeOK, Ids
<1>7. /\ Queued(polls)' = Queued(polls) /\ r \notin Queued(polls)
      /\ Waiting' = Waiting \ {r} /\ r \in Waiting
  BY <1>3, <1>5 DEF Waiting, WebInv, OneAttempt
<1>8. /\ WorkersOn(r)' = WorkersOn(r) \cup {w} /\ w \notin WorkersOn(r)
      /\ \A x \in Ids : x # r => WorkersOn(x)' = WorkersOn(x)
      /\ Busy' = Busy \cup {w} /\ w \notin Busy
  BY <1>1, <1>2, <1>6, Basics DEF WorkersOn, Busy
<1>9. /\ Cardinality(Busy)' = Cardinality(Busy) + 1 /\ Cardinality(Busy) \in Nat
      /\ Cardinality(WorkersOn(r))' = Cardinality(WorkersOn(r)) + 1
      /\ Cardinality(WorkersOn(r)) \in Nat
  <2>1. Busy \in SUBSET Workers /\ WorkersOn(r) \in SUBSET Workers
    BY DEF Busy, WorkersOn
  <2> QED BY <1>8, <2>1, Joined
<1>10. /\ Len(jobs) \in Nat \ {0} /\ Len(polls) \in Nat /\ count \in Nat
       /\ \A u \in Threads : cur[u] \in Ids \cup {0}
       /\ \A x \in Ids : reqs[x].refs \in Nat
  BY <1>1, Basics, EmptySeq DEF TypeOK, Request
<1>11. TypeOK'
  BY <1>1, <1>2, <1>3, <1>5, <1>6 DEF TypeOK
<1>12. \A u \in Threads : u # w /\ at[u] \in Carrying => cur[u] # r
  BY <1>7 DEF WebInv, OneAttempt
<1>13. PointsAgree'
  <2>1. cur[App] # r
    <3>1. CASE at[App] \in {"refresh", "add"}
      BY <1>1, <1>2, <1>12, <3>1 DEF Carrying, Unsent
    <3>2. CASE at[App] \notin {"refresh", "add"}
      BY <1>6, <3>2 DEF WebInv, PointsAgree
    <3> QED BY <3>1, <3>2
  <2> QED BY <1>1, <1>2, <1>6, <2>1 DEF WebInv, PointsAgree
<1>14. OneAttempt'
  <2>1. \A u \in Threads : u # w => at'[u] = at[u] /\ cur'[u] = cur[u]
    BY <1>2, <1>6
  <2>2. cur'[w] = r
    BY <1>1, <1>6
  <2> QED BY <1>3, <1>5, <1>7, <1>12, <2>1, <2>2 DEF WebInv, OneAttempt
<1>15. RequestsAgree'
  <2>1. ASSUME NEW u \in Threads
        PROVE  /\ at'[u] \in Unsent => Fresh(reqs[cur'[u]])
               /\ at'[u] = "sending" => Sent(reqs[cur'[u]])
               /\ at'[u] = "answer" => Ended(reqs[cur'[u]])
    BY <1>2, <1>3, <1>6 DEF WebInv, RequestsAgree
  <2> QED BY <1>3, <1>5, <1>6, <1>7, <2>1 DEF WebInv, RequestsAgree
<1>16. RefsSuffice'
  <2>1. ASSUME NEW x \in Ids
        PROVE  /\ reqs[x].refs >= Cardinality(WorkersOn(x))'
               /\ x \in Waiting' => reqs[x].refs > Cardinality(WorkersOn(x))'
    <3>1. CASE x = r
      BY <1>3, <1>7, <1>9, <1>10, <3>1 DEF WebInv, RefsSuffice
    <3>2. CASE x # r
      BY <1>7, <1>8, <3>2 DEF WebInv, RefsSuffice
    <3> QED BY <3>1, <3>2
  <2> QED BY <1>5, <1>6, <2>1 DEF RefsSuffice
<1>17. RegisteredAreHeld'
  <2> SUFFICES ASSUME NEW x \in registered, x \notin Waiting'
               PROVE  \E v \in WorkersOn(x)' : at'[v] \in Carrying \cup {"destroy"}
    BY <1>5 DEF RegisteredAreHeld
  <2>1. CASE x = r
    BY <1>1, <1>2, <1>8, <2>1 DEF Carrying, Unsent
  <2>2. CASE x # r
    <3>1. PICK v \in WorkersOn(x) : at[v] \in Carrying \cup {"destroy"}
      BY <1>7, <2>2 DEF WebInv, RegisteredAreHeld
    <3>2. x \in Ids /\ v # w /\ v \in Threads
      BY <1>1, <1>2, <3>1 DEF TypeOK, WorkersOn, Carrying, Unsent
    <3> QED BY <1>2, <1>8, <2>2, <3>1, <3>2
  <2> QED BY <2>1, <2>2
<1>18. CountSuffices'
  BY <1>3, <1>5, <1>9, <1>10 DEF WebInv, CountSuffices
<1>19. ClosesOnlyWhenIdle'
  BY <1>1, <1>2, <1>5 DEF WebInv, ClosesOnlyWhenIdle
<1> QED BY <1>11, <1>13, <1>14, <1>15, <1>16, <1>17, <1>18, <1>19 DEF WebInv

\* What a worker leaves that is done with its request r and goes back to the
\* pool.
GoneFrom(w, r) ==
    /\ r \in Ids /\ reqs[r] \in Request
    /\ at' \in [Threads -> WorkerPoints \cup AppPoints]
    /\ at'[App] \in AppPoints /\ \A v \in Workers : at'[v] \in WorkerPoints
    /\ at'[App] = at[App]
    /\ cur' \in [Threads -> Ids \cup {0}]
    /\ \A u \in Threads : u # w => at'[u] = at[u] /\ cur'[u] = cur[u]
    /\ \A u \in Threads : at'[u] \in Carrying => u # w /\ at[u] \in Carrying
    /\ PointsAgree'
    /\ w \in WorkersOn(r) /\ WorkersOn(r)' = WorkersOn(r) \ {w}
    /\ Cardinality(WorkersOn(r)) \in Nat \ {0}
    /\ Cardinality(WorkersOn(r))' = Cardinality(WorkersOn(r)) - 1
    /\ \A x \in Ids : x # r => WorkersOn(x)' = WorkersOn(x)
    /\ Cardinality(Busy) \in Nat /\ Cardinality(Busy)' \in Nat
    /\ Cardinality(Busy)' <= Cardinality(Busy)
    /\ at[w] # "release" => Cardinality(Busy)' = Cardinality(Busy) - 1
    /\ \A v \in Workers : cur'[v] # 0 => cur[v] # 0 /\ at'[v] = at[v]

LEMMA Gone ==
    ASSUME WebInv, NEW w \in Workers, at[w] \notin {"idle", "exited"}, NEW r, r = cur[w],
           Goto(w, "idle"), cur' = [cur EXCEPT ![w] = 0]
    PROVE  GoneFrom(w, r)
<1>1. TypeOK /\ w \in Threads /\ w # App /\ r # 0
  BY ThreadsAssumption DEF WebInv, PointsAgree, Threads
<1>2. /\ \A u \in Threads : at'[u] = IF u = w THEN "idle" ELSE at[u]
      /\ at' \in [Threads -> WorkerPoints \cup AppPoints]
      /\ at'[App] \in AppPoints /\ \A v \in Workers : at'[v] \in WorkerPoints
      /\ Workers \subseteq Threads /\ App \in Threads /\ App \notin Workers
  BY <1>1, Went DEF WorkerPoints
<1>3. r \in Ids /\ reqs[r] \in Request /\ 0 \notin Ids
  BY <1>1, Basics
<1>4. /\ \A u \in Threads : cur'[u] = IF u = w THEN 0 ELSE cur[u]
      /\ cur' \in [Threads -> Ids \cup {0}]
  BY <1>1 DEF TypeOK
<1>5. \A u \in Threads : at'[u] \in Carrying => u # w /\ at[u] \in Carrying
  BY <1>2 DEF Carrying, Unsent
<1>6. PointsAgree'
  BY <1>1, <1>2, <1>4 DEF WebInv, PointsAgree
<1>7. /\ w \in WorkersOn(r) /\ WorkersOn(r)' = WorkersOn(r) \ {w}
      /\ WorkersOn(r) \in SUBSET Workers
      /\ \A x \in Ids : x # r => WorkersOn(x)' = WorkersOn(x)
  BY <1>1, <1>2, <1>3, <1>4 DEF WorkersOn
<1>8. /\ Cardinality(WorkersOn(r)) \in Nat \ {0}
      /\ Cardinality(WorkersOn(r))' = Cardinality(WorkersOn(r)) - 1
  BY <1>7, Left
<1>9. Busy \in SUBSET Workers /\ Busy' = Busy \ {w}
  BY <1>1, <1>2 DEF Busy
<1>10. /\ Cardinality(Busy) \in Nat /\ Cardinality(Busy)' \in Nat
       /\ Cardinality(Busy)' <= Cardinality(Busy)
       /\ at[w] # "release" => Cardinality(Busy)' = Cardinality(Busy) - 1
  <2>1. CASE w \in Busy
    BY <1>9, <2>1, Left
  <2>2. CASE w \notin Busy
    <3>1. Busy' = Busy /\ at[w] = "release"
      BY <1>9, <2>2 DEF Busy
    <3> QED BY <1>1, <3>1, Basics
  <2> QED BY <2>1, <2>2
<1>11. /\ at'[App] = at[App]
       /\ \A u \in Threads : u # w => at'[u] = at[u] /\ cur'[u] = cur[u]
       /\ \A v \in Workers : cur'[v] # 0 => cur[v] # 0 /\ at'[v] = at[v]
  BY <1>1, <1>2, <1>4
<1> QED BY <1>2, <1>3, <1>4, <1>5, <1>6, <1>7, <1>8, <1>10, <1>11 DEF GoneFrom

\* A worker gives its reference back, and deletes the request with the last.
LEMMA DecRefStep ==
    ASSUME WebInv, NEW w \in Workers, DecRefCount(w)
    PROVE  WebInv'
<1>0. PICK r : r = cur[w]
  OBVIOUS
<1>1. TypeOK /\ at[w] = "release" /\ Goto(w, "idle") /\ cur' = [cur EXCEPT ![w] = 0]
  BY DEF WebInv, DecRefCount, Holds
<1>2. GoneFrom(w, r) /\ r \in Ids /\ reqs[r] \in Request
  <2>1. GoneFrom(w, r)
    BY <1>0, <1>1, Gone
  <2> QED BY <2>1 DEF GoneFrom
<1>3. UNCHANGED <<registered, count, jobs, polls, needed, started, expired, login,
                  shutdown, timedOut, load>>
  BY DEF DecRefCount, queues, flags, token, closing
<1>4. /\ Queued(jobs)' = Queued(jobs) /\ Queued(polls)' = Queued(polls) /\ Waiting' = Waiting
      /\ Queued(jobs) \subseteq Ids /\ Queued(polls) \subseteq Ids
      /\ Len(jobs) \in Nat /\ Len(polls) \in Nat /\ count \in Nat
      /\ \A x \in Ids : reqs[x].refs \in Nat
  BY <1>1, <1>3, Basics DEF Waiting, Queued, TypeOK, Request
<1> DEFINE n == NewRequest(reqs[r].kind, reqs[r].mode)
           q == IF reqs[r].refs = 1 THEN [n EXCEPT !.answers = reqs[r].answers]
                ELSE [reqs[r] EXCEPT !.refs = reqs[r].refs - 1]
<1>5. reqs' = [reqs EXCEPT ![r] = q]
  BY <1>0 DEF DecRefCount, Released
<1>6. /\ reqs[r].refs >= Cardinality(WorkersOn(r)) /\ reqs[r].refs \in Nat \ {0}
      /\ r \in Waiting => reqs[r].refs > Cardinality(WorkersOn(r))
  BY <1>2, <1>4 DEF WebInv, RefsSuffice, GoneFrom
<1>7. n \in Request /\ n.refs = 0 /\ n.code = "init" /\ n.sends = 0 /\ n.retries = 0
      /\ n.autoRetry = TRUE
  BY <1>2 DEF NewRequest, Request, Codes, GoneFrom
<1> HIDE DEF n
<1>8. /\ q \in Request /\ q.refs = reqs[r].refs - 1 /\ Sane(q)
      /\ reqs[r].refs # 1 => /\ Fresh(reqs[r]) => Fresh(q)
                             /\ Sent(reqs[r]) => Sent(q)
                             /\ Ended(reqs[r]) => Ended(q)
  <2>1. Sane(reqs[r])
    BY <1>2 DEF WebInv, RequestsAgree, GoneFrom
  <2>2. CASE reqs[r].refs = 1
    BY <1>2, <1>7, <2>1, <2>2, MaxRetriesAssumption DEF Request, Sane, GaveUp, GoneFrom
  <2>3. CASE reqs[r].refs # 1
    BY <1>2, <1>6, <2>1, <2>3 DEF Request, Sane, GaveUp, Fresh, Sent, Ended, GoneFrom
  <2> QED BY <2>2, <2>3
<1> HIDE DEF q
<1>9. /\ reqs' \in Seq(Request) /\ Ids' = Ids
      /\ \A x \in Ids : reqs'[x] = IF x = r THEN q ELSE reqs[x]
  <2>1. r \in Ids /\ q \in Request /\ TypeOK
    BY <1>1, <1>2, <1>8 DEF GoneFrom
  <2> QED BY <1>5, <2>1, Revalued
<1>10. TypeOK'
  BY <1>1, <1>2, <1>3, <1>9 DEF TypeOK, GoneFrom
<1>11. OneAttempt'
  BY <1>2, <1>3, <1>4 DEF WebInv, OneAttempt, GoneFrom
<1>12. reqs[r].refs = 1 =>
          /\ r \notin Waiting
          /\ \A u \in Threads : u # w => cur[u] # r
  <2> SUFFICES ASSUME reqs[r].refs = 1 PROVE r \notin Waiting /\ \A u \in Threads : u # w => cur[u] # r
    OBVIOUS
  <2>1. r \notin Waiting /\ Cardinality(WorkersOn(r)) = 1
    BY <1>2, <1>6 DEF GoneFrom
  <2>2. WorkersOn(r) \ {w} = {}
    <3>1. WorkersOn(r) \ {w} \in SUBSET Workers
      BY DEF WorkersOn
    <3>2. Cardinality(WorkersOn(r) \ {w}) = 0 /\ IsFiniteSet(WorkersOn(r) \ {w})
      BY <1>2, <2>1, <3>1, ThreadsAssumption, FS_Subset DEF GoneFrom
    <3> QED BY <3>2, FS_EmptySet
  <2>3. cur[App] # r
    BY <1>0, <1>1, <1>2, Basics DEF WebInv, PointsAgree, GoneFrom
  <2> QED BY <2>1, <2>2, <2>3 DEF WorkersOn, Threads
<1>13. RequestsAgree'
  <2>1. \A x \in Ids : Sane(reqs'[x])
    BY <1>8, <1>9 DEF WebInv, RequestsAgree
  <2>2. /\ \A x \in Queued(jobs) : Fresh(reqs'[x])
        /\ \A x \in Queued(polls) : Ended(reqs'[x])
    BY <1>4, <1>8, <1>9, <1>12 DEF WebInv, RequestsAgree, Waiting
  <2>3. ASSUME NEW u \in Threads
        PROVE  /\ at'[u] \in Unsent => Fresh(reqs'[cur'[u]])
               /\ at'[u] = "sending" => Sent(reqs'[cur'[u]])
               /\ at'[u] = "answer" => Ended(reqs'[cur'[u]])
    <3>1. CASE at'[u] \in Carrying
      <4>1. u # w /\ at[u] \in Carrying /\ at'[u] = at[u] /\ cur'[u] = cur[u]
        BY <1>2, <3>1 DEF GoneFrom
      <4>2. cur[u] \in Ids
        BY <4>1, CarrierHasRequest
      <4> QED BY <1>8, <1>9, <1>12, <4>1, <4>2 DEF WebInv, RequestsAgree
    <3>2. CASE at'[u] \notin Carrying
      BY <3>2 DEF Carrying
    <3> QED BY <3>1, <3>2
  <2> QED BY <1>4, <1>9, <2>1, <2>2, <2>3 DEF RequestsAgree
<1>14. RefsSuffice'
  <2>1. ASSUME NEW x \in Ids
        PROVE  /\ reqs'[x].refs >= Cardinality(WorkersOn(x))'
               /\ x \in Waiting => reqs'[x].refs > Cardinality(WorkersOn(x))'
    <3>1. CASE x = r
      <4>1. /\ Cardinality(WorkersOn(r)) \in Nat
            /\ Cardinality(WorkersOn(r))' = Cardinality(WorkersOn(r)) - 1
        BY <1>2 DEF GoneFrom
      <4> QED BY <1>2, <1>6, <1>8, <1>9, <3>1, <4>1
    <3>2. CASE x # r
      BY <1>2, <1>9, <3>2 DEF WebInv, RefsSuffice, GoneFrom
    <3> QED BY <3>1, <3>2
  <2> QED BY <1>4, <1>9, <2>1 DEF RefsSuffice
<1>15. RegisteredAreHeld'
  <2> SUFFICES ASSUME NEW x \in registered, x \notin Waiting
               PROVE  \E v \in WorkersOn(x)' : at'[v] \in Carrying \cup {"destroy"}
    BY <1>3, <1>4 DEF RegisteredAreHeld
  <2>1. PICK v \in WorkersOn(x) : at[v] \in Carrying \cup {"destroy"}
    BY DEF WebInv, RegisteredAreHeld
  <2>2. v # w /\ x \in Ids /\ v \in Threads
    BY <1>1, <2>1 DEF Carrying, Unsent, TypeOK, WorkersOn, Threads
  <2> QED BY <1>2, <2>1, <2>2 DEF GoneFrom
<1>16. CountSuffices'
  BY <1>2, <1>3, <1>4 DEF WebInv, CountSuffices, GoneFrom
<1>17. ClosesOnlyWhenIdle'
  BY <1>2, <1>3 DEF WebInv, ClosesOnlyWhenIdle, GoneFrom
<1> QED BY <1>2, <1>10, <1>11, <1>13, <1>14, <1>15, <1>16, <1>17 DEF WebInv, GoneFrom

\* DestroyRequest takes the request out of Requests: its attempt is over, or
\* another thread has it.
LEMMA UnregisterStep ==
    ASSUME WebInv, NEW w \in Workers, at[w] \in {"retried", "destroy"},
           Unregistered(cur[w]), Goto(w, "release"),
           UNCHANGED <<reqs, queues, flags, token, closing, cur, load>>
    PROVE  WebInv'
<1>0. PICK r : r = cur[w]
  OBVIOUS
<1>1. TypeOK /\ w \in Threads /\ w # App
  BY ThreadsAssumption DEF WebInv, Threads
<1>2. /\ \A u \in Threads : at'[u] = IF u = w THEN "release" ELSE at[u]
      /\ at' \in [Threads -> WorkerPoints \cup AppPoints]
      /\ at'[App] \in AppPoints /\ \A v \in Workers : at'[v] \in WorkerPoints
      /\ Workers \subseteq Threads /\ App \in Threads /\ App \notin Workers
  BY <1>1, Went DEF WorkerPoints
<1>3. /\ registered' = registered \ {r} /\ count' = count - 1
      /\ UNCHANGED <<reqs, jobs, polls, needed, started, expired, login, shutdown, timedOut,
                     cur, load>>
  BY <1>0 DEF Unregistered, queues, flags, token, closing
<1>4. /\ Queued(jobs)' = Queued(jobs) /\ Queued(polls)' = Queued(polls) /\ Waiting' = Waiting
      /\ Ids' = Ids
      /\ \A x : WorkersOn(x)' = WorkersOn(x)
      /\ Len(jobs) \in Nat /\ Len(polls) \in Nat /\ count \in Nat
  BY <1>1, <1>3, Basics DEF Waiting, Queued, WorkersOn, Ids, TypeOK
<1>5. \A u \in Threads : at'[u] \in Carrying => u # w /\ at'[u] = at[u]
  BY <1>2 DEF Carrying, Unsent
<1>6. w \in Busy /\ Busy' = Busy \ {w} /\ Busy \in SUBSET Workers
  BY <1>1, <1>2 DEF Busy
<1>7. /\ Cardinality(Busy) \in Nat \ {0} /\ Cardinality(Busy)' = Cardinality(Busy) - 1
      /\ count >= Len(jobs) + Len(polls) + Cardinality(Busy)
  BY <1>6, Left DEF WebInv, CountSuffices
<1>8. TypeOK'
  <2>1. count' \in Nat
    BY <1>3, <1>4, <1>7
  <2> QED BY <1>1, <1>2, <1>3, <1>4, <2>1 DEF TypeOK
<1>9. PointsAgree'
  BY <1>1, <1>2, <1>3 DEF WebInv, PointsAgree
<1>10. OneAttempt'
  BY <1>3, <1>4, <1>5 DEF WebInv, OneAttempt
<1>11. RequestsAgree'
  <2>1. ASSUME NEW u \in Threads
        PROVE  /\ at'[u] \in Unsent => Fresh(reqs[cur[u]])
               /\ at'[u] = "sending" => Sent(reqs[cur[u]])
               /\ at'[u] = "answer" => Ended(reqs[cur[u]])
    <3>1. CASE at'[u] \in Carrying
      BY <1>5, <3>1 DEF WebInv, RequestsAgree
    <3>2. CASE at'[u] \notin Carrying
      BY <3>2 DEF Carrying
    <3> QED BY <3>1, <3>2
  <2> QED BY <1>3, <1>4, <2>1 DEF WebInv, RequestsAgree
<1>12. RefsSuffice'
  BY <1>3, <1>4 DEF WebInv, RefsSuffice
<1>13. RegisteredAreHeld'
  <2> SUFFICES ASSUME NEW x \in registered, x # r, x \notin Waiting
               PROVE  \E v \in WorkersOn(x) : at'[v] \in Carrying \cup {"destroy"}
    BY <1>3, <1>4 DEF RegisteredAreHeld
  <2>1. PICK v \in WorkersOn(x) : at[v] \in Carrying \cup {"destroy"}
    BY DEF WebInv, RegisteredAreHeld
  <2> QED BY <1>0, <1>2, <2>1 DEF WorkersOn
<1>14. CountSuffices'
  BY <1>3, <1>4, <1>7 DEF CountSuffices
<1>15. ClosesOnlyWhenIdle'
  BY <1>1, <1>2, <1>3 DEF WebInv, ClosesOnlyWhenIdle
<1> QED BY <1>8, <1>9, <1>10, <1>11, <1>12, <1>13, <1>14, <1>15 DEF WebInv

\* A worker goes back to the pool; a polled request it retried keeps its
\* reference, one that has its answer is left to be polled.
LEMMA LeaveStep ==
    ASSUME WebInv, NEW w \in Workers, NEW r, r = cur[w],
           Goto(w, "idle"), cur' = [cur EXCEPT ![w] = 0],
           \/ at[w] = "retried" /\ polls' = polls
           \/ at[w] = "answer" /\ polls' = Append(polls, r),
           UNCHANGED <<reqs, registered, count, jobs, flags, token, closing, load>>
    PROVE  WebInv'
<1>1. TypeOK /\ at[w] \notin {"idle", "exited", "release"} /\ w \in Threads
  BY DEF WebInv, Threads
<1>2. GoneFrom(w, r)
  BY <1>1, Gone
<1>3. UNCHANGED <<reqs, registered, count, jobs, needed, started, expired, login, shutdown,
                  timedOut, load>>
  BY DEF flags, token, closing
<1>4. /\ Queued(jobs)' = Queued(jobs) /\ Ids' = Ids
      /\ Queued(jobs) \subseteq Ids /\ Queued(polls) \subseteq Ids
      /\ Len(jobs) \in Nat /\ Len(polls) \in Nat /\ count \in Nat
      /\ \A x \in Ids : reqs[x].refs \in Nat
      /\ r \in Ids
  <2>1. r \in Ids
    BY <1>2 DEF GoneFrom
  <2>2. Queued(jobs)' = Queued(jobs) /\ Ids' = Ids /\ count \in Nat
    BY <1>1, <1>3 DEF Queued, Ids, TypeOK
  <2>3. /\ Queued(jobs) \subseteq Ids /\ Queued(polls) \subseteq Ids
        /\ Len(jobs) \in Nat /\ Len(polls) \in Nat
        /\ \A x \in Ids : reqs[x] \in Request
    BY <1>1, Basics
  <2>4. \A x \in Ids : reqs[x].refs \in Nat
    BY <2>3 DEF Request
  <2> QED BY <2>1, <2>2, <2>3, <2>4
<1>5. at[w] = "answer" => r \notin Waiting /\ Ended(reqs[r])
  <2> SUFFICES ASSUME at[w] = "answer" PROVE r \notin Waiting /\ Ended(reqs[r])
    OBVIOUS
  <2>1. at[w] \in Carrying
    BY DEF Carrying
  <2> QED BY <1>1, <2>1, CarrierHasRequest DEF WebInv, RequestsAgree
<1>6. /\ polls' \in Seq(Ids) /\ NoRepeats(polls)'
      /\ Len(polls') = IF at[w] = "answer" THEN Len(polls) + 1 ELSE Len(polls)
      /\ Queued(polls)' = IF at[w] = "answer" THEN Queued(polls) \cup {r} ELSE Queued(polls)
  <2>1. polls \in Seq(Ids) /\ NoRepeats(polls)
    BY <1>1 DEF TypeOK, WebInv, OneAttempt
  <2>2. CASE at[w] = "answer" /\ polls' = Append(polls, r)
    <3>1. r \in Ids /\ r \notin Queued(polls)
      BY <1>4, <1>5, <2>2 DEF Waiting
    <3>2. /\ Append(polls, r) \in Seq(Ids) /\ Len(Append(polls, r)) = Len(polls) + 1
          /\ Queued(Append(polls, r)) = Queued(polls) \cup {r}
          /\ NoRepeats(Append(polls, r))
      BY <2>1, <3>1, QueuedAppend
    <3> QED BY <2>2, <3>2
  <2>3. CASE at[w] = "retried" /\ polls' = polls
    BY <2>1, <2>3
  <2> QED BY <2>2, <2>3
<1>7. Waiting' = IF at[w] = "answer" THEN Waiting \cup {r} ELSE Waiting
  BY <1>4, <1>6 DEF Waiting
<1>8. TypeOK'
  <2>1. /\ at' \in [Threads -> WorkerPoints \cup AppPoints]
        /\ at'[App] \in AppPoints /\ \A v \in Workers : at'[v] \in WorkerPoints
        /\ cur' \in [Threads -> Ids' \cup {0}]
    BY <1>2, <1>4 DEF GoneFrom
  <2>2. jobs' \in Seq(Ids') /\ polls' \in Seq(Ids') /\ registered' \subseteq Ids'
    BY <1>1, <1>3, <1>4, <1>6 DEF TypeOK
  <2> QED BY <1>1, <1>3, <2>1, <2>2 DEF TypeOK
<1>9. \A u \in Threads : at'[u] \in Carrying =>
         /\ u # w /\ at[u] \in Carrying /\ at'[u] = at[u] /\ cur'[u] = cur[u]
         /\ at[w] = "answer" => cur[u] # r
  <2>1. at[w] = "answer" => at[w] \in Carrying
    BY DEF Carrying
  <2> QED BY <1>1, <1>2, <2>1 DEF GoneFrom, WebInv, OneAttempt
<1>10. OneAttempt'
  <2>1. Queued(jobs)' \cap Queued(polls)' = {}
    BY <1>4, <1>5, <1>6 DEF WebInv, OneAttempt, Waiting
  <2>2. NoRepeats(jobs)'
    BY <1>3 DEF WebInv, OneAttempt
  <2> QED BY <1>6, <1>7, <1>9, <2>1, <2>2 DEF WebInv, OneAttempt
<1>11. RequestsAgree'
  <2>1. ASSUME NEW u \in Threads
        PROVE  /\ at'[u] \in Unsent => Fresh(reqs[cur'[u]])
               /\ at'[u] = "sending" => Sent(reqs[cur'[u]])
               /\ at'[u] = "answer" => Ended(reqs[cur'[u]])
    <3>1. CASE at'[u] \in Carrying
      BY <1>9, <3>1 DEF WebInv, RequestsAgree
    <3>2. CASE at'[u] \notin Carrying
      BY <3>2 DEF Carrying
    <3> QED BY <3>1, <3>2
  <2>2. \A x \in Queued(polls)' : Ended(reqs[x])
    BY <1>5, <1>6 DEF WebInv, RequestsAgree
  <2> QED BY <1>3, <1>4, <2>1, <2>2 DEF WebInv, RequestsAgree
<1>12. RefsSuffice'
  <2>1. ASSUME NEW x \in Ids
        PROVE  /\ reqs[x].refs >= Cardinality(WorkersOn(x))'
               /\ x \in Waiting' => reqs[x].refs > Cardinality(WorkersOn(x))'
    <3>1. CASE x = r
      <4>1. /\ Cardinality(WorkersOn(r)) \in Nat
            /\ Cardinality(WorkersOn(r))' = Cardinality(WorkersOn(r)) - 1
        BY <1>2 DEF GoneFrom
      <4>2. reqs[r].refs >= Cardinality(WorkersOn(r)) /\ reqs[r].refs \in Nat
        BY <1>4 DEF WebInv, RefsSuffice
      <4> QED BY <3>1, <4>1, <4>2
    <3>2. CASE x # r
      BY <1>2, <1>7, <3>2 DEF WebInv, RefsSuffice, GoneFrom
    <3> QED BY <3>1, <3>2
  <2> QED BY <1>3, <1>4, <2>1 DEF RefsSuffice
<1>13. RegisteredAreHeld'
  <2> SUFFICES ASSUME NEW x \in registered, x \notin Waiting'
               PROVE  \E v \in WorkersOn(x)' : at'[v] \in Carrying \cup {"destroy"}
    BY <1>3 DEF RegisteredAreHeld
  <2>1. x \notin Waiting /\ (at[w] = "answer" => x # r)
    BY <1>7
  <2>2. PICK v \in WorkersOn(x) : at[v] \in Carrying \cup {"destroy"}
    BY <2>1 DEF WebInv, RegisteredAreHeld
  <2>3. v # w /\ x \in Ids /\ v \in Threads
    BY <1>1, <2>1, <2>2 DEF Carrying, Unsent, TypeOK, WorkersOn, Threads
  <2> QED BY <1>2, <2>2, <2>3 DEF GoneFrom
<1>14. CountSuffices'
  <2>1. Cardinality(Busy) \in Nat /\ Cardinality(Busy)' = Cardinality(Busy) - 1
    BY <1>1, <1>2 DEF GoneFrom
  <2> QED BY <1>3, <1>4, <1>6, <2>1 DEF WebInv, CountSuffices
<1>15. ClosesOnlyWhenIdle'
  <2>1. cur[w] # 0 /\ at[w] # "release"
    BY <1>1 DEF WebInv, PointsAgree
  <2>2. ~(at[App] \in {"joining", "closed"} /\ ~timedOut)
    BY <2>1, NotClosing
  <2> QED BY <1>2, <1>3, <2>2 DEF ClosesOnlyWhenIdle, GoneFrom
<1> QED BY <1>2, <1>8, <1>10, <1>11, <1>12, <1>13, <1>14, <1>15 DEF WebInv, GoneFrom

\* The attempt has its answer, and the callback, if there is one, has run: once.
LEMMA ConcludeStep ==
    ASSUME WebInv, NEW w \in Workers, at[w] = "answer", Goto(w, "destroy"),
           NEW q \in Request, reqs' = [reqs EXCEPT ![cur[w]] = q],
           q.refs = reqs[cur[w]].refs, Sane(q),
           UNCHANGED <<registered, count, jobs, polls, closing, cur>>, RestTyped'
    PROVE  WebInv'
<1> DEFINE r == cur[w]
<1>1. TypeOK /\ w \in Threads /\ w # App /\ at[w] \in Carrying /\ r \in Ids /\ r \notin Waiting
  BY ThreadsAssumption, CarrierHasRequest DEF WebInv, Threads, Carrying
<1>2. /\ \A u \in Threads : at'[u] = IF u = w THEN "destroy" ELSE at[u]
      /\ at' \in [Threads -> WorkerPoints \cup AppPoints]
      /\ at'[App] \in AppPoints /\ \A v \in Workers : at'[v] \in WorkerPoints
      /\ Workers \subseteq Threads /\ App \in Threads /\ App \notin Workers
  BY <1>1, Went DEF WorkerPoints
<1>3. /\ reqs' \in Seq(Request) /\ Ids' = Ids
      /\ \A x \in Ids : reqs'[x] = IF x = r THEN q ELSE reqs[x]
  BY <1>1, Revalued
<1>4. /\ Queued(jobs)' = Queued(jobs) /\ Queued(polls)' = Queued(polls) /\ Waiting' = Waiting
      /\ \A x : WorkersOn(x)' = WorkersOn(x)
      /\ Queued(jobs) \subseteq Ids /\ Queued(polls) \subseteq Ids
      /\ UNCHANGED <<jobs, polls, registered, count, cur, timedOut, shutdown>>
  BY <1>1, Basics DEF Waiting, Queued, WorkersOn, closing
<1>5. \A u \in Threads : at'[u] \in Carrying =>
         u # w /\ at[u] \in Carrying /\ at'[u] = at[u] /\ cur[u] # r
  BY <1>1, <1>2 DEF WebInv, OneAttempt, Carrying, Unsent
<1> HIDE DEF r
<1>6. TypeOK'
  BY <1>1, <1>2, <1>3, <1>4 DEF TypeOK, RestTyped
<1>7. PointsAgree'
  BY <1>1, <1>2, <1>4 DEF WebInv, PointsAgree
<1>8. OneAttempt'
  BY <1>4, <1>5 DEF WebInv, OneAttempt
<1>9. RequestsAgree'
  <2>1. \A x \in Ids : Sane(reqs'[x])
    BY <1>3 DEF WebInv, RequestsAgree
  <2>2. /\ \A x \in Queued(jobs) : Fresh(reqs'[x])
        /\ \A x \in Queued(polls) : Ended(reqs'[x])
    BY <1>1, <1>3, <1>4 DEF WebInv, RequestsAgree, Waiting
  <2>3. ASSUME NEW u \in Threads
        PROVE  /\ at'[u] \in Unsent => Fresh(reqs'[cur[u]])
               /\ at'[u] = "sending" => Sent(reqs'[cur[u]])
               /\ at'[u] = "answer" => Ended(reqs'[cur[u]])
    <3>1. CASE at'[u] \in Carrying
      <4>1. cur[u] \in Ids
        BY <1>5, <3>1, CarrierHasRequest
      <4> QED BY <1>3, <1>5, <3>1, <4>1 DEF WebInv, RequestsAgree
    <3>2. CASE at'[u] \notin Carrying
      BY <3>2 DEF Carrying
    <3> QED BY <3>1, <3>2
  <2> QED BY <1>3, <1>4, <2>1, <2>2, <2>3 DEF RequestsAgree
<1>10. RefsSuffice'
  BY <1>3, <1>4 DEF WebInv, RefsSuffice, r
<1>11. RegisteredAreHeld'
  <2>1. \A x : \A v \in WorkersOn(x) :
           at[v] \in Carrying \cup {"destroy"} => at'[v] \in Carrying \cup {"destroy"}
    BY <1>2 DEF WorkersOn
  <2> QED BY <1>4, <2>1 DEF WebInv, RegisteredAreHeld
<1>12. CountSuffices'
  <2>1. Busy' = Busy
    BY <1>1, <1>2 DEF Busy
  <2> QED BY <1>4, <2>1 DEF WebInv, CountSuffices
<1>13. ClosesOnlyWhenIdle'
  <2>1. ~(at[App] \in {"joining", "closed"} /\ ~timedOut)
    BY <1>1, NotClosing, Basics DEF r
  <2> QED BY <1>1, <1>2, <1>4, <2>1 DEF ClosesOnlyWhenIdle
<1> QED BY <1>6, <1>7, <1>8, <1>9, <1>10, <1>11, <1>12, <1>13 DEF WebInv

\* CheckForAutoRetry, for a request that an attempt left as left: it is tried
\* again, or has failed for good with every retry used.
LEMMA AutoRetryStep ==
    ASSUME WebInv, NEW w \in Workers, at[w] \in Carrying,
           NEW left \in Request, left.refs = reqs[cur[w]].refs, Sane(left), Sent(left),
           CheckForAutoRetry(w, cur[w], left),
           UNCHANGED <<registered, count, queues, flags, token, closing, cur, load>>
    PROVE  WebInv'
<1> DEFINE again == left.autoRetry /\ left.code = "busy" /\ left.retries < MaxRetries
           q == [left EXCEPT !.retries = IF again THEN left.retries + 1 ELSE left.retries]
<1>1. /\ reqs' = [reqs EXCEPT ![cur[w]] = q]
      /\ Goto(w, IF again THEN AfterExpiryCheck ELSE "answer")
  BY DEF CheckForAutoRetry
<1>2. /\ left.retries \in Nat /\ left.sends \in Nat /\ left.answers = 0
      /\ left.cancelled \in BOOLEAN /\ left.autoRetry \in BOOLEAN
  BY DEF Request, Sent
<1>3. q \in Request /\ q.refs = left.refs
  BY <1>2 DEF Request
<1>4. CASE again
  <2>1. /\ q.answers = 0 /\ q.sends = left.sends /\ q.retries = left.retries + 1
        /\ q.cancelled = left.cancelled /\ q.autoRetry = left.autoRetry
    BY <1>2, <1>4 DEF Request
  <2>2. Sane(q) /\ Fresh(q)
    BY <1>2, <1>4, <2>1, MaxRetriesAssumption DEF Sane, Sent, Fresh
  <2>3. PICK p \in {"refresh", "add"} : Goto(w, p)
    BY <1>1, <1>4 DEF AfterExpiryCheck
  <2>4. p \in Carrying /\ p # "sending" /\ p # "answer" /\ w \in Threads /\ RestTyped' /\ w # App
    BY <2>3, ThreadsAssumption
       DEF Carrying, Unsent, Threads, RestTyped, WebInv, TypeOK, flags, token
  <2> HIDE DEF q, again
  <2> QED BY <1>1, <1>3, <2>2, <2>3, <2>4, Carried DEF queues
<1>5. CASE ~again
  <2>1. /\ q.answers = 0 /\ q.sends = left.sends /\ q.retries = left.retries
        /\ q.cancelled = left.cancelled /\ q.autoRetry = left.autoRetry /\ q.code = left.code
    BY <1>2, <1>5 DEF Request
  <2>2. Sane(q) /\ Ended(q)
    BY <1>2, <1>5, <2>1, MaxRetriesAssumption DEF Sane, Sent, Ended, GaveUp
  <2>3. Goto(w, "answer")
    BY <1>1, <1>5
  <2>4. "answer" \in Carrying \ Unsent /\ w \in Threads /\ RestTyped' /\ w # App
    BY ThreadsAssumption
       DEF Carrying, Unsent, Threads, RestTyped, WebInv, TypeOK, flags, token
  <2> HIDE DEF q, again
  <2> QED BY <1>1, <1>3, <2>2, <2>3, <2>4, Carried DEF queues
<1> QED BY <1>4, <1>5

\* Send is called, unless the request is cancelled; it returns.
LEMMA SendingStep ==
    ASSUME WebInv, NEW w \in Workers, BeginSend(w) \/ EndSend(w)
    PROVE  WebInv'
<1>0. PICK r : r = cur[w]
  OBVIOUS
<1>1. /\ w \in Threads /\ w # App /\ at[w] \in Carrying /\ at[w] \in {"send", "sending"}
      /\ r \in Ids /\ reqs[r] \in Request /\ Sane(reqs[r])
  <2>1. w \in Threads /\ w # App /\ at[w] \in Carrying /\ at[w] \in {"send", "sending"}
    BY ThreadsAssumption DEF BeginSend, EndSend, Holds, Threads, Carrying, Unsent
  <2> QED BY <1>0, <2>1, CarrierHasRequest DEF WebInv, RequestsAgree
<1>2. UNCHANGED <<registered, count, queues, flags, token, closing, cur, load>>
  BY DEF BeginSend, EndSend
<1>3. CASE BeginSend(w) /\ ~reqs[r].cancelled
  <2> DEFINE q == [reqs[r] EXCEPT !.sends = reqs[r].sends + 1]
  <2>1. reqs' = [reqs EXCEPT ![r] = q] /\ Goto(w, "sending")
    BY <1>0, <1>3 DEF BeginSend
  <2>2. Fresh(reqs[r])
    BY <1>0, <1>1, <1>3 DEF BeginSend, Holds, WebInv, RequestsAgree, Unsent
  <2>3. /\ q \in Request /\ q.refs = reqs[r].refs /\ q.answers = reqs[r].answers
        /\ q.sends = reqs[r].sends + 1 /\ q.retries = reqs[r].retries
        /\ q.cancelled = reqs[r].cancelled /\ q.autoRetry = reqs[r].autoRetry
        /\ reqs[r].retries \in Nat /\ reqs[r].sends \in Nat
    BY <1>1 DEF Request
  <2>4. Sane(q) /\ Sent(q)
    BY <1>1, <1>3, <2>2, <2>3 DEF Sane, Sent, Fresh
  <2>5. "sending" \in Carrying \ Unsent /\ RestTyped'
    BY <1>2 DEF Carrying, Unsent, RestTyped, WebInv, TypeOK, flags, token
  <2> HIDE DEF q
  <2> QED BY <1>0, <1>1, <1>2, <2>1, <2>3, <2>4, <2>5, Carried DEF queues
<1>4. CASE BeginSend(w) /\ reqs[r].cancelled
  <2> DEFINE left == [reqs[r] EXCEPT !.code = "busy", !.autoRetry = FALSE]
  <2>1. CheckForAutoRetry(w, cur[w], left)
    BY <1>0, <1>4 DEF BeginSend
  <2>2. reqs[r].answers = 0
    BY <1>0, <1>1, <1>4 DEF BeginSend, Holds, WebInv, RequestsAgree, Unsent, Fresh
  <2>3. /\ left \in Request /\ left.refs = reqs[r].refs /\ left.answers = 0
        /\ left.sends = reqs[r].sends /\ left.retries = reqs[r].retries
        /\ left.cancelled = reqs[r].cancelled
    BY <1>1, <2>2 DEF Request, Codes
  <2>4. Sane(left) /\ Sent(left)
    BY <1>1, <1>4, <2>3 DEF Sane, Sent
  <2> HIDE DEF left
  <2> QED BY <1>0, <1>1, <1>2, <2>1, <2>3, <2>4, AutoRetryStep
<1>5. CASE EndSend(w)
  <2>1. PICK c \in Codes : CheckForAutoRetry(w, cur[w], [reqs[r] EXCEPT !.code = c])
    BY <1>0, <1>1, <1>5 DEF EndSend, Codes, Request
  <2> DEFINE left == [reqs[r] EXCEPT !.code = c]
  <2>2. Sent(reqs[r])
    BY <1>0, <1>1, <1>5 DEF EndSend, Holds, WebInv, RequestsAgree
  <2>3. /\ left \in Request /\ left.refs = reqs[r].refs
        /\ Sane(left) /\ Sent(left)
    BY <1>1, <2>2 DEF Request, Sane, Sent
  <2>4. CheckForAutoRetry(w, cur[w], left)
    BY <2>1
  <2> HIDE DEF left
  <2> QED BY <1>0, <1>1, <1>2, <2>3, <2>4, AutoRetryStep
<1> QED BY <1>3, <1>4, <1>5

\* ProcessRequest calls back, queues the response or does neither.
LEMMA AnswerStep ==
    ASSUME WebInv, NEW w \in Workers, Answer(w)
    PROVE  WebInv'
<1>0. PICK r : r = cur[w]
  OBVIOUS
<1>1. /\ w \in Threads /\ at[w] = "answer" /\ at[w] \in Carrying
      /\ r \in Ids /\ reqs[r] \in Request /\ Sane(reqs[r]) /\ Ended(reqs[r])
  <2>1. w \in Threads /\ at[w] \in Carrying /\ at[w] = "answer"
    BY DEF Answer, Holds, Threads, Carrying
  <2> QED BY <1>0, <2>1, CarrierHasRequest DEF WebInv, RequestsAgree
<1>2. UNCHANGED <<registered, count, jobs, closing, load>> /\ load \in 0 .. MaxLoad
  BY DEF Answer, WebInv, TypeOK
<1>3. CASE reqs[r].mode = "async"
  <2> DEFINE q == [reqs[r] EXCEPT !.answers = reqs[r].answers + 1]
  <2>1. reqs' = [reqs EXCEPT ![r] = q] /\ Goto(w, "destroy") /\ UNCHANGED <<polls, cur>>
    BY <1>0, <1>3 DEF Answer
  <2>2. RestTyped'
    <3>1. \/ RefreshAnswered(reqs[r].code)
          \/ UNCHANGED <<flags, expired, login>>
      BY <1>0, <1>3 DEF Answer
    <3>2. /\ needed \in BOOLEAN /\ started \in BOOLEAN /\ expired \in BOOLEAN
          /\ login \in {"LoggedIn", "LogoutRequested", "Error"}
      BY DEF WebInv, TypeOK
    <3> QED BY <1>2, <3>1, <3>2 DEF RestTyped, RefreshAnswered, StoreLoginState, flags, token
  <2>3. q \in Request /\ q.refs = reqs[r].refs /\ Sane(q)
    BY <1>1 DEF Request, Sane, Ended, GaveUp
  <2> HIDE DEF q
  <2> QED BY <1>0, <1>1, <1>2, <2>1, <2>2, <2>3, ConcludeStep
<1>4. CASE reqs[r].mode = "poll"
  <2>1. /\ polls' = Append(polls, r) /\ Goto(w, "idle") /\ cur' = [cur EXCEPT ![w] = 0]
        /\ UNCHANGED <<reqs, flags, expired, login>>
    BY <1>0, <1>4 DEF Answer
  <2> QED BY <1>0, <1>1, <1>2, <2>1, LeaveStep DEF token
<1>5. CASE reqs[r].mode = "none"
  <2>1. Goto(w, "destroy") /\ UNCHANGED <<reqs, polls, cur, flags, expired, login>>
    BY <1>0, <1>5 DEF Answer
  <2>2. reqs' = [reqs EXCEPT ![r] = reqs[r]]
    <3>1. reqs = [reqs EXCEPT ![r] = reqs[r]]
      BY LenProperties DEF WebInv, TypeOK
    <3> QED BY <2>1, <3>1
  <2>3. RestTyped'
    BY <1>2, <2>1 DEF RestTyped, WebInv, TypeOK, flags
  <2> QED BY <1>0, <1>1, <1>2, <2>1, <2>2, <2>3, ConcludeStep
<1> QED BY <1>0, <1>3, <1>4, <1>5 DEF Answer

\* A response is polled: called back, unregistered and released in one go.
LEMMA PollStep ==
    ASSUME WebInv, at[App] \in {"app", "draining"}, PollOne,
           UNCHANGED <<jobs, flags, token, closing, at, cur, load>>
    PROVE  WebInv'
<1>0. PICK r : r = Head(polls)
  OBVIOUS
<1>1. TypeOK /\ polls # <<>>
  BY DEF WebInv, PollOne
<1>2. /\ polls' \in Seq(Ids) /\ Len(polls') = Len(polls) - 1 /\ Len(polls) \in Nat \ {0}
      /\ r \in Queued(polls) /\ r \in Ids
      /\ Queued(polls)' = Queued(polls) \ {r}
      /\ NoRepeats(polls)'
  <2>1. polls \in Seq(Ids) /\ NoRepeats(polls) /\ polls' = Tail(polls)
    BY DEF WebInv, TypeOK, OneAttempt, PollOne
  <2>2. /\ Tail(polls) \in Seq(Ids) /\ Len(Tail(polls)) = Len(polls) - 1
        /\ Len(polls) \in Nat \ {0}
        /\ Head(polls) \in Queued(polls) /\ Head(polls) \in Ids
        /\ Queued(Tail(polls)) = Queued(polls) \ {Head(polls)}
        /\ NoRepeats(Tail(polls))
    BY <1>1, <2>1, QueuedTail
  <2> QED BY <1>0, <2>1, <2>2
<1>3. /\ registered' = registered \ {r} /\ count' = count - 1
      /\ UNCHANGED <<jobs, needed, started, expired, login, shutdown, timedOut, at, cur, load>>
  BY <1>0 DEF PollOne, Unregistered, flags, token, closing
<1>4. /\ Queued(jobs)' = Queued(jobs) /\ r \notin Queued(jobs)
      /\ Waiting' = Waiting \ {r} /\ r \in Waiting
      /\ \A x : WorkersOn(x)' = WorkersOn(x)
      /\ Busy' = Busy
  BY <1>2, <1>3 DEF Waiting, Queued, WorkersOn, Busy, WebInv, OneAttempt
<1>5. /\ reqs \in Seq(Request) /\ reqs[r] \in Request /\ Sane(reqs[r]) /\ Ended(reqs[r])
      /\ reqs[r].refs \in Nat /\ reqs[r].refs > Cardinality(WorkersOn(r))
      /\ \A x : Cardinality(WorkersOn(x)) \in Nat
      /\ Len(jobs) \in Nat /\ count \in Nat /\ Cardinality(Busy) \in Nat
      /\ Queued(jobs) \subseteq Ids /\ Queued(polls) \subseteq Ids
  <2>1. reqs[r] \in Request /\ reqs[r].refs \in Nat
    BY <1>1, <1>2, Basics DEF Request
  <2>2. Sane(reqs[r]) /\ Ended(reqs[r]) /\ reqs[r].refs > Cardinality(WorkersOn(r))
    BY <1>2, <1>4 DEF WebInv, RequestsAgree, RefsSuffice
  <2> QED BY <1>1, <2>1, <2>2, Basics DEF TypeOK
<1> DEFINE a == [reqs[r] EXCEPT !.answers = IF reqs[r].cancelled THEN reqs[r].answers
                                            ELSE reqs[r].answers + 1]
           n == NewRequest(a.kind, a.mode)
           q == IF a.refs = 1 THEN [n EXCEPT !.answers = a.answers]
                ELSE [a EXCEPT !.refs = a.refs - 1]
<1>6. /\ a \in Request /\ Sane(a) /\ a.refs = reqs[r].refs
      /\ a.kind = reqs[r].kind /\ a.mode = reqs[r].mode
  <2>1. /\ a \in Request /\ a.refs = reqs[r].refs /\ a.sends = reqs[r].sends
        /\ a.answers \in {0, 1} /\ a.code = reqs[r].code /\ a.cancelled = reqs[r].cancelled
        /\ a.retries = reqs[r].retries /\ a.autoRetry = reqs[r].autoRetry
        /\ a.kind = reqs[r].kind /\ a.mode = reqs[r].mode
    <3>1. reqs[r] \in Request /\ reqs[r].answers = 0
      BY <1>5 DEF Ended
    <3> DEFINE m == IF reqs[r].cancelled THEN reqs[r].answers ELSE reqs[r].answers + 1
    <3>2. m \in {0, 1}
      BY <3>1
    <3> HIDE DEF m
    <3>3. m \in Nat
      BY <3>2
    <3>4. a = [reqs[r] EXCEPT !.answers = m]
      BY DEF m
    <3> HIDE DEF a
    <3> QED BY <3>1, <3>2, <3>3, <3>4 DEF Request
  <2>2. Sane(reqs[r]) /\ Ended(reqs[r])
    BY <1>5
  <2> HIDE DEF a
  <2> QED BY <2>1, <2>2 DEF Sane, Ended, GaveUp
<1>7. /\ reqs' = [[reqs EXCEPT ![r] = a] EXCEPT ![r] = q]
  <2>1. [reqs EXCEPT ![r] = a][r] = a
    BY <1>1, <1>2 DEF TypeOK, Ids
  <2>2. Released([reqs EXCEPT ![r] = a], r)
    BY <1>0 DEF PollOne
  <2> HIDE DEF a
  <2> QED BY <2>1, <2>2 DEF Released
<1> HIDE DEF a
<1>8. n \in Request /\ n.refs = 0 /\ n.code = "init" /\ n.sends = 0 /\ n.retries = 0
      /\ n.autoRetry = TRUE
  BY <1>6 DEF NewRequest, Request, Codes
<1> HIDE DEF n
<1>9. /\ q \in Request /\ q.refs = reqs[r].refs - 1 /\ Sane(q)
  <2>0. a.refs \in Nat \ {0}
    BY <1>5, <1>6
  <2>1. CASE a.refs = 1
    BY <1>6, <1>8, <2>1, MaxRetriesAssumption DEF Request, Sane, GaveUp
  <2>2. CASE a.refs # 1
    BY <1>6, <2>0, <2>2 DEF Request, Sane, GaveUp
  <2> QED BY <2>1, <2>2
<1> HIDE DEF q
<1>10. /\ reqs' \in Seq(Request) /\ Ids' = Ids
       /\ \A x \in Ids : reqs'[x] = IF x = r THEN q ELSE reqs[x]
  <2>1. [[reqs EXCEPT ![r] = a] EXCEPT ![r] = q] = [reqs EXCEPT ![r] = q]
    BY <1>5, LenProperties
  <2>2. q \in Request /\ r \in Ids /\ reqs' = [reqs EXCEPT ![r] = q]
    BY <1>2, <1>7, <1>9, <2>1
  <2> QED BY <1>1, <2>2, Revalued
<1>11. TypeOK'
  <2>1. count' \in Nat
    BY <1>2, <1>3, <1>5 DEF WebInv, CountSuffices
  <2> QED BY <1>1, <1>2, <1>3, <1>10, <2>1 DEF TypeOK
<1>12. PointsAgree'
  BY <1>3 DEF WebInv, PointsAgree
<1>13. OneAttempt'
  BY <1>2, <1>3, <1>4 DEF WebInv, OneAttempt
<1>14. RequestsAgree'
  <2>1. \A x \in Ids : Sane(reqs'[x])
    BY <1>9, <1>10 DEF WebInv, RequestsAgree
  <2>2. /\ \A x \in Queued(jobs) : Fresh(reqs'[x])
        /\ \A x \in Queued(polls)' : Ended(reqs'[x])
    BY <1>2, <1>4, <1>5, <1>10 DEF WebInv, RequestsAgree
  <2>3. ASSUME NEW u \in Threads
        PROVE  /\ at[u] \in Unsent => Fresh(reqs'[cur[u]])
               /\ at[u] = "sending" => Sent(reqs'[cur[u]])
               /\ at[u] = "answer" => Ended(reqs'[cur[u]])
    <3>1. CASE at[u] \in Carrying
      <4>1. cur[u] \in Ids /\ cur[u] # r
        BY <1>4, <3>1, CarrierHasRequest
      <4> QED BY <1>10, <4>1 DEF WebInv, RequestsAgree
    <3>2. CASE at[u] \notin Carrying
      BY <3>2 DEF Carrying
    <3> QED BY <3>1, <3>2
  <2> QED BY <1>3, <1>4, <1>10, <2>1, <2>2, <2>3 DEF RequestsAgree
<1>15. RefsSuffice'
  <2>1. ASSUME NEW x \in Ids
        PROVE  /\ reqs'[x].refs >= Cardinality(WorkersOn(x))
               /\ x \in Waiting' => reqs'[x].refs > Cardinality(WorkersOn(x))
    <3>1. CASE x = r
      BY <1>4, <1>5, <1>9, <1>10, <3>1
    <3>2. CASE x # r
      BY <1>4, <1>10, <3>2 DEF WebInv, RefsSuffice
    <3> QED BY <3>1, <3>2
  <2> QED BY <1>4, <1>10, <2>1 DEF RefsSuffice
<1>16. RegisteredAreHeld'
  BY <1>3, <1>4 DEF WebInv, RegisteredAreHeld
<1>17. CountSuffices'
  BY <1>2, <1>3, <1>4, <1>5 DEF WebInv, CountSuffices
<1>18. ClosesOnlyWhenIdle'
  BY <1>3 DEF ClosesOnlyWhenIdle
<1> QED BY <1>11, <1>12, <1>13, <1>14, <1>15, <1>16, <1>17, <1>18 DEF WebInv

\* Requests are at most cancelled.
AtMostCancelled ==
    /\ reqs' \in Seq(Request) /\ Ids' = Ids
    /\ \A x \in Ids :
         /\ reqs'[x].refs = reqs[x].refs /\ reqs'[x].answers = reqs[x].answers
         /\ reqs'[x].sends = reqs[x].sends /\ reqs'[x].retries = reqs[x].retries
         /\ reqs'[x].code = reqs[x].code /\ reqs'[x].autoRetry = reqs[x].autoRetry
         /\ reqs[x].cancelled => reqs'[x].cancelled

\* At most a worker leaves the pool, or the application's thread moves outside
\* AddRequest.
AtMostAside ==
    /\ at' \in [Threads -> WorkerPoints \cup AppPoints]
    /\ at'[App] \in AppPoints
    /\ \A w \in Workers : at'[w] \in WorkerPoints
    /\ \A w \in Workers : at'[w] = at[w] \/ (at[w] = "idle" /\ at'[w] = "exited")
    /\ \/ at'[App] = at[App]
       \/ at[App] \notin {"refresh", "add"} /\ at'[App] \notin {"refresh", "add"}

\* Requests that stay as they are.
LEMMA NoneCancelled ==
    ASSUME TypeOK, reqs' = reqs
    PROVE  AtMostCancelled
  BY DEF TypeOK, AtMostCancelled, Ids

\* What keeps the attempts where they are keeps the invariant.
LEMMA Aside ==
    ASSUME WebInv, AtMostCancelled, AtMostAside,
           UNCHANGED <<registered, count, jobs, polls, cur>>,
           shutdown' \in BOOLEAN, timedOut' \in BOOLEAN, RestTyped', ClosesOnlyWhenIdle'
    PROVE  WebInv'
<1> USE DEF AtMostCancelled, AtMostAside
<1>1. TypeOK /\ App \in Threads /\ App \notin Workers /\ Workers \subseteq Threads
  BY ThreadsAssumption DEF WebInv, Threads
<1>2. /\ Queued(jobs)' = Queued(jobs) /\ Queued(polls)' = Queued(polls) /\ Waiting' = Waiting
      /\ \A x : WorkersOn(x)' = WorkersOn(x)
      /\ Busy' = Busy
      /\ Queued(jobs) \subseteq Ids /\ Queued(polls) \subseteq Ids
  BY <1>1, Basics DEF Waiting, Queued, WorkersOn, Busy
<1>3. ASSUME NEW u \in Threads, at'[u] \in Carrying PROVE at'[u] = at[u]
  <2>1. CASE u = App
    BY <1>3, <2>1 DEF Carrying, Unsent, AppPoints
  <2>2. CASE u \in Workers
    BY <1>3, <2>2 DEF Carrying, Unsent
  <2> QED BY <2>1, <2>2 DEF Threads
<1>4. ASSUME NEW x \in Ids
      PROVE  /\ Sane(reqs[x]) => Sane(reqs'[x])
             /\ Fresh(reqs[x]) => Fresh(reqs'[x])
             /\ Sent(reqs[x]) => Sent(reqs'[x])
             /\ Ended(reqs[x]) => Ended(reqs'[x])
  BY DEF Sane, Fresh, Sent, Ended, GaveUp
<1>5. TypeOK'
  BY <1>1 DEF TypeOK, RestTyped
<1>6. PointsAgree'
  BY <1>1 DEF WebInv, PointsAgree
<1>7. OneAttempt'
  BY <1>2, <1>3 DEF WebInv, OneAttempt
<1>8. RequestsAgree'
  <2>1. ASSUME NEW u \in Threads
        PROVE  /\ at'[u] \in Unsent => Fresh(reqs'[cur[u]])
               /\ at'[u] = "sending" => Sent(reqs'[cur[u]])
               /\ at'[u] = "answer" => Ended(reqs'[cur[u]])
    <3>1. CASE at'[u] \in Carrying
      <4>1. at'[u] = at[u] /\ cur[u] \in Ids
        BY <1>3, <3>1, CarrierHasRequest
      <4> QED BY <1>4, <4>1 DEF WebInv, RequestsAgree
    <3>2. CASE at'[u] \notin Carrying
      BY <3>2 DEF Carrying
    <3> QED BY <3>1, <3>2
  <2> QED BY <1>2, <1>4, <2>1 DEF WebInv, RequestsAgree
<1>9. RefsSuffice'
  BY <1>2 DEF WebInv, RefsSuffice
<1>10. RegisteredAreHeld'
  <2>1. \A x : \A v \in WorkersOn(x) :
           at[v] \in Carrying \cup {"destroy"} => at'[v] \in Carrying \cup {"destroy"}
    BY DEF WorkersOn, Carrying, Unsent
  <2> QED BY <1>2, <2>1 DEF WebInv, RegisteredAreHeld
<1>11. CountSuffices'
  BY <1>2 DEF WebInv, CountSuffices
<1> QED BY <1>5, <1>6, <1>7, <1>8, <1>9, <1>10, <1>11 DEF WebInv

----------------------------------------------------------------------------
(***************************************************************************)
(* Every step keeps the invariant.                                         *)
(***************************************************************************)

\* What a worker does.
LEMMA WorkerStep ==
    ASSUME WebInv, NEW w \in Workers, WorkerNext(w)
    PROVE  WebInv'
<1>0. w \in Threads /\ w # App /\ TypeOK
  BY ThreadsAssumption DEF Threads, WebInv
<1>1. ASSUME at[w] \in Unsent, NEW p \in Unsent, Goto(w, p),
             UNCHANGED <<requests, queues, closing, cur>>, RestTyped'
      PROVE  WebInv'
  <2>1. at[w] \in Carrying /\ p \in Carrying /\ p # "sending" /\ p # "answer"
    BY <1>1 DEF Carrying, Unsent
  <2>2. /\ cur[w] \in Ids /\ reqs[cur[w]] \in Request
        /\ Fresh(reqs[cur[w]]) /\ Sane(reqs[cur[w]])
    BY <1>0, <1>1, <2>1, CarrierHasRequest DEF WebInv, RequestsAgree
  <2>3. reqs' = [reqs EXCEPT ![cur[w]] = reqs[cur[w]]]
    <3>1. reqs = [reqs EXCEPT ![cur[w]] = reqs[cur[w]]]
      BY <1>0, LenProperties DEF TypeOK
    <3> QED BY <1>1, <3>1 DEF requests
  <2> QED BY <1>0, <1>1, <2>1, <2>2, <2>3, Carried DEF requests, queues
<1>2. RestTyped
  BY <1>0 DEF TypeOK, RestTyped
<1>3. CASE StartRefresh(w)
  <2>1. CASE login = "LoggedIn"
    BY <1>0, <1>3, <2>1, RefreshStep
  <2>2. CASE login # "LoggedIn"
    <3>1. /\ at[w] \in Unsent /\ "add" \in Unsent /\ Goto(w, "add")
          /\ UNCHANGED <<requests, queues, closing, cur>>
      BY <1>3, <2>2 DEF StartRefresh, RefreshToken, Holds, Unsent, queues
    <3>2. RestTyped'
      BY <1>2, <1>3 DEF StartRefresh, RestTyped, token
    <3> QED BY <1>1, <3>1, <3>2
  <2> QED BY <2>1, <2>2
<1>4. CASE AddRequest(w)
  BY <1>0, <1>4, AddStep
<1>5. CASE TakeJob(w)
  BY <1>5, TakeStep
<1>6. CASE Exit(w)
  <2>1. /\ \A u \in Threads : at'[u] = IF u = w THEN "exited" ELSE at[u]
        /\ at' \in [Threads -> WorkerPoints \cup AppPoints]
        /\ at'[App] \in AppPoints /\ \A v \in Workers : at'[v] \in WorkerPoints
        /\ Workers \subseteq Threads /\ App \in Threads
    BY <1>0, <1>6, Went DEF Exit, WorkerPoints
  <2>2. /\ UNCHANGED <<reqs, registered, count, jobs, polls, cur, shutdown, timedOut>>
        /\ Ids' = Ids /\ at[w] = "idle"
    BY <1>6 DEF Exit, Holds, requests, queues, closing, Ids
  <2>3. RestTyped'
    BY <1>2, <1>6 DEF Exit, RestTyped, flags, token
  <2>4. ClosesOnlyWhenIdle'
    BY <1>0, <2>1, <2>2 DEF WebInv, ClosesOnlyWhenIdle, PointsAgree
  <2>5. ASSUME NEW v \in Workers
        PROVE  at'[v] = at[v] \/ (at[v] = "idle" /\ at'[v] = "exited")
    <3>1. v \in Threads
      BY <2>1
    <3>2. CASE v = w
      BY <2>1, <2>2, <3>1, <3>2
    <3>3. CASE v # w
      BY <2>1, <3>1, <3>3
    <3> QED BY <3>2, <3>3
  <2>6. shutdown' \in BOOLEAN /\ timedOut' \in BOOLEAN
    BY <1>0, <2>2 DEF TypeOK
  <2>7. at'[App] = at[App]
    BY <1>0, <2>1
  <2>8. AtMostAside
    BY <2>1, <2>5, <2>7 DEF AtMostAside
  <2>9. AtMostCancelled
    BY <1>0, <2>2, NoneCancelled
  <2> QED BY <2>2, <2>3, <2>4, <2>6, <2>8, <2>9, Aside
<1>7. CASE PassGate(w)
  <2>1. /\ at[w] \in Unsent /\ "mark" \in Unsent /\ Goto(w, "mark")
        /\ UNCHANGED <<requests, queues, closing, cur>>
    BY <1>7 DEF PassGate, Holds, Unsent
  <2>2. RestTyped'
    BY <1>2, <1>7 DEF PassGate, RestTyped, flags, token
  <2> QED BY <1>1, <2>1, <2>2
<1>8. CASE CheckRefresh(w)
  <2>1. at[w] \in Unsent /\ UNCHANGED <<requests, queues, closing, cur>>
    BY <1>8 DEF CheckRefresh, Holds, Unsent
  <2>2. PICK p \in Unsent : Goto(w, p)
    BY <1>8 DEF CheckRefresh, Unsent
  <2>3. RestTyped'
    BY <1>2, <1>8 DEF CheckRefresh, RestTyped, flags, token
  <2> QED BY <1>1, <2>1, <2>2, <2>3
<1>9. CASE MarkStarted(w)
  <2>1. /\ at[w] \in Unsent /\ "send" \in Unsent /\ Goto(w, "send")
        /\ UNCHANGED <<requests, queues, closing, cur>>
    BY <1>9 DEF MarkStarted, Holds, Unsent
  <2>2. RestTyped'
    BY <1>2, <1>9 DEF MarkStarted, RestTyped, token
  <2> QED BY <1>1, <2>1, <2>2
<1>10. CASE BeginSend(w) \/ EndSend(w)
  BY <1>10, SendingStep
<1>11. CASE FinishRetried(w)
  <2>1. at[w] = "retried" /\ UNCHANGED <<reqs, queues, flags, token, closing, load>>
    BY <1>11 DEF FinishRetried, Holds
  <2>2. \/ Unregistered(cur[w]) /\ Goto(w, "release") /\ cur' = cur
        \/ /\ Goto(w, "idle") /\ cur' = [cur EXCEPT ![w] = 0]
           /\ UNCHANGED <<registered, count>>
    BY <1>11 DEF FinishRetried
  <2>3. CASE Unregistered(cur[w]) /\ Goto(w, "release") /\ cur' = cur
    BY <2>1, <2>3, UnregisterStep
  <2>4. CASE Goto(w, "idle") /\ cur' = [cur EXCEPT ![w] = 0] /\ UNCHANGED <<registered, count>>
    <3>1. polls' = polls /\ jobs' = jobs
      BY <2>1 DEF queues
    <3>2. PICK r : r = cur[w]
      OBVIOUS
    <3> QED BY <2>1, <2>4, <3>1, <3>2, LeaveStep
  <2> QED BY <2>2, <2>3, <2>4
<1>12. CASE Answer(w)
  BY <1>12, AnswerStep
<1>13. CASE DestroyRequest(w)
  BY <1>13, UnregisterStep DEF DestroyRequest, Holds
<1>14. CASE DecRefCount(w)
  BY <1>14, DecRefStep
<1> QED BY <1>3, <1>4, <1>5, <1>6, <1>7, <1>8, <1>9, <1>10, <1>11, <1>12, <1>13, <1>14
        DEF WorkerNext

\* What the application's thread does once it is inside a call.
LEMMA AppStep ==
    ASSUME WebInv, AppContinues
    PROVE  WebInv'
<1>0. App \in Threads /\ TypeOK /\ RestTyped /\ App \notin Workers
  BY ThreadsAssumption DEF Threads, WebInv, TypeOK, RestTyped
<1>1. CASE StartRefresh(App) /\ login = "LoggedIn"
  BY <1>0, <1>1, RefreshStep
<1>2. CASE StartRefresh(App) /\ login # "LoggedIn"
  <2>1. /\ at[App] \in Carrying /\ "add" \in Carrying /\ at[App] \in Unsent
        /\ Goto(App, "add") /\ UNCHANGED <<requests, queues, closing, cur>>
    BY <1>2 DEF StartRefresh, RefreshToken, Holds, Carrying, Unsent, queues
  <2>2. RestTyped'
    BY <1>0, <1>2 DEF StartRefresh, RestTyped, token
  <2>3. /\ cur[App] \in Ids /\ reqs[cur[App]] \in Request
        /\ Fresh(reqs[cur[App]]) /\ Sane(reqs[cur[App]])
    BY <1>0, <2>1, CarrierHasRequest DEF WebInv, RequestsAgree
  <2>4. reqs' = [reqs EXCEPT ![cur[App]] = reqs[cur[App]]]
    <3>1. reqs = [reqs EXCEPT ![cur[App]] = reqs[cur[App]]]
      BY <1>0, LenProperties DEF TypeOK
    <3> QED BY <2>1, <3>1 DEF requests
  <2> QED BY <1>0, <2>1, <2>2, <2>3, <2>4, Carried DEF requests, queues
<1>3. CASE AddRequest(App)
  BY <1>0, <1>3, AddStep
<1>4. CASE Drain
  BY <1>4, PollStep DEF Drain, Holds
<1>5. ASSUME NEW p \in AppPoints, p \notin {"refresh", "add"}, at[App] \notin {"refresh", "add"},
             Goto(App, p), UNCHANGED <<requests, queues, flags, token, cur, load>>,
             shutdown' \in BOOLEAN, timedOut' \in BOOLEAN,
             p \in {"joining", "closed"} /\ ~timedOut' =>
               /\ jobs = <<>> /\ polls = <<>>
               /\ \A w \in Workers : cur[w] # 0 => at[w] = "release"
      PROVE  WebInv'
  <2>1. /\ \A u \in Threads : at'[u] = IF u = App THEN p ELSE at[u]
        /\ at' \in [Threads -> WorkerPoints \cup AppPoints]
        /\ at'[App] \in AppPoints /\ \A v \in Workers : at'[v] \in WorkerPoints
        /\ Workers \subseteq Threads
    BY <1>0, <1>5, Went
  <2>2. UNCHANGED <<reqs, registered, count, jobs, polls, cur>> /\ Ids' = Ids
    BY <1>5 DEF requests, queues, Ids
  <2>3. RestTyped'
    BY <1>0, <1>5 DEF RestTyped, flags, token
  <2>4. ClosesOnlyWhenIdle'
    BY <1>0, <1>5, <2>1, <2>2 DEF ClosesOnlyWhenIdle
  <2>5. \A v \in Workers : at'[v] = at[v]
    BY <1>0, <2>1
  <2>6. at'[App] = p
    BY <1>0, <2>1
  <2>7. AtMostAside
    BY <1>5, <2>1, <2>5, <2>6 DEF AtMostAside
  <2>8. AtMostCancelled
    BY <1>0, <2>2, NoneCancelled
  <2> QED BY <1>5, <2>2, <2>3, <2>4, <2>7, <2>8, Aside
<1>6. CASE EndWait
  <2>1. /\ at[App] = "waiting" /\ Goto(App, "draining")
        /\ UNCHANGED <<requests, queues, flags, token, cur, load>>
        /\ shutdown' \in BOOLEAN /\ timedOut' \in BOOLEAN
    BY <1>0, <1>6 DEF EndWait, Holds, TypeOK
  <2> QED BY <1>5, <2>1 DEF AppPoints
<1>7. CASE EndDrain
  <2>1. /\ at[App] = "draining" /\ Goto(App, "joining")
        /\ UNCHANGED <<requests, queues, flags, token, cur, load>>
        /\ shutdown' \in BOOLEAN /\ timedOut' \in BOOLEAN
        /\ timedOut' = (timedOut \/ count > 0)
    BY <1>0, <1>7 DEF EndDrain, Holds, TypeOK
  <2>2. ASSUME ~timedOut'
        PROVE  /\ jobs = <<>> /\ polls = <<>>
               /\ \A w \in Workers : cur[w] # 0 => at[w] = "release"
    <3>1. /\ Len(jobs) \in Nat /\ Len(polls) \in Nat /\ Cardinality(Busy) \in Nat
          /\ IsFiniteSet(Busy) /\ count \in Nat
      BY <1>0, Basics DEF TypeOK
    <3>2. Len(jobs) = 0 /\ Len(polls) = 0 /\ Cardinality(Busy) = 0
      <4>1. ~(count > 0)
        BY <2>1, <2>2
      <4>2. count >= Len(jobs) + Len(polls) + Cardinality(Busy)
        BY DEF WebInv, CountSuffices
      <4> QED BY <3>1, <4>1, <4>2
    <3>3. Busy = {}
      BY <3>1, <3>2, FS_EmptySet
    <3>4. jobs = <<>> /\ polls = <<>>
      BY <1>0, <3>2, EmptySeq DEF TypeOK
    <3> QED BY <3>3, <3>4 DEF Busy, WebInv, PointsAgree
  <2> QED BY <1>5, <2>1, <2>2 DEF AppPoints
<1>8. CASE Join
  <2>1. /\ at[App] = "joining" /\ Goto(App, "closed")
        /\ UNCHANGED <<requests, queues, flags, token, cur, load>>
        /\ shutdown' \in BOOLEAN /\ timedOut' \in BOOLEAN /\ timedOut' = timedOut
    BY <1>0, <1>8 DEF Join, Holds, TypeOK, closing
  <2>2. ~timedOut => /\ jobs = <<>> /\ polls = <<>>
                     /\ \A w \in Workers : cur[w] # 0 => at[w] = "release"
    BY <2>1 DEF WebInv, ClosesOnlyWhenIdle
  <2> QED BY <1>5, <2>1, <2>2 DEF AppPoints
<1> QED BY <1>1, <1>2, <1>3, <1>4, <1>6, <1>7, <1>8 DEF AppContinues

\* Every step keeps the invariant.
LEMMA WebStep == WebInv /\ [Next]_vars => WebInv'
<1> SUFFICES ASSUME WebInv, [Next]_vars PROVE WebInv'
  OBVIOUS
<1>0. TypeOK /\ RestTyped /\ App \in Threads /\ App \notin Workers /\ Workers \subseteq Threads
  BY ThreadsAssumption DEF WebInv, TypeOK, RestTyped, Threads
<1>1. ASSUME NEW mode \in Modes, SendRequest(mode) PROVE WebInv'
  BY <1>1, SendStep
<1>2. CASE ProcessResponses
  BY <1>2, PollStep DEF ProcessResponses, Holds
<1>3. ASSUME UNCHANGED <<reqs, registered, count, queues, closing, at, cur>>, RestTyped'
      PROVE  WebInv'
  <2>1. /\ UNCHANGED <<jobs, polls, shutdown, timedOut>> /\ Ids' = Ids
    BY <1>3 DEF queues, closing, Ids
  <2>2. ClosesOnlyWhenIdle'
    BY <1>3, <2>1 DEF WebInv, ClosesOnlyWhenIdle
  <2>3. /\ reqs' \in Seq(Request) /\ shutdown' \in BOOLEAN /\ timedOut' \in BOOLEAN
        /\ at' \in [Threads -> WorkerPoints \cup AppPoints]
        /\ at'[App] \in AppPoints /\ \A w \in Workers : at'[w] \in WorkerPoints
    BY <1>0, <1>3, <2>1 DEF TypeOK
  <2>4. AtMostAside
    BY <1>3, <2>3 DEF AtMostAside
  <2>5. AtMostCancelled
    BY <1>0, <1>3, NoneCancelled
  <2> QED BY <1>3, <2>1, <2>2, <2>3, <2>4, <2>5, Aside
<1>4. CASE TokenNearsExpiry \/ TrySetLogoutRequested \/ UNCHANGED vars
  <2>1. UNCHANGED <<reqs, registered, count, queues, closing, at, cur>>
    BY <1>4 DEF TokenNearsExpiry, TrySetLogoutRequested, vars, requests
  <2>2. RestTyped'
    <3>1. CASE TokenNearsExpiry
      BY <1>0, <3>1, MaxLoadAssumption DEF TokenNearsExpiry, RestTyped, flags
    <3>2. CASE TrySetLogoutRequested
      BY <1>0, <3>2 DEF TrySetLogoutRequested, RestTyped, flags
    <3>3. CASE UNCHANGED vars
      BY <1>0, <3>3 DEF vars, RestTyped, flags, token
    <3> QED BY <1>4, <3>1, <3>2, <3>3
  <2> QED BY <1>3, <2>1, <2>2
<1>5. ASSUME NEW r \in Ids, Cancel(r) PROVE WebInv'
  <2> DEFINE q == [reqs[r] EXCEPT !.cancelled = TRUE]
  <2>1. reqs[r] \in Request
    BY <1>0, Basics
  <2>2. /\ q \in Request
        /\ q.refs = reqs[r].refs /\ q.answers = reqs[r].answers
        /\ q.sends = reqs[r].sends /\ q.retries = reqs[r].retries
        /\ q.code = reqs[r].code /\ q.autoRetry = reqs[r].autoRetry /\ q.cancelled
    BY <2>1 DEF Request
  <2>3. reqs' = [reqs EXCEPT ![r] = q]
    BY <1>5 DEF Cancel
  <2> HIDE DEF q
  <2>4. /\ reqs' \in Seq(Request) /\ Ids' = Ids
        /\ \A x \in Ids : reqs'[x] = IF x = r THEN q ELSE reqs[x]
    BY <1>0, <2>2, <2>3, Revalued
  <2>5. UNCHANGED <<registered, count, jobs, polls, shutdown, timedOut, at, cur>>
    BY <1>5 DEF Cancel, queues, closing
  <2>6. RestTyped'
    BY <1>0, <1>5 DEF Cancel, RestTyped, flags, token
  <2>7. ClosesOnlyWhenIdle'
    BY <2>5 DEF WebInv, ClosesOnlyWhenIdle
  <2>8. /\ shutdown' \in BOOLEAN /\ timedOut' \in BOOLEAN
        /\ at' \in [Threads -> WorkerPoints \cup AppPoints]
        /\ at'[App] \in AppPoints /\ \A w \in Workers : at'[w] \in WorkerPoints
    BY <1>0, <2>5 DEF TypeOK
  <2>9. \A x \in Ids :
           /\ reqs'[x].refs = reqs[x].refs /\ reqs'[x].answers = reqs[x].answers
           /\ reqs'[x].sends = reqs[x].sends /\ reqs'[x].retries = reqs[x].retries
           /\ reqs'[x].code = reqs[x].code /\ reqs'[x].autoRetry = reqs[x].autoRetry
           /\ reqs[x].cancelled => reqs'[x].cancelled
    BY <2>2, <2>4
  <2>10. AtMostCancelled
    BY <2>4, <2>9 DEF AtMostCancelled
  <2>11. AtMostAside
    BY <2>5, <2>8 DEF AtMostAside
  <2> QED BY <2>5, <2>6, <2>7, <2>8, <2>10, <2>11, Aside
<1>6. CASE BeginDestruction
  <2>1. /\ Len(reqs) \in Nat /\ Ids = 1 .. Len(reqs) /\ \A x \in Ids : reqs[x] \in Request
    BY <1>0, Basics
  <2>2. reqs' = [x \in Ids |-> [reqs[x] EXCEPT !.cancelled = reqs[x].cancelled \/ x \in registered]]
    BY <1>6 DEF BeginDestruction
  <2>3. \A x \in Ids :
           /\ reqs'[x] \in Request
           /\ reqs'[x].refs = reqs[x].refs /\ reqs'[x].answers = reqs[x].answers
           /\ reqs'[x].sends = reqs[x].sends /\ reqs'[x].retries = reqs[x].retries
           /\ reqs'[x].code = reqs[x].code /\ reqs'[x].autoRetry = reqs[x].autoRetry
           /\ reqs[x].cancelled => reqs'[x].cancelled
    <3> SUFFICES ASSUME NEW x \in Ids
                 PROVE  /\ reqs'[x] \in Request
                        /\ reqs'[x].refs = reqs[x].refs /\ reqs'[x].answers = reqs[x].answers
                        /\ reqs'[x].sends = reqs[x].sends /\ reqs'[x].retries = reqs[x].retries
                        /\ reqs'[x].code = reqs[x].code
                        /\ reqs'[x].autoRetry = reqs[x].autoRetry
                        /\ reqs[x].cancelled => reqs'[x].cancelled
      OBVIOUS
    <3>1. reqs[x] \in Request
      BY <2>1
    <3>2. PICK v : v = (reqs[x].cancelled \/ x \in registered)
      OBVIOUS
    <3>3. v \in BOOLEAN /\ (reqs[x].cancelled => v)
      BY <3>2
    <3>4. reqs'[x] = [reqs[x] EXCEPT !.cancelled = v]
      BY <2>2, <3>2
    <3> QED BY <3>1, <3>3, <3>4 DEF Request
  <2>4. reqs' \in Seq(Request) /\ Ids' = Ids
    <3>1. reqs' \in [1 .. Len(reqs) -> Request]
      BY <2>1, <2>2, <2>3
    <3> QED BY <2>1, <2>2, <3>1, SeqDef DEF Ids
  <2>5. /\ at[App] = "app" /\ Goto(App, "waiting")
        /\ UNCHANGED <<registered, count, jobs, polls, shutdown, timedOut, cur>>
    BY <1>6 DEF BeginDestruction, Holds, queues, closing
  <2>6. /\ \A u \in Threads : at'[u] = IF u = App THEN "waiting" ELSE at[u]
        /\ at' \in [Threads -> WorkerPoints \cup AppPoints]
        /\ at'[App] \in AppPoints /\ \A v \in Workers : at'[v] \in WorkerPoints
    BY <1>0, <2>5, Went DEF AppPoints
  <2>7. RestTyped'
    BY <1>0, <1>6 DEF BeginDestruction, RestTyped, flags, token
  <2>8. ClosesOnlyWhenIdle' /\ shutdown' \in BOOLEAN /\ timedOut' \in BOOLEAN
    BY <1>0, <2>5, <2>6 DEF ClosesOnlyWhenIdle, TypeOK
  <2>9. at'[App] = "waiting" /\ \A w \in Workers : at'[w] = at[w]
    BY <1>0, <2>6
  <2>10. AtMostCancelled
    BY <2>3, <2>4 DEF AtMostCancelled
  <2>11. AtMostAside
    BY <2>5, <2>6, <2>9 DEF AtMostAside
  <2> QED BY <2>5, <2>7, <2>8, <2>10, <2>11, Aside
<1>7. CASE AppContinues
  BY <1>7, AppStep
<1>8. ASSUME NEW w \in Workers, WorkerNext(w) PROVE WebInv'
  BY <1>8, WorkerStep
<1> QED BY <1>1, <1>2, <1>4, <1>5, <1>6, <1>7, <1>8 DEF Next

\* The invariant holds when the client is made.
LEMMA WebInit == Init => WebInv
<1> SUFFICES ASSUME Init PROVE WebInv
  OBVIOUS
<1>1. /\ reqs = <<>> /\ jobs = <<>> /\ polls = <<>> /\ registered = {} /\ count = 0
      /\ Ids = {} /\ Queued(jobs) = {} /\ Queued(polls) = {} /\ Waiting = {}
  BY DEF Init, Ids, Queued, Waiting
<1>2. /\ \A t \in Threads : at[t] = (IF t = App THEN "app" ELSE "idle") /\ cur[t] = 0
      /\ App \in Threads /\ Workers \subseteq Threads /\ App \notin Workers
  BY ThreadsAssumption DEF Init, Threads
<1>3. TypeOK
  <2>1. reqs \in Seq(Request) /\ jobs \in Seq(Ids) /\ polls \in Seq(Ids)
    BY <1>1, EmptySeq
  <2>2. /\ at \in [Threads -> WorkerPoints \cup AppPoints]
        /\ at[App] \in AppPoints /\ \A w \in Workers : at[w] \in WorkerPoints
    BY <1>2 DEF Init, WorkerPoints, AppPoints
  <2>3. cur \in [Threads -> Ids \cup {0}]
    BY DEF Init
  <2>4. registered \subseteq Ids /\ count \in Nat /\ load \in 0 .. MaxLoad
    BY <1>1, MaxLoadAssumption DEF Init
  <2>5. /\ needed \in BOOLEAN /\ started \in BOOLEAN /\ expired \in BOOLEAN
        /\ shutdown \in BOOLEAN /\ timedOut \in BOOLEAN
        /\ login \in {"LoggedIn", "LogoutRequested", "Error"}
    BY DEF Init
  <2> QED BY <2>1, <2>2, <2>3, <2>4, <2>5 DEF TypeOK
<1>4. PointsAgree /\ OneAttempt /\ RequestsAgree
  <2>1. DOMAIN jobs = {} /\ DOMAIN polls = {}
    BY <1>1
  <2>2. \A t \in Threads : at[t] \notin Carrying
    BY <1>2 DEF Carrying, Unsent
  <2>3. PointsAgree
    BY <1>2 DEF PointsAgree
  <2>4. OneAttempt
    BY <1>1, <2>1, <2>2 DEF OneAttempt, NoRepeats
  <2>5. RequestsAgree
    BY <1>1, <2>2 DEF RequestsAgree, Carrying
  <2> QED BY <2>3, <2>4, <2>5
<1>5. RefsSuffice /\ RegisteredAreHeld /\ ClosesOnlyWhenIdle
  BY <1>1, <1>2 DEF RefsSuffice, RegisteredAreHeld, ClosesOnlyWhenIdle
<1>6. CountSuffices
  <2>1. Busy = {}
    BY <1>2 DEF Busy
  <2>2. Cardinality(Busy) = 0 /\ Len(jobs) = 0 /\ Len(polls) = 0
    BY <1>1, <2>1, FS_EmptySet, EmptySeq
  <2> QED BY <1>1, <2>2 DEF CountSuffices
<1> QED BY <1>3, <1>4, <1>5, <1>6 DEF WebInv

\* The invariant holds of every behaviour of the web client.
THEOREM WebInvariant == Spec => []WebInv
  BY WebInit, WebStep, PTL DEF Spec

\* The web client stays well formed: RequestCount does not pass below zero,
\* and threads and queues name requests that were made.
THEOREM WebIsTyped == Spec => []TypeOK
<1>1. WebInv => TypeOK
  BY DEF WebInv
<1> QED BY <1>1, WebInvariant, PTL

\* No request is called back twice, whatever worker, retry, poll or destructor
\* gets at it, for any number of workers and retries.
THEOREM AnsweredOnce == Spec => []AnsweredAtMostOnce
<1>1. WebInv => AnsweredAtMostOnce
  BY DEF WebInv, RequestsAgree, Sane, AnsweredAtMostOnce
<1> QED BY <1>1, WebInvariant, PTL

\* No thread, queue or set of the client holds a request that was deleted.
THEOREM HeldStayAlive == Spec => []HeldRequestsAreAlive
<1>1. WebInv => HeldRequestsAreAlive
  <2> SUFFICES ASSUME WebInv, NEW r \in Held \cup registered PROVE reqs[r].refs > 0
    BY DEF HeldRequestsAreAlive
  <2>1. r \in Waiting \/ \E w \in Workers : cur[w] = r /\ r # 0
    <3>1. CASE r \in Held
      BY <3>1 DEF Held, Waiting
    <3>2. CASE r \in registered
      BY <3>2, Basics DEF WebInv, RegisteredAreHeld, WorkersOn, TypeOK
    <3> QED BY <3>1, <3>2
  <2>2. /\ \A x \in Ids : reqs[x].refs \in Nat
        /\ \A x : Cardinality(WorkersOn(x)) \in Nat /\ IsFiniteSet(WorkersOn(x))
        /\ Waiting \subseteq Ids
        /\ \A t \in Threads : cur[t] \in Ids \cup {0}
    BY Basics DEF WebInv, Request, Waiting
  <2>3. CASE r \in Waiting
    BY <2>2, <2>3 DEF WebInv, RefsSuffice
  <2>4. ASSUME NEW w \in Workers, cur[w] = r, r # 0 PROVE reqs[r].refs > 0
    <3>1. r \in Ids /\ w \in WorkersOn(r)
      BY <2>2, <2>4 DEF WorkersOn, Threads
    <3>2. Cardinality(WorkersOn(r)) # 0
      BY <2>2, <3>1, FS_EmptySet
    <3> QED BY <2>2, <3>1, <3>2 DEF WebInv, RefsSuffice
  <2> QED BY <2>1, <2>3, <2>4
<1> QED BY <1>1, WebInvariant, PTL

\* Unless a wait of the destructor timed out, RequestCount was right: nothing
\* is queued, running or unpolled when the poll queue and the pool are closed.
THEOREM ClosesIdle == Spec => []ClosesOnlyWhenIdle
<1>1. WebInv => ClosesOnlyWhenIdle
  BY DEF WebInv
<1> QED BY <1>1, WebInvariant, PTL

\* Only a request that was sent MaxRetries + 1 times, or cancelled, is reported
\* as failed with a busy code, and none is sent more often.
THEOREM RetriesAreUsedUp == Spec => []GivesUpOnlyAfterRetries
<1>1. WebInv => GivesUpOnlyAfterRetries
  <2> SUFFICES ASSUME WebInv, NEW r \in Ids
               PROVE  /\ reqs[r].sends <= MaxRetries + 1
                      /\ /\ reqs[r].answers > 0 \/ r \in Queued(polls)
                         /\ reqs[r].code = "busy" /\ ~reqs[r].cancelled
                         => reqs[r].sends = MaxRetries + 1
    BY DEF GivesUpOnlyAfterRetries
  <2>1. /\ reqs[r].sends \in Nat /\ reqs[r].retries \in Nat /\ reqs[r].answers \in Nat
        /\ Sane(reqs[r])
        /\ r \in Queued(polls) => Ended(reqs[r])
    BY Basics DEF WebInv, RequestsAgree, Request
  <2> QED BY <2>1, MaxRetriesAssumption DEF Sane, Ended, GaveUp
<1> QED BY <1>1, WebInvariant, PTL
=============================================================================
