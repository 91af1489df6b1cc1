---------------------------- MODULE WebRequests ----------------------------
(***************************************************************************)
(* The web client every REST call of the library goes through: requests    *)
(* queued for a pool of worker threads, automatic retries, responses       *)
(* called back on the worker or queued to be polled, the refresh of an     *)
(* access token about to expire, cancellation, and the destructor.         *)
(*                                                                         *)
(* One application thread sends, polls, cancels and destroys; the workers  *)
(* run the jobs.  A step is what a thread does between two accesses to     *)
(* state another thread writes.  The HTTP service is external: it answers  *)
(* a request with success, with an error worth retrying or with another    *)
(* error.                                                                  *)
(***************************************************************************)
EXTENDS Naturals, Sequences, FiniteSets

CONSTANTS
    Workers,      \* the threads of ThreadPool (CSP_MAX_CONCURRENT_REQUESTS)
    App,          \* the application's thread
    MaxRetries,   \* DefaultNumRequestRetries
    MaxLoad       \* bound on the calls sent plus the expiries of the access token

ASSUME ThreadsAssumption == App \notin Workers /\ IsFiniteSet(Workers)
ASSUME MaxRetriesAssumption == MaxRetries \in Nat
ASSUME MaxLoadAssumption == MaxLoad \in Nat

Threads == Workers \cup {App}

(***************************************************************************)
(* Response codes: init is ResponseInit, busy the codes that               *)
(* ResultCodeValidForRetry accepts (408, 429, 5xx), refused any other      *)
(* failure.  A cancelled request is given 408, a busy code.                *)
(***************************************************************************)
Codes == {"init", "ok", "busy", "refused"}

\* async: called back on the worker; poll: AsyncResponse is false; none: no callback
Modes == {"async", "poll", "none"}

(***************************************************************************)
(* Where a thread is.                                                      *)
(*   refresh, add           in AddRequest, for SendRequest or for Retry    *)
(*   idle                   a worker waiting for a job                     *)
(*   gate, mark, start      in the job, before it sends                    *)
(*   send ... destroy       in ProcessRequest                              *)
(*   release                in DestroyRequest, before DecRefCount          *)
(*   waiting, draining, joining                in ~WebClient               *)
(***************************************************************************)
WorkerPoints == {"idle", "gate", "mark", "start", "send", "sending",
                 "refresh", "add", "retried", "answer", "destroy", "release", "exited"}
AppPoints == {"app", "refresh", "add", "waiting", "draining", "joining", "closed"}

VARIABLES
    reqs,         \* every HttpRequest made so far, see Request
    jobs,         \* ThreadPool::Jobs
    polls,        \* PollRequests
    registered,   \* Requests
    count,        \* RequestCount
    needed,       \* RefreshNeeded
    started,      \* RefreshStarted
    expired,      \* LoginState::RefreshNeeded()
    login,        \* LoginState::Data->State
    shutdown,     \* ShutdownFlag
    at,           \* at[t]: where thread t is
    cur,          \* cur[t]: the request thread t works on, 0 for none
    load,         \* how many calls were sent and how often the token neared its expiry
    timedOut      \* history: a wait of the destructor gave up

requests == <<reqs, registered, count>>
queues == <<jobs, polls>>
flags == <<needed, started>>
token == <<expired, login>>
closing == <<shutdown, timedOut>>
vars == <<requests, queues, flags, token, closing, at, cur, load>>

\* sends and answers are history: attempts made, and calls of OnHttpResponse
Request ==
    [kind : {"call", "refresh"}, mode : Modes, code : Codes, refs : Nat, retries : Nat,
     cancelled : BOOLEAN, autoRetry : BOOLEAN, sends : Nat, answers : Nat]

Ids == DOMAIN reqs

TypeOK ==
    /\ reqs \in Seq(Request)
    /\ registered \subseteq Ids
    /\ jobs \in Seq(Ids) /\ polls \in Seq(Ids)
    /\ count \in Nat
    /\ needed \in BOOLEAN /\ started \in BOOLEAN
    /\ expired \in BOOLEAN /\ login \in {"LoggedIn", "LogoutRequested", "Error"}
    /\ shutdown \in BOOLEAN /\ timedOut \in BOOLEAN
    /\ at \in [Threads -> WorkerPoints \cup AppPoints]
    /\ at[App] \in AppPoints /\ \A w \in Workers : at[w] \in WorkerPoints
    /\ cur \in [Threads -> Ids \cup {0}]
    /\ load \in 0 .. MaxLoad

Init ==
    /\ reqs = <<>> /\ registered = {} /\ count = 0
    /\ jobs = <<>> /\ polls = <<>>
    /\ needed = FALSE /\ started = FALSE
    /\ expired = FALSE /\ login = "LoggedIn" /\ load = 0
    /\ shutdown = FALSE /\ timedOut = FALSE
    /\ at = [t \in Threads |-> IF t = App THEN "app" ELSE "idle"]
    /\ cur = [t \in Threads |-> 0]

----------------------------------------------------------------------------
(* Helpers *)

Goto(t, point) == at' = [at EXCEPT ![t] = point]

Holds(t, point) == at[t] = point

\* HttpRequest::HttpRequest: no reference yet
NewRequest(kind, mode) ==
    [kind |-> kind, mode |-> mode, code |-> "init", refs |-> 0, retries |-> 0,
     cancelled |-> FALSE, autoRetry |-> TRUE, sends |-> 0, answers |-> 0]

\* mutant: a retry is queued without being counted again
EnqueuedUncounted(rs, r) ==
    /\ reqs' = [rs EXCEPT ![r].refs = @ + 1]
    /\ registered' = registered \cup {r}
    /\ count' = IF rs[r].refs = 0 THEN count + 1 ELSE count
    /\ jobs' = Append(jobs, r)

\* mutant: a retry takes no reference
EnqueuedUnreferenced(rs, r) ==
    /\ reqs' = [rs EXCEPT ![r].refs = IF @ = 0 THEN 1 ELSE @]
    /\ registered' = registered \cup {r}
    /\ count' = count + 1
    /\ jobs' = Append(jobs, r)

\* the request is registered, counted and referenced before its job is queued
Enqueued(rs, r) ==
    /\ reqs' = [rs EXCEPT ![r].refs = @ + 1]
    /\ registered' = registered \cup {r}
    /\ count' = count + 1
    /\ jobs' = Append(jobs, r)

\* DestroyRequest up to the release of the reference
Unregistered(r) ==
    /\ registered' = registered \ {r}
    /\ count' = count - 1

\* the end of DestroyRequest, on the requests rs: the last reference deletes the request,
\* of which only the history is kept
Released(rs, r) ==
    reqs' = [rs EXCEPT ![r] =
               IF rs[r].refs = 1
               THEN [NewRequest(rs[r].kind, rs[r].mode) EXCEPT !.answers = rs[r].answers]
               ELSE [rs[r] EXCEPT !.refs = rs[r].refs - 1]]

----------------------------------------------------------------------------
(* AddRequest, on the application's thread or on a worker that retries *)

\* RefreshIfExpired up to its decision, which only reads: where AddRequest goes on
AfterExpiryCheck == IF ~needed /\ expired THEN "refresh" ELSE "add"

\* SendRequest makes the request and calls AddRequest
SendRequest(mode) ==
    /\ Holds(App, "app")
    /\ load < MaxLoad
    /\ load' = load + 1
    /\ reqs' = Append(reqs, NewRequest("call", mode))
    /\ cur' = [cur EXCEPT ![App] = Len(reqs) + 1]
    /\ Goto(App, AfterExpiryCheck)
    /\ UNCHANGED <<registered, count, queues, flags, token, closing>>

\* RefreshToken returns at once, calling nothing back, unless the user is logged in;
\* usersRefreshPost sends the request, whose own AddRequest finds RefreshNeeded set.
RefreshToken ==
    \/ /\ login = "LoggedIn"
       /\ Enqueued(Append(reqs, NewRequest("refresh", "async")), Len(reqs) + 1)
    \/ /\ login # "LoggedIn"
       /\ UNCHANGED <<requests, jobs>>

\* the rest of RefreshIfExpired
StartRefresh(t) ==
    /\ Holds(t, "refresh")
    /\ needed' = TRUE
    /\ RefreshToken
    /\ Goto(t, "add")
    /\ UNCHANGED <<polls, started, token, closing, cur, load>>

\* the rest of AddRequest
AddRequest(t) ==
    /\ Holds(t, "add")
    /\ Enqueued(reqs, cur[t])
    /\ Goto(t, IF t = App THEN "app" ELSE "retried")
    /\ cur' = [cur EXCEPT ![t] = IF t = App THEN 0 ELSE @]
    /\ UNCHANGED <<polls, flags, token, closing, load>>

----------------------------------------------------------------------------
(* The workers *)

\* Worker::operator(): the next job
TakeJob(w) ==
    /\ Holds(w, "idle")
    /\ jobs # <<>>
    /\ cur' = [cur EXCEPT ![w] = Head(jobs)]
    /\ jobs' = Tail(jobs)
    /\ Goto(w, "gate")
    /\ UNCHANGED <<requests, polls, flags, token, closing, load>>

\* mutant: the shutdown flag ends the worker whatever is queued
ExitAtOnce(w) ==
    /\ Holds(w, "idle")
    /\ shutdown
    /\ Goto(w, "exited")
    /\ UNCHANGED <<requests, queues, flags, token, closing, cur, load>>

\* Worker::operator(): no job is left and the pool is shut down
Exit(w) ==
    /\ Holds(w, "idle")
    /\ shutdown /\ jobs = <<>>
    /\ Goto(w, "exited")
    /\ UNCHANGED <<requests, queues, flags, token, closing, cur, load>>

\* the job spins while RefreshStarted
PassGate(w) ==
    /\ Holds(w, "gate")
    /\ ~started
    /\ Goto(w, "mark")
    /\ UNCHANGED <<requests, queues, flags, token, closing, cur, load>>

\* if (RefreshNeeded && !RefreshStarted), whichever request the job carries
CheckRefresh(w) ==
    /\ Holds(w, "mark")
    /\ Goto(w, IF needed /\ ~started THEN "start" ELSE "send")
    /\ UNCHANGED <<requests, queues, flags, token, closing, cur, load>>

MarkStarted(w) ==
    /\ Holds(w, "start")
    /\ started' = TRUE
    /\ Goto(w, "send")
    /\ UNCHANGED <<requests, queues, needed, token, closing, cur, load>>

\* mutant: one retry too many
CheckForAutoRetryOffByOne(w, r, left) ==
    LET again == left.autoRetry /\ left.code = "busy" /\ left.retries <= MaxRetries IN
    /\ reqs' = [reqs EXCEPT ![r] = [left EXCEPT !.retries = IF again THEN @ + 1 ELSE @]]
    /\ Goto(w, IF again THEN AfterExpiryCheck ELSE "answer")

\* CheckForAutoRetry and Retry, for request r as an attempt left it
CheckForAutoRetry(w, r, left) ==
    LET again == left.autoRetry /\ left.code = "busy" /\ left.retries < MaxRetries IN
    /\ reqs' = [reqs EXCEPT ![r] = [left EXCEPT !.retries = IF again THEN @ + 1 ELSE @]]
    /\ Goto(w, IF again THEN AfterExpiryCheck ELSE "answer")

\* ProcessRequest: a cancelled request is not sent, and is not to be retried
BeginSend(w) ==
    LET r == cur[w] IN
    /\ Holds(w, "send")
    /\ \/ /\ ~reqs[r].cancelled
          /\ reqs' = [reqs EXCEPT ![r].sends = @ + 1]
          /\ Goto(w, "sending")
       \/ /\ reqs[r].cancelled
          /\ CheckForAutoRetry(w, r, [reqs[r] EXCEPT !.code = "busy", !.autoRetry = FALSE])
    /\ UNCHANGED <<registered, count, queues, flags, token, closing, cur, load>>

\* Send returns.  One cut short by a cancellation leaves the code as it was; one that
\* throws WebClientException is given 503.
EndSend(w) ==
    LET r == cur[w]
        cutShort == IF reqs[r].cancelled THEN {reqs[r].code} ELSE {}
    IN
    /\ Holds(w, "sending")
    /\ \E c \in {"ok", "busy", "refused"} \cup cutShort :
          CheckForAutoRetry(w, r, [reqs[r] EXCEPT !.code = c])
    /\ UNCHANGED <<registered, count, queues, flags, token, closing, cur, load>>

\* mutant: the callback is told although a retry was issued
FinishRetriedAnswering(w) ==
    LET r == cur[w] IN
    /\ Holds(w, "retried")
    /\ reqs' = [reqs EXCEPT ![r].answers = @ + 1]
    /\ Unregistered(r)
    /\ Goto(w, "release")
    /\ UNCHANGED <<queues, flags, token, closing, cur, load>>

\* ProcessRequest after a retry was issued: a polled request is left alone, any other
\* goes through DestroyRequest
FinishRetried(w) ==
    LET r == cur[w] IN
    /\ Holds(w, "retried")
    /\ \/ /\ reqs[r].mode # "poll"
          /\ Unregistered(r)
          /\ Goto(w, "release")
          /\ UNCHANGED cur
       \/ /\ reqs[r].mode = "poll"
          /\ Goto(w, "idle")
          /\ cur' = [cur EXCEPT ![w] = 0]
          /\ UNCHANGED <<registered, count>>
    /\ UNCHANGED <<reqs, queues, flags, token, closing, load>>

\* LoginStateResult::OnResponse: a token that is past its expiry by this client's clock
\* is not stored, although the refresh counts as a success
StoreLoginState(code) ==
    \/ code = "ok" /\ expired' = FALSE /\ login' = "LoggedIn"
    \/ code = "ok" /\ UNCHANGED token
    \/ code # "ok" /\ expired' = FALSE /\ login' = "Error"

\* The refresh is called back: the state is stored, then the lambda of RefreshIfExpired
\* runs.  A failure leaves RefreshNeeded set.
RefreshAnswered(code) ==
    /\ StoreLoginState(code)
    /\ needed' = (code # "ok")
    /\ started' = FALSE

\* ProcessRequest when no retry was issued
Answer(w) ==
    LET r == cur[w] IN
    /\ Holds(w, "answer")
    /\ \/ /\ reqs[r].mode = "async"
          /\ reqs' = [reqs EXCEPT ![r].answers = @ + 1]
          /\ \/ reqs[r].kind = "refresh" /\ RefreshAnswered(reqs[r].code)
             \/ reqs[r].kind = "call" /\ UNCHANGED <<flags, expired, login>>
          /\ Goto(w, "destroy")
          /\ UNCHANGED <<polls, cur>>
       \/ /\ reqs[r].mode = "poll"
          /\ polls' = Append(polls, r)
          /\ Goto(w, "idle")
          /\ cur' = [cur EXCEPT ![w] = 0]
          /\ UNCHANGED <<reqs, flags, expired, login>>
       \/ /\ reqs[r].mode = "none"
          /\ Goto(w, "destroy")
          /\ UNCHANGED <<reqs, polls, cur, flags, expired, login>>
    /\ UNCHANGED <<registered, count, jobs, closing, load>>

DestroyRequest(w) ==
    /\ Holds(w, "destroy")
    /\ Unregistered(cur[w])
    /\ Goto(w, "release")
    /\ UNCHANGED <<reqs, queues, flags, token, closing, cur, load>>

DecRefCount(w) ==
    /\ Holds(w, "release")
    /\ Released(reqs, cur[w])
    /\ Goto(w, "idle")
    /\ cur' = [cur EXCEPT ![w] = 0]
    /\ UNCHANGED <<registered, count, queues, flags, token, closing, load>>

----------------------------------------------------------------------------
(* The application *)

\* one round of ProcessResponses: the callback is skipped for a cancelled request
PollOne ==
    LET r == Head(polls) IN
    /\ polls # <<>>
    /\ polls' = Tail(polls)
    /\ Unregistered(r)
    /\ Released([reqs EXCEPT ![r].answers = IF reqs[r].cancelled THEN @ ELSE @ + 1], r)

ProcessResponses ==
    /\ Holds(App, "app")
    /\ PollOne
    /\ UNCHANGED <<jobs, flags, token, closing, at, cur, load>>

\* the owner of a CancellationToken cancels it
Cancel(r) ==
    /\ Holds(App, "app")
    /\ reqs[r].kind = "call" /\ reqs[r].refs > 0 /\ ~reqs[r].cancelled
    /\ reqs' = [reqs EXCEPT ![r].cancelled = TRUE]
    /\ UNCHANGED <<registered, count, queues, flags, token, closing, at, cur, load>>

\* time passes until the refresh is due
TokenNearsExpiry ==
    /\ login = "LoggedIn" /\ ~expired /\ load < MaxLoad
    /\ expired' = TRUE
    /\ load' = load + 1
    /\ UNCHANGED <<requests, queues, flags, login, closing, at, cur>>

\* UserSystem::Logout takes the user out of LoggedIn before its requests are sent
TrySetLogoutRequested ==
    /\ Holds(App, "app")
    /\ login = "LoggedIn"
    /\ login' = "LogoutRequested"
    /\ UNCHANGED <<requests, queues, flags, expired, closing, load, at, cur>>

\* ~WebClient cancels the registered requests, then waits for RequestCount to be 0
BeginDestruction ==
    /\ Holds(App, "app")
    /\ reqs' = [r \in Ids |-> [reqs[r] EXCEPT !.cancelled = @ \/ r \in registered]]
    /\ Goto(App, "waiting")
    /\ UNCHANGED <<registered, count, queues, flags, token, closing, cur, load>>

\* mutant: the first wait has no limit
EndWaitUntimed ==
    /\ Holds(App, "waiting")
    /\ count = 0
    /\ Goto(App, "draining")
    /\ UNCHANGED <<requests, queues, flags, token, closing, cur, load>>

\* the first wait ends: nothing is outstanding, or ten seconds have passed
EndWait ==
    /\ Holds(App, "waiting")
    /\ timedOut' = (timedOut \/ count > 0)
    /\ Goto(App, "draining")
    /\ UNCHANGED <<requests, queues, flags, token, shutdown, cur, load>>

\* the second wait polls the outstanding responses
Drain ==
    /\ Holds(App, "draining")
    /\ count > 0
    /\ PollOne
    /\ UNCHANGED <<jobs, flags, token, closing, at, cur, load>>

\* the second wait ends likewise; the poll queue is closed and the pool shut down
EndDrain ==
    /\ Holds(App, "draining")
    /\ timedOut' = (timedOut \/ count > 0)
    /\ shutdown' = TRUE
    /\ Goto(App, "joining")
    /\ UNCHANGED <<requests, queues, flags, token, cur, load>>

\* Shutdown has joined every worker
Join ==
    /\ Holds(App, "joining")
    /\ \A w \in Workers : Holds(w, "exited")
    /\ Goto(App, "closed")
    /\ UNCHANGED <<requests, queues, flags, token, closing, cur, load>>

----------------------------------------------------------------------------

WorkerNext(w) ==
    \/ StartRefresh(w) \/ AddRequest(w)
    \/ TakeJob(w) \/ Exit(w) \/ PassGate(w) \/ CheckRefresh(w) \/ MarkStarted(w)
    \/ BeginSend(w) \/ EndSend(w) \/ FinishRetried(w)
    \/ Answer(w) \/ DestroyRequest(w) \/ DecRefCount(w)

\* what the application's thread does once it is inside AddRequest or ~WebClient
AppContinues ==
    \/ StartRefresh(App) \/ AddRequest(App)
    \/ EndWait \/ Drain \/ EndDrain \/ Join

Next ==
    \/ \E mode \in Modes : SendRequest(mode)
    \/ ProcessResponses
    \/ \E r \in Ids : Cancel(r)
    \/ TokenNearsExpiry
    \/ TrySetLogoutRequested
    \/ BeginDestruction
    \/ AppContinues
    \/ \E w \in Workers : WorkerNext(w)

Spec == Init /\ [][Next]_vars

\* threads that can run are scheduled, every attempt ends, and the waits are timed
Fairness == WF_vars(AppContinues) /\ \A w \in Workers : WF_vars(WorkerNext(w))

FairSpec == Spec /\ Fairness

----------------------------------------------------------------------------
(* Properties *)

Queued(s) == {s[i] : i \in DOMAIN s}

\* the requests a worker, the pool's queue or the poll queue will still touch
Held == Queued(jobs) \cup Queued(polls) \cup ({cur[w] : w \in Workers} \ {0})

\* A request is called back at most once, however often it is retried and whichever
\* threads its attempts, its poll and the destructor run on (ProcessRequest).
AnsweredAtMostOnce == \A r \in Ids : reqs[r].answers <= 1

\* The reference count keeps a request alive while a thread or a queue can reach it, even
\* when a retry overtakes the thread that issued it; the set the destructor walks to
\* cancel requests never holds a deleted one (AddRequest, DestroyRequest).
HeldRequestsAreAlive == \A r \in Held \cup registered : reqs[r].refs > 0

\* RequestCount never falls to 0 while a request is queued, running or unpolled: unless a
\* wait timed out, the destructor closes the poll queue of an idle client, whose workers
\* at most have a reference to give back (~WebClient).
ClosesOnlyWhenIdle ==
    at[App] \in {"joining", "closed"} /\ ~timedOut =>
        /\ jobs = <<>> /\ polls = <<>>
        /\ \A w \in Workers : cur[w] # 0 => at[w] = "release"

\* A busy service is tried again, and exactly up to the limit: only a request that used
\* all its attempts, or was cancelled, is reported as failed with a busy code (Retry).
GivesUpOnlyAfterRetries ==
    \A r \in Ids :
        /\ reqs[r].sends <= MaxRetries + 1
        /\ /\ reqs[r].refs > 0
           /\ reqs[r].answers > 0 \/ r \in Queued(polls)
           /\ reqs[r].code = "busy" /\ ~reqs[r].cancelled
           => reqs[r].sends = MaxRetries + 1

\* While no refresh is ever needed, every request with an asynchronous callback is
\* answered, through retries, cancellation and the shutdown of the pool.
RequestsAreAnswered ==
    [](~needed) =>
        \A r \in 1 .. MaxLoad :
            (r \in Ids /\ reqs[r].mode = "async") ~> (r \in Ids /\ reqs[r].answers = 1)

\* While no refresh is ever needed, the destructor returns: the waits are bounded and
\* every worker leaves once the jobs are done (~WebClient, ThreadPool::Shutdown).
DestructionCompletes == [](~needed) => ((at[App] = "waiting") ~> (at[App] = "closed"))

\* After a failed refresh the requests sent or queued still run, as the failure branch of
\* RefreshIfExpired intends with its reset "to prevent indefinite freeze".
FailedRefreshDoesNotFreeze ==
    \A r \in 1 .. MaxLoad :
        (r \in Ids /\ login = "Error" /\ reqs[r].mode = "async")
            ~> (r \in Ids /\ reqs[r].answers = 1)
=============================================================================
