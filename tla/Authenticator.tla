---------------------------- MODULE Authenticator ----------------------------
(***************************************************************************)
(* cAuthenticator (src/Src/Server/Protocol/Authenticator.cpp): the network *)
(* thread submits logins (Authenticate), one worker thread (Execute) pops  *)
(* them in FIFO order, checks the credentials outside the lock and calls   *)
(* cRoot::AuthenticateUser or cRoot::KickUser; Stop sets the terminate     *)
(* flag, wakes the worker and joins it.                                    *)
(*                                                                         *)
(* m_CS is the lock; m_QueueNonempty is a cEvent, which (spec.md 4.4 and   *)
(* the Cuberite class it comes from) remembers a Set until a Wait consumes *)
(* it.  The worker is a program counter over the lines of Execute; Stop is *)
(* another.  A request carries only the client id and whether the password *)
(* is the one AuthFromDBPoll computes.  ErrorCode.h is not in the sources, *)
(* so ERROR_CODE_ACCOUNT_AUTH_OK and ERROR_CODE_ACCOUNT_NOT_MATCH are      *)
(* chosen in Init from the candidate values a configuration gives.         *)
(***************************************************************************)
EXTENDS Integers, Sequences

CONSTANTS
    ClientIDs,       \* ids of the connections that submit logins
    MaxReq,          \* bound on the number of Authenticate calls
    AuthOkValues,    \* candidate values of ERROR_CODE_ACCOUNT_AUTH_OK
    NotMatchValues   \* candidate values of ERROR_CODE_ACCOUNT_NOT_MATCH

VARIABLES
    m_Queue,         \* pending requests [id, match], front first
    ev,              \* m_QueueNonempty: a Set not yet consumed by a Wait
    m_ShouldTerminate,
    lockHeld,        \* the worker holds m_CS (submitters hold it only inside a step)
    wpc,             \* worker position in Execute
    user,            \* the request the worker popped (locals of Execute)
    spc,             \* position of the thread that calls Stop
    submitted,       \* requests in Authenticate order (history)
    answers,         \* outcomes in the order the worker produced them (history)
    termAnswers,     \* outcomes produced after m_ShouldTerminate was set
    lateTakes,       \* requests popped after m_ShouldTerminate was set (history)
    AUTH_OK, NOT_MATCH

vars == <<m_Queue, ev, m_ShouldTerminate, lockHeld, wpc, user, spc, submitted,
          answers, termAnswers, lateTakes, AUTH_OK, NOT_MATCH>>

Request == [id : ClientIDs, match : BOOLEAN]

\* AuthFromDBPoll hashes the user name (not the password) with MD5 and
\* returns the bool strPassWord == a_PassWord as an int; match is whether
\* the given password equals that lower-case hex digest.
AuthFromDBPoll(req) == IF req.match THEN 1 ELSE 0

\* The outcome Execute derives from the return value of AuthFromDBPoll.
Outcome(req) ==
    LET ret == AuthFromDBPoll(req)
    IN  IF ret = AUTH_OK THEN [id |-> req.id, accept |-> TRUE, reason |-> 0]
                         ELSE [id |-> req.id, accept |-> FALSE, reason |-> ret]

Init ==
    /\ m_Queue = <<>>
    /\ ev = FALSE
    /\ m_ShouldTerminate = FALSE
    /\ lockHeld = FALSE
    /\ wpc = "lock"
    /\ user = [id |-> CHOOSE i \in ClientIDs : TRUE, match |-> FALSE]
    /\ spc = "running"
    /\ submitted = <<>>
    /\ answers = <<>>
    /\ termAnswers = 0
    /\ lateTakes = 0
    /\ AUTH_OK \in AuthOkValues
    /\ NOT_MATCH \in NotMatchValues \ {AUTH_OK}

Fixed == <<AUTH_OK, NOT_MATCH>>

\* Variants with a plausible bug, each placed before the definition it
\* replaces.  Variant: the Set of m_QueueNonempty is missing.
AuthenticateNoSignal(req) ==
    /\ ~lockHeld
    /\ Len(submitted) < MaxReq
    /\ m_Queue' = Append(m_Queue, req)
    /\ submitted' = Append(submitted, req)
    /\ UNCHANGED <<ev, m_ShouldTerminate, lockHeld, wpc, user, spc, answers, termAnswers, lateTakes, Fixed>>

\* Authenticate: push_back and Set, both under m_CS.
Authenticate(req) ==
    /\ ~lockHeld
    /\ Len(submitted) < MaxReq
    /\ m_Queue' = Append(m_Queue, req)
    /\ ev' = TRUE
    /\ submitted' = Append(submitted, req)
    /\ UNCHANGED <<m_ShouldTerminate, lockHeld, wpc, user, spc, answers, termAnswers, lateTakes, Fixed>>

\* Execute, top of the for (;;): cCSLock Lock(m_CS).
WorkerLock ==
    /\ wpc = "lock" /\ ~lockHeld
    /\ lockHeld' = TRUE /\ wpc' = "cond"
    /\ UNCHANGED <<m_Queue, ev, m_ShouldTerminate, user, spc, submitted, answers,
                   termAnswers, lateTakes, Fixed>>

\* Variant: the while tests only the queue, not m_ShouldTerminate.
WorkerIdleQueueOnly ==
    /\ wpc = "cond"
    /\ m_Queue = <<>>
    /\ lockHeld' = FALSE /\ wpc' = "wait"
    /\ UNCHANGED <<m_Queue, ev, m_ShouldTerminate, user, spc, submitted, answers,
                   termAnswers, lateTakes, Fixed>>

\* The while condition: nothing to do, so unlock (cCSUnlock) and Wait.
WorkerIdle ==
    /\ wpc = "cond"
    /\ ~m_ShouldTerminate /\ m_Queue = <<>>
    /\ lockHeld' = FALSE /\ wpc' = "wait"
    /\ UNCHANGED <<m_Queue, ev, m_ShouldTerminate, user, spc, submitted, answers,
                   termAnswers, lateTakes, Fixed>>

\* m_QueueNonempty.Wait() returns and consumes the Set.
WorkerWake ==
    /\ wpc = "wait" /\ ev
    /\ ev' = FALSE /\ wpc' = "relock"
    /\ UNCHANGED <<m_Queue, m_ShouldTerminate, lockHeld, user, spc, submitted, answers,
                   termAnswers, lateTakes, Fixed>>

\* The cCSUnlock destructor locks m_CS again; the while condition is re-tested.
WorkerRelock ==
    /\ wpc = "relock" /\ ~lockHeld
    /\ lockHeld' = TRUE /\ wpc' = "cond"
    /\ UNCHANGED <<m_Queue, ev, m_ShouldTerminate, user, spc, submitted, answers,
                   termAnswers, lateTakes, Fixed>>

\* Variant: a bare m_CS.Lock() where the code has a scoped cCSLock, so the
\* return on terminate leaves the lock held.
WorkerTestLeak ==
    /\ wpc = "cond"
    /\ m_ShouldTerminate \/ m_Queue # <<>>
    /\ wpc' = IF m_ShouldTerminate THEN "done" ELSE "take"
    /\ UNCHANGED <<m_Queue, ev, m_ShouldTerminate, lockHeld, user, spc, submitted,
                   answers, termAnswers, lateTakes, Fixed>>

\* Variant: the worker returns only once the queue is empty, so it drains
\* the queue before it honours the terminate flag.
WorkerTestDrain ==
    /\ wpc = "cond"
    /\ m_ShouldTerminate \/ m_Queue # <<>>
    /\ IF m_ShouldTerminate /\ m_Queue = <<>>
       THEN wpc' = "done" /\ lockHeld' = FALSE
       ELSE wpc' = "take" /\ UNCHANGED lockHeld
    /\ UNCHANGED <<m_Queue, ev, m_ShouldTerminate, user, spc, submitted, answers,
                   termAnswers, lateTakes, Fixed>>

\* The while is left (the flag is set or the queue is not empty) and
\* if (m_ShouldTerminate) return, whose cCSLock destructor unlocks m_CS.
\* Both read the flag under m_CS, which Stop does not take; only the
\* worker pops, so the queue cannot empty between them, and one read of
\* the flag gives every outcome the two reads can.
WorkerTest ==
    /\ wpc = "cond"
    /\ m_ShouldTerminate \/ m_Queue # <<>>
    /\ IF m_ShouldTerminate
       THEN wpc' = "done" /\ lockHeld' = FALSE
       ELSE wpc' = "take" /\ UNCHANGED lockHeld
    /\ UNCHANGED <<m_Queue, ev, m_ShouldTerminate, user, spc, submitted, answers,
                   termAnswers, lateTakes, Fixed>>

\* Variant: back() and pop_back() instead of front() and pop_front().
WorkerTakeBack ==
    /\ wpc = "take"
    /\ user' = m_Queue[Len(m_Queue)]
    /\ m_Queue' = SubSeq(m_Queue, 1, Len(m_Queue) - 1)
    /\ lockHeld' = FALSE /\ wpc' = "poll"
    /\ lateTakes' = IF m_ShouldTerminate THEN lateTakes + 1 ELSE lateTakes
    /\ UNCHANGED <<ev, m_ShouldTerminate, spc, submitted, answers, termAnswers, Fixed>>

\* front(), the copies of its fields, pop_front() and Lock.Unlock() before
\* the credential check.  Stop may have set the flag since the test: the
\* request is taken all the same.
WorkerTake ==
    /\ wpc = "take"
    /\ user' = Head(m_Queue)
    /\ m_Queue' = Tail(m_Queue)
    /\ lockHeld' = FALSE /\ wpc' = "poll"
    /\ lateTakes' = IF m_ShouldTerminate THEN lateTakes + 1 ELSE lateTakes
    /\ UNCHANGED <<ev, m_ShouldTerminate, spc, submitted, answers, termAnswers, Fixed>>

\* AuthFromDBPoll, then exactly one of AuthenticateUser and KickUser.
WorkerAnswer ==
    /\ wpc = "poll"
    /\ answers' = Append(answers, Outcome(user))
    /\ termAnswers' = IF m_ShouldTerminate THEN termAnswers + 1 ELSE termAnswers
    /\ wpc' = "lock"
    /\ UNCHANGED <<m_Queue, ev, m_ShouldTerminate, lockHeld, user, spc, submitted, lateTakes, Fixed>>

\* Stop: m_ShouldTerminate = true, written without m_CS.
StopSetFlag ==
    /\ spc = "running"
    /\ m_ShouldTerminate' = TRUE /\ spc' = "signal"
    /\ UNCHANGED <<m_Queue, ev, lockHeld, wpc, user, submitted, answers, termAnswers, lateTakes, Fixed>>

\* Stop: m_QueueNonempty.Set().
StopSignal ==
    /\ spc = "signal"
    /\ ev' = TRUE /\ spc' = "join"
    /\ UNCHANGED <<m_Queue, m_ShouldTerminate, lockHeld, wpc, user, submitted, answers,
                   termAnswers, lateTakes, Fixed>>

\* Stop: Wait() joins the worker thread.
StopJoin ==
    /\ spc = "join" /\ wpc = "done"
    /\ spc' = "stopped"
    /\ UNCHANGED <<m_Queue, ev, m_ShouldTerminate, lockHeld, wpc, user, submitted, answers,
                   termAnswers, lateTakes, Fixed>>

Worker == WorkerLock \/ WorkerIdle \/ WorkerWake \/ WorkerRelock \/ WorkerTest \/ WorkerTake \/ WorkerAnswer
Stopping == StopSignal \/ StopJoin

Next ==
    \/ \E req \in Request : Authenticate(req)
    \/ Worker
    \/ StopSetFlag
    \/ Stopping

\* The worker is a thread of its own and Stop, once called, runs to its
\* end; submitting a login and calling Stop at all are up to the callers.
Spec == Init /\ [][Next]_vars /\ WF_vars(Worker) /\ WF_vars(Stopping)

-----------------------------------------------------------------------------
(* Properties                                                             *)

\* Type invariant; the worker holds m_CS exactly while it is between the
\* lock and the Unlock of an iteration (the cCSLock/cCSUnlock scopes).
TypeOK ==
    /\ m_Queue \in Seq(Request) /\ submitted \in Seq(Request) /\ user \in Request
    /\ answers \in Seq([id : ClientIDs, accept : BOOLEAN, reason : Int])
    /\ ev \in BOOLEAN /\ m_ShouldTerminate \in BOOLEAN
    /\ wpc \in {"lock", "cond", "wait", "relock", "take", "poll", "done"}
    /\ spc \in {"running", "signal", "join", "stopped"}
    /\ termAnswers \in 0..MaxReq /\ lateTakes \in 0..MaxReq
    /\ lockHeld = (wpc \in {"cond", "take"})

\* FIFO (spec.md 7): the worker answers the requests exactly once each, in
\* the order Authenticate queued them, each with the outcome of its own
\* credentials, however submissions interleave with the worker's steps.
AnswersInSubmissionOrder ==
    /\ Len(answers) <= Len(submitted)
    /\ \A i \in DOMAIN answers : answers[i] = Outcome(submitted[i])

\* spec.md 4.4 and 7: a request is accepted exactly when its credentials
\* match, and a mismatch is rejected with ERROR_CODE_ACCOUNT_NOT_MATCH,
\* which PeerConnectionClient::HandleErrorCode turns into its message.
CredentialsDecideOutcome ==
    \A i \in DOMAIN answers :
        /\ answers[i].accept = submitted[i].match
        /\ ~answers[i].accept => answers[i].reason = NOT_MATCH

\* Shutdown contract (spec.md 4.4): after the terminate flag is set the
\* worker finishes at most the request it is processing; it never drains
\* the queue.
AtMostOneAnswerAfterStop == termAnswers <= 1

\* No lost wake-up: every queued login is eventually answered, unless the
\* authenticator is being stopped (then queued work is abandoned).
LoginsEventuallyAnswered ==
    \A n \in 1..MaxReq :
        (Len(submitted) >= n) ~> (Len(answers) >= n \/ m_ShouldTerminate)

\* Stop returns: once the flag is set and the event signalled, the worker
\* leaves Execute and the join completes, whatever it was doing.
StopReturns == (spc = "signal") ~> (spc = "stopped")

-----------------------------------------------------------------------------
(* Refinement                                                             *)

\* cAuthenticator implements AuthQueue: the pending requests are m_Queue;
\* the taken ones are the submissions no longer in it (so a queue that is
\* not the unconsumed suffix of the submissions breaks the mapping); a
\* reply is a call of AuthenticateUser or KickUser; the worker has exited
\* when Execute has returned.
AQ == INSTANCE AuthQueue WITH
        pending  <- m_Queue,
        taken    <- SubSeq(submitted, 1, Len(submitted) - Len(m_Queue)),
        replied  <- Len(answers),
        stopped  <- m_ShouldTerminate,
        late     <- lateTakes,
        finished <- (wpc = "done")

\* The authenticator's threads, locks and event, with Stop at any point,
\* behave as the abstract pipeline: FIFO, one request at a time, at most
\* one taken after the flag (Stop writes it without m_CS, so it can land
\* between the test at line 88 and the pop), what is in hand answered, and
\* the worker exits.
AuthQueueRefined == AQ!Spec

=============================================================================
