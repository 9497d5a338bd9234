----------------------------- MODULE AuthQueue -----------------------------
(***************************************************************************)
(* What the authentication pipeline promises (spec.md 4.4), without       *)
(* threads, locks or events: submitted requests wait in one FIFO queue;   *)
(* a single worker takes the front request and replies to it before it    *)
(* takes the next; once the terminate flag is set at most one more       *)
(* request is taken (the flag is not read under the queue's lock at the  *)
(* moment of the take), what is in hand is answered, the rest of the     *)
(* queue is abandoned and the worker exits.                               *)
(* Submitting is never refused, also after the flag is set.               *)
(***************************************************************************)
EXTENDS Naturals, Sequences

CONSTANT Request

VARIABLES
    pending,    \* requests waiting, front first
    taken,      \* requests the worker has taken, in the order it took them
    replied,    \* how many of them have been answered
    stopped,    \* the terminate flag
    late,       \* requests taken after the flag was set
    finished    \* the worker has exited

avars == <<pending, taken, replied, stopped, late, finished>>

Init ==
    /\ pending = <<>>
    /\ taken = <<>>
    /\ replied = 0
    /\ stopped = FALSE
    /\ late = 0
    /\ finished = FALSE

Submit(r) ==
    /\ pending' = Append(pending, r)
    /\ UNCHANGED <<taken, replied, stopped, late, finished>>

\* The worker is idle (everything it took is answered) and has not
\* exited; after the flag it takes one request at most.
Take ==
    /\ ~finished /\ pending # <<>> /\ replied = Len(taken)
    /\ stopped => late = 0
    /\ taken' = Append(taken, Head(pending))
    /\ pending' = Tail(pending)
    /\ late' = IF stopped THEN late + 1 ELSE late
    /\ UNCHANGED <<replied, stopped, finished>>

Reply ==
    /\ replied < Len(taken)
    /\ replied' = replied + 1
    /\ UNCHANGED <<pending, taken, stopped, late, finished>>

Stop ==
    /\ ~stopped
    /\ stopped' = TRUE
    /\ UNCHANGED <<pending, taken, replied, late, finished>>

\* The queue is abandoned, not drained.
Finish ==
    /\ stopped /\ ~finished /\ replied = Len(taken)
    /\ finished' = TRUE
    /\ UNCHANGED <<pending, taken, replied, stopped, late>>

Next == (\E r \in Request : Submit(r)) \/ Take \/ Reply \/ Stop \/ Finish

\* The worker keeps working: a waiting request is taken while the flag is
\* not set, a taken one is answered, and a stopped worker exits.
Spec == Init /\ [][Next]_avars /\ WF_avars(~stopped /\ Take) /\ WF_avars(Reply) /\ WF_avars(Finish)

=============================================================================
