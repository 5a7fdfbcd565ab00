----------------------------- MODULE GitService -----------------------------
(***************************************************************************)
(* The editor's Git service: one bounded request queue, one scheduler      *)
(* thread, at most MaxWorkers worker threads with a cancellation monitor   *)
(* each, and the process-wide FIFO of repository tickets.                  *)
(*                                                                         *)
(* Work of one repository runs serially, of several at once.  Equal reads  *)
(* share an execution, equal mutations are refused while one is queued or  *)
(* running, and an execution is abandoned when everybody who waits for it  *)
(* cancelled.                                                              *)
(*                                                                         *)
(* A job is the sequence of the requests that wait for it; the first is    *)
(* the one whose operation and ticket it has.                              *)
(*                                                                         *)
(* Sources: src/src/git/service.rs (try_submit_inner, cancel, schedule),   *)
(* src/src/git/repository_lock.rs.                                         *)
(***************************************************************************)
EXTENDS Integers, Sequences, FiniteSets

CONSTANTS
    Repositories,
    Operations,  \* [repository, kind, key]
    NoKey,       \* the key of a read or mutation that is never shared
    Capacity,    \* REQUEST_CAPACITY
    MaxWorkers,  \* MAX_WORKERS
    MaxRequests, \* bound on the requests submitted
    MaxCancels   \* bound on those that are cancelled

ASSUME ServiceConstants ==
    /\ \A o \in Operations :
          /\ DOMAIN o = {"repository", "kind", "key"}
          /\ o.repository \in Repositories
          /\ o.kind \in {"discover", "read", "mutate"}
          /\ o.kind = "discover" => o.key # NoKey
    /\ Capacity \in Nat \ {0} /\ MaxWorkers \in Nat \ {0}
    /\ MaxRequests \in Nat /\ MaxCancels \in Nat

VARIABLES
    op,          \* the operation of each request, in the order of their ids
    answer,      \* the state of its Completed event
    view,        \* history: the mutations the result of a read shows
    log,         \* history: the mutations run in each repository, in order
    flagged,     \* the requests whose cancelled flag is set
    dropped,     \* every handle is dropped
    channel,     \* the request queue
    tickets,     \* RepositoryState.queue
    queues,      \* queues: the jobs of each repository
    active,      \* active_repositories, with the worker of each
    generations, \* generations
    stamp,       \* history: the generation the result of a read carries
    pc           \* where the scheduler's loop is

handleVars == <<op, dropped, flagged>>
resultVars == <<answer, view, stamp>>
vars == <<handleVars, resultVars, log, channel, tickets, queues, active,
          generations, pc>>

-----------------------------------------------------------------------------
Ids == 1 .. MaxRequests
Submitted == DOMAIN op
Repository(i) == op[i].repository
Mutation(i) == op[i].kind = "mutate"

\* read_key and duplicate_identity: what makes two requests equal.
ReadKey(i) == IF Mutation(i) THEN NoKey ELSE op[i].key
MutationKey(i) == IF Mutation(i) THEN op[i].key ELSE NoKey
IsKeyedRead(job) == ReadKey(job[1]) # NoKey

\* The queue s without i, if i is in it.
Without(s, i) ==
    IF \A k \in DOMAIN s : s[k] # i THEN s
    ELSE LET place == CHOOSE k \in DOMAIN s : s[k] = i
         IN  [k \in 1 .. Len(s) - 1 |-> IF k < place THEN s[k] ELSE s[k + 1]]

Stages == {"waiting", "executing", "ended", "sent", "reporting"}
Worker == [owner : Ids, waiters : Seq(Ids), stage : Stages,
           abandoned : BOOLEAN, executed : BOOLEAN,
           result : {"none", "ok", "error", "abandoned"},
           saw : Seq(Ids), generation : Nat]
Idle == [owner |-> 0, waiters |-> <<>>, stage |-> "idle",
         abandoned |-> FALSE, executed |-> FALSE, result |-> "none",
         saw |-> <<>>, generation |-> 0]
Active == {r \in Repositories : active[r] # Idle}

AllCancelled(waiters) == \A k \in DOMAIN waiters : waiters[k] \in flagged

TypeOK ==
    /\ op \in Seq(Operations) /\ Len(op) <= MaxRequests
    /\ DOMAIN answer = Submitted /\ DOMAIN view = Submitted
    /\ DOMAIN stamp = Submitted
    /\ \A i \in Submitted :
          answer[i] \in {"none", "refused", "completed", "failed",
                         "duplicate", "cancelled", "uncertain", "abandoned"}
    /\ log \in [Repositories -> Seq(Ids)]
    /\ flagged \subseteq Submitted
    /\ dropped \in BOOLEAN
    /\ channel \in Seq(Ids) /\ Len(channel) <= Capacity
    /\ tickets \in [Repositories -> Seq(Ids)]
    /\ queues \in [Repositories -> Seq(Seq(Ids))]
    /\ active \in [Repositories -> Worker \union {Idle}]
    /\ Cardinality(Active) <= MaxWorkers
    /\ generations \in [Repositories -> Nat]
    /\ pc \in {"drain", "start", "wait", "stopped"}

Init ==
    /\ op = <<>> /\ answer = <<>> /\ view = <<>> /\ stamp = <<>>
    /\ log = [r \in Repositories |-> <<>>]
    /\ flagged = {} /\ dropped = FALSE /\ channel = <<>>
    /\ tickets = [r \in Repositories |-> <<>>]
    /\ queues = [r \in Repositories |-> <<>>]
    /\ active = [r \in Repositories |-> Idle]
    /\ generations = [r \in Repositories |-> 0]
    /\ pc = "drain"

-----------------------------------------------------------------------------
(* The editor *)

\* try_submit_inner: a ticket is reserved before the request is queued, and
\* given back with a request that finds the queue full.  A discovery, which
\* knows no repository yet, has none.
Submit(o) ==
    /\ ~dropped
    /\ Len(op) < MaxRequests
    /\ op' = Append(op, o)
    /\ view' = Append(view, <<>>) /\ stamp' = Append(stamp, 0)
    /\ LET i == Len(op) + 1
       IN  IF Len(channel) < Capacity
           THEN /\ channel' = Append(channel, i)
                /\ tickets' = IF o.kind = "discover" THEN tickets
                              ELSE [tickets EXCEPT ![o.repository] =
                                                      Append(@, i)]
                /\ answer' = Append(answer, "none")
           ELSE /\ answer' = Append(answer, "refused")
                /\ UNCHANGED <<channel, tickets>>
    /\ UNCHANGED <<dropped, flagged, log, queues, active, generations, pc>>

\* cancel: the flag of a request that is not answered.
Cancel(i) ==
    /\ ~dropped
    /\ answer[i] = "none" /\ i \notin flagged
    /\ Cardinality(flagged) < MaxCancels
    /\ flagged' = flagged \union {i}
    /\ UNCHANGED <<op, dropped, resultVars, log, channel, tickets, queues,
                   active, generations, pc>>

DropHandle ==
    /\ ~dropped
    /\ dropped' = TRUE
    /\ UNCHANGED <<op, flagged, resultVars, log, channel, tickets, queues,
                   active, generations, pc>>

-----------------------------------------------------------------------------
(* The scheduler: drain the completions, start work, wait for a request *)

\* The state of the Completed event; "abandoned" is a failure whose error is
\* the cancellation of the execution.
State(i, w) ==
    IF i \in flagged /\ Mutation(i) /\ w.executed THEN "uncertain"
    ELSE IF i \in flagged THEN "cancelled"
    ELSE IF w.result = "ok" THEN "completed"
    ELSE IF w.result = "error" THEN "failed" ELSE "abandoned"

\* One Completed event of a drained completion; the repository is free after
\* the last.
Report(r) ==
    /\ pc = "drain"
    /\ \/ active[r].stage = "reporting"
       \/ /\ active[r].stage = "sent"
          /\ \A q \in Repositories : active[q].stage # "reporting"
    /\ LET w == active[r]
           i == w.waiters[1]
           state == State(i, w)
           shows == ~Mutation(i) /\ state \in {"completed", "failed"}
       IN  /\ answer' = [answer EXCEPT ![i] = state]
           /\ view' = IF shows THEN [view EXCEPT ![i] = w.saw] ELSE view
           /\ stamp' = IF shows THEN [stamp EXCEPT ![i] = w.generation]
                       ELSE stamp
           /\ active' = [active EXCEPT ![r] =
                 IF Len(w.waiters) = 1 THEN Idle
                 ELSE [w EXCEPT !.waiters = Tail(w.waiters),
                                !.stage = "reporting"]]
    /\ UNCHANGED <<handleVars, log, channel, tickets, queues, generations, pc>>

Drained ==
    /\ pc = "drain"
    /\ \A r \in Repositories : active[r].stage \notin {"sent", "reporting"}
    /\ pc' = "start"
    /\ UNCHANGED <<handleVars, resultVars, log, channel, tickets, queues,
                   active, generations>>

\* A repository with work and no worker, while a worker is free.
MayStart(r) ==
    /\ Cardinality(Active) < MaxWorkers
    /\ queues[r] # <<>> /\ r \notin Active

\* A job everybody cancelled is answered without being started.
StartCancelled(r) ==
    /\ pc = "start" /\ MayStart(r)
    /\ LET job == Head(queues[r])
       IN  /\ AllCancelled(job)
           /\ answer' = [i \in Submitted |->
                 IF \E k \in DOMAIN job : job[k] = i THEN "cancelled"
                 ELSE answer[i]]
           /\ tickets' = [tickets EXCEPT ![r] = Without(@, job[1])]
    /\ queues' = [queues EXCEPT ![r] = Tail(@)]
    /\ UNCHANGED <<handleVars, view, stamp, log, channel, active, generations,
                   pc>>

\* Mutant: a mutation leaves the generation alone.
GenerationKept(r, i) == generations[r]

\* The generation a job runs under: a mutation begins a new one.
GenerationFor(r, i) == generations[r] + (IF Mutation(i) THEN 1 ELSE 0)

Start(r) ==
    /\ pc = "start" /\ MayStart(r)
    /\ LET job == Head(queues[r])
           generation == GenerationFor(r, job[1])
       IN  /\ ~AllCancelled(job)
           /\ generations' = [generations EXCEPT ![r] = generation]
           /\ active' = [active EXCEPT ![r] =
                 [Idle EXCEPT !.owner = job[1], !.waiters = job,
                              !.stage = "waiting", !.generation = generation]]
    /\ queues' = [queues EXCEPT ![r] = Tail(@)]
    /\ UNCHANGED <<handleVars, resultVars, log, channel, tickets, pc>>

Started ==
    /\ pc = "start"
    /\ \A r \in Repositories : ~MayStart(r)
    /\ pc' = "wait"
    /\ UNCHANGED <<handleVars, resultVars, log, channel, tickets, queues,
                   active, generations>>

\* Mutant: once the handles are gone the completions are not polled.
PollWhileOpen ==
    /\ pc = "wait" /\ channel = <<>>
    /\ ~dropped /\ Active # {}
    /\ pc' = "drain"
    /\ UNCHANGED <<handleVars, resultVars, log, channel, tickets, queues,
                   active, generations>>

\* Nothing arrives while work is under way: look for completions again.
PollTimeout ==
    /\ pc = "wait" /\ channel = <<>>
    /\ Active # {}
    /\ pc' = "drain"
    /\ UNCHANGED <<handleVars, resultVars, log, channel, tickets, queues,
                   active, generations>>

\* The last handle is gone, and so is the last worker.
Stop ==
    /\ pc = "wait" /\ channel = <<>>
    /\ dropped /\ Active = {}
    /\ pc' = "stopped"
    /\ UNCHANGED <<handleVars, resultVars, log, channel, tickets, queues,
                   active, generations>>

\* An equal mutation is queued or running.
Duplicate(i) ==
    /\ MutationKey(i) # NoKey
    /\ \/ \E r \in Active : op[active[r].owner] = op[i]
       \/ \E r \in Repositories : \E k \in DOMAIN queues[r] :
             op[queues[r][k][1]] = op[i]

\* Mutant: what is queued between the running read and the request is not
\* looked at.
SharesActiveAnyway(i) ==
    LET w == active[Repository(i)]
    IN  /\ ReadKey(i) # NoKey
        /\ w # Idle /\ op[w.owner] = op[i]
        /\ ~w.abandoned

\* The request can share the running read: nothing queued separates them, and
\* the execution is not being abandoned.
SharesActive(i) ==
    LET w == active[Repository(i)]
        queue == queues[Repository(i)]
    IN  /\ ReadKey(i) # NoKey
        /\ \A k \in DOMAIN queue : IsKeyedRead(queue[k])
        /\ w # Idle /\ op[w.owner] = op[i]
        /\ ~w.abandoned

\* The equal reads of the last read-only segment of the repository's queue.
Sharable(i) ==
    LET queue == queues[Repository(i)]
    IN  {k \in DOMAIN queue :
            /\ ReadKey(i) # NoKey
            /\ op[queue[k][1]] = op[i]
            /\ \A l \in k .. Len(queue) : IsKeyedRead(queue[l])}

Received == Head(channel)

\* Mutant: a request that shares another's work keeps its ticket.
TicketsKept(i) == tickets

\* A request that gets no job of its own gives its ticket back.
TicketsWithout(i) == [tickets EXCEPT ![Repository(i)] = Without(@, i)]

ReceiveDuplicate ==
    /\ Duplicate(Received)
    /\ answer' = [answer EXCEPT ![Received] = "duplicate"]
    /\ tickets' = TicketsWithout(Received)
    /\ UNCHANGED <<view, stamp, queues, active>>

JoinActive ==
    /\ ~Duplicate(Received) /\ SharesActive(Received)
    /\ active' = [active EXCEPT ![Repository(Received)].waiters =
                                    Append(@, Received)]
    /\ tickets' = TicketsWithout(Received)
    /\ UNCHANGED <<resultVars, queues>>

JoinQueued ==
    /\ ~Duplicate(Received) /\ ~SharesActive(Received)
    /\ \E k \in Sharable(Received) :
          /\ \A l \in Sharable(Received) : l <= k
          /\ queues' = [queues EXCEPT ![Repository(Received)][k] =
                                          Append(@, Received)]
    /\ tickets' = TicketsWithout(Received)
    /\ UNCHANGED <<resultVars, active>>

NewJob ==
    /\ ~Duplicate(Received) /\ ~SharesActive(Received)
    /\ Sharable(Received) = {}
    /\ queues' = [queues EXCEPT ![Repository(Received)] =
                                    Append(@, <<Received>>)]
    /\ UNCHANGED <<resultVars, tickets, active>>

Receive ==
    /\ pc = "wait" /\ channel # <<>>
    /\ ReceiveDuplicate \/ JoinActive \/ JoinQueued \/ NewJob
    /\ channel' = Tail(channel)
    /\ pc' = "drain"
    /\ UNCHANGED <<handleVars, log, generations>>

-----------------------------------------------------------------------------
(* The worker of a repository, and its monitor *)

WorkerStep(r, w) ==
    /\ active' = [active EXCEPT ![r] = w]
    /\ UNCHANGED <<handleVars, resultVars, channel, queues, generations, pc>>

\* RepositoryReservation::acquire, and the operation begins.
Acquire(r) ==
    LET w == active[r]
        ordered == op[w.owner].kind # "discover"
    IN  /\ w.stage = "waiting"
        /\ ordered => ~w.abandoned /\ Head(tickets[r]) = w.owner
        /\ tickets' = IF ordered THEN [tickets EXCEPT ![r] = Tail(@)]
                      ELSE tickets
        /\ log' = IF Mutation(w.owner)
                  THEN [log EXCEPT ![r] = Append(@, w.owner)] ELSE log
        /\ WorkerStep(r, [w EXCEPT !.stage = "executing", !.executed = TRUE,
                                   !.saw = log[r]])

\* acquire returns None: no operation began.
GiveUp(r) ==
    LET w == active[r]
    IN  /\ w.stage = "waiting" /\ w.abandoned
        /\ op[w.owner].kind # "discover"
        /\ tickets' = TicketsWithout(w.owner)
        /\ UNCHANGED log
        /\ WorkerStep(r, [w EXCEPT !.stage = "ended", !.result = "abandoned"])

\* Git succeeds, fails, or is stopped because nobody waits for it.
Execute(r, result) ==
    LET w == active[r]
    IN  /\ w.stage = "executing"
        /\ result = "abandoned" => w.abandoned
        /\ UNCHANGED <<tickets, log>>
        /\ WorkerStep(r, [w EXCEPT !.stage = "ended", !.result = result])

\* The monitor is joined and the completion sent.
Send(r) ==
    /\ active[r].stage = "ended"
    /\ UNCHANGED <<tickets, log>>
    /\ WorkerStep(r, [active[r] EXCEPT !.stage = "sent"])

\* The monitor finds, under the waiters' lock, that all of them cancelled.  It
\* may do so once more after the operation ended, before it is joined.
MonitorAbandons(r) ==
    LET w == active[r]
    IN  /\ w.stage \in {"waiting", "executing", "ended"}
        /\ ~w.abandoned /\ AllCancelled(w.waiters)
        /\ UNCHANGED <<tickets, log>>
        /\ WorkerStep(r, [w EXCEPT !.abandoned = TRUE])

-----------------------------------------------------------------------------
Scheduler ==
    \/ \E r \in Repositories : Report(r) \/ StartCancelled(r) \/ Start(r)
    \/ Drained \/ Started \/ PollTimeout \/ Stop \/ Receive

Works(r) ==
    \/ Acquire(r) \/ GiveUp(r) \/ Send(r)
    \/ \E result \in {"ok", "error", "abandoned"} : Execute(r, result)

Next ==
    \/ \E o \in Operations : Submit(o)
    \/ \E i \in Submitted : Cancel(i)
    \/ DropHandle
    \/ Scheduler
    \/ \E r \in Repositories : Works(r) \/ MonitorAbandons(r)

Spec == Init /\ [][Next]_vars

\* The kernel runs the scheduler and the workers, and Git commands end.
\* Nothing is assumed of the editor or of the monitors.
Fairness ==
    WF_vars(Scheduler) /\ \A r \in Repositories : WF_vars(Works(r))

FairSpec == Spec /\ Fairness

-----------------------------------------------------------------------------
(* Properties *)

\* However executions are shared, abandoned and reported, each request is
\* answered as if its repository had run all of them one by one in the order
\* of submission (the abstract specification in GitRequests).
Requests == INSTANCE GitRequests
    WITH op <- op, answer <- answer, view <- view, log <- log,
         flagged <- flagged
AnswersInOrder == Requests!Spec

\* The ticket of a worker is the first of its repository: the process-wide
\* lock never holds it up, whatever requests were shared or dropped.  Every
\* variable has its type.
TicketIsFirst ==
    /\ TypeOK
    /\ \A r \in Active : active[r].stage = "waiting" =>
          \/ op[active[r].owner].kind = "discover"
          \/ tickets[r] # <<>> /\ Head(tickets[r]) = active[r].owner

\* A result of an older generation never shows more than one of a newer: the
\* editor may drop results by their generation.
GenerationsOrderViews ==
    \A i, j \in Submitted :
        /\ answer[i] = "completed" /\ answer[j] = "completed"
        /\ ~Mutation(i) /\ ~Mutation(j) /\ Repository(i) = Repository(j)
        /\ stamp[i] <= stamp[j]
        => Len(view[i]) <= Len(view[j])

\* Every request that was accepted is answered: when the editor submits no
\* more (here, after MaxRequests), none is left without an answer.  In
\* particular the thread does not stop on work it accepted: "the start pass
\* above leaves every queue empty whenever nothing is active"
\* (service.rs:1292).
EveryRequestAnswered == <>[](\A i \in Submitted : answer[i] # "none")
=============================================================================
