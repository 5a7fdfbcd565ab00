----------------------------- MODULE GitRequests ----------------------------
(***************************************************************************)
(* What the Git service promises the editor that submits requests to it.   *)
(*                                                                         *)
(* Whatever the service shares, queues or runs at once, every request is   *)
(* answered as if the requests of a repository had run one after the other *)
(* in the order they were submitted: a read shows exactly the mutations    *)
(* submitted before it that were run, and a mutation runs at most once,    *)
(* after everything submitted before it was answered.                      *)
(*                                                                         *)
(* Source: src/src/git/service.rs, as GitService models it.                *)
(***************************************************************************)
EXTENDS Integers, Sequences

CONSTANTS
    Repositories,
    Operations,  \* [repository, kind, key]: see GitService
    MaxRequests  \* bound on the requests submitted

VARIABLES
    op,       \* the operation of each request submitted, in order
    answer,   \* what each of them was answered
    view,     \* the mutations the answer of a read shows
    log,      \* the mutations run in each repository, in order
    flagged   \* the requests somebody cancelled

requestVars == <<op, answer, view, log, flagged>>

Ids == 1 .. MaxRequests
Submitted == DOMAIN op

Answers == {"none", "refused", "completed", "failed", "duplicate",
            "cancelled", "uncertain"}

Mutation(i) == op[i].kind = "mutate"
SameRepository(i, j) == op[i].repository = op[j].repository
Answered(i) == answer[i] # "none"

\* The requests of i's repository submitted before it.
Earlier(i) == {j \in Submitted : j < i /\ SameRepository(i, j)}
HasRun(m) ==
    \E k \in DOMAIN log[op[m].repository] : log[op[m].repository][k] = m

Init ==
    /\ op = <<>> /\ answer = <<>> /\ view = <<>>
    /\ log = [r \in Repositories |-> <<>>]
    /\ flagged = {}

\* A request is accepted, or refused at once when the queue is full.
Submit(o) ==
    /\ Len(op) < MaxRequests
    /\ op' = Append(op, o)
    /\ \E a \in {"none", "refused"} : answer' = Append(answer, a)
    /\ view' = Append(view, <<>>)
    /\ UNCHANGED <<log, flagged>>

Cancel(i) ==
    /\ ~Answered(i)
    /\ flagged' = flagged \union {i}
    /\ UNCHANGED <<op, answer, view, log>>

\* A mutation runs once, when all that was submitted before it is answered.
Mutate(m) ==
    /\ Mutation(m) /\ ~Answered(m)
    /\ ~HasRun(m)
    /\ \A j \in Earlier(m) : Answered(j)
    /\ log' = [log EXCEPT ![op[m].repository] = Append(@, m)]
    /\ UNCHANGED <<op, answer, view, flagged>>

\* What a read, and a mutation, may be told.  A read fails only by itself,
\* never because another request that shared its work was cancelled.
ReadAnswer(i, a, shown) ==
    \/ a = "cancelled" /\ i \in flagged
    \/ /\ a \in {"completed", "failed"}
       /\ \A j \in Earlier(i) : Mutation(j) => Answered(j)
       /\ shown = log[op[i].repository]

MutationAnswer(i, a) ==
    \/ a = "cancelled" /\ i \in flagged /\ ~HasRun(i)
    \/ a = "uncertain" /\ i \in flagged /\ HasRun(i)
    \/ a \in {"completed", "failed"} /\ HasRun(i)
    \/ a = "duplicate" /\ \E j \in Earlier(i) : ~Answered(j) /\ op[j] = op[i]

\* One or more requests are answered, each of them once.
Answer ==
    /\ answer' # answer
    /\ DOMAIN answer' = DOMAIN answer /\ DOMAIN view' = DOMAIN view
    /\ \A i \in Submitted : answer'[i] # answer[i] =>
          /\ ~Answered(i)
          /\ IF Mutation(i) THEN MutationAnswer(i, answer'[i])
             ELSE ReadAnswer(i, answer'[i], view'[i])
    /\ \A i \in Submitted : view'[i] # view[i] => answer'[i] # answer[i]
    /\ UNCHANGED <<op, log, flagged>>

Next ==
    \/ \E o \in Operations : Submit(o)
    \/ \E i \in Submitted : Cancel(i) \/ Mutate(i)
    \/ Answer

Spec == Init /\ [][Next]_requestVars
=============================================================================
