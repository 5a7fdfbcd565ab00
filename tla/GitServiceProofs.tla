--------------------------- MODULE GitServiceProofs ---------------------------
(* Theorems about GitService, for every set of repositories and operations    *)
(* and every limit.                                                           *)
EXTENDS GitService, FiniteSetTheorems, SequenceTheorems, TLAPS

-----------------------------------------------------------------------------
(* The inductive invariant *)

\* The sequence s holds i; the numbers of s increase; the request i takes a
\* ticket.
Holds(s, i) == \E k \in DOMAIN s : s[k] = i
Increasing(s) == \A k, l \in DOMAIN s : k < l => s[k] < s[l]
Ordered(i) == op[i].kind # "discover"

\* The answers of a request.
States == {"none", "refused", "completed", "failed", "duplicate", "cancelled",
           "uncertain", "abandoned"}

\* TypeOK, with what it says of each request as sequences.
Types ==
    /\ TypeOK
    /\ answer \in Seq(States) /\ view \in Seq(Seq(Ids)) /\ stamp \in Seq(Nat)
    /\ IsFiniteSet(Active)

\* A request that waits somewhere is submitted and not answered.
Waits(i) == i \in Submitted /\ answer[i] = "none"

\* The channel holds the newest requests, in order.
ChannelInOrder ==
    /\ Increasing(channel)
    /\ \A k \in DOMAIN channel : Waits(channel[k])
    /\ \A k \in DOMAIN channel : \A r \in Repositories :
          /\ \A l \in DOMAIN queues[r] : \A a \in DOMAIN queues[r][l] :
                queues[r][l][a] < channel[k]
          /\ \A a \in DOMAIN active[r].waiters :
                active[r].waiters[a] < channel[k]
          /\ active[r].owner < channel[k]

\* The requests of a job ask for the same in the same repository; only keyed
\* reads are shared.
JobFormed(r, job) ==
    /\ job # <<>> /\ Increasing(job)
    /\ \A a \in DOMAIN job : Waits(job[a]) /\ op[job[a]] = op[job[1]]
    /\ Repository(job[1]) = r
    /\ ~IsKeyedRead(job) => Len(job) = 1

\* Every queued job.
JobsFormed ==
    \A r \in Repositories : \A k \in DOMAIN queues[r] :
        JobFormed(r, queues[r][k])

\* Everything in job came before everything in later, or both are reads of
\* which the first came before.
Before(job, later) ==
    /\ job[1] < later[1]
    /\ \A a \in DOMAIN job : \A b \in DOMAIN later : job[a] # later[b]
    /\ Mutation(job[1]) \/ Mutation(later[1]) =>
          \A a \in DOMAIN job : \A b \in DOMAIN later : job[a] < later[b]

\* The jobs of a queue, one behind the other.
JobsInOrder ==
    \A r \in Repositories : \A k, l \in DOMAIN queues[r] :
        k < l => Before(queues[r][k], queues[r][l])

\* The work of a repository is a job that came before those queued.
WorkFormed ==
    \A r \in Active :
        LET w == active[r]
        IN  /\ w.waiters # <<>> /\ Increasing(w.waiters)
            /\ \A a \in DOMAIN w.waiters :
                  Waits(w.waiters[a]) /\ op[w.waiters[a]] = op[w.owner]
            /\ w.owner \in Submitted /\ Repository(w.owner) = r
            /\ Mutation(w.owner) => w.waiters = <<w.owner>>

\* What is being worked on came before what is queued, or both are reads.
WorkFirst ==
    \A r \in Active : \A k \in DOMAIN queues[r] :
        LET w == active[r]
            job == queues[r][k]
        IN  /\ w.owner < job[1]
            /\ \A a \in DOMAIN w.waiters : \A b \in DOMAIN job :
                  w.waiters[a] # job[b]
            /\ Mutation(w.owner) \/ Mutation(job[1]) =>
                  \A a \in DOMAIN w.waiters : \A b \in DOMAIN job :
                      w.waiters[a] < job[b]

\* How far the work of a repository is; it is abandoned only when all who wait
\* for it cancelled.
WorkStaged ==
    \A r \in Active :
        LET w == active[r]
        IN  /\ w.abandoned => AllCancelled(w.waiters)
            /\ w.result = "abandoned" => w.abandoned
            /\ w.result \in {"ok", "error"} => w.executed
            /\ w.stage \in {"ended", "sent", "reporting"} => w.result # "none"
            /\ w.stage = "waiting" => ~w.executed
            /\ w.stage = "executing" => w.executed
            /\ w.executed => w.saw = log[r] \/ Mutation(w.owner)
            /\ w.generation = generations[r]

\* Every request without an answer waits somewhere.
Accounted ==
    \A i \in Submitted : answer[i] = "none" =>
        \/ Holds(channel, i)
        \/ \E k \in DOMAIN queues[Repository(i)] :
              Holds(queues[Repository(i)][k], i)
        \/ Holds(active[Repository(i)].waiters, i)

\* The log of a repository is of its mutations, run by the worker it has or
\* answered.
Logged ==
    /\ \A r \in Repositories : \A k \in DOMAIN log[r] :
          LET m == log[r][k]
          IN  /\ m \in Submitted /\ Mutation(m) /\ Repository(m) = r
              /\ answer[m] # "none" \/ (active[r].owner = m /\ active[r].executed)
    /\ \A r \in Active : active[r].executed /\ Mutation(active[r].owner) =>
          Holds(log[r], active[r].owner)

\* A ticket is kept by each request that is not received, each queued job and
\* the work that has not begun; none by a discovery.
Holder(r, i) ==
    /\ i \in Submitted /\ Ordered(i) /\ Repository(i) = r
    /\ \/ Holds(channel, i)
       \/ \E k \in DOMAIN queues[r] : queues[r][k][1] = i
       \/ active[r].owner = i /\ active[r].stage = "waiting"

\* The tickets of a repository are its holders, in the order of submission.
TicketsInOrder ==
    \A r \in Repositories :
        /\ Increasing(tickets[r])
        /\ \A i \in Ids : Holds(tickets[r], i) <=> Holder(r, i)

\* The results of the current generation show all mutations, and none is of a
\* generation that is still to come.
Shows(i) == answer[i] = "completed" /\ ~Mutation(i)

\* Every completed read.
GenerationsCurrent ==
    \A i \in Submitted : Shows(i) =>
        LET r == Repository(i)
        IN  /\ stamp[i] <= generations[r]
            /\ Len(view[i]) <= Len(log[r])
            /\ stamp[i] = generations[r] =>
                  /\ Len(view[i]) = Len(log[r])
                  /\ r \in Active => ~Mutation(active[r].owner)

\* What every reachable state satisfies.
IndInv ==
    /\ Types /\ ChannelInOrder /\ JobsFormed /\ JobsInOrder
    /\ WorkFormed /\ WorkFirst /\ WorkStaged /\ Accounted /\ Logged
    /\ TicketsInOrder /\ GenerationsCurrent /\ GenerationsOrderViews

-----------------------------------------------------------------------------
(* Sequences of requests in order *)

\* A request is a number.
LEMMA IdsAreNumbers == Ids \subseteq Nat \ {0}
  BY ServiceConstants DEF Ids

\* Appending a newer request keeps the order.
LEMMA AppendInOrder ==
    ASSUME NEW s \in Seq(Ids), NEW i \in Ids
    PROVE  /\ Append(s, i) \in Seq(Ids)
           /\ \A j : Holds(Append(s, i), j) <=> Holds(s, j) \/ j = i
           /\ Increasing(s) /\ (\A k \in DOMAIN s : s[k] < i) =>
                 Increasing(Append(s, i))
  <1>1. /\ Append(s, i) \in Seq(Ids)
        /\ Len(Append(s, i)) = Len(s) + 1
        /\ \A k \in 1 .. Len(s) : Append(s, i)[k] = s[k]
        /\ Append(s, i)[Len(s) + 1] = i
    BY AppendProperties
  <1>2. DOMAIN s = 1 .. Len(s) /\ Len(s) \in Nat
        /\ DOMAIN Append(s, i) = 1 .. Len(s) + 1
    BY <1>1, LenProperties
  <1>3. \A j : Holds(Append(s, i), j) <=> Holds(s, j) \/ j = i
    BY <1>1, <1>2 DEF Holds
  <1>4. ASSUME Increasing(s), \A k \in DOMAIN s : s[k] < i
        PROVE  Increasing(Append(s, i))
    BY <1>1, <1>2, <1>4 DEF Increasing
  <1> QED
    BY <1>1, <1>3, <1>4

\* The tail holds what is not the head.
LEMMA TailInOrder ==
    ASSUME NEW s \in Seq(Ids), s # <<>>, Increasing(s)
    PROVE  /\ Tail(s) \in Seq(Ids) /\ Increasing(Tail(s))
           /\ Head(s) = s[1] /\ 1 \in DOMAIN s
           /\ \A j : Holds(Tail(s), j) <=> Holds(s, j) /\ j # s[1]
           /\ \A k \in DOMAIN s : s[1] <= s[k]
  <1>1. /\ Tail(s) \in Seq(Ids) /\ Len(Tail(s)) = Len(s) - 1
        /\ \A k \in 1 .. Len(Tail(s)) : Tail(s)[k] = s[k + 1]
    BY HeadTailProperties
  <1>2. /\ DOMAIN s = 1 .. Len(s) /\ Len(s) \in Nat \ {0}
        /\ DOMAIN Tail(s) = 1 .. Len(s) - 1
        /\ \A k \in 1 .. Len(s) : s[k] \in Nat
    BY <1>1, LenProperties, EmptySeq, ElementOfSeq, IdsAreNumbers
  <1>3. Increasing(Tail(s))
    BY <1>1, <1>2 DEF Increasing
  <1>4. \A k \in DOMAIN s : k # 1 => s[1] < s[k]
    BY <1>2 DEF Increasing
  <1>5. ASSUME NEW j
        PROVE  Holds(Tail(s), j) <=> Holds(s, j) /\ j # s[1]
    <2>1. ASSUME Holds(Tail(s), j) PROVE Holds(s, j) /\ j # s[1]
      <3>1. PICK k \in 1 .. Len(s) - 1 : s[k + 1] = j
        BY <1>1, <1>2, <2>1 DEF Holds
      <3>2. k + 1 \in DOMAIN s /\ k + 1 # 1
        BY <1>2
      <3> QED
        BY <1>2, <1>4, <3>1, <3>2 DEF Holds
    <2>2. ASSUME Holds(s, j), j # s[1] PROVE Holds(Tail(s), j)
      <3>1. PICK k \in 1 .. Len(s) : s[k] = j
        BY <1>2, <2>2 DEF Holds
      <3>2. k - 1 \in 1 .. Len(s) - 1 /\ Tail(s)[k - 1] = s[k]
        BY <1>1, <1>2, <2>2, <3>1
      <3> QED
        BY <1>2, <3>1, <3>2 DEF Holds
    <2> QED
      BY <2>1, <2>2
  <1> QED
    BY <1>1, <1>2, <1>3, <1>4, <1>5

\* Removing a request from a queue leaves the others, in order.
LEMMA WithoutInOrder ==
    ASSUME NEW s \in Seq(Ids), Increasing(s), NEW i
    PROVE  /\ Without(s, i) \in Seq(Ids) /\ Increasing(Without(s, i))
           /\ \A j : Holds(Without(s, i), j) <=> Holds(s, j) /\ j # i
  <1>1. /\ DOMAIN s = 1 .. Len(s) /\ Len(s) \in Nat
        /\ \A k \in 1 .. Len(s) : s[k] \in Ids /\ s[k] \in Nat
    BY LenProperties, ElementOfSeq, IdsAreNumbers
  <1>2. CASE \A k \in DOMAIN s : s[k] # i
    BY <1>2 DEF Without, Holds
  <1>3. CASE ~\A k \in DOMAIN s : s[k] # i
    <2> DEFINE place == CHOOSE k \in DOMAIN s : s[k] = i
               rest == [k \in 1 .. Len(s) - 1 |->
                           IF k < place THEN s[k] ELSE s[k + 1]]
    <2>1. place \in 1 .. Len(s) /\ s[place] = i
      BY <1>1, <1>3
    <2>2. Without(s, i) = rest
      BY <1>3 DEF Without
    <2> HIDE DEF place
    <2>3. Len(s) - 1 \in Nat
      BY <1>1, <2>1
    <2>4. rest \in [1 .. Len(s) - 1 -> Ids]
      BY <1>1, <2>1
    <2>5. rest \in Seq(Ids)
      BY <2>3, <2>4, SeqDef
    <2>6. DOMAIN rest = 1 .. Len(s) - 1
      OBVIOUS
    <2>7. ASSUME NEW k \in DOMAIN rest, NEW l \in DOMAIN rest, k < l
          PROVE  rest[k] < rest[l]
      <3>1. /\ rest[k] = (IF k < place THEN s[k] ELSE s[k + 1])
            /\ rest[l] = (IF l < place THEN s[l] ELSE s[l + 1])
        OBVIOUS
      <3>2. \A m, n \in 1 .. Len(s) : m < n => s[m] < s[n]
        BY <1>1 DEF Increasing
      <3>3. k \in 1 .. Len(s) /\ l \in 1 .. Len(s) /\ k + 1 \in 1 .. Len(s)
            /\ l + 1 \in 1 .. Len(s)
        BY <1>1, <2>6
      <3> QED
        BY <2>1, <2>7, <3>1, <3>2, <3>3
    <2>8. ASSUME NEW j
          PROVE  Holds(rest, j) <=> Holds(s, j) /\ j # i
      <3>1. ASSUME Holds(rest, j) PROVE Holds(s, j) /\ j # i
        <4>1. PICK k \in 1 .. Len(s) - 1 : rest[k] = j
          BY <2>6, <3>1 DEF Holds
        <4>2. PICK m \in 1 .. Len(s) : m # place /\ s[m] = j
          BY <1>1, <2>1, <4>1
        <4> QED
          BY <1>1, <2>1, <4>2 DEF Holds, Increasing
      <3>2. ASSUME Holds(s, j), j # i PROVE Holds(rest, j)
        <4>1. PICK k \in 1 .. Len(s) : s[k] = j
          BY <1>1, <3>2 DEF Holds
        <4>2. CASE k < place
          <5>1. k \in 1 .. Len(s) - 1 /\ rest[k] = j
            BY <1>1, <2>1, <4>1, <4>2
          <5> QED
            BY <2>6, <5>1 DEF Holds
        <4>3. CASE ~(k < place)
          <5>1. k - 1 \in 1 .. Len(s) - 1 /\ rest[k - 1] = j
            BY <1>1, <2>1, <3>2, <4>1, <4>3
          <5> QED
            BY <2>6, <5>1 DEF Holds
        <4> QED
          BY <4>2, <4>3
      <3> QED
        BY <3>1, <3>2
    <2>9. Increasing(rest)
      BY <2>7 DEF Increasing
    <2> HIDE DEF rest
    <2> QED
      BY <2>2, <2>5, <2>8, <2>9
  <1> QED
    BY <1>2, <1>3

-----------------------------------------------------------------------------
(* The worker of a repository *)

\* A repository without work.
LEMMA IdleWork ==
    /\ Idle.owner = 0 /\ Idle.stage = "idle" /\ Idle \notin Worker
    /\ \A i : ~Holds(Idle.waiters, i)
    /\ DOMAIN Idle.waiters = {}
  BY IdsAreNumbers DEF Idle, Worker, Stages, Holds

\* A repository that works has a worker's record.
LEMMA ActiveWork ==
    ASSUME TypeOK, NEW r \in Repositories
    PROVE  /\ r \in Active => active[r] \in Worker
           /\ active[r].stage # "idle" => r \in Active
           /\ r \notin Active => active[r] = Idle
  BY IdleWork DEF TypeOK, Active

\* A step that leaves who owns the work and who waits for it disturbs nothing
\* of the queues.
LEMMA WorkerKeeps ==
    ASSUME IndInv, NEW r \in Active, NEW w \in Worker,
           active' = [active EXCEPT ![r] = w],
           w.owner = active[r].owner, w.waiters = active[r].waiters,
           UNCHANGED <<handleVars, resultVars, channel, queues, generations, pc>>
    PROVE  /\ Active' = Active
           /\ active'[r] = w
           /\ \A q \in Repositories : q # r => active'[q] = active[q]
           /\ log' \in [Repositories -> Seq(Ids)]
              /\ tickets' \in [Repositories -> Seq(Ids)] => Types'
           /\ ChannelInOrder' /\ JobsFormed' /\ JobsInOrder'
           /\ WorkFormed' /\ WorkFirst' /\ Accounted' /\ GenerationsOrderViews'
  <1> USE DEF handleVars, resultVars
  <1>0. TypeOK /\ r \in Repositories /\ active \in [Repositories -> Worker \union {Idle}]
    BY DEF IndInv, Types, TypeOK, Active
  <1>1. /\ active'[r] = w
        /\ \A q \in Repositories : q # r => active'[q] = active[q]
        /\ active' \in [Repositories -> Worker \union {Idle}]
    BY <1>0
  <1>2. Active' = Active
    BY <1>0, <1>1, IdleWork DEF Active
  <1>3. \A q \in Repositories : /\ active'[q].owner = active[q].owner
                                /\ active'[q].waiters = active[q].waiters
    BY <1>1
  <1>4. log' \in [Repositories -> Seq(Ids)]
        /\ tickets' \in [Repositories -> Seq(Ids)] => Types'
    BY <1>1, <1>2 DEF IndInv, Types, TypeOK, Submitted
  <1>5. ChannelInOrder'
    BY <1>3 DEF IndInv, ChannelInOrder, Waits, Submitted
  <1>6. JobsFormed' /\ JobsInOrder'
    BY SMTT(60) DEF IndInv, JobsFormed, JobFormed, JobsInOrder, Before, Waits, Submitted,
           Repository, Mutation, IsKeyedRead, ReadKey
  <1>7. WorkFormed' /\ WorkFirst'
    BY <1>2, <1>3
    DEF IndInv, WorkFormed, WorkFirst, Waits, Submitted, Repository, Mutation,
        Active
  <1>8. Accounted'
    <2>1. \A i \in Submitted : Repository(i) \in Repositories
      BY ServiceConstants DEF IndInv, Types, TypeOK, Submitted, Repository
    <2> QED
      BY <1>3, <2>1 DEF IndInv, Accounted, Submitted, Repository, Holds
  <1>9. GenerationsOrderViews'
    BY DEF IndInv, GenerationsOrderViews, Submitted, Repository, Mutation
  <1> QED
    BY <1>1, <1>2, <1>4, <1>5, <1>6, <1>7, <1>8, <1>9

\* The end of a run, its completion, and the monitor's abandonment.
LEMMA RunEndsInv ==
    ASSUME IndInv, NEW r \in Repositories,
           \/ \E result \in {"ok", "error", "abandoned"} : Execute(r, result)
           \/ Send(r) \/ MonitorAbandons(r)
    PROVE  IndInv'
  <1>0. TypeOK
    BY DEF IndInv, Types
  <1>1. r \in Active /\ active[r] \in Worker
    BY <1>0, ActiveWork DEF Execute, Send, MonitorAbandons
  <1>2. PICK w \in Worker :
           /\ WorkerStep(r, w) /\ UNCHANGED <<tickets, log>>
           /\ w.owner = active[r].owner /\ w.waiters = active[r].waiters
           /\ w.generation = active[r].generation /\ w.saw = active[r].saw
           /\ w.executed = active[r].executed
           /\ w.stage = "waiting" <=> active[r].stage = "waiting"
           /\ w.stage = "executing" => active[r].stage = "executing"
           /\ w.abandoned =>
                 active[r].abandoned \/ AllCancelled(active[r].waiters)
           /\ active[r].abandoned => w.abandoned
           /\ w.result = "abandoned" => w.abandoned
           /\ w.result \in {"ok", "error"} =>
                 active[r].executed \/ active[r].stage = "executing"
           /\ w.stage \in {"ended", "sent", "reporting"} => w.result # "none"
    <2> DEFINE v == active[r]
    <2>1. \A result \in {"ok", "error", "abandoned"} : Execute(r, result) =>
             LET w == [v EXCEPT !.stage = "ended", !.result = result]
             IN  WorkerStep(r, w) /\ UNCHANGED <<tickets, log>> /\ w \in Worker
                 /\ v.stage = "executing" /\ (result = "abandoned" => v.abandoned)
      BY <1>1 DEF Execute, Worker, Stages
    <2>2. Send(r) =>
             LET w == [v EXCEPT !.stage = "sent"]
             IN  WorkerStep(r, w) /\ UNCHANGED <<tickets, log>> /\ w \in Worker
                 /\ v.stage = "ended"
      BY <1>1 DEF Send, Worker, Stages
    <2>3. MonitorAbandons(r) =>
             LET w == [v EXCEPT !.abandoned = TRUE]
             IN  WorkerStep(r, w) /\ UNCHANGED <<tickets, log>> /\ w \in Worker
                 /\ AllCancelled(v.waiters)
      BY <1>1 DEF MonitorAbandons, Worker
    <2>4. /\ v.result = "abandoned" => v.abandoned
          /\ v.result \in {"ok", "error"} => v.executed
          /\ v.stage \in {"ended", "sent", "reporting"} => v.result # "none"
      BY <1>1 DEF IndInv, WorkStaged
    <2>5. CASE \E result \in {"ok", "error", "abandoned"} : Execute(r, result)
      BY <1>1, <2>1, <2>4, <2>5, ZenonT(60) DEF Worker
    <2>6. CASE Send(r)
      BY <1>1, <2>2, <2>4, <2>6 DEF Worker
    <2>7. CASE MonitorAbandons(r)
      BY <1>1, <2>3, <2>4, <2>7 DEF Worker
    <2> QED
      BY <2>5, <2>6, <2>7
  <1>3. /\ UNCHANGED <<handleVars, resultVars, channel, queues, generations, pc>>
        /\ active' = [active EXCEPT ![r] = w]
    BY <1>2 DEF WorkerStep
  <1>4. /\ Active' = Active
        /\ active'[r] = w
        /\ \A q \in Repositories : q # r => active'[q] = active[q]
        /\ Types'
        /\ ChannelInOrder' /\ JobsFormed' /\ JobsInOrder'
        /\ WorkFormed' /\ WorkFirst' /\ Accounted' /\ GenerationsOrderViews'
    BY <1>0, <1>1, <1>2, <1>3, WorkerKeeps DEF TypeOK
  <1>5. WorkStaged'
    BY <1>1, <1>2, <1>3, <1>4
    DEF IndInv, WorkStaged, AllCancelled, Mutation, handleVars
  <1>6. Logged'
    BY <1>1, <1>2, <1>3, <1>4
    DEF IndInv, Logged, Submitted, Mutation, Repository, Holds, handleVars,
        resultVars
  <1>7. TicketsInOrder'
    BY <1>2, <1>3, <1>4
    DEF IndInv, TicketsInOrder, Holder, Ordered, Submitted, Repository, Holds,
        handleVars, resultVars
  <1>8. GenerationsCurrent'
    BY <1>2, <1>3, <1>4
    DEF IndInv, GenerationsCurrent, Shows, Submitted, Mutation, Repository,
        handleVars, resultVars
  <1> QED
    BY <1>4, <1>5, <1>6, <1>7, <1>8 DEF IndInv

\* The owner of work that has not begun waits for it, and is first in line.
LEMMA OwnerFirst ==
    ASSUME IndInv, NEW r \in Active, active[r].stage = "waiting"
    PROVE  LET i == active[r].owner
           IN  /\ i \in Ids /\ i \in Submitted /\ Repository(i) = r
               /\ ~Holds(channel, i)
               /\ \A k \in DOMAIN queues[r] : queues[r][k][1] # i
               /\ Ordered(i) => tickets[r] # <<>> /\ Head(tickets[r]) = i
  <1> DEFINE i == active[r].owner
  <1>1. r \in Repositories /\ active[r] \in Worker /\ i \in Ids
    BY ActiveWork DEF IndInv, Types, Active, Worker
  <1>2. i \in Submitted /\ Repository(i) = r
    BY DEF IndInv, WorkFormed
  <1>3. ~Holds(channel, i)
    BY <1>1 DEF IndInv, ChannelInOrder, Holds, Ids
  <1>4. \A k \in DOMAIN queues[r] : i < queues[r][k][1]
    BY DEF IndInv, WorkFirst
  <1>5. \A k \in DOMAIN queues[r] : queues[r][k][1] # i
    BY <1>1, <1>4 DEF Ids
  <1>6. ASSUME Ordered(i)
        PROVE  tickets[r] # <<>> /\ Head(tickets[r]) = i
    <2>1. tickets[r] \in Seq(Ids) /\ Increasing(tickets[r])
      BY <1>1 DEF IndInv, Types, TypeOK, TicketsInOrder
    <2>2. Holds(tickets[r], i)
      BY <1>1, <1>2, <1>6 DEF IndInv, TicketsInOrder, Holder
    <2>3. tickets[r] # <<>>
      BY <2>2 DEF Holds
    <2>4. /\ Head(tickets[r]) = tickets[r][1] /\ 1 \in DOMAIN tickets[r]
          /\ \A k \in DOMAIN tickets[r] : tickets[r][1] <= tickets[r][k]
      BY <2>1, <2>3, TailInOrder
    <2> DEFINE j == tickets[r][1]
    <2>5. j \in Ids /\ Holds(tickets[r], j) /\ j <= i
      <3>1. j \in Ids
        BY <2>1, <2>4, LenProperties
      <3>2. PICK k \in DOMAIN tickets[r] : tickets[r][k] = i
        BY <2>2 DEF Holds
      <3> QED
        BY <2>4, <3>1, <3>2 DEF Holds
    <2>6. Holder(r, j)
      BY <1>1, <2>5 DEF IndInv, TicketsInOrder
    <2> HIDE DEF j
    <2>7. CASE Holds(channel, j)
      <3>1. i < j
        BY <1>1, <2>7 DEF IndInv, ChannelInOrder, Holds
      <3> QED
        BY <1>1, <2>5, <3>1 DEF Ids
    <2>8. CASE \E k \in DOMAIN queues[r] : queues[r][k][1] = j
      BY <1>1, <1>4, <2>5, <2>8 DEF Ids
    <2> QED
      BY <2>3, <2>4, <2>6, <2>7, <2>8 DEF Holder, j
  <1> HIDE DEF i
  <1> QED
    BY <1>1, <1>2, <1>3, <1>5, <1>6 DEF i

\* Who keeps a ticket after a step that leaves the queues alone.
LEMMA HolderAfter ==
    ASSUME UNCHANGED <<op, channel, queues>>, NEW q, NEW j
    PROVE  Holder(q, j)' <=>
              /\ j \in Submitted /\ Ordered(j) /\ Repository(j) = q
              /\ \/ Holds(channel, j)
                 \/ \E k \in DOMAIN queues[q] : queues[q][k][1] = j
                 \/ active'[q].owner = j /\ active'[q].stage = "waiting"
  BY DEF Holder, Ordered, Submitted, Repository, Holds

\* An abandoned worker gives up its place in line.
LEMMA GiveUpInv ==
    ASSUME IndInv, NEW r \in Repositories, GiveUp(r)
    PROVE  IndInv'
  <1> DEFINE v == active[r]
             i == v.owner
             w == [v EXCEPT !.stage = "ended", !.result = "abandoned"]
  <1>0. TypeOK
    BY DEF IndInv, Types
  <1>1. r \in Active /\ v \in Worker /\ v.stage = "waiting" /\ v.abandoned
    BY <1>0, ActiveWork DEF GiveUp
  <1>2. /\ w \in Worker /\ w.owner = v.owner /\ w.waiters = v.waiters
        /\ w.generation = v.generation /\ w.executed = v.executed
        /\ w.abandoned /\ w.stage = "ended" /\ w.result = "abandoned"
    BY <1>1 DEF Worker, Stages
  <1>3. /\ UNCHANGED <<handleVars, resultVars, channel, queues, generations, pc, log>>
        /\ active' = [active EXCEPT ![r] = w]
    BY DEF GiveUp, WorkerStep
  <1>4. /\ i \in Ids /\ i \in Submitted /\ Repository(i) = r
        /\ ~Holds(channel, i)
        /\ \A k \in DOMAIN queues[r] : queues[r][k][1] # i
    BY <1>1, OwnerFirst
  <1>5. tickets' = [tickets EXCEPT ![r] = Without(tickets[r], i)]
    BY <1>4 DEF GiveUp, TicketsWithout
  <1>6. /\ tickets \in [Repositories -> Seq(Ids)]
        /\ \A q \in Repositories : Increasing(tickets[q])
    BY <1>0 DEF TypeOK, IndInv, TicketsInOrder
  <1>7. /\ tickets'[r] \in Seq(Ids) /\ Increasing(tickets'[r])
        /\ \A j : Holds(tickets'[r], j) <=> Holds(tickets[r], j) /\ j # i
        /\ \A q \in Repositories : q # r => tickets'[q] = tickets[q]
        /\ tickets' \in [Repositories -> Seq(Ids)]
    <2> HIDE DEF i
    <2>1. tickets'[r] = Without(tickets[r], i)
      BY <1>5, <1>6
    <2>2. /\ Without(tickets[r], i) \in Seq(Ids) /\ Increasing(Without(tickets[r], i))
          /\ \A j : Holds(Without(tickets[r], i), j) <=> Holds(tickets[r], j) /\ j # i
      BY <1>6, WithoutInOrder
    <2> QED
      BY <1>5, <1>6, <2>1, <2>2
  <1> HIDE DEF w
  <1>8. /\ Active' = Active
        /\ active'[r] = w
        /\ \A q \in Repositories : q # r => active'[q] = active[q]
        /\ Types'
        /\ ChannelInOrder' /\ JobsFormed' /\ JobsInOrder'
        /\ WorkFormed' /\ WorkFirst' /\ Accounted' /\ GenerationsOrderViews'
    BY <1>0, <1>1, <1>2, <1>3, <1>7, WorkerKeeps DEF TypeOK
  <1>9. WorkStaged'
    BY <1>1, <1>2, <1>3, <1>8
    DEF IndInv, WorkStaged, AllCancelled, Mutation, handleVars
  <1>10. Logged'
    BY <1>1, <1>2, <1>3, <1>8
    DEF IndInv, Logged, Submitted, Mutation, Repository, Holds, handleVars,
        resultVars
  <1>11. TicketsInOrder'
    <2>1. ASSUME NEW q \in Repositories, NEW j \in Ids
          PROVE  Holds(tickets'[q], j) <=> Holder(q, j)'
      <3>1. Holds(tickets[q], j) <=> Holder(q, j)
        BY DEF IndInv, TicketsInOrder
      <3>2. UNCHANGED <<op, channel, queues>>
        BY <1>3 DEF handleVars
      <3>3. Holder(q, j)' <=>
               /\ j \in Submitted /\ Ordered(j) /\ Repository(j) = q
               /\ \/ Holds(channel, j)
                  \/ \E k \in DOMAIN queues[q] : queues[q][k][1] = j
                  \/ active'[q].owner = j /\ active'[q].stage = "waiting"
        BY <3>2, HolderAfter
      <3>4. CASE q = r
        <4>1. active'[q].stage # "waiting"
          BY <1>2, <1>8, <3>4
        <4>2. Holds(tickets'[q], j) <=> Holds(tickets[q], j) /\ j # i
          BY <1>7, <3>4
        <4>3. j = i => /\ ~Holds(channel, j)
                       /\ \A k \in DOMAIN queues[q] : queues[q][k][1] # j
          BY <1>4, <3>4
        <4> QED
          BY <3>1, <3>3, <3>4, <4>1, <4>2, <4>3 DEF Holder
      <3>5. CASE q # r
        BY <1>7, <1>8, <3>1, <3>3, <3>5 DEF Holder
      <3> QED
        BY <3>4, <3>5
    <2>2. \A q \in Repositories : Increasing(tickets'[q])
      BY <1>6, <1>7
    <2> QED
      BY <2>1, <2>2 DEF TicketsInOrder
  <1>12. GenerationsCurrent'
    BY <1>2, <1>3, <1>8
    DEF IndInv, GenerationsCurrent, Shows, Submitted, Mutation, Repository,
        handleVars, resultVars
  <1> QED
    BY <1>8, <1>9, <1>10, <1>11, <1>12 DEF IndInv

\* The work of a repository begins, and a mutation is logged.
LEMMA AcquireInv ==
    ASSUME IndInv, NEW r \in Repositories, Acquire(r)
    PROVE  IndInv'
  <1> DEFINE v == active[r]
             i == v.owner
             w == [v EXCEPT !.stage = "executing", !.executed = TRUE,
                            !.saw = log[r]]
  <1>0. TypeOK /\ log \in [Repositories -> Seq(Ids)]
        /\ tickets \in [Repositories -> Seq(Ids)]
        /\ \A q \in Repositories : Increasing(tickets[q])
    BY DEF IndInv, Types, TypeOK, TicketsInOrder
  <1>1. r \in Active /\ v \in Worker /\ v.stage = "waiting"
    BY <1>0, ActiveWork DEF Acquire
  <1>2. /\ w \in Worker /\ w.owner = v.owner /\ w.waiters = v.waiters
        /\ w.generation = v.generation /\ w.executed /\ w.saw = log[r]
        /\ w.abandoned = v.abandoned /\ w.stage = "executing"
        /\ w.result = v.result
    BY <1>0, <1>1 DEF Worker, Stages
  <1>3. /\ UNCHANGED <<handleVars, resultVars, channel, queues, generations, pc>>
        /\ active' = [active EXCEPT ![r] = w]
        /\ log' = IF Mutation(i) THEN [log EXCEPT ![r] = Append(log[r], i)]
                  ELSE log
        /\ tickets' = IF Ordered(i) THEN [tickets EXCEPT ![r] = Tail(tickets[r])]
                      ELSE tickets
    BY DEF Acquire, WorkerStep, Ordered
  <1>4. /\ i \in Ids /\ i \in Submitted /\ Repository(i) = r
        /\ ~Holds(channel, i)
        /\ \A k \in DOMAIN queues[r] : queues[r][k][1] # i
        /\ Ordered(i) => tickets[r] # <<>> /\ Head(tickets[r]) = i
    BY <1>1, OwnerFirst
  <1>5. /\ \A q \in Repositories : q # r => tickets'[q] = tickets[q]
        /\ tickets' \in [Repositories -> Seq(Ids)] /\ Increasing(tickets'[r])
        /\ \A j : Holds(tickets'[r], j) <=>
                     Holds(tickets[r], j) /\ (Ordered(i) => j # i)
    <2> HIDE DEF i
    <2>1. CASE Ordered(i)
      <3>1. /\ Tail(tickets[r]) \in Seq(Ids) /\ Increasing(Tail(tickets[r]))
            /\ \A j : Holds(Tail(tickets[r]), j) <=> Holds(tickets[r], j) /\ j # i
        BY <1>0, <1>4, <2>1, TailInOrder
      <3>2. tickets'[r] = Tail(tickets[r])
        BY <1>0, <1>3, <2>1
      <3> QED
        BY <1>0, <1>3, <2>1, <3>1, <3>2
    <2>2. CASE ~Ordered(i)
      BY <1>0, <1>3, <2>2
    <2> QED
      BY <2>1, <2>2
  <1>6. /\ log' \in [Repositories -> Seq(Ids)]
        /\ \A q \in Repositories : q # r => log'[q] = log[q]
        /\ ~Mutation(i) => log' = log
        /\ Mutation(i) =>
              /\ Len(log'[r]) = Len(log[r]) + 1
              /\ \A k \in DOMAIN log'[r] :
                    log'[r][k] = i \/ \E l \in DOMAIN log[r] : log'[r][k] = log[r][l]
              /\ Holds(log'[r], i)
              /\ \A j : Holds(log[r], j) => Holds(log'[r], j)
    <2> HIDE DEF i
    <2>1. CASE Mutation(i)
      <3>1. log'[r] = Append(log[r], i)
        BY <1>0, <1>3, <2>1
      <3>2. /\ Append(log[r], i) \in Seq(Ids)
            /\ Len(Append(log[r], i)) = Len(log[r]) + 1
            /\ \A j : Holds(Append(log[r], i), j) <=> Holds(log[r], j) \/ j = i
        BY <1>0, <1>4, AppendInOrder, AppendProperties
      <3> QED
        BY <1>0, <1>3, <2>1, <3>1, <3>2 DEF Holds
    <2>2. CASE ~Mutation(i)
      BY <1>0, <1>3, <2>2
    <2> QED
      BY <2>1, <2>2
  <1> HIDE DEF w
  <1>7. /\ Active' = Active
        /\ active'[r] = w
        /\ \A q \in Repositories : q # r => active'[q] = active[q]
        /\ Types'
        /\ ChannelInOrder' /\ JobsFormed' /\ JobsInOrder'
        /\ WorkFormed' /\ WorkFirst' /\ Accounted' /\ GenerationsOrderViews'
    BY <1>0, <1>1, <1>2, <1>3, <1>5, <1>6, WorkerKeeps, ZenonT(60)
  <1>8. WorkStaged'
    BY <1>1, <1>2, <1>3, <1>6, <1>7
    DEF IndInv, WorkStaged, AllCancelled, Mutation, handleVars
  <1>9. Logged'
    <2>1. \A q \in Repositories : \A k \in DOMAIN log[q] :
             LET m == log[q][k]
             IN  /\ m \in Submitted /\ Mutation(m) /\ Repository(m) = q
                 /\ answer[m] # "none"
                    \/ (active[q].owner = m /\ active[q].executed)
      BY DEF IndInv, Logged
    <2>2. UNCHANGED <<op, answer>>
      BY <1>3 DEF handleVars, resultVars
    <2>3. ASSUME NEW q \in Repositories, NEW k \in DOMAIN log'[q]
          PROVE  LET m == log'[q][k]
                 IN  /\ m \in Submitted /\ Mutation(m) /\ Repository(m) = q
                     /\ answer[m] # "none"
                        \/ (active'[q].owner = m /\ active'[q].executed)
      BY <1>2, <1>4, <1>6, <1>7, <2>1
    <2>4. \A q \in Active : active'[q].executed /\ Mutation(active'[q].owner) =>
             Holds(log'[q], active'[q].owner)
      <3>1. \A q \in Active : active[q].executed /\ Mutation(active[q].owner) =>
               Holds(log[q], active[q].owner)
        BY DEF IndInv, Logged
      <3> QED
        BY <1>2, <1>6, <1>7, <3>1 DEF Active
    <2> QED
      BY <1>7, <2>2, <2>3, <2>4 DEF Logged, Submitted, Mutation, Repository
  <1>10. TicketsInOrder'
    <2>1. ASSUME NEW q \in Repositories, NEW j \in Ids
          PROVE  Holds(tickets'[q], j) <=> Holder(q, j)'
      <3>1. Holds(tickets[q], j) <=> Holder(q, j)
        BY DEF IndInv, TicketsInOrder
      <3>2. UNCHANGED <<op, channel, queues>>
        BY <1>3 DEF handleVars
      <3>3. Holder(q, j)' <=>
               /\ j \in Submitted /\ Ordered(j) /\ Repository(j) = q
               /\ \/ Holds(channel, j)
                  \/ \E k \in DOMAIN queues[q] : queues[q][k][1] = j
                  \/ active'[q].owner = j /\ active'[q].stage = "waiting"
        BY <3>2, HolderAfter
      <3>4. CASE q = r
        <4>1. active'[q].stage # "waiting"
          BY <1>2, <1>7, <3>4
        <4>2. Holds(tickets'[q], j) <=>
                 Holds(tickets[q], j) /\ (Ordered(i) => j # i)
          BY <1>5, <3>4
        <4>3. j = i => /\ ~Holds(channel, j)
                       /\ \A k \in DOMAIN queues[q] : queues[q][k][1] # j
          BY <1>4, <3>4
        <4> QED
          BY <3>1, <3>3, <3>4, <4>1, <4>2, <4>3 DEF Holder
      <3>5. CASE q # r
        BY <1>5, <1>7, <3>1, <3>3, <3>5 DEF Holder
      <3> QED
        BY <3>4, <3>5
    <2>2. \A q \in Repositories : Increasing(tickets'[q])
      BY <1>0, <1>5
    <2> QED
      BY <2>1, <2>2 DEF TicketsInOrder
  <1>11. GenerationsCurrent'
    <2>1. \A q \in Repositories : Len(log[q]) \in Nat
      BY <1>0, LenProperties
    <2>2. ASSUME NEW j \in Submitted, Shows(j)
          PROVE  /\ stamp[j] <= generations[Repository(j)]
                 /\ Len(view[j]) <= Len(log'[Repository(j)])
                 /\ stamp[j] = generations[Repository(j)] =>
                       /\ Len(view[j]) = Len(log'[Repository(j)])
                       /\ Repository(j) \in Active =>
                             ~Mutation(active'[Repository(j)].owner)
      <3>1. /\ stamp[j] <= generations[Repository(j)]
            /\ Len(view[j]) <= Len(log[Repository(j)])
            /\ stamp[j] = generations[Repository(j)] =>
                  /\ Len(view[j]) = Len(log[Repository(j)])
                  /\ Repository(j) \in Active =>
                        ~Mutation(active[Repository(j)].owner)
        BY <2>2 DEF IndInv, GenerationsCurrent
      <3>2. Repository(j) \in Repositories
        BY ServiceConstants, <1>0 DEF TypeOK, Submitted, Repository
      <3>3. Len(view[j]) \in Nat
        BY LenProperties DEF IndInv, Types, TypeOK, Submitted
      <3> QED
        BY <1>1, <1>2, <1>6, <1>7, <2>1, <3>1, <3>2, <3>3
    <2> QED
      BY <1>3, <1>7, <2>2
      DEF GenerationsCurrent, Shows, Submitted, Mutation, Repository,
          handleVars, resultVars
  <1> QED
    BY <1>7, <1>8, <1>9, <1>10, <1>11 DEF IndInv

-----------------------------------------------------------------------------
(* The editor, and the scheduler when it starts and reports nothing *)

\* A cancellation, or a step of the scheduler's own.
LEMMA QuietInv ==
    ASSUME IndInv, flagged \subseteq flagged', flagged' \subseteq Submitted,
           UNCHANGED <<op, resultVars, log, channel, tickets, queues, active,
                       generations>>,
           dropped' \in BOOLEAN, pc' \in {"drain", "start", "wait", "stopped"}
    PROVE  IndInv'
  <1> USE DEF resultVars
  <1>1. Types'
    BY DEF IndInv, Types, TypeOK, Submitted, Active
  <1>2. ChannelInOrder' /\ JobsFormed' /\ JobsInOrder'
    BY SMTT(60) DEF IndInv, ChannelInOrder, JobsFormed, JobFormed, JobsInOrder, Before,
           Waits, Submitted, Repository, Mutation, IsKeyedRead, ReadKey
  <1>3. WorkFormed' /\ WorkFirst'
    BY DEF IndInv, WorkFormed, WorkFirst, Waits, Submitted, Repository,
           Mutation, Active
  <1>4. WorkStaged'
    BY DEF IndInv, WorkStaged, AllCancelled, Mutation, Active
  <1>5. Accounted' /\ Logged'
    BY DEF IndInv, Accounted, Logged, Submitted, Repository, Holds, Mutation,
           Active
  <1>6. TicketsInOrder'
    BY HolderAfter DEF IndInv, TicketsInOrder, Holder
  <1>7. GenerationsCurrent' /\ GenerationsOrderViews'
    BY DEF IndInv, GenerationsCurrent, GenerationsOrderViews, Shows, Submitted,
           Mutation, Repository, Active
  <1> QED
    BY <1>1, <1>2, <1>3, <1>4, <1>5, <1>6, <1>7 DEF IndInv

\* What Append does to the four sequences of the requests.
LEMMA OneMore ==
    ASSUME NEW S, NEW s \in Seq(S), NEW e \in S
    PROVE  /\ Append(s, e) \in Seq(S)
           /\ DOMAIN Append(s, e) = DOMAIN s \union {Len(s) + 1}
           /\ Len(Append(s, e)) = Len(s) + 1
           /\ Len(s) + 1 \notin DOMAIN s
           /\ \A k \in DOMAIN s : Append(s, e)[k] = s[k]
           /\ Append(s, e)[Len(s) + 1] = e
           /\ DOMAIN s = 1 .. Len(s) /\ Len(s) \in Nat
  BY AppendProperties, LenProperties

\* A new request is the last of the channel, or refused.
LEMMA SubmitInv ==
    ASSUME IndInv, NEW o \in Operations, Submit(o)
    PROVE  IndInv'
  <1>0. /\ op \in Seq(Operations) /\ answer \in Seq(States)
        /\ view \in Seq(Seq(Ids)) /\ stamp \in Seq(Nat)
        /\ Len(answer) = Len(op) /\ Len(view) = Len(op) /\ Len(stamp) = Len(op)
        /\ channel \in Seq(Ids) /\ tickets \in [Repositories -> Seq(Ids)]
        /\ \A r \in Repositories : Increasing(tickets[r])
        /\ Increasing(channel)
    <2>1. op \in Seq(Operations) /\ answer \in Seq(States)
          /\ view \in Seq(Seq(Ids)) /\ stamp \in Seq(Nat)
          /\ DOMAIN answer = DOMAIN op /\ DOMAIN view = DOMAIN op
          /\ DOMAIN stamp = DOMAIN op
      BY DEF IndInv, Types, TypeOK, Submitted
    <2>2. Len(answer) = Len(op) /\ Len(view) = Len(op) /\ Len(stamp) = Len(op)
      BY <2>1, LenProperties
    <2> QED
      BY <2>1, <2>2 DEF IndInv, Types, TypeOK, TicketsInOrder, ChannelInOrder
  <1>a. PICK n \in Ids : n = Len(op) + 1
    BY <1>0, LenProperties, ServiceConstants DEF Submit, Ids
  <1>1. n = Len(op) + 1 /\ DOMAIN op = 1 .. Len(op) /\ Len(op) \in Nat
        /\ \A j \in Submitted : j < n /\ j \in Ids
    BY <1>0, <1>a, LenProperties, ServiceConstants DEF Ids, Submitted
  <1>2. /\ op' \in Seq(Operations) /\ Len(op') <= MaxRequests
        /\ Submitted' = Submitted \union {n} /\ n \notin Submitted
        /\ \A j \in Submitted : op'[j] = op[j]
        /\ op'[n] = o
    <2>1. op' = Append(op, o) /\ Len(op) < MaxRequests
      BY DEF Submit
    <2>2. /\ Append(op, o) \in Seq(Operations)
          /\ DOMAIN Append(op, o) = DOMAIN op \union {Len(op) + 1}
          /\ Len(Append(op, o)) = Len(op) + 1
          /\ Len(op) + 1 \notin DOMAIN op
          /\ \A k \in DOMAIN op : Append(op, o)[k] = op[k]
          /\ Append(op, o)[Len(op) + 1] = o
      BY <1>0, OneMore
    <2> QED
      BY <1>1, <2>1, <2>2, ServiceConstants DEF Submitted
  <1>3. /\ answer' \in Seq(States) /\ DOMAIN answer' = Submitted'
        /\ \A j \in Submitted : answer'[j] = answer[j]
        /\ answer'[n] = IF Len(channel) < Capacity THEN "none" ELSE "refused"
    <2>1. answer' = Append(answer, IF Len(channel) < Capacity THEN "none"
                                   ELSE "refused")
      BY DEF Submit
    <2>2. (IF Len(channel) < Capacity THEN "none" ELSE "refused") \in States
      BY DEF States
    <2> QED
      BY <1>0, <1>1, <1>2, <2>1, <2>2, OneMore DEF Submitted
  <1>4. /\ view' \in Seq(Seq(Ids)) /\ stamp' \in Seq(Nat)
        /\ DOMAIN view' = Submitted' /\ DOMAIN stamp' = Submitted'
        /\ \A j \in Submitted : view'[j] = view[j] /\ stamp'[j] = stamp[j]
    <2>1. view' = Append(view, <<>>) /\ stamp' = Append(stamp, 0)
      BY DEF Submit
    <2>2. <<>> \in Seq(Ids) /\ 0 \in Nat
      BY EmptySeq
    <2>3. /\ Append(view, <<>>) \in Seq(Seq(Ids))
          /\ DOMAIN Append(view, <<>>) = DOMAIN view \union {Len(view) + 1}
          /\ \A k \in DOMAIN view : Append(view, <<>>)[k] = view[k]
          /\ DOMAIN view = 1 .. Len(view)
      BY <1>0, <2>2, OneMore
    <2>4. /\ Append(stamp, 0) \in Seq(Nat)
          /\ DOMAIN Append(stamp, 0) = DOMAIN stamp \union {Len(stamp) + 1}
          /\ \A k \in DOMAIN stamp : Append(stamp, 0)[k] = stamp[k]
          /\ DOMAIN stamp = 1 .. Len(stamp)
      BY <1>0, <2>2, OneMore
    <2> HIDE DEF Submit
    <2> QED
      BY <1>0, <1>1, <1>2, <2>1, <2>3, <2>4 DEF Submitted
  <1>5. UNCHANGED <<dropped, flagged, log, queues, active, generations, pc>>
    BY DEF Submit
  <1>6. /\ channel' \in Seq(Ids) /\ Len(channel') <= Capacity
        /\ Increasing(channel')
        /\ \A j : Holds(channel', j) <=> \/ Holds(channel, j)
                                         \/ j = n /\ answer'[n] = "none"
    <2>1. \A k \in DOMAIN channel : channel[k] < n
      BY <1>1 DEF IndInv, ChannelInOrder, Waits
    <2>2. CASE Len(channel) < Capacity
      <3>1. channel' = Append(channel, n)
        BY <1>1, <2>2 DEF Submit
      <3>2. Len(channel') = Len(channel) + 1 /\ Len(channel) \in Nat
        BY <1>0, <1>1, <3>1, OneMore
      <3>3. /\ channel' \in Seq(Ids) /\ Increasing(channel')
            /\ \A j : Holds(channel', j) <=> Holds(channel, j) \/ j = n
        BY <1>0, <1>1, <2>1, <3>1, AppendInOrder
      <3> QED
        BY <1>3, <2>2, <3>2, <3>3, ServiceConstants
    <2>3. CASE ~(Len(channel) < Capacity)
      BY <1>0, <1>3, <2>3 DEF Submit, IndInv, Types, TypeOK
    <2> QED
      BY <2>2, <2>3
  <1>7. /\ tickets' \in [Repositories -> Seq(Ids)]
        /\ \A r \in Repositories :
              /\ Increasing(tickets'[r])
              /\ \A j : Holds(tickets'[r], j) <=>
                    \/ Holds(tickets[r], j)
                    \/ /\ j = n /\ answer'[n] = "none"
                       /\ o.kind # "discover" /\ o.repository = r
    <2>1. o.repository \in Repositories
      BY ServiceConstants
    <2>2. ASSUME NEW r \in Repositories, NEW k \in DOMAIN tickets[r]
          PROVE  tickets[r][k] < n
      <3>1. tickets[r][k] \in Ids
        BY <1>0, LenProperties
      <3>2. Holds(tickets[r], tickets[r][k])
        BY DEF Holds
      <3> QED
        BY <1>1, <3>1, <3>2 DEF IndInv, TicketsInOrder, Holder
    <2>3. CASE Len(channel) < Capacity /\ o.kind # "discover"
      <3> DEFINE r == o.repository
      <3>1. tickets' = [tickets EXCEPT ![r] = Append(tickets[r], n)]
        BY <1>1, <2>3 DEF Submit
      <3>2. /\ Append(tickets[r], n) \in Seq(Ids)
            /\ Increasing(Append(tickets[r], n))
            /\ \A j : Holds(Append(tickets[r], n), j) <=>
                         Holds(tickets[r], j) \/ j = n
        BY <1>0, <1>1, <2>1, <2>2, AppendInOrder
      <3> QED
        BY <1>0, <1>3, <2>1, <2>3, <3>1, <3>2
    <2>4. CASE ~(Len(channel) < Capacity /\ o.kind # "discover")
      BY <1>0, <1>3, <2>4 DEF Submit
    <2> QED
      BY <2>3, <2>4
  <1>8. Types'
    BY <1>2, <1>3, <1>4, <1>5, <1>6, <1>7
    DEF IndInv, Types, TypeOK, Active, States
  <1>9. ChannelInOrder'
    <2>1. ASSUME NEW k \in DOMAIN channel'
          PROVE  /\ channel'[k] \in Submitted' /\ answer'[channel'[k]] = "none"
                 /\ channel'[k] = n \/ \E l \in DOMAIN channel :
                                         channel'[k] = channel[l]
      <3>1. Holds(channel', channel'[k])
        BY DEF Holds
      <3>2. Holds(channel, channel'[k]) \/ (channel'[k] = n /\ answer'[n] = "none")
        BY <1>6, <3>1
      <3> QED
        BY <1>2, <1>3, <3>2 DEF IndInv, ChannelInOrder, Holds, Waits
    <2>2. \A r \in Repositories :
             /\ \A l \in DOMAIN queues[r] : \A a \in DOMAIN queues[r][l] :
                   queues[r][l][a] < n
             /\ \A a \in DOMAIN active[r].waiters : active[r].waiters[a] < n
             /\ active[r].owner < n
      <3>1. \A r \in Repositories : \A l \in DOMAIN queues[r] :
               \A a \in DOMAIN queues[r][l] : queues[r][l][a] \in Submitted
        BY DEF IndInv, JobsFormed, JobFormed, Waits
      <3>2. \A r \in Active :
               /\ \A a \in DOMAIN active[r].waiters :
                     active[r].waiters[a] \in Submitted
               /\ active[r].owner \in Submitted
        BY DEF IndInv, WorkFormed, Waits
      <3>3. \A r \in Repositories : r \notin Active =>
               DOMAIN active[r].waiters = {} /\ active[r].owner < n
        BY <1>1, IdsAreNumbers, IdleWork, ActiveWork DEF IndInv, Types
      <3> QED
        BY <1>1, <3>1, <3>2, <3>3 DEF Active
    <2>3. Increasing(channel')
      BY <1>6
    <2> QED
      BY <1>5, <2>1, <2>2, <2>3 DEF IndInv, ChannelInOrder, Waits
  <1>10. /\ \A j : Waits(j) => Waits(j)' /\ j \in Submitted
         /\ \A j \in Submitted :
               /\ Repository(j)' = Repository(j) /\ Mutation(j)' = Mutation(j)
               /\ ReadKey(j)' = ReadKey(j) /\ Ordered(j)' = Ordered(j)
               /\ Shows(j)' = Shows(j)
    BY <1>2, <1>3 DEF Waits, Repository, Mutation, ReadKey, Ordered, Shows
  <1>11. /\ JobsFormed' /\ JobsInOrder'
         /\ \A r \in Repositories : \A k \in DOMAIN queues[r] :
               queues[r][k][1] \in Submitted
    <2>1. ASSUME NEW r \in Repositories, NEW k \in DOMAIN queues[r]
          PROVE  /\ JobFormed(r, queues[r][k])'
                 /\ queues[r][k][1] \in Submitted
      <3> DEFINE job == queues[r][k]
      <3>1. JobFormed(r, job)
        BY DEF IndInv, JobsFormed
      <3>2. 1 \in DOMAIN job
        <4>1. job \in Seq(Ids)
          BY LenProperties DEF IndInv, Types, TypeOK
        <4> QED
          BY <3>1, <4>1, TailInOrder DEF JobFormed
      <3>3. \A a \in DOMAIN job : job[a] \in Submitted
        BY <3>1 DEF JobFormed, Waits
      <3>4. /\ \A a \in DOMAIN job : Waits(job[a])' /\ op'[job[a]] = op'[job[1]]
            /\ Repository(job[1])' = r
            /\ IsKeyedRead(job)' = IsKeyedRead(job)
        BY <1>2, <1>5, <1>10, <3>1, <3>2, <3>3
        DEF JobFormed, IsKeyedRead, Waits, Repository, ReadKey, Mutation
      <3> QED
        BY <1>5, <3>1, <3>2, <3>3, <3>4 DEF JobFormed, Increasing
    <2>2. JobsFormed'
      BY <1>5, <2>1 DEF JobsFormed
    <2>3. JobsInOrder'
      BY <1>5, <1>10, <2>1 DEF IndInv, JobsInOrder, Before
    <2> QED
      BY <2>1, <2>2, <2>3
  <1>12. WorkFormed' /\ WorkFirst'
    <2>1. Active' = Active
      BY <1>5 DEF Active
    <2>2. \A r \in Active : active[r].owner \in Submitted
             /\ \A a \in DOMAIN active[r].waiters :
                   active[r].waiters[a] \in Submitted
      BY DEF IndInv, WorkFormed, Waits
    <2>3. WorkFormed'
      BY <1>2, <1>5, <1>10, <2>1, <2>2
      DEF IndInv, WorkFormed, Waits, Repository, Mutation
    <2>4. \A r \in Active : \A k \in DOMAIN queues[r] :
             queues[r][k][1] \in Submitted
      BY <1>11 DEF Active
    <2>5. WorkFirst'
      BY <1>5, <1>10, <2>1, <2>2, <2>4 DEF IndInv, WorkFirst
    <2> QED
      BY <2>3, <2>5
  <1>13. WorkStaged'
    <2>1. \A r \in Active : active[r].owner \in Submitted
      BY DEF IndInv, WorkFormed
    <2> QED
      BY <1>5, <1>10, <2>1 DEF IndInv, WorkStaged, AllCancelled, Active
  <1>14. Accounted'
    BY <1>2, <1>3, <1>5, <1>6, <1>10 DEF IndInv, Accounted
  <1>15. Logged'
    <2>1. \A r \in Active : active[r].owner \in Submitted
      BY DEF IndInv, WorkFormed
    <2>2. Active' = Active
      BY <1>5 DEF Active
    <2> QED
      BY <1>2, <1>3, <1>5, <1>10, <2>1, <2>2 DEF IndInv, Logged, Holds
  <1>16. TicketsInOrder'
    <2>1. ASSUME NEW r \in Repositories, NEW j \in Ids
          PROVE  Holds(tickets'[r], j) <=> Holder(r, j)'
      <3>1. Holds(tickets[r], j) <=> Holder(r, j)
        BY DEF IndInv, TicketsInOrder
      <3>2. CASE j = n
        <4>1. ~Holds(tickets[r], j)
          BY <1>2, <3>1, <3>2 DEF Holder
        <4>2. Ordered(j)' <=> o.kind # "discover"
          BY <1>2, <3>2 DEF Ordered
        <4>3. Repository(j)' = o.repository
          BY <1>2, <3>2 DEF Repository
        <4>4. ~(\E k \in DOMAIN queues[r] : queues[r][k][1] = j)
              /\ ~(active[r].owner = j /\ active[r].stage = "waiting")
          <5>1. \A k \in DOMAIN queues[r] : queues[r][k][1] \in Submitted
            BY <1>11
          <5>2. active[r].stage = "waiting" => active[r].owner \in Submitted
            BY OwnerFirst, ActiveWork DEF IndInv, Types
          <5> QED
            BY <1>2, <3>2, <5>1, <5>2
        <4>5. Holder(r, j)' <=>
                 j \in Submitted' /\ Ordered(j)' /\ Repository(j)' = r
                 /\ Holds(channel', j)
          BY <1>5, <4>4 DEF Holder
        <4>6. Holds(channel', j) <=> answer'[n] = "none"
          <5>1. ~Holds(channel, j)
            BY <1>2, <3>2 DEF IndInv, ChannelInOrder, Holds, Waits
          <5> QED
            BY <1>6, <3>2, <5>1
        <4> QED
          BY <1>2, <1>7, <3>2, <4>1, <4>2, <4>3, <4>5, <4>6
      <3>3. CASE j # n
        BY <1>2, <1>5, <1>6, <1>7, <1>10, <3>1, <3>3 DEF Holder
      <3> QED
        BY <3>2, <3>3
    <2> QED
      BY <1>7, <2>1 DEF TicketsInOrder
  <1>17. GenerationsCurrent' /\ GenerationsOrderViews'
    <2>1. ~Shows(n)'
      BY <1>3 DEF Shows
    <2>2. Active' = Active /\ \A r \in Active : active[r].owner \in Submitted
      BY <1>5 DEF Active, IndInv, WorkFormed
    <2>3. GenerationsCurrent'
      BY <1>2, <1>4, <1>5, <1>10, <2>1, <2>2 DEF IndInv, GenerationsCurrent
    <2>4. GenerationsOrderViews'
      BY <1>2, <1>4, <1>10, <2>1 DEF IndInv, GenerationsOrderViews, Shows
    <2> QED
      BY <2>3, <2>4
  <1> QED
    BY <1>8, <1>9, <1>11, <1>12, <1>13, <1>14, <1>15, <1>16, <1>17 DEF IndInv

-----------------------------------------------------------------------------
(* Nothing waits twice *)

\* What IndInv says of a queued job.
LEMMA QueuedJob ==
    ASSUME IndInv, NEW r \in Repositories, NEW k \in DOMAIN queues[r]
    PROVE  LET job == queues[r][k]
           IN  /\ job \in Seq(Ids) /\ job # <<>> /\ Increasing(job)
               /\ 1 \in DOMAIN job /\ Head(job) = job[1] /\ job[1] \in Ids
               /\ DOMAIN job = 1 .. Len(job) /\ Len(job) \in Nat \ {0}
               /\ \A a \in DOMAIN job :
                     /\ job[a] \in Ids /\ Waits(job[a])
                     /\ op[job[a]] = op[job[1]]
                     /\ Repository(job[a]) = r
                     /\ job[1] <= job[a]
               /\ ~IsKeyedRead(job) => Len(job) = 1
               /\ Mutation(job[1]) => Len(job) = 1
  <1> DEFINE job == queues[r][k]
  <1>1. job \in Seq(Ids)
    BY LenProperties DEF IndInv, Types, TypeOK
  <1>2. JobFormed(r, job)
    BY DEF IndInv, JobsFormed
  <1> HIDE DEF job
  <1>3. /\ 1 \in DOMAIN job /\ Head(job) = job[1]
        /\ \A a \in DOMAIN job : job[1] <= job[a]
    BY <1>1, <1>2, TailInOrder DEF JobFormed
  <1>4. /\ DOMAIN job = 1 .. Len(job) /\ Len(job) \in Nat \ {0}
        /\ \A a \in DOMAIN job : job[a] \in Ids
    BY <1>1, <1>3, LenProperties
  <1>5. Mutation(job[1]) => ~IsKeyedRead(job)
    BY DEF IsKeyedRead, ReadKey
  <1>6. \A a \in DOMAIN job : Repository(job[a]) = r
    BY <1>2 DEF JobFormed, Repository
  <1> QED
    BY <1>1, <1>2, <1>3, <1>4, <1>5, <1>6 DEF JobFormed, job

\* And of the work of a repository.
LEMMA Working ==
    ASSUME IndInv, NEW r \in Active
    PROVE  LET w == active[r]
               s == w.waiters
           IN  /\ r \in Repositories /\ w \in Worker
               /\ s \in Seq(Ids) /\ s # <<>> /\ Increasing(s)
               /\ 1 \in DOMAIN s /\ Head(s) = s[1] /\ s[1] \in Ids
               /\ DOMAIN s = 1 .. Len(s) /\ Len(s) \in Nat \ {0}
               /\ \A a \in DOMAIN s :
                     /\ s[a] \in Ids /\ Waits(s[a]) /\ op[s[a]] = op[w.owner]
                     /\ Repository(s[a]) = r
               /\ w.owner \in Ids /\ w.owner \in Submitted
               /\ Repository(w.owner) = r
               /\ Mutation(w.owner) => s = <<w.owner>>
  <1> DEFINE w == active[r]
             s == w.waiters
  <1>1. r \in Repositories /\ w \in Worker
    BY ActiveWork DEF IndInv, Types, Active
  <1>2. s \in Seq(Ids) /\ w.owner \in Ids
    BY <1>1 DEF Worker
  <1>3. /\ s # <<>> /\ Increasing(s)
        /\ \A a \in DOMAIN s : Waits(s[a]) /\ op[s[a]] = op[w.owner]
        /\ w.owner \in Submitted /\ Repository(w.owner) = r
        /\ Mutation(w.owner) => s = <<w.owner>>
    BY DEF IndInv, WorkFormed
  <1> HIDE DEF w, s
  <1>4. 1 \in DOMAIN s /\ Head(s) = s[1]
    BY <1>2, <1>3, TailInOrder
  <1>5. /\ DOMAIN s = 1 .. Len(s) /\ Len(s) \in Nat \ {0}
        /\ \A a \in DOMAIN s : s[a] \in Ids
    BY <1>2, <1>4, LenProperties
  <1>6. \A a \in DOMAIN s : Repository(s[a]) = r
    BY <1>3 DEF Repository
  <1> QED
    BY <1>1, <1>2, <1>3, <1>4, <1>5, <1>6 DEF w, s

\* Who waits for the work of a repository waits nowhere else.
LEMMA WorkApart ==
    ASSUME IndInv, NEW r \in Active, NEW i, Holds(active[r].waiters, i)
    PROVE  /\ ~Holds(channel, i)
           /\ \A q \in Repositories : \A k \in DOMAIN queues[q] :
                 ~Holds(queues[q][k], i)
           /\ \A q \in Repositories : q # r => ~Holds(active[q].waiters, i)
  <1>1. PICK a \in DOMAIN active[r].waiters : active[r].waiters[a] = i
    BY DEF Holds
  <1>2. r \in Repositories /\ i \in Ids /\ Repository(i) = r
    BY <1>1, Working
  <1>3. ~Holds(channel, i)
    BY <1>1, <1>2 DEF IndInv, ChannelInOrder, Holds, Ids
  <1>4. ASSUME NEW q \in Repositories, NEW k \in DOMAIN queues[q],
               Holds(queues[q][k], i)
        PROVE  FALSE
    <2>1. PICK b \in DOMAIN queues[q][k] : queues[q][k][b] = i
      BY <1>4 DEF Holds
    <2>2. q = r
      BY <1>2, <2>1, QueuedJob
    <2> QED
      BY <1>1, <2>1, <2>2 DEF IndInv, WorkFirst
  <1>5. ASSUME NEW q \in Repositories, q # r, Holds(active[q].waiters, i)
        PROVE  FALSE
    <2>1. q \in Active
      BY <1>5, IdleWork, ActiveWork DEF IndInv, Types
    <2> QED
      BY <1>2, <1>5, <2>1, Working DEF Holds
  <1> QED
    BY <1>3, <1>4, <1>5

\* Who waits in a queued job waits nowhere else.
LEMMA QueuedApart ==
    ASSUME IndInv, NEW r \in Repositories, NEW k \in DOMAIN queues[r],
           NEW i, Holds(queues[r][k], i)
    PROVE  /\ ~Holds(channel, i)
           /\ \A q \in Repositories : \A l \in DOMAIN queues[q] :
                 Holds(queues[q][l], i) => q = r /\ l = k
           /\ \A q \in Repositories : ~Holds(active[q].waiters, i)
  <1>1. PICK a \in DOMAIN queues[r][k] : queues[r][k][a] = i
    BY DEF Holds
  <1>2. i \in Ids /\ Repository(i) = r
    BY <1>1, QueuedJob
  <1>3. ~Holds(channel, i)
    BY <1>1, <1>2 DEF IndInv, ChannelInOrder, Holds, Ids
  <1>4. ASSUME NEW q \in Repositories, NEW l \in DOMAIN queues[q],
               Holds(queues[q][l], i)
        PROVE  q = r /\ l = k
    <2>1. PICK b \in DOMAIN queues[q][l] : queues[q][l][b] = i
      BY <1>4 DEF Holds
    <2>2. q = r
      BY <1>2, <2>1, QueuedJob
    <2>3. k \in Nat /\ l \in Nat
      BY <2>2, LenProperties DEF IndInv, Types, TypeOK
    <2>4. k < l => queues[r][k][a] # queues[r][l][b]
      BY <2>1, <2>2 DEF IndInv, JobsInOrder, Before
    <2>5. l < k => queues[r][k][a] # queues[r][l][b]
      BY <2>1, <2>2 DEF IndInv, JobsInOrder, Before
    <2> QED
      BY <1>1, <2>1, <2>2, <2>3, <2>4, <2>5
  <1>5. \A q \in Repositories : ~Holds(active[q].waiters, i)
    BY WorkApart, IdleWork, ActiveWork DEF IndInv, Types
  <1> QED
    BY <1>3, <1>4, <1>5

\* What depends on the operations alone.
LEMMA SameRequests ==
    ASSUME UNCHANGED op
    PROVE  /\ Submitted' = Submitted
           /\ \A i : /\ Repository(i)' = Repository(i)
                     /\ Mutation(i)' = Mutation(i)
                     /\ ReadKey(i)' = ReadKey(i)
                     /\ MutationKey(i)' = MutationKey(i)
                     /\ Ordered(i)' = Ordered(i)
                     /\ Waits(i)' <=> i \in Submitted /\ answer'[i] = "none"
           /\ \A job : IsKeyedRead(job)' = IsKeyedRead(job)
  BY DEF Submitted, Repository, Mutation, ReadKey, MutationKey, Ordered,
         IsKeyedRead, Waits

\* Jobs are left alone by a step that answers none of their requests.
LEMMA JobsKept ==
    ASSUME IndInv, UNCHANGED <<op, queues>>,
           \A r \in Repositories : \A k \in DOMAIN queues[r] : \A i :
              Holds(queues[r][k], i) => answer'[i] = answer[i]
    PROVE  JobsFormed' /\ JobsInOrder'
  <1>1. ASSUME NEW r \in Repositories, NEW k \in DOMAIN queues[r]
        PROVE  JobFormed(r, queues[r][k])'
    <2>1. JobFormed(r, queues[r][k])
      BY DEF IndInv, JobsFormed
    <2>2. \A a \in DOMAIN queues[r][k] :
             answer'[queues[r][k][a]] = answer[queues[r][k][a]]
      BY DEF Holds
    <2> QED
      BY <2>1, <2>2, SameRequests DEF JobFormed, Waits
  <1>2. JobsInOrder'
    BY SameRequests DEF IndInv, JobsInOrder, Before
  <1> QED
    BY <1>1, <1>2 DEF JobsFormed

\* The work of other repositories is left alone by a step that answers none of
\* its requests.
LEMMA WorkKept ==
    ASSUME IndInv, NEW q \in Active, UNCHANGED op, active'[q] = active[q],
           \A i : Holds(active[q].waiters, i) => answer'[i] = answer[i]
    PROVE  LET w == active[q]
           IN  /\ w.waiters # <<>> /\ Increasing(w.waiters)
               /\ \A a \in DOMAIN w.waiters :
                     /\ w.waiters[a] \in Submitted
                     /\ answer'[w.waiters[a]] = "none"
                     /\ op[w.waiters[a]] = op[w.owner]
               /\ w.owner \in Submitted /\ Repository(w.owner) = q
               /\ Mutation(w.owner) => w.waiters = <<w.owner>>
  <1>1. \A a \in DOMAIN active[q].waiters :
           answer'[active[q].waiters[a]] = answer[active[q].waiters[a]]
    BY DEF Holds
  <1> QED
    BY <1>1, SameRequests DEF IndInv, WorkFormed, Waits

\* A completion is reported to one of those who wait for it.
LEMMA ReportInv ==
    ASSUME IndInv, NEW r \in Repositories, Report(r)
    PROVE  IndInv'
  <1>0. r \in Active
    BY ActiveWork DEF Report, IndInv, Types
  <1>a. PICK w \in Worker : w = active[r]
    BY <1>0, Working
  <1>b. PICK i \in Ids : i = w.waiters[1]
    BY <1>0, <1>a, Working
  <1>c. PICK state \in States : state = State(i, w)
    BY DEF State, States
  <1>d. PICK v \in Worker \union {Idle} :
           v = IF Len(w.waiters) = 1 THEN Idle
               ELSE [w EXCEPT !.waiters = Tail(w.waiters), !.stage = "reporting"]
    <2>1. Tail(w.waiters) \in Seq(Ids)
      BY <1>0, <1>a, Working, TailInOrder
    <2>2. [w EXCEPT !.waiters = Tail(w.waiters), !.stage = "reporting"] \in Worker
      BY <2>1 DEF Worker, Stages
    <2> QED
      BY <2>2
  <1>1. /\ w.waiters \in Seq(Ids) /\ w.waiters # <<>> /\ Increasing(w.waiters)
        /\ 1 \in DOMAIN w.waiters /\ Holds(w.waiters, i)
        /\ Waits(i) /\ op[i] = op[w.owner] /\ Repository(i) = r
        /\ DOMAIN w.waiters = 1 .. Len(w.waiters)
        /\ Len(w.waiters) \in Nat \ {0}
        /\ Mutation(w.owner) => w.waiters = <<w.owner>>
        /\ w.owner \in Submitted /\ Repository(w.owner) = r
    BY <1>0, <1>a, <1>b, Working DEF Holds
  <1>2. /\ \A j : Holds(v.waiters, j) => Holds(w.waiters, j) /\ j # i
        /\ v # Idle =>
              /\ v \in Worker /\ v.owner = w.owner /\ v.waiters # <<>>
              /\ Increasing(v.waiters) /\ v.stage = "reporting"
              /\ v.abandoned = w.abandoned /\ v.executed = w.executed
              /\ v.result = w.result /\ v.saw = w.saw
              /\ v.generation = w.generation
              /\ \A j : Holds(w.waiters, j) => Holds(v.waiters, j) \/ j = i
              /\ ~Mutation(w.owner)
        /\ v = Idle => \A j : Holds(w.waiters, j) => j = i
    <2>1. CASE Len(w.waiters) = 1
      BY <1>1, <1>b, <1>d, <2>1, IdleWork DEF Holds
    <2>2. CASE Len(w.waiters) # 1
      <3> DEFINE s == w.waiters
      <3>1. v = [w EXCEPT !.waiters = Tail(s), !.stage = "reporting"]
        BY <1>d, <2>2
      <3>2. /\ v.owner = w.owner /\ v.waiters = Tail(s)
            /\ v.stage = "reporting"
            /\ v.abandoned = w.abandoned /\ v.executed = w.executed
            /\ v.result = w.result /\ v.saw = w.saw
            /\ v.generation = w.generation
        BY <3>1 DEF Worker
      <3>3. v # Idle
        BY <3>2, IdleWork
      <3>6. ASSUME Mutation(w.owner) PROVE FALSE
        <4>1. w.waiters = <<w.owner>>
          BY <1>1, <3>6
        <4>2. Len(<<w.owner>>) = 1
          OBVIOUS
        <4> QED
          BY <2>2, <4>1, <4>2
      <3>7. s \in Seq(Ids) /\ s # <<>> /\ Increasing(s)
            /\ Len(s) \in Nat \ {0} /\ Len(s) # 1
        BY <1>1, <2>2
      <3> HIDE DEF s
      <3>8. /\ Increasing(Tail(s)) /\ Tail(s) \in Seq(Ids)
            /\ \A j : Holds(Tail(s), j) <=> Holds(s, j) /\ j # s[1]
        BY <3>7, TailInOrder
      <3>9. Len(Tail(s)) = Len(s) - 1
        BY <3>7, HeadTailProperties
      <3>4. /\ Increasing(Tail(s))
            /\ \A j : Holds(Tail(s), j) <=> Holds(s, j) /\ j # s[1]
        BY <3>8
      <3>5. Tail(s) # <<>>
        <4>1. Len(Tail(s)) # 0
          BY <3>7, <3>9
        <4>2. \A t : t = <<>> => Len(t) = 0
          OBVIOUS
        <4> QED
          BY <4>1, <4>2
      <3> QED
        BY <1>b, <3>2, <3>3, <3>4, <3>5, <3>6 DEF s
    <2> QED
      BY <2>1, <2>2
  <1>3. /\ answer' = [answer EXCEPT ![i] = state]
        /\ active' = [active EXCEPT ![r] = v]
        /\ view' = IF ~Mutation(i) /\ state \in {"completed", "failed"}
                   THEN [view EXCEPT ![i] = w.saw] ELSE view
        /\ stamp' = IF ~Mutation(i) /\ state \in {"completed", "failed"}
                    THEN [stamp EXCEPT ![i] = w.generation] ELSE stamp
        /\ UNCHANGED <<op, dropped, flagged, log, channel, tickets, queues,
                       generations, pc>>
    BY <1>a, <1>b, <1>c, <1>d DEF Report, handleVars
  <1>4. /\ i \in Submitted /\ state # "none"
        /\ answer'[i] = state /\ answer' \in Seq(States)
        /\ DOMAIN answer' = Submitted
        /\ \A j : j # i => answer'[j] = answer[j]
    <2>1. state # "none"
      BY <1>c DEF State
    <2>2. answer \in Seq(States) /\ DOMAIN answer = Submitted /\ i \in Submitted
      BY <1>1 DEF IndInv, Types, TypeOK, Waits
    <2>3. DOMAIN answer = 1 .. Len(answer)
      BY <2>2, LenProperties
    <2>4. [answer EXCEPT ![i] = state] \in Seq(States)
      BY <2>2, <2>3, ExceptSeq
    <2> QED
      BY <1>3, <2>1, <2>2, <2>4
  <1>5. /\ view' \in Seq(Seq(Ids)) /\ stamp' \in Seq(Nat)
        /\ DOMAIN view' = Submitted /\ DOMAIN stamp' = Submitted
        /\ \A j : j # i => view'[j] = view[j] /\ stamp'[j] = stamp[j]
        /\ ~Mutation(i) /\ state \in {"completed", "failed"} =>
              view'[i] = w.saw /\ stamp'[i] = w.generation
    <2>1. /\ view \in Seq(Seq(Ids)) /\ stamp \in Seq(Nat)
          /\ DOMAIN view = Submitted /\ DOMAIN stamp = Submitted
          /\ w.saw \in Seq(Ids) /\ w.generation \in Nat /\ i \in Submitted
      BY <1>1 DEF IndInv, Types, TypeOK, Worker, Waits
    <2>2. DOMAIN view = 1 .. Len(view) /\ DOMAIN stamp = 1 .. Len(stamp)
      BY <2>1, LenProperties
    <2>3. /\ [view EXCEPT ![i] = w.saw] \in Seq(Seq(Ids))
          /\ [stamp EXCEPT ![i] = w.generation] \in Seq(Nat)
      BY <2>1, <2>2, ExceptSeq
    <2> QED
      BY <1>3, <2>1, <2>3
  <1>6. /\ active'[r] = v
        /\ \A q \in Repositories : q # r => active'[q] = active[q]
        /\ active' \in [Repositories -> Worker \union {Idle}]
        /\ Active' = IF v = Idle THEN Active \ {r} ELSE Active
    <2>1. active \in [Repositories -> Worker \union {Idle}]
      BY DEF IndInv, Types, TypeOK
    <2>2. active'[r] = v /\ \A q \in Repositories : q # r => active'[q] = active[q]
      BY <1>3, <2>1
    <2> QED
      BY <1>0, <1>3, <2>1, <2>2 DEF Active
  <1>7. /\ ~Holds(channel, i)
        /\ \A q \in Repositories : \A k \in DOMAIN queues[q] :
              ~Holds(queues[q][k], i)
        /\ \A q \in Repositories : q # r => ~Holds(active[q].waiters, i)
    BY <1>0, <1>1, <1>a, WorkApart
  <1>8. Types'
    <2>1. IsFiniteSet(Active') /\ Cardinality(Active') <= MaxWorkers
      <3>1. IsFiniteSet(Active) /\ Cardinality(Active) <= MaxWorkers
            /\ Active' \subseteq Active
        BY <1>6 DEF IndInv, Types, TypeOK
      <3>2. IsFiniteSet(Active') /\ Cardinality(Active') <= Cardinality(Active)
        BY <3>1, FS_Subset
      <3>3. Cardinality(Active) \in Nat /\ Cardinality(Active') \in Nat
        BY <3>1, <3>2, FS_CardinalityType
      <3> QED
        BY <3>1, <3>2, <3>3, ServiceConstants
    <2>2. \A j \in Submitted : answer'[j] \in States
      BY <1>4, LenProperties
    <2> QED
      BY <1>3, <1>4, <1>5, <1>6, <2>1, <2>2, SameRequests
      DEF IndInv, Types, TypeOK, States
  <1>9. ChannelInOrder'
    <2>1. \A k \in DOMAIN channel : Waits(channel[k])'
      BY <1>3, <1>4, <1>7, SameRequests DEF IndInv, ChannelInOrder, Waits, Holds
    <2>2. \A k \in DOMAIN channel :
             /\ \A a \in DOMAIN v.waiters : v.waiters[a] < channel[k]
             /\ v.owner < channel[k]
      <3>1. \A k \in DOMAIN channel : channel[k] \in Ids
        BY LenProperties DEF IndInv, Types, TypeOK
      <3>2. \A k \in DOMAIN channel :
               /\ \A a \in DOMAIN w.waiters : w.waiters[a] < channel[k]
               /\ w.owner < channel[k]
        BY <1>a DEF IndInv, ChannelInOrder
      <3>3. \A a \in DOMAIN v.waiters : \E b \in DOMAIN w.waiters :
               v.waiters[a] = w.waiters[b]
        BY <1>2 DEF Holds
      <3>4. v = Idle => v.owner = 0
        BY IdleWork
      <3> QED
        BY <1>2, <3>1, <3>2, <3>3, <3>4 DEF Ids
    <2> QED
      BY <1>3, <1>6, <2>1, <2>2 DEF IndInv, ChannelInOrder
  <1>10. JobsFormed' /\ JobsInOrder'
    BY <1>3, <1>4, <1>7, JobsKept
  <1>11. WorkFormed'
    <2>1. ASSUME NEW q \in Active'
          PROVE  LET u == active'[q]
                 IN  /\ u.waiters # <<>> /\ Increasing(u.waiters)
                     /\ \A a \in DOMAIN u.waiters :
                           /\ u.waiters[a] \in Submitted
                           /\ answer'[u.waiters[a]] = "none"
                           /\ op[u.waiters[a]] = op[u.owner]
                     /\ u.owner \in Submitted /\ Repository(u.owner) = q
                     /\ Mutation(u.owner) => u.waiters = <<u.owner>>
      <3>1. CASE q # r
        <4>1. q \in Active /\ q \in Repositories /\ active'[q] = active[q]
          BY <1>6, <2>1, <3>1 DEF Active
        <4>2. ASSUME NEW j, Holds(active[q].waiters, j)
              PROVE  answer'[j] = answer[j]
          <5>1. j # i
            BY <1>7, <3>1, <4>1, <4>2
          <5> QED
            BY <1>4, <5>1
        <4>3. UNCHANGED op
          BY <1>3
        <4> QED
          BY <4>1, <4>2, <4>3, WorkKept
      <3>2. CASE q = r
        <4>1. v # Idle /\ active'[q] = v
          BY <1>6, <2>1, <3>2
        <4>2. ASSUME NEW a \in DOMAIN v.waiters
              PROVE  /\ v.waiters[a] \in Submitted
                     /\ answer'[v.waiters[a]] = "none"
                     /\ op[v.waiters[a]] = op[v.owner]
          <5>1. Holds(w.waiters, v.waiters[a]) /\ v.waiters[a] # i
            BY <1>2 DEF Holds
          <5>2. PICK b \in DOMAIN w.waiters : w.waiters[b] = v.waiters[a]
            BY <5>1 DEF Holds
          <5>3. Waits(w.waiters[b]) /\ op[w.waiters[b]] = op[w.owner]
            BY <1>0, <1>a, Working
          <5>4. answer'[v.waiters[a]] = answer[v.waiters[a]]
            BY <1>4, <5>1
          <5> QED
            BY <1>2, <4>1, <5>2, <5>3, <5>4 DEF Waits
        <4>3. /\ v.waiters # <<>> /\ Increasing(v.waiters)
              /\ v.owner = w.owner /\ ~Mutation(w.owner)
          BY <1>2, <4>1
        <4>4. w.owner \in Submitted /\ Repository(w.owner) = r
          BY <1>1
        <4> QED
          BY <3>2, <4>1, <4>2, <4>3, <4>4
      <3> QED
        BY <3>1, <3>2
    <2> QED
      BY <1>3, <2>1 DEF WorkFormed, Waits, Submitted, Repository, Mutation
  <1>12. WorkFirst'
    <2>1. ASSUME NEW q \in Active', NEW k \in DOMAIN queues[q]
          PROVE  LET u == active'[q]
                     job == queues[q][k]
                 IN  /\ u.owner < job[1]
                     /\ \A a \in DOMAIN u.waiters : \A b \in DOMAIN job :
                           u.waiters[a] # job[b]
                     /\ Mutation(u.owner) \/ Mutation(job[1]) =>
                           \A a \in DOMAIN u.waiters : \A b \in DOMAIN job :
                               u.waiters[a] < job[b]
      <3>1. CASE q # r
        BY <1>6, <2>1, <3>1 DEF IndInv, WorkFirst, Active
      <3>2. CASE q = r
        <4>1. v # Idle /\ active'[q] = v /\ q \in Active
          BY <1>0, <1>6, <2>1, <3>2
        <4>2. \A a \in DOMAIN v.waiters : \E b \in DOMAIN w.waiters :
                 v.waiters[a] = w.waiters[b]
          BY <1>2 DEF Holds
        <4> QED
          BY <1>a, <1>2, <3>2, <4>1, <4>2 DEF IndInv, WorkFirst
      <3> QED
        BY <3>1, <3>2
    <2> QED
      BY <1>3, <2>1, SameRequests DEF WorkFirst
  <1>13. WorkStaged'
    <2>1. ASSUME NEW q \in Active', q = r
          PROVE  LET u == active'[q]
                 IN  /\ u.abandoned => AllCancelled(u.waiters)
                     /\ u.result = "abandoned" => u.abandoned
                     /\ u.result \in {"ok", "error"} => u.executed
                     /\ u.stage \in {"ended", "sent", "reporting"} =>
                           u.result # "none"
                     /\ u.stage = "waiting" => ~u.executed
                     /\ u.stage = "executing" => u.executed
                     /\ u.executed => u.saw = log[q] \/ Mutation(u.owner)
                     /\ u.generation = generations[q]
      <3>1. v # Idle /\ active'[q] = v /\ q \in Active
        BY <1>0, <1>6, <2>1
      <3>2. w.stage \in {"sent", "reporting"}
        BY <1>a DEF Report
      <3>3. AllCancelled(w.waiters) => AllCancelled(v.waiters)
        BY <1>2 DEF AllCancelled, Holds
      <3> QED
        BY <1>a, <1>2, <2>1, <3>1, <3>2, <3>3 DEF IndInv, WorkStaged
    <2> QED
      BY <1>3, <1>6, <2>1, SameRequests DEF IndInv, WorkStaged, AllCancelled, Active
  <1>14. Accounted'
    <2>1. ASSUME NEW j \in Submitted, answer'[j] = "none"
          PROVE  \/ Holds(channel, j)
                 \/ \E k \in DOMAIN queues[Repository(j)] :
                       Holds(queues[Repository(j)][k], j)
                 \/ Holds(active'[Repository(j)].waiters, j)
      <3>1. j # i /\ answer[j] = "none"
        BY <1>4, <2>1
      <3>2. \/ Holds(channel, j)
            \/ \E k \in DOMAIN queues[Repository(j)] :
                  Holds(queues[Repository(j)][k], j)
            \/ Holds(active[Repository(j)].waiters, j)
        BY <3>1 DEF IndInv, Accounted
      <3>3. Repository(j) \in Repositories
        BY ServiceConstants DEF IndInv, Types, TypeOK, Submitted, Repository
      <3> QED
        BY <1>a, <1>2, <1>6, <3>1, <3>2, <3>3
    <2>2. \A j \in Submitted : Repository(j)' = Repository(j)
      BY <1>3, SameRequests
    <2> QED
      BY <1>3, <2>1, <2>2, SameRequests DEF Accounted, Holds
  <1>15. Logged'
    <2>1. \A q \in Repositories : \A k \in DOMAIN log[q] :
             LET m == log[q][k]
             IN  /\ m \in Submitted /\ Mutation(m) /\ Repository(m) = q
                 /\ answer'[m] # "none"
                    \/ (active'[q].owner = m /\ active'[q].executed)
      <3>1. ASSUME NEW q \in Repositories, NEW k \in DOMAIN log[q]
            PROVE  LET m == log[q][k]
                   IN  /\ m \in Submitted /\ Mutation(m) /\ Repository(m) = q
                       /\ answer'[m] # "none"
                          \/ (active'[q].owner = m /\ active'[q].executed)
        <4> DEFINE m == log[q][k]
        <4>1. /\ m \in Submitted /\ Mutation(m) /\ Repository(m) = q
              /\ answer[m] # "none" \/ (active[q].owner = m /\ active[q].executed)
          BY DEF IndInv, Logged
        <4> HIDE DEF m
        <4>2. CASE q = r /\ answer[m] = "none"
          <5>1. w.waiters = <<m>> /\ i = m
            BY <1>a, <1>b, <1>1, <4>1, <4>2
          <5> QED
            BY <1>4, <4>1, <5>1 DEF m
        <4>3. CASE q # r \/ answer[m] # "none"
          BY <1>4, <1>6, <4>1, <4>3 DEF m
        <4> QED
          BY <4>2, <4>3
      <3> QED
        BY <3>1
    <2>2. ASSUME NEW q \in Active', active'[q].executed,
                 Mutation(active'[q].owner)
          PROVE  Holds(log[q], active'[q].owner)
      BY <1>2, <1>6, <2>2 DEF IndInv, Logged, Active
    <2> QED
      BY <1>3, <2>1, <2>2, SameRequests DEF Logged, Holds
  <1>16. TicketsInOrder'
    <2>1. \A q \in Repositories : \A j :
             active'[q].owner = j /\ active'[q].stage = "waiting" <=>
             active[q].owner = j /\ active[q].stage = "waiting"
      <3>1. w.stage # "waiting" /\ v.stage # "waiting"
        BY <1>a, <1>2, IdleWork DEF Report
      <3> QED
        BY <1>a, <1>6, <3>1
    <2>2. UNCHANGED <<op, channel, queues>>
      BY <1>3
    <2>3. \A q \in Repositories : \A j : Holder(q, j)' <=> Holder(q, j)
      BY <2>1, <2>2, HolderAfter DEF Holder
    <2> QED
      BY <1>3, <2>3 DEF IndInv, TicketsInOrder
  <1>17. GenerationsCurrent' /\ GenerationsOrderViews'
    <2>1. \A j \in Submitted : j # i => (Shows(j)' <=> Shows(j))
      BY <1>3, <1>4, SameRequests DEF Shows
    <2>2. Shows(i)' =>
             /\ view'[i] = log[r] /\ stamp'[i] = generations[r]
             /\ ~Mutation(w.owner)
      <3>1. Shows(i)' => ~Mutation(i) /\ state = "completed"
        BY <1>3, <1>4, SameRequests DEF Shows
      <3>2. state = "completed" => w.result = "ok"
        BY <1>c DEF State
      <3>3. w.result = "ok" => w.executed
        BY <1>0, <1>a DEF IndInv, WorkStaged
      <3>4. w.executed => w.saw = log[r] \/ Mutation(w.owner)
        BY <1>0, <1>a DEF IndInv, WorkStaged
      <3>5. Mutation(w.owner) <=> Mutation(i)
        BY <1>1 DEF Mutation
      <3>6. w.generation = generations[r]
        BY <1>0, <1>a DEF IndInv, WorkStaged
      <3> QED
        BY <1>5, <3>1, <3>2, <3>3, <3>4, <3>5, <3>6
    <2>3. \A j \in Submitted : j # i => view'[j] = view[j] /\ stamp'[j] = stamp[j]
      BY <1>5
    <2>4. \A j \in Submitted : Shows(j) =>
             /\ stamp[j] <= generations[Repository(j)]
             /\ Len(view[j]) <= Len(log[Repository(j)])
             /\ stamp[j] = generations[Repository(j)] =>
                  /\ Len(view[j]) = Len(log[Repository(j)])
                  /\ Repository(j) \in Active =>
                        ~Mutation(active[Repository(j)].owner)
      BY DEF IndInv, GenerationsCurrent
    <2>5. /\ \A q \in Repositories : generations[q] \in Nat /\ Len(log[q]) \in Nat
          /\ \A j \in Submitted : /\ Repository(j) \in Repositories
                                  /\ stamp[j] \in Nat /\ Len(view[j]) \in Nat
      <3>1. /\ generations \in [Repositories -> Nat]
            /\ \A q \in Repositories : log[q] \in Seq(Ids)
        BY DEF IndInv, Types, TypeOK
      <3>2. \A j \in Submitted : Repository(j) \in Repositories
        BY ServiceConstants DEF IndInv, Types, TypeOK, Submitted, Repository
      <3>3. /\ stamp \in Seq(Nat) /\ view \in Seq(Seq(Ids))
            /\ DOMAIN stamp = Submitted /\ DOMAIN view = Submitted
        BY DEF IndInv, Types, TypeOK
      <3>4. \A j \in Submitted : stamp[j] \in Nat /\ view[j] \in Seq(Ids)
        BY <3>3, LenProperties, ElementOfSeq
      <3> QED
        BY <3>1, <3>2, <3>4, LenProperties
    <2>6. GenerationsCurrent'
      <3>1. ASSUME NEW j \in Submitted, Shows(j)'
            PROVE  /\ stamp'[j] <= generations[Repository(j)]
                   /\ Len(view'[j]) <= Len(log[Repository(j)])
                   /\ stamp'[j] = generations[Repository(j)] =>
                        /\ Len(view'[j]) = Len(log[Repository(j)])
                        /\ Repository(j) \in Active' =>
                              ~Mutation(active'[Repository(j)].owner)
        <4>1. CASE j # i
          BY <1>a, <1>2, <1>6, <2>1, <2>3, <2>4, <2>5, <3>1, <4>1
        <4>2. CASE j = i
          BY <1>1, <1>2, <1>6, <2>2, <2>5, <3>1, <4>2
        <4> QED
          BY <4>1, <4>2
      <3> QED
        BY <1>3, <3>1, SameRequests DEF GenerationsCurrent
    <2>7. GenerationsOrderViews'
      <3>1. ASSUME NEW j \in Submitted, NEW k \in Submitted,
                   Shows(j)', Shows(k)', Repository(j) = Repository(k),
                   stamp'[j] <= stamp'[k]
            PROVE  Len(view'[j]) <= Len(view'[k])
        <4>1. CASE j # i /\ k # i
          <5>1. stamp[j] <= stamp[k] /\ Shows(j) /\ Shows(k)
            BY <2>1, <2>3, <3>1, <4>1
          <5> QED
            BY <2>3, <3>1, <4>1, <5>1
            DEF IndInv, GenerationsOrderViews, Shows
        <4>2. CASE j = i /\ k = i
          BY <1>1, <2>2, <2>5, <3>1, <4>2
        <4>3. CASE j = i /\ k # i
          BY <1>1, <2>1, <2>2, <2>3, <2>4, <2>5, <3>1, <4>3
        <4>4. CASE j # i /\ k = i
          BY <1>1, <2>1, <2>2, <2>3, <2>4, <2>5, <3>1, <4>4
        <4> QED
          BY <4>1, <4>2, <4>3, <4>4
      <3> QED
        BY <1>3, <3>1, SameRequests DEF GenerationsOrderViews, Shows
    <2> QED
      BY <2>6, <2>7
  <1> QED
    BY <1>8, <1>9, <1>10, <1>11, <1>12, <1>13, <1>14, <1>15, <1>16, <1>17
    DEF IndInv

-----------------------------------------------------------------------------
(* The scheduler starts a job *)

\* The queue of a repository without its first job.
LEMMA FirstJobLeaves ==
    ASSUME IndInv, NEW r \in Repositories, queues[r] # <<>>,
           queues' = [queues EXCEPT ![r] = Tail(queues[r])]
    PROVE  /\ queues' \in [Repositories -> Seq(Seq(Ids))]
           /\ 1 \in DOMAIN queues[r] /\ Head(queues[r]) = queues[r][1]
           /\ \A q : q # r => queues'[q] = queues[q]
           /\ \A k \in DOMAIN queues'[r] :
                 /\ k \in Nat \ {0} /\ k + 1 \in DOMAIN queues[r]
                 /\ queues'[r][k] = queues[r][k + 1]
           /\ \A k \in DOMAIN queues[r] : k # 1 =>
                 /\ k - 1 \in DOMAIN queues'[r]
                 /\ queues'[r][k - 1] = queues[r][k]
  <1>1. queues \in [Repositories -> Seq(Seq(Ids))]
    BY DEF IndInv, Types, TypeOK
  <1>2. PICK s \in Seq(Seq(Ids)) : s = queues[r]
    BY <1>1
  <1>3. /\ Tail(s) \in Seq(Seq(Ids)) /\ Len(Tail(s)) = Len(s) - 1
        /\ \A k \in 1 .. Len(Tail(s)) : Tail(s)[k] = s[k + 1]
        /\ Head(s) = s[1]
    BY <1>2, HeadTailProperties
  <1>4. /\ DOMAIN s = 1 .. Len(s) /\ Len(s) \in Nat \ {0}
        /\ DOMAIN Tail(s) = 1 .. Len(s) - 1
    BY <1>2, <1>3, LenProperties, EmptySeq
  <1>5. queues'[r] = Tail(s) /\ \A q : q # r => queues'[q] = queues[q]
    BY <1>1, <1>2
  <1>6. queues' \in [Repositories -> Seq(Seq(Ids))]
    BY <1>1, <1>2, <1>3
  <1>7. \A k \in 1 .. Len(s) - 1 : k \in Nat \ {0} /\ k + 1 \in 1 .. Len(s)
    BY <1>4
  <1>8. \A k \in 1 .. Len(s) : k # 1 =>
           k - 1 \in 1 .. Len(s) - 1 /\ Tail(s)[k - 1] = s[k]
    BY <1>3, <1>4
  <1> QED
    BY <1>2, <1>3, <1>4, <1>5, <1>6, <1>7, <1>8

\* What was queued in order stays so without its first job.
LEMMA JobsAfterFirst ==
    ASSUME IndInv, NEW r \in Repositories, queues[r] # <<>>,
           queues' = [queues EXCEPT ![r] = Tail(queues[r])],
           UNCHANGED op,
           \A j \in Submitted : ~Holds(queues[r][1], j) => answer'[j] = answer[j]
    PROVE  JobsFormed' /\ JobsInOrder'
  <1>1. \A q \in Repositories : \A k \in DOMAIN queues'[q] :
           \E l \in DOMAIN queues[q] :
              /\ queues'[q][k] = queues[q][l]
              /\ q = r => l = k + 1
              /\ q # r => l = k
    BY FirstJobLeaves, ZenonT(60)
  <1>2. 1 \in DOMAIN queues[r]
    BY FirstJobLeaves
  <1>3. ASSUME NEW q \in Repositories, NEW k \in DOMAIN queues'[q]
        PROVE  /\ queues'[q][k] # <<>> /\ Increasing(queues'[q][k])
               /\ \A a \in DOMAIN queues'[q][k] :
                     /\ queues'[q][k][a] \in Submitted
                     /\ answer'[queues'[q][k][a]] = "none"
                     /\ op[queues'[q][k][a]] = op[queues'[q][k][1]]
               /\ Repository(queues'[q][k][1]) = q
               /\ ~IsKeyedRead(queues'[q][k]) => Len(queues'[q][k]) = 1
    <2>1. PICK l \in DOMAIN queues[q] :
             /\ queues'[q][k] = queues[q][l]
             /\ q = r => l = k + 1
             /\ q # r => l = k
      BY <1>1
    <2>2. q = r => l # 1
      <3>1. q = r => k \in Nat \ {0}
        BY FirstJobLeaves
      <3> QED
        BY <2>1, <3>1
    <2>3. \A j : Holds(queues[q][l], j) => ~Holds(queues[r][1], j)
      BY <1>2, <2>2, QueuedApart, ZenonT(60)
    <2>4. \A a \in DOMAIN queues[q][l] :
             answer'[queues[q][l][a]] = answer[queues[q][l][a]]
      BY <2>3, QueuedJob DEF Holds, Waits
    <2>5. JobFormed(q, queues[q][l])
      BY DEF IndInv, JobsFormed
    <2> HIDE DEF IndInv
    <2> QED
      BY <2>1, <2>4, <2>5 DEF JobFormed, Waits
  <1>4. JobsFormed'
    BY <1>3, SameRequests
    DEF JobsFormed, JobFormed, Waits, Submitted, Repository
  <1>5. ASSUME NEW q \in Repositories, NEW k \in DOMAIN queues'[q],
               NEW l \in DOMAIN queues'[q], k < l
        PROVE  Before(queues'[q][k], queues'[q][l])
    <2>1. PICK m \in DOMAIN queues[q] :
             /\ queues'[q][k] = queues[q][m]
             /\ q = r => m = k + 1
             /\ q # r => m = k
      BY <1>1
    <2>2. PICK n \in DOMAIN queues[q] :
             /\ queues'[q][l] = queues[q][n]
             /\ q = r => n = l + 1
             /\ q # r => n = l
      BY <1>1
    <2>3. q = r => k \in Nat /\ l \in Nat
      BY FirstJobLeaves
    <2>4. m < n
      BY <1>5, <2>1, <2>2, <2>3
    <2>5. Before(queues[q][m], queues[q][n])
      BY <2>4 DEF IndInv, JobsInOrder
    <2> QED
      BY <2>1, <2>2, <2>5
  <1>6. JobsInOrder'
    BY <1>5 DEF JobsInOrder, Before, Mutation
  <1> QED
    BY <1>4, <1>6


\* A repository whose first job may start has no work.
LEMMA NothingRuns ==
    ASSUME IndInv, NEW r \in Repositories, MayStart(r)
    PROVE  /\ active[r] = Idle /\ queues[r] # <<>> /\ r \notin Active
           /\ 1 \in DOMAIN queues[r]
           /\ \A j : ~Holds(active[r].waiters, j)
           /\ active[r].owner = 0 /\ active[r].stage # "waiting"
  <1>1. active[r] = Idle /\ queues[r] # <<>> /\ r \notin Active
    BY ActiveWork DEF MayStart, IndInv, Types
  <1>2. 1 \in DOMAIN queues[r]
    <2>1. queues[r] \in Seq(Seq(Ids))
      BY DEF IndInv, Types, TypeOK
    <2> QED
      BY <1>1, <2>1, LenProperties, EmptySeq
  <1> QED
    BY <1>1, <1>2, IdleWork

\* A job everybody cancelled is answered and not started.
LEMMA StartCancelledInv ==
    ASSUME IndInv, NEW r \in Repositories, StartCancelled(r)
    PROVE  IndInv'
  <1>0. MayStart(r)
    BY DEF StartCancelled
  <1>1. /\ active[r] = Idle /\ queues[r] # <<>> /\ r \notin Active
        /\ 1 \in DOMAIN queues[r]
    BY <1>0, NothingRuns
  <1>a. PICK job \in Seq(Ids) : job = queues[r][1] /\ Head(queues[r]) = job
    BY <1>1, QueuedJob, HeadTailProperties DEF IndInv, Types, TypeOK
  <1>b. PICK i \in Ids : i = job[1]
    BY <1>1, <1>a, QueuedJob
  <1>2. /\ queues' = [queues EXCEPT ![r] = Tail(queues[r])]
        /\ answer' = [j \in Submitted |->
                         IF Holds(job, j) THEN "cancelled" ELSE answer[j]]
        /\ tickets' = [tickets EXCEPT ![r] = Without(tickets[r], i)]
        /\ UNCHANGED <<op, dropped, flagged, view, stamp, log, channel, active,
                       generations, pc>>
        /\ Active' = Active
    BY <1>a, <1>b DEF StartCancelled, Holds, handleVars, Active
  <1>c. /\ UNCHANGED <<flagged, view, stamp, log, channel, active, generations>>
        /\ Active' = Active /\ Submitted' = Submitted
        /\ \A j : /\ Repository(j)' = Repository(j) /\ Mutation(j)' = Mutation(j)
                  /\ Ordered(j)' = Ordered(j)
    BY <1>2, SameRequests
  <1>3. /\ answer' \in Seq(States) /\ DOMAIN answer' = Submitted
        /\ \A j \in Submitted : Holds(job, j) => answer'[j] = "cancelled"
        /\ \A j \in Submitted : ~Holds(job, j) => answer'[j] = answer[j]
        /\ \A j \in Submitted : answer'[j] \in States
    <2>1. answer \in Seq(States) /\ DOMAIN answer = Submitted
      BY DEF IndInv, Types, TypeOK
    <2>2. DOMAIN answer = 1 .. Len(answer) /\ Len(answer) \in Nat
          /\ \A j \in Submitted : answer[j] \in States
      BY <2>1, LenProperties
    <2>3. answer' \in [1 .. Len(answer) -> States]
      BY <1>2, <2>1, <2>2 DEF States
    <2>4. answer' \in Seq(States)
      BY <2>2, <2>3, SeqDef
    <2> QED
      BY <1>2, <2>1, <2>2, <2>4
  <1>4. /\ tickets' \in [Repositories -> Seq(Ids)]
        /\ \A q \in Repositories : q # r => tickets'[q] = tickets[q]
        /\ \A q \in Repositories : Increasing(tickets'[q])
        /\ \A j : Holds(tickets'[r], j) <=> Holds(tickets[r], j) /\ j # i
    <2>1. /\ tickets \in [Repositories -> Seq(Ids)]
          /\ \A q \in Repositories : Increasing(tickets[q])
      BY DEF IndInv, Types, TypeOK, TicketsInOrder
    <2>2. tickets'[r] = Without(tickets[r], i)
      BY <1>2, <2>1
    <2>3. /\ Without(tickets[r], i) \in Seq(Ids)
          /\ Increasing(Without(tickets[r], i))
          /\ \A j : Holds(Without(tickets[r], i), j) <=> Holds(tickets[r], j) /\ j # i
      BY <2>1, WithoutInOrder
    <2> QED
      BY <1>2, <2>1, <2>2, <2>3
  <1>5. /\ queues' \in [Repositories -> Seq(Seq(Ids))]
        /\ \A q : q # r => queues'[q] = queues[q]
        /\ \A k \in DOMAIN queues'[r] :
              /\ k \in Nat \ {0} /\ k + 1 \in DOMAIN queues[r]
              /\ queues'[r][k] = queues[r][k + 1]
        /\ \A k \in DOMAIN queues[r] : k # 1 =>
              /\ k - 1 \in DOMAIN queues'[r]
              /\ queues'[r][k - 1] = queues[r][k]
    BY <1>1, <1>2, FirstJobLeaves
  <1>6. \A q \in Repositories : \A k \in DOMAIN queues'[q] :
           \E l \in DOMAIN queues[q] : queues'[q][k] = queues[q][l]
    BY <1>5
  <1>7. \A j : Holds(job, j) =>
           /\ ~Holds(channel, j)
           /\ \A q \in Repositories : \A l \in DOMAIN queues[q] :
                 Holds(queues[q][l], j) => q = r /\ l = 1
           /\ \A q \in Repositories : ~Holds(active[q].waiters, j)
    <2>1. 1 \in DOMAIN queues[r] /\ job = queues[r][1]
      BY <1>1, <1>a
    <2> QED
      BY <2>1, QueuedApart
  <1>8. Types'
    BY <1>2, <1>3, <1>4, <1>5, SameRequests DEF IndInv, Types, TypeOK, States
  <1>9. ChannelInOrder'
    <2>1. \A k \in DOMAIN channel : channel[k] \in Submitted /\ answer'[channel[k]] = "none"
      BY <1>3, <1>7 DEF IndInv, ChannelInOrder, Waits, Holds
    <2>2. \A q \in Repositories : \A l \in DOMAIN queues'[q] :
             \A a \in DOMAIN queues'[q][l] : \A k \in DOMAIN channel :
                queues'[q][l][a] < channel[k]
      BY <1>6 DEF IndInv, ChannelInOrder
    <2> QED
      BY <1>2, <2>1, <2>2 DEF IndInv, ChannelInOrder, Waits, Submitted
  <1>10. JobsFormed' /\ JobsInOrder'
    <2>1. \A j \in Submitted :
             ~Holds(queues[r][1], j) => answer'[j] = answer[j]
      BY <1>3, <1>a
    <2> QED
      BY <1>1, <1>2, <2>1, JobsAfterFirst
  <1>11. WorkFormed'
    <2>1. ASSUME NEW q \in Active
          PROVE  LET w == active[q]
                 IN  /\ w.waiters # <<>> /\ Increasing(w.waiters)
                     /\ \A a \in DOMAIN w.waiters :
                           /\ w.waiters[a] \in Submitted
                           /\ answer'[w.waiters[a]] = "none"
                           /\ op[w.waiters[a]] = op[w.owner]
                     /\ w.owner \in Submitted /\ Repository(w.owner) = q
                     /\ Mutation(w.owner) => w.waiters = <<w.owner>>
      <3>1. \A a \in DOMAIN active[q].waiters :
               /\ active[q].waiters[a] \in Submitted
               /\ answer[active[q].waiters[a]] = "none"
               /\ ~Holds(job, active[q].waiters[a])
        BY <1>7, Working DEF Holds, Waits
      <3> QED
        BY <1>3, <3>1 DEF IndInv, WorkFormed
    <2> QED
      <3>1. op' = op
        BY <1>2
      <3> QED
        BY <1>c, <2>1, <3>1 DEF WorkFormed, Waits
  <1>12. WorkFirst'
    BY <1>c, <1>6 DEF IndInv, WorkFirst, Active
  <1>13. WorkStaged'
    BY <1>2, SameRequests DEF IndInv, WorkStaged, AllCancelled
  <1>14. Accounted'
    <2>1. ASSUME NEW j \in Submitted, answer'[j] = "none"
          PROVE  \/ Holds(channel, j)
                 \/ \E k \in DOMAIN queues'[Repository(j)] :
                       Holds(queues'[Repository(j)][k], j)
                 \/ Holds(active[Repository(j)].waiters, j)
      <3>1. ~Holds(job, j) /\ answer[j] = "none"
        BY <1>3, <2>1
      <3>2. \/ Holds(channel, j)
            \/ \E k \in DOMAIN queues[Repository(j)] :
                  Holds(queues[Repository(j)][k], j)
            \/ Holds(active[Repository(j)].waiters, j)
        BY <3>1 DEF IndInv, Accounted
      <3>3. ASSUME NEW k \in DOMAIN queues[Repository(j)],
                   Holds(queues[Repository(j)][k], j)
            PROVE  \E l \in DOMAIN queues'[Repository(j)] :
                      Holds(queues'[Repository(j)][l], j)
        <4>1. Repository(j) = r => k # 1
          BY <1>a, <3>1, <3>3
        <4> QED
          BY <1>5, <3>3, <4>1
      <3> QED
        BY <3>2, <3>3
    <2> QED
      BY <1>c, <2>1 DEF Accounted, Holds
  <1>15. Logged'
    <2>1. \A q \in Repositories : \A k \in DOMAIN log[q] :
             /\ log[q][k] \in Submitted
             /\ answer[log[q][k]] # "none" => answer'[log[q][k]] # "none"
      BY <1>3 DEF IndInv, Logged
    <2> QED
      BY <1>c, <2>1 DEF IndInv, Logged, Holds
  <1>16. TicketsInOrder'
    <2>1. ASSUME NEW q \in Repositories, NEW j \in Ids
          PROVE  Holder(q, j)' <=> Holder(q, j) /\ (q = r => j # i)
      <3>1. Holder(q, j)' <=>
               /\ j \in Submitted /\ Ordered(j) /\ Repository(j) = q
               /\ \/ Holds(channel, j)
                  \/ \E k \in DOMAIN queues'[q] : queues'[q][k][1] = j
                  \/ active[q].owner = j /\ active[q].stage = "waiting"
        BY <1>2, SameRequests DEF Holder, Holds
      <3>2. CASE q # r
        BY <1>5, <3>1, <3>2 DEF Holder
      <3>3. CASE q = r
        <4>1. active[q].stage # "waiting"
          BY <1>0, <3>3, NothingRuns
        <4>2. (\E k \in DOMAIN queues'[q] : queues'[q][k][1] = j) <=>
                 (\E k \in DOMAIN queues[q] : queues[q][k][1] = j) /\ j # i
          <5>1. \A k \in DOMAIN queues[r] : k # 1 => queues[r][k][1] # i
            <6>1. \A k \in DOMAIN queues[r] : Holds(queues[r][k], queues[r][k][1])
              BY QueuedJob DEF Holds
            <6>2. Holds(queues[r][1], i)
              BY <1>1, <1>a, <1>b, <6>1
            <6>3. ASSUME NEW k \in DOMAIN queues[r], queues[r][k][1] = i
                  PROVE  k = 1
              <7>1. Holds(queues[r][k], i)
                BY <6>1, <6>3
              <7> QED
                BY <1>1, <6>2, <7>1, QueuedApart
            <6> QED
              BY <6>3
          <5>2. queues[r][1][1] = i
            BY <1>a, <1>b
          <5>3. ASSUME NEW k \in DOMAIN queues'[r], queues'[r][k][1] = j
                PROVE  (\E l \in DOMAIN queues[r] : queues[r][l][1] = j) /\ j # i
            <6>1. /\ k \in Nat \ {0} /\ k + 1 \in DOMAIN queues[r]
                  /\ queues'[r][k] = queues[r][k + 1]
              BY <1>5
            <6>2. k + 1 # 1
              BY <6>1
            <6> QED
              BY <5>1, <5>3, <6>1, <6>2
          <5>4. ASSUME NEW l \in DOMAIN queues[r], queues[r][l][1] = j, j # i
                PROVE  \E k \in DOMAIN queues'[r] : queues'[r][k][1] = j
            BY <1>5, <5>2, <5>4
          <5> QED
            BY <3>3, <5>3, <5>4
        <4>3. ~Holds(channel, i)
          BY <1>1, <1>7, <1>a, <1>b, QueuedJob DEF Holds
        <4> QED
          BY <3>1, <3>3, <4>1, <4>2, <4>3 DEF Holder
      <3> QED
        BY <3>2, <3>3
    <2> QED
      BY <1>4, <2>1 DEF IndInv, TicketsInOrder
  <1>17. GenerationsCurrent' /\ GenerationsOrderViews'
    <2>1. \A j \in Submitted : Shows(j)' => Shows(j)
      BY <1>2, <1>3, SameRequests DEF Shows
    <2>2. GenerationsCurrent'
      BY <1>c, <2>1 DEF IndInv, GenerationsCurrent
    <2>3. GenerationsOrderViews'
      BY <1>c, <2>1 DEF IndInv, GenerationsOrderViews, Shows
    <2> QED
      BY <2>2, <2>3
  <1> QED
    BY <1>8, <1>9, <1>10, <1>11, <1>12, <1>13, <1>14, <1>15, <1>16, <1>17
    DEF IndInv


\* A job is given to a worker; a mutation begins a new generation.
LEMMA StartInv ==
    ASSUME IndInv, NEW r \in Repositories, Start(r)
    PROVE  IndInv'
  <1>0. MayStart(r)
    BY DEF Start
  <1>1. /\ active[r] = Idle /\ queues[r] # <<>> /\ r \notin Active
        /\ 1 \in DOMAIN queues[r]
    BY <1>0, NothingRuns
  <1>a. PICK job \in Seq(Ids) : job = queues[r][1] /\ Head(queues[r]) = job
    BY <1>1, QueuedJob, HeadTailProperties DEF IndInv, Types, TypeOK
  <1>b. PICK i \in Ids : i = job[1]
    BY <1>1, <1>a, QueuedJob
  <1>g. PICK g \in Nat : /\ g = GenerationFor(r, i)
                         /\ Mutation(i) => g = generations[r] + 1
                         /\ ~Mutation(i) => g = generations[r]
    <2>1. generations[r] \in Nat
      BY DEF IndInv, Types, TypeOK
    <2>2. /\ Mutation(i) => GenerationFor(r, i) = generations[r] + 1
          /\ ~Mutation(i) => GenerationFor(r, i) = generations[r]
      BY <2>1 DEF GenerationFor
    <2> QED
      BY <2>1, <2>2
  <1>w. PICK w \in Worker :
           /\ w = [Idle EXCEPT !.owner = i, !.waiters = job,
                               !.stage = "waiting", !.generation = g]
           /\ w.owner = i /\ w.waiters = job /\ w.stage = "waiting"
           /\ w.generation = g /\ ~w.abandoned /\ ~w.executed
           /\ w.result = "none"
    <2> DEFINE w == [Idle EXCEPT !.owner = i, !.waiters = job,
                                 !.stage = "waiting", !.generation = g]
    <2>1. <<>> \in Seq(Ids)
      BY EmptySeq
    <2> DEFINE Records == [owner : Ids \union {0}, waiters : Seq(Ids),
                           stage : Stages \union {"idle"},
                           abandoned : BOOLEAN, executed : BOOLEAN,
                           result : {"none", "ok", "error", "abandoned"},
                           saw : Seq(Ids), generation : Nat]
    <2>2. /\ Idle \in Records /\ ~Idle.abandoned /\ ~Idle.executed
          /\ Idle.result = "none"
      BY <2>1 DEF Idle
    <2>7. w \in Records /\ w.stage = "waiting" /\ w.owner \in Ids
      BY <2>2 DEF Stages
    <2>3. w \in Worker
      BY <2>7 DEF Worker, Stages
    <2>4. /\ w.owner = i /\ w.waiters = job /\ w.stage = "waiting"
          /\ w.generation = g /\ ~w.abandoned /\ ~w.executed
          /\ w.result = "none"
      BY <2>2
    <2> HIDE DEF w
    <2>5. w = [Idle EXCEPT !.owner = i, !.waiters = job,
                           !.stage = "waiting", !.generation = g]
      BY DEF w
    <2>6. \A u \in Worker :
             /\ u = [Idle EXCEPT !.owner = i, !.waiters = job,
                                 !.stage = "waiting", !.generation = g]
             /\ u.owner = i /\ u.waiters = job /\ u.stage = "waiting"
             /\ u.generation = g /\ ~u.abandoned /\ ~u.executed
             /\ u.result = "none"
             => \E x \in Worker :
                  /\ x = [Idle EXCEPT !.owner = i, !.waiters = job,
                                      !.stage = "waiting", !.generation = g]
                  /\ x.owner = i /\ x.waiters = job /\ x.stage = "waiting"
                  /\ x.generation = g /\ ~x.abandoned /\ ~x.executed
                  /\ x.result = "none"
      OBVIOUS
    <2> QED
      BY <2>3, <2>4, <2>5, <2>6
  <1>2. /\ queues' = [queues EXCEPT ![r] = Tail(queues[r])]
        /\ generations' = [generations EXCEPT ![r] = g]
        /\ active' = [active EXCEPT ![r] = w]
        /\ UNCHANGED <<op, answer, dropped, flagged, view, stamp, log, channel,
                       tickets, pc>>
    BY <1>a, <1>b, <1>g, <1>w DEF Start, handleVars, resultVars
  <1>c. /\ UNCHANGED <<answer, flagged, view, stamp, log, channel, tickets>>
        /\ Submitted' = Submitted
        /\ \A j : /\ Repository(j)' = Repository(j) /\ Mutation(j)' = Mutation(j)
                  /\ Ordered(j)' = Ordered(j) /\ Shows(j)' = Shows(j)
    BY <1>2, SameRequests DEF Shows
  <1>3. /\ active'[r] = w
        /\ \A q \in Repositories : q # r => active'[q] = active[q]
        /\ active' \in [Repositories -> Worker \union {Idle}]
        /\ Active' = Active \union {r}
    <2>1. active \in [Repositories -> Worker \union {Idle}]
      BY DEF IndInv, Types, TypeOK
    <2>2. w # Idle
      BY IdleWork
    <2>3. active'[r] = w /\ \A q \in Repositories : q # r => active'[q] = active[q]
      BY <1>2, <2>1
    <2> QED
      BY <1>2, <2>1, <2>2, <2>3 DEF Active
  <1>4. /\ generations'[r] = g
        /\ \A q \in Repositories : q # r => generations'[q] = generations[q]
        /\ generations \in [Repositories -> Nat]
        /\ generations' \in [Repositories -> Nat]
    BY <1>2 DEF IndInv, Types, TypeOK
  <1>5. /\ queues' \in [Repositories -> Seq(Seq(Ids))]
        /\ \A q : q # r => queues'[q] = queues[q]
        /\ \A k \in DOMAIN queues'[r] :
              /\ k \in Nat \ {0} /\ k + 1 \in DOMAIN queues[r]
              /\ queues'[r][k] = queues[r][k + 1]
        /\ \A k \in DOMAIN queues[r] : k # 1 =>
              /\ k - 1 \in DOMAIN queues'[r]
              /\ queues'[r][k - 1] = queues[r][k]
    BY <1>1, <1>2, FirstJobLeaves
  <1>6. \A q \in Repositories : \A k \in DOMAIN queues'[q] :
           \E l \in DOMAIN queues[q] : queues'[q][k] = queues[q][l]
    BY <1>5
  <1>7. /\ job # <<>> /\ Increasing(job)
        /\ \A a \in DOMAIN job : /\ job[a] \in Submitted /\ answer[job[a]] = "none"
                                 /\ op[job[a]] = op[i]
        /\ i \in Submitted /\ Repository(i) = r
        /\ Mutation(i) => Len(job) = 1
    <2>1. 1 \in DOMAIN queues[r] /\ job = queues[r][1]
      BY <1>1, <1>a
    <2> QED
      BY <2>1, <1>b, QueuedJob DEF Waits
  <1>8. Types'
    <2>1. IsFiniteSet(Active') /\ Cardinality(Active') <= MaxWorkers
      <3>1. IsFiniteSet(Active) /\ Cardinality(Active) < MaxWorkers
        BY <1>0 DEF IndInv, Types, MayStart
      <3>2. /\ IsFiniteSet(Active')
            /\ Cardinality(Active') = Cardinality(Active) + 1
        BY <1>1, <1>3, <3>1, FS_AddElement
      <3>3. Cardinality(Active) \in Nat
        BY <3>1, FS_CardinalityType
      <3> QED
        BY <3>1, <3>2, <3>3, ServiceConstants
    <2> QED
      BY <1>2, <1>3, <1>4, <1>5, <1>c, <2>1 DEF IndInv, Types, TypeOK
  <1>9. ChannelInOrder'
    <2>1. \A k \in DOMAIN channel :
             /\ \A a \in DOMAIN job : job[a] < channel[k]
             /\ i < channel[k]
      <3>1. \A k \in DOMAIN channel : \A a \in DOMAIN job : job[a] < channel[k]
        BY <1>1, <1>a DEF IndInv, ChannelInOrder
      <3>2. 1 \in DOMAIN job
        BY <1>1, <1>a, QueuedJob
      <3> QED
        BY <1>b, <3>1, <3>2
    <2>2. \A q \in Repositories : \A l \in DOMAIN queues'[q] :
             \A a \in DOMAIN queues'[q][l] : \A k \in DOMAIN channel :
                queues'[q][l][a] < channel[k]
      BY <1>6 DEF IndInv, ChannelInOrder
    <2> QED
      BY <1>3, <1>c, <1>w, <2>1, <2>2 DEF IndInv, ChannelInOrder, Waits
  <1>10. JobsFormed' /\ JobsInOrder'
    BY <1>1, <1>2, JobsAfterFirst
  <1>11. WorkFormed'
    <2>1. ASSUME NEW q \in Active'
          PROVE  LET u == active'[q]
                 IN  /\ u.waiters # <<>> /\ Increasing(u.waiters)
                     /\ \A a \in DOMAIN u.waiters :
                           /\ u.waiters[a] \in Submitted
                           /\ answer[u.waiters[a]] = "none"
                           /\ op[u.waiters[a]] = op[u.owner]
                     /\ u.owner \in Submitted /\ Repository(u.owner) = q
                     /\ Mutation(u.owner) => u.waiters = <<u.owner>>
      <3>1. CASE q # r
        BY <1>3, <3>1 DEF IndInv, WorkFormed, Waits, Active
      <3>2. CASE q = r
        <4>1. ASSUME Mutation(i) PROVE job = <<i>>
          <5>1. job \in Seq(Ids) /\ Len(job) = 1 /\ i = job[1]
            BY <1>7, <1>b, <4>1
          <5>2. /\ <<i>> \in Seq(Ids) /\ Len(<<i>>) = 1
                /\ \A k \in 1 .. Len(job) : job[k] = <<i>>[k]
            BY <5>1
          <5>3. PICK t \in Seq(Ids) : t = <<i>>
            BY <5>2
          <5>4. /\ Len(job) = Len(t)
                /\ \A k \in 1 .. Len(job) : job[k] = t[k]
            BY <5>1, <5>2, <5>3
          <5>5. job = t
            BY <5>4, SeqEqual
          <5> QED
            BY <5>3, <5>5
        <4>2. active'[q].owner = i /\ active'[q].waiters = job
          BY <1>3, <1>w, <3>2
        <4> QED
          BY <1>7, <3>2, <4>1, <4>2
      <3> QED
        BY <3>1, <3>2
    <2>2. op' = op
      BY <1>2
    <2> QED
      BY <1>c, <2>1, <2>2 DEF WorkFormed, Waits
  <1>12. WorkFirst'
    <2>1. ASSUME NEW q \in Active', NEW k \in DOMAIN queues'[q]
          PROVE  LET u == active'[q]
                     later == queues'[q][k]
                 IN  /\ u.owner < later[1]
                     /\ \A a \in DOMAIN u.waiters : \A b \in DOMAIN later :
                           u.waiters[a] # later[b]
                     /\ Mutation(u.owner) \/ Mutation(later[1]) =>
                           \A a \in DOMAIN u.waiters : \A b \in DOMAIN later :
                               u.waiters[a] < later[b]
      <3>1. CASE q # r
        <4>1. q \in Active /\ active'[q] = active[q] /\ queues'[q] = queues[q]
          BY <1>3, <1>5, <2>1, <3>1 DEF Active
        <4>2. k \in DOMAIN queues[q]
          BY <2>1, <4>1
        <4> QED
          BY <4>1, <4>2 DEF IndInv, WorkFirst
      <3>2. CASE q = r
        <4>1. k \in Nat \ {0} /\ k + 1 \in DOMAIN queues[r]
              /\ queues'[q][k] = queues[r][k + 1]
          BY <1>5, <3>2
        <4>2. 1 < k + 1
          BY <4>1
        <4>3. Before(job, queues[r][k + 1])
          BY <1>1, <1>a, <4>1, <4>2 DEF IndInv, JobsInOrder
        <4>4. active'[q].owner = job[1] /\ active'[q].waiters = job
          BY <1>3, <1>b, <1>w, <3>2
        <4> QED
          BY <4>1, <4>3, <4>4 DEF Before
      <3> QED
        BY <3>1, <3>2
    <2> QED
      BY <1>c, <2>1 DEF WorkFirst
  <1>13. WorkStaged'
    <2>1. ASSUME NEW q \in Active'
          PROVE  LET u == active'[q]
                 IN  /\ u.abandoned => AllCancelled(u.waiters)
                     /\ u.result = "abandoned" => u.abandoned
                     /\ u.result \in {"ok", "error"} => u.executed
                     /\ u.stage \in {"ended", "sent", "reporting"} =>
                           u.result # "none"
                     /\ u.stage = "waiting" => ~u.executed
                     /\ u.stage = "executing" => u.executed
                     /\ u.executed => u.saw = log[q] \/ Mutation(u.owner)
                     /\ u.generation = generations'[q]
      <3>1. CASE q # r
        BY <1>3, <1>4, <3>1 DEF IndInv, WorkStaged, Active
      <3>2. CASE q = r
        BY <1>3, <1>4, <1>w, <3>2
      <3> QED
        BY <3>1, <3>2
    <2> QED
      BY <1>c, <2>1 DEF WorkStaged, AllCancelled
  <1>14. Accounted'
    <2>1. ASSUME NEW j \in Submitted, answer[j] = "none"
          PROVE  \/ Holds(channel, j)
                 \/ \E k \in DOMAIN queues'[Repository(j)] :
                       Holds(queues'[Repository(j)][k], j)
                 \/ Holds(active'[Repository(j)].waiters, j)
      <3>1. \/ Holds(channel, j)
            \/ \E k \in DOMAIN queues[Repository(j)] :
                  Holds(queues[Repository(j)][k], j)
            \/ Holds(active[Repository(j)].waiters, j)
        BY <2>1 DEF IndInv, Accounted
      <3>2. Repository(j) \in Repositories
        BY ServiceConstants DEF IndInv, Types, TypeOK, Submitted, Repository
      <3>3. CASE Repository(j) # r
        BY <1>3, <1>5, <3>1, <3>2, <3>3
      <3>4. CASE Repository(j) = r
        <4>1. ~Holds(active[r].waiters, j)
          BY <1>0, NothingRuns
        <4>2. Holds(queues[r][1], j) => Holds(active'[r].waiters, j)
          BY <1>3, <1>a, <1>w
        <4>3. ASSUME NEW k \in DOMAIN queues[r], k # 1, Holds(queues[r][k], j)
              PROVE  \E l \in DOMAIN queues'[r] : Holds(queues'[r][l], j)
          BY <1>5, <4>3
        <4> QED
          BY <3>1, <3>4, <4>1, <4>2, <4>3
      <3> QED
        BY <3>3, <3>4
    <2> QED
      BY <1>c, <2>1 DEF Accounted, Holds
  <1>15. Logged'
    <2>1. \A q \in Repositories : \A k \in DOMAIN log[q] :
             LET m == log[q][k]
             IN  /\ m \in Submitted /\ Mutation(m) /\ Repository(m) = q
                 /\ answer[m] # "none" \/ (active'[q].owner = m /\ active'[q].executed)
      <3>1. ~active[r].executed
        BY <1>1 DEF Idle
      <3> QED
        BY <1>3, <3>1 DEF IndInv, Logged
    <2>2. ASSUME NEW q \in Active', active'[q].executed, Mutation(active'[q].owner)
          PROVE  Holds(log[q], active'[q].owner)
      BY <1>3, <1>w, <2>2, ZenonT(60) DEF IndInv, Logged, Active
    <2> QED
      BY <1>c, <2>1, <2>2 DEF Logged, Holds
  <1>16. TicketsInOrder'
    <2>1. ASSUME NEW q \in Repositories, NEW j \in Ids
          PROVE  Holder(q, j)' <=> Holder(q, j)
      <3>1. Holder(q, j)' <=>
               /\ j \in Submitted /\ Ordered(j) /\ Repository(j) = q
               /\ \/ Holds(channel, j)
                  \/ \E k \in DOMAIN queues'[q] : queues'[q][k][1] = j
                  \/ active'[q].owner = j /\ active'[q].stage = "waiting"
        BY <1>c DEF Holder, Holds
      <3>2. CASE q # r
        BY <1>3, <1>5, <3>1, <3>2 DEF Holder
      <3>3. CASE q = r
        <4>1. active[q].stage # "waiting"
          BY <1>0, <3>3, NothingRuns
        <4>2. active'[q].owner = i /\ active'[q].stage = "waiting"
          BY <1>3, <1>w, <3>3
        <4>3. queues[r][1][1] = i
          BY <1>a, <1>b
        <4>4. (\E k \in DOMAIN queues[q] : queues[q][k][1] = j) <=>
                 (\E k \in DOMAIN queues'[q] : queues'[q][k][1] = j) \/ j = i
          <5>1. ASSUME NEW k \in DOMAIN queues[r], queues[r][k][1] = j, j # i
                PROVE  \E l \in DOMAIN queues'[r] : queues'[r][l][1] = j
            BY <1>5, <4>3, <5>1
          <5>2. ASSUME NEW k \in DOMAIN queues'[r], queues'[r][k][1] = j
                PROVE  \E l \in DOMAIN queues[r] : queues[r][l][1] = j
            BY <1>5, <5>2
          <5> QED
            BY <1>1, <3>3, <4>3, <5>1, <5>2
        <4> QED
          BY <3>1, <3>3, <4>1, <4>2, <4>4 DEF Holder
      <3> QED
        BY <3>2, <3>3
    <2> QED
      BY <1>c, <2>1 DEF IndInv, TicketsInOrder, Holds
  <1>17. GenerationsCurrent' /\ GenerationsOrderViews'
    <2>1. ASSUME NEW j \in Submitted, Shows(j)
          PROVE  /\ stamp[j] <= generations'[Repository(j)]
                 /\ Len(view[j]) <= Len(log[Repository(j)])
                 /\ stamp[j] = generations'[Repository(j)] =>
                      /\ Len(view[j]) = Len(log[Repository(j)])
                      /\ Repository(j) \in Active' =>
                            ~Mutation(active'[Repository(j)].owner)
      <3>1. /\ stamp[j] <= generations[Repository(j)]
            /\ Len(view[j]) <= Len(log[Repository(j)])
            /\ stamp[j] = generations[Repository(j)] =>
                 /\ Len(view[j]) = Len(log[Repository(j)])
                 /\ Repository(j) \in Active =>
                       ~Mutation(active[Repository(j)].owner)
        BY <2>1 DEF IndInv, GenerationsCurrent
      <3>2. Repository(j) \in Repositories
        BY ServiceConstants DEF IndInv, Types, TypeOK, Submitted, Repository
      <3>3. stamp[j] \in Nat
        <4>1. stamp \in Seq(Nat) /\ DOMAIN stamp = Submitted
          BY DEF IndInv, Types, TypeOK
        <4> QED
          BY <4>1, LenProperties
      <3>4. CASE Repository(j) # r
        BY <1>3, <1>4, <3>1, <3>2, <3>4
      <3>5. CASE Repository(j) = r
        <4>1. generations[r] \in Nat /\ generations'[r] = g
              /\ active'[r].owner = i
          BY <1>3, <1>4, <1>w
        <4>2. /\ stamp[j] <= generations[r] /\ Len(view[j]) <= Len(log[r])
              /\ stamp[j] = generations[r] => Len(view[j]) = Len(log[r])
          BY <3>1, <3>5
        <4>3. CASE Mutation(i)
          <5>1. stamp[j] < g
            BY <1>g, <3>3, <4>1, <4>2, <4>3
          <5> QED
            BY <3>3, <3>5, <4>1, <4>2, <5>1
        <4>4. CASE ~Mutation(i)
          <5>1. g = generations[r]
            BY <1>g, <4>4
          <5> QED
            BY <3>5, <4>1, <4>2, <4>4, <5>1
        <4> QED
          BY <4>3, <4>4
      <3> QED
        BY <3>4, <3>5
    <2>2. GenerationsCurrent'
      BY <1>c, <2>1 DEF GenerationsCurrent
    <2>3. GenerationsOrderViews'
      BY <1>c DEF IndInv, GenerationsOrderViews, Shows
    <2> QED
      BY <2>2, <2>3
  <1> QED
    BY <1>8, <1>9, <1>10, <1>11, <1>12, <1>13, <1>14, <1>15, <1>16, <1>17
    DEF IndInv

-----------------------------------------------------------------------------
(* The scheduler receives a request *)

\* The request that is received is older than those still in the channel and
\* newer than everything queued or running.
LEMMA ReceivedIsBetween ==
    ASSUME IndInv, channel # <<>>, channel' = Tail(channel)
    PROVE  /\ Received \in Ids /\ Waits(Received)
           /\ Repository(Received) \in Repositories
           /\ Holds(channel, Received)
           /\ channel' \in Seq(Ids) /\ Len(channel') <= Capacity
           /\ Increasing(channel')
           /\ \A j : Holds(channel', j) <=> Holds(channel, j) /\ j # Received
           /\ \A k \in DOMAIN channel' :
                 Holds(channel, channel'[k]) /\ Received < channel'[k]
           /\ \A q \in Repositories :
                 /\ \A l \in DOMAIN queues[q] : \A a \in DOMAIN queues[q][l] :
                       queues[q][l][a] < Received
                 /\ \A a \in DOMAIN active[q].waiters :
                       active[q].waiters[a] < Received
                 /\ active[q].owner < Received
  <1>1. /\ channel \in Seq(Ids) /\ Increasing(channel)
        /\ Len(channel) <= Capacity
    BY DEF IndInv, Types, TypeOK, ChannelInOrder
  <1>2. /\ channel' \in Seq(Ids) /\ Increasing(channel')
        /\ Received = channel[1] /\ 1 \in DOMAIN channel
        /\ \A j : Holds(channel', j) <=> Holds(channel, j) /\ j # channel[1]
        /\ \A k \in DOMAIN channel : channel[1] <= channel[k]
    BY <1>1, TailInOrder DEF Received
  <1>3. Len(channel') <= Capacity
    <2>1. Len(channel') = Len(channel) - 1 /\ Len(channel) \in Nat
      BY <1>1, HeadTailProperties, LenProperties
    <2> QED
      BY <1>1, <2>1, ServiceConstants
  <1>4. Received \in Ids /\ Waits(Received) /\ Holds(channel, Received)
    BY <1>1, <1>2, LenProperties DEF IndInv, ChannelInOrder, Holds
  <1>5. Repository(Received) \in Repositories
    BY <1>4, ServiceConstants
    DEF IndInv, Types, TypeOK, Submitted, Repository, Waits
  <1>6. ASSUME NEW k \in DOMAIN channel'
        PROVE  Holds(channel, channel'[k]) /\ Received < channel'[k]
    <2>1. Holds(channel', channel'[k])
      BY DEF Holds
    <2>2. Holds(channel, channel'[k]) /\ channel'[k] # Received
      BY <1>2, <2>1
    <2>3. PICK l \in DOMAIN channel : channel[l] = channel'[k]
      BY <2>2 DEF Holds
    <2>4. channel[l] \in Nat /\ Received \in Nat
      BY <1>1, <1>4, LenProperties, IdsAreNumbers, ZenonT(60)
    <2> QED
      BY <1>2, <2>2, <2>3, <2>4
  <1>7. \A q \in Repositories :
           /\ \A l \in DOMAIN queues[q] : \A a \in DOMAIN queues[q][l] :
                 queues[q][l][a] < Received
           /\ \A a \in DOMAIN active[q].waiters :
                 active[q].waiters[a] < Received
           /\ active[q].owner < Received
    BY <1>2 DEF IndInv, ChannelInOrder
  <1> QED
    BY <1>2, <1>3, <1>4, <1>5, <1>6, <1>7

\* So it waits nowhere else, and holds a ticket only through the channel.
LEMMA ReceivedIsNew ==
    ASSUME IndInv, channel # <<>>, channel' = Tail(channel)
    PROVE  \A q \in Repositories :
              /\ \A l \in DOMAIN queues[q] :
                    ~Holds(queues[q][l], Received) /\ queues[q][l][1] # Received
              /\ ~Holds(active[q].waiters, Received)
              /\ active[q].owner # Received
  <1>1. Received \in Nat
    BY ReceivedIsBetween, IdsAreNumbers
  <1>2. \A q \in Repositories : \A l \in DOMAIN queues[q] :
           \A a \in DOMAIN queues[q][l] : queues[q][l][a] # Received
    BY <1>1, ReceivedIsBetween
  <1>3. \A q \in Repositories : \A a \in DOMAIN active[q].waiters :
           active[q].waiters[a] # Received
    BY <1>1, ReceivedIsBetween
  <1>4. \A q \in Repositories : active[q].owner # Received
    BY <1>1, ReceivedIsBetween
  <1>5. \A q \in Repositories : \A l \in DOMAIN queues[q] :
           1 \in DOMAIN queues[q][l]
    BY QueuedJob
  <1> QED
    BY <1>2, <1>3, <1>4, <1>5 DEF Holds

\* The channel after a request is received, and put where it belongs.
LEMMA ChannelAfter ==
    ASSUME IndInv, channel # <<>>, channel' = Tail(channel), UNCHANGED op,
           \A j \in Submitted : j # Received => answer'[j] = answer[j],
           \A q \in Repositories : \A l \in DOMAIN queues'[q] :
              \A j : Holds(queues'[q][l], j) =>
                 j = Received \/ \E m \in DOMAIN queues[q] : Holds(queues[q][m], j),
           \A q \in Repositories :
              /\ active'[q].owner = active[q].owner
              /\ \A j : Holds(active'[q].waiters, j) =>
                    j = Received \/ Holds(active[q].waiters, j)
    PROVE  ChannelInOrder'
  <1>1. ASSUME NEW k \in DOMAIN channel'
        PROVE  /\ channel'[k] \in Submitted /\ answer'[channel'[k]] = "none"
               /\ \A q \in Repositories :
                     /\ \A l \in DOMAIN queues'[q] :
                           \A a \in DOMAIN queues'[q][l] :
                              queues'[q][l][a] < channel'[k]
                     /\ \A a \in DOMAIN active'[q].waiters :
                           active'[q].waiters[a] < channel'[k]
                     /\ active'[q].owner < channel'[k]
    <2>1. Holds(channel, channel'[k]) /\ Received < channel'[k]
          /\ Received \in Nat
      BY ReceivedIsBetween, IdsAreNumbers
    <2>2. PICK n \in DOMAIN channel : channel[n] = channel'[k]
      BY <2>1 DEF Holds
    <2>3. /\ Waits(channel[n])
          /\ \A q \in Repositories :
                /\ \A m \in DOMAIN queues[q] : \A a \in DOMAIN queues[q][m] :
                      queues[q][m][a] < channel[n]
                /\ \A a \in DOMAIN active[q].waiters :
                      active[q].waiters[a] < channel[n]
                /\ active[q].owner < channel[n]
      BY DEF IndInv, ChannelInOrder
    <2>4. channel'[k] # Received
      <3>1. channel'[k] \in Nat
        <4>1. channel \in Seq(Ids)
          BY DEF IndInv, Types, TypeOK
        <4> QED
          BY <2>2, <4>1, LenProperties, IdsAreNumbers, ZenonT(60)
      <3> QED
        BY <2>1, <3>1
    <2>5. channel'[k] \in Submitted /\ answer'[channel'[k]] = "none"
      BY <2>2, <2>3, <2>4 DEF Waits
    <2>6. ASSUME NEW q \in Repositories, NEW l \in DOMAIN queues'[q],
                 NEW a \in DOMAIN queues'[q][l]
          PROVE  queues'[q][l][a] < channel'[k]
      <3>1. Holds(queues'[q][l], queues'[q][l][a])
        BY DEF Holds
      <3>2. CASE queues'[q][l][a] = Received
        BY <2>1, <3>2
      <3>3. CASE \E m \in DOMAIN queues[q] : Holds(queues[q][m], queues'[q][l][a])
        BY <2>2, <2>3, <3>3 DEF Holds
      <3> QED
        BY <3>1, <3>2, <3>3
    <2>7. ASSUME NEW q \in Repositories, NEW a \in DOMAIN active'[q].waiters
          PROVE  active'[q].waiters[a] < channel'[k]
      <3>1. Holds(active'[q].waiters, active'[q].waiters[a])
        BY DEF Holds
      <3>2. CASE active'[q].waiters[a] = Received
        BY <2>1, <3>2
      <3>3. CASE Holds(active[q].waiters, active'[q].waiters[a])
        BY <2>2, <2>3, <3>3 DEF Holds
      <3> QED
        BY <3>1, <3>2, <3>3
    <2>8. \A q \in Repositories : active'[q].owner < channel'[k]
      BY <2>2, <2>3
    <2> QED
      BY <2>5, <2>6, <2>7, <2>8
  <1>2. Increasing(channel')
    BY ReceivedIsBetween
  <1>3. Submitted' = Submitted
    BY DEF Submitted
  <1> QED
    BY <1>1, <1>2, <1>3 DEF ChannelInOrder, Waits

\* A ticket that is given back leaves those of the others.
LEMMA TicketGivenBack ==
    ASSUME IndInv, NEW i \in Submitted, tickets' = TicketsWithout(i)
    PROVE  /\ tickets' \in [Repositories -> Seq(Ids)]
           /\ \A q \in Repositories :
                 /\ Increasing(tickets'[q])
                 /\ \A j : Holds(tickets'[q], j) <=>
                              Holds(tickets[q], j) /\ (q = Repository(i) => j # i)
  <1>1. PICK r \in Repositories : r = Repository(i)
    <2>1. op \in Seq(Operations) /\ i \in DOMAIN op
      BY DEF IndInv, Types, TypeOK, Submitted
    <2>2. op[i] \in Operations
      BY <2>1, LenProperties
    <2>3. Repository(i) \in Repositories
      BY <2>2, ServiceConstants DEF Repository
    <2> QED
      BY <2>3
  <1>2. /\ tickets \in [Repositories -> Seq(Ids)]
        /\ \A q \in Repositories : Increasing(tickets[q])
    BY DEF IndInv, Types, TypeOK, TicketsInOrder
  <1>3. tickets' = [tickets EXCEPT ![r] = Without(tickets[r], i)]
    BY <1>1 DEF TicketsWithout
  <1>4. /\ Without(tickets[r], i) \in Seq(Ids)
        /\ Increasing(Without(tickets[r], i))
        /\ \A j : Holds(Without(tickets[r], i), j) <=> Holds(tickets[r], j) /\ j # i
    BY <1>2, WithoutInOrder
  <1> QED
    BY <1>1, <1>2, <1>3, <1>4


\* What no receipt changes.
LEMMA ReceiptTypes ==
    ASSUME IndInv, channel # <<>>, channel' = Tail(channel), pc' = "drain",
           UNCHANGED <<op, dropped, flagged, log, generations, view, stamp>>,
           answer' \in Seq(States), DOMAIN answer' = Submitted,
           tickets' \in [Repositories -> Seq(Ids)],
           queues' \in [Repositories -> Seq(Seq(Ids))],
           active' \in [Repositories -> Worker \union {Idle}], Active' = Active
    PROVE  Types'
  <1>1. channel' \in Seq(Ids) /\ Len(channel') <= Capacity
    BY ReceivedIsBetween
  <1>2. \A j \in Submitted : answer'[j] \in States
    BY LenProperties
  <1> QED
    BY <1>1, <1>2, SameRequests DEF IndInv, Types, TypeOK, States

\* An equal mutation is queued or running: the request is refused.
LEMMA ReceiveDuplicateInv ==
    ASSUME IndInv, Receive, ReceiveDuplicate
    PROVE  IndInv'
  <1>1. channel # <<>> /\ channel' = Tail(channel)
    BY DEF Receive
  <1>a. PICK i \in Ids : i = Received
    BY <1>1, ReceivedIsBetween
  <1>2. /\ pc' = "drain" /\ answer' = [answer EXCEPT ![i] = "duplicate"]
        /\ tickets' = TicketsWithout(i)
        /\ UNCHANGED <<op, dropped, flagged, log, generations, view, stamp,
                       queues, active>>
    BY <1>a DEF Receive, ReceiveDuplicate, handleVars
  <1>c. /\ UNCHANGED <<flagged, log, generations, view, stamp, queues, active>>
        /\ Submitted' = Submitted /\ Active' = Active
        /\ \A j : /\ Repository(j)' = Repository(j) /\ Mutation(j)' = Mutation(j)
                  /\ Ordered(j)' = Ordered(j)
    BY <1>2, SameRequests DEF Active
  <1>3. /\ Waits(i) /\ i \in Submitted
        /\ \A j : Holds(channel', j) <=> Holds(channel, j) /\ j # i
    BY <1>1, <1>a, ReceivedIsBetween DEF Waits
  <1>4. /\ answer' \in Seq(States) /\ DOMAIN answer' = Submitted
        /\ answer'[i] = "duplicate"
        /\ \A j : j # i => answer'[j] = answer[j]
    <2>1. answer \in Seq(States) /\ DOMAIN answer = Submitted
      BY DEF IndInv, Types, TypeOK
    <2>2. DOMAIN answer = 1 .. Len(answer)
      BY <2>1, LenProperties
    <2>3. "duplicate" \in States
      BY DEF States
    <2>4. [answer EXCEPT ![i] = "duplicate"] \in Seq(States)
      BY <1>3, <2>1, <2>2, <2>3, ExceptSeq
    <2> QED
      BY <1>2, <1>3, <2>1, <2>4
  <1>5. /\ tickets' \in [Repositories -> Seq(Ids)]
        /\ \A q \in Repositories :
              /\ Increasing(tickets'[q])
              /\ \A j : Holds(tickets'[q], j) <=>
                           Holds(tickets[q], j) /\ (q = Repository(i) => j # i)
    BY <1>2, <1>3, TicketGivenBack
  <1>6. \A q \in Repositories :
           /\ \A l \in DOMAIN queues[q] :
                 ~Holds(queues[q][l], i) /\ queues[q][l][1] # i
           /\ ~Holds(active[q].waiters, i) /\ active[q].owner # i
    BY <1>1, <1>a, ReceivedIsNew
  <1>7. Types'
    <2>1. /\ queues' \in [Repositories -> Seq(Seq(Ids))]
          /\ active' \in [Repositories -> Worker \union {Idle}]
      BY <1>c DEF IndInv, Types, TypeOK
    <2> QED
      BY <1>1, <1>2, <1>4, <1>5, <1>c, <2>1, ReceiptTypes
  <1>8. ChannelInOrder'
    BY <1>1, <1>2, <1>4, <1>a, ChannelAfter
  <1>9. JobsFormed' /\ JobsInOrder'
    <2>1. \A r \in Repositories : \A k \in DOMAIN queues[r] : \A j :
             Holds(queues[r][k], j) => answer'[j] = answer[j]
      BY <1>4, <1>6
    <2> QED
      BY <1>2, <2>1, JobsKept
  <1>10. WorkFormed'
    <2>1. ASSUME NEW q \in Active
          PROVE  LET w == active[q]
                 IN  /\ w.waiters # <<>> /\ Increasing(w.waiters)
                     /\ \A a \in DOMAIN w.waiters :
                           /\ w.waiters[a] \in Submitted
                           /\ answer'[w.waiters[a]] = "none"
                           /\ op[w.waiters[a]] = op[w.owner]
                     /\ w.owner \in Submitted /\ Repository(w.owner) = q
                     /\ Mutation(w.owner) => w.waiters = <<w.owner>>
      <3>1. \A j : Holds(active[q].waiters, j) => answer'[j] = answer[j]
        BY <1>4, <1>6 DEF Active
      <3>2. op' = op /\ active'[q] = active[q]
        BY <1>2
      <3> QED
        BY <3>1, <3>2, WorkKept
    <2>2. op' = op
      BY <1>2
    <2> QED
      BY <1>c, <2>1, <2>2 DEF WorkFormed, Waits
  <1>11. WorkFirst'
    BY <1>c DEF IndInv, WorkFirst
  <1>12. WorkStaged'
    BY <1>c DEF IndInv, WorkStaged, AllCancelled
  <1>13. Accounted'
    <2>1. ASSUME NEW j \in Submitted, answer'[j] = "none"
          PROVE  j # i /\ answer[j] = "none"
      BY <1>4, <2>1
    <2>2. \A j : j # i => (Holds(channel', j) <=> Holds(channel, j))
      BY <1>3
    <2>3. UNCHANGED <<queues, active>> /\ Submitted' = Submitted
      BY <1>c
    <2> QED
      BY <1>c, <2>1, <2>2, <2>3 DEF IndInv, Accounted, Holds
  <1>14. Logged'
    <2>1. \A q \in Repositories : \A k \in DOMAIN log[q] :
             answer[log[q][k]] # "none" => answer'[log[q][k]] # "none"
      BY <1>4
    <2> QED
      BY <1>c, <2>1 DEF IndInv, Logged, Holds
  <1>15. TicketsInOrder'
    <2>1. ASSUME NEW q \in Repositories, NEW j \in Ids
          PROVE  Holds(tickets'[q], j) <=> Holder(q, j)'
      <3>1. Holds(tickets[q], j) <=> Holder(q, j)
        BY DEF IndInv, TicketsInOrder
      <3>2. Holder(q, j)' <=>
               /\ j \in Submitted /\ Ordered(j) /\ Repository(j) = q
               /\ \/ Holds(channel, j) /\ j # i
                  \/ \E k \in DOMAIN queues[q] : queues[q][k][1] = j
                  \/ active[q].owner = j /\ active[q].stage = "waiting"
        BY <1>3, <1>c DEF Holder
      <3> QED
        BY <1>5, <1>6, <3>1, <3>2 DEF Holder
    <2> QED
      BY <1>5, <2>1 DEF TicketsInOrder
  <1>16. GenerationsCurrent' /\ GenerationsOrderViews'
    <2>1. \A j : Shows(j)' => Shows(j)
      BY <1>2, <1>4, SameRequests DEF Shows
    <2>2. GenerationsCurrent'
      BY <1>c, <2>1 DEF IndInv, GenerationsCurrent
    <2>3. GenerationsOrderViews'
      BY <1>c, <2>1 DEF IndInv, GenerationsOrderViews, Shows
    <2> QED
      BY <2>2, <2>3
  <1> QED
    BY <1>7, <1>8, <1>9, <1>10, <1>11, <1>12, <1>13, <1>14, <1>15, <1>16
    DEF IndInv

\* The request joins the read that is running.
LEMMA JoinActiveInv ==
    ASSUME IndInv, Receive, JoinActive
    PROVE  IndInv'
  <1>1. channel # <<>> /\ channel' = Tail(channel)
    BY DEF Receive
  <1>a. PICK i \in Ids : i = Received
    BY <1>1, ReceivedIsBetween
  <1>3. /\ Waits(i) /\ i \in Submitted /\ Repository(i) \in Repositories
        /\ \A j : Holds(channel', j) <=> Holds(channel, j) /\ j # i
    BY <1>1, <1>a, ReceivedIsBetween DEF Waits
  <1>r. PICK r \in Repositories : r = Repository(i)
    BY <1>3
  <1>4. /\ r \in Active /\ ReadKey(i) # NoKey /\ ~active[r].abandoned
        /\ op[active[r].owner] = op[i]
        /\ \A k \in DOMAIN queues[r] : IsKeyedRead(queues[r][k])
    BY <1>a, <1>r DEF JoinActive, SharesActive, Active
  <1>b. PICK s \in Seq(Ids) : /\ s = Append(active[r].waiters, i)
                              /\ s # <<>> /\ Increasing(s)
                              /\ \A j : Holds(s, j) <=>
                                    Holds(active[r].waiters, j) \/ j = i
    <2>1. PICK t \in Seq(Ids) : t = active[r].waiters /\ Increasing(t)
      BY <1>4, Working
    <2>2. \A k \in DOMAIN t : t[k] < i
      BY <1>1, <1>a, <2>1, ReceivedIsBetween
    <2>3. /\ Append(t, i) \in Seq(Ids) /\ Increasing(Append(t, i))
          /\ \A j : Holds(Append(t, i), j) <=> Holds(t, j) \/ j = i
      BY <2>1, <2>2, AppendInOrder
    <2>4. Append(t, i) # <<>>
      BY <2>3 DEF Holds
    <2> QED
      BY <2>1, <2>3, <2>4
  <1>w. PICK w \in Worker :
           /\ w = [active[r] EXCEPT !.waiters = s]
           /\ w.owner = active[r].owner /\ w.waiters = s
           /\ w.stage = active[r].stage /\ w.abandoned = active[r].abandoned
           /\ w.executed = active[r].executed /\ w.result = active[r].result
           /\ w.saw = active[r].saw /\ w.generation = active[r].generation
    <2>1. PICK u \in Worker : u = active[r]
      BY <1>4, Working
    <2>2. [u EXCEPT !.waiters = s] \in Worker
      BY DEF Worker
    <2> QED
      BY <2>1, <2>2 DEF Worker
  <1>2. /\ pc' = "drain" /\ active' = [active EXCEPT ![r] = w]
        /\ tickets' = TicketsWithout(i)
        /\ UNCHANGED <<op, dropped, flagged, log, generations, answer, view,
                       stamp, queues>>
    <2>1. active' = [active EXCEPT ![r].waiters = Append(@, i)]
      BY <1>a, <1>r DEF JoinActive
    <2>2. active' = [active EXCEPT ![r] = w]
      BY <1>b, <1>w, <2>1
    <2> QED
      BY <1>a, <2>2 DEF Receive, JoinActive, handleVars, resultVars
  <1>5. /\ active'[r] = w
        /\ \A q \in Repositories : q # r => active'[q] = active[q]
        /\ active' \in [Repositories -> Worker \union {Idle}]
        /\ Active' = Active
    <2>1. active \in [Repositories -> Worker \union {Idle}]
      BY DEF IndInv, Types, TypeOK
    <2>2. w # Idle
      BY IdleWork
    <2>3. active'[r] = w /\ \A q \in Repositories : q # r => active'[q] = active[q]
      BY <1>2, <2>1
    <2> QED
      BY <1>2, <1>4, <2>1, <2>2, <2>3 DEF Active
  <1>c. /\ UNCHANGED <<flagged, log, generations, answer, view, stamp, queues>>
        /\ Submitted' = Submitted /\ Active' = Active
        /\ \A j : /\ Repository(j)' = Repository(j) /\ Mutation(j)' = Mutation(j)
                  /\ Ordered(j)' = Ordered(j) /\ Shows(j)' = Shows(j)
    BY <1>2, <1>5, SameRequests DEF Shows
  <1>6. /\ tickets' \in [Repositories -> Seq(Ids)]
        /\ \A q \in Repositories :
              /\ Increasing(tickets'[q])
              /\ \A j : Holds(tickets'[q], j) <=>
                           Holds(tickets[q], j) /\ (q = r => j # i)
    BY <1>2, <1>3, <1>r, TicketGivenBack
  <1>7. \A q \in Repositories :
           /\ \A l \in DOMAIN queues[q] :
                 ~Holds(queues[q][l], i) /\ queues[q][l][1] # i
           /\ ~Holds(active[q].waiters, i) /\ active[q].owner # i
    BY <1>1, <1>a, ReceivedIsNew
  <1>8. ~Mutation(i) /\ ~Mutation(w.owner)
    BY <1>4, <1>w DEF ReadKey, Mutation
  <1>9. Types'
    <2>1. /\ queues' \in [Repositories -> Seq(Seq(Ids))]
          /\ answer' \in Seq(States) /\ DOMAIN answer' = Submitted
      BY <1>c DEF IndInv, Types, TypeOK
    <2> QED
      BY <1>1, <1>2, <1>5, <1>6, <2>1, ReceiptTypes
  <1>10. ChannelInOrder'
    <2>1. \A q \in Repositories :
              /\ active'[q].owner = active[q].owner
              /\ \A j : Holds(active'[q].waiters, j) =>
                    j = Received \/ Holds(active[q].waiters, j)
      BY <1>5, <1>a, <1>b, <1>w
    <2>2. \A q \in Repositories : \A l \in DOMAIN queues'[q] :
              \A j : Holds(queues'[q][l], j) =>
                 j = Received \/ \E m \in DOMAIN queues[q] : Holds(queues[q][m], j)
      BY <1>c
    <2> QED
      BY <1>1, <1>2, <1>c, <2>1, <2>2, ChannelAfter
  <1>11. JobsFormed' /\ JobsInOrder'
    BY <1>2, JobsKept
  <1>12. WorkFormed'
    <2>1. ASSUME NEW q \in Active
          PROVE  LET u == active'[q]
                 IN  /\ u.waiters # <<>> /\ Increasing(u.waiters)
                     /\ \A j : Holds(u.waiters, j) =>
                           /\ j \in Submitted /\ answer[j] = "none"
                           /\ op[j] = op[u.owner]
                     /\ u.owner \in Submitted /\ Repository(u.owner) = q
                     /\ Mutation(u.owner) => u.waiters = <<u.owner>>
      <3>1. /\ active[q].waiters # <<>> /\ Increasing(active[q].waiters)
            /\ \A j : Holds(active[q].waiters, j) =>
                  /\ j \in Submitted /\ answer[j] = "none"
                  /\ op[j] = op[active[q].owner]
            /\ active[q].owner \in Submitted /\ Repository(active[q].owner) = q
            /\ Mutation(active[q].owner) => active[q].waiters = <<active[q].owner>>
        BY Working DEF Holds, Waits
      <3>2. CASE q # r
        BY <1>5, <3>1, <3>2 DEF Active
      <3>3. CASE q = r
        <4>1. active'[q].waiters = s /\ active'[q].owner = active[r].owner
          BY <1>5, <1>w, <3>3
        <4>2. \A j : Holds(s, j) =>
                 /\ j \in Submitted /\ answer[j] = "none"
                 /\ op[j] = op[active[r].owner]
          BY <1>3, <1>4, <1>b, <3>1, <3>3 DEF Waits
        <4> QED
          BY <1>8, <1>b, <1>w, <3>1, <3>3, <4>1, <4>2
      <3> QED
        BY <3>2, <3>3
    <2>2. op' = op
      BY <1>2
    <2> QED
      BY <1>c, <2>1, <2>2 DEF WorkFormed, Waits, Holds
  <1>13. WorkFirst'
    <2>1. ASSUME NEW q \in Active, NEW k \in DOMAIN queues[q]
          PROVE  LET u == active'[q]
                     job == queues[q][k]
                 IN  /\ u.owner < job[1]
                     /\ \A a \in DOMAIN u.waiters : \A b \in DOMAIN job :
                           u.waiters[a] # job[b]
                     /\ Mutation(u.owner) \/ Mutation(job[1]) =>
                           \A a \in DOMAIN u.waiters : \A b \in DOMAIN job :
                               u.waiters[a] < job[b]
      <3>1. CASE q # r
        BY <1>5, <3>1 DEF IndInv, WorkFirst, Active
      <3>2. CASE q = r
        <4>1. active[r].owner < queues[r][k][1]
          BY <3>2 DEF IndInv, WorkFirst
        <4>2. ASSUME NEW a \in DOMAIN s, NEW b \in DOMAIN queues[r][k]
              PROVE  s[a] # queues[r][k][b]
          <5>1. Holds(s, s[a]) /\ Holds(queues[r][k], queues[r][k][b])
            BY DEF Holds
          <5>2. s[a] = i \/ Holds(active[r].waiters, s[a])
            BY <1>b, <5>1
          <5> QED
            BY <1>4, <1>7, <3>2, <5>1, <5>2, WorkApart
        <4>3. ~Mutation(queues[r][k][1])
          BY <1>4, <3>2 DEF IsKeyedRead, ReadKey
        <4>4. active'[q].waiters = s /\ active'[q].owner = active[r].owner
          BY <1>5, <1>w, <3>2
        <4> QED
          BY <1>8, <1>w, <3>2, <4>1, <4>2, <4>3, <4>4
      <3> QED
        BY <3>1, <3>2
    <2> QED
      BY <1>c, <2>1 DEF WorkFirst
  <1>14. WorkStaged'
    <2>1. ASSUME NEW q \in Active
          PROVE  LET u == active'[q]
                 IN  /\ u.abandoned => AllCancelled(u.waiters)
                     /\ u.result = "abandoned" => u.abandoned
                     /\ u.result \in {"ok", "error"} => u.executed
                     /\ u.stage \in {"ended", "sent", "reporting"} =>
                           u.result # "none"
                     /\ u.stage = "waiting" => ~u.executed
                     /\ u.stage = "executing" => u.executed
                     /\ u.executed => u.saw = log[q] \/ Mutation(u.owner)
                     /\ u.generation = generations[q]
      <3>1. CASE q # r
        BY <1>5, <3>1 DEF IndInv, WorkStaged, Active
      <3>2. CASE q = r
        <4>1. active'[q] = w /\ ~w.abandoned
          BY <1>4, <1>5, <1>w, <3>2
        <4> QED
          BY <1>4, <1>w, <3>2, <4>1 DEF IndInv, WorkStaged
      <3> QED
        BY <3>1, <3>2
    <2> QED
      BY <1>c, <2>1 DEF WorkStaged, AllCancelled
  <1>15. Accounted'
    <2>1. ASSUME NEW j \in Submitted, answer[j] = "none"
          PROVE  \/ Holds(channel', j)
                 \/ \E k \in DOMAIN queues[Repository(j)] :
                       Holds(queues[Repository(j)][k], j)
                 \/ Holds(active'[Repository(j)].waiters, j)
      <3>1. \/ Holds(channel, j)
            \/ \E k \in DOMAIN queues[Repository(j)] :
                  Holds(queues[Repository(j)][k], j)
            \/ Holds(active[Repository(j)].waiters, j)
        BY <2>1 DEF IndInv, Accounted
      <3>2. Repository(j) \in Repositories
        BY ServiceConstants DEF IndInv, Types, TypeOK, Submitted, Repository
      <3>3. j = i => Holds(active'[Repository(j)].waiters, j)
        BY <1>5, <1>b, <1>r, <1>w, ZenonT(60)
      <3>4. Holds(active[Repository(j)].waiters, j) =>
               Holds(active'[Repository(j)].waiters, j)
        BY <1>5, <1>b, <1>w, <3>2
      <3> QED
        BY <1>3, <3>1, <3>3, <3>4
    <2> QED
      BY <1>c, <2>1 DEF Accounted, Holds
  <1>16. Logged'
    <2>1. \A q \in Repositories : /\ active'[q].owner = active[q].owner
                                  /\ active'[q].executed = active[q].executed
      BY <1>5, <1>w
    <2> QED
      BY <1>c, <2>1 DEF IndInv, Logged, Holds, Active
  <1>17. TicketsInOrder'
    <2>1. ASSUME NEW q \in Repositories, NEW j \in Ids
          PROVE  Holds(tickets'[q], j) <=> Holder(q, j)'
      <3>1. Holds(tickets[q], j) <=> Holder(q, j)
        BY DEF IndInv, TicketsInOrder
      <3>2. /\ active'[q].owner = active[q].owner
            /\ active'[q].stage = active[q].stage
        BY <1>5, <1>w
      <3>3. Holder(q, j)' <=>
               /\ j \in Submitted /\ Ordered(j) /\ Repository(j) = q
               /\ \/ Holds(channel, j) /\ j # i
                  \/ \E k \in DOMAIN queues[q] : queues[q][k][1] = j
                  \/ active[q].owner = j /\ active[q].stage = "waiting"
        BY <1>3, <1>c, <3>2 DEF Holder
      <3> QED
        BY <1>6, <1>7, <1>r, <3>1, <3>3 DEF Holder
    <2> QED
      BY <1>6, <2>1 DEF TicketsInOrder
  <1>18. GenerationsCurrent' /\ GenerationsOrderViews'
    <2>1. \A q \in Active : active'[q].owner = active[q].owner
      BY <1>5, <1>w DEF Active
    <2>2. GenerationsCurrent'
      BY <1>c, <2>1 DEF IndInv, GenerationsCurrent
    <2>3. GenerationsOrderViews'
      BY <1>c DEF IndInv, GenerationsOrderViews, Shows
    <2> QED
      BY <2>2, <2>3
  <1> QED
    BY <1>9, <1>10, <1>11, <1>12, <1>13, <1>14, <1>15, <1>16, <1>17, <1>18
    DEF IndInv


\* A request that is put in a queue leaves the rest as it was.
LEMMA ReceiptQueued ==
    ASSUME IndInv, channel # <<>>, channel' = Tail(channel), pc' = "drain",
           UNCHANGED <<op, dropped, flagged, log, generations, answer, view,
                       stamp, active>>,
           tickets' \in [Repositories -> Seq(Ids)],
           queues' \in [Repositories -> Seq(Seq(Ids))],
           \A q \in Repositories : \A l \in DOMAIN queues'[q] :
              \A j : Holds(queues'[q][l], j) =>
                 j = Received \/ \E m \in DOMAIN queues[q] : Holds(queues[q][m], j),
           \A q \in Repositories : \A m \in DOMAIN queues[q] :
              \A j : Holds(queues[q][m], j) =>
                 \E l \in DOMAIN queues'[q] : Holds(queues'[q][l], j),
           \E l \in DOMAIN queues'[Repository(Received)] :
              Holds(queues'[Repository(Received)][l], Received)
    PROVE  /\ Types' /\ ChannelInOrder' /\ WorkFormed' /\ WorkStaged'
           /\ Accounted' /\ Logged' /\ GenerationsCurrent'
           /\ GenerationsOrderViews'
  <1>a. PICK i \in Ids : i = Received
    BY ReceivedIsBetween
  <1>c. /\ UNCHANGED <<flagged, log, generations, answer, view, stamp, active>>
        /\ Submitted' = Submitted /\ Active' = Active
        /\ \A j : /\ Repository(j)' = Repository(j) /\ Mutation(j)' = Mutation(j)
                  /\ Ordered(j)' = Ordered(j) /\ Shows(j)' = Shows(j)
    BY SameRequests DEF Shows, Active
  <1>1. Types'
    <2>1. /\ active' \in [Repositories -> Worker \union {Idle}]
          /\ answer' \in Seq(States) /\ DOMAIN answer' = Submitted
      BY <1>c DEF IndInv, Types, TypeOK
    <2> QED
      BY <1>c, <2>1, ReceiptTypes
  <1>2. ChannelInOrder'
    BY ChannelAfter
  <1>3. WorkFormed'
    BY <1>c DEF IndInv, WorkFormed, Waits
  <1>4. WorkStaged'
    BY <1>c DEF IndInv, WorkStaged, AllCancelled
  <1>5. Accounted'
    <2>1. ASSUME NEW j \in Submitted, answer[j] = "none"
          PROVE  \/ Holds(channel', j)
                 \/ \E k \in DOMAIN queues'[Repository(j)] :
                       Holds(queues'[Repository(j)][k], j)
                 \/ Holds(active[Repository(j)].waiters, j)
      <3>1. \/ Holds(channel, j)
            \/ \E k \in DOMAIN queues[Repository(j)] :
                  Holds(queues[Repository(j)][k], j)
            \/ Holds(active[Repository(j)].waiters, j)
        BY <2>1 DEF IndInv, Accounted
      <3>2. Repository(j) \in Repositories
        BY ServiceConstants DEF IndInv, Types, TypeOK, Submitted, Repository
      <3>3. \A m : Holds(channel', m) <=> Holds(channel, m) /\ m # i
        BY <1>a, ReceivedIsBetween
      <3>4. j = i => \E l \in DOMAIN queues'[Repository(j)] :
                        Holds(queues'[Repository(j)][l], j)
        BY <1>a
      <3> QED
        BY <3>1, <3>2, <3>3, <3>4
    <2> QED
      BY <1>c, <2>1, ZenonT(60) DEF Accounted, Holds
  <1>6. Logged'
    <2>1. Logged /\ UNCHANGED <<op, answer, log, active>> /\ Active' = Active
      BY <1>c DEF IndInv
    <2> QED
      BY <2>1 DEF Logged, Submitted, Mutation, Repository, Holds
  <1>7. GenerationsCurrent' /\ GenerationsOrderViews'
    BY <1>c DEF IndInv, GenerationsCurrent, GenerationsOrderViews, Shows
  <1> QED
    BY <1>1, <1>2, <1>3, <1>4, <1>5, <1>6, <1>7

\* The request joins a read of the last segment of reads that is queued.
LEMMA JoinQueuedInv ==
    ASSUME IndInv, Receive, JoinQueued
    PROVE  IndInv'
  <1>1. channel # <<>> /\ channel' = Tail(channel)
    BY DEF Receive
  <1>a. PICK i \in Ids : i = Received
    BY <1>1, ReceivedIsBetween
  <1>2. /\ Waits(i) /\ i \in Submitted /\ Repository(i) \in Repositories
        /\ \A j : Holds(channel', j) <=> Holds(channel, j) /\ j # i
    BY <1>1, <1>a, ReceivedIsBetween DEF Waits
  <1>r. PICK r \in Repositories : r = Repository(i)
    BY <1>2
  <1>k. PICK k \in Sharable(i) :
           queues' = [queues EXCEPT ![r][k] = Append(@, i)]
    BY <1>a, <1>r DEF JoinQueued
  <1>3. /\ k \in DOMAIN queues[r] /\ ReadKey(i) # NoKey
        /\ op[queues[r][k][1]] = op[i]
        /\ \A l \in k .. Len(queues[r]) : IsKeyedRead(queues[r][l])
    BY <1>r, <1>k DEF Sharable
  <1>4. /\ queues \in [Repositories -> Seq(Seq(Ids))]
        /\ DOMAIN queues[r] = 1 .. Len(queues[r]) /\ Len(queues[r]) \in Nat
    BY LenProperties DEF IndInv, Types, TypeOK
  <1>b. PICK job \in Seq(Ids) :
           /\ job = Append(queues[r][k], i)
           /\ Increasing(job) /\ job # <<>>
           /\ \A j : Holds(job, j) <=> Holds(queues[r][k], j) \/ j = i
           /\ job[1] = queues[r][k][1] /\ 1 \in DOMAIN job
    <2>1. PICK t \in Seq(Ids) : /\ t = queues[r][k] /\ Increasing(t)
                                /\ 1 \in DOMAIN t
                                /\ DOMAIN t = 1 .. Len(t) /\ Len(t) \in Nat
      BY <1>3, QueuedJob
    <2>2. \A a \in DOMAIN t : t[a] < i
      BY <1>1, <1>3, <1>a, <2>1, ReceivedIsBetween
    <2>3. /\ Append(t, i) \in Seq(Ids) /\ Increasing(Append(t, i))
          /\ \A j : Holds(Append(t, i), j) <=> Holds(t, j) \/ j = i
      BY <2>1, <2>2, AppendInOrder
    <2>4. Append(t, i) # <<>>
      BY <2>3 DEF Holds
    <2>5. Append(t, i)[1] = t[1] /\ 1 \in DOMAIN Append(t, i)
      BY <2>1, OneMore
    <2> QED
      BY <2>1, <2>3, <2>4, <2>5
  <1>5. /\ queues' \in [Repositories -> Seq(Seq(Ids))]
        /\ \A q \in Repositories : q # r => queues'[q] = queues[q]
        /\ DOMAIN queues'[r] = DOMAIN queues[r]
        /\ queues'[r][k] = job
        /\ \A l \in DOMAIN queues[r] : l # k => queues'[r][l] = queues[r][l]
    <2>1. queues'[r] = [queues[r] EXCEPT ![k] = Append(queues[r][k], i)]
      BY <1>4, <1>k
    <2>2. \A q \in Repositories : q # r => queues'[q] = queues[q]
      BY <1>4, <1>k
    <2>3. queues[r] \in Seq(Seq(Ids))
      BY <1>4
    <2>4. [queues[r] EXCEPT ![k] = Append(queues[r][k], i)] \in Seq(Seq(Ids))
      BY <1>3, <1>4, <1>b, <2>3, ExceptSeq
    <2>5. queues' \in [Repositories -> Seq(Seq(Ids))]
      BY <1>4, <1>k, <2>1, <2>2, <2>4
    <2> QED
      BY <1>3, <1>4, <1>b, <2>1, <2>2, <2>5
  <1>6. /\ pc' = "drain" /\ tickets' = TicketsWithout(i)
        /\ UNCHANGED <<op, dropped, flagged, log, generations, answer, view,
                       stamp, active>>
    BY <1>a DEF Receive, JoinQueued, handleVars, resultVars
  <1>c. /\ Submitted' = Submitted /\ Active' = Active
        /\ \A j : /\ Repository(j)' = Repository(j) /\ Mutation(j)' = Mutation(j)
                  /\ ReadKey(j)' = ReadKey(j) /\ Ordered(j)' = Ordered(j)
    BY <1>6, SameRequests DEF Active
  <1>7. /\ tickets' \in [Repositories -> Seq(Ids)]
        /\ \A q \in Repositories :
              /\ Increasing(tickets'[q])
              /\ \A j : Holds(tickets'[q], j) <=>
                           Holds(tickets[q], j) /\ (q = r => j # i)
    BY <1>2, <1>6, <1>r, TicketGivenBack
  <1>8. \A q \in Repositories :
           /\ \A l \in DOMAIN queues[q] :
                 ~Holds(queues[q][l], i) /\ queues[q][l][1] # i
           /\ ~Holds(active[q].waiters, i) /\ active[q].owner # i
    BY <1>1, <1>a, ReceivedIsNew
  <1>9. /\ Types' /\ ChannelInOrder' /\ WorkFormed' /\ WorkStaged'
        /\ Accounted' /\ Logged' /\ GenerationsCurrent'
        /\ GenerationsOrderViews'
    <2>1. ASSUME NEW q \in Repositories, NEW l \in DOMAIN queues'[q], NEW j,
                 Holds(queues'[q][l], j)
          PROVE  j = i \/ \E m \in DOMAIN queues[q] : Holds(queues[q][m], j)
      BY <1>3, <1>5, <1>b, <2>1, ZenonT(60)
    <2>2. ASSUME NEW q \in Repositories, NEW m \in DOMAIN queues[q], NEW j,
                 Holds(queues[q][m], j)
          PROVE  \E l \in DOMAIN queues'[q] : Holds(queues'[q][l], j)
      BY <1>3, <1>5, <1>b, <2>2
    <2>3. \E l \in DOMAIN queues'[r] : Holds(queues'[r][l], i)
      BY <1>3, <1>5, <1>b
    <2> QED
      BY <1>1, <1>5, <1>6, <1>7, <1>a, <1>r, <2>1, <2>2, <2>3, ReceiptQueued
  <1>10. /\ IsKeyedRead(queues[r][k]) /\ ~Mutation(job[1])
         /\ ReadKey(job[1]) # NoKey
    BY <1>3, <1>4, <1>b DEF IsKeyedRead, ReadKey
  <1>11. JobsFormed'
    <2>1. ASSUME NEW q \in Repositories, NEW l \in DOMAIN queues'[q]
          PROVE  /\ queues'[q][l] # <<>> /\ Increasing(queues'[q][l])
                 /\ \A j : Holds(queues'[q][l], j) =>
                       /\ j \in Submitted /\ answer[j] = "none"
                       /\ op[j] = op[queues'[q][l][1]]
                 /\ Repository(queues'[q][l][1]) = q
                 /\ ReadKey(queues'[q][l][1]) = NoKey => Len(queues'[q][l]) = 1
      <3>1. \A m \in DOMAIN queues[q] :
               /\ queues[q][m] # <<>> /\ Increasing(queues[q][m])
               /\ \A j : Holds(queues[q][m], j) =>
                     /\ j \in Submitted /\ answer[j] = "none"
                     /\ op[j] = op[queues[q][m][1]]
               /\ Repository(queues[q][m][1]) = q
               /\ ReadKey(queues[q][m][1]) = NoKey => Len(queues[q][m]) = 1
        <4>1. \A m \in DOMAIN queues[q] : Repository(queues[q][m][1]) = q
          BY QueuedJob
        <4> QED
          BY <4>1, QueuedJob DEF Holds, Waits, IsKeyedRead
      <3>2. CASE q = r /\ l = k
        <4>1. queues'[q][l] = job
          BY <1>5, <3>2
        <4>2. \A j : Holds(job, j) =>
                 /\ j \in Submitted /\ answer[j] = "none" /\ op[j] = op[job[1]]
          BY <1>2, <1>3, <1>b, <3>1, <3>2 DEF Waits
        <4>3. Repository(job[1]) = r
          BY <1>3, <1>b, <3>1, <3>2
        <4> QED
          BY <1>10, <1>b, <3>2, <4>1, <4>2, <4>3
      <3>3. CASE ~(q = r /\ l = k)
        <4>1. l \in DOMAIN queues[q] /\ queues'[q][l] = queues[q][l]
          BY <1>5, <2>1, <3>3
        <4> QED
          BY <3>1, <4>1
      <3> QED
        BY <3>2, <3>3
    <2>2. UNCHANGED <<op, answer>>
      BY <1>6
    <2> QED
      BY <1>c, <2>1, <2>2 DEF JobsFormed, JobFormed, Waits, Holds, IsKeyedRead
  <1>12. JobsInOrder'
    <2>1. ASSUME NEW q \in Repositories, NEW l \in DOMAIN queues'[q],
                 NEW m \in DOMAIN queues'[q], l < m
          PROVE  Before(queues'[q][l], queues'[q][m])
      <3>1. /\ l \in DOMAIN queues[q] /\ m \in DOMAIN queues[q]
            /\ Before(queues[q][l], queues[q][m])
        BY <1>5, <2>1 DEF IndInv, JobsInOrder
      <3>2. CASE q = r /\ l = k
        <4>1. queues'[q][l] = job /\ queues'[q][m] = queues[r][m] /\ m # k
          BY <1>4, <1>5, <2>1, <3>1, <3>2
        <4>2. m \in k .. Len(queues[r])
          BY <1>4, <2>1, <3>1, <3>2
        <4>3. ~Mutation(queues[r][m][1])
          BY <1>3, <4>2 DEF IsKeyedRead, ReadKey
        <4>4. ASSUME NEW a \in DOMAIN job, NEW b \in DOMAIN queues[r][m]
              PROVE  job[a] # queues[r][m][b]
          <5>1. Holds(job, job[a]) /\ Holds(queues[r][m], queues[r][m][b])
            BY DEF Holds
          <5>2. CASE job[a] = i
            BY <1>8, <3>1, <3>2, <5>1, <5>2
          <5>3. CASE Holds(queues[r][k], job[a])
            <6>1. Holds(queues[r][m], job[a]) => m = k
              BY <1>3, <3>1, <3>2, <5>3, QueuedApart, ZenonT(60)
            <6> QED
              BY <4>1, <5>1, <6>1
          <5> QED
            BY <1>b, <5>1, <5>2, <5>3
        <4>5. job[1] < queues[r][m][1]
          BY <1>b, <3>1, <3>2 DEF Before
        <4> QED
          BY <1>10, <4>1, <4>3, <4>4, <4>5 DEF Before
      <3>3. CASE q = r /\ m = k
        <4>1. queues'[q][m] = job /\ queues'[q][l] = queues[r][l]
          BY <1>4, <1>5, <2>1, <3>1, <3>3
        <4>2. \A a \in DOMAIN queues[r][l] : queues[r][l][a] < i
          BY <1>1, <1>a, <3>1, <3>3, ReceivedIsBetween
        <4>3. ASSUME NEW b \in DOMAIN job
              PROVE  job[b] = i \/ \E c \in DOMAIN queues[r][k] :
                                      job[b] = queues[r][k][c]
          BY <1>b DEF Holds
        <4>4. \A a \in DOMAIN queues[r][l] : queues[r][l][a] # i
          BY <1>8, <3>1, <3>3 DEF Holds
        <4> QED
          BY <1>b, <3>1, <3>3, <4>1, <4>2, <4>3, <4>4 DEF Before
      <3>4. CASE ~(q = r /\ (l = k \/ m = k))
        BY <1>5, <3>1, <3>4
      <3> QED
        BY <3>2, <3>3, <3>4
    <2> QED
      BY <1>c, <2>1 DEF JobsInOrder, Before
  <1>13. WorkFirst'
    <2>1. ASSUME NEW q \in Active, NEW l \in DOMAIN queues'[q]
          PROVE  LET w == active[q]
                     later == queues'[q][l]
                 IN  /\ w.owner < later[1]
                     /\ \A a \in DOMAIN w.waiters : \A b \in DOMAIN later :
                           w.waiters[a] # later[b]
                     /\ Mutation(w.owner) \/ Mutation(later[1]) =>
                           \A a \in DOMAIN w.waiters : \A b \in DOMAIN later :
                               w.waiters[a] < later[b]
      <3>0. q \in Repositories
        BY DEF Active
      <3>1. CASE q = r /\ l = k
        <4>1. \A b \in DOMAIN job : job[b] = i \/ \E c \in DOMAIN queues[r][k] :
                                                    job[b] = queues[r][k][c]
          BY <1>b DEF Holds
        <4>2. \A a \in DOMAIN active[q].waiters :
                 active[q].waiters[a] < i /\ active[q].waiters[a] # i
          BY <1>1, <1>8, <1>a, <3>0, ReceivedIsBetween DEF Holds
        <4>3. queues'[q][l] = job
          BY <1>5, <3>1
        <4> QED
          BY <1>3, <1>b, <3>1, <4>1, <4>2, <4>3 DEF IndInv, WorkFirst
      <3>2. CASE ~(q = r /\ l = k)
        <4>1. l \in DOMAIN queues[q] /\ queues'[q][l] = queues[q][l]
          BY <1>5, <2>1, <3>0, <3>2
        <4> QED
          BY <4>1 DEF IndInv, WorkFirst
      <3> QED
        BY <3>1, <3>2
    <2>2. active' = active
      BY <1>6
    <2> QED
      BY <1>c, <2>1, <2>2 DEF WorkFirst
  <1>14. TicketsInOrder'
    <2>1. ASSUME NEW q \in Repositories, NEW j \in Ids
          PROVE  Holds(tickets'[q], j) <=> Holder(q, j)'
      <3>1. Holds(tickets[q], j) <=> Holder(q, j)
        BY DEF IndInv, TicketsInOrder
      <3>2. (\E l \in DOMAIN queues'[q] : queues'[q][l][1] = j) <=>
               (\E l \in DOMAIN queues[q] : queues[q][l][1] = j)
        <4>1. DOMAIN queues'[q] = DOMAIN queues[q]
          BY <1>5
        <4>2. \A l \in DOMAIN queues[q] : queues'[q][l][1] = queues[q][l][1]
          BY <1>5, <1>b
        <4> QED
          BY <4>1, <4>2
      <3>3. active' = active
        BY <1>6
      <3>4. Holder(q, j)' <=>
               /\ j \in Submitted /\ Ordered(j) /\ Repository(j) = q
               /\ \/ Holds(channel, j) /\ j # i
                  \/ \E l \in DOMAIN queues[q] : queues[q][l][1] = j
                  \/ active[q].owner = j /\ active[q].stage = "waiting"
        BY <1>2, <1>c, <3>2, <3>3 DEF Holder
      <3> QED
        BY <1>7, <1>8, <1>r, <3>1, <3>4 DEF Holder
    <2> QED
      BY <1>7, <2>1 DEF TicketsInOrder
  <1> QED
    BY <1>9, <1>11, <1>12, <1>13, <1>14 DEF IndInv


\* The request gets a job of its own, the last of its repository.
LEMMA NewJobInv ==
    ASSUME IndInv, Receive, NewJob
    PROVE  IndInv'
  <1>1. channel # <<>> /\ channel' = Tail(channel)
    BY DEF Receive
  <1>a. PICK i \in Ids : i = Received
    BY <1>1, ReceivedIsBetween
  <1>2. /\ Waits(i) /\ i \in Submitted /\ Repository(i) \in Repositories
        /\ \A j : Holds(channel', j) <=> Holds(channel, j) /\ j # i
        /\ Holds(channel, i)
    BY <1>1, <1>a, ReceivedIsBetween DEF Waits
  <1>r. PICK r \in Repositories : r = Repository(i)
    BY <1>2
  <1>b. PICK job \in Seq(Ids) : /\ job = <<i>> /\ Len(job) = 1 /\ job[1] = i
                                /\ job # <<>> /\ Increasing(job)
                                /\ DOMAIN job = {1}
                                /\ \A j : Holds(job, j) <=> j = i
    <2>1. /\ <<i>> \in Seq(Ids) /\ Len(<<i>>) = 1 /\ <<i>>[1] = i
          /\ <<i>> # <<>> /\ DOMAIN <<i>> = {1}
      OBVIOUS
    <2>2. Increasing(<<i>>)
      BY <2>1 DEF Increasing
    <2>3. \A j : Holds(<<i>>, j) <=> j = i
      BY <2>1 DEF Holds
    <2> QED
      BY <2>1, <2>2, <2>3
  <1>n. PICK n \in Nat : n = Len(queues[r]) + 1
    BY LenProperties DEF IndInv, Types, TypeOK
  <1>3. /\ queues' \in [Repositories -> Seq(Seq(Ids))]
        /\ \A q \in Repositories : q # r => queues'[q] = queues[q]
        /\ DOMAIN queues'[r] = DOMAIN queues[r] \union {n}
        /\ n \notin DOMAIN queues[r] /\ \A l \in DOMAIN queues[r] : l < n
        /\ queues'[r][n] = job
        /\ \A l \in DOMAIN queues[r] : queues'[r][l] = queues[r][l]
    <2>1. /\ queues \in [Repositories -> Seq(Seq(Ids))]
          /\ queues' = [queues EXCEPT ![r] = Append(queues[r], job)]
      BY <1>a, <1>b, <1>r DEF NewJob, IndInv, Types, TypeOK
    <2>2. PICK s \in Seq(Seq(Ids)) : s = queues[r]
      BY <2>1
    <2>3. /\ Append(s, job) \in Seq(Seq(Ids))
          /\ DOMAIN Append(s, job) = DOMAIN s \union {Len(s) + 1}
          /\ Len(s) + 1 \notin DOMAIN s
          /\ \A l \in DOMAIN s : Append(s, job)[l] = s[l]
          /\ Append(s, job)[Len(s) + 1] = job
          /\ DOMAIN s = 1 .. Len(s) /\ Len(s) \in Nat
      BY OneMore
    <2>4. queues'[r] = Append(s, job)
      BY <2>1, <2>2
    <2>5. \A l \in DOMAIN s : l < Len(s) + 1
      BY <2>3
    <2> QED
      BY <1>n, <2>1, <2>2, <2>3, <2>4, <2>5
  <1>4. /\ pc' = "drain"
        /\ UNCHANGED <<op, dropped, flagged, log, generations, answer, view,
                       stamp, tickets, active>>
    BY DEF Receive, NewJob, handleVars, resultVars
  <1>c. /\ Submitted' = Submitted /\ Active' = Active
        /\ \A j : /\ Repository(j)' = Repository(j) /\ Mutation(j)' = Mutation(j)
                  /\ ReadKey(j)' = ReadKey(j) /\ Ordered(j)' = Ordered(j)
    BY <1>4, SameRequests DEF Active
  <1>5. \A q \in Repositories :
           /\ \A l \in DOMAIN queues[q] :
                 ~Holds(queues[q][l], i) /\ queues[q][l][1] # i
           /\ ~Holds(active[q].waiters, i) /\ active[q].owner # i
    BY <1>1, <1>a, ReceivedIsNew
  <1>6. \A q \in Repositories :
           /\ \A l \in DOMAIN queues[q] : \A a \in DOMAIN queues[q][l] :
                 queues[q][l][a] < i
           /\ \A a \in DOMAIN active[q].waiters : active[q].waiters[a] < i
           /\ active[q].owner < i
    BY <1>1, <1>a, ReceivedIsBetween
  <1>7. /\ Types' /\ ChannelInOrder' /\ WorkFormed' /\ WorkStaged'
        /\ Accounted' /\ Logged' /\ GenerationsCurrent'
        /\ GenerationsOrderViews'
    <2>1. ASSUME NEW q \in Repositories, NEW l \in DOMAIN queues'[q], NEW j,
                 Holds(queues'[q][l], j)
          PROVE  j = i \/ \E m \in DOMAIN queues[q] : Holds(queues[q][m], j)
      <3>1. CASE q = r /\ l = n
        <4>1. queues'[q][l] = job
          BY <1>3, <3>1
        <4> QED
          BY <1>b, <2>1, <4>1
      <3>2. CASE ~(q = r /\ l = n)
        <4>1. l \in DOMAIN queues[q] /\ queues'[q][l] = queues[q][l]
          BY <1>3, <2>1, <3>2
        <4> QED
          BY <2>1, <4>1
      <3> QED
        BY <3>1, <3>2
    <2>2. ASSUME NEW q \in Repositories, NEW m \in DOMAIN queues[q], NEW j,
                 Holds(queues[q][m], j)
          PROVE  \E l \in DOMAIN queues'[q] : Holds(queues'[q][l], j)
      BY <1>3, <2>2
    <2>3. \E l \in DOMAIN queues'[r] : Holds(queues'[r][l], i)
      <3>1. n \in DOMAIN queues'[r] /\ queues'[r][n] = job
        BY <1>3
      <3>2. Holds(job, i)
        BY <1>b
      <3> QED
        BY <3>1, <3>2
    <2>4. tickets' \in [Repositories -> Seq(Ids)]
      BY <1>4 DEF IndInv, Types, TypeOK
    <2> QED
      BY <1>1, <1>3, <1>4, <1>a, <1>r, <2>1, <2>2, <2>3, <2>4, ReceiptQueued
  <1>8. JobsFormed'
    <2>1. ASSUME NEW q \in Repositories, NEW l \in DOMAIN queues'[q]
          PROVE  /\ queues'[q][l] # <<>> /\ Increasing(queues'[q][l])
                 /\ \A j : Holds(queues'[q][l], j) =>
                       /\ j \in Submitted /\ answer[j] = "none"
                       /\ op[j] = op[queues'[q][l][1]]
                 /\ Repository(queues'[q][l][1]) = q
                 /\ ReadKey(queues'[q][l][1]) = NoKey => Len(queues'[q][l]) = 1
      <3>1. CASE q = r /\ l = n
        BY <1>2, <1>3, <1>b, <1>r, <3>1 DEF Waits
      <3>2. CASE ~(q = r /\ l = n)
        <4>1. l \in DOMAIN queues[q] /\ queues'[q][l] = queues[q][l]
          BY <1>3, <2>1, <3>2
        <4>2. Repository(queues[q][l][1]) = q
          BY <4>1, QueuedJob
        <4> QED
          BY <4>1, <4>2, QueuedJob DEF Holds, Waits, IsKeyedRead
      <3> QED
        BY <3>1, <3>2
    <2>2. UNCHANGED <<op, answer>>
      BY <1>4
    <2> QED
      BY <1>c, <2>1, <2>2 DEF JobsFormed, JobFormed, Waits, Holds, IsKeyedRead
  <1>9. JobsInOrder'
    <2>1. ASSUME NEW q \in Repositories, NEW l \in DOMAIN queues'[q],
                 NEW m \in DOMAIN queues'[q], l < m
          PROVE  Before(queues'[q][l], queues'[q][m])
      <3>1. CASE q = r /\ m = n
        <4>1. l \in DOMAIN queues[r] /\ queues'[q][l] = queues[r][l]
          BY <1>3, <2>1, <3>1
        <4>2. 1 \in DOMAIN queues[r][l]
          BY <4>1, QueuedJob
        <4>3. \A a \in DOMAIN queues[r][l] :
                 queues[r][l][a] < i /\ queues[r][l][a] # i
          BY <1>5, <1>6, <4>1 DEF Holds
        <4> QED
          BY <1>3, <1>b, <3>1, <4>1, <4>2, <4>3 DEF Before
      <3>2. CASE q = r /\ l = n
        <4>1. m \in DOMAIN queues[r] \/ m = n
          BY <1>3, <2>1, <3>2
        <4>2. m \in DOMAIN queues[r] => m < n /\ m \in Nat
          <5>1. queues[r] \in Seq(Seq(Ids))
            BY DEF IndInv, Types, TypeOK
          <5> QED
            BY <1>3, <5>1, LenProperties, SMTT(60)
        <4> QED
          BY <2>1, <3>2, <4>1, <4>2
      <3>3. CASE ~(q = r /\ (l = n \/ m = n))
        <4>1. /\ l \in DOMAIN queues[q] /\ m \in DOMAIN queues[q]
              /\ queues'[q][l] = queues[q][l] /\ queues'[q][m] = queues[q][m]
          BY <1>3, <2>1, <3>3
        <4> QED
          BY <2>1, <4>1 DEF IndInv, JobsInOrder
      <3> QED
        BY <3>1, <3>2, <3>3
    <2> QED
      BY <1>c, <2>1 DEF JobsInOrder, Before
  <1>10. WorkFirst'
    <2>1. ASSUME NEW q \in Active, NEW l \in DOMAIN queues'[q]
          PROVE  LET w == active[q]
                     later == queues'[q][l]
                 IN  /\ w.owner < later[1]
                     /\ \A a \in DOMAIN w.waiters : \A b \in DOMAIN later :
                           w.waiters[a] # later[b]
                     /\ Mutation(w.owner) \/ Mutation(later[1]) =>
                           \A a \in DOMAIN w.waiters : \A b \in DOMAIN later :
                               w.waiters[a] < later[b]
      <3>0. q \in Repositories
        BY DEF Active
      <3>1. CASE q = r /\ l = n
        <4>1. queues'[q][l] = job /\ \A b \in DOMAIN job : job[b] = i
          BY <1>3, <1>b, <3>1
        <4>2. \A a \in DOMAIN active[q].waiters :
                 active[q].waiters[a] < i /\ active[q].waiters[a] # i
          BY <1>5, <1>6, <3>0 DEF Holds
        <4> QED
          BY <1>6, <1>b, <3>0, <4>1, <4>2
      <3>2. CASE ~(q = r /\ l = n)
        <4>1. l \in DOMAIN queues[q] /\ queues'[q][l] = queues[q][l]
          BY <1>3, <2>1, <3>0, <3>2
        <4> QED
          BY <4>1 DEF IndInv, WorkFirst
      <3> QED
        BY <3>1, <3>2
    <2>2. active' = active
      BY <1>4
    <2> QED
      BY <1>c, <2>1, <2>2 DEF WorkFirst
  <1>11. TicketsInOrder'
    <2>1. ASSUME NEW q \in Repositories, NEW j \in Ids
          PROVE  Holder(q, j) <=> Holder(q, j)'
      <3>1. active' = active
        BY <1>4
      <3>2. Holder(q, j)' <=>
               /\ j \in Submitted /\ Ordered(j) /\ Repository(j) = q
               /\ \/ Holds(channel, j) /\ j # i
                  \/ \E l \in DOMAIN queues'[q] : queues'[q][l][1] = j
                  \/ active[q].owner = j /\ active[q].stage = "waiting"
        BY <1>2, <1>c, <3>1 DEF Holder
      <3>3. CASE q = r
        <4>1. (\E l \in DOMAIN queues'[q] : queues'[q][l][1] = j) <=>
                 (\E l \in DOMAIN queues[q] : queues[q][l][1] = j) \/ j = i
          BY <1>3, <1>b, <3>3
        <4> QED
          BY <1>2, <3>2, <4>1 DEF Holder
      <3>4. CASE q # r
        BY <1>3, <1>r, <3>2, <3>4 DEF Holder
      <3> QED
        BY <3>3, <3>4
    <2>2. tickets' = tickets
      BY <1>4
    <2> QED
      BY <2>1, <2>2 DEF IndInv, TicketsInOrder
  <1> QED
    BY <1>7, <1>8, <1>9, <1>10, <1>11 DEF IndInv

-----------------------------------------------------------------------------
(* Every step *)

\* Nothing is submitted at first.
LEMMA InitInv ==
    ASSUME Init
    PROVE  IndInv
  <1>1. /\ op = <<>> /\ answer = <<>> /\ view = <<>> /\ stamp = <<>>
        /\ log = [r \in Repositories |-> <<>>]
        /\ flagged = {} /\ dropped = FALSE /\ channel = <<>>
        /\ tickets = [r \in Repositories |-> <<>>]
        /\ queues = [r \in Repositories |-> <<>>]
        /\ active = [r \in Repositories |-> Idle]
        /\ generations = [r \in Repositories |-> 0]
        /\ pc = "drain"
    BY DEF Init
  <1>2. DOMAIN <<>> = {}
    OBVIOUS
  <1>3. Active = {} /\ Submitted = {}
    BY <1>1, <1>2 DEF Active, Submitted
  <1>4. Cardinality(Active) = 0 /\ IsFiniteSet(Active)
    BY <1>3, FS_EmptySet
  <1>5. /\ \A r \in Repositories : /\ log[r] = <<>> /\ queues[r] = <<>>
                                   /\ tickets[r] = <<>> /\ active[r] = Idle
    BY <1>1
  <1>6. /\ op \in Seq(Operations) /\ answer \in Seq(States)
        /\ view \in Seq(Seq(Ids)) /\ stamp \in Seq(Nat) /\ channel \in Seq(Ids)
        /\ Len(op) = 0 /\ Len(channel) = 0
    BY <1>1, EmptySeq
  <1>7. /\ log \in [Repositories -> Seq(Ids)]
        /\ tickets \in [Repositories -> Seq(Ids)]
        /\ queues \in [Repositories -> Seq(Seq(Ids))]
    BY <1>1, EmptySeq
  <1>8. Types
    <2>1. /\ active \in [Repositories -> Worker \union {Idle}]
          /\ generations \in [Repositories -> Nat]
      BY <1>1
    <2>2. /\ DOMAIN answer = Submitted /\ DOMAIN view = Submitted
          /\ DOMAIN stamp = Submitted
          /\ flagged \subseteq Submitted /\ dropped \in BOOLEAN
          /\ pc \in {"drain", "start", "wait", "stopped"}
      BY <1>1, <1>2, <1>3
    <2>3. /\ Len(op) <= MaxRequests /\ Len(channel) <= Capacity
          /\ Cardinality(Active) <= MaxWorkers
      BY <1>4, <1>6, ServiceConstants
    <2>4. \A i \in Submitted :
             answer[i] \in {"none", "refused", "completed", "failed",
                            "duplicate", "cancelled", "uncertain", "abandoned"}
      BY <1>3
    <2>5. TypeOK
      BY <1>6, <1>7, <2>1, <2>2, <2>3, <2>4 DEF TypeOK
    <2> QED
      BY <1>4, <1>6, <2>5 DEF Types
  <1>9. ChannelInOrder /\ JobsFormed /\ JobsInOrder
    BY <1>1, <1>2, <1>5
    DEF ChannelInOrder, Increasing, JobsFormed, JobsInOrder
  <1>10. WorkFormed /\ WorkFirst /\ WorkStaged
    BY <1>3 DEF WorkFormed, WorkFirst, WorkStaged
  <1>11. Accounted /\ Logged /\ GenerationsCurrent /\ GenerationsOrderViews
    BY <1>2, <1>3, <1>5
    DEF Accounted, Logged, GenerationsCurrent, GenerationsOrderViews
  <1>12. TicketsInOrder
    <2>1. \A r \in Repositories : Increasing(tickets[r])
      BY <1>2, <1>5 DEF Increasing
    <2>2. \A r \in Repositories : \A i : ~Holds(tickets[r], i)
      BY <1>2, <1>5 DEF Holds
    <2>3. \A r, i : ~Holder(r, i)
      BY <1>3 DEF Holder
    <2> QED
      BY <2>1, <2>2, <2>3 DEF TicketsInOrder
  <1> QED
    BY <1>8, <1>9, <1>10, <1>11, <1>12 DEF IndInv

\* Every step of the service keeps the invariant.
LEMMA NextInv ==
    ASSUME IndInv, [Next]_vars
    PROVE  IndInv'
  <1>1. CASE \E o \in Operations : Submit(o)
    BY <1>1, SubmitInv
  <1>2. CASE \E i \in Submitted : Cancel(i)
    <2>1. /\ flagged \subseteq flagged' /\ flagged' \subseteq Submitted
          /\ UNCHANGED <<op, resultVars, log, channel, tickets, queues, active,
                         generations>>
          /\ dropped' \in BOOLEAN /\ pc' \in {"drain", "start", "wait", "stopped"}
      BY <1>2 DEF Cancel, IndInv, Types, TypeOK
    <2> QED
      BY <2>1, QuietInv
  <1>3. CASE DropHandle \/ Drained \/ Started \/ PollTimeout \/ Stop
             \/ UNCHANGED vars
    <2>1. /\ flagged' = flagged /\ flagged \subseteq Submitted
          /\ UNCHANGED <<op, resultVars, log, channel, tickets, queues, active,
                         generations>>
          /\ dropped' \in BOOLEAN /\ pc' \in {"drain", "start", "wait", "stopped"}
      BY <1>3 DEF DropHandle, Drained, Started, PollTimeout, Stop, vars,
                  handleVars, IndInv, Types, TypeOK
    <2> QED
      BY <2>1, QuietInv
  <1>4. CASE \E r \in Repositories : Report(r) \/ StartCancelled(r) \/ Start(r)
    BY <1>4, ReportInv, StartCancelledInv, StartInv
  <1>5. CASE Receive
    BY <1>5, ReceiveDuplicateInv, JoinActiveInv, JoinQueuedInv, NewJobInv
    DEF Receive
  <1>6. CASE \E r \in Repositories : Works(r) \/ MonitorAbandons(r)
    BY <1>6, AcquireInv, GiveUpInv, RunEndsInv DEF Works
  <1> QED
    BY <1>1, <1>2, <1>3, <1>4, <1>5, <1>6 DEF Next, Scheduler

-----------------------------------------------------------------------------
(* The theorems *)

\* The invariant holds throughout.
THEOREM Invariance == Spec => []IndInv
  <1>1. Init => IndInv
    BY InitInv
  <1>2. IndInv /\ [Next]_vars => IndInv'
    BY NextInv
  <1> QED
    BY <1>1, <1>2, PTL DEF Spec

\* The ticket of a worker is the first of its repository: whoever holds one has
\* a job that came later (submit, RepositoryReservation::acquire).
THEOREM TicketFirst == Spec => []TicketIsFirst
  <1>1. IndInv => TicketIsFirst
    BY OwnerFirst DEF IndInv, Types, TicketIsFirst, Ordered
  <1> QED
    BY <1>1, Invariance, PTL

\* A result of an older generation shows no more than one of a newer: reads
\* between two mutations share a generation and what they show.
THEOREM GenerationsOrder == Spec => []GenerationsOrderViews
  <1>1. IndInv => GenerationsOrderViews
    BY DEF IndInv
  <1> QED
    BY <1>1, Invariance, PTL

-----------------------------------------------------------------------------
(* The service implements what it promises (GitRequests) *)

\* Who waits for the work of a repository waits for nothing that was submitted
\* earlier, when one of the two is a mutation.
LEMMA EarlierAnswered ==
    ASSUME IndInv, NEW r \in Active, NEW i, Holds(active[r].waiters, i),
           NEW j \in Submitted, j < i, Repository(j) = r,
           Mutation(i) \/ Mutation(j)
    PROVE  answer[j] # "none"
  <1> SUFFICES ASSUME answer[j] = "none" PROVE FALSE
    OBVIOUS
  <1>1. PICK a \in DOMAIN active[r].waiters : active[r].waiters[a] = i
    BY DEF Holds
  <1>2. /\ r \in Repositories /\ i \in Ids /\ op[i] = op[active[r].owner]
        /\ Mutation(active[r].owner) => active[r].waiters = <<active[r].owner>>
    BY <1>1, Working
  <1>3. \/ Holds(channel, j)
        \/ \E k \in DOMAIN queues[r] : Holds(queues[r][k], j)
        \/ Holds(active[r].waiters, j)
    BY DEF IndInv, Accounted
  <1>4. i \in Nat /\ j \in Nat
    <2>1. op \in Seq(Operations)
      BY DEF IndInv, Types, TypeOK
    <2> QED
      BY <1>2, <2>1, LenProperties, IdsAreNumbers DEF Submitted
  <1>5. CASE Holds(channel, j)
    <2>1. i < j
      BY <1>1, <1>2, <1>5 DEF IndInv, ChannelInOrder, Holds
    <2> QED
      BY <1>4, <2>1
  <1>6. CASE \E k \in DOMAIN queues[r] : Holds(queues[r][k], j)
    <2>1. PICK k \in DOMAIN queues[r] : Holds(queues[r][k], j)
      BY <1>6
    <2>2. PICK b \in DOMAIN queues[r][k] : queues[r][k][b] = j
      BY <2>1 DEF Holds
    <2>3. op[j] = op[queues[r][k][1]]
      BY <1>2, <2>2, QueuedJob
    <2>4. Mutation(active[r].owner) \/ Mutation(queues[r][k][1])
      BY <1>2, <2>3 DEF Mutation
    <2>5. i < j
      BY <1>1, <2>2, <2>4 DEF IndInv, WorkFirst
    <2> QED
      BY <1>4, <2>5
  <1>7. CASE Holds(active[r].waiters, j)
    <2>1. PICK b \in DOMAIN active[r].waiters : active[r].waiters[b] = j
      BY <1>7 DEF Holds
    <2>2. op[j] = op[active[r].owner]
      BY <2>1, Working
    <2>3. Mutation(active[r].owner)
      BY <1>2, <2>2 DEF Mutation
    <2>4. DOMAIN active[r].waiters = {1}
      BY <1>2, <2>3
    <2>5. a = b
      BY <2>4
    <2> QED
      BY <1>1, <1>4, <2>1, <2>5
  <1> QED
    BY <1>3, <1>5, <1>6, <1>7

\* A request without an answer is in the log only while it is executed.
LEMMA NotRun ==
    ASSUME IndInv, NEW r \in Repositories, NEW i, answer[i] = "none",
           ~(active[r].owner = i /\ active[r].executed)
    PROVE  ~Holds(log[r], i)
  BY DEF IndInv, Logged, Holds

\* The abstract names of what the service's state says.
LEMMA AbstractNames ==
    /\ Requests!Submitted = Submitted
    /\ \A i : /\ Requests!Mutation(i) <=> Mutation(i)
              /\ Requests!HasRun(i) <=> Holds(log[Repository(i)], i)
              /\ Requests!Answered(i) <=> answer[i] # "none"
              /\ Requests!Earlier(i) =
                    {j \in Submitted : j < i /\ Repository(j) = Repository(i)}
  BY DEF Requests!Submitted, Submitted, Requests!Mutation, Mutation,
         Requests!HasRun, Repository, Holds, Requests!Answered,
         Requests!Earlier, Requests!SameRepository

\* A new request, and a cancellation.
LEMMA SubmitRefines ==
    ASSUME IndInv, NEW o \in Operations, Submit(o)
    PROVE  Requests!Submit(o)
  <1>1. \E a \in {"none", "refused"} : answer' = Append(answer, a)
    BY DEF Submit
  <1> QED
    BY <1>1 DEF Submit, Requests!Submit

\* A mutation runs when all that was submitted before it is answered.
LEMMA AcquireRefines ==
    ASSUME IndInv, NEW r \in Repositories, Acquire(r)
    PROVE  \/ \E m \in Submitted : Requests!Mutate(m)
           \/ UNCHANGED Requests!requestVars
  <1>1. r \in Active /\ active[r].stage = "waiting"
    BY ActiveWork DEF Acquire, IndInv, Types
  <1>a. PICK m \in Ids : m = active[r].owner
    BY <1>1, OwnerFirst
  <1>2. m \in Submitted /\ Repository(m) = r
    BY <1>1, <1>a, OwnerFirst
  <1>3. /\ UNCHANGED <<op, answer, view, flagged>>
        /\ log' = IF Mutation(m) THEN [log EXCEPT ![r] = Append(@, m)] ELSE log
    BY <1>a DEF Acquire, WorkerStep, handleVars, resultVars
  <1>4. CASE Mutation(m)
    <2>1. Holds(active[r].waiters, m) /\ answer[m] = "none"
      BY <1>1, <1>4, <1>a, Working DEF Waits, Holds
    <2>2. ~Holds(log[r], m)
      <3>1. ~active[r].executed
        BY <1>1 DEF IndInv, WorkStaged
      <3> QED
        BY <2>1, <3>1, NotRun
    <2>3. \A j \in Requests!Earlier(m) : Requests!Answered(j)
      BY <1>1, <1>2, <1>4, <2>1, EarlierAnswered, AbstractNames
    <2>4. log' = [log EXCEPT ![op[m].repository] = Append(@, m)]
      BY <1>2, <1>3, <1>4 DEF Repository
    <2>5. Requests!Mutation(m) /\ ~Requests!Answered(m) /\ ~Requests!HasRun(m)
      BY <1>2, <1>4, <2>1, <2>2, AbstractNames
    <2>6. Requests!Mutate(m)
      BY <1>3, <2>3, <2>4, <2>5 DEF Requests!Mutate
    <2> QED
      BY <1>2, <2>6
  <1>5. CASE ~Mutation(m)
    BY <1>3, <1>5 DEF Requests!requestVars
  <1> QED
    BY <1>4, <1>5

\* What is reported to one of those who wait is what it may be told.
LEMMA ReportRefines ==
    ASSUME IndInv, NEW r \in Repositories, Report(r)
    PROVE  Requests!Answer
  <1>1. /\ r \in Active /\ active[r].stage \in {"sent", "reporting"}
    BY ActiveWork DEF Report, IndInv, Types
  <1>a. PICK w \in Worker : w = active[r]
    BY <1>1, Working
  <1>b. PICK i \in Ids : i = w.waiters[1]
    BY <1>1, <1>a, Working
  <1>c. PICK state \in States : state = State(i, w)
    BY DEF State, States
  <1>2. /\ Holds(w.waiters, i) /\ i \in Submitted /\ answer[i] = "none"
        /\ op[i] = op[w.owner] /\ Repository(i) = r
        /\ Mutation(w.owner) => i = w.owner
        /\ 1 \in DOMAIN w.waiters
    BY <1>1, <1>a, <1>b, Working DEF Holds, Waits
  <1>3. /\ answer' = [answer EXCEPT ![i] = state]
        /\ view' = IF ~Mutation(i) /\ state \in {"completed", "failed"}
                   THEN [view EXCEPT ![i] = w.saw] ELSE view
        /\ UNCHANGED <<op, log, flagged>>
    BY <1>a, <1>b, <1>c DEF Report, handleVars
  <1>4. /\ DOMAIN answer = Submitted /\ DOMAIN view = Submitted
        /\ \A j : j # i => answer'[j] = answer[j] /\ view'[j] = view[j]
        /\ answer'[i] = state
        /\ DOMAIN answer' = DOMAIN answer /\ DOMAIN view' = DOMAIN view
        /\ ~Mutation(i) /\ state \in {"completed", "failed"} => view'[i] = w.saw
    BY <1>2, <1>3 DEF IndInv, Types, TypeOK
  <1>5. /\ w.abandoned => i \in flagged
        /\ w.result = "abandoned" => w.abandoned
        /\ w.result \in {"ok", "error"} => w.executed
        /\ w.result # "none"
        /\ w.executed => w.saw = log[r] \/ Mutation(w.owner)
        /\ w.executed /\ Mutation(w.owner) => Holds(log[r], w.owner)
    BY <1>1, <1>2, <1>a, <1>b DEF IndInv, WorkStaged, Logged, AllCancelled
  <1>6. w.result \in {"none", "ok", "error", "abandoned"}
    BY DEF Worker
  <1>7. /\ Mutation(i) <=> Mutation(w.owner)
        /\ state \in {"uncertain", "cancelled", "completed", "failed"}
        /\ state = "uncertain" => i \in flagged /\ Mutation(i) /\ w.executed
        /\ state = "cancelled" => i \in flagged /\ ~(Mutation(i) /\ w.executed)
        /\ state \in {"completed", "failed"} => w.executed
    <2>1. Mutation(i) <=> Mutation(w.owner)
      BY <1>2 DEF Mutation
    <2>2. i \notin flagged => w.result \in {"ok", "error"}
      BY <1>5, <1>6
    <2> QED
      BY <1>5, <1>c, <2>1, <2>2 DEF State
  <1>8. CASE Mutation(i)
    <2>1. i = w.owner
      BY <1>2, <1>7, <1>8
    <2>2. w.executed => Requests!HasRun(i)
      BY <1>2, <1>5, <1>7, <1>8, <2>1, AbstractNames
    <2>3. ~w.executed => ~Requests!HasRun(i)
      <3>1. ~w.executed => ~Holds(log[r], i)
        BY <1>2, <1>a, NotRun
      <3> QED
        BY <1>2, <3>1, AbstractNames
    <2>4. Requests!MutationAnswer(i, state)
      BY <1>7, <1>8, <2>2, <2>3 DEF Requests!MutationAnswer
    <2> QED
      BY <1>2, <1>3, <1>4, <1>7, <1>8, <2>4, AbstractNames
      DEF Requests!Answer
  <1>9. CASE ~Mutation(i)
    <2>1. \A j \in Requests!Earlier(i) : Requests!Mutation(j) => Requests!Answered(j)
      BY <1>1, <1>2, <1>a, EarlierAnswered, AbstractNames
    <2>2. state \in {"completed", "failed"} => view'[i] = log[op[i].repository]
      BY <1>2, <1>4, <1>5, <1>7, <1>9 DEF Repository
    <2>3. Requests!ReadAnswer(i, state, view'[i])
      BY <1>7, <1>9, <2>1, <2>2 DEF Requests!ReadAnswer
    <2> QED
      BY <1>2, <1>3, <1>4, <1>7, <1>9, <2>3, AbstractNames
      DEF Requests!Answer
  <1> QED
    BY <1>8, <1>9

\* A job that everybody cancelled is answered as cancelled, and did not run.
LEMMA StartCancelledRefines ==
    ASSUME IndInv, NEW r \in Repositories, StartCancelled(r)
    PROVE  Requests!Answer
  <1>1. /\ active[r] = Idle /\ 1 \in DOMAIN queues[r]
        /\ active[r].owner = 0
    BY NothingRuns DEF StartCancelled
  <1>a. PICK job \in Seq(Ids) : job = queues[r][1] /\ Head(queues[r]) = job
    BY <1>1, QueuedJob, HeadTailProperties, NothingRuns
    DEF IndInv, Types, TypeOK, StartCancelled
  <1>2. /\ answer' = [j \in Submitted |->
                         IF Holds(job, j) THEN "cancelled" ELSE answer[j]]
        /\ \A k \in DOMAIN job : job[k] \in flagged
        /\ UNCHANGED <<op, view, log, flagged>>
    BY <1>a DEF StartCancelled, Holds, handleVars, AllCancelled
  <1>3. /\ DOMAIN answer = Submitted /\ DOMAIN answer' = Submitted
        /\ \A j \in Submitted : answer'[j] # answer[j] =>
              Holds(job, j) /\ answer'[j] = "cancelled"
    BY <1>2 DEF IndInv, Types, TypeOK
  <1>4. /\ 1 \in DOMAIN job
        /\ \A j : Holds(job, j) => /\ j \in Ids /\ j \in Submitted
                                   /\ answer[j] = "none" /\ Repository(j) = r
                                   /\ j \in flagged
    BY <1>1, <1>2, <1>a, QueuedJob DEF Holds, Waits
  <1>5. answer' # answer
    <2>1. Holds(job, job[1])
      BY <1>4 DEF Holds
    <2>2. answer'[job[1]] = "cancelled" /\ answer[job[1]] = "none"
      BY <1>2, <1>4, <2>1
    <2> QED
      BY <2>2
  <1>6. ASSUME NEW j \in Submitted, answer'[j] # answer[j]
        PROVE  /\ ~Requests!Answered(j)
               /\ IF Requests!Mutation(j) THEN Requests!MutationAnswer(j, answer'[j])
                  ELSE Requests!ReadAnswer(j, answer'[j], view'[j])
    <2>1. /\ answer'[j] = "cancelled" /\ answer[j] = "none" /\ j \in flagged
          /\ Repository(j) = r /\ j \in Ids
      BY <1>3, <1>4, <1>6
    <2>2. ~Holds(log[r], j)
      BY <1>1, <2>1, NotRun, IdsAreNumbers
    <2>3. ~Requests!Answered(j) /\ ~Requests!HasRun(j)
      BY <2>1, <2>2, AbstractNames
    <2> QED
      BY <2>1, <2>3 DEF Requests!MutationAnswer, Requests!ReadAnswer
  <1> QED
    BY <1>2, <1>3, <1>5, <1>6, AbstractNames DEF Requests!Answer

\* A mutation is refused while an equal one that came earlier is not answered.
LEMMA DuplicateRefines ==
    ASSUME IndInv, Receive, ReceiveDuplicate
    PROVE  Requests!Answer
  <1>1. channel # <<>> /\ channel' = Tail(channel)
    BY DEF Receive
  <1>a. PICK i \in Ids : i = Received
    BY <1>1, ReceivedIsBetween
  <1>2. /\ i \in Submitted /\ answer[i] = "none"
        /\ \A q \in Repositories :
              /\ \A l \in DOMAIN queues[q] : \A a \in DOMAIN queues[q][l] :
                    queues[q][l][a] < i
              /\ active[q].owner < i
    BY <1>1, <1>a, ReceivedIsBetween DEF Waits
  <1>3. /\ answer' = [answer EXCEPT ![i] = "duplicate"]
        /\ UNCHANGED <<op, view, log, flagged>>
        /\ Duplicate(i)
    BY <1>a DEF Receive, ReceiveDuplicate, handleVars
  <1>4. /\ DOMAIN answer = Submitted /\ DOMAIN answer' = Submitted
        /\ answer'[i] = "duplicate"
        /\ \A j : j # i => answer'[j] = answer[j]
    BY <1>2, <1>3 DEF IndInv, Types, TypeOK
  <1>5. Mutation(i)
    BY <1>3 DEF Duplicate, MutationKey
  <1>6. PICK j \in Submitted : answer[j] = "none" /\ op[j] = op[i] /\ j < i
    <2>1. CASE \E q \in Active : op[active[q].owner] = op[i]
      <3>1. PICK q \in Active : op[active[q].owner] = op[i]
        BY <2>1
      <3>2. Mutation(active[q].owner)
        BY <1>5, <3>1 DEF Mutation
      <3>3. /\ active[q].waiters = <<active[q].owner>>
            /\ active[q].owner \in Submitted
            /\ \A a \in DOMAIN active[q].waiters : answer[active[q].waiters[a]] = "none"
            /\ 1 \in DOMAIN active[q].waiters
        BY <3>2, Working DEF Waits
      <3>4. answer[active[q].owner] = "none"
        BY <3>3
      <3> QED
        BY <1>2, <3>1, <3>3, <3>4 DEF Active
    <2>2. CASE \E q \in Repositories : \E k \in DOMAIN queues[q] :
                  op[queues[q][k][1]] = op[i]
      <3>0. PICK q \in Repositories :
               \E k \in DOMAIN queues[q] : op[queues[q][k][1]] = op[i]
        BY <2>2
      <3>1. PICK k \in DOMAIN queues[q] : op[queues[q][k][1]] = op[i]
        BY <3>0
      <3>2. 1 \in DOMAIN queues[q][k] /\ Waits(queues[q][k][1])
        BY QueuedJob
      <3> QED
        BY <1>2, <3>1, <3>2 DEF Waits
    <2> QED
      BY <1>3, <2>1, <2>2 DEF Duplicate
  <1>7. j \in Requests!Earlier(i) /\ ~Requests!Answered(j)
    BY <1>6, AbstractNames DEF Repository
  <1>8. Requests!MutationAnswer(i, "duplicate")
    BY <1>6, <1>7 DEF Requests!MutationAnswer
  <1>9. ~Requests!Answered(i) /\ Requests!Mutation(i)
    BY <1>2, <1>5, AbstractNames
  <1> QED
    BY <1>2, <1>3, <1>4, <1>8, <1>9, AbstractNames DEF Requests!Answer

\* Every step of the service is a step of what it promises, or none.
LEMMA StepRefines ==
    ASSUME IndInv, [Next]_vars
    PROVE  [Requests!Next]_Requests!requestVars
  <1>1. CASE \E o \in Operations : Submit(o)
    BY <1>1, SubmitRefines DEF Requests!Next
  <1>2. CASE \E i \in Submitted : Cancel(i)
    <2>1. \E i \in Submitted : Requests!Cancel(i)
      BY <1>2 DEF Cancel, Requests!Cancel, Requests!Answered, resultVars
    <2> QED
      BY <2>1, AbstractNames DEF Requests!Next
  <1>3. CASE DropHandle \/ Drained \/ Started \/ PollTimeout \/ Stop
             \/ UNCHANGED vars
    BY <1>3 DEF DropHandle, Drained, Started, PollTimeout, Stop, vars,
                handleVars, resultVars, Requests!requestVars
  <1>4. CASE \E r \in Repositories : Report(r) \/ StartCancelled(r)
    BY <1>4, ReportRefines, StartCancelledRefines DEF Requests!Next
  <1>5. CASE \E r \in Repositories : Start(r)
    BY <1>5 DEF Start, handleVars, resultVars, Requests!requestVars
  <1>6. CASE Receive
    <2>1. CASE ReceiveDuplicate
      BY <1>6, <2>1, DuplicateRefines DEF Requests!Next
    <2>2. CASE JoinActive \/ JoinQueued \/ NewJob
      BY <1>6, <2>2 DEF Receive, JoinActive, JoinQueued, NewJob, handleVars,
                        resultVars, Requests!requestVars
    <2> QED
      BY <1>6, <2>1, <2>2 DEF Receive
  <1>7. CASE \E r \in Repositories : Acquire(r)
    BY <1>7, AcquireRefines, AbstractNames DEF Requests!Next
  <1>8. CASE \E r \in Repositories :
                \/ GiveUp(r) \/ Send(r) \/ MonitorAbandons(r)
                \/ \E result \in {"ok", "error", "abandoned"} : Execute(r, result)
    BY <1>8 DEF GiveUp, Send, MonitorAbandons, Execute, WorkerStep, handleVars,
                resultVars, Requests!requestVars
  <1> QED
    BY <1>1, <1>2, <1>3, <1>4, <1>5, <1>6, <1>7, <1>8
    DEF Next, Scheduler, Works

\* However executions are shared, abandoned and reported, every request is
\* answered as if its repository had run them one by one in the order of
\* submission (service.rs, whole).
THEOREM Refinement == Spec => AnswersInOrder
  <1>1. Init => Requests!Init
    BY DEF Init, Requests!Init
  <1>2. IndInv /\ [Next]_vars => [Requests!Next]_Requests!requestVars
    BY StepRefines
  <1> QED
    BY <1>1, <1>2, Invariance, PTL
    DEF Spec, AnswersInOrder, Requests!Spec
=============================================================================
