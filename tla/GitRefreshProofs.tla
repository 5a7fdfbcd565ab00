-------------------------- MODULE GitRefreshProofs --------------------------
(* Theorems about GitRefresh, for every bound on changes, requests and       *)
(* failures: the reconciliation and the automatic refresh under way are      *)
(* known, a change a file operation made is not forgotten, and a commit      *)
(* message opens on the index of its command or a later one.                 *)
EXTENDS GitRefresh, FiniteSetTheorems, SequenceTheorems, TLAPS

-----------------------------------------------------------------------------
(* The inductive invariant. *)

\* Request l of job k has purpose p; completion k has purpose p.
Has(J, p, k, l) ==
    /\ k \in DOMAIN J /\ l \in DOMAIN J[k].waiters
    /\ J[k].waiters[l].purpose = p
Came(E, p, k) == k \in DOMAIN E /\ E[k].purpose = p

\* Among the jobs J and the completions E there is one request of purpose p
\* when f holds, and none otherwise.
FlyingOf(J, E, p, f) ==
    /\ f <=> \/ \E k \in DOMAIN J : \E l \in DOMAIN J[k].waiters : Has(J, p, k, l)
             \/ \E k \in DOMAIN E : Came(E, p, k)
    /\ \A k, m \in DOMAIN J :
          \A l \in DOMAIN J[k].waiters, n \in DOMAIN J[m].waiters :
             Has(J, p, k, l) /\ Has(J, p, m, n) => k = m /\ l = n
    /\ \A k, m \in DOMAIN E : Came(E, p, k) /\ Came(E, p, m) => k = m
    /\ \A k \in DOMAIN J : \A l \in DOMAIN J[k].waiters : \A m \in DOMAIN E :
          ~(Has(J, p, k, l) /\ Came(E, p, m))

\* The editor's two flags are true to what is under way.
FlagsTrue ==
    /\ FlyingOf(jobs, events, "files", fsRequest)
    /\ FlyingOf(jobs, events, "auto", pending)

\* Nothing is newer than the repository, nor began after now.
Clocks ==
    /\ made <= seen /\ seen <= disk /\ written <= disk
    /\ shown <= disk /\ generation <= bumped
    /\ \A k \in DOMAIN jobs : jobs[k].started <= made
    /\ \A k \in DOMAIN events : events[k].started <= made

\* Snapshots arrive in the order of what they show and of their generations,
\* and none is behind what the editor shows.
SnapshotsInOrder ==
    /\ \A k \in DOMAIN events : events[k].snapshot =>
          /\ shown <= events[k].shows /\ events[k].shows <= disk
          /\ generation <= events[k].generation
          /\ events[k].generation <= bumped
    /\ \A k, m \in DOMAIN events :
          k < m /\ events[k].snapshot /\ events[m].snapshot =>
             /\ events[k].shows <= events[m].shows
             /\ events[k].generation <= events[m].generation
    /\ jobs # <<>> /\ jobs[1].stage # "queued" =>
          /\ jobs[1].generation = bumped
          /\ shown <= jobs[1].shows /\ jobs[1].shows <= disk
          /\ \A k \in DOMAIN events : events[k].snapshot =>
                events[k].shows <= jobs[1].shows

\* Every job of J has the request it was made for, which waits for the
\* repository as it was then.
Founded(J) ==
    \A k \in DOMAIN J : J[k].waiters # <<>> /\ J[k].waiters[1].current

\* So an answer that was not shared is current.
OwnAnswers ==
    /\ Founded(jobs)
    /\ \A k \in DOMAIN events : ~events[k].coalesced => events[k].current

\* What the reconciliation under way will show, if it succeeds.
Promised ==
    /\ \A k \in DOMAIN jobs : \A l \in DOMAIN jobs[k].waiters :
          Has(jobs, "files", k, l) /\ jobs[k].stage = "reading"
             => written <= jobs[k].shows
    /\ \A k \in DOMAIN events :
          /\ Came(events, "files", k)
          /\ events[k].state = "completed" /\ events[k].snapshot
          => written <= events[k].shows

\* A change that is not shown is pending, or promised.
ChangeComing ==
    /\ FilesystemChangeKept
    /\ written > shown /\ ~fsPending => Promised

IndInv ==
    /\ TypeOK /\ Clocks /\ FlagsTrue /\ SnapshotsInOrder /\ OwnAnswers
    /\ ChangeComing

-----------------------------------------------------------------------------
(* Submitting: the jobs keep what they have, and get a request more. *)

\* The jobs J2 are the jobs J with more requests, of the purposes P.
Grown(J, J2, P) ==
    /\ J2 \in Seq(Job) /\ Len(J) <= Len(J2)
    /\ \A k \in DOMAIN J :
          /\ J2[k].stage = J[k].stage /\ J2[k].started = J[k].started
          /\ J2[k].shows = J[k].shows /\ J2[k].generation = J[k].generation
          /\ Len(J[k].waiters) <= Len(J2[k].waiters)
          /\ \A l \in DOMAIN J[k].waiters : J2[k].waiters[l] = J[k].waiters[l]
    /\ \A k \in DOMAIN J2 : k \notin DOMAIN J =>
          J2[k].stage = "queued" /\ J2[k].started = 0
    /\ \A k \in DOMAIN J2 : \A l \in DOMAIN J2[k].waiters :
          \/ k \in DOMAIN J /\ l \in DOMAIN J[k].waiters
          \/ J2[k].waiters[l].purpose \in P
    /\ Founded(J) => Founded(J2)

\* What a job is made of.
LEMMA JobFields ==
    ASSUME NEW j \in Job
    PROVE  /\ j.waiters \in Seq(Waiter)
           /\ j.stage \in {"queued", "mutating", "reading"}
           /\ j.kind \in {"refresh", "reconcile", "mutate"}
           /\ j.started \in Nat /\ j.shows \in Version /\ j.generation \in Nat
  BY DEF Job

\* The jobs of a queue are jobs.
LEMMA JobAt ==
    ASSUME NEW J \in Seq(Job), NEW k \in DOMAIN J
    PROVE  /\ J[k] \in Job
           /\ J[k].waiters \in Seq(Waiter)
           /\ k \in 1 .. Len(J) /\ Len(J) \in Nat
  <1>1. J[k] \in Job /\ k \in 1 .. Len(J) /\ Len(J) \in Nat
    OBVIOUS
  <1> QED
    BY <1>1, JobFields

\* Nothing submitted is nothing grown.
LEMMA GrownNot == \A J \in Seq(Job) : Grown(J, J, {})
  BY DEF Grown

\* Requests added in two turns.
LEMMA GrownTwice ==
    ASSUME NEW J \in Seq(Job), NEW J2, NEW J3, NEW P, NEW Q,
           Grown(J, J2, P), Grown(J2, J3, Q)
    PROVE  Grown(J, J3, P \union Q)
  <1>1. /\ J2 \in Seq(Job) /\ J3 \in Seq(Job)
        /\ Len(J) <= Len(J2) /\ Len(J2) <= Len(J3)
    BY DEF Grown
  <1>2. /\ Len(J) \in Nat /\ Len(J2) \in Nat /\ Len(J3) \in Nat
        /\ DOMAIN J = 1 .. Len(J) /\ DOMAIN J2 = 1 .. Len(J2)
        /\ DOMAIN J3 = 1 .. Len(J3)
    BY <1>1
  <1>3. DOMAIN J \subseteq DOMAIN J2 /\ DOMAIN J2 \subseteq DOMAIN J3
    BY <1>1, <1>2
  <1>4. \A k \in DOMAIN J :
          /\ J[k].waiters \in Seq(Waiter) /\ J2[k].waiters \in Seq(Waiter)
          /\ J3[k].waiters \in Seq(Waiter)
    BY <1>1, <1>3, JobAt
  <1>5. ASSUME NEW k \in DOMAIN J
        PROVE  /\ J3[k].stage = J[k].stage /\ J3[k].started = J[k].started
               /\ J3[k].shows = J[k].shows /\ J3[k].generation = J[k].generation
               /\ Len(J[k].waiters) <= Len(J3[k].waiters)
               /\ \A l \in DOMAIN J[k].waiters :
                     J3[k].waiters[l] = J[k].waiters[l]
    <2>1. k \in DOMAIN J2
      BY <1>3
    <2>2. /\ J3[k].stage = J2[k].stage /\ J3[k].started = J2[k].started
          /\ J3[k].shows = J2[k].shows /\ J3[k].generation = J2[k].generation
          /\ Len(J2[k].waiters) <= Len(J3[k].waiters)
          /\ \A l \in DOMAIN J2[k].waiters : J3[k].waiters[l] = J2[k].waiters[l]
      BY <2>1 DEF Grown
    <2>3. /\ J2[k].stage = J[k].stage /\ J2[k].started = J[k].started
          /\ J2[k].shows = J[k].shows /\ J2[k].generation = J[k].generation
          /\ Len(J[k].waiters) <= Len(J2[k].waiters)
          /\ \A l \in DOMAIN J[k].waiters : J2[k].waiters[l] = J[k].waiters[l]
      BY DEF Grown
    <2>4. DOMAIN J[k].waiters \subseteq DOMAIN J2[k].waiters
      BY <1>4, <2>3
    <2> QED
      BY <1>4, <2>2, <2>3, <2>4
  <1>6. ASSUME NEW k \in DOMAIN J3, k \notin DOMAIN J
        PROVE  J3[k].stage = "queued" /\ J3[k].started = 0
    BY <1>3, <1>6 DEF Grown
  <1>7. ASSUME NEW k \in DOMAIN J3, NEW l \in DOMAIN J3[k].waiters
        PROVE  \/ k \in DOMAIN J /\ l \in DOMAIN J[k].waiters
               \/ J3[k].waiters[l].purpose \in P \union Q
    <2>1. \/ k \in DOMAIN J2 /\ l \in DOMAIN J2[k].waiters
          \/ J3[k].waiters[l].purpose \in Q
      BY DEF Grown
    <2>2. ASSUME k \in DOMAIN J2, l \in DOMAIN J2[k].waiters
          PROVE  /\ J3[k].waiters[l] = J2[k].waiters[l]
                 /\ \/ k \in DOMAIN J /\ l \in DOMAIN J[k].waiters
                    \/ J2[k].waiters[l].purpose \in P
      BY <2>2 DEF Grown
    <2> QED
      BY <2>1, <2>2
  <1>8. Founded(J) => Founded(J3)
    BY DEF Grown
  <1> QED
    BY <1>1, <1>2, <1>5, <1>6, <1>7, <1>8 DEF Grown

\* The one request that J2 has and J has not.
Added(J, J2, p, k, l) ==
    /\ k \in DOMAIN J2 /\ l \in DOMAIN J2[k].waiters
    /\ J2[k].waiters[l].purpose = p
    /\ \A i \in DOMAIN J2 : \A m \in DOMAIN J2[i].waiters :
          (i \in DOMAIN J /\ m \in DOMAIN J[i].waiters) <=> ~(i = k /\ m = l)

\* A submission adds a request; a reconciliation has a job of its own.
LEMMA SubmittedGrows ==
    ASSUME NEW J \in Seq(Job),
           NEW kind \in {"refresh", "reconcile", "mutate"},
           NEW purpose \in Purposes
    PROVE  LET J2 == Submitted(J, kind, purpose)
           IN  /\ Grown(J, J2, {purpose})
               /\ \E k \in Nat, l \in Nat :
                     /\ Added(J, J2, purpose, k, l)
                     /\ kind # "refresh" => k \notin DOMAIN J
  <1> DEFINE n == Len(J)
  <1> DEFINE J2 == Submitted(J, kind, purpose)
  <1>1. n \in Nat /\ DOMAIN J = 1 .. n
    OBVIOUS
  <1>2. CASE kind = "refresh" /\ n > 0 /\ J[n].kind = "refresh"
    <2> DEFINE w == [purpose |-> purpose,
                     current |-> J[n].stage = "queued" \/ J[n].shows = disk]
    <2> DEFINE old == J[n].waiters
    <2>1. w \in Waiter /\ w.purpose = purpose
      BY DEF Waiter
    <2>2. n \in DOMAIN J /\ J[n] \in Job /\ old \in Seq(Waiter)
      <3>1. n \in DOMAIN J
        BY <1>1, <1>2
      <3> QED
        BY <3>1, JobAt
    <2>3. J2 = [J EXCEPT ![n].waiters = Append(old, w)]
      BY <1>2 DEF Submitted
    <2> HIDE DEF w, J2
    <2>4. /\ Append(old, w) \in Seq(Waiter)
          /\ Len(Append(old, w)) = Len(old) + 1 /\ Len(old) \in Nat
          /\ DOMAIN Append(old, w) = 1 .. Len(old) + 1
          /\ DOMAIN old = 1 .. Len(old)
          /\ \A l \in DOMAIN old : Append(old, w)[l] = old[l]
          /\ Append(old, w)[Len(old) + 1] = w
      BY <2>1, <2>2
    <2>5. /\ DOMAIN J2 = DOMAIN J /\ Len(J2) = n
          /\ J2[n] = [J[n] EXCEPT !.waiters = Append(old, w)]
          /\ \A k \in DOMAIN J : k # n => J2[k] = J[k]
      BY <1>1, <2>2, <2>3
    <2>6. /\ J2[n].waiters = Append(old, w) /\ J2[n] \in Job
          /\ J2[n].stage = J[n].stage /\ J2[n].started = J[n].started
          /\ J2[n].shows = J[n].shows /\ J2[n].generation = J[n].generation
      BY <2>2, <2>4, <2>5 DEF Job
    <2> HIDE DEF old
    <2>7. J2 \in Seq(Job)
      <3>1. \A k \in 1 .. n : J2[k] \in Job
        BY <1>1, <2>5, <2>6, JobAt
      <3>2. J2 = [k \in 1 .. n |-> J2[k]]
        BY <1>1, <2>3
      <3> QED
        BY <1>1, <3>1, <3>2
    <2>8. Founded(J) => Founded(J2)
      <3>1. Founded(J) => old # <<>> /\ old[1].current
        BY <2>2 DEF Founded, old
      <3>2. Founded(J) => Append(old, w) # <<>> /\ Append(old, w)[1].current
        <4>1. Founded(J) => 1 \in DOMAIN old
          BY <2>2, <3>1
        <4> QED
          BY <2>4, <3>1, <4>1
      <3> QED
        BY <2>5, <2>6, <3>2 DEF Founded
    <2>9. Grown(J, J2, {purpose})
      <3>1. ASSUME NEW k \in DOMAIN J
            PROVE  /\ J2[k].stage = J[k].stage /\ J2[k].started = J[k].started
                   /\ J2[k].shows = J[k].shows
                   /\ J2[k].generation = J[k].generation
                   /\ Len(J[k].waiters) <= Len(J2[k].waiters)
                   /\ \A l \in DOMAIN J[k].waiters :
                         J2[k].waiters[l] = J[k].waiters[l]
                   /\ \A l \in DOMAIN J2[k].waiters :
                         \/ l \in DOMAIN J[k].waiters
                         \/ J2[k].waiters[l].purpose = purpose
        <4>1. CASE k = n
          BY <2>1, <2>4, <2>6, <4>1, SMTT(60) DEF old
        <4>2. CASE k # n
          <5>1. J[k].waiters \in Seq(Waiter)
            BY JobAt
          <5> QED
            BY <2>5, <4>2, <5>1
        <4> QED
          BY <4>1, <4>2
      <3> QED
        BY <2>5, <2>7, <2>8, <3>1 DEF Grown
    <2>10. Added(J, J2, purpose, n, Len(old) + 1)
      <3>1. ASSUME NEW i \in DOMAIN J2, NEW m \in DOMAIN J2[i].waiters
            PROVE  (i \in DOMAIN J /\ m \in DOMAIN J[i].waiters)
                      <=> ~(i = n /\ m = Len(old) + 1)
        <4>1. CASE i = n
          <5>1. m \in 1 .. Len(old) + 1
            BY <2>4, <2>6, <4>1
          <5>2. m \in DOMAIN J[i].waiters <=> m \in 1 .. Len(old)
            BY <2>4, <4>1 DEF old
          <5> QED
            BY <2>2, <2>4, <4>1, <5>1, <5>2
        <4>2. CASE i # n
          BY <2>5, <4>2
        <4> QED
          BY <4>1, <4>2
      <3>2. Len(old) + 1 \in DOMAIN J2[n].waiters
        BY <2>4, <2>6
      <3> QED
        BY <2>1, <2>2, <2>4, <2>5, <2>6, <3>1, <3>2 DEF Added
    <2> QED
      BY <1>1, <1>2, <2>4, <2>9, <2>10 DEF J2
  <1>3. CASE ~(kind = "refresh" /\ n > 0 /\ J[n].kind = "refresh")
    <2> DEFINE w == [purpose |-> purpose, current |-> TRUE]
    <2> DEFINE job == [kind |-> kind, stage |-> "queued", waiters |-> <<w>>,
                       started |-> 0, shows |-> 0, generation |-> 0]
    <2>1. w \in Waiter /\ w.purpose = purpose /\ w.current
      BY DEF Waiter
    <2>2. J2 = Append(J, job)
      BY <1>3 DEF Submitted
    <2> HIDE DEF w, J2
    <2>3. /\ <<w>> \in Seq(Waiter) /\ Len(<<w>>) = 1 /\ <<w>>[1] = w
          /\ DOMAIN <<w>> = {1}
      BY <2>1
    <2>4. /\ job \in Job /\ job.waiters = <<w>> /\ job.stage = "queued"
          /\ job.started = 0
      <3>1. 0 \in Version
        BY RefreshConstants DEF Version
      <3> QED
        BY <2>3, <3>1 DEF Job
    <2> HIDE DEF job
    <2>5. /\ J2 \in Seq(Job) /\ Len(J2) = n + 1 /\ DOMAIN J2 = 1 .. n + 1
          /\ J2[n + 1] = job
          /\ \A k \in DOMAIN J : J2[k] = J[k]
      BY <2>2, <2>4
    <2>6. \A k \in DOMAIN J : J[k].waiters \in Seq(Waiter)
      BY JobAt
    <2>7. \A k \in DOMAIN J2 : k \in DOMAIN J \/ k = n + 1
      BY <1>1, <2>5
    <2>8. Founded(J) => Founded(J2)
      <3>1. job.waiters # <<>> /\ job.waiters[1].current
        BY <2>1, <2>3, <2>4
      <3> QED
        BY <2>5, <2>7, <3>1 DEF Founded
    <2>9. Grown(J, J2, {purpose})
      <3>1. \A k \in DOMAIN J : Len(J[k].waiters) <= Len(J2[k].waiters)
        BY <2>5, <2>6
      <3> QED
        BY <1>1, <2>1, <2>3, <2>4, <2>5, <2>7, <2>8, <3>1 DEF Grown
    <2>10. Added(J, J2, purpose, n + 1, 1)
      BY <1>1, <2>1, <2>3, <2>4, <2>5, <2>7 DEF Added
    <2> QED
      BY <1>1, <2>9, <2>10 DEF J2
  <1> QED
    BY <1>2, <1>3

-----------------------------------------------------------------------------
(* What is under way of one purpose, as jobs and completions change. *)

\* The bounds of FlyingOf's quantifiers only repeat what Has and Came say.
LEMMA FlyingUnbounded ==
    ASSUME NEW J, NEW E, NEW p, NEW f
    PROVE  FlyingOf(J, E, p, f) <=>
             /\ f <=> (\E k, l : Has(J, p, k, l)) \/ (\E k : Came(E, p, k))
             /\ \A k, l, m, n : Has(J, p, k, l) /\ Has(J, p, m, n)
                                  => k = m /\ l = n
             /\ \A k, m : Came(E, p, k) /\ Came(E, p, m) => k = m
             /\ \A k, l, m : ~(Has(J, p, k, l) /\ Came(E, p, m))
  BY DEF FlyingOf, Has, Came

\* More requests of other purposes change nothing.
LEMMA HasGrown ==
    ASSUME NEW J \in Seq(Job), NEW J2, NEW P, Grown(J, J2, P), NEW p, p \notin P
    PROVE  \A k, l : Has(J2, p, k, l) <=> Has(J, p, k, l)
  <1>1. /\ J2 \in Seq(Job) /\ Len(J) <= Len(J2)
        /\ DOMAIN J \subseteq DOMAIN J2
    BY DEF Grown
  <1>2. ASSUME NEW k \in DOMAIN J
        PROVE  DOMAIN J[k].waiters \subseteq DOMAIN J2[k].waiters
    <2>1. J[k].waiters \in Seq(Waiter) /\ J2[k].waiters \in Seq(Waiter)
      BY <1>1, JobAt
    <2>2. Len(J[k].waiters) <= Len(J2[k].waiters)
      BY DEF Grown
    <2> QED
      BY <2>1, <2>2
  <1>3. ASSUME NEW k, NEW l, Has(J, p, k, l) PROVE Has(J2, p, k, l)
    BY <1>1, <1>2, <1>3 DEF Has, Grown
  <1>4. ASSUME NEW k, NEW l, Has(J2, p, k, l) PROVE Has(J, p, k, l)
    <2>1. k \in DOMAIN J /\ l \in DOMAIN J[k].waiters
      BY <1>4 DEF Has, Grown
    <2> QED
      BY <1>4, <2>1 DEF Has, Grown
  <1> QED
    BY <1>3, <1>4

\* One request more is one request more.
LEMMA HasAdded ==
    ASSUME NEW J \in Seq(Job), NEW J2, NEW p, NEW i, NEW m,
           Grown(J, J2, {p}), Added(J, J2, p, i, m)
    PROVE  \A k, l : Has(J2, p, k, l) <=> Has(J, p, k, l) \/ (k = i /\ l = m)
  <1>1. /\ J2 \in Seq(Job) /\ Len(J) <= Len(J2)
        /\ DOMAIN J \subseteq DOMAIN J2
    BY DEF Grown
  <1>2. ASSUME NEW k \in DOMAIN J
        PROVE  DOMAIN J[k].waiters \subseteq DOMAIN J2[k].waiters
    <2>1. J[k].waiters \in Seq(Waiter) /\ J2[k].waiters \in Seq(Waiter)
      BY <1>1, JobAt
    <2>2. Len(J[k].waiters) <= Len(J2[k].waiters)
      BY DEF Grown
    <2> QED
      BY <2>1, <2>2
  <1>3. ASSUME NEW k, NEW l, Has(J, p, k, l) PROVE Has(J2, p, k, l)
    BY <1>1, <1>2, <1>3 DEF Has, Grown
  <1>4. Has(J2, p, i, m)
    BY DEF Has, Added
  <1>5. ASSUME NEW k, NEW l, Has(J2, p, k, l), ~(k = i /\ l = m)
        PROVE  Has(J, p, k, l)
    <2>1. k \in DOMAIN J /\ l \in DOMAIN J[k].waiters
      BY <1>5 DEF Has, Added
    <2> QED
      BY <1>5, <2>1 DEF Has, Grown
  <1> QED
    BY <1>3, <1>4, <1>5

\* What is under way is the same when the requests and completions are.
LEMMA FlyingSame ==
    ASSUME NEW J, NEW E, NEW J2, NEW E2, NEW p, NEW f, FlyingOf(J, E, p, f),
           \A k, l : Has(J2, p, k, l) <=> Has(J, p, k, l),
           \A k : Came(E2, p, k) <=> Came(E, p, k)
    PROVE  FlyingOf(J2, E2, p, f)
  BY FlyingUnbounded

\* The first request of its purpose.
LEMMA FlyingAdded ==
    ASSUME NEW J \in Seq(Job), NEW J2, NEW E, NEW p, NEW i, NEW m,
           FlyingOf(J, E, p, FALSE), Grown(J, J2, {p}), Added(J, J2, p, i, m)
    PROVE  FlyingOf(J2, E, p, TRUE)
  <1>1. \A k, l : Has(J2, p, k, l) <=> Has(J, p, k, l) \/ (k = i /\ l = m)
    BY HasAdded
  <1>2. (\A k, l : ~Has(J, p, k, l)) /\ (\A k : ~Came(E, p, k))
    BY FlyingUnbounded
  <1>3. \A k, l : Has(J2, p, k, l) <=> (k = i /\ l = m)
    BY <1>1, <1>2
  <1>4. Has(J2, p, i, m)
    BY <1>3
  <1>5. \A k, l, j, n : Has(J2, p, k, l) /\ Has(J2, p, j, n) => k = j /\ l = n
    BY <1>3
  <1>6. TRUE <=> (\E k, l : Has(J2, p, k, l)) \/ (\E k : Came(E, p, k))
    BY <1>4
  <1> QED
    BY <1>2, <1>5, <1>6, FlyingUnbounded

\* A job that ends turns its requests into completions, in their order.
LEMMA FlyingEnds ==
    ASSUME NEW J \in Seq(Job), J # <<>>, NEW E \in Seq(Event),
           NEW D \in Seq(Event), Len(D) = Len(J[1].waiters),
           \A k \in DOMAIN D : D[k].purpose = J[1].waiters[k].purpose,
           NEW p, NEW f, FlyingOf(J, E, p, f)
    PROVE  FlyingOf(Tail(J), E \o D, p, f)
  <1>1. /\ Len(J) \in Nat \ {0} /\ DOMAIN J = 1 .. Len(J)
        /\ J[1].waiters \in Seq(Waiter)
    BY JobAt
  <1>2. /\ Tail(J) \in Seq(Job) /\ DOMAIN Tail(J) = 1 .. Len(J) - 1
        /\ \A k \in 1 .. Len(J) - 1 : Tail(J)[k] = J[k + 1]
    BY <1>1
  <1>3. ASSUME NEW k, NEW l
        PROVE  Has(Tail(J), p, k, l) <=>
                   k \in Nat \ {0} /\ Has(J, p, k + 1, l)
    <2>1. k \in DOMAIN Tail(J) <=> k \in Nat \ {0} /\ k + 1 \in DOMAIN J
      BY <1>1, <1>2
    <2>2. k \in DOMAIN Tail(J) => Tail(J)[k] = J[k + 1]
      BY <1>2
    <2> QED
      BY <2>1, <2>2 DEF Has
  <1>4. /\ Len(E) \in Nat /\ Len(D) \in Nat
        /\ DOMAIN E = 1 .. Len(E) /\ DOMAIN D = 1 .. Len(D)
        /\ DOMAIN (E \o D) = 1 .. Len(E) + Len(D)
        /\ \A k \in DOMAIN E : (E \o D)[k] = E[k]
        /\ \A k \in DOMAIN D : (E \o D)[Len(E) + k] = D[k]
    <2>1. /\ Len(E) \in Nat /\ Len(D) \in Nat
          /\ DOMAIN E = 1 .. Len(E) /\ DOMAIN D = 1 .. Len(D)
      OBVIOUS
    <2>2. /\ E \o D \in Seq(Event)
          /\ Len(E \o D) = Len(E) + Len(D)
          /\ \A k \in 1 .. Len(E) + Len(D) :
                (E \o D)[k] = IF k <= Len(E) THEN E[k] ELSE D[k - Len(E)]
      BY ConcatProperties
    <2>3. DOMAIN (E \o D) = 1 .. Len(E) + Len(D)
      BY <2>2
    <2>4. ASSUME NEW k \in 1 .. Len(D)
          PROVE  (E \o D)[Len(E) + k] = D[k]
      <3>1. /\ Len(E) + k \in 1 .. Len(E) + Len(D) /\ ~(Len(E) + k <= Len(E))
            /\ (Len(E) + k) - Len(E) = k
        BY <2>1
      <3> QED
        BY <2>2, <3>1
    <2>5. ASSUME NEW k \in 1 .. Len(E) PROVE (E \o D)[k] = E[k]
      BY <2>1, <2>2
    <2> QED
      BY <2>1, <2>3, <2>4, <2>5
  <1>5. ASSUME NEW k
        PROVE  Came(E \o D, p, k) <=>
                 \/ Came(E, p, k)
                 \/ k \in Int /\ k > Len(E) /\ Has(J, p, 1, k - Len(E))
    <2>1. CASE k \in DOMAIN E
      BY <1>4, <2>1 DEF Came
    <2>2. CASE k \in Int /\ k > Len(E)
      <3> DEFINE l == k - Len(E)
      <3>1. l \in Nat \ {0} /\ k = Len(E) + l
        <4>1. Len(E) \in Nat
          BY <1>4
        <4> QED
          BY <2>2, <4>1
      <3>2. k \in DOMAIN (E \o D) <=> l \in DOMAIN D
        BY <1>4, <3>1
      <3>3. l \in DOMAIN D <=> l \in DOMAIN J[1].waiters
        BY <1>1, <1>4
      <3>4. l \in DOMAIN D => /\ (E \o D)[k] = D[l]
                              /\ D[l].purpose = J[1].waiters[l].purpose
        BY <1>4, <3>1
      <3>5. 1 \in DOMAIN J /\ ~Came(E, p, k)
        BY <1>1, <1>4, <2>2 DEF Came
      <3> HIDE DEF l
      <3>6. Came(E \o D, p, k) <=> Has(J, p, 1, l)
        BY <3>2, <3>3, <3>4, <3>5 DEF Came, Has
      <3> QED
        BY <2>2, <3>5, <3>6 DEF l
    <2>3. CASE k \notin DOMAIN E /\ ~(k \in Int /\ k > Len(E))
      BY <1>4, <2>3 DEF Came
    <2> QED
      BY <2>1, <2>2, <2>3
  <1>6. \A k, l : Has(J, p, k, l) => k \in Nat \ {0} /\ (k = 1 => l \in Nat \ {0})
    <2>1. \A l \in DOMAIN J[1].waiters : l \in Nat \ {0}
      BY <1>1
    <2> QED
      BY <1>1, <2>1 DEF Has
  <1>7. \A k : Came(E, p, k) => k \in Int /\ k <= Len(E)
    BY <1>4 DEF Came
  <1>8. /\ f <=> (\E k, l : Has(J, p, k, l)) \/ (\E k : Came(E, p, k))
        /\ \A k, l, m, n : Has(J, p, k, l) /\ Has(J, p, m, n) => k = m /\ l = n
        /\ \A k, m : Came(E, p, k) /\ Came(E, p, m) => k = m
        /\ \A k, l, m : ~(Has(J, p, k, l) /\ Came(E, p, m))
    BY FlyingUnbounded
  <1>9. f <=> \/ \E k, l : Has(Tail(J), p, k, l)
              \/ \E k : Came(E \o D, p, k)
    <2>1. ASSUME NEW k, NEW l, Has(J, p, k, l)
          PROVE  \/ \E i, m : Has(Tail(J), p, i, m)
                 \/ \E i : Came(E \o D, p, i)
      <3>1. CASE k = 1
        <4>1. Came(E \o D, p, Len(E) + l)
          <5>1. /\ l \in Nat \ {0} /\ Len(E) + l \in Int
                /\ Len(E) + l > Len(E) /\ (Len(E) + l) - Len(E) = l
            BY <1>4, <1>6, <2>1, <3>1
          <5> QED
            BY <1>5, <2>1, <3>1, <5>1
        <4> QED
          BY <4>1
      <3>2. CASE k # 1
        <4>1. k - 1 \in Nat \ {0} /\ (k - 1) + 1 = k
          BY <1>6, <2>1, <3>2
        <4>2. Has(Tail(J), p, k - 1, l)
          BY <1>3, <2>1, <4>1
        <4> QED
          BY <4>2
      <3> QED
        BY <3>1, <3>2
    <2> QED
      BY <1>3, <1>5, <1>8, <2>1
  <1>10. \A k, l, m, n : Has(Tail(J), p, k, l) /\ Has(Tail(J), p, m, n)
                            => k = m /\ l = n
    <2> SUFFICES ASSUME NEW k, NEW l, NEW m, NEW n,
                        Has(Tail(J), p, k, l), Has(Tail(J), p, m, n)
                 PROVE  k = m /\ l = n
      OBVIOUS
    <2>1. k \in Nat /\ m \in Nat /\ Has(J, p, k + 1, l) /\ Has(J, p, m + 1, n)
      BY <1>3
    <2>2. k + 1 = m + 1 /\ l = n
      BY <1>8, <2>1
    <2> QED
      BY <2>1, <2>2
  <1>11. \A k, m : Came(E \o D, p, k) /\ Came(E \o D, p, m) => k = m
    <2> SUFFICES ASSUME NEW k, NEW m, Came(E \o D, p, k), Came(E \o D, p, m)
                 PROVE  k = m
      OBVIOUS
    <2>1. CASE Came(E, p, k) /\ Came(E, p, m)
      BY <1>8, <2>1
    <2>2. CASE /\ k \in Int /\ k > Len(E) /\ Has(J, p, 1, k - Len(E))
               /\ m \in Int /\ m > Len(E) /\ Has(J, p, 1, m - Len(E))
      <3>1. k - Len(E) = m - Len(E)
        BY <1>8, <2>2
      <3> QED
        BY <1>4, <2>2, <3>1
    <2> QED
      BY <1>5, <1>8, <2>1, <2>2
  <1>12. \A k, l, m : ~(Has(Tail(J), p, k, l) /\ Came(E \o D, p, m))
    <2> SUFFICES ASSUME NEW k, NEW l, NEW m, Has(Tail(J), p, k, l),
                        Came(E \o D, p, m)
                 PROVE  FALSE
      OBVIOUS
    <2>1. k \in Nat \ {0} /\ Has(J, p, k + 1, l) /\ k + 1 # 1
      BY <1>3
    <2> QED
      BY <1>5, <1>8, <2>1
  <1> QED
    BY <1>9, <1>10, <1>11, <1>12, FlyingUnbounded

\* The host handles the first completion.
LEMMA FlyingHandled ==
    ASSUME NEW J, NEW E \in Seq(Event), E # <<>>, NEW p, NEW f \in BOOLEAN,
           FlyingOf(J, E, p, f)
    PROVE  FlyingOf(J, Tail(E), p, f /\ Head(E).purpose # p)
  <1>1. /\ Len(E) \in Nat \ {0} /\ DOMAIN E = 1 .. Len(E) /\ Head(E) = E[1]
        /\ Tail(E) \in Seq(Event) /\ DOMAIN Tail(E) = 1 .. Len(E) - 1
        /\ \A k \in 1 .. Len(E) - 1 : Tail(E)[k] = E[k + 1]
    OBVIOUS
  <1>2. ASSUME NEW k
        PROVE  Came(Tail(E), p, k) <=> k \in Nat \ {0} /\ Came(E, p, k + 1)
    <2>1. k \in DOMAIN Tail(E) <=> k \in Nat \ {0} /\ k + 1 \in DOMAIN E
      BY <1>1
    <2>2. k \in DOMAIN Tail(E) => Tail(E)[k] = E[k + 1]
      BY <1>1
    <2> QED
      BY <2>1, <2>2 DEF Came
  <1>3. Came(E, p, 1) <=> Head(E).purpose = p
    BY <1>1 DEF Came
  <1>4. \A k : Came(E, p, k) => k \in Nat \ {0}
    BY <1>1 DEF Came
  <1>5. /\ f <=> (\E k, l : Has(J, p, k, l)) \/ (\E k : Came(E, p, k))
        /\ \A k, l, m, n : Has(J, p, k, l) /\ Has(J, p, m, n) => k = m /\ l = n
        /\ \A k, m : Came(E, p, k) /\ Came(E, p, m) => k = m
        /\ \A k, l, m : ~(Has(J, p, k, l) /\ Came(E, p, m))
    BY FlyingUnbounded
  <1>6. (f /\ Head(E).purpose # p) <=>
           (\E k, l : Has(J, p, k, l)) \/ (\E k : Came(Tail(E), p, k))
    <2>1. ASSUME NEW k, Came(E, p, k), k # 1 PROVE Came(Tail(E), p, k - 1)
      <3>1. k - 1 \in Nat \ {0} /\ (k - 1) + 1 = k
        BY <1>4, <2>1
      <3> QED
        BY <1>2, <2>1, <3>1
    <2>2. \A k : Came(Tail(E), p, k) => Came(E, p, k + 1) /\ k + 1 # 1
      BY <1>2
    <2> QED
      BY <1>3, <1>5, <2>1, <2>2
  <1>7. \A k, m : Came(Tail(E), p, k) /\ Came(Tail(E), p, m) => k = m
    <2> SUFFICES ASSUME NEW k, NEW m, Came(Tail(E), p, k), Came(Tail(E), p, m)
                 PROVE  k = m
      OBVIOUS
    <2>1. /\ k \in Nat /\ m \in Nat
          /\ Came(E, p, k + 1) /\ Came(E, p, m + 1)
      BY <1>2
    <2>2. k + 1 = m + 1
      BY <1>5, <2>1
    <2> QED
      BY <2>1, <2>2
  <1>8. \A k, l, m : ~(Has(J, p, k, l) /\ Came(Tail(E), p, m))
    BY <1>2, <1>5
  <1> QED
    BY <1>5, <1>6, <1>7, <1>8, FlyingUnbounded

\* So the requests of that purpose count one, or none.
LEMMA FlyingCounts ==
    ASSUME NEW J, NEW E, NEW p, NEW f \in BOOLEAN, FlyingOf(J, E, p, f)
    PROVE  LET Waits(k) == {l \in DOMAIN J[k].waiters :
                               J[k].waiters[l].purpose = p}
               Queued == UNION {{<<k, l>> : l \in Waits(k)} : k \in DOMAIN J}
               Ended == {k \in DOMAIN E : E[k].purpose = p}
           IN  Cardinality(Queued) + Cardinality(Ended) = IF f THEN 1 ELSE 0
  <1> DEFINE Waits(k) == {l \in DOMAIN J[k].waiters :
                             J[k].waiters[l].purpose = p}
  <1> DEFINE Queued == UNION {{<<k, l>> : l \in Waits(k)} : k \in DOMAIN J}
  <1> DEFINE Ended == {k \in DOMAIN E : E[k].purpose = p}
  <1>1. \A x : x \in Queued <=> \E k, l : x = <<k, l>> /\ Has(J, p, k, l)
    BY DEF Has
  <1>2. \A k : k \in Ended <=> Came(E, p, k)
    BY DEF Came
  <1>3. /\ f <=> (\E k, l : Has(J, p, k, l)) \/ (\E k : Came(E, p, k))
        /\ \A k, l, m, n : Has(J, p, k, l) /\ Has(J, p, m, n) => k = m /\ l = n
        /\ \A k, m : Came(E, p, k) /\ Came(E, p, m) => k = m
        /\ \A k, l, m : ~(Has(J, p, k, l) /\ Came(E, p, m))
    BY FlyingUnbounded
  <1> HIDE DEF Queued, Ended
  <1>4. CASE ~f
    <2>1. Queued = {} /\ Ended = {}
      BY <1>1, <1>2, <1>3, <1>4
    <2>2. Cardinality(Queued) = 0
      BY <2>1, FS_EmptySet, Zenon
    <2>3. Cardinality(Ended) = 0
      BY <2>1, FS_EmptySet, Zenon
    <2> QED
      BY <1>4, <2>2, <2>3 DEF Queued, Ended
  <1>5. ASSUME NEW k, NEW l, Has(J, p, k, l), f
        PROVE  Cardinality(Queued) + Cardinality(Ended) = 1
    <2>1. Queued = {<<k, l>>}
      BY <1>1, <1>3, <1>5
    <2>2. Ended = {}
      BY <1>2, <1>3, <1>5
    <2>3. Cardinality(Queued) = 1
      BY <2>1, FS_Singleton, Zenon
    <2>4. Cardinality(Ended) = 0
      BY <2>2, FS_EmptySet, Zenon
    <2> QED
      BY <2>3, <2>4
  <1>6. ASSUME NEW k, Came(E, p, k), f
        PROVE  Cardinality(Queued) + Cardinality(Ended) = 1
    <2>1. Queued = {}
      BY <1>1, <1>3, <1>6
    <2>2. Ended = {k}
      BY <1>2, <1>3, <1>6
    <2>3. Cardinality(Queued) = 0
      BY <2>1, FS_EmptySet, Zenon
    <2>4. Cardinality(Ended) = 1
      BY <2>2, FS_Singleton, Zenon
    <2> QED
      BY <2>3, <2>4
  <1> QED
    BY <1>3, <1>4, <1>5, <1>6 DEF Queued, Ended

-----------------------------------------------------------------------------
(* What the invariant asks of the jobs, and why submitting keeps it. *)

\* The jobs J are typed, only the first may have begun, when and as the first
\* of the jobs there are.
Sound(J) ==
    /\ J \in Seq(Job) /\ Founded(J)
    /\ \A k \in DOMAIN J : /\ k > 1 => J[k].stage = "queued"
                           /\ J[k].started <= made
    /\ J # <<>> /\ J[1].stage # "queued" =>
          /\ jobs # <<>> /\ J[1].stage = jobs[1].stage
          /\ J[1].shows = jobs[1].shows /\ J[1].generation = jobs[1].generation

\* The jobs of a state that satisfies the invariant are sound.
LEMMA SoundNow == IndInv => Sound(jobs)
  BY DEF IndInv, TypeOK, Clocks, OwnAnswers, Sound

\* They stay so when requests are submitted.
LEMMA SoundGrown ==
    ASSUME IndInv, NEW J, NEW J2, NEW P, Sound(J), Grown(J, J2, P)
    PROVE  Sound(J2)
  <1>1. /\ J \in Seq(Job) /\ J2 \in Seq(Job) /\ Len(J) <= Len(J2)
        /\ Founded(J2)
    BY DEF Sound, Grown
  <1>2. \A k \in DOMAIN J2 :
           \/ /\ k \in DOMAIN J /\ J2[k].stage = J[k].stage
              /\ J2[k].started = J[k].started /\ J2[k].shows = J[k].shows
              /\ J2[k].generation = J[k].generation
           \/ J2[k].stage = "queued" /\ J2[k].started = 0
    BY DEF Grown
  <1>3. made \in Nat
    BY DEF IndInv, TypeOK
  <1>4. 1 \in DOMAIN J => J # <<>>
    BY <1>1
  <1>5. J2 # <<>> => 1 \in DOMAIN J2
    BY <1>1
  <1>6. ASSUME NEW k \in DOMAIN J2
        PROVE  /\ k > 1 => J2[k].stage = "queued"
               /\ J2[k].started <= made
    BY <1>2, <1>3 DEF Sound
  <1>7. J2 # <<>> /\ J2[1].stage # "queued" =>
          /\ jobs # <<>> /\ J2[1].stage = jobs[1].stage
          /\ J2[1].shows = jobs[1].shows
          /\ J2[1].generation = jobs[1].generation
    BY <1>2, <1>4, <1>5 DEF Sound
  <1> QED
    BY <1>1, <1>6, <1>7 DEF Sound

\* The purposes of what was added may be overestimated.
LEMMA GrownMore ==
    ASSUME NEW J, NEW J2, NEW P, NEW Q, P \subseteq Q, Grown(J, J2, P)
    PROVE  Grown(J, J2, Q)
  BY DEF Grown

\* A retry adds the one reconciliation there may be, in a job of its own that
\* has not begun, or nothing.
LEMMA RetriedAdds ==
    ASSUME NEW J \in Seq(Job), NEW J2, NEW E,
           J2 = Submitted(J, "reconcile", "files"),
           FlyingOf(J, E, "files", FALSE)
    PROVE  /\ Grown(J, J2, {"files"})
           /\ FlyingOf(J2, E, "files", TRUE)
           /\ \A k, l : Has(J2, "files", k, l) => J2[k].stage = "queued"
           /\ \A k : ~Came(E, "files", k)
  <1>1. Grown(J, J2, {"files"})
    BY SubmittedGrows DEF Purposes
  <1>2. PICK k \in Nat, l \in Nat :
           Added(J, J2, "files", k, l) /\ k \notin DOMAIN J
    BY SubmittedGrows DEF Purposes
  <1>3. FlyingOf(J2, E, "files", TRUE)
    BY <1>1, <1>2, FlyingAdded
  <1>4. (\A i, m : ~Has(J, "files", i, m)) /\ \A i : ~Came(E, "files", i)
    BY FlyingUnbounded
  <1>5. \A i, m : Has(J2, "files", i, m) => i = k
    BY <1>1, <1>2, <1>4, HasAdded
  <1>6. J2[k].stage = "queued"
    BY <1>1, <1>2 DEF Grown, Added
  <1> QED
    BY <1>1, <1>3, <1>4, <1>5, <1>6

\* So after a retry a reconciliation is under way, or what was.
LEMMA RetriedFlies ==
    ASSUME NEW J \in Seq(Job), NEW J2, NEW E, NEW wants, NEW requested,
           NEW full, FlyingOf(J, E, "files", requested),
           J2 = Retried(wants, requested, J, full)
    PROVE  /\ Grown(J, J2, {"files"})
           /\ MayRetry(wants, requested, full) =>
                /\ FlyingOf(J2, E, "files", TRUE)
                /\ \A k, l : Has(J2, "files", k, l) => J2[k].stage = "queued"
                /\ \A k : ~Came(E, "files", k)
           /\ ~MayRetry(wants, requested, full) =>
                FlyingOf(J2, E, "files", requested)
  <1>1. CASE ~MayRetry(wants, requested, full)
    <2>1. J2 = J
      BY <1>1 DEF Retried
    <2>2. Grown(J, J2, {"files"})
      BY <2>1, GrownNot, GrownMore
    <2> QED
      BY <1>1, <2>1, <2>2
  <1>2. CASE MayRetry(wants, requested, full)
    <2>1. J2 = Submitted(J, "reconcile", "files") /\ ~requested
      BY <1>2 DEF Retried, MayRetry
    <2>2. FlyingOf(J, E, "files", FALSE)
      BY <2>1, FlyingUnbounded
    <2> QED
      BY <1>2, <2>1, <2>2, RetriedAdds
  <1> QED
    BY <1>1, <1>2

\* The purposes a person's requests have are neither of the two.
LEMMA OthersFly ==
    ASSUME NEW J \in Seq(Job), NEW J2, NEW E, NEW P, Grown(J, J2, P),
           NEW p, p \notin P, NEW f, FlyingOf(J, E, p, f)
    PROVE  FlyingOf(J2, E, p, f)
  BY HasGrown, FlyingSame

\* A promise of the repository is kept while no reconciliation joins a job.
LEMMA PromisedGrown ==
    ASSUME NEW J \in Seq(Job), NEW J2, NEW P, Grown(J, J2, P),
           "files" \notin P, NEW v,
           \A k, l : Has(J, "files", k, l) /\ J[k].stage = "reading"
                        => v <= J[k].shows
    PROVE  \A k, l : Has(J2, "files", k, l) /\ J2[k].stage = "reading"
                        => v <= J2[k].shows
  <1>1. \A k, l : Has(J2, "files", k, l) <=> Has(J, "files", k, l)
    BY HasGrown
  <1>2. \A k, l : Has(J, "files", k, l) =>
           J2[k].stage = J[k].stage /\ J2[k].shows = J[k].shows
    BY DEF Has, Grown
  <1> QED
    BY <1>1, <1>2

-----------------------------------------------------------------------------
(* Steps that submit requests and handle no completion. *)

\* The numbers and records of a typed state.
LEMMA Typed ==
    ASSUME TypeOK
    PROVE  /\ {disk, written, made, seen, observed, last, shown, generation,
               bumped, asks, failures} \subseteq Nat
           /\ {pending, stale, fsPending, fsRequest} \subseteq BOOLEAN
           /\ jobs \in Seq(Job) /\ events \in Seq(Event)
           /\ \A k \in DOMAIN events :
                 /\ events[k] \in Event /\ events[k].shows \in Nat
                 /\ events[k].generation \in Nat /\ events[k].started \in Nat
                 /\ events[k].snapshot \in BOOLEAN
           /\ \A k \in DOMAIN jobs :
                 /\ jobs[k] \in Job /\ jobs[k].shows \in Nat
                 /\ jobs[k].generation \in Nat /\ jobs[k].started \in Nat
           /\ jobs # <<>> => 1 \in DOMAIN jobs
           /\ Version \subseteq Nat
  <1>1. Version \subseteq Nat
    BY RefreshConstants DEF Version
  <1>2. /\ jobs \in Seq(Job) /\ events \in Seq(Event)
    BY DEF TypeOK
  <1>3. \A k \in DOMAIN events : events[k] \in Event
    BY <1>2
  <1>4. \A e \in Event : /\ e.shows \in Nat /\ e.generation \in Nat
                         /\ e.started \in Nat /\ e.snapshot \in BOOLEAN
    BY <1>1 DEF Event
  <1>5. \A k \in DOMAIN jobs : jobs[k] \in Job
    BY <1>2
  <1>6. \A j \in Job : j.shows \in Nat /\ j.generation \in Nat /\ j.started \in Nat
    BY <1>1, JobFields
  <1>7. {disk, written, made, seen, observed, last, shown, generation,
         bumped, asks, failures} \subseteq Nat
    BY <1>1, RefreshConstants DEF TypeOK
  <1>8. {pending, stale, fsPending, fsRequest} \subseteq BOOLEAN
    BY DEF TypeOK
  <1>9. jobs # <<>> => 1 \in DOMAIN jobs
    BY <1>2
  <1> QED
    BY <1>1, <1>2, <1>3, <1>4, <1>5, <1>6, <1>7, <1>8, <1>9

\* The flags of the next state.
LEMMA FlagsNext ==
    FlagsTrue' <=> /\ FlyingOf(jobs', events', "files", fsRequest')
                   /\ FlyingOf(jobs', events', "auto", pending')
  BY DEF FlagsTrue, FlyingOf, Has, Came

\* Promised, without the bounds that Has and Came repeat, now and next.
LEMMA PromisedNow ==
    Promised <=>
      /\ \A k, l : Has(jobs, "files", k, l) /\ jobs[k].stage = "reading"
                      => written <= jobs[k].shows
      /\ \A k : Came(events, "files", k) /\ events[k].state = "completed"
                   /\ events[k].snapshot => written <= events[k].shows
  BY DEF Promised, Has, Came

\* Promised in the next state.
LEMMA PromisedNext ==
    Promised' <=>
      /\ \A k, l : Has(jobs', "files", k, l) /\ jobs'[k].stage = "reading"
                      => written' <= jobs'[k].shows
      /\ \A k : Came(events', "files", k) /\ events'[k].state = "completed"
                   /\ events'[k].snapshot => written' <= events'[k].shows
  BY DEF Promised, Has, Came

\* More requests, and at most one change of the repository, disturb neither
\* the clocks, nor the order of the snapshots, nor the answers.
LEMMA QuietStep ==
    ASSUME IndInv, NEW J2, Sound(J2), jobs' = J2,
           UNCHANGED <<events, shown, generation, bumped, made, seen>>,
           disk' \in {disk, disk + 1}, written' \in {written, disk'}
    PROVE  Clocks' /\ SnapshotsInOrder' /\ OwnAnswers'
  <1> USE DEF IndInv
  <1>1. /\ {disk, written, made, seen, shown, generation, bumped} \subseteq Nat
        /\ \A k \in DOMAIN events : events[k].shows \in Nat
        /\ jobs # <<>> => 1 \in DOMAIN jobs /\ jobs[1].shows \in Nat
    BY Typed
  <1>2. Clocks'
    BY <1>1 DEF Clocks, Sound
  <1>3. SnapshotsInOrder'
    <2>1. \A k \in DOMAIN events : events[k].snapshot =>
             /\ shown <= events[k].shows /\ events[k].shows <= disk'
             /\ generation <= events[k].generation
             /\ events[k].generation <= bumped
      BY <1>1 DEF SnapshotsInOrder
    <2>2. J2 # <<>> /\ J2[1].stage # "queued" =>
             /\ J2[1].generation = bumped
             /\ shown <= J2[1].shows /\ J2[1].shows <= disk'
             /\ \A k \in DOMAIN events : events[k].snapshot =>
                   events[k].shows <= J2[1].shows
      <3> SUFFICES ASSUME J2 # <<>>, J2[1].stage # "queued"
                   PROVE  /\ J2[1].generation = bumped
                          /\ shown <= J2[1].shows /\ J2[1].shows <= disk'
                          /\ \A k \in DOMAIN events : events[k].snapshot =>
                                events[k].shows <= J2[1].shows
        OBVIOUS
      <3>1. /\ jobs # <<>> /\ jobs[1].stage # "queued"
            /\ J2[1].shows = jobs[1].shows
            /\ J2[1].generation = jobs[1].generation
        BY DEF Sound
      <3> QED
        BY <1>1, <3>1 DEF SnapshotsInOrder
    <2>3. \A k, m \in DOMAIN events :
             k < m /\ events[k].snapshot /\ events[m].snapshot =>
                /\ events[k].shows <= events[m].shows
                /\ events[k].generation <= events[m].generation
      BY DEF SnapshotsInOrder
    <2> QED
      BY <2>1, <2>2, <2>3 DEF SnapshotsInOrder
  <1>4. OwnAnswers'
    <2>1. Founded(J2)
      BY DEF Sound
    <2> QED
      BY <2>1 DEF OwnAnswers, Founded
  <1> QED
    BY <1>2, <1>3, <1>4

\* Requests of a person: nothing that is counted, kept or promised changes.
LEMMA AskedInv ==
    ASSUME IndInv, NEW J2, Sound(J2), jobs' = J2, asks' \in 0 .. MaxAsks,
           UNCHANGED <<disk, written, made, seen, failures, appVars, hostVars,
                       bumped, events>>,
           \A k, l : Has(J2, "files", k, l) <=> Has(jobs, "files", k, l),
           \A k, l : Has(J2, "auto", k, l) <=> Has(jobs, "auto", k, l),
           \A k, l : Has(J2, "files", k, l) =>
              J2[k].stage = jobs[k].stage /\ J2[k].shows = jobs[k].shows
    PROVE  IndInv'
  <1> USE DEF IndInv, appVars, hostVars
  <1>1. Clocks' /\ SnapshotsInOrder' /\ OwnAnswers'
    BY QuietStep
  <1>2. TypeOK'
    BY DEF TypeOK, Sound
  <1>3. FlagsTrue'
    <2>1. FlyingOf(J2, events, "files", fsRequest)
      BY FlyingSame DEF FlagsTrue
    <2>2. FlyingOf(J2, events, "auto", pending)
      BY FlyingSame DEF FlagsTrue
    <2> QED
      BY <2>1, <2>2, FlagsNext
  <1>4. ChangeComing'
    <2>1. Promised => Promised'
      BY PromisedNow, PromisedNext
    <2> QED
      BY <2>1 DEF ChangeComing, FilesystemChangeKept
  <1> QED
    BY <1>1, <1>2, <1>3, <1>4

\* :git-refresh and Git commands.
LEMMA AskInv ==
    ASSUME IndInv, AskRefresh \/ AskMutation
    PROVE  IndInv'
  <1>1. TypeOK /\ jobs \in Seq(Job)
    BY DEF IndInv, TypeOK
  <1>2. PICK J2, P : /\ P \in {{"explicit"}, {"mutation"}}
                     /\ jobs' = J2 /\ Grown(jobs, J2, P)
    <2>1. CASE AskRefresh
      <3>1. Grown(jobs, Submitted(jobs, "refresh", "explicit"), {"explicit"})
        BY <1>1, SubmittedGrows DEF Purposes
      <3> QED
        BY <2>1, <3>1 DEF AskRefresh
    <2>2. CASE AskMutation
      <3>1. Grown(jobs, Submitted(jobs, "mutate", "mutation"), {"mutation"})
        BY <1>1, SubmittedGrows DEF Purposes
      <3> QED
        BY <2>2, <3>1 DEF AskMutation
    <2> QED
      BY <2>1, <2>2
  <1>3. /\ asks' \in 0 .. MaxAsks
        /\ UNCHANGED <<disk, written, made, seen, failures, appVars, hostVars,
                       bumped, events>>
    <2>1. asks < MaxAsks /\ asks' = asks + 1 /\ asks \in Nat /\ MaxAsks \in Nat
      BY <1>1, RefreshConstants DEF AskRefresh, AskMutation, Asks, TypeOK
    <2> QED
      BY <2>1 DEF AskRefresh, AskMutation, Asks
  <1>4. Sound(J2)
    BY <1>2, SoundNow, SoundGrown
  <1>5. "files" \notin P /\ "auto" \notin P
    BY <1>2
  <1>6. /\ \A k, l : Has(J2, "files", k, l) <=> Has(jobs, "files", k, l)
        /\ \A k, l : Has(J2, "auto", k, l) <=> Has(jobs, "auto", k, l)
    BY <1>1, <1>2, <1>5, HasGrown
  <1>7. \A k, l : Has(J2, "files", k, l) =>
           J2[k].stage = jobs[k].stage /\ J2[k].shows = jobs[k].shows
    BY <1>2, <1>6 DEF Grown, Has
  <1> QED
    BY <1>2, <1>3, <1>4, <1>6, <1>7, AskedInv

\* The commit command: what asked before opens nothing any more, and keeps its
\* place.
LEMMA AskCommitInv ==
    ASSUME IndInv, AskCommit
    PROVE  IndInv'
  <1> USE DEF IndInv
  <1> DEFINE Superseded(w) == IF w.purpose = "commit"
                              THEN [w EXCEPT !.purpose = "explicit"] ELSE w
  <1> DEFINE Renamed(j) ==
        [j EXCEPT !.waiters = [l \in DOMAIN @ |-> Superseded(@[l])]]
  <1>1. TypeOK /\ jobs \in Seq(Job) /\ events \in Seq(Event)
    BY DEF TypeOK
  <1>2. PICK J : J = [k \in DOMAIN jobs |-> Renamed(jobs[k])]
    OBVIOUS
  <1>3. PICK J2 : J2 = Submitted(J, "refresh", "commit")
    OBVIOUS
  <1>4. PICK E2 : E2 = [k \in DOMAIN events |-> Superseded(events[k])]
    OBVIOUS
  <1>5. /\ jobs' = J2 /\ events' = E2
        /\ UNCHANGED <<disk, written, made, seen, failures, appVars, hostVars,
                       bumped>>
        /\ asks < MaxAsks /\ asks' = asks + 1
    BY <1>2, <1>3, <1>4 DEF AskCommit, Asks
  <1>6. ASSUME NEW w \in Waiter
        PROVE  /\ Superseded(w) \in Waiter /\ Superseded(w).current = w.current
               /\ \A p \in {"files", "auto"} :
                     Superseded(w).purpose = p <=> w.purpose = p
    BY DEF Waiter, Purposes
  <1>7. ASSUME NEW e \in Event
        PROVE  /\ Superseded(e) \in Event
               /\ Superseded(e).current = e.current
               /\ Superseded(e).coalesced = e.coalesced
               /\ Superseded(e).state = e.state
               /\ Superseded(e).snapshot = e.snapshot
               /\ Superseded(e).started = e.started
               /\ Superseded(e).shows = e.shows
               /\ Superseded(e).generation = e.generation
               /\ \A p \in {"files", "auto"} :
                     Superseded(e).purpose = p <=> e.purpose = p
    BY DEF Event, Purposes
  <1> HIDE DEF Superseded
  <1>8. ASSUME NEW j \in Job
        PROVE  /\ Renamed(j) \in Job
               /\ Renamed(j).stage = j.stage /\ Renamed(j).started = j.started
               /\ Renamed(j).shows = j.shows
               /\ Renamed(j).generation = j.generation
               /\ DOMAIN Renamed(j).waiters = DOMAIN j.waiters
               /\ Renamed(j).waiters # <<>> <=> j.waiters # <<>>
               /\ \A l \in DOMAIN j.waiters :
                     Renamed(j).waiters[l] = Superseded(j.waiters[l])
    <2>1. j.waiters \in Seq(Waiter) /\ DOMAIN j.waiters = 1 .. Len(j.waiters)
            /\ Len(j.waiters) \in Nat
      BY JobFields
    <2>2. PICK ws : ws = [l \in 1 .. Len(j.waiters) |-> Superseded(j.waiters[l])]
      OBVIOUS
    <2>3. \A l \in 1 .. Len(j.waiters) : Superseded(j.waiters[l]) \in Waiter
      BY <1>6, <2>1
    <2>4. /\ ws \in Seq(Waiter) /\ DOMAIN ws = 1 .. Len(j.waiters)
          /\ ws # <<>> <=> j.waiters # <<>>
      BY <2>1, <2>2, <2>3
    <2>5. Renamed(j) = [j EXCEPT !.waiters = ws]
      BY <2>1, <2>2
    <2> HIDE DEF Renamed
    <2>6. Renamed(j) \in Job /\ Renamed(j).waiters = ws
            /\ Renamed(j).stage = j.stage /\ Renamed(j).started = j.started
            /\ Renamed(j).shows = j.shows /\ Renamed(j).generation = j.generation
      BY <2>4, <2>5 DEF Job
    <2> QED
      BY <2>1, <2>2, <2>4, <2>6
  <1> HIDE DEF Renamed
  <1>9. /\ J \in Seq(Job) /\ DOMAIN J = DOMAIN jobs
        /\ \A k \in DOMAIN jobs : jobs[k] \in Job /\ J[k] = Renamed(jobs[k])
        /\ J # <<>> <=> jobs # <<>>
        /\ DOMAIN jobs = 1 .. Len(jobs) /\ Len(jobs) \in Nat
    <2>1. /\ DOMAIN jobs = 1 .. Len(jobs) /\ Len(jobs) \in Nat
          /\ \A k \in DOMAIN jobs : jobs[k] \in Job
      BY <1>1
    <2>2. \A k \in 1 .. Len(jobs) : Renamed(jobs[k]) \in Job
      BY <1>8, <2>1
    <2>3. J = [k \in 1 .. Len(jobs) |-> Renamed(jobs[k])]
      BY <1>2, <2>1
    <2> QED
      BY <2>1, <2>2, <2>3, <1>1
  <1>10. \A p \in {"files", "auto"} : \A k, l :
            Has(J, p, k, l) <=> Has(jobs, p, k, l)
    <2>1. ASSUME NEW k \in DOMAIN jobs, NEW l \in DOMAIN jobs[k].waiters
          PROVE  \A p \in {"files", "auto"} :
                    J[k].waiters[l].purpose = p <=> jobs[k].waiters[l].purpose = p
      <3>1. jobs[k].waiters[l] \in Waiter
        BY <1>1, JobAt
      <3> QED
        BY <1>6, <1>8, <1>9, <3>1
    <2>2. \A k \in DOMAIN jobs : DOMAIN J[k].waiters = DOMAIN jobs[k].waiters
      BY <1>8, <1>9
    <2> QED
      BY <1>9, <2>1, <2>2 DEF Has
  <1>11. \A k \in DOMAIN jobs : /\ J[k].stage = jobs[k].stage
                                /\ J[k].started = jobs[k].started
                                /\ J[k].shows = jobs[k].shows
                                /\ J[k].generation = jobs[k].generation
    BY <1>8, <1>9
  <1>12. Founded(J)
    <2> SUFFICES ASSUME NEW k \in DOMAIN J
                 PROVE  J[k].waiters # <<>> /\ J[k].waiters[1].current
      BY DEF Founded
    <2>1. jobs[k].waiters # <<>> /\ jobs[k].waiters[1].current
      BY <1>9 DEF OwnAnswers, Founded
    <2>2. /\ 1 \in DOMAIN jobs[k].waiters /\ jobs[k].waiters[1] \in Waiter
      BY <1>1, <1>9, <2>1, JobAt
    <2> QED
      BY <1>6, <1>8, <1>9, <2>1, <2>2
  <1>13. Sound(J)
    <2>1. Sound(jobs)
      BY SoundNow
    <2>2. J # <<>> => 1 \in DOMAIN jobs
      BY <1>9
    <2> QED
      BY <1>9, <1>11, <1>12, <2>1, <2>2 DEF Sound
  <1>14. Grown(J, J2, {"commit"})
    BY <1>3, <1>9, SubmittedGrows DEF Purposes
  <1>15. Sound(J2)
    BY <1>13, <1>14, SoundGrown
  <1>16. \A p \in {"files", "auto"} : \A k, l :
            Has(J2, p, k, l) <=> Has(jobs, p, k, l)
    <2>1. "files" \notin {"commit"} /\ "auto" \notin {"commit"}
      OBVIOUS
    <2> QED
      BY <1>9, <1>10, <1>14, <2>1, HasGrown
  <1>17. \A k, l : Has(J2, "files", k, l) =>
            J2[k].stage = jobs[k].stage /\ J2[k].shows = jobs[k].shows
    <2>1. \A k \in DOMAIN J : J2[k].stage = J[k].stage /\ J2[k].shows = J[k].shows
      BY <1>14 DEF Grown
    <2> QED
      BY <1>9, <1>11, <1>16, <2>1 DEF Has
  <1>18. /\ E2 \in Seq(Event) /\ DOMAIN E2 = DOMAIN events
         /\ \A k \in DOMAIN events :
               /\ E2[k].current = events[k].current
               /\ E2[k].coalesced = events[k].coalesced
               /\ E2[k].state = events[k].state
               /\ E2[k].snapshot = events[k].snapshot
               /\ E2[k].started = events[k].started
               /\ E2[k].shows = events[k].shows
               /\ E2[k].generation = events[k].generation
               /\ \A p \in {"files", "auto"} :
                     E2[k].purpose = p <=> events[k].purpose = p
    <2>1. /\ DOMAIN events = 1 .. Len(events) /\ Len(events) \in Nat
          /\ \A k \in DOMAIN events : events[k] \in Event
      BY <1>1
    <2>2. \A k \in 1 .. Len(events) : Superseded(events[k]) \in Event
      BY <1>7, <2>1
    <2>3. E2 = [k \in 1 .. Len(events) |-> Superseded(events[k])]
      BY <1>4, <2>1
    <2>4. E2 \in Seq(Event)
      BY <2>1, <2>2, <2>3
    <2> QED
      BY <1>4, <1>7, <2>1, <2>4
  <1>19. \A p \in {"files", "auto"} : \A k : Came(E2, p, k) <=> Came(events, p, k)
    BY <1>18 DEF Came
  <1>20. TypeOK'
    <2>1. asks' \in 0 .. MaxAsks
      BY <1>1, <1>5, RefreshConstants DEF TypeOK
    <2> QED
      BY <1>5, <1>15, <1>18, <2>1 DEF TypeOK, Sound, appVars, hostVars
  <1>21. Clocks'
    BY <1>5, <1>15, <1>18 DEF Clocks, Sound, appVars, hostVars
  <1>22. SnapshotsInOrder'
    <2>1. J2 # <<>> /\ J2[1].stage # "queued" =>
             /\ J2[1].generation = bumped
             /\ shown <= J2[1].shows /\ J2[1].shows <= disk
             /\ \A k \in DOMAIN events : events[k].snapshot =>
                   events[k].shows <= J2[1].shows
      BY <1>15 DEF SnapshotsInOrder, Sound
    <2> QED
      BY <1>5, <1>18, <2>1 DEF SnapshotsInOrder, appVars, hostVars
  <1>23. OwnAnswers'
    <2>1. Founded(J2)
      BY <1>15 DEF Sound
    <2> QED
      BY <1>5, <1>18, <2>1 DEF OwnAnswers, Founded
  <1>24. FlagsTrue'
    <2>1. /\ FlyingOf(J2, E2, "files", fsRequest)
          /\ FlyingOf(J2, E2, "auto", pending)
      BY <1>16, <1>19, FlyingSame DEF FlagsTrue
    <2> QED
      BY <1>5, <2>1, FlagsNext DEF appVars, hostVars
  <1>25. ChangeComing'
    <2>1. Promised => Promised'
      <3> SUFFICES ASSUME Promised PROVE Promised'
        OBVIOUS
      <3>1. \A k, l : Has(J2, "files", k, l) /\ J2[k].stage = "reading"
                         => written <= J2[k].shows
        BY <1>16, <1>17, PromisedNow
      <3>2. \A k : Came(E2, "files", k) /\ E2[k].state = "completed"
                      /\ E2[k].snapshot => written <= E2[k].shows
        BY <1>18, <1>19, PromisedNow DEF Came
      <3> QED
        BY <1>5, <3>1, <3>2, PromisedNext
    <2> QED
      BY <1>5, <2>1 DEF ChangeComing, FilesystemChangeKept, appVars
  <1> QED
    BY <1>20, <1>21, <1>22, <1>23, <1>24, <1>25

\* The timer: a retry of what is pending, and a refresh when it is due.
LEMMA RefreshIfDueInv ==
    ASSUME IndInv, NEW full \in BOOLEAN, NEW due \in BOOLEAN,
           RefreshIfDue(full, due)
    PROVE  IndInv'
  <1> USE DEF IndInv
  <1>0. PICK may \in BOOLEAN, after \in BOOLEAN :
           /\ may <=> MayRetry(fsPending, fsRequest, full)
           /\ after <=> fsRequest \/ may
    OBVIOUS
  <1>1. /\ jobs \in Seq(Job) /\ {pending, stale, fsPending, fsRequest} \subseteq BOOLEAN
        /\ TypeOK /\ Sound(jobs)
    BY Typed, SoundNow
  <1>2. PICK J : J = Retried(fsPending, fsRequest, jobs, full)
    OBVIOUS
  <1>3. PICK J2 : J2 = IF due THEN Submitted(J, "refresh", "auto") ELSE J
    OBVIOUS
  <1>4. /\ jobs' = J2 /\ events' = events /\ pending' = (pending \/ due)
        /\ due => ~pending
        /\ stale' = (stale \/ fsPending \/ fsRequest)
        /\ fsPending' = (fsPending /\ ~may) /\ fsRequest' = after
        /\ UNCHANGED <<worldVars, shown, generation, observed, last, bumped>>
    BY <1>0, <1>1, <1>2, <1>3 DEF RefreshIfDue, RetryPending
  <1>5. /\ Grown(jobs, J, {"files"})
        /\ FlyingOf(J, events, "files", after)
        /\ ~may => J = jobs
        /\ may => /\ \A k, l : Has(J, "files", k, l) => J[k].stage = "queued"
                  /\ \A k : ~Came(events, "files", k)
    <2>1. FlyingOf(jobs, events, "files", fsRequest)
      BY DEF FlagsTrue
    <2> HIDE DEF IndInv
    <2>2. /\ Grown(jobs, J, {"files"})
          /\ may => /\ FlyingOf(J, events, "files", TRUE)
                    /\ \A k, l : Has(J, "files", k, l) => J[k].stage = "queued"
                    /\ \A k : ~Came(events, "files", k)
          /\ ~may => FlyingOf(J, events, "files", fsRequest)
      BY <1>0, <1>1, <1>2, <2>1, RetriedFlies
    <2>3. FlyingOf(J, events, "files", after)
      BY <1>0, <2>2, FlyingUnbounded
    <2>4. ~may => J = jobs
      BY <1>0, <1>2 DEF Retried
    <2> QED
      BY <2>2, <2>3, <2>4
  <1>6. J \in Seq(Job) /\ Sound(J) /\ FlyingOf(J, events, "auto", pending)
    <2>1. "auto" \notin {"files"}
      OBVIOUS
    <2> QED
      BY <1>1, <1>5, <2>1, SoundGrown, OthersFly DEF Grown, FlagsTrue
  <1>7. /\ Grown(J, J2, {"auto"})
        /\ FlyingOf(J2, events, "auto", pending \/ due)
    <2>1. CASE ~due
      <3>1. J2 = J /\ (pending \/ due) = pending
        BY <1>1, <1>3, <2>1
      <3> QED
        BY <1>6, <3>1, GrownNot, GrownMore
    <2>2. CASE due
      <3>1. J2 = Submitted(J, "refresh", "auto") /\ ~pending
        BY <1>3, <1>4, <2>2
      <3>2. Grown(J, J2, {"auto"})
        BY <1>6, <3>1, SubmittedGrows DEF Purposes
      <3>3. PICK k \in Nat, l \in Nat : Added(J, J2, "auto", k, l)
        BY <1>6, <3>1, SubmittedGrows DEF Purposes
      <3>4. FlyingOf(J, events, "auto", FALSE)
        BY <1>1, <1>6, <3>1
      <3>5. FlyingOf(J2, events, "auto", TRUE)
        BY <1>6, <3>2, <3>3, <3>4, FlyingAdded
      <3>6. (pending \/ due) = TRUE
        BY <2>2
      <3> QED
        BY <3>2, <3>5, <3>6
    <2> QED
      BY <2>1, <2>2
  <1>8. "files" \notin {"auto"}
    OBVIOUS
  <1>9. Sound(J2) /\ FlyingOf(J2, events, "files", after)
    BY <1>5, <1>6, <1>7, <1>8, SoundGrown, OthersFly
  <1>10. Clocks' /\ SnapshotsInOrder' /\ OwnAnswers'
    <2>1. /\ UNCHANGED <<events, shown, generation, bumped, made, seen>>
          /\ disk' \in {disk, disk + 1} /\ written' \in {written, disk'}
      BY <1>4 DEF worldVars
    <2> QED
      BY <1>4, <1>9, <2>1, QuietStep
  <1>11. TypeOK'
    <2>1. {pending', stale', fsPending', fsRequest'} \subseteq BOOLEAN
      BY <1>4
    <2>2. jobs' \in Seq(Job)
            /\ \A k \in DOMAIN jobs' : k > 1 => jobs'[k].stage = "queued"
      BY <1>4, <1>9 DEF Sound
    <2> QED
      BY <1>1, <1>4, <2>1, <2>2 DEF TypeOK, worldVars
  <1>12. FlagsTrue'
    BY <1>4, <1>7, <1>9, FlagsNext
  <1>13. ChangeComing'
    <2>1. FilesystemChangeKept'
      BY <1>0, <1>1, <1>4 DEF FilesystemChangeKept, ChangeComing, worldVars
    <2>2. ASSUME written > shown, ~fsPending' PROVE Promised'
      <3>1. \A k, l : Has(J, "files", k, l) /\ J[k].stage = "reading"
                         => written <= J[k].shows
        <4>1. CASE may
          BY <1>5, <4>1
        <4>2. CASE ~may
          <5>1. Promised /\ J = jobs
            BY <1>4, <1>5, <2>2, <4>2 DEF ChangeComing
          <5> QED
            BY <5>1, PromisedNow
        <4> QED
          BY <4>1, <4>2
      <3>2. \A k, l : Has(J2, "files", k, l) /\ J2[k].stage = "reading"
                         => written <= J2[k].shows
        BY <1>6, <1>7, <1>8, <3>1, PromisedGrown
      <3>3. \A k : Came(events, "files", k) /\ events[k].state = "completed"
                      /\ events[k].snapshot => written <= events[k].shows
        <4>1. CASE may
          BY <1>5, <4>1
        <4>2. CASE ~may
          <5>1. Promised
            BY <1>4, <2>2, <4>2 DEF ChangeComing
          <5> QED
            BY <5>1, PromisedNow
        <4> QED
          BY <4>1, <4>2
      <3>4. written' = written
        BY <1>4 DEF worldVars
      <3> QED
        BY <1>4, <3>2, <3>3, <3>4, PromisedNext
    <2>3. written' = written /\ shown' = shown
      BY <1>4 DEF worldVars
    <2> QED
      BY <2>1, <2>2, <2>3 DEF ChangeComing
  <1> QED
    BY <1>10, <1>11, <1>12, <1>13

\* A file operation: the change is newer than anything shown, and pending
\* unless its own reconciliation was submitted.
LEMMA EditorWritesInv ==
    ASSUME IndInv, NEW full \in BOOLEAN, EditorWrites(full)
    PROVE  IndInv'
  <1> USE DEF IndInv
  <1>0. PICK may \in BOOLEAN, after \in BOOLEAN :
           /\ may <=> MayRetry(TRUE, fsRequest, full)
           /\ after <=> fsRequest \/ may
    OBVIOUS
  <1>1. /\ jobs \in Seq(Job) /\ {pending, stale, fsPending, fsRequest} \subseteq BOOLEAN
        /\ {disk, written, shown} \subseteq Nat
        /\ TypeOK /\ Sound(jobs)
    BY Typed, SoundNow
  <1>2. PICK J : J = Retried(TRUE, fsRequest, jobs, full)
    OBVIOUS
  <1>3. /\ jobs' = J /\ events' = events
        /\ disk < MaxChanges /\ disk' = disk + 1 /\ written' = disk + 1
        /\ stale' = TRUE /\ fsPending' = ~may /\ fsRequest' = after
        /\ UNCHANGED <<made, seen, asks, failures, shown, generation,
                       hostVars, bumped>>
    BY <1>0, <1>1, <1>2 DEF EditorWrites, RetryPending
  <1>4. /\ Grown(jobs, J, {"files"})
        /\ FlyingOf(J, events, "files", after)
        /\ may => /\ \A k, l : Has(J, "files", k, l) => J[k].stage = "queued"
                  /\ \A k : ~Came(events, "files", k)
    <2>1. FlyingOf(jobs, events, "files", fsRequest)
      BY DEF FlagsTrue
    <2> HIDE DEF IndInv
    <2>2. /\ Grown(jobs, J, {"files"})
          /\ may => /\ FlyingOf(J, events, "files", TRUE)
                    /\ \A k, l : Has(J, "files", k, l) => J[k].stage = "queued"
                    /\ \A k : ~Came(events, "files", k)
          /\ ~may => FlyingOf(J, events, "files", fsRequest)
      BY <1>0, <1>1, <1>2, <2>1, RetriedFlies
    <2>3. FlyingOf(J, events, "files", after)
      BY <1>0, <2>2, FlyingUnbounded
    <2> QED
      BY <2>2, <2>3
  <1>5. Sound(J) /\ FlyingOf(J, events, "auto", pending)
    <2>1. "auto" \notin {"files"}
      OBVIOUS
    <2> QED
      BY <1>1, <1>4, <2>1, SoundGrown, OthersFly DEF FlagsTrue
  <1>6. Clocks' /\ SnapshotsInOrder' /\ OwnAnswers'
    <2>1. /\ UNCHANGED <<events, shown, generation, bumped, made, seen>>
          /\ disk' \in {disk, disk + 1} /\ written' \in {written, disk'}
      BY <1>3
    <2> QED
      BY <1>3, <1>5, <2>1, QuietStep
  <1>7. TypeOK'
    <2>1. {pending', stale', fsPending', fsRequest'} \subseteq BOOLEAN
      BY <1>1, <1>3 DEF hostVars
    <2>2. jobs' \in Seq(Job)
            /\ \A k \in DOMAIN jobs' : k > 1 => jobs'[k].stage = "queued"
      BY <1>3, <1>5 DEF Sound
    <2>3. disk' \in Version /\ written' \in Version
      BY <1>1, <1>3, RefreshConstants DEF Version
    <2> QED
      BY <1>1, <1>3, <2>1, <2>2, <2>3 DEF TypeOK, hostVars
  <1>8. FlagsTrue'
    BY <1>3, <1>4, <1>5, FlagsNext DEF hostVars
  <1>9. ChangeComing'
    <2>1. FilesystemChangeKept'
      BY <1>0, <1>3 DEF FilesystemChangeKept
    <2>2. ASSUME ~fsPending' PROVE Promised'
      <3>1. may
        BY <1>3, <2>2
      <3> QED
        BY <1>3, <1>4, <3>1, PromisedNext
    <2> QED
      BY <2>1, <2>2 DEF ChangeComing
  <1> QED
    BY <1>6, <1>7, <1>8, <1>9

\* Changes outside, and the observations of them.
LEMMA WorldInv ==
    ASSUME IndInv, OthersChange \/ MonitorObserves \/ HostObserves
    PROVE  IndInv'
  <1> USE DEF IndInv, worldVars, appVars, hostVars, serviceVars
  <1>1. /\ {disk, written, made, seen, observed, last, shown} \subseteq Nat
        /\ {stale, fsPending, fsRequest} \subseteq BOOLEAN
        /\ jobs \in Seq(Job) /\ events \in Seq(Event)
        /\ \A k \in DOMAIN events : events[k].shows \in Nat
                                    /\ events[k].started \in Nat
        /\ \A k \in DOMAIN jobs : jobs[k].shows \in Nat /\ jobs[k].started \in Nat
        /\ jobs # <<>> => 1 \in DOMAIN jobs
    BY Typed
  <1>2. /\ UNCHANGED <<jobs, events, written, shown, generation, fsPending,
                       fsRequest, bumped, pending, last, asks, failures>>
        /\ \/ disk < MaxChanges /\ disk' = disk + 1
              /\ UNCHANGED <<made, seen, observed, stale>>
           \/ disk > seen /\ made' = made + 1 /\ seen' = disk
              /\ UNCHANGED <<disk, observed, stale>>
           \/ observed < made /\ observed' = observed + 1
              /\ stale' = (stale \/ observed' > last)
              /\ UNCHANGED <<disk, made, seen>>
    BY DEF OthersChange, MonitorObserves, HostObserves
  <1>3. disk' \in Nat /\ disk <= disk' /\ made' \in Nat /\ made <= made'
          /\ seen' \in Nat
    BY <1>1, <1>2
  <1>4. Clocks'
    <2>1. made' <= seen' /\ seen' <= disk'
      BY <1>1, <1>2 DEF Clocks
    <2>2. /\ \A k \in DOMAIN jobs : jobs[k].started <= made
          /\ \A k \in DOMAIN events : events[k].started <= made
      BY DEF Clocks
    <2>3. made \in Nat /\ made' \in Nat /\ made <= made'
      BY <1>1, <1>3
    <2>4. /\ \A k \in DOMAIN jobs : jobs[k].started <= made'
          /\ \A k \in DOMAIN events : events[k].started <= made'
      BY <1>1, <2>2, <2>3
    <2> QED
      BY <1>1, <1>2, <1>3, <2>1, <2>4 DEF Clocks
  <1>5. TypeOK'
    <2>1. disk' \in Version /\ seen' \in Version
      BY <1>1, <1>2, RefreshConstants, SMTT(60) DEF Version, TypeOK
    <2>2. made' \in 0 .. MaxChanges
      BY <1>3, <1>4, <2>1, RefreshConstants DEF Clocks, Version
    <2>3. observed' \in 0 .. made' /\ last' \in 0 .. made' /\ stale' \in BOOLEAN
      <3>1. observed <= made /\ last <= made
        BY <1>1 DEF TypeOK
      <3>2. observed' \in Nat /\ observed' <= made'
        BY <1>1, <1>2, <1>3, <3>1
      <3>3. stale' \in BOOLEAN
        BY <1>1, <1>2
      <3> QED
        BY <1>1, <1>2, <1>3, <3>1, <3>2, <3>3
    <2> QED
      BY <1>2, <2>1, <2>2, <2>3 DEF TypeOK
  <1>6. SnapshotsInOrder'
    BY <1>1, <1>2, <1>3, SMTT(60) DEF SnapshotsInOrder
  <1>7. OwnAnswers'
    BY <1>2 DEF OwnAnswers, Founded
  <1>8. FlagsTrue'
    BY <1>2, FlagsNext DEF FlagsTrue
  <1>9. ChangeComing'
    <2>1. Promised => Promised'
      BY <1>2, PromisedNow, PromisedNext
    <2>2. stale => stale'
      BY <1>1, <1>2
    <2> QED
      BY <1>2, <2>1, <2>2 DEF ChangeComing, FilesystemChangeKept
  <1> QED
    BY <1>4, <1>5, <1>6, <1>7, <1>8, <1>9

-----------------------------------------------------------------------------
(* Steps of the service. *)

\* The first job goes on with the requests it has.
LEMMA FirstMoves ==
    ASSUME TypeOK, jobs # <<>>, NEW j \in Job, j.waiters = jobs[1].waiters,
           NEW J2, J2 = [jobs EXCEPT ![1] = j]
    PROVE  /\ J2 \in Seq(Job) /\ J2 # <<>> /\ DOMAIN J2 = DOMAIN jobs
           /\ 1 \in DOMAIN jobs /\ J2[1] = j
           /\ \A k \in DOMAIN jobs : k # 1 => J2[k] = jobs[k]
           /\ \A p, k, l : Has(J2, p, k, l) <=> Has(jobs, p, k, l)
           /\ Founded(jobs) => Founded(J2)
  <1>1. jobs \in Seq(Job) /\ 1 \in DOMAIN jobs
    BY Typed
  <1>2. /\ J2 \in Seq(Job) /\ J2 # <<>> /\ DOMAIN J2 = DOMAIN jobs
        /\ J2[1] = j /\ \A k \in DOMAIN jobs : k # 1 => J2[k] = jobs[k]
    BY <1>1
  <1>3. \A k \in DOMAIN jobs : J2[k].waiters = jobs[k].waiters
    BY <1>2
  <1> QED
    BY <1>1, <1>2, <1>3 DEF Has, Founded

\* A job that begins or goes on reading shows the repository as it is.
LEMMA ReadsNow ==
    ASSUME IndInv, jobs # <<>>, NEW j \in Job, j.waiters = jobs[1].waiters,
           NEW J2, J2 = [jobs EXCEPT ![1] = j], jobs' = J2,
           j.started = made, j.shows = disk', j.generation = bumped',
           disk' \in {disk, disk + 1}, bumped' \in {bumped, bumped + 1},
           disk' \in Version,
           UNCHANGED <<written, made, seen, asks, failures, appVars, hostVars,
                       events>>
    PROVE  IndInv'
  <1> USE DEF IndInv, appVars, hostVars
  <1>1. /\ {disk, written, made, seen, shown, generation, bumped} \subseteq Nat
        /\ \A k \in DOMAIN events : events[k].shows \in Nat
                                    /\ events[k].generation \in Nat
        /\ jobs \in Seq(Job)
    BY Typed
  <1>2. /\ J2 \in Seq(Job) /\ J2 # <<>> /\ DOMAIN J2 = DOMAIN jobs
        /\ 1 \in DOMAIN jobs /\ J2[1] = j
        /\ \A k \in DOMAIN jobs : k # 1 => J2[k] = jobs[k]
        /\ \A p, k, l : Has(J2, p, k, l) <=> Has(jobs, p, k, l)
        /\ Founded(J2)
    BY FirstMoves DEF OwnAnswers
  <1>3. TypeOK'
    <2>1. \A k \in DOMAIN J2 : k > 1 => J2[k].stage = "queued"
      BY <1>1, <1>2 DEF TypeOK
    <2>2. bumped' \in Nat
      BY <1>1
    <2> QED
      BY <1>2, <2>1, <2>2 DEF TypeOK
  <1>4. Clocks'
    <2>1. \A k \in DOMAIN J2 : J2[k].started <= made
      BY <1>1, <1>2 DEF Clocks
    <2>2. seen <= disk' /\ written <= disk' /\ shown <= disk'
            /\ generation <= bumped'
      BY <1>1 DEF Clocks
    <2> QED
      BY <2>1, <2>2 DEF Clocks
  <1>5. SnapshotsInOrder'
    <2>1. shown <= disk' /\ disk' <= disk'
      BY <1>1 DEF Clocks
    <2>2. \A k \in DOMAIN events : events[k].snapshot =>
             /\ shown <= events[k].shows /\ events[k].shows <= disk'
             /\ generation <= events[k].generation
             /\ events[k].generation <= bumped'
      BY <1>1 DEF SnapshotsInOrder
    <2>3. \A k, m \in DOMAIN events :
             k < m /\ events[k].snapshot /\ events[m].snapshot =>
                /\ events[k].shows <= events[m].shows
                /\ events[k].generation <= events[m].generation
      BY DEF SnapshotsInOrder
    <2> QED
      BY <1>2, <2>1, <2>2, <2>3 DEF SnapshotsInOrder
  <1>6. OwnAnswers'
    BY <1>2 DEF OwnAnswers, Founded
  <1>7. FlagsTrue'
    <2>1. /\ FlyingOf(J2, events, "files", fsRequest)
          /\ FlyingOf(J2, events, "auto", pending)
      BY <1>2, FlyingSame DEF FlagsTrue
    <2> QED
      BY <2>1, FlagsNext
  <1>8. ChangeComing'
    <2>1. Promised => Promised'
      <3> SUFFICES ASSUME Promised PROVE Promised'
        OBVIOUS
      <3>1. \A k, l : Has(J2, "files", k, l) /\ J2[k].stage = "reading"
                         => written <= J2[k].shows
        <4> SUFFICES ASSUME NEW k, NEW l, Has(J2, "files", k, l),
                            J2[k].stage = "reading"
                     PROVE  written <= J2[k].shows
          OBVIOUS
        <4>1. CASE k = 1
          BY <1>1, <1>2, <4>1 DEF Clocks
        <4>2. CASE k # 1
          <5>1. Has(jobs, "files", k, l) /\ J2[k] = jobs[k]
            BY <1>2, <4>2 DEF Has
          <5> QED
            BY <5>1, PromisedNow
        <4> QED
          BY <4>1, <4>2
      <3> QED
        BY <3>1, PromisedNow, PromisedNext
    <2> QED
      BY <2>1 DEF ChangeComing, FilesystemChangeKept
  <1> QED
    BY <1>3, <1>4, <1>5, <1>6, <1>7, <1>8

\* A job begins, or its Git command has run: what it reads is the newest.
LEMMA ServiceMovesInv ==
    ASSUME IndInv, ServiceStarts \/ \E c \in BOOLEAN : ServiceMutates(c)
    PROVE  IndInv'
  <1> USE DEF IndInv
  <1>1. /\ {disk, made, bumped} \subseteq Nat /\ TypeOK
        /\ jobs # <<>> => 1 \in DOMAIN jobs /\ jobs[1] \in Job
    BY Typed
  <1>2. CASE ServiceStarts
    <2> DEFINE begun == IF jobs[1].kind = "mutate" THEN bumped + 1 ELSE bumped
    <2> DEFINE stage == IF jobs[1].kind = "mutate" THEN "mutating" ELSE "reading"
    <2>1. PICK j : j = [jobs[1] EXCEPT !.stage = stage, !.started = made,
                                       !.shows = disk, !.generation = begun]
      OBVIOUS
    <2>2. PICK J2 : J2 = [jobs EXCEPT ![1] = j]
      OBVIOUS
    <2>3. jobs # <<>> /\ bumped' = begun /\ jobs' = J2
            /\ UNCHANGED <<worldVars, appVars, hostVars, events>>
      BY <1>2, <2>1, <2>2 DEF ServiceStarts
    <2>4. begun \in {bumped, bumped + 1} /\ begun \in Nat
            /\ stage \in {"mutating", "reading"}
      BY <1>1
    <2> HIDE DEF begun, stage
    <2>5. disk \in Version
      BY <1>1 DEF TypeOK
    <2>6. /\ j \in Job /\ j.waiters = jobs[1].waiters /\ j.started = made
          /\ j.shows = disk /\ j.generation = begun
      BY <1>1, <2>1, <2>3, <2>4, <2>5 DEF Job
    <2>7. /\ j.shows = disk' /\ disk' \in {disk, disk + 1} /\ disk' \in Version
          /\ j.generation = bumped' /\ bumped' \in {bumped, bumped + 1}
          /\ UNCHANGED <<written, made, seen, asks, failures, appVars, hostVars,
                         events>>
      BY <2>3, <2>4, <2>5, <2>6 DEF worldVars
    <2> HIDE DEF IndInv
    <2> QED
      BY <2>2, <2>3, <2>6, <2>7, ReadsNow
  <1>3. ASSUME NEW c \in BOOLEAN, ServiceMutates(c) PROVE IndInv'
    <2>1. PICK now : now = IF c THEN disk + 1 ELSE disk
      OBVIOUS
    <2>2. PICK j : j = [jobs[1] EXCEPT !.stage = "reading", !.started = made,
                                       !.shows = now]
      OBVIOUS
    <2>3. PICK J2 : J2 = [jobs EXCEPT ![1] = j]
      OBVIOUS
    <2>4. /\ jobs # <<>> /\ jobs[1].stage = "mutating"
          /\ c => disk < MaxChanges
          /\ disk' = now
          /\ UNCHANGED <<written, made, seen, asks, failures, appVars, hostVars,
                         bumped, events>>
      BY <1>3, <2>1 DEF ServiceMutates
    <2>5. jobs' = J2
      BY <1>3, <2>1, <2>2, <2>3 DEF ServiceMutates
    <2>6. now \in {disk, disk + 1} /\ now \in Version
      BY <1>1, <2>1, <2>4, RefreshConstants DEF TypeOK, Version
    <2>7. /\ j \in Job /\ j.waiters = jobs[1].waiters /\ j.started = made
          /\ j.shows = now /\ j.generation = jobs[1].generation
      BY <1>1, <2>2, <2>4, <2>6 DEF Job
    <2>8. jobs[1].generation = bumped
      BY <2>4 DEF SnapshotsInOrder
    <2>9. /\ j.shows = disk' /\ disk' \in {disk, disk + 1} /\ disk' \in Version
          /\ j.generation = bumped' /\ bumped' \in {bumped, bumped + 1}
      BY <2>4, <2>6, <2>7, <2>8
    <2> HIDE DEF IndInv
    <2> QED
      BY <2>3, <2>4, <2>5, <2>7, <2>9, ReadsNow
  <1> QED
    BY <1>2, <1>3

\* A completion of E \o D is one of E, or comes after them and is one of D.
LEMMA Behind ==
    ASSUME NEW E \in Seq(Event), NEW D \in Seq(Event)
    PROVE  /\ E \o D \in Seq(Event)
           /\ \A k \in DOMAIN (E \o D) :
                 \/ k \in DOMAIN E /\ (E \o D)[k] = E[k]
                 \/ /\ k \in Nat /\ k > Len(E)
                    /\ \E l \in DOMAIN D : (E \o D)[k] = D[l]
           /\ DOMAIN E = 1 .. Len(E) /\ Len(E) \in Nat
  <1>1. /\ E \o D \in Seq(Event) /\ Len(E \o D) = Len(E) + Len(D)
        /\ \A k \in 1 .. Len(E) + Len(D) :
              (E \o D)[k] = IF k <= Len(E) THEN E[k] ELSE D[k - Len(E)]
    BY ConcatProperties
  <1>2. /\ Len(E) \in Nat /\ Len(D) \in Nat
        /\ DOMAIN E = 1 .. Len(E) /\ DOMAIN D = 1 .. Len(D)
        /\ DOMAIN (E \o D) = 1 .. Len(E) + Len(D)
    BY <1>1
  <1>3. ASSUME NEW k \in DOMAIN (E \o D)
        PROVE  \/ k \in DOMAIN E /\ (E \o D)[k] = E[k]
               \/ /\ k \in Nat /\ k > Len(E)
                  /\ \E l \in DOMAIN D : (E \o D)[k] = D[l]
    <2>1. CASE k <= Len(E)
      BY <1>1, <1>2, <2>1
    <2>2. CASE ~(k <= Len(E))
      <3>1. k - Len(E) \in DOMAIN D /\ (E \o D)[k] = D[k - Len(E)]
        BY <1>1, <1>2, <2>2
      <3> QED
        BY <1>2, <2>2, <3>1
    <2> QED
      BY <2>1, <2>2
  <1> QED
    BY <1>1, <1>2, <1>3

\* A job ends: its snapshot is the newest there is, and what was promised of its
\* reconciliation is promised of the completion.
LEMMA ServiceEndsInv ==
    ASSUME IndInv, NEW good \in BOOLEAN, NEW cancelled \in SUBSET FirstWaiters,
           ServiceEnds(good, cancelled)
    PROVE  IndInv'
  <1> USE DEF IndInv
  <1> DEFINE job == jobs[1]
  <1> DEFINE mutates == job.kind = "mutate" /\ job.stage = "reading"
  <1> DEFINE State(k) == IF k \in cancelled
                         THEN IF mutates THEN "uncertain" ELSE "cancelled"
                         ELSE IF good \/ mutates THEN "completed" ELSE "failed"
  <1> DEFINE Ended(k) ==
        [purpose |-> job.waiters[k].purpose,
         current |-> job.waiters[k].current,
         coalesced |-> k > 1, state |-> State(k),
         snapshot |-> good /\ State(k) # "cancelled",
         started |-> job.started, shows |-> job.shows,
         generation |-> job.generation]
  <1>1. /\ {disk, written, made, seen, shown, generation, bumped, failures}
              \subseteq Nat
        /\ \A k \in DOMAIN events : /\ events[k].shows \in Nat
                                    /\ events[k].generation \in Nat
                                    /\ events[k].started \in Nat
        /\ jobs \in Seq(Job) /\ events \in Seq(Event) /\ Version \subseteq Nat
        /\ Sound(jobs)
    BY Typed, SoundNow
  <1>2. PICK D : D = [k \in DOMAIN job.waiters |-> Ended(k)]
    OBVIOUS
  <1>3. PICK J2 : J2 = Tail(jobs)
    OBVIOUS
  <1>4. /\ jobs # <<>>
        /\ \/ job.stage = "reading"
           \/ job.stage = "queued" /\ cancelled = FirstWaiters
        /\ (~good \/ cancelled # {}) => failures < MaxFailures
        /\ failures' = IF good /\ cancelled = {} THEN failures ELSE failures + 1
        /\ events' = events \o D /\ jobs' = J2
        /\ UNCHANGED <<disk, written, made, seen, asks, appVars, hostVars, bumped>>
    BY <1>2, <1>3 DEF ServiceEnds
  <1>5. /\ 1 \in DOMAIN jobs /\ job \in Job /\ job.waiters \in Seq(Waiter)
        /\ job.started \in Nat /\ job.started <= made
        /\ job.shows \in Version /\ job.shows \in Nat /\ job.generation \in Nat
        /\ job.waiters # <<>> /\ job.waiters[1].current
        /\ FirstWaiters = DOMAIN job.waiters
    <2>1. 1 \in DOMAIN jobs
      BY <1>1, <1>4
    <2>2. job \in Job
      BY <1>1, <2>1
    <2> QED
      BY <1>1, <1>4, <2>1, <2>2, JobFields DEF Sound, Founded, FirstWaiters
  <1>6. /\ job.stage # "queued" => job.stage = "reading"
        /\ job.stage = "reading" =>
             /\ job.generation = bumped
             /\ shown <= job.shows /\ job.shows <= disk
             /\ \A k \in DOMAIN events : events[k].snapshot =>
                   events[k].shows <= job.shows
    BY <1>4 DEF SnapshotsInOrder
  <1>7. ASSUME NEW k \in DOMAIN job.waiters
        PROVE  /\ Ended(k) \in Event
               /\ Ended(k).purpose = job.waiters[k].purpose
               /\ Ended(k).started = job.started /\ Ended(k).shows = job.shows
               /\ Ended(k).generation = job.generation
               /\ Ended(k).snapshot => job.stage = "reading"
               /\ ~Ended(k).coalesced => Ended(k).current
    <2>1. job.waiters[k] \in Waiter /\ k \in Nat \ {0}
      BY <1>5
    <2>2. State(k) \in {"completed", "failed", "cancelled", "uncertain"}
      OBVIOUS
    <2>3. (good /\ State(k) # "cancelled") => job.stage = "reading"
      BY <1>4, <1>5
    <2>4. ~(k > 1) => k = 1
      BY <2>1
    <2> HIDE DEF State
    <2>5. Ended(k) \in Event
      BY <1>5, <2>1, <2>2 DEF Event, Waiter
    <2> QED
      BY <1>5, <2>3, <2>4, <2>5
  <1>8. /\ D \in Seq(Event) /\ Len(D) = Len(job.waiters)
        /\ DOMAIN D = DOMAIN job.waiters
        /\ \A k \in DOMAIN D : D[k] = Ended(k)
    <2>1. DOMAIN job.waiters = 1 .. Len(job.waiters) /\ Len(job.waiters) \in Nat
      BY <1>5
    <2> HIDE DEF Ended
    <2> QED
      BY <1>2, <1>7, <2>1
  <1>9. \A k \in DOMAIN D :
           /\ D[k].purpose = job.waiters[k].purpose
           /\ D[k].started = job.started /\ D[k].shows = job.shows
           /\ D[k].generation = job.generation
           /\ D[k].snapshot => job.stage = "reading"
           /\ ~D[k].coalesced => D[k].current
    <2> HIDE DEF Ended
    <2> QED
      BY <1>7, <1>8
  <1> HIDE DEF Ended, State, mutates
  <1>10. /\ events \o D \in Seq(Event)
         /\ \A k \in DOMAIN (events \o D) :
               \/ k \in DOMAIN events /\ (events \o D)[k] = events[k]
               \/ /\ k \in Nat /\ k > Len(events)
                  /\ \E l \in DOMAIN D : (events \o D)[k] = D[l]
         /\ DOMAIN events = 1 .. Len(events) /\ Len(events) \in Nat
    BY <1>1, <1>8, Behind
  <1>11. PICK E2 : E2 = events \o D
    OBVIOUS
  <1>12. /\ events' = E2 /\ E2 \in Seq(Event)
         /\ \A k \in DOMAIN E2 :
               \/ k \in DOMAIN events /\ E2[k] = events[k]
               \/ /\ k \in Nat /\ k > Len(events)
                  /\ E2[k].started = job.started /\ E2[k].shows = job.shows
                  /\ E2[k].generation = job.generation
                  /\ E2[k].snapshot => job.stage = "reading"
                  /\ ~E2[k].coalesced => E2[k].current
    BY <1>4, <1>9, <1>10, <1>11
  <1>13. /\ J2 \in Seq(Job)
         /\ \A k \in DOMAIN J2 : /\ k + 1 \in DOMAIN jobs /\ J2[k] = jobs[k + 1]
                                 /\ k \in Nat \ {0}
         /\ \A k \in DOMAIN J2 : J2[k].stage = "queued" /\ J2[k].started <= made
         /\ Founded(J2)
    <2>1. /\ J2 \in Seq(Job)
          /\ \A k \in DOMAIN J2 : /\ k + 1 \in DOMAIN jobs /\ J2[k] = jobs[k + 1]
                                  /\ k \in Nat \ {0}
      BY <1>1, <1>3, <1>4, SMTT(60)
    <2>2. \A k \in DOMAIN J2 : k + 1 > 1
      BY <2>1
    <2> QED
      BY <1>1, <2>1, <2>2 DEF Sound, Founded
  <1>14. TypeOK'
    <2>1. failures' \in 0 .. MaxFailures
      BY <1>1, <1>4, RefreshConstants, SMTT(60) DEF TypeOK
    <2>2. \A k \in DOMAIN J2 : k > 1 => J2[k].stage = "queued"
      BY <1>13
    <2> QED
      BY <1>4, <1>12, <1>13, <2>1, <2>2 DEF TypeOK, appVars, hostVars
  <1>15. Clocks'
    BY <1>4, <1>5, <1>12, <1>13 DEF Clocks, appVars, hostVars
  <1>16. SnapshotsInOrder'
    <2>1. \A k \in DOMAIN E2 : E2[k].snapshot =>
             /\ shown <= E2[k].shows /\ E2[k].shows <= disk
             /\ generation <= E2[k].generation /\ E2[k].generation <= bumped
      BY <1>1, <1>6, <1>12, SMTT(60) DEF SnapshotsInOrder, Clocks
    <2>2. ASSUME NEW k \in DOMAIN E2, NEW m \in DOMAIN E2, k < m,
                 E2[k].snapshot, E2[m].snapshot
          PROVE  /\ E2[k].shows <= E2[m].shows
                 /\ E2[k].generation <= E2[m].generation
      <3>1. CASE m \in DOMAIN events /\ E2[m] = events[m]
        <4>1. k \in DOMAIN events /\ E2[k] = events[k]
          BY <1>10, <1>12, <2>2, <3>1
        <4> QED
          BY <2>2, <3>1, <4>1 DEF SnapshotsInOrder
      <3>2. CASE /\ E2[m].shows = job.shows /\ E2[m].generation = job.generation
                 /\ E2[m].snapshot => job.stage = "reading"
        <4>1. /\ E2[m].shows = job.shows /\ E2[m].generation = bumped
              /\ \A i \in DOMAIN events : events[i].snapshot =>
                   events[i].shows <= job.shows
          BY <1>6, <2>2, <3>2
        <4>2. E2[k].generation <= bumped
          BY <2>1, <2>2
        <4>3. E2[k].shows <= job.shows
          BY <1>5, <1>12, <2>2, <4>1
        <4> QED
          BY <4>1, <4>2, <4>3
      <3> QED
        BY <1>12, <3>1, <3>2
    <2>3. J2 # <<>> => J2[1].stage = "queued"
      <3>1. J2 # <<>> => 1 \in DOMAIN J2
        BY <1>13
      <3> QED
        BY <1>13, <3>1
    <2>4. jobs' = J2 /\ events' = E2
            /\ UNCHANGED <<shown, disk, generation, bumped>>
      BY <1>4, <1>12 DEF appVars
    <2> QED
      BY <2>1, <2>2, <2>3, <2>4 DEF SnapshotsInOrder
  <1>17. OwnAnswers'
    BY <1>4, <1>12, <1>13 DEF OwnAnswers, Founded
  <1>18. FlagsTrue'
    <2>1. /\ FlyingOf(jobs, events, "files", fsRequest)
          /\ FlyingOf(jobs, events, "auto", pending)
      BY DEF FlagsTrue
    <2>2. /\ FlyingOf(J2, E2, "files", fsRequest)
          /\ FlyingOf(J2, E2, "auto", pending)
      BY <1>1, <1>3, <1>4, <1>8, <1>9, <1>11, <2>1, FlyingEnds
    <2> QED
      BY <1>4, <1>12, <2>2, FlagsNext DEF appVars, hostVars
  <1>19. ChangeComing'
    <2>1. Promised => Promised'
      <3> SUFFICES ASSUME Promised PROVE Promised'
        OBVIOUS
      <3>1. \A k, l : Has(J2, "files", k, l) /\ J2[k].stage = "reading"
                         => written <= J2[k].shows
        BY <1>13 DEF Has
      <3>2. ASSUME NEW k, Came(E2, "files", k), E2[k].snapshot,
                   E2[k].state = "completed"
            PROVE  written <= E2[k].shows
        <4>1. k \in DOMAIN (events \o D)
          BY <1>11, <3>2 DEF Came
        <4>2. CASE k \in DOMAIN events /\ E2[k] = events[k]
          BY <3>2, <4>2, PromisedNow DEF Came
        <4>3. CASE \E l \in DOMAIN D : E2[k] = D[l]
          <5>1. PICK l \in DOMAIN D : E2[k] = D[l]
            BY <4>3
          <5>2. Has(jobs, "files", 1, l) /\ jobs[1].stage = "reading"
            BY <1>5, <1>8, <1>9, <3>2, <5>1 DEF Has, Came
          <5>3. written <= jobs[1].shows
            BY <5>2, PromisedNow
          <5> QED
            BY <1>9, <5>1, <5>3
        <4> QED
          BY <1>10, <1>11, <4>1, <4>2, <4>3
      <3>3. written' = written /\ jobs' = J2 /\ events' = E2
        BY <1>4, <1>12
      <3> QED
        BY <3>1, <3>2, <3>3, PromisedNext
    <2> QED
      BY <1>4, <2>1 DEF ChangeComing, FilesystemChangeKept, appVars
  <1> QED
    BY <1>14, <1>15, <1>16, <1>17, <1>18, <1>19

-----------------------------------------------------------------------------
(* The host handles a completion. *)

\* What the host submits on a completion is nobody's reconciliation and no
\* refresh of the timer.
LEMMA ResubmittedGrows ==
    ASSUME jobs \in Seq(Job), NEW e
    PROVE  Grown(jobs, Resubmitted(e), {"commit", "explicit"})
  <1> DEFINE P == {"commit", "explicit"}
  <1>1. ASSUME NEW J \in Seq(Job), NEW p \in P
        PROVE  Grown(J, Submitted(J, "refresh", p), P) /\ Grown(J, J, P)
    <2>1. Grown(J, Submitted(J, "refresh", p), {p})
      BY <1>1, SubmittedGrows DEF Purposes
    <2>2. Grown(J, J, {})
      BY GrownNot
    <2> QED
      BY <2>1, <2>2, GrownMore
  <1>2. PICK J1 : J1 = IF AsksCommitAgain(e)
                       THEN Submitted(jobs, "refresh", "commit") ELSE jobs
    OBVIOUS
  <1>3. PICK J2 : J2 = IF e.state \in {"cancelled", "uncertain"}
                       THEN Submitted(J1, "refresh", "explicit") ELSE J1
    OBVIOUS
  <1>4. PICK J3 : J3 = IF e.purpose = "mutation" /\ e.state # "cancelled"
                            /\ ~e.snapshot
                       THEN Submitted(J2, "refresh", "explicit") ELSE J2
    OBVIOUS
  <1>5. Resubmitted(e) = J3
    BY <1>2, <1>3, <1>4 DEF Resubmitted
  <1>6. Grown(jobs, J1, P) /\ J1 \in Seq(Job)
    <2>1. Grown(jobs, J1, P)
      BY <1>1, <1>2
    <2> QED
      BY <2>1 DEF Grown
  <1>7. Grown(J1, J2, P) /\ J2 \in Seq(Job)
    <2>1. Grown(J1, J2, P)
      BY <1>1, <1>3, <1>6
    <2> QED
      BY <2>1 DEF Grown
  <1>8. Grown(J2, J3, P)
    BY <1>1, <1>4, <1>7
  <1>9. Grown(jobs, J2, P)
    <2>1. Grown(jobs, J2, P \union P)
      BY <1>6, <1>7, GrownTwice
    <2> QED
      BY <2>1, GrownMore
  <1>10. Grown(jobs, J3, P)
    <2>1. Grown(jobs, J3, P \union P)
      BY <1>8, <1>9, GrownTwice
    <2> QED
      BY <2>1, GrownMore
  <1> QED
    BY <1>5, <1>10

\* The completions behind the first, and the first.
LEMMA Ahead ==
    ASSUME NEW E \in Seq(Event), E # <<>>
    PROVE  /\ Head(E) = E[1] /\ 1 \in DOMAIN E /\ Head(E) \in Event
           /\ Tail(E) \in Seq(Event) /\ Len(Tail(E)) = Len(E) - 1
           /\ Len(E) \in Nat \ {0}
           /\ \A k \in DOMAIN Tail(E) :
                 /\ k \in Nat \ {0} /\ k + 1 \in DOMAIN E
                 /\ Tail(E)[k] = E[k + 1]
  OBVIOUS

\* What a completion that is handled leaves of the order of snapshots: it
\* applies when it has one, and is not behind what the editor shows.
LEMMA AppliedInOrder ==
    ASSUME IndInv, events # <<>>
    PROVE  LET e == Head(events)
           IN  /\ Applies(e) <=> e.snapshot
               /\ Applies(e) => /\ shown <= e.shows /\ e.shows <= disk
                                /\ generation <= e.generation
                                /\ e.generation <= bumped
               /\ \A k \in DOMAIN Tail(events) :
                     Applies(e) /\ Tail(events)[k].snapshot =>
                        /\ e.shows <= Tail(events)[k].shows
                        /\ e.generation <= Tail(events)[k].generation
               /\ jobs # <<>> /\ jobs[1].stage # "queued" /\ Applies(e) =>
                     e.shows <= jobs[1].shows
  <1>1. /\ events \in Seq(Event) /\ generation \in Nat
        /\ \A k \in DOMAIN events : events[k].generation \in Nat
        /\ SnapshotsInOrder
    BY Typed DEF IndInv
  <1>2. /\ Head(events) = events[1] /\ 1 \in DOMAIN events
        /\ \A k \in DOMAIN Tail(events) :
              /\ k \in Nat \ {0} /\ k + 1 \in DOMAIN events
              /\ Tail(events)[k] = events[k + 1]
    BY <1>1, Ahead
  <1>3. \A k \in DOMAIN Tail(events) : 1 < k + 1
    BY <1>2
  <1>4. Applies(events[1]) <=> events[1].snapshot
    BY <1>1, <1>2 DEF Applies, SnapshotsInOrder
  <1> QED
    BY <1>1, <1>2, <1>3, <1>4 DEF SnapshotsInOrder

\* A completion that succeeded shows what it promised; one that did not puts
\* its reconciliation back; one of another purpose leaves it under way.
LEMMA HostHandlesInv ==
    ASSUME IndInv, NEW full \in BOOLEAN, HostHandles(full)
    PROVE  IndInv'
  <1> USE DEF IndInv
  <1> DEFINE e == Head(events)
  <1> DEFINE T == Tail(events)
  <1>0. PICK applies \in BOOLEAN, requested \in BOOLEAN, kept \in BOOLEAN,
             succeeded \in BOOLEAN, may \in BOOLEAN, now \in BOOLEAN :
           /\ applies <=> Applies(e)
           /\ requested <=> fsRequest /\ e.purpose # "files"
           /\ kept <=> KeptAfter(e)
           /\ succeeded <=> e.purpose = "files" /\ e.state = "completed"
                              /\ e.snapshot
           /\ may <=> succeeded /\ MayRetry(kept, requested, full)
           /\ now <=> requested \/ may
    OBVIOUS
  <1>1. /\ {disk, written, made, seen, observed, last, shown, generation,
            bumped} \subseteq Nat
        /\ {pending, stale, fsPending, fsRequest} \subseteq BOOLEAN
        /\ jobs \in Seq(Job) /\ events \in Seq(Event) /\ TypeOK
        /\ \A k \in DOMAIN events : /\ events[k].shows \in Nat
                                    /\ events[k].generation \in Nat
                                    /\ events[k].started \in Nat
        /\ Sound(jobs)
    BY Typed, SoundNow
  <1>2. events # <<>> /\ events' = T /\ UNCHANGED <<worldVars, observed, bumped>>
    BY DEF HostHandles
  <1>3. /\ e = events[1] /\ 1 \in DOMAIN events /\ e \in Event
        /\ T \in Seq(Event)
        /\ \A k \in DOMAIN T : /\ k \in Nat \ {0} /\ k + 1 \in DOMAIN events
                               /\ T[k] = events[k + 1]
    BY <1>1, <1>2, Ahead
  <1>4. /\ applies <=> e.snapshot
        /\ applies => /\ shown <= e.shows /\ e.shows <= disk
                      /\ generation <= e.generation
                      /\ e.generation <= bumped
        /\ \A k \in DOMAIN T :
              applies /\ T[k].snapshot =>
                 /\ e.shows <= T[k].shows
                 /\ e.generation <= T[k].generation
        /\ jobs # <<>> /\ jobs[1].stage # "queued" /\ applies =>
              e.shows <= jobs[1].shows
    BY <1>0, <1>2, AppliedInOrder
  <1>5. PICK J1 : J1 = IF full THEN jobs ELSE Resubmitted(e)
    OBVIOUS
  <1>6. PICK J2 : J2 = IF succeeded THEN Retried(kept, requested, J1, full)
                       ELSE J1
    OBVIOUS
  <1>7. /\ jobs' = J2
        /\ generation' = IF applies THEN e.generation ELSE generation
        /\ shown' = IF applies THEN e.shows ELSE shown
        /\ last' \in {e.started, last}
        /\ pending' = (pending /\ e.purpose # "auto")
        /\ fsPending' = (kept /\ ~may) /\ fsRequest' = now
        /\ stale' \in BOOLEAN
        /\ stale /\ (kept \/ requested) => stale'
    <2>1. PICK unsure \in BOOLEAN, counted \in BOOLEAN, marked \in BOOLEAN :
             /\ unsure <=> IF applies THEN kept \/ requested
                           ELSE stale \/ ~e.snapshot
                                  \/ e.state \in {"cancelled", "uncertain"}
             /\ counted <=> applies /\ e.state = "completed" /\ ~e.coalesced
             /\ marked <=> unsure \/ (counted /\ Outdated(e))
                             \/ (~counted /\ e.purpose = "auto")
      OBVIOUS
    <2>2. /\ generation' = IF applies THEN e.generation ELSE generation
          /\ shown' = IF applies THEN e.shows ELSE shown
          /\ last' = IF counted /\ ~Outdated(e) THEN e.started ELSE last
          /\ pending' = (pending /\ e.purpose # "auto")
      BY <1>0, <2>1 DEF HostHandles
    <2>3. CASE succeeded
      <3>1. jobs' = Retried(kept, requested, J1, full)
        BY <1>0, <1>1, <1>5, <2>3 DEF HostHandles, Retried, MayRetry, KeptAfter
      <3>2. fsPending' = (kept /\ ~may) /\ fsRequest' = now
        BY <1>0, <1>1, <2>3 DEF HostHandles, RetryPending, MayRetry, KeptAfter
      <3>3. stale' = (marked \/ kept \/ requested)
        BY <1>0, <1>1, <2>1, <2>3 DEF HostHandles, RetryPending, KeptAfter
      <3> QED
        BY <1>6, <2>2, <2>3, <3>1, <3>2, <3>3
    <2>4. CASE ~succeeded
      <3>1. jobs' = J1
        BY <1>0, <1>5, <2>4 DEF HostHandles
      <3>2. ~may /\ (now <=> requested)
        BY <1>0, <2>4
      <3>3. fsPending' = kept /\ fsRequest' = requested
        BY <1>0, <1>1, <2>4 DEF HostHandles, KeptAfter
      <3>4. stale' = marked
        BY <1>0, <1>1, <2>1, <2>4 DEF HostHandles, KeptAfter
      <3> QED
        BY <1>6, <2>1, <2>2, <2>4, <3>1, <3>2, <3>3, <3>4
    <2> QED
      BY <2>3, <2>4
  <1>8. Grown(jobs, J1, {"commit", "explicit"}) /\ J1 \in Seq(Job) /\ Sound(J1)
    <2>1. Grown(jobs, J1, {"commit", "explicit"})
      BY <1>1, <1>5, ResubmittedGrows, GrownNot, GrownMore
    <2>2. J1 \in Seq(Job)
      BY <2>1 DEF Grown
    <2> QED
      BY <1>1, <2>1, <2>2, SoundGrown
  <1>9. FlyingOf(J1, T, "files", requested)
    <2>1. FlyingOf(jobs, events, "files", fsRequest)
      BY DEF FlagsTrue
    <2>2. FlyingOf(jobs, T, "files", fsRequest /\ e.purpose # "files")
      BY <1>1, <1>2, <2>1, FlyingHandled
    <2>3. FlyingOf(jobs, T, "files", requested)
      BY <1>0, <2>2, FlyingUnbounded
    <2>4. "files" \notin {"commit", "explicit"}
      OBVIOUS
    <2> QED
      BY <1>1, <1>8, <2>3, <2>4, OthersFly
  <1>10. /\ Grown(J1, J2, {"files"}) /\ Sound(J2)
         /\ FlyingOf(J2, T, "files", now)
         /\ ~may => J2 = J1
         /\ may => /\ \A k, l : Has(J2, "files", k, l) => J2[k].stage = "queued"
                   /\ \A k : ~Came(T, "files", k)
    <2> HIDE DEF IndInv, e, T
    <2>1. CASE ~succeeded
      <3>1. J2 = J1 /\ ~may /\ (now <=> requested)
        BY <1>0, <1>6, <2>1
      <3>2. Grown(J1, J2, {"files"})
        BY <1>8, <3>1, GrownNot, GrownMore
      <3>3. FlyingOf(J2, T, "files", now)
        BY <1>9, <3>1, FlyingUnbounded
      <3> QED
        BY <1>8, <3>1, <3>2, <3>3
    <2>2. CASE succeeded
      <3>1. J2 = Retried(kept, requested, J1, full)
        BY <1>6, <2>2
      <3>2. /\ Grown(J1, J2, {"files"})
            /\ may => /\ FlyingOf(J2, T, "files", TRUE)
                      /\ \A k, l : Has(J2, "files", k, l) => J2[k].stage = "queued"
                      /\ \A k : ~Came(T, "files", k)
            /\ ~may => FlyingOf(J2, T, "files", requested)
        BY <1>0, <1>8, <1>9, <2>2, <3>1, RetriedFlies
      <3>3. FlyingOf(J2, T, "files", now)
        BY <1>0, <3>2, FlyingUnbounded
      <3>4. ~may => J2 = J1
        BY <1>0, <2>2, <3>1 DEF Retried
      <3>5. Sound(J2)
        <4> USE DEF IndInv
        <4> QED
          BY <1>8, <3>2, SoundGrown
      <3> QED
        BY <3>2, <3>3, <3>4, <3>5
    <2> QED
      BY <1>8, <2>1, <2>2, SoundGrown
  <1>11. FlyingOf(J2, T, "auto", pending')
    <2>1. FlyingOf(jobs, events, "auto", pending)
      BY DEF FlagsTrue
    <2>2. FlyingOf(jobs, T, "auto", pending /\ e.purpose # "auto")
      BY <1>1, <1>2, <2>1, FlyingHandled
    <2>3. FlyingOf(jobs, T, "auto", pending')
      BY <1>7, <2>2, FlyingUnbounded
    <2>4. "auto" \notin {"commit", "explicit"} /\ "auto" \notin {"files"}
      OBVIOUS
    <2>5. FlyingOf(J1, T, "auto", pending')
      BY <1>1, <1>8, <2>3, <2>4, OthersFly
    <2> QED
      BY <1>8, <1>10, <2>4, <2>5, OthersFly
  <1>12. TypeOK'
    <2>1. /\ {pending', stale', fsPending', fsRequest'} \subseteq BOOLEAN
      BY <1>1, <1>7
    <2>2. jobs' \in Seq(Job)
            /\ \A k \in DOMAIN jobs' : k > 1 => jobs'[k].stage = "queued"
      BY <1>7, <1>10 DEF Sound
    <2>3. last' \in 0 .. made
      <3>1. e.started \in Nat /\ e.started <= made
        BY <1>1, <1>3 DEF Clocks
      <3> QED
        BY <1>1, <1>7, <3>1 DEF TypeOK
    <2>4. shown' \in Version /\ generation' \in Nat
      BY <1>1, <1>3, <1>7 DEF TypeOK, Event
    <2> QED
      BY <1>1, <1>2, <1>3, <2>1, <2>2, <2>3, <2>4 DEF TypeOK, worldVars
  <1>13. Clocks'
    <2>1. shown' <= disk /\ generation' <= bumped
      BY <1>4, <1>7 DEF Clocks
    <2>2. \A k \in DOMAIN T : T[k].started <= made
      BY <1>3 DEF Clocks
    <2>3. \A k \in DOMAIN J2 : J2[k].started <= made
      BY <1>10 DEF Sound
    <2> QED
      BY <1>2, <1>7, <2>1, <2>2, <2>3 DEF Clocks, worldVars
  <1>14. SnapshotsInOrder'
    <2>1. \A k \in DOMAIN T : T[k].snapshot =>
             /\ shown' <= T[k].shows /\ T[k].shows <= disk
             /\ generation' <= T[k].generation /\ T[k].generation <= bumped
      BY <1>3, <1>4, <1>7 DEF SnapshotsInOrder
    <2>2. ASSUME NEW k \in DOMAIN T, NEW m \in DOMAIN T, k < m,
                 T[k].snapshot, T[m].snapshot
          PROVE  /\ T[k].shows <= T[m].shows
                 /\ T[k].generation <= T[m].generation
      <3>1. k + 1 < m + 1
        BY <1>3, <2>2
      <3> QED
        BY <1>3, <2>2, <3>1 DEF SnapshotsInOrder
    <2>3. J2 # <<>> /\ J2[1].stage # "queued" =>
             /\ J2[1].generation = bumped
             /\ shown' <= J2[1].shows /\ J2[1].shows <= disk
             /\ \A k \in DOMAIN T : T[k].snapshot => T[k].shows <= J2[1].shows
      <3> SUFFICES ASSUME J2 # <<>>, J2[1].stage # "queued"
                   PROVE  /\ J2[1].generation = bumped
                          /\ shown' <= J2[1].shows /\ J2[1].shows <= disk
                          /\ \A k \in DOMAIN T : T[k].snapshot =>
                                T[k].shows <= J2[1].shows
        OBVIOUS
      <3>1. /\ jobs # <<>> /\ jobs[1].stage # "queued"
            /\ J2[1].shows = jobs[1].shows
            /\ J2[1].generation = jobs[1].generation
        BY <1>10 DEF Sound
      <3>2. shown' <= J2[1].shows
        BY <1>4, <1>7, <3>1 DEF SnapshotsInOrder
      <3> QED
        BY <1>3, <3>1, <3>2 DEF SnapshotsInOrder
    <2> HIDE DEF T
    <2>4. jobs' = J2 /\ events' = T /\ disk' = disk /\ bumped' = bumped
      BY <1>2, <1>7 DEF worldVars
    <2> QED
      BY <2>1, <2>2, <2>3, <2>4 DEF SnapshotsInOrder
  <1>15. OwnAnswers'
    BY <1>2, <1>3, <1>7, <1>10 DEF OwnAnswers, Founded, Sound
  <1>16. FlagsTrue'
    BY <1>2, <1>7, <1>10, <1>11, FlagsNext
  <1>17. ChangeComing'
    <2> SUFFICES ASSUME written > shown'
                 PROVE  /\ stale' /\ (fsPending' \/ fsRequest')
                        /\ ~fsPending' => Promised'
      BY <1>2 DEF ChangeComing, FilesystemChangeKept, worldVars
    <2>1. written > shown
      BY <1>1, <1>3, <1>4, <1>7
    <2>2. stale /\ (fsPending \/ fsRequest) /\ (~fsPending => Promised)
      BY <2>1 DEF ChangeComing, FilesystemChangeKept
    <2>3. kept \/ requested
      <3>1. CASE fsPending \/ e.purpose # "files"
        BY <1>0, <2>2, <3>1 DEF KeptAfter
      <3>2. CASE ~fsPending /\ e.purpose = "files"
        <4>1. e.state = "completed" /\ e.snapshot => written <= e.shows
          BY <1>3, <2>2, <3>2, PromisedNow DEF Came
        <4>2. e.snapshot => shown' = e.shows
          BY <1>4, <1>7
        <4>3. ~(e.state = "completed" /\ e.snapshot)
          BY <1>1, <1>3, <4>1, <4>2
        <4> QED
          BY <1>0, <3>2, <4>3 DEF KeptAfter
      <3> QED
        BY <3>1, <3>2
    <2>4. stale' /\ (fsPending' \/ fsRequest')
      BY <1>0, <1>7, <2>2, <2>3
    <2>5. ASSUME ~fsPending' PROVE Promised'
      <3>1. CASE may
        BY <1>2, <1>7, <1>10, <3>1, PromisedNext
      <3>2. CASE ~may
        <4>1. ~kept /\ ~fsPending /\ J2 = J1 /\ Promised
          BY <1>0, <1>7, <1>10, <2>2, <2>5, <3>2 DEF KeptAfter
        <4>2. "files" \notin {"commit", "explicit"}
          OBVIOUS
        <4>3. \A k, l : Has(jobs, "files", k, l) /\ jobs[k].stage = "reading"
                           => written <= jobs[k].shows
          BY <4>1, PromisedNow
        <4>4. \A k, l : Has(J2, "files", k, l) /\ J2[k].stage = "reading"
                           => written <= J2[k].shows
          BY <1>1, <1>8, <4>1, <4>2, <4>3, PromisedGrown
        <4>5. \A k : Came(T, "files", k) /\ T[k].state = "completed"
                        /\ T[k].snapshot => written <= T[k].shows
          <5>1. \A k : Came(T, "files", k) =>
                   Came(events, "files", k + 1) /\ T[k] = events[k + 1]
            BY <1>3 DEF Came
          <5> QED
            BY <4>1, <5>1, PromisedNow
        <4>6. jobs' = J2 /\ events' = T /\ written' = written
          BY <1>2, <1>7 DEF worldVars
        <4> HIDE DEF T
        <4> QED
          BY <4>4, <4>5, <4>6, PromisedNext
      <3> QED
        BY <3>1, <3>2
    <2> QED
      BY <2>4, <2>5
  <1> QED
    BY <1>12, <1>13, <1>14, <1>15, <1>16, <1>17

-----------------------------------------------------------------------------
(* The theorems. *)

\* The editor that has read the repository once satisfies the invariant.
LEMMA InitInv == Init => IndInv
  <1> SUFFICES ASSUME Init PROVE IndInv
    OBVIOUS
  <1>1. /\ jobs = <<>> /\ events = <<>> /\ jobs \in Seq(Job)
        /\ events \in Seq(Event) /\ DOMAIN jobs = {} /\ DOMAIN events = {}
    BY DEF Init
  <1>2. TypeOK
    <2>1. /\ 0 \in Version /\ 0 \in 0 .. MaxAsks /\ 0 \in 0 .. MaxFailures
          /\ 0 \in 0 .. MaxChanges /\ 0 \in 0 .. 0 /\ 0 \in Nat
      BY RefreshConstants DEF Version
    <2>2. {pending, stale, fsPending, fsRequest} \subseteq BOOLEAN
      BY DEF Init
    <2>3. /\ {disk, written, made, seen, observed, last, shown, generation,
              bumped, asks, failures} \subseteq {0}
      BY DEF Init
    <2> QED
      BY <1>1, <2>1, <2>2, <2>3 DEF TypeOK
  <1>3. Clocks /\ SnapshotsInOrder /\ OwnAnswers
    BY <1>1 DEF Init, Clocks, SnapshotsInOrder, OwnAnswers, Founded
  <1>4. FlagsTrue
    BY <1>1 DEF Init, FlagsTrue, FlyingOf, Has, Came
  <1>5. ChangeComing
    BY DEF Init, ChangeComing, FilesystemChangeKept
  <1> QED
    BY <1>2, <1>3, <1>4, <1>5 DEF IndInv

\* Every step keeps the invariant.
LEMMA NextInv == IndInv /\ [Next]_vars => IndInv'
  <1> SUFFICES ASSUME IndInv, [Next]_vars PROVE IndInv'
    OBVIOUS
  <1>1. CASE Service
    BY <1>1, ServiceMovesInv, ServiceEndsInv DEF Service
  <1>2. CASE Editor
    BY <1>2, EditorWritesInv, HostHandlesInv, RefreshIfDueInv, AskInv,
       AskCommitInv, WorldInv DEF Editor
  <1>3. CASE OthersChange \/ MonitorObserves
    BY <1>3, WorldInv
  <1>4. CASE UNCHANGED vars
    <2>1. /\ TypeOK' /\ Clocks' /\ SnapshotsInOrder' /\ OwnAnswers'
      BY <1>4 DEF IndInv, TypeOK, Clocks, SnapshotsInOrder, OwnAnswers, Founded,
         vars, worldVars, appVars, hostVars, serviceVars
    <2>2. FlagsTrue' /\ ChangeComing'
      <3>1. /\ UNCHANGED <<jobs, events, written, shown, stale, fsPending,
                           fsRequest, pending>>
        BY <1>4 DEF vars, worldVars, appVars, hostVars, serviceVars
      <3>2. FlagsTrue'
        BY <3>1, FlagsNext DEF IndInv, FlagsTrue
      <3>3. Promised => Promised'
        BY <3>1, PromisedNow, PromisedNext
      <3>4. ChangeComing'
        BY <3>1, <3>3 DEF IndInv, ChangeComing, FilesystemChangeKept
      <3> QED
        BY <3>2, <3>4
    <2> QED
      BY <2>1, <2>2 DEF IndInv
  <1> QED
    BY <1>1, <1>2, <1>3, <1>4 DEF Next

\* The inductive invariant holds throughout.
THEOREM Invariance == Spec => []IndInv
  BY InitInv, NextInv, PTL DEF Spec

\* What apply_git_service_event and retry_pending_git_reconciliation believe of
\* the requests under way is so: one reconciliation when
\* filesystem_reconciliation_request is some and none otherwise, one refresh of
\* the timer when pending_git_refresh is some and none otherwise.
THEOREM FlightsAreKnown == Spec => []FlightsKnown
  <1>1. IndInv => FlightsKnown
    <2> SUFFICES ASSUME IndInv PROVE FlightsKnown
      OBVIOUS
    <2>1. TypeOK /\ pending \in BOOLEAN /\ fsRequest \in BOOLEAN
      BY DEF IndInv, TypeOK
    <2>2. /\ FlyingOf(jobs, events, "files", fsRequest)
          /\ FlyingOf(jobs, events, "auto", pending)
      BY DEF IndInv, FlagsTrue
    <2> DEFINE Waits(k, p) == {l \in DOMAIN jobs[k].waiters :
                                  jobs[k].waiters[l].purpose = p}
    <2> DEFINE Queued(p) == UNION {{<<k, l>> : l \in Waits(k, p)} :
                                      k \in DOMAIN jobs}
    <2> DEFINE Ended(p) == {k \in DOMAIN events : events[k].purpose = p}
    <2>3. Cardinality(Queued("files")) + Cardinality(Ended("files"))
             = IF fsRequest THEN 1 ELSE 0
      BY <2>1, <2>2, FlyingCounts
    <2>4. Cardinality(Queued("auto")) + Cardinality(Ended("auto"))
             = IF pending THEN 1 ELSE 0
      BY <2>1, <2>2, FlyingCounts
    <2> QED
      BY <2>1, <2>3, <2>4 DEF FlightsKnown
  <1> QED
    BY <1>1, Invariance, PTL

\* A change made by a file operation of the editor is shown, or is pending or
\* under way, with the status line saying stale.
THEOREM ChangeIsKept == Spec => []FilesystemChangeKept
  <1>1. IndInv => FilesystemChangeKept
    BY DEF IndInv, ChangeComing
  <1> QED
    BY <1>1, Invariance, PTL

\* Only the host takes a completion from the queue.
LEMMA OnlyTheHostTakes ==
    ASSUME TypeOK, Next, events # <<>>, events' = Tail(events)
    PROVE  \E full \in BOOLEAN : HostHandles(full)
  <1>1. /\ events \in Seq(Event) /\ Len(events) \in DOMAIN events
        /\ Len(events) \notin DOMAIN Tail(events) /\ Tail(events) # events
        /\ Len(events) \in Nat /\ Len(events) > 0
    BY DEF TypeOK
  <1>2. ~AskCommit
    <2> SUFFICES ASSUME AskCommit PROVE FALSE
      OBVIOUS
    <2>1. DOMAIN events' = DOMAIN events
      BY DEF AskCommit
    <2> QED
      BY <1>1, <2>1
  <1>3. ASSUME NEW good \in BOOLEAN, NEW cancelled \in SUBSET FirstWaiters,
               ServiceEnds(good, cancelled)
        PROVE  FALSE
    <2>1. jobs # <<>> /\ jobs[1].waiters \in Seq(Waiter)
      BY <1>3, Typed, JobFields DEF ServiceEnds
    <2> DEFINE job == jobs[1]
               mutates == job.kind = "mutate" /\ job.stage = "reading"
               State(k) == IF k \in cancelled
                           THEN IF mutates THEN "uncertain" ELSE "cancelled"
                           ELSE IF good \/ mutates THEN "completed"
                           ELSE "failed"
               D == [k \in DOMAIN job.waiters |->
                       [purpose |-> job.waiters[k].purpose,
                        current |-> job.waiters[k].current,
                        coalesced |-> k > 1, state |-> State(k),
                        snapshot |-> good /\ State(k) # "cancelled",
                        started |-> job.started, shows |-> job.shows,
                        generation |-> job.generation]]
    <2>2. /\ events' = events \o D
          /\ DOMAIN D = DOMAIN jobs[1].waiters
          /\ D = [k \in DOMAIN jobs[1].waiters |-> D[k]]
      <3>1. events' = events \o D
        BY <1>3, Zenon DEF ServiceEnds
      <3> HIDE DEF State, mutates
      <3> QED
        BY <3>1
    <2> HIDE DEF D
    <2>3. PICK S : S = Event \union {D[k] : k \in DOMAIN D}
      OBVIOUS
    <2>4. D \in Seq(S) /\ events \in Seq(S)
      <3>1. DOMAIN jobs[1].waiters = 1 .. Len(jobs[1].waiters)
              /\ Len(jobs[1].waiters) \in Nat
        BY <2>1
      <3>2. \A k \in 1 .. Len(jobs[1].waiters) : D[k] \in S
        BY <2>2, <2>3, <3>1
      <3> QED
        BY <1>1, <2>2, <2>3, <3>1, <3>2
    <2>5. Len(events \o D) = Len(events) + Len(D) /\ Len(D) \in Nat
            /\ events \o D \in Seq(S)
      BY <2>4, ConcatProperties
    <2>6. Len(events) \in DOMAIN (events \o D)
      BY <1>1, <2>5
    <2> QED
      BY <1>1, <2>2, <2>6
  <1>4. ~UNCHANGED events
    BY <1>1
  <1> QED
    BY <1>2, <1>3, <1>4 DEF Next, Service, Editor, ServiceStarts, ServiceMutates,
       OthersChange, MonitorObserves, HostObserves, EditorWrites, RefreshIfDue,
       AskRefresh, AskMutation, serviceVars

\* A commit message opens on an answer of its own, which shows the index of the
\* moment of the command or a later one, and which the editor then shows.
THEOREM CommitSees == Spec => CommitSeesIndex
  <1> DEFINE P == events # <<>> /\ events' = Tail(events)
                    /\ OpensCommit(Head(events))
                  => Head(events).current /\ shown' >= Head(events).shows
  <1>1. IndInv /\ [Next]_vars => [P]_vars
    <2> SUFFICES ASSUME IndInv, Next, events # <<>>, events' = Tail(events),
                        OpensCommit(Head(events))
                 PROVE  Head(events).current /\ shown' >= Head(events).shows
      OBVIOUS
    <2>1. PICK full \in BOOLEAN : HostHandles(full)
      BY OnlyTheHostTakes DEF IndInv
    <2>2. /\ Head(events) = events[1] /\ 1 \in DOMAIN events
          /\ events[1].shows \in Nat
      BY Typed, Ahead DEF IndInv
    <2>3. Head(events).current
      BY <2>2 DEF IndInv, OwnAnswers, OpensCommit
    <2>4. Applies(Head(events))
      BY AppliedInOrder DEF OpensCommit
    <2>5. shown' = Head(events).shows
      BY <2>1, <2>4 DEF HostHandles
    <2> QED
      BY <2>2, <2>3, <2>5
  <1>2. CommitSeesIndex <=> [][P]_vars
    BY DEF CommitSeesIndex
  <1> QED
    BY <1>1, <1>2, Invariance, PTL DEF Spec
=============================================================================
