------------------------- MODULE WaitRequestsProofs -------------------------
(* Theorems about WaitRequests, for every set of connections, buffers and    *)
(* terminals and every limit.                                                *)
EXTENDS WaitRequests, FiniteSetTheorems, TLAPS

-----------------------------------------------------------------------------
(* The inductive invariant *)

\* Tokens are issued in order and never reused: nothing is known of those to
\* come.
TokensFresh ==
    \A t \in Tokens : t >= nextToken =>
        waits[t].status = "absent" /\ origin[t] = None /\ t \notin forced

\* A parent edit of the queue ends t when the queue is reconciled: it is a
\* :q!, and no earlier edit is of a buffer of t.
Doomed(t) ==
    \E i \in DOMAIN actions :
        /\ actions[i].cancel /\ actions[i].buffer \in waits[t].buffers
        /\ \A j \in DOMAIN actions :
              j < i => actions[j].buffer \notin waits[t].buffers

\* A request left with :q! that is still pending is a parent request whose
\* end is queued.
ForcedQueued ==
    \A t \in forced : Pending(t) => origin[t] # None /\ Doomed(t)

\* The parts of PendingHasWork beside the types.
Bounded == Cardinality(Recorded(waits)) <= MaxWaitRequests

\* A pending request has buffers left.
Working == \A t \in Tokens : Pending(t) => Remaining(waits[t]) # {}

\* A pending parent request belongs to a connection that is served.
Watched ==
    \A t \in Tokens : Pending(t) /\ origin[t] # None =>
        \E c \in Conns : link[c] = "control" /\ t \in tokens[c]

\* Once reconciled, the buffers and the terminal a request waits for exist.
OpenWork ==
    ~unreconciled => \A t \in Tokens : Pending(t) =>
        /\ \A b \in Remaining(waits[t]) : doc[b] # "closed"
        /\ origin[t] # None => term[origin[t]] = "live"

\* What every reachable state satisfies.
IndInv ==
    /\ TypeOK /\ Bounded /\ Working /\ Watched /\ OpenWork
    /\ ForcedNeverSucceeds /\ TokensFresh /\ ForcedQueued

\* The queues of parent edits, and the states of the buffers.
Actions == Seq([buffer : Buffers, cancel : BOOLEAN])
Docs == [Buffers -> {"clean", "dirty", "saving", "closed"}]

-----------------------------------------------------------------------------
(* What the operators on the table do to one request *)

\* update_wait_status decides between pending and completed by the buffers.
LEMMA UpdatedRequest ==
    ASSUME NEW r \in Wait
    PROVE  /\ Updated(r) \in Wait
           /\ Updated(r).buffers = r.buffers
           /\ Updated(r).completed = r.completed
           /\ Updated(r).status =
                 IF Remaining(r) = {} THEN "completed" ELSE "pending"
  BY DEF Wait, Updated, Remaining

\* Closed buffers are done; what stays pending waits for an open one.
LEMMA WithClosedRequest ==
    ASSUME NEW r \in Wait, NEW d \in Docs
    PROVE  /\ WithClosed(r, d) \in Wait
           /\ WithClosed(r, d).buffers = r.buffers
           /\ WithClosed(r, d).status \in {"pending", "completed"}
           /\ Remaining(WithClosed(r, d)) = {b \in Remaining(r) : d[b] # "closed"}
           /\ WithClosed(r, d).status = "pending" <=>
                 Remaining(WithClosed(r, d)) # {}
  <1> DEFINE s == [r EXCEPT !.completed =
                       @ \union {b \in r.buffers : d[b] = "closed"}]
  <1>1. s \in Wait /\ s.buffers = r.buffers
        /\ Remaining(s) = {b \in Remaining(r) : d[b] # "closed"}
    BY DEF Wait, Remaining
  <1>2. WithClosed(r, d) = Updated(s)
    BY DEF WithClosed
  <1> HIDE DEF s
  <1>3. Remaining(Updated(s)) = Remaining(s)
    BY <1>1, UpdatedRequest DEF Remaining
  <1> QED
    BY <1>1, <1>2, <1>3, UpdatedRequest

\* Parent edits complete only buffers that are clean.
LEMMA EndedRequest ==
    ASSUME NEW r \in Wait, NEW acts \in Actions, NEW d \in Docs
    PROVE  /\ Ended(r, acts, d) \in Wait
           /\ Ended(r, acts, d).buffers = r.buffers
           /\ Ended(r, acts, d).status \in {"pending", "completed", "cancelled"}
           /\ Remaining(Ended(r, acts, d)) \subseteq Remaining(r)
           /\ \A b \in Remaining(r) \ Remaining(Ended(r, acts, d)) :
                 d[b] = "clean"
           /\ Ended(r, acts, d).status = "completed" =>
                 Remaining(Ended(r, acts, d)) = {}
           /\ Ended(r, acts, d).status = "pending" =>
                 Remaining(Ended(r, acts, d)) # {}
  <1> DEFINE finishes == {i \in DOMAIN acts : /\ ~acts[i].cancel
                                              /\ acts[i].buffer \in r.buffers
                                              /\ d[acts[i].buffer] = "clean"}
             cancels == {i \in DOMAIN acts : /\ acts[i].cancel
                                             /\ acts[i].buffer \in r.buffers}
             done(I) == r.completed \union {acts[i].buffer : i \in I}
             s == [r EXCEPT !.completed = done(finishes)]
  <1>1. s \in Wait /\ s.buffers = r.buffers /\ s.completed = done(finishes)
    BY DEF Wait, Actions
  <1>2. \A b \in done(finishes) \ r.completed : d[b] = "clean"
    OBVIOUS
  <1>3. CASE Ended(r, acts, d) = [r EXCEPT !.status = "cancelled"]
    BY <1>3 DEF Wait, Remaining
  <1>4. CASE Ended(r, acts, d) = Updated(s)
    <2> HIDE DEF s, finishes
    <2> QED
      BY <1>1, <1>2, <1>4, UpdatedRequest DEF Remaining
  <1>5. Ended(r, acts, d) = [r EXCEPT !.status = "cancelled"]
        \/ Ended(r, acts, d) = Updated(s)
    BY DEF Ended
  <1> QED
    BY <1>3, <1>4, <1>5

\* A :q! that nothing precedes ends a request that has something left.
LEMMA EndedByForce ==
    ASSUME NEW r \in Wait, NEW acts \in Actions, NEW d \in Docs,
           Remaining(r) # {},
           NEW i \in DOMAIN acts, acts[i].cancel, acts[i].buffer \in r.buffers,
           \A j \in DOMAIN acts : j < i => acts[j].buffer \notin r.buffers
    PROVE  Ended(r, acts, d).status = "cancelled"
  BY DEF Ended, Remaining, Wait

-----------------------------------------------------------------------------
(* And to a table *)

\* The tables of requests.
Table == [Tokens -> Wait]

\* A reconciliation leaves ended requests alone, completes only what is saved
\* or closed, and what it leaves pending has work.
LEMMA ReconciledTable ==
    ASSUME NEW w \in Table, NEW acts \in Actions, NEW d \in Docs,
           NEW ts, NEW t \in Tokens
    PROVE  LET after == Reconciled(w, acts, d, ts)[t]
           IN  /\ Reconciled(w, acts, d, ts) \in Table
               /\ after \in Wait
               /\ w[t].status # "pending" => after = w[t]
               /\ w[t].status = "pending" =>
                    /\ after.status \in {"pending", "completed", "cancelled"}
                    /\ after.buffers = w[t].buffers
                    /\ Remaining(after) \subseteq Remaining(w[t])
                    /\ \A b \in Remaining(w[t]) \ Remaining(after) :
                          d[b] \in {"clean", "closed"}
                    /\ after.status = "completed" => Remaining(after) = {}
               /\ after.status = "pending" =>
                    /\ Remaining(after) # {}
                    /\ \A b \in Remaining(after) : d[b] # "closed"
                    /\ origin[t] # None => ts[origin[t]] = "live"
  <1> DEFINE after(u) == Reconciled(w, acts, d, ts)[u]
             facts(u) ==
               /\ after(u) \in Wait
               /\ w[u].status # "pending" => after(u) = w[u]
               /\ w[u].status = "pending" =>
                    /\ after(u).status \in {"pending", "completed", "cancelled"}
                    /\ after(u).buffers = w[u].buffers
                    /\ Remaining(after(u)) \subseteq Remaining(w[u])
                    /\ \A b \in Remaining(w[u]) \ Remaining(after(u)) :
                          d[b] \in {"clean", "closed"}
                    /\ after(u).status = "completed" => Remaining(after(u)) = {}
               /\ after(u).status = "pending" =>
                    /\ Remaining(after(u)) # {}
                    /\ \A b \in Remaining(after(u)) : d[b] # "closed"
                    /\ origin[u] # None => ts[origin[u]] = "live"
  <1>1. ASSUME NEW u \in Tokens PROVE facts(u)
    <2> DEFINE ended == Ended(w[u], acts, d)
    <2>0. w[u] \in Wait
      BY DEF Table
    <2>1. CASE w[u].status # "pending"
      BY <2>0, <2>1 DEF Reconciled
    <2>2. CASE w[u].status = "pending" /\ origin[u] = None
      <3>1. after(u) = WithClosed(w[u], d)
        BY <2>2 DEF Reconciled
      <3> HIDE DEF after
      <3> QED
        BY <2>0, <2>2, <3>1, WithClosedRequest
    <2>3. CASE w[u].status = "pending" /\ origin[u] # None
      <3>0. after(u) = IF ended.status # "pending" THEN ended
                       ELSE IF ts[origin[u]] # "live"
                       THEN [ended EXCEPT !.status = "cancelled"]
                       ELSE WithClosed(ended, d)
        BY <2>3 DEF Reconciled
      <3>1. /\ ended \in Wait
            /\ ended.buffers = w[u].buffers
            /\ ended.status \in {"pending", "completed", "cancelled"}
            /\ Remaining(ended) \subseteq Remaining(w[u])
            /\ \A b \in Remaining(w[u]) \ Remaining(ended) : d[b] = "clean"
            /\ ended.status = "completed" => Remaining(ended) = {}
        BY <2>0, EndedRequest
      <3> HIDE DEF after, ended
      <3>2. CASE ended.status # "pending"
        BY <2>3, <3>0, <3>1, <3>2
      <3>3. CASE ended.status = "pending" /\ ts[origin[u]] # "live"
        <4>1. after(u) = [ended EXCEPT !.status = "cancelled"]
          BY <3>0, <3>3
        <4>2. after(u) \in Wait /\ after(u).status = "cancelled"
              /\ after(u).buffers = ended.buffers
              /\ Remaining(after(u)) = Remaining(ended)
          BY <3>1, <4>1 DEF Wait, Remaining
        <4> QED
          BY <2>3, <3>1, <4>2
      <3>4. CASE ended.status = "pending" /\ ts[origin[u]] = "live"
        <4>1. after(u) = WithClosed(ended, d)
          BY <3>0, <3>4
        <4> QED
          BY <2>3, <3>1, <3>4, <4>1, WithClosedRequest
      <3> QED
        BY <3>2, <3>3, <3>4
    <2> QED
      BY <2>1, <2>2, <2>3
  <1>2. Reconciled(w, acts, d, ts) \in Table
    BY <1>1 DEF Reconciled, Table
  <1> HIDE DEF after
  <1> QED
    BY <1>1, <1>2 DEF after

\* cancel_wait ends pending requests and touches nothing else.
LEMMA CancelledTable ==
    ASSUME NEW w \in Table, NEW T, NEW t \in Tokens
    PROVE  /\ Cancelled(w, T) \in Table
           /\ Cancelled(w, T)[t].buffers = w[t].buffers
           /\ Cancelled(w, T)[t].status \in {w[t].status, "cancelled"}
           /\ w[t].status # "pending" => Cancelled(w, T)[t] = w[t]
           /\ Cancelled(w, T)[t].status = "pending" =>
                 t \notin T /\ Cancelled(w, T)[t] = w[t]
  <1>1. \A u \in Tokens : w[u] \in Wait
    BY DEF Table
  <1> QED
    BY <1>1 DEF Cancelled, Table, Wait

\* Pruning forgets ended requests only.
LEMMA PrunedTable ==
    ASSUME NEW w \in Table, NEW t \in Tokens
    PROVE  /\ Pruned(w) \in Table
           /\ w[t].status \in {"pending", "absent"} =>
                 Pruned(w)[t].status = w[t].status
           /\ Pruned(w)[t].status # "absent" => Pruned(w)[t] = w[t]
  <1> DEFINE gone(u) ==
          /\ u \in Recorded(w) \ PendingOf(w)
          /\ Cardinality({v \in Recorded(w) \ PendingOf(w) : v < u})
                < Cardinality(Recorded(w)) - MaxWaitRequests + 1
  <1>1. Pruned(w) = [u \in Tokens |-> IF gone(u) THEN Absent ELSE w[u]]
    BY DEF Pruned
  <1>2. Absent \in Wait /\ Absent.status = "absent"
    BY DEF Absent, Wait
  <1>3. ASSUME NEW u \in Tokens, gone(u)
        PROVE  w[u].status \notin {"pending", "absent"}
    BY <1>3 DEF Recorded, PendingOf
  <1> HIDE DEF gone
  <1> QED
    BY <1>1, <1>2, <1>3 DEF Table

\* complete_wait_request completes what is saved and cancels the rest.
LEMMA FinishedTable ==
    ASSUME NEW w \in Table, NEW T, NEW t \in Tokens
    PROVE  /\ Finished(w, T) \in Table
           /\ Finished(w, T)[t].buffers = w[t].buffers
           /\ w[t].status # "pending" => Finished(w, T)[t] = w[t]
           /\ w[t].status = "pending" => Finished(w, T)[t].status # "absent"
           /\ Finished(w, T)[t].status = "pending" =>
                 t \notin T /\ Finished(w, T)[t] = w[t]
           /\ w[t].status = "pending" /\ Finished(w, T)[t].status = "completed"
                 => \A b \in Remaining(w[t]) : doc[b] = "clean"
  <1>1. ASSUME NEW u \in Tokens
        PROVE  LET done == [w[u] EXCEPT !.completed = w[u].buffers]
               IN  /\ w[u] \in Wait
                   /\ Updated(done) \in Wait
                   /\ Updated(done).buffers = w[u].buffers
                   /\ Updated(done).status = "completed"
    <2>1. w[u] \in Wait
      BY DEF Table
    <2> QED
      BY <2>1 DEF Updated, Wait
  <1>2. ASSUME NEW u \in Tokens
        PROVE  /\ Finished(w, T)[u] \in Wait
               /\ Finished(w, T)[u].buffers = w[u].buffers
               /\ w[u].status # "pending" => Finished(w, T)[u] = w[u]
               /\ w[u].status = "pending" => Finished(w, T)[u].status # "absent"
               /\ Finished(w, T)[u].status = "pending" =>
                     u \notin T /\ Finished(w, T)[u] = w[u]
               /\ w[u].status = "pending"
                  /\ Finished(w, T)[u].status = "completed"
                     => \A b \in Remaining(w[u]) : doc[b] = "clean"
    <2>1. CASE u \notin T \/ w[u].status # "pending"
      BY <1>1, <2>1 DEF Finished
    <2>2. CASE ~(u \notin T \/ w[u].status # "pending")
               /\ \A b \in Remaining(w[u]) : doc[b] = "clean"
      BY <1>1, <2>2 DEF Finished
    <2>3. CASE ~(u \notin T \/ w[u].status # "pending")
               /\ ~\A b \in Remaining(w[u]) : doc[b] = "clean"
      BY <1>1, <2>3 DEF Finished, Wait
    <2> QED
      BY <2>1, <2>2, <2>3
  <1>3. Finished(w, T) \in Table
    BY <1>2 DEF Finished, Table
  <1> QED
    BY <1>2, <1>3

\* Each of these makes a table of a table.
LEMMA TablesCancelled ==
    ASSUME NEW w \in Table, NEW T PROVE Cancelled(w, T) \in Table
  <1>1. \A u \in Tokens : w[u] \in Wait
    BY DEF Table
  <1> QED
    BY <1>1 DEF Cancelled, Table, Wait

\* A reconciliation leads from a table to a table.
LEMMA TablesReconciled ==
    ASSUME NEW w \in Table, NEW acts \in Actions, NEW d \in Docs,
           NEW ts
    PROVE  Reconciled(w, acts, d, ts) \in Table
  <1>1. CASE Tokens = {}
    BY <1>1 DEF Table, Reconciled
  <1>2. CASE Tokens # {}
    BY <1>2, ReconciledTable
  <1> QED
    BY <1>1, <1>2

-----------------------------------------------------------------------------
(* Counting *)

\* Sets of tokens are finite.
LEMMA TokensFinite ==
    ASSUME NEW S \in SUBSET Tokens
    PROVE  IsFiniteSet(S) /\ Cardinality(S) \in 0 .. MaxToken
  <1>1. IsFiniteSet(Tokens) /\ Cardinality(Tokens) = MaxToken
    BY WaitConstants, FS_Interval DEF Tokens
  <1>2. IsFiniteSet(S) /\ Cardinality(S) <= MaxToken
    BY <1>1, FS_Subset
  <1> QED
    BY <1>2, FS_CardinalityType, WaitConstants

\* The editor's counts are numbers of tokens.
LEMMA CountsType ==
    ASSUME NEW w \in Table, NEW o
    PROVE  Counts(w, o) \in [Buffers -> 0 .. MaxToken]
  <1>1. ASSUME NEW b \in Buffers
        PROVE  Counts(w, o)[b] \in 0 .. MaxToken
    <2> DEFINE holders == {t \in PendingOf(w) : b \in Remaining(w[t])}
    <2>1. holders \in SUBSET Tokens
      BY DEF PendingOf
    <2>2. Cardinality(holders) \in 0 .. MaxToken
      BY <2>1, TokensFinite
    <2>3. Counts(w, o)[b] = IF \E t \in holders : o[t] # None
                            THEN Cardinality(holders) ELSE 0
      BY DEF Counts
    <2> HIDE DEF holders
    <2> QED
      BY <2>2, <2>3, WaitConstants
  <1> QED
    BY <1>1 DEF Counts

\* A table that records no more requests than another is no larger.
LEMMA FewerRecorded ==
    ASSUME NEW v, NEW w,
           \A t \in Tokens : w[t].status = "absent" => v[t].status = "absent"
    PROVE  Cardinality(Recorded(v)) <= Cardinality(Recorded(w))
  <1>1. Recorded(v) \subseteq Recorded(w)
    BY DEF Recorded
  <1>2. IsFiniteSet(Recorded(w))
    BY TokensFinite DEF Recorded
  <1> QED
    BY <1>1, <1>2, FS_Subset

-----------------------------------------------------------------------------
(* What a step does to the invariant, by what it does to the table *)

\* A step that adds no request and finishes none keeps the parts that speak
\* of the number of requests, their work and who waits for them.
LEMMA TableKept ==
    ASSUME TypeOK, Bounded, Working, Watched, TokensFresh,
           UNCHANGED <<nextToken, origin>>, forced' \subseteq
              forced \union PendingOf(waits),
           \A t \in Tokens :
              /\ waits[t].status = "absent" => waits'[t].status = "absent"
              /\ Pending(t)' => /\ Pending(t)
                                /\ Remaining(waits'[t]) # {}
                                /\ \A c \in Conns :
                                     link[c] = "control" /\ t \in tokens[c] =>
                                     link'[c] = "control" /\ t \in tokens'[c]
    PROVE  Bounded' /\ Working' /\ Watched' /\ TokensFresh'
  <1>1. Bounded'
    <2>1. Cardinality(Recorded(waits')) <= Cardinality(Recorded(waits))
      BY FewerRecorded
    <2>2. /\ Cardinality(Recorded(waits)) \in Int
          /\ Cardinality(Recorded(waits')) \in Int
      BY TokensFinite, WaitConstants DEF Recorded
    <2> QED
      BY <2>1, <2>2, WaitConstants DEF Bounded
  <1>2. Working'
    BY DEF Working
  <1>3. Watched'
    BY DEF Watched
  <1>4. TokensFresh'
    BY DEF TokensFresh, PendingOf
  <1> QED
    BY <1>1, <1>2, <1>3, <1>4

\* A step that leaves the queue of parent edits alone and ends or keeps every
\* request keeps what is known of those left with :q!.
LEMMA ForcedKept ==
    ASSUME ForcedNeverSucceeds, ForcedQueued, forced' \subseteq forced,
           forced \subseteq Tokens, UNCHANGED <<origin, actions>>,
           \A t \in forced' :
              /\ waits'[t].status = "completed" => waits[t].status = "completed"
              /\ Pending(t)' => Pending(t) /\ waits'[t].buffers = waits[t].buffers
    PROVE  ForcedNeverSucceeds' /\ ForcedQueued'
  BY DEF ForcedNeverSucceeds, ForcedQueued, Doomed

\* A step of TypeOK's variables that only a cancellation disturbs.
LEMMA CancelKept ==
    ASSUME IndInv, NEW T, waits' = Cancelled(waits, T),
           UNCHANGED <<nextToken, origin, actions, history>>,
           UNCHANGED <<doc, term>> \/ PendingOf(waits) \subseteq T,
           \A t \in Tokens \ T : \A c \in Conns :
               link[c] = "control" /\ t \in tokens[c] =>
               link'[c] = "control" /\ t \in tokens'[c]
    PROVE  /\ waits' \in Table
           /\ Bounded' /\ Working' /\ Watched' /\ TokensFresh'
           /\ OpenWork' /\ ForcedNeverSucceeds' /\ ForcedQueued'
  <1>1. waits \in Table /\ forced \subseteq Tokens
    BY DEF IndInv, TypeOK, Table
  <1>2. \A t \in Tokens :
           /\ waits'[t].buffers = waits[t].buffers
           /\ waits'[t].status \in {waits[t].status, "cancelled"}
           /\ waits[t].status # "pending" => waits'[t] = waits[t]
           /\ waits'[t].status = "pending" => t \notin T /\ waits'[t] = waits[t]
    BY <1>1, CancelledTable
  <1>3. waits' \in Table
    BY <1>1, TablesCancelled
  <1>4. Bounded' /\ Working' /\ Watched' /\ TokensFresh'
    BY <1>2, TableKept DEF IndInv, history, Pending, Working
  <1>5. OpenWork'
    BY <1>2 DEF IndInv, OpenWork, Pending, PendingOf, history
  <1>6. ForcedNeverSucceeds' /\ ForcedQueued'
    BY <1>1, <1>2, ForcedKept DEF IndInv, Pending, history
  <1> QED
    BY <1>3, <1>4, <1>5, <1>6

\* A reconciliation ends every request left with :q!, and what stays pending
\* has work.
LEMMA ReconcileKept ==
    ASSUME IndInv, NEW acts \in Actions, NEW d \in Docs, NEW ts,
           Reconcile(acts, d, ts), doc' = d, term' = ts,
           UNCHANGED <<link, tokens>>,
           forced' \subseteq forced \union PendingOf(waits),
           \A t \in forced' : Pending(t) =>
              /\ origin[t] # None
              /\ \E i \in DOMAIN acts :
                    /\ acts[i].cancel /\ acts[i].buffer \in waits[t].buffers
                    /\ \A j \in DOMAIN acts :
                          j < i => acts[j].buffer \notin waits[t].buffers
    PROVE  /\ waits' \in Table /\ shared' \in [Buffers -> 0 .. MaxToken]
           /\ Bounded' /\ Working' /\ Watched' /\ TokensFresh'
           /\ OpenWork' /\ ForcedNeverSucceeds' /\ ForcedQueued'
  <1>1. waits \in Table /\ forced' \subseteq Tokens
    BY DEF IndInv, TypeOK, Table, PendingOf
  <1>2. waits' = Reconciled(waits, acts, d, ts)
    BY DEF Reconcile
  <1>3. waits' \in Table
    BY <1>1, <1>2, TablesReconciled
  <1>4. \A t \in Tokens :
           /\ waits[t].status # "pending" => waits'[t] = waits[t]
           /\ waits'[t].status = "pending" =>
                /\ Remaining(waits'[t]) # {}
                /\ \A b \in Remaining(waits'[t]) : d[b] # "closed"
                /\ origin[t] # None => ts[origin[t]] = "live"
    BY <1>1, <1>2, ReconciledTable
  <1>5. Bounded' /\ Working' /\ Watched' /\ TokensFresh'
    BY <1>4, TableKept DEF IndInv, Pending, Reconcile
  <1>6. OpenWork'
    BY <1>4 DEF OpenWork, Pending, Reconcile
  <1>7. \A t \in forced' : waits'[t].status \notin {"pending", "completed"}
    <2> TAKE t \in forced'
    <2>1. CASE ~Pending(t)
      BY <1>1, <1>4, <2>1 DEF IndInv, ForcedNeverSucceeds, Pending, PendingOf
    <2>2. CASE Pending(t)
      <3>1. origin[t] # None /\ waits[t] \in Wait /\ Remaining(waits[t]) # {}
        BY <1>1, <2>2 DEF IndInv, Working, Table
      <3>2. Ended(waits[t], acts, d).status = "cancelled"
        BY <2>2, <3>1, EndedByForce
      <3>3. waits'[t] = Ended(waits[t], acts, d)
        BY <1>1, <1>2, <2>2, <3>1, <3>2 DEF Reconciled, Pending
      <3> QED
        BY <3>2, <3>3
    <2> QED
      BY <2>1, <2>2
  <1>8. ForcedNeverSucceeds' /\ ForcedQueued'
    BY <1>7 DEF ForcedNeverSucceeds, ForcedQueued, Pending
  <1>9. shared' \in [Buffers -> 0 .. MaxToken]
    BY <1>3, CountsType DEF Reconcile
  <1> QED
    BY <1>3, <1>5, <1>6, <1>8, <1>9

-----------------------------------------------------------------------------
(* The actions *)

\* Nothing that IndInv speaks of beside the connections changes.
LEMMA ConnectedInv ==
    ASSUME IndInv, NEW c \in Conns, NEW kind \in {"tui", "control"},
           NEW ok \in BOOLEAN, Connected(c, kind, ok)
    PROVE  IndInv'
  <1> USE DEF Connected, IndInv, hostVars, appVars, history
  <1>1. TypeOK'
    BY WaitConstants DEF TypeOK
  <1>2. \A t \in Tokens : \A k \in Conns :
           link[k] = "control" /\ t \in tokens[k] =>
           link'[k] = "control" /\ t \in tokens'[k]
    BY DEF TypeOK
  <1>3. Bounded' /\ Working' /\ Watched' /\ TokensFresh'
    BY <1>2, TableKept DEF Pending, Working
  <1>4. OpenWork' /\ ForcedNeverSucceeds' /\ ForcedQueued'
    BY DEF OpenWork, ForcedNeverSucceeds, ForcedQueued, Pending, Doomed
  <1> QED
    BY <1>1, <1>3, <1>4

\* A connection that ends takes its requests with it.
LEMMA DisconnectedInv ==
    ASSUME IndInv, NEW c \in Conns, Disconnected(c)
    PROVE  IndInv'
  <1> USE DEF Disconnected, CancelWaits, history
  <1>1. \A t \in Tokens \ Abandoned(c) : \A k \in Conns :
           link[k] = "control" /\ t \in tokens[k] =>
           link'[k] = "control" /\ t \in tokens'[k]
    BY DEF IndInv, TypeOK, Abandoned
  <1>2. /\ waits' \in Table
        /\ Bounded' /\ Working' /\ Watched' /\ TokensFresh'
        /\ OpenWork' /\ ForcedNeverSucceeds' /\ ForcedQueued'
    BY <1>1, CancelKept
  <1>3. shared' \in [Buffers -> 0 .. MaxToken]
    BY <1>2, CountsType DEF IndInv, TypeOK
  <1>4. TypeOK'
    BY <1>2, <1>3, WaitConstants DEF IndInv, TypeOK, Table
  <1> QED
    BY <1>2, <1>4 DEF IndInv

\* The requests that change no request.
LEMMA QuietRequestInv ==
    ASSUME IndInv, NEW c \in Conns, NEW sent \in BOOLEAN,
           \/ OtherRequest(c, sent)
           \/ \E t \in Tokens : AttachWait(t, sent)
           \/ Detach \/ Panics
    PROVE  IndInv'
  <1> USE DEF OtherRequest, AttachWait, Detach, Panics, Reply, MayAsk,
              TuiAttached, hostVars, appVars, connVars, history
  <1>1. TypeOK'
    <2>1. CASE OtherRequest(c, sent)
      BY <2>1, WaitConstants DEF IndInv, TypeOK
    <2>2. CASE \E t \in Tokens : AttachWait(t, sent)
      BY <2>2, WaitConstants DEF IndInv, TypeOK
    <2>3. CASE Detach
      BY <2>3, WaitConstants DEF IndInv, TypeOK
    <2>4. CASE Panics
      BY <2>4, WaitConstants DEF IndInv, TypeOK
    <2> QED
      BY <2>1, <2>2, <2>3, <2>4
  <1>2. /\ UNCHANGED <<waits, origin, nextToken, doc, term, actions,
                       unreconciled, forced, link>>
        /\ \A t \in Tokens : \A k \in Conns : t \in tokens[k] => t \in tokens'[k]
    BY DEF IndInv, TypeOK
  <1>3. Bounded' /\ Working' /\ Watched' /\ TokensFresh'
    BY <1>2, TableKept DEF IndInv, Pending, Working
  <1>4. OpenWork' /\ ForcedNeverSucceeds' /\ ForcedQueued'
    BY <1>2 DEF IndInv, OpenWork, ForcedNeverSucceeds, ForcedQueued, Pending,
                Doomed
  <1> QED
    BY <1>1, <1>3, <1>4 DEF IndInv

\* A new request finds a table with room, and has all of its buffers to wait
\* for.
LEMMA InsertedInv ==
    ASSUME IndInv, NEW B \in NonEmpty, nextToken <= MaxToken,
           HasRoom(Pruned(waits)), Insert(Pruned(waits), B),
           \A b \in B : doc[b] # "closed"
    PROVE  /\ waits' \in Table
           /\ Bounded' /\ Working'
           /\ waits'[nextToken].status = "pending"
           /\ waits'[nextToken].buffers = B /\ waits'[nextToken].completed = {}
           /\ \A t \in Tokens \ {nextToken} :
                 /\ waits[t].status \in {"pending", "absent"} =>
                       waits'[t].status = waits[t].status
                 /\ waits'[t].status # "absent" => waits'[t] = waits[t]
                 /\ waits'[t].status = Pruned(waits)[t].status
           /\ waits[nextToken].status = "absent"
           /\ Pruned(waits)[nextToken].status = "absent"
           /\ nextToken \in Tokens \ forced
  <1>1. waits \in Table /\ nextToken \in Tokens
    BY WaitConstants DEF IndInv, TypeOK, Table, Tokens
  <1>2. nextToken \notin forced /\ waits[nextToken].status = "absent"
    BY <1>1 DEF IndInv, TokensFresh, Tokens
  <1> DEFINE new == [status |-> "pending", buffers |-> B, completed |-> {}]
  <1>3. new \in Wait /\ Remaining(new) # {}
    BY DEF Wait, Remaining, NonEmpty
  <1>4. /\ Pruned(waits) \in Table
        /\ \A t \in Tokens :
              /\ waits[t].status \in {"pending", "absent"} =>
                    Pruned(waits)[t].status = waits[t].status
              /\ Pruned(waits)[t].status # "absent" =>
                    Pruned(waits)[t] = waits[t]
    BY <1>1, PrunedTable
  <1>5. waits' = [Pruned(waits) EXCEPT ![nextToken] = new]
    BY DEF Insert
  <1>6. waits' \in Table
    BY <1>1, <1>3, <1>4, <1>5 DEF Table
  <1>7. waits'[nextToken] = new
        /\ \A t \in Tokens \ {nextToken} : waits'[t] = Pruned(waits)[t]
    BY <1>1, <1>4, <1>5 DEF Table
  <1>8. Bounded'
    <2>1. Recorded(waits') = Recorded(Pruned(waits)) \union {nextToken}
      BY <1>1, <1>7 DEF Recorded
    <2>2. IsFiniteSet(Recorded(Pruned(waits)))
          /\ Cardinality(Recorded(Pruned(waits))) \in 0 .. MaxToken
      BY TokensFinite DEF Recorded
    <2>3. Cardinality(Recorded(waits'))
             <= Cardinality(Recorded(Pruned(waits))) + 1
      <3> DEFINE S == Recorded(Pruned(waits))
      <3> HIDE DEF S
      <3>1. Cardinality(S \union {nextToken}) =
               IF nextToken \in S THEN Cardinality(S) ELSE Cardinality(S) + 1
        BY <2>2, FS_AddElement, Zenon DEF S
      <3>2. Cardinality(S) \in 0 .. MaxToken
        BY <2>2 DEF S
      <3>3. Recorded(waits') = S \union {nextToken}
        BY <2>1 DEF S
      <3>4. Cardinality(S \union {nextToken}) <= Cardinality(S) + 1
        BY <3>1, <3>2, WaitConstants
      <3> QED
        BY <3>3, <3>4 DEF S
    <2>4. Cardinality(Recorded(waits')) \in 0 .. MaxToken
      BY TokensFinite DEF Recorded
    <2> QED
      BY <2>2, <2>3, <2>4, WaitConstants DEF Bounded, HasRoom
  <1>9. Working'
    <2> SUFFICES ASSUME NEW t \in Tokens, waits'[t].status = "pending"
                 PROVE  Remaining(waits'[t]) # {}
      BY DEF Working, Pending
    <2>1. CASE t = nextToken
      BY <1>3, <1>7, <2>1
    <2>2. CASE t # nextToken
      BY <1>4, <1>7, <2>2 DEF IndInv, Working, Pending
    <2> QED
      BY <2>1, <2>2
  <1> QED
    BY <1>1, <1>2, <1>4, <1>6, <1>7, <1>8, <1>9 DEF Pending

\* A new request, pending and with work, keeps the invariant.
LEMMA CreateWaitInv ==
    ASSUME IndInv, NEW c \in Conns, NEW B \in NonEmpty, NEW sent \in BOOLEAN,
           CreateWait(c, B, sent)
    PROVE  IndInv'
  <1> USE DEF CreateWait, appVars, history
  <1>1. /\ waits' \in Table
        /\ Bounded' /\ Working'
        /\ waits'[nextToken].status = "pending"
        /\ waits'[nextToken].buffers = B /\ waits'[nextToken].completed = {}
        /\ \A t \in Tokens \ {nextToken} :
              /\ waits[t].status \in {"pending", "absent"} =>
                    waits'[t].status = waits[t].status
              /\ waits'[t].status # "absent" => waits'[t] = waits[t]
              /\ waits'[t].status = Pruned(waits)[t].status
        /\ waits[nextToken].status = "absent"
        /\ Pruned(waits)[nextToken].status = "absent"
        /\ nextToken \in Tokens \ forced
    BY InsertedInv
  <1>2. \A t \in Tokens : origin'[t] = IF Pruned(waits)[t].status = "absent"
                                       THEN None ELSE origin[t]
    OBVIOUS
  <1>3. \A k \in Conns : tokens[k] \subseteq tokens'[k]
    BY DEF IndInv, TypeOK
  <1>4. TypeOK'
    <2>1. origin' \in [Tokens -> Terminals \union {None}]
      BY <1>1 DEF IndInv, TypeOK
    <2>2. tokens' \in [Conns -> SUBSET Tokens]
      BY <1>1 DEF IndInv, TypeOK
    <2>3. nextToken' \in 1 .. MaxToken + 1
      BY WaitConstants DEF IndInv, TypeOK
    <2> QED
      BY <1>1, <2>1, <2>2, <2>3, WaitConstants
      DEF IndInv, TypeOK, Table, Reply, MayAsk
  <1>5. Watched'
    BY <1>1, <1>2, <1>3 DEF IndInv, Watched, Pending
  <1>6. TokensFresh'
    BY <1>1, <1>2, WaitConstants DEF IndInv, TypeOK, TokensFresh, Tokens
  <1>7. OpenWork'
    <2> SUFFICES ASSUME ~unreconciled, NEW t \in Tokens,
                        waits'[t].status = "pending"
                 PROVE  /\ \A b \in Remaining(waits'[t]) : doc[b] # "closed"
                        /\ origin'[t] # None => term[origin'[t]] = "live"
      BY DEF OpenWork, Pending
    <2>1. CASE t = nextToken
      BY <1>1, <1>2, <2>1 DEF Remaining
    <2>2. CASE t # nextToken
      BY <1>1, <1>2, <2>2 DEF IndInv, OpenWork, Pending
    <2> QED
      BY <2>1, <2>2
  <1>8. ForcedNeverSucceeds' /\ ForcedQueued'
    <2> SUFFICES ASSUME NEW t \in forced
                 PROVE  /\ waits'[t].status # "completed"
                        /\ waits'[t].status = "pending" =>
                              origin'[t] # None /\ Doomed(t)'
      BY DEF ForcedNeverSucceeds, ForcedQueued, Pending
    <2>1. t \in Tokens \ {nextToken}
      BY <1>1 DEF IndInv, TypeOK
    <2>2. waits'[t].status # "completed"
      BY <1>1, <2>1 DEF IndInv, ForcedNeverSucceeds
    <2>3. ASSUME waits'[t].status = "pending"
          PROVE  /\ waits'[t] = waits[t] /\ origin'[t] = origin[t]
                 /\ origin[t] # None /\ Doomed(t)
      BY <1>1, <1>2, <2>1, <2>3 DEF IndInv, ForcedQueued, Pending
    <2>4. actions' = actions
      OBVIOUS
    <2> QED
      BY <2>2, <2>3, <2>4 DEF Doomed
  <1> QED
    BY <1>1, <1>4, <1>5, <1>6, <1>7, <1>8 DEF IndInv

\* So does a request made from a terminal of the workspace.
LEMMA ParentWaitInv ==
    ASSUME IndInv, NEW c \in Conns, NEW B \in NonEmpty, NEW u \in Terminals,
           NEW sent \in BOOLEAN, ParentWait(c, u, B, sent)
    PROVE  IndInv'
  <1> USE DEF ParentWait, history
  <1>1. /\ waits' \in Table
        /\ Bounded' /\ Working'
        /\ waits'[nextToken].status = "pending"
        /\ waits'[nextToken].buffers = B /\ waits'[nextToken].completed = {}
        /\ \A t \in Tokens \ {nextToken} :
              /\ waits[t].status \in {"pending", "absent"} =>
                    waits'[t].status = waits[t].status
              /\ waits'[t].status # "absent" => waits'[t] = waits[t]
              /\ waits'[t].status = Pruned(waits)[t].status
        /\ waits[nextToken].status = "absent"
        /\ Pruned(waits)[nextToken].status = "absent"
        /\ nextToken \in Tokens \ forced
    BY InsertedInv
  <1>2. /\ origin'[nextToken] = u
        /\ \A t \in Tokens \ {nextToken} :
              origin'[t] = IF Pruned(waits)[t].status = "absent"
                           THEN None ELSE origin[t]
    BY <1>1
  <1>3. /\ \A k \in Conns : tokens[k] \subseteq tokens'[k]
        /\ link[c] = "control" /\ nextToken \in tokens'[c] /\ link' = link
    BY DEF IndInv, TypeOK
  <1>4. TypeOK'
    <2>1. origin' \in [Tokens -> Terminals \union {None}]
      BY <1>1 DEF IndInv, TypeOK
    <2>2. tokens' \in [Conns -> SUBSET Tokens]
      BY <1>1 DEF IndInv, TypeOK
    <2>3. nextToken' \in 1 .. MaxToken + 1
      BY WaitConstants DEF IndInv, TypeOK
    <2>4. shared' \in [Buffers -> 0 .. MaxToken]
      BY <1>1, CountsType
    <2> QED
      BY <1>1, <2>1, <2>2, <2>3, <2>4, WaitConstants
      DEF IndInv, TypeOK, Table, Reply, MayAsk
  <1>5. Watched'
    BY <1>1, <1>2, <1>3 DEF IndInv, Watched, Pending
  <1>6. TokensFresh'
    BY <1>1, <1>2, WaitConstants DEF IndInv, TypeOK, TokensFresh, Tokens
  <1>7. OpenWork'
    <2> SUFFICES ASSUME ~unreconciled, NEW t \in Tokens,
                        waits'[t].status = "pending"
                 PROVE  /\ \A b \in Remaining(waits'[t]) : doc[b] # "closed"
                        /\ origin'[t] # None => term[origin'[t]] = "live"
      BY DEF OpenWork, Pending
    <2>1. CASE t = nextToken
      BY <1>1, <1>2, <2>1 DEF Remaining
    <2>2. CASE t # nextToken
      BY <1>1, <1>2, <2>2 DEF IndInv, OpenWork, Pending
    <2> QED
      BY <2>1, <2>2
  <1>8. ForcedNeverSucceeds' /\ ForcedQueued'
    <2> SUFFICES ASSUME NEW t \in forced
                 PROVE  /\ waits'[t].status # "completed"
                        /\ waits'[t].status = "pending" =>
                              origin'[t] # None /\ Doomed(t)'
      BY DEF ForcedNeverSucceeds, ForcedQueued, Pending
    <2>1. t \in Tokens \ {nextToken}
      BY <1>1 DEF IndInv, TypeOK
    <2>2. waits'[t].status # "completed"
      BY <1>1, <2>1 DEF IndInv, ForcedNeverSucceeds
    <2>3. ASSUME waits'[t].status = "pending"
          PROVE  /\ waits'[t] = waits[t] /\ origin'[t] = origin[t]
                 /\ origin[t] # None /\ Doomed(t)
      BY <1>1, <1>2, <2>1, <2>3 DEF IndInv, ForcedQueued, Pending
    <2>4. actions' = actions
      OBVIOUS
    <2> QED
      BY <2>2, <2>3, <2>4 DEF Doomed
  <1> QED
    BY <1>1, <1>4, <1>5, <1>6, <1>7, <1>8 DEF IndInv

\* A refused request keeps the invariant, though the table was pruned.
LEMMA WaitRefusedInv ==
    ASSUME IndInv, NEW c \in Conns, NEW sent \in BOOLEAN, WaitRefused(c, sent)
    PROVE  IndInv'
  <1> USE DEF WaitRefused, appVars, history
  <1>1. waits \in Table
    BY DEF IndInv, TypeOK, Table
  <1>2. \A t \in Tokens :
           /\ waits'[t].status # "absent" => waits'[t] = waits[t]
           /\ waits[t].status \in {"pending", "absent"} =>
                 waits'[t].status = waits[t].status
    BY <1>1, PrunedTable
  <1>3. waits' \in Table
    <2>1. CASE Tokens = {}
      BY <2>1 DEF Table, Pruned
    <2>2. CASE Tokens # {}
      BY <1>1, <2>2, PrunedTable
    <2> QED
      BY <2>1, <2>2
  <1>4. \A t \in Tokens : origin'[t] = IF waits'[t].status = "absent"
                                       THEN None ELSE origin[t]
    OBVIOUS
  <1>5. TypeOK'
    BY <1>3, WaitConstants DEF IndInv, TypeOK, Table, Reply, MayAsk
  <1>6. Bounded'
    <2>1. Cardinality(Recorded(waits')) <= Cardinality(Recorded(waits))
      BY <1>2, FewerRecorded
    <2>2. /\ Cardinality(Recorded(waits)) \in Int
          /\ Cardinality(Recorded(waits')) \in Int
      BY TokensFinite, WaitConstants DEF Recorded
    <2> QED
      BY <2>1, <2>2, WaitConstants DEF IndInv, Bounded
  <1>7. Working' /\ Watched' /\ TokensFresh' /\ OpenWork'
    BY <1>2, <1>4
    DEF IndInv, Working, Watched, TokensFresh, OpenWork, Pending
  <1>8. ForcedNeverSucceeds' /\ ForcedQueued'
    BY <1>2, <1>4, ZenonT(60)
    DEF IndInv, TypeOK, ForcedNeverSucceeds, ForcedQueued, Pending, Doomed
  <1> QED
    BY <1>5, <1>6, <1>7, <1>8 DEF IndInv

\* A caller that declares a buffer finished keeps the invariant.
LEMMA CompleteWaitBufferInv ==
    ASSUME IndInv, NEW c \in Conns, NEW u \in Tokens, NEW b \in Buffers,
           NEW sent \in BOOLEAN, CompleteWaitBuffer(c, u, b, sent)
    PROVE  IndInv'
  <1> USE DEF CompleteWaitBuffer, appVars
  <1> DEFINE r == [waits[u] EXCEPT !.completed = @ \union {b}]
  <1>1. /\ waits[u] \in Wait /\ r \in Wait
        /\ r.buffers = waits[u].buffers
        /\ Remaining(r) \subseteq Remaining(waits[u])
    BY ZenonT(60) DEF IndInv, TypeOK, Wait, Remaining
  <1>2. /\ waits'[u] = Updated(r)
        /\ waits' \in Table
        /\ \A t \in Tokens \ {u} : waits'[t] = waits[t]
    BY <1>1, UpdatedRequest DEF IndInv, TypeOK, Table
  <1>3. /\ waits'[u].buffers = waits[u].buffers
        /\ Remaining(waits'[u]) \subseteq Remaining(waits[u])
        /\ waits'[u].status \in {"pending", "completed"}
        /\ waits'[u].status = "pending" => Remaining(waits'[u]) # {}
    <2> HIDE DEF r
    <2> QED
      BY <1>1, <1>2, UpdatedRequest, ZenonT(60) DEF Remaining
  <1> HIDE DEF r
  <1>4. TypeOK'
    BY <1>2, WaitConstants DEF IndInv, TypeOK, Table, Reply, MayAsk
  <1>5. Bounded' /\ Working' /\ Watched' /\ TokensFresh'
    <2>1. \A t \in Tokens :
             /\ waits[t].status = "absent" => waits'[t].status = "absent"
             /\ waits'[t].status = "pending" =>
                   /\ waits[t].status = "pending"
                   /\ Remaining(waits'[t]) # {}
      BY <1>2, <1>3 DEF IndInv, Working, Pending
    <2> QED
      BY <2>1, TableKept DEF IndInv, Pending
  <1>6. OpenWork'
    BY <1>2, <1>3 DEF IndInv, OpenWork, Pending
  <1>7. ForcedNeverSucceeds' /\ ForcedQueued'
    BY <1>2
    DEF IndInv, TypeOK, ForcedNeverSucceeds, ForcedQueued, Pending, Doomed
  <1> QED
    BY <1>4, <1>5, <1>6, <1>7 DEF IndInv

\* The steps that only cancel.
LEMMA CancelInv ==
    ASSUME IndInv,
           \/ \E c \in Conns, t \in Tokens, sent \in BOOLEAN :
                 CancelWait(c, t, sent)
           \/ SwitchWorkspace
    PROVE  IndInv'
  <1>1. PICK T : CancelWaits(T)
    BY DEF CancelWait, SwitchWorkspace
  <1>2. UNCHANGED <<link, tokens, pc, attachment>>
    BY DEF CancelWait, SwitchWorkspace
  <1>3. /\ waits' \in Table
        /\ Bounded' /\ Working' /\ Watched' /\ TokensFresh'
        /\ OpenWork' /\ ForcedNeverSucceeds' /\ ForcedQueued'
    BY <1>1, <1>2, CancelKept DEF CancelWaits
  <1>4. shared' \in [Buffers -> 0 .. MaxToken]
    BY <1>1, <1>3, CountsType DEF CancelWaits, IndInv, TypeOK
  <1>5. active' \in {active, None} /\ controls' \subseteq controls
    BY DEF CancelWait, SwitchWorkspace, Reply, connVars
  <1>6. TypeOK'
    BY <1>1, <1>2, <1>3, <1>4, <1>5 DEF CancelWaits, IndInv, TypeOK, Table, history
  <1> QED
    BY <1>3, <1>6 DEF IndInv

-----------------------------------------------------------------------------
(* The editor and the terminals *)

\* No parent edits are a queue of parent edits.
LEMMA EmptyActions == <<>> \in Actions
  BY DEF Actions

\* The states of the terminals.
Terms == [Terminals -> {"live", "exited", "closed"}]

\* The queue acts of parent edits ends t, if it is still pending.
DoomedIn(acts, t) ==
    /\ origin[t] # None
    /\ \E i \in DOMAIN acts :
          /\ acts[i].cancel /\ acts[i].buffer \in waits[t].buffers
          /\ \A j \in DOMAIN acts :
                j < i => acts[j].buffer \notin waits[t].buffers

\* What the host does after the editor ran keeps the invariant, if the requests
\* newly forced are pending and their end is queued.
LEMMA AfterEditorInv ==
    ASSUME IndInv, NEW reconciles \in BOOLEAN, NEW acts \in Actions,
           NEW counts \in [Buffers -> 0 .. MaxToken], NEW d \in Docs,
           NEW ts \in Terms, AfterEditor(reconciles, acts, counts, d, ts),
           forced' \subseteq forced \union PendingOf(waits),
           \A t \in forced' : Pending(t) => DoomedIn(acts, t)
    PROVE  IndInv'
  <1> USE DEF AfterEditor, connVars
  <1>0. forced' \subseteq Tokens
    BY DEF IndInv, TypeOK, PendingOf
  <1>1. CASE reconciles
    <2>1. Reconcile(acts, d, ts) /\ UNCHANGED <<pc, connVars>>
      BY <1>1
    <2>2. /\ waits' \in Table /\ shared' \in [Buffers -> 0 .. MaxToken]
          /\ Bounded' /\ Working' /\ Watched' /\ TokensFresh'
          /\ OpenWork' /\ ForcedNeverSucceeds' /\ ForcedQueued'
      BY <1>0, <2>1, ReconcileKept DEF DoomedIn
    <2>3. actions' \in Actions /\ unreconciled' \in BOOLEAN
          /\ UNCHANGED <<nextToken, origin>>
      BY <2>1, EmptyActions DEF Reconcile
    <2>4. TypeOK'
      BY <1>0, <2>1, <2>2, <2>3 DEF IndInv, TypeOK, Table, Actions, Docs, Terms
    <2> QED
      BY <2>2, <2>4 DEF IndInv
  <1>2. CASE ~reconciles
    <2>1. /\ actions' = acts /\ shared' = counts /\ unreconciled' = TRUE
          /\ UNCHANGED <<hostVars, pc, connVars>>
      BY <1>2
    <2>2. TypeOK'
      BY <1>0, <2>1
      DEF IndInv, TypeOK, Actions, Docs, Terms, hostVars
    <2>3. Bounded' /\ Working' /\ Watched' /\ TokensFresh'
      BY <2>1, TableKept DEF IndInv, Working, Pending, hostVars
    <2>4. OpenWork'
      BY <2>1 DEF OpenWork
    <2>5. ForcedNeverSucceeds'
      BY <2>1 DEF IndInv, ForcedNeverSucceeds, PendingOf, hostVars
    <2>6. ForcedQueued'
      BY <2>1 DEF ForcedQueued, Pending, Doomed, DoomedIn, hostVars
    <2> QED
      BY <2>2, <2>3, <2>4, <2>5, <2>6 DEF IndInv
  <1> QED
    BY <1>1, <1>2

\* Every step of the editor's buffers and terminals.
LEMMA EditorInv ==
    ASSUME IndInv, EditorEvent
    PROVE  IndInv'
  <1>0. /\ actions \in Actions /\ shared \in [Buffers -> 0 .. MaxToken]
        /\ doc \in Docs /\ term \in Terms
        /\ \A t \in forced : Pending(t) => DoomedIn(actions, t)
    BY DEF IndInv, TypeOK, Actions, Docs, Terms, ForcedQueued, Doomed, DoomedIn
  <1>1. ASSUME NEW b \in Buffers, NEW reconciles \in BOOLEAN,
               NEW state \in {"clean", "dirty", "closed"},
               EditorChanges(b, state, reconciles)
        PROVE  IndInv'
    <2>1. [doc EXCEPT ![b] = state] \in Docs
      BY <1>0 DEF Docs
    <2> QED
      BY <1>0, <1>1, <2>1, AfterEditorInv DEF EditorChanges
  <1>2. ASSUME NEW b \in Buffers, NEW cancel \in BOOLEAN,
               NEW reconciles \in BOOLEAN,
               CompleteParentWait(b, cancel, reconciles)
        PROVE  IndInv'
    <2> DEFINE acts == Append(actions, [buffer |-> b, cancel |-> cancel])
    <2>1. [doc EXCEPT ![b] = "clean"] \in Docs
          /\ [shared EXCEPT ![b] = 0] \in [Buffers -> 0 .. MaxToken]
      BY <1>0, WaitConstants DEF Docs
    <2>2. /\ acts \in Actions /\ Len(acts) = Len(actions) + 1
          /\ DOMAIN acts = 1 .. Len(actions) + 1
          /\ DOMAIN actions = 1 .. Len(actions)
          /\ acts[Len(actions) + 1] = [buffer |-> b, cancel |-> cancel]
          /\ \A i \in DOMAIN actions : acts[i] = actions[i]
          /\ Len(actions) \in Nat
      BY <1>0 DEF Actions
    <2>3. \A t \in forced : Pending(t) => DoomedIn(acts, t)
      <3> HIDE DEF acts
      <3> SUFFICES ASSUME NEW t \in forced, DoomedIn(actions, t)
                   PROVE  DoomedIn(acts, t)
        BY <1>0
      <3> QED
        BY <2>2 DEF DoomedIn
    <2>4. \A t \in EndedBy(b) : cancel => DoomedIn(acts, t)
      <3> HIDE DEF acts
      <3> SUFFICES ASSUME NEW t \in EndedBy(b), cancel
                   PROVE  DoomedIn(acts, t)
        OBVIOUS
      <3>1. /\ origin[t] # None /\ b \in waits[t].buffers
            /\ \A i \in DOMAIN actions : actions[i].buffer \notin waits[t].buffers
        BY DEF EndedBy
      <3>2. /\ acts[Len(actions) + 1].cancel
            /\ acts[Len(actions) + 1].buffer \in waits[t].buffers
            /\ \A j \in DOMAIN acts : j < Len(actions) + 1 =>
                  acts[j].buffer \notin waits[t].buffers
        BY <2>2, <3>1
      <3> QED
        BY <2>2, <3>1, <3>2 DEF DoomedIn
    <2>5. /\ forced' = IF cancel THEN forced \union EndedBy(b) ELSE forced
          /\ EndedBy(b) \subseteq PendingOf(waits)
      <3>1. EndedBy(b) \subseteq PendingOf(waits)
        BY DEF EndedBy
      <3>2. forced' = IF cancel THEN forced \union EndedBy(b) ELSE forced
        BY <1>2 DEF CompleteParentWait
      <3> QED
        BY <3>1, <3>2
    <2>6. AfterEditor(reconciles, acts, [shared EXCEPT ![b] = 0],
                      [doc EXCEPT ![b] = "clean"], term)
      BY <1>2 DEF CompleteParentWait
    <2> HIDE DEF acts
    <2>7. forced' \subseteq forced \union PendingOf(waits)
          /\ \A t \in forced' : Pending(t) => DoomedIn(acts, t)
      BY <2>3, <2>4, <2>5
    <2> QED
      BY <1>0, <2>1, <2>2, <2>6, <2>7, AfterEditorInv
  <1>3. ASSUME NEW b \in Buffers, SaveBegins(b)
        PROVE  IndInv'
    <2> USE <1>3 DEF SaveBegins, connVars, hostVars, history
    <2>1. TypeOK'
      BY DEF IndInv, TypeOK
    <2>2. Bounded' /\ Working' /\ Watched' /\ TokensFresh'
      BY TableKept DEF IndInv, Working, Pending
    <2>3. OpenWork' /\ ForcedNeverSucceeds' /\ ForcedQueued'
      BY DEF IndInv, TypeOK, OpenWork, ForcedNeverSucceeds, ForcedQueued,
             Pending, Doomed
    <2> QED
      BY <2>1, <2>2, <2>3 DEF IndInv
  <1>4. ASSUME NEW b \in Buffers, NEW saved \in BOOLEAN, SaveEnds(b, saved)
        PROVE  IndInv'
    <2>1. doc' \in Docs
      BY <1>0, <1>4 DEF SaveEnds, Docs
    <2>2. AfterEditor(TRUE, actions, shared, doc', term)
      BY <1>4 DEF SaveEnds, AfterEditor
    <2>3. forced' = forced
      BY <1>4 DEF SaveEnds
    <2> QED
      BY <1>0, <2>1, <2>2, <2>3, AfterEditorInv
  <1>5. ASSUME NEW t \in Terminals, TerminalExits(t)
        PROVE  IndInv'
    <2>1. term' \in Terms
      BY <1>0, <1>5 DEF TerminalExits, Terms
    <2>2. AfterEditor(TRUE, actions, shared, doc, term')
      BY <1>5 DEF TerminalExits, AfterEditor
    <2>3. forced' = forced
      BY <1>5 DEF TerminalExits
    <2> QED
      BY <1>0, <2>1, <2>2, <2>3, AfterEditorInv
  <1>6. ASSUME NEW t \in Terminals, NEW reconciles \in BOOLEAN,
               CloseTerminal(t, reconciles)
        PROVE  IndInv'
    <2>1. [term EXCEPT ![t] = "closed"] \in Terms
      BY <1>0 DEF Terms
    <2> QED
      BY <1>0, <1>6, <2>1, AfterEditorInv DEF CloseTerminal
  <1> QED
    BY <1>1, <1>2, <1>3, <1>4, <1>5, <1>6 DEF EditorEvent

\* CloseBuffer reconciles too, but its reply may end the connection's use.
LEMMA CloseBufferInv ==
    ASSUME IndInv, NEW c \in Conns, NEW b \in Buffers, NEW discard \in BOOLEAN,
           NEW sent \in BOOLEAN, CloseBuffer(c, b, discard, sent)
    PROVE  IndInv'
  <1> USE DEF CloseBuffer
  <1>1. /\ actions \in Actions /\ doc' \in Docs
        /\ \A t \in forced : Pending(t) => DoomedIn(actions, t)
    BY DEF IndInv, TypeOK, Actions, Docs, ForcedQueued, Doomed, DoomedIn
  <1>2. /\ waits' \in Table /\ shared' \in [Buffers -> 0 .. MaxToken]
        /\ Bounded' /\ Working' /\ Watched' /\ TokensFresh'
        /\ OpenWork' /\ ForcedNeverSucceeds' /\ ForcedQueued'
    BY <1>1, ReconcileKept DEF DoomedIn
  <1>3. /\ actions' \in Actions /\ unreconciled' \in BOOLEAN
        /\ UNCHANGED <<nextToken, origin>>
    BY EmptyActions DEF Reconcile
  <1>4. active' \in {active, None} /\ controls' \subseteq controls
    BY DEF Reply
  <1>5. TypeOK'
    BY <1>1, <1>2, <1>3, <1>4 DEF IndInv, TypeOK, Table, Actions, Docs
  <1> QED
    BY <1>2, <1>5 DEF IndInv

-----------------------------------------------------------------------------
(* The TUI leaves, the host ends *)

\* Completing the attached TUI's requests: what it does to one request, and
\* that the parent edits queued so far are carried out.
LEMMA AttachedTable ==
    ASSUME IndInv, NEW T \in SUBSET Tokens, CompleteAttachedWaits(T)
    PROVE  /\ waits' \in Table /\ shared' \in [Buffers -> 0 .. MaxToken]
           /\ actions' \in Actions /\ unreconciled' \in BOOLEAN
           /\ \A t \in Tokens :
                 /\ waits[t].status # "pending" => waits'[t] = waits[t]
                 /\ waits[t].status = "pending" =>
                       /\ waits'[t].status # "absent"
                       /\ waits'[t].buffers = waits[t].buffers
                 /\ waits'[t].status = "pending" =>
                       Remaining(waits'[t]) # {}
                 /\ waits'[t].status = "pending" /\ T # {} =>
                       /\ t \notin T
                       /\ \A b \in Remaining(waits'[t]) : doc[b] # "closed"
                       /\ origin[t] # None => term[origin[t]] = "live"
                 /\ Pending(t) /\ waits'[t].status = "completed" =>
                       \A b \in Remaining(waits[t]) :
                           doc[b] \in {"clean", "closed"}
           /\ T = {} => UNCHANGED <<waits, actions, unreconciled>>
  <1> USE DEF CompleteAttachedWaits, AfterAttached
  <1>1. waits \in Table /\ actions \in Actions /\ doc \in Docs
        /\ shared \in [Buffers -> 0 .. MaxToken] /\ unreconciled \in BOOLEAN
    BY DEF IndInv, TypeOK, Table, Actions, Docs
  <1>2. CASE T = {}
    BY <1>1, <1>2 DEF IndInv, Working, Pending, Table
  <1>3. CASE T # {}
    <2> DEFINE w == Reconciled(waits, actions, doc, term)
    <2>1. w \in Table
      BY <1>1, TablesReconciled
    <2>2. waits' = Finished(w, T)
      BY <1>3
    <2>3. waits' \in Table
      <3>1. CASE Tokens = {}
        BY <2>2, <3>1 DEF Table, Finished
      <3>2. CASE Tokens # {}
        <4> HIDE DEF w
        <4> QED
          BY <2>1, <2>2, <3>2, FinishedTable
      <3> QED
        BY <3>1, <3>2
    <2>4. shared' \in [Buffers -> 0 .. MaxToken]
      <3>1. \A last \in T : [waits' EXCEPT ![last] = w[last]] \in Table
        <4> HIDE DEF w
        <4> QED
          BY <2>1, <2>3 DEF Table
      <3>2. PICK last \in T :
               shared' = Counts(IF waits'[last].status = "completed"
                                THEN [waits' EXCEPT ![last] = w[last]]
                                ELSE waits', origin)
        BY <1>3
      <3> HIDE DEF w
      <3>3. (IF waits'[last].status = "completed"
             THEN [waits' EXCEPT ![last] = w[last]] ELSE waits') \in Table
        BY <2>3, <3>1
      <3> QED
        BY <3>2, <3>3, CountsType
    <2>5. actions' \in Actions /\ unreconciled' \in BOOLEAN
      BY <1>3, EmptyActions
    <2>6. ASSUME NEW t \in Tokens
          PROVE  /\ waits[t].status # "pending" => waits'[t] = waits[t]
                 /\ waits[t].status = "pending" =>
                       /\ waits'[t].status # "absent"
                       /\ waits'[t].buffers = waits[t].buffers
                 /\ waits'[t].status = "pending" =>
                       /\ Remaining(waits'[t]) # {}
                       /\ t \notin T
                       /\ \A b \in Remaining(waits'[t]) : doc[b] # "closed"
                       /\ origin[t] # None => term[origin[t]] = "live"
                 /\ Pending(t) /\ waits'[t].status = "completed" =>
                       \A b \in Remaining(waits[t]) :
                           doc[b] \in {"clean", "closed"}
      <3>1. /\ waits[t].status # "pending" => w[t] = waits[t]
            /\ waits[t].status = "pending" =>
                 /\ w[t].status \in {"pending", "completed", "cancelled"}
                 /\ w[t].buffers = waits[t].buffers
                 /\ \A b \in Remaining(waits[t]) \ Remaining(w[t]) :
                       doc[b] \in {"clean", "closed"}
                 /\ w[t].status = "completed" => Remaining(w[t]) = {}
            /\ w[t].status = "pending" =>
                 /\ Remaining(w[t]) # {}
                 /\ \A b \in Remaining(w[t]) : doc[b] # "closed"
                 /\ origin[t] # None => term[origin[t]] = "live"
        <4> HIDE DEF CompleteAttachedWaits, AfterAttached
        <4> QED
          BY <1>1, ReconciledTable, SMTT(90)
      <3> HIDE DEF w
      <3>2. /\ waits'[t].buffers = w[t].buffers
            /\ w[t].status # "pending" => waits'[t] = w[t]
            /\ w[t].status = "pending" => waits'[t].status # "absent"
            /\ waits'[t].status = "pending" => t \notin T /\ waits'[t] = w[t]
            /\ w[t].status = "pending" /\ waits'[t].status = "completed" =>
                  \A b \in Remaining(w[t]) : doc[b] = "clean"
        BY <2>1, <2>2, FinishedTable
      <3> QED
        BY <3>1, <3>2 DEF Pending
    <2> QED
      BY <1>3, <2>3, <2>4, <2>5, <2>6
  <1> QED
    BY <1>2, <1>3

\* The end of the attached client's requests keeps the invariant.
LEMMA AttachedInv ==
    ASSUME IndInv, NEW T \in SUBSET Tokens, CompleteAttachedWaits(T),
           UNCHANGED <<link, controls, attachment, tokens>>,
           active' \in {active, None}, pc' \in {"run", "stopped"},
           term' \in [Terminals -> {"live", "exited", "closed"}],
           term' = term \/ PendingOf(waits') = {}
    PROVE  IndInv'
  <1>1. /\ waits' \in Table /\ shared' \in [Buffers -> 0 .. MaxToken]
        /\ actions' \in Actions /\ unreconciled' \in BOOLEAN
        /\ T = {} => UNCHANGED <<waits, actions, unreconciled>>
        /\ UNCHANGED <<nextToken, origin, doc, forced>>
    BY AttachedTable DEF CompleteAttachedWaits
  <1>2. \A t \in Tokens :
           /\ waits[t].status # "pending" => waits'[t] = waits[t]
           /\ waits'[t].status = "pending" => Remaining(waits'[t]) # {}
           /\ waits'[t].status = "pending" /\ T # {} =>
                 /\ \A b \in Remaining(waits'[t]) : doc[b] # "closed"
                 /\ origin[t] # None => term[origin[t]] = "live"
    BY AttachedTable
  <1>3. TypeOK'
    BY <1>1 DEF IndInv, TypeOK, Table, Actions
  <1>4. Bounded' /\ Working' /\ Watched' /\ TokensFresh'
    BY <1>1, <1>2, TableKept DEF IndInv, Pending
  <1>5. OpenWork'
    BY <1>1, <1>2 DEF IndInv, OpenWork, Pending, PendingOf
  <1>6. ForcedNeverSucceeds' /\ ForcedQueued'
    <2>1. CASE T = {}
      BY <1>1, <2>1
      DEF IndInv, ForcedNeverSucceeds, ForcedQueued, Pending, Doomed
    <2>2. CASE T # {}
      <3>1. ASSUME NEW t \in forced
            PROVE  waits'[t].status \notin {"pending", "completed"}
        <4> DEFINE w == Reconciled(waits, actions, doc, term)
        <4>0. /\ t \in Tokens /\ waits \in Table /\ actions \in Actions
              /\ doc \in Docs
          BY DEF IndInv, TypeOK, Table, Actions, Docs
        <4>1. w[t].status \notin {"pending", "completed"}
          <5>1. CASE ~Pending(t)
            BY <4>0, <5>1, ReconciledTable
            DEF IndInv, ForcedNeverSucceeds, Pending
          <5>2. CASE Pending(t)
            <6>1. origin[t] # None /\ Doomed(t) /\ waits[t] \in Wait
                  /\ Remaining(waits[t]) # {}
              BY <4>0, <5>2 DEF IndInv, ForcedQueued, Working, Table
            <6>2. Ended(waits[t], actions, doc).status = "cancelled"
              BY <4>0, <6>1, EndedByForce DEF Doomed
            <6> QED
              BY <4>0, <5>2, <6>1, <6>2 DEF Reconciled, Pending
          <5> QED
            BY <5>1, <5>2
        <4>2. w \in Table
          BY <4>0, TablesReconciled
        <4>3. waits' = Finished(w, T)
          BY <2>2 DEF CompleteAttachedWaits, AfterAttached
        <4> HIDE DEF w
        <4> QED
          BY <4>0, <4>1, <4>2, <4>3, FinishedTable
      <3> QED
        BY <1>1, <3>1 DEF ForcedNeverSucceeds, ForcedQueued, Pending
    <2> QED
      BY <2>1, <2>2
  <1> QED
    BY <1>3, <1>4, <1>5, <1>6 DEF IndInv

\* :detach and :quit.
LEMMA LeaveInv ==
    ASSUME IndInv,
           \/ FinishAttachedDetach
           \/ \E force, terminate, sent \in BOOLEAN :
                 FinishAttachedQuit(force, terminate, sent)
    PROVE  IndInv'
  <1>1. TuiAttached /\ active \in Conns
    BY DEF FinishAttachedDetach, FinishAttachedQuit, TuiAttached, IndInv, TypeOK
  <1> DEFINE T == tokens[active]
  <1>2. T \in SUBSET Tokens
    BY <1>1 DEF IndInv, TypeOK
  <1>3. term \in [Terminals -> {"live", "exited", "closed"}]
    BY DEF IndInv, TypeOK
  <1>4. CASE FinishAttachedDetach
    <2>1. /\ CompleteAttachedWaits(T)
          /\ UNCHANGED <<link, controls, attachment, tokens, term>>
          /\ active' = None /\ pc' = "run"
      BY <1>1, <1>4 DEF FinishAttachedDetach, TuiAttached
    <2> HIDE DEF T
    <2> QED
      BY <1>2, <1>3, <2>1, AttachedInv
  <1>5. ASSUME NEW force \in BOOLEAN, NEW terminate \in BOOLEAN,
               NEW sent \in BOOLEAN, FinishAttachedQuit(force, terminate, sent)
        PROVE  IndInv'
    <2>1. /\ CompleteAttachedWaits(T)
          /\ UNCHANGED <<link, controls, attachment, tokens>>
          /\ waits' = AfterAttached(T)
      BY <1>5 DEF FinishAttachedQuit, CompleteAttachedWaits
    <2>2. active' \in {active, None} /\ pc' \in {"run", "stopped"}
      BY <1>1, <1>5 DEF FinishAttachedQuit, TuiAttached
    <2>3. term' \in [Terminals -> {"live", "exited", "closed"}]
      BY <1>3, <1>5 DEF FinishAttachedQuit
    <2>4. term' = term \/ PendingOf(waits') = {}
      BY <1>5, <2>1 DEF FinishAttachedQuit, Unprotected
    <2> HIDE DEF T
    <2> QED
      BY <1>2, <2>1, <2>2, <2>3, <2>4, AttachedInv
  <1> QED
    BY <1>4, <1>5

\* The ends of the loop.
LEMMA EndLoopInv ==
    ASSUME IndInv, (\E c \in Conns : Shutdown(c)) \/ RetireIdle \/ Kill
    PROVE  IndInv'
  <1>1. PICK how \in {"stopped", "killed"} : EndLoop(how)
    BY DEF Shutdown, RetireIdle, Kill
  <1>2. /\ waits' = Cancelled(waits, Tokens)
        /\ pc' \in {"stopped", "killed"}
        /\ UNCHANGED <<link, active, controls, attachment, tokens, nextToken,
                       origin, doc, term, shared, actions, history>>
    BY <1>1 DEF EndLoop, connVars, appVars
  <1>3. /\ waits' \in Table
        /\ Bounded' /\ Working' /\ Watched' /\ TokensFresh'
        /\ OpenWork' /\ ForcedNeverSucceeds' /\ ForcedQueued'
    BY <1>2, CancelKept
  <1>4. TypeOK'
    BY <1>2, <1>3 DEF IndInv, TypeOK, Table, history
  <1> QED
    BY <1>3, <1>4 DEF IndInv
-----------------------------------------------------------------------------
(* The theorems *)

\* Nothing is asked, recorded or edited at the start.
LEMMA InitInv ==
    ASSUME Init PROVE IndInv
  <1> USE DEF Init
  <1>1. Absent \in Wait /\ Absent.status = "absent"
    BY DEF Absent, Wait
  <1>2. TypeOK
    <2>1. actions \in Seq([buffer : Buffers, cancel : BOOLEAN])
      BY EmptyActions DEF Actions
    <2>2. nextToken \in 1 .. MaxToken + 1
          /\ shared \in [Buffers -> 0 .. MaxToken]
      BY WaitConstants
    <2>3. waits \in [Tokens -> Wait]
      BY <1>1
    <2> QED
      BY <2>1, <2>2, <2>3 DEF TypeOK
  <1>3. \A t \in Tokens : waits[t].status = "absent" /\ origin[t] = None
    BY <1>1
  <1>4. Bounded
    <2>1. Recorded(waits) = {}
      BY <1>3 DEF Recorded
    <2>2. Cardinality(Recorded(waits)) = 0
      BY <2>1, FS_EmptySet, Zenon
    <2>3. 0 <= MaxWaitRequests
      BY WaitConstants
    <2> QED
      BY <2>2, <2>3, Zenon DEF Bounded
  <1>5. Working /\ Watched /\ OpenWork
    BY <1>3 DEF Working, Watched, OpenWork, Pending
  <1>6. ForcedNeverSucceeds /\ TokensFresh /\ ForcedQueued
    BY <1>3 DEF ForcedNeverSucceeds, TokensFresh, ForcedQueued
  <1> QED
    BY <1>2, <1>4, <1>5, <1>6 DEF IndInv

\* Every event of the loop keeps the invariant.
LEMMA NextInv ==
    ASSUME IndInv, [Next]_vars
    PROVE  IndInv'
  <1>1. CASE ConnectionEvent
    BY <1>1, ConnectedInv, DisconnectedInv DEF ConnectionEvent
  <1>2. CASE RequestEvent
    <2>1. PICK c \in Conns, sent \in BOOLEAN :
             \/ \E B \in NonEmpty : CreateWait(c, B, sent)
             \/ \E B \in NonEmpty, t \in Terminals : ParentWait(c, t, B, sent)
             \/ WaitRefused(c, sent)
             \/ \E t \in Tokens, b \in Buffers :
                   CompleteWaitBuffer(c, t, b, sent)
             \/ \E t \in Tokens : CancelWait(c, t, sent)
             \/ \E b \in Buffers, discard \in BOOLEAN :
                   CloseBuffer(c, b, discard, sent)
             \/ OtherRequest(c, sent)
      BY <1>2 DEF RequestEvent
    <2>2. CASE \E B \in NonEmpty : CreateWait(c, B, sent)
      BY <2>2, CreateWaitInv
    <2>3. CASE \E B \in NonEmpty, t \in Terminals : ParentWait(c, t, B, sent)
      BY <2>3, ParentWaitInv
    <2>4. CASE WaitRefused(c, sent)
      BY <2>4, WaitRefusedInv
    <2>5. CASE \E t \in Tokens, b \in Buffers :
                  CompleteWaitBuffer(c, t, b, sent)
      BY <2>5, CompleteWaitBufferInv
    <2>6. CASE \E t \in Tokens : CancelWait(c, t, sent)
      BY <2>6, CancelInv
    <2>7. CASE \E b \in Buffers, discard \in BOOLEAN :
                  CloseBuffer(c, b, discard, sent)
      BY <2>7, CloseBufferInv
    <2>8. CASE OtherRequest(c, sent)
      BY <2>8, QuietRequestInv
    <2> QED
      BY <2>1, <2>2, <2>3, <2>4, <2>5, <2>6, <2>7, <2>8
  <1>3. CASE EditorEvent
    BY <1>3, EditorInv
  <1>4. CASE LeaveEvent
    <2>1. CASE (\E t \in Tokens, sent \in BOOLEAN : AttachWait(t, sent))
               \/ Panics \/ Detach
      <3>1. TuiAttached
        BY <2>1 DEF AttachWait, Panics, Detach
      <3>2. PICK c \in Conns : c = active
        BY <3>1 DEF TuiAttached, IndInv, TypeOK
      <3>3. \E sent \in BOOLEAN :
               \/ \E t \in Tokens : AttachWait(t, sent)
               \/ Detach \/ Panics
        BY <2>1
      <3> QED
        BY <3>2, <3>3, QuietRequestInv
    <2>2. CASE FinishAttachedDetach
               \/ \E force, terminate, sent \in BOOLEAN :
                     FinishAttachedQuit(force, terminate, sent)
      BY <2>2, LeaveInv
    <2>3. CASE SwitchWorkspace
      BY <2>3, CancelInv
    <2>4. CASE (\E c \in Conns : Shutdown(c)) \/ RetireIdle \/ Kill
      BY <2>4, EndLoopInv
    <2> QED
      BY <1>4, <2>1, <2>2, <2>3, <2>4 DEF LeaveEvent
  <1>5. CASE UNCHANGED vars
    BY <1>5
    DEF vars, connVars, hostVars, appVars, history, IndInv, TypeOK, Bounded,
        Working, Watched, OpenWork, ForcedNeverSucceeds, TokensFresh,
        ForcedQueued, Pending, Doomed
  <1> QED
    BY <1>1, <1>2, <1>3, <1>4, <1>5 DEF Next

\* The inductive invariant holds in every state.
THEOREM Invariance == Spec => []IndInv
  BY InitInv, NextInv, PTL DEF Spec

\* Whoever waits has something left to wait for, and is itself still there to
\* be told.
THEOREM WaitsHaveWork == Spec => []PendingHasWork
  <1>1. IndInv => PendingHasWork
    BY DEF IndInv, PendingHasWork, Bounded, Working, Watched, OpenWork
  <1> QED
    BY <1>1, Invariance, PTL

\* A request whose buffer was left with :q! never succeeds.
THEOREM ForceIsFinal == Spec => []ForcedNeverSucceeds
  <1>1. IndInv => ForcedNeverSucceeds
    BY DEF IndInv
  <1> QED
    BY <1>1, Invariance, PTL
-----------------------------------------------------------------------------
(* What a step may never do to a request *)

\* The ways a step changes the table of wait requests.
TableStep ==
    \/ waits' = waits
    \/ \E T \in SUBSET Tokens : waits' = Cancelled(waits, T)
    \/ \E acts \in Actions, ts \in Terms :
          waits' = Reconciled(waits, acts, doc', ts)
    \/ waits' = Pruned(waits)
    \/ \E B \in NonEmpty :
          nextToken <= MaxToken /\ Insert(Pruned(waits), B)
    \/ \E u \in Tokens, b \in Buffers :
          /\ Pending(u) /\ doc[b] = "clean" /\ doc' = doc
          /\ waits' = [waits EXCEPT ![u] =
                Updated([waits[u] EXCEPT !.completed = @ \union {b}])]
    \/ \E T \in SUBSET Tokens : CompleteAttachedWaits(T)

\* There are no others.
LEMMA TableSteps ==
    ASSUME IndInv, [Next]_vars
    PROVE  TableStep
  <1>0. /\ actions \in Actions /\ term \in Terms
        /\ \A c \in Conns : tokens[c] \in SUBSET Tokens
    BY DEF IndInv, TypeOK, Actions, Terms
  <1>1. CASE ConnectionEvent
    <2>1. \A c \in Conns : Abandoned(c) \in SUBSET Tokens
      BY <1>0 DEF Abandoned
    <2> QED
      BY <1>1, <2>1
      DEF ConnectionEvent, Connected, Disconnected, CancelWaits, hostVars,
          TableStep
  <1>2. CASE RequestEvent
    <2>1. ASSUME NEW c \in Conns, NEW sent \in BOOLEAN,
                 \/ \E B \in NonEmpty :
                       \/ CreateWait(c, B, sent)
                       \/ \E t \in Terminals : ParentWait(c, t, B, sent)
                 \/ WaitRefused(c, sent)
                 \/ OtherRequest(c, sent)
          PROVE  TableStep
      BY <2>1 DEF CreateWait, ParentWait, WaitRefused, OtherRequest, hostVars,
                  TableStep
    <2>2. ASSUME NEW c \in Conns, NEW sent \in BOOLEAN, NEW t \in Tokens,
                 CancelWait(c, t, sent)
          PROVE  TableStep
      <3>1. {t} \in SUBSET Tokens /\ waits' = Cancelled(waits, {t})
        BY <2>2 DEF CancelWait, CancelWaits
      <3> QED
        BY <3>1 DEF TableStep
    <2>3. ASSUME NEW c \in Conns, NEW sent \in BOOLEAN, NEW t \in Tokens,
                 NEW b \in Buffers, CompleteWaitBuffer(c, t, b, sent)
          PROVE  TableStep
      <3>1. /\ Pending(t) /\ doc[b] = "clean" /\ doc' = doc
            /\ waits' = [waits EXCEPT ![t] =
                  Updated([waits[t] EXCEPT !.completed = @ \union {b}])]
        BY <2>3 DEF CompleteWaitBuffer, appVars
      <3> QED
        BY <3>1 DEF TableStep
    <2>4. ASSUME NEW c \in Conns, NEW sent \in BOOLEAN, NEW b \in Buffers,
                 NEW discard \in BOOLEAN, CloseBuffer(c, b, discard, sent)
          PROVE  TableStep
      <3>1. waits' = Reconciled(waits, actions, doc', term)
        BY <2>4 DEF CloseBuffer, Reconcile
      <3> QED
        BY <1>0, <3>1 DEF TableStep
    <2> QED
      BY <1>2, <2>1, <2>2, <2>3, <2>4 DEF RequestEvent
  <1>3. CASE EditorEvent
    <2>1. ASSUME NEW reconciles, NEW acts \in Actions, NEW counts,
                 NEW d, NEW ts \in Terms,
                 AfterEditor(reconciles, acts, counts, d, ts)
          PROVE  TableStep
      BY <2>1 DEF AfterEditor, Reconcile, hostVars, TableStep
    <2>2. ASSUME NEW b \in Buffers, NEW reconciles \in BOOLEAN,
                 NEW state \in {"clean", "dirty", "closed"},
                 EditorChanges(b, state, reconciles)
          PROVE  TableStep
      BY <1>0, <2>1, <2>2 DEF EditorChanges
    <2>3. ASSUME NEW b \in Buffers, NEW reconciles \in BOOLEAN,
                 NEW cancel \in BOOLEAN,
                 CompleteParentWait(b, cancel, reconciles)
          PROVE  TableStep
      <3>1. Append(actions, [buffer |-> b, cancel |-> cancel]) \in Actions
        BY <1>0 DEF Actions
      <3> QED
        BY <1>0, <2>1, <2>3, <3>1 DEF CompleteParentWait
    <2>4. ASSUME NEW b \in Buffers,
                 SaveBegins(b) \/ \E ok \in BOOLEAN : SaveEnds(b, ok)
          PROVE  TableStep
      BY <1>0, <2>4 DEF SaveBegins, SaveEnds, Reconcile, hostVars, TableStep
    <2>5. ASSUME NEW t \in Terminals, TerminalExits(t)
          PROVE  TableStep
      <3>1. term' \in Terms
        BY <1>0, <2>5 DEF TerminalExits, Terms
      <3>2. waits' = Reconciled(waits, actions, doc', term')
        BY <2>5 DEF TerminalExits, Reconcile
      <3> QED
        BY <1>0, <3>1, <3>2 DEF TableStep
    <2>6. ASSUME NEW t \in Terminals, NEW reconciles \in BOOLEAN,
                 CloseTerminal(t, reconciles)
          PROVE  TableStep
      <3>1. [term EXCEPT ![t] = "closed"] \in Terms
        BY <1>0 DEF Terms
      <3> QED
        BY <1>0, <2>1, <2>6, <3>1 DEF CloseTerminal
    <2> QED
      BY <1>3, <2>2, <2>3, <2>4, <2>5, <2>6 DEF EditorEvent
  <1>4. CASE LeaveEvent
    <2>1. TuiAttached => tokens[active] \in SUBSET Tokens
      BY <1>0 DEF TuiAttached, IndInv, TypeOK
    <2>2. Tokens \in SUBSET Tokens
      OBVIOUS
    <2> QED
      BY <1>4, <2>1, <2>2
      DEF LeaveEvent, AttachWait, Panics, FinishAttachedDetach, CancelWaits,
          SwitchWorkspace, Detach, FinishAttachedQuit, Shutdown, RetireIdle,
          Kill, EndLoop, hostVars, TableStep
  <1>5. CASE UNCHANGED vars
    BY <1>5 DEF vars, hostVars, TableStep
  <1> QED
    BY <1>1, <1>2, <1>3, <1>4, <1>5 DEF Next

\* What a step may do to request t.
OutcomeKept(t) ==
    /\ waits[t].status \in {"completed", "cancelled"} =>
          waits'[t].status \in {waits[t].status, "absent"}
    /\ Pending(t) => waits'[t].status # "absent"
    /\ t < nextToken /\ waits[t].status = "absent" =>
          waits'[t].status = "absent"

\* A request completes only when its remaining buffers are saved or closed.
SavedFirst(t) ==
    Pending(t) /\ waits'[t].status = "completed" =>
        \A b \in Remaining(waits[t]) : doc'[b] \in {"clean", "closed"}

\* Every way of changing the table keeps outcomes and completes only what is
\* saved or closed.
LEMMA OutcomesKept ==
    ASSUME IndInv, [Next]_vars, NEW t \in Tokens
    PROVE  OutcomeKept(t) /\ SavedFirst(t)
  <1> USE DEF OutcomeKept, SavedFirst
  <1>0. waits \in Table /\ waits[t] \in Wait
    BY DEF IndInv, TypeOK, Table
  <1>1. CASE waits' = waits
    BY <1>0, <1>1 DEF Pending
  <1>2. ASSUME NEW T \in SUBSET Tokens, waits' = Cancelled(waits, T)
        PROVE  OutcomeKept(t) /\ SavedFirst(t)
    BY <1>0, <1>2, CancelledTable DEF Pending
  <1>3. ASSUME NEW acts \in Actions, NEW ts \in Terms,
               waits' = Reconciled(waits, acts, doc', ts)
        PROVE  OutcomeKept(t) /\ SavedFirst(t)
    <2>1. PICK d \in Docs : d = doc'
      BY NextInv DEF IndInv, TypeOK, Docs
    <2>2. /\ waits[t].status # "pending" => waits'[t] = waits[t]
          /\ waits[t].status = "pending" =>
               /\ waits'[t].status \in {"pending", "completed", "cancelled"}
               /\ \A b \in Remaining(waits[t]) \ Remaining(waits'[t]) :
                     doc'[b] \in {"clean", "closed"}
               /\ waits'[t].status = "completed" => Remaining(waits'[t]) = {}
      <3>1. waits' = Reconciled(waits, acts, d, ts)
        BY <1>3, <2>1
      <3>2. /\ waits[t].status # "pending" => waits'[t] = waits[t]
            /\ waits[t].status = "pending" =>
                 /\ waits'[t].status \in {"pending", "completed", "cancelled"}
                 /\ \A b \in Remaining(waits[t]) \ Remaining(waits'[t]) :
                       d[b] \in {"clean", "closed"}
                 /\ waits'[t].status = "completed" => Remaining(waits'[t]) = {}
        BY <1>0, <3>1, ReconciledTable, SMTT(60)
      <3> QED
        BY <2>1, <3>2
    <2> QED
      BY <1>0, <2>2 DEF Pending
  <1>4. CASE waits' = Pruned(waits)
    <2>1. /\ waits[t].status \in {"pending", "absent"} =>
                waits'[t].status = waits[t].status
          /\ waits'[t].status # "absent" => waits'[t] = waits[t]
      BY <1>0, <1>4, PrunedTable
    <2> QED
      BY <1>0, <2>1 DEF Pending
  <1>5. ASSUME NEW B \in NonEmpty, nextToken <= MaxToken,
               Insert(Pruned(waits), B)
        PROVE  OutcomeKept(t) /\ SavedFirst(t)
    <2>1. /\ waits[t].status \in {"pending", "absent"} =>
                Pruned(waits)[t].status = waits[t].status
          /\ Pruned(waits)[t].status # "absent" => Pruned(waits)[t] = waits[t]
          /\ Pruned(waits) \in Table
      BY <1>0, PrunedTable
    <2>2. CASE t = nextToken
      <3>1. waits[t].status = "absent" /\ ~(t < nextToken)
        BY <2>2 DEF IndInv, TokensFresh, TypeOK, Tokens
      <3> QED
        BY <3>1 DEF Pending
    <2>3. CASE t # nextToken
      <3>1. waits'[t] = Pruned(waits)[t]
        BY <1>5, <2>1, <2>3 DEF Insert, Table
      <3> QED
        BY <1>0, <2>1, <3>1 DEF Pending
    <2> QED
      BY <2>2, <2>3
  <1>6. ASSUME NEW u \in Tokens, NEW b \in Buffers,
               Pending(u), doc[b] = "clean", doc' = doc,
               waits' = [waits EXCEPT ![u] =
                   Updated([waits[u] EXCEPT !.completed = @ \union {b}])]
        PROVE  OutcomeKept(t) /\ SavedFirst(t)
    <2> DEFINE r == [waits[u] EXCEPT !.completed = @ \union {b}]
    <2>1. waits[u] \in Wait /\ r \in Wait
          /\ Remaining(r) = Remaining(waits[u]) \ {b}
      BY <1>0 DEF Table, Wait, Remaining
    <2>2. CASE t = u
      <3>1. waits'[t] = Updated(r)
        BY <1>0, <1>6, <2>2 DEF Table
      <3> HIDE DEF r
      <3>2. Updated(r).status =
               IF Remaining(r) = {} THEN "completed" ELSE "pending"
        BY <2>1, UpdatedRequest
      <3> QED
        BY <1>6, <2>1, <2>2, <3>1, <3>2 DEF Pending
    <2>3. CASE t # u
      <3>1. waits'[t] = waits[t]
        BY <1>0, <1>6, <2>3 DEF Table
      <3> QED
        BY <1>0, <3>1 DEF Pending
    <2> QED
      BY <2>2, <2>3
  <1>7. ASSUME NEW T \in SUBSET Tokens, CompleteAttachedWaits(T)
        PROVE  OutcomeKept(t) /\ SavedFirst(t)
    <2>1. /\ waits[t].status # "pending" => waits'[t] = waits[t]
          /\ waits[t].status = "pending" => waits'[t].status # "absent"
          /\ Pending(t) /\ waits'[t].status = "completed" =>
                \A b \in Remaining(waits[t]) : doc[b] \in {"clean", "closed"}
      BY <1>7, AttachedTable
    <2>2. doc' = doc
      BY <1>7 DEF CompleteAttachedWaits
    <2> QED
      BY <1>0, <2>1, <2>2 DEF Pending
  <1> QED
    BY <1>1, <1>2, <1>3, <1>4, <1>5, <1>6, <1>7, TableSteps DEF TableStep

\* A host that ends of its own accord leaves nobody waiting, but for those the
\* attached TUI asked for and those the editor already ended.
LEMMA EndsUnwaited ==
    ASSUME IndInv, [Next]_vars, pc = "run", pc' = "stopped",
           NEW t \in PendingOf(waits)
    PROVE  \/ active # None /\ t \in tokens[active]
           \/ Reconciled(waits, actions, doc, term)[t].status # "pending"
  <1>1. CASE \E force, terminate, sent \in BOOLEAN :
                FinishAttachedQuit(force, terminate, sent)
    <2> DEFINE T == tokens[active]
    <2>1. PICK force \in BOOLEAN, terminate \in BOOLEAN :
             Unprotected(AfterAttached(T), force, terminate)
      BY <1>1 DEF FinishAttachedQuit
    <2>2. active # None
      BY <1>1 DEF FinishAttachedQuit, TuiAttached
    <2>3. t \in Tokens /\ waits[t].status = "pending"
          /\ AfterAttached(T)[t].status # "pending"
      BY <2>1 DEF Unprotected, PendingOf
    <2>4. CASE t \in T
      BY <2>2, <2>4
    <2>5. CASE t \notin T
      <3>1. T # {}
        BY <2>3 DEF AfterAttached
      <3>2. AfterAttached(T) =
               Finished(Reconciled(waits, actions, doc, term), T)
        BY <3>1 DEF AfterAttached
      <3>3. AfterAttached(T)[t] = Reconciled(waits, actions, doc, term)[t]
        BY <2>3, <2>5, <3>2 DEF Finished
      <3> QED
        BY <2>3, <3>3
    <2> QED
      BY <2>4, <2>5
  <1>2. CASE (\E c \in Conns : Shutdown(c)) \/ RetireIdle
    BY <1>2 DEF Shutdown, RetireIdle, Unprotected
  <1>3. \/ \E force, terminate, sent \in BOOLEAN :
              FinishAttachedQuit(force, terminate, sent)
        \/ (\E c \in Conns : Shutdown(c)) \/ RetireIdle
    <2>1. ~ConnectionEvent
      BY DEF ConnectionEvent, Connected, Disconnected
    <2>2. ~RequestEvent
      BY DEF RequestEvent, CreateWait, ParentWait, WaitRefused,
             CompleteWaitBuffer, CancelWait, CloseBuffer, OtherRequest
    <2>3. ~EditorEvent
      BY DEF EditorEvent, EditorChanges, CompleteParentWait, SaveBegins,
             SaveEnds, TerminalExits, CloseTerminal, AfterEditor
    <2>4. pc' # pc
      OBVIOUS
    <2>5. LeaveEvent
      BY <2>1, <2>2, <2>3, <2>4 DEF Next, vars
    <2> QED
      BY <2>5
      DEF LeaveEvent, AttachWait, Panics, FinishAttachedDetach,
          SwitchWorkspace, Detach, Kill, EndLoop
  <1> QED
    BY <1>1, <1>2, <1>3

\* What a waiting client was told stays true.
THEOREM OutcomesAreFinal == Spec => OutcomeFinal
  <1> DEFINE P == \A t \in Tokens :
          /\ waits[t].status \in {"completed", "cancelled"} =>
                waits'[t].status \in {waits[t].status, "absent"}
          /\ Pending(t) => waits'[t].status # "absent"
          /\ t < nextToken /\ waits[t].status = "absent" =>
                waits'[t].status = "absent"
  <1>1. IndInv /\ [Next]_vars => [P]_vars
    BY OutcomesKept DEF OutcomeKept
  <1>2. OutcomeFinal <=> [][P]_vars
    BY DEF OutcomeFinal
  <1> HIDE DEF P
  <1> QED
    BY <1>1, <1>2, Invariance, PTL DEF Spec

\* No request succeeds while a buffer it still waits for is modified or being
\* written.
THEOREM SuccessMeansSaved == Spec => CompletedWhenSaved
  <1> DEFINE P == \A t \in Tokens :
          Pending(t) /\ waits'[t].status = "completed" =>
              \A b \in Remaining(waits[t]) : doc'[b] \in {"clean", "closed"}
  <1>1. IndInv /\ [Next]_vars => [P]_vars
    BY OutcomesKept DEF SavedFirst
  <1>2. CompletedWhenSaved <=> [][P]_vars
    BY DEF CompletedWhenSaved
  <1> HIDE DEF P
  <1> QED
    BY <1>1, <1>2, Invariance, PTL DEF Spec

\* The host never ends of its own accord under a client that still waits.
THEOREM NobodyAbandoned == Spec => NoWaiterAbandoned
  <1> DEFINE P == pc = "run" /\ pc' = "stopped" =>
          \A t \in PendingOf(waits) :
              \/ active # None /\ t \in tokens[active]
              \/ Reconciled(waits, actions, doc, term)[t].status # "pending"
  <1>1. IndInv /\ [Next]_vars => [P]_vars
    BY EndsUnwaited
  <1>2. NoWaiterAbandoned <=> [][P]_vars
    BY DEF NoWaiterAbandoned
  <1> HIDE DEF P
  <1> QED
    BY <1>1, <1>2, Invariance, PTL DEF Spec
=============================================================================
