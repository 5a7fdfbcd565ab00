----------------------------- MODULE GitRefresh -----------------------------
(***************************************************************************)
(* How what the editor shows of a repository catches up with it.           *)
(*                                                                         *)
(* The repository changes behind the editor's back (a shell, another       *)
(* process), by the editor's own file operations, and by its Git commands. *)
(* A monitor thread reports the first kind, the editor asks for a          *)
(* reconciliation after the second, a mutation brings a snapshot with it.  *)
(* Snapshots are read by the Git service while further changes happen, and *)
(* their results arrive later, in a queue of events.                       *)
(*                                                                         *)
(* The repository is a version number; a snapshot shows the version it     *)
(* began to read.  An instant is the number of observations made before    *)
(* it.  The service is what GitRequests promises of one repository: jobs   *)
(* in order of submission, equal refreshes shared.  Delays and cooldowns   *)
(* are not counted: what waits for one may happen at any time.             *)
(*                                                                         *)
(* Sources: src/src/app/git_workflows.rs, src/src/workspace/host.rs.       *)
(***************************************************************************)
EXTENDS Integers, Sequences, FiniteSets

CONSTANTS
    MaxChanges,  \* bound on the changes of the repository
    MaxAsks,     \* bound on the person's requests
    MaxFailures  \* bound on the requests that fail or are cancelled

ASSUME RefreshConstants == {MaxChanges, MaxAsks, MaxFailures} \subseteq Nat

VARIABLES
    disk,       \* the version of the repository
    written,    \* history: the newest version a file operation made
    made,       \* the observations the monitor made
    seen,       \* the version the last of them found
    observed,   \* latest_git_observation: how many reached the host
    pending,    \* pending_git_refresh is some
    last,       \* last_git_reconciliation.started_at
    shown,      \* the version of the snapshot applied last
    stale,      \* snapshot_stale
    generation, \* GitWorkflowState.generation
    fsPending,  \* pending_filesystem_reconciliation is some
    fsRequest,  \* filesystem_reconciliation_request is some
    jobs,       \* the service's jobs, the first of them perhaps running
    bumped,     \* the service's generation of the repository
    events,     \* Completed events on their way to the host
    asks,       \* requests of the person so far
    failures    \* failures and cancellations so far

worldVars == <<disk, written, made, seen, asks, failures>>
appVars == <<shown, stale, generation, fsPending, fsRequest>>
hostVars == <<observed, pending, last>>
serviceVars == <<jobs, bumped, events>>
vars == <<worldVars, appVars, hostVars, serviceVars>>

-----------------------------------------------------------------------------
Version == 0 .. MaxChanges

\* Who asked: the timer, :git-refresh, the commit command, a file operation,
\* a Git command; and, as history, whether what the request waits for shows the
\* repository as it was then or newer.
Purposes == {"auto", "explicit", "commit", "files", "mutation"}
Waiter == [purpose : Purposes, current : BOOLEAN]
Job == [kind : {"refresh", "reconcile", "mutate"}, waiters : Seq(Waiter),
        stage : {"queued", "mutating", "reading"},
        started : Nat, shows : Version, generation : Nat]
Event == [purpose : Purposes, current : BOOLEAN, coalesced : BOOLEAN,
          state : {"completed", "failed", "cancelled", "uncertain"},
          snapshot : BOOLEAN, started : Nat, shows : Version,
          generation : Nat]

TypeOK ==
    /\ disk \in Version /\ written \in Version
    /\ made \in 0 .. MaxChanges /\ seen \in Version
    /\ observed \in 0 .. made /\ last \in 0 .. made
    /\ shown \in Version
    /\ {pending, stale, fsPending, fsRequest} \subseteq BOOLEAN
    /\ generation \in Nat /\ bumped \in Nat
    /\ jobs \in Seq(Job) /\ events \in Seq(Event)
    /\ \A k \in DOMAIN jobs : k > 1 => jobs[k].stage = "queued"
    /\ asks \in 0 .. MaxAsks /\ failures \in 0 .. MaxFailures

\* The editor has read the repository once.
Init ==
    /\ disk = 0 /\ written = 0 /\ made = 0 /\ seen = 0
    /\ observed = 0 /\ pending = FALSE /\ last = 0
    /\ shown = 0 /\ stale = FALSE /\ generation = 0
    /\ fsPending = FALSE /\ fsRequest = FALSE
    /\ jobs = <<>> /\ bumped = 0 /\ events = <<>>
    /\ asks = 0 /\ failures = 0

-----------------------------------------------------------------------------
(* The service *)

\* The jobs j with a request more: a refresh joins an equal one that nothing
\* separates it from, though that may have begun before the last change.
Submitted(j, kind, purpose) ==
    LET n == Len(j)
    IN  IF kind = "refresh" /\ n > 0 /\ j[n].kind = "refresh"
        THEN [j EXCEPT ![n].waiters = Append(@,
                [purpose |-> purpose,
                 current |-> j[n].stage = "queued" \/ j[n].shows = disk])]
        ELSE Append(j, [kind |-> kind, stage |-> "queued",
                        waiters |-> <<[purpose |-> purpose, current |-> TRUE]>>,
                        started |-> 0, shows |-> 0, generation |-> 0])

\* The first job begins.  A mutation begins a generation; the others begin to
\* read.
ServiceStarts ==
    /\ jobs # <<>> /\ jobs[1].stage = "queued"
    /\ LET mutates == jobs[1].kind = "mutate"
           begun == IF mutates THEN bumped + 1 ELSE bumped
       IN  /\ bumped' = begun
           /\ jobs' = [jobs EXCEPT ![1] =
                 [@ EXCEPT !.stage = IF mutates THEN "mutating" ELSE "reading",
                           !.started = made, !.shows = disk,
                           !.generation = begun]]
    /\ UNCHANGED <<worldVars, appVars, hostVars, events>>

\* The Git command runs, changing the repository or not, and its snapshot
\* begins.
ServiceMutates(changes) ==
    /\ jobs # <<>> /\ jobs[1].stage = "mutating"
    /\ changes => disk < MaxChanges
    /\ disk' = IF changes THEN disk + 1 ELSE disk
    /\ jobs' = [jobs EXCEPT ![1] = [@ EXCEPT !.stage = "reading",
                  !.started = made, !.shows = disk']]
    /\ UNCHANGED <<written, made, seen, asks, failures, appVars, hostVars,
                   bumped, events>>

FirstWaiters == IF jobs = <<>> THEN {} ELSE DOMAIN jobs[1].waiters

\* The job ends: one Completed event for each waiter, the cancelled ones
\* told so.  A job they all cancelled may end before it begins.  A mutation
\* may end and its snapshot fail.
ServiceEnds(good, cancelled) ==
    /\ jobs # <<>>
    /\ \/ jobs[1].stage = "reading"
       \/ jobs[1].stage = "queued" /\ cancelled = FirstWaiters
    /\ (~good \/ cancelled # {}) => failures < MaxFailures
    /\ failures' = IF good /\ cancelled = {} THEN failures ELSE failures + 1
    /\ LET job == jobs[1]
           mutates == job.kind = "mutate" /\ job.stage = "reading"
           State(k) == IF k \in cancelled
                       THEN IF mutates THEN "uncertain" ELSE "cancelled"
                       ELSE IF good \/ mutates THEN "completed" ELSE "failed"
       IN  events' = events \o [k \in DOMAIN job.waiters |->
              [purpose |-> job.waiters[k].purpose,
               current |-> job.waiters[k].current,
               coalesced |-> k > 1, state |-> State(k),
               snapshot |-> good /\ State(k) # "cancelled",
               started |-> job.started, shows |-> job.shows,
               generation |-> job.generation]]
    /\ jobs' = Tail(jobs)
    /\ UNCHANGED <<disk, written, made, seen, asks, appVars, hostVars, bumped>>

-----------------------------------------------------------------------------
(* The world *)

\* A shell or another process changes the repository.
OthersChange ==
    /\ disk < MaxChanges
    /\ disk' = disk + 1
    /\ UNCHANGED <<written, made, seen, asks, failures, appVars, hostVars,
                   serviceVars>>

MonitorObserves ==
    /\ disk > seen
    /\ made' = made + 1 /\ seen' = disk
    /\ UNCHANGED <<disk, written, asks, failures, appVars, hostVars,
                   serviceVars>>

-----------------------------------------------------------------------------
(* The editor *)

\* Mutant: a reconciliation under way does not hold back another.
MayRetryAgain(wants, requested, full) == wants /\ ~full

\* retry_pending_git_reconciliation submits what is pending, unless one is
\* under way, the delay after a failure is not over or the queue is full.
MayRetry(wants, requested, full) == wants /\ ~requested /\ ~full

\* The jobs j, and the editor, after retry_pending_git_reconciliation.
Retried(wants, requested, j, full) ==
    IF MayRetry(wants, requested, full)
    THEN Submitted(j, "reconcile", "files") ELSE j
RetryPending(wants, requested, marked, full) ==
    LET may == MayRetry(wants, requested, full)
    IN  /\ stale' = (marked \/ wants \/ requested)
        /\ fsPending' = (wants /\ ~may) /\ fsRequest' = (requested \/ may)

\* A file is written or a plan applied: queue_filesystem_git_reconciliation.
EditorWrites(full) ==
    /\ disk < MaxChanges
    /\ disk' = disk + 1 /\ written' = disk + 1
    /\ RetryPending(TRUE, fsRequest, TRUE, full)
    /\ jobs' = Retried(TRUE, fsRequest, jobs, full)
    /\ UNCHANGED <<made, seen, asks, failures, shown, generation,
                   hostVars, bumped, events>>

\* Mutant: the timer marks the snapshot stale and retries nothing.
TimerMarks(full, due) ==
    /\ due => ~pending /\ ~full
    /\ pending' = (pending \/ due)
    /\ stale' = (stale \/ fsPending \/ fsRequest)
    /\ jobs' = IF due THEN Submitted(jobs, "refresh", "auto") ELSE jobs
    /\ UNCHANGED <<worldVars, shown, generation, fsPending, fsRequest,
                   observed, last, bumped, events>>

\* refresh_git_if_due: a pending reconciliation is retried; and with a Git view
\* in sight, the cooldown over and nobody interacting, the timer asks for a
\* refresh.  That another is under way does not hold it back for sure: the
\* event that says so may not have arrived.
RefreshIfDue(full, due) ==
    /\ due => ~pending /\ ~full
    /\ pending' = (pending \/ due)
    /\ RetryPending(fsPending, fsRequest, stale, full)
    /\ LET retried == Retried(fsPending, fsRequest, jobs, full)
       IN  jobs' = IF due THEN Submitted(retried, "refresh", "auto")
                   ELSE retried
    /\ UNCHANGED <<worldVars, shown, generation, observed, last, bumped,
                   events>>

Asks ==
    /\ asks < MaxAsks
    /\ asks' = asks + 1
    /\ UNCHANGED <<disk, written, made, seen, failures, appVars, hostVars,
                   bumped>>

\* :git-refresh, or a Git command with the snapshot that follows it.
AskRefresh ==
    /\ Asks
    /\ jobs' = Submitted(jobs, "refresh", "explicit")
    /\ UNCHANGED events

AskMutation ==
    /\ Asks
    /\ jobs' = Submitted(jobs, "mutate", "mutation")
    /\ UNCHANGED events

\* The commit command: request_commit_open_refresh.  The request it waited for
\* before, if any, opens nothing any more.
AskCommit ==
    LET Superseded(w) == IF w.purpose = "commit"
                         THEN [w EXCEPT !.purpose = "explicit"] ELSE w
        others == [k \in DOMAIN jobs |-> [jobs[k] EXCEPT !.waiters =
                     [l \in DOMAIN @ |-> Superseded(@[l])]]]
    IN  /\ Asks
        /\ jobs' = Submitted(others, "refresh", "commit")
        /\ events' = [k \in DOMAIN events |-> Superseded(events[k])]

-----------------------------------------------------------------------------
(* The events of the service, and of the monitor *)

\* Mutant: a reconciliation that failed is not put back.
KeptWhenOk(e) == fsPending

\* A reconciliation that did not succeed is merged back into the pending one.
KeptAfter(e) ==
    \/ fsPending
    \/ e.purpose = "files" /\ ~(e.state = "completed" /\ e.snapshot)

\* Mutant: the commit message opens on a shared answer too.
OpensCommitShared(e) ==
    e.purpose = "commit" /\ e.state = "completed" /\ e.snapshot

\* A commit message opens on an answer of its own; one that was shared may
\* have been read before the command, and the command asks again.
OpensCommit(e) ==
    /\ e.purpose = "commit" /\ e.state = "completed" /\ e.snapshot
    /\ ~e.coalesced
AsksCommitAgain(e) ==
    /\ e.purpose = "commit" /\ e.state = "completed" /\ e.snapshot
    /\ e.coalesced

\* The jobs with what App::apply_git_service_event submits: the commit command
\* again, a refresh after a cancellation, a refresh after a mutation whose
\* snapshot failed.
Resubmitted(e) ==
    LET again == IF AsksCommitAgain(e)
                 THEN Submitted(jobs, "refresh", "commit")
                 ELSE jobs
        refreshed == IF e.state \in {"cancelled", "uncertain"}
                     THEN Submitted(again, "refresh",
                                    "explicit")
                     ELSE again
    IN  IF e.purpose = "mutation" /\ e.state # "cancelled" /\ ~e.snapshot
        THEN Submitted(refreshed, "refresh", "explicit")
        ELSE refreshed

\* record_git_reconciliation counts a snapshot unless something was observed
\* after it began.
Outdated(e) == observed > e.started

Applies(e) == e.snapshot /\ e.generation >= generation

\* WorkspaceHost::apply_git_service_event, with App::apply_git_service_event
\* and apply_repository_snapshot in it.
HostHandles(full) ==
    /\ events # <<>>
    /\ LET e == Head(events)
           applies == Applies(e)
           requested == fsRequest /\ e.purpose # "files"
           kept == KeptAfter(e)
           succeeded == e.purpose = "files" /\ e.state = "completed"
                          /\ e.snapshot
           submitted == IF full THEN jobs ELSE Resubmitted(e)
           accepted == applies /\ e.state = "completed"
           counted == accepted /\ ~e.coalesced
           unsure == IF applies THEN kept \/ requested
                     ELSE stale \/ ~e.snapshot
                            \/ e.state \in {"cancelled", "uncertain"}
           marked == \/ unsure
                     \/ counted /\ Outdated(e)
                     \/ ~counted /\ e.purpose = "auto"
       IN  /\ generation' = IF applies THEN e.generation ELSE generation
           /\ shown' = IF applies THEN e.shows ELSE shown
           /\ last' = IF counted /\ ~Outdated(e) THEN e.started ELSE last
           /\ pending' = (pending /\ e.purpose # "auto")
           /\ IF succeeded
              THEN /\ RetryPending(kept, requested, marked, full)
                   /\ jobs' = Retried(kept, requested, submitted, full)
              ELSE /\ stale' = marked /\ jobs' = submitted
                   /\ fsPending' = kept /\ fsRequest' = requested
    /\ events' = Tail(events)
    /\ UNCHANGED <<worldVars, observed, bumped>>

\* apply_git_invalidation: an observation made before the last snapshot began
\* is covered by it.
HostObserves ==
    /\ observed < made
    /\ observed' = observed + 1
    /\ stale' = (stale \/ observed' > last)
    /\ UNCHANGED <<worldVars, shown, generation, fsPending, fsRequest,
                   pending, last, serviceVars>>

-----------------------------------------------------------------------------
Service ==
    \/ ServiceStarts
    \/ \E changes \in BOOLEAN : ServiceMutates(changes)
    \/ \E good \in BOOLEAN : \E cancelled \in SUBSET FirstWaiters :
          ServiceEnds(good, cancelled)

Editor ==
    \/ \E full \in BOOLEAN :
          \/ EditorWrites(full) \/ HostHandles(full)
          \/ \E due \in BOOLEAN : RefreshIfDue(full, due)
    \/ AskRefresh \/ AskMutation \/ AskCommit
    \/ HostObserves

Next == OthersChange \/ MonitorObserves \/ Service \/ Editor

Spec == Init /\ [][Next]_vars

\* The service works its jobs off and the host its events; the timer comes
\* round, with a Git view in sight, nobody interacting and room in the queue,
\* again and again.  The monitor need not see anything.
Fairness ==
    /\ WF_vars(Service) /\ WF_vars(HostHandles(FALSE)) /\ WF_vars(HostObserves)
    /\ WF_vars(RefreshIfDue(FALSE, TRUE))

FairSpec == Spec /\ Fairness

-----------------------------------------------------------------------------
(* Properties *)

\* The editor knows of exactly the reconciliation and the automatic refresh
\* that are under way: at most one of each, whatever was retried.  Every
\* variable has its type.
FlightsKnown ==
    LET Waits(k, purpose) == {l \in DOMAIN jobs[k].waiters :
            jobs[k].waiters[l].purpose = purpose}
        Queued(purpose) == UNION {{<<k, l>> : l \in Waits(k, purpose)} :
                                     k \in DOMAIN jobs}
        Ended(purpose) == {k \in DOMAIN events : events[k].purpose = purpose}
        Flights(purpose) ==
            Cardinality(Queued(purpose)) + Cardinality(Ended(purpose))
    IN  /\ TypeOK
        /\ Flights("files") = IF fsRequest THEN 1 ELSE 0
        /\ Flights("auto") = IF pending THEN 1 ELSE 0

\* A change a file operation made is shown, or a reconciliation that will show
\* it is pending or under way, however many of them failed, were cancelled or
\* found the queue full, and the status line says stale until then.
FilesystemChangeKept ==
    written > shown => stale /\ (fsPending \/ fsRequest)

\* "The index is refreshed first, so staging done outside the editor is
\* included" (docs/user-guide/git.md:197): the commit message shows the index
\* of the moment the command was given or a later one.
CommitSeesIndex ==
    [][events # <<>> /\ events' = Tail(events) /\ OpensCommit(Head(events))
          => Head(events).current /\ shown' >= Head(events).shows]_vars

\* Once the repository is left alone and Git works (here, after MaxChanges and
\* MaxFailures), the editor shows it, and says stale no more.
CatchesUp == []<>(shown = disk /\ ~stale)
=============================================================================
