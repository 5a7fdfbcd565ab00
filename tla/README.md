# Runyte: TLA+ models, checks and proofs

Runyte is a modal text editor whose documents live in a *workspace host*: a
long-running process that keeps buffers, terminals, plugins, language servers
and Git state, and to which terminal or window clients, command-line callers
and external agents connect. Most of what can go wrong in it without a unit
test noticing is in the host's event loop, in what crosses its sockets, and in
the threads and processes beside it; that is what this project models.

The modules follow the Unix code under `src/src/`. A comment above each
definition names the function it models; `PROJECT.json` gives the lines.

## 1. Inventory

| Component | State it keeps | Operations | Interaction and what is hard |
| --- | --- | --- | --- |
| Host event loop (`cli.rs`) | the attached client, control connections, frame pending flag, parent handoffs | one pass per event of a `select!` over some twenty sources | everything below runs in it; which ready branch runs first is arbitrary |
| Agent terminal input (`workspace/host/context_input.rs`, `terminal/`) | delayed Enters, queued lines, input generation and revision of each terminal | request, advance, settle, press, cancel, evict | a PTY writer thread races cancellation; output, typing, detaching and revocation race a five-second delay |
| Wait requests (`workspace/host.rs`, `cli.rs`) | table of requests, tokens of each connection, cached counts in the editor | create, complete, cancel, reconcile, prune | several callers, lost replies, saves in the background, `:wq`/`:q!`, the end of the host |
| Agent channel (`workspace/context/channel.rs`, `mcp/`) | participants, departed nicknames, bounded log, read positions | join, rejoin, post, read, disconnect, evict | the adapter times out and reconnects; replies are lost after their effect |
| Frame delivery (`transport_shared.rs`, `transport.rs`, `cli.rs`) | last published frame, response channels, client's frame, barriers | publish, coalesce, apply damage, resynchronize, end | four concurrent actors, a replaceable slot, biased selects that order only what is ready |
| Context readers and grants (`workspace/host/context.rs`) | readers, scopes, leases, stored grants | authenticate, register, revoke, retire | revocation races requests under way; grants are files shared by processes |
| Endpoint and registry (`workspace/transport.rs`) | socket, metadata and registrations on disk under identity locks | bind, publish, retire, list, stop a host, rename | several processes, crashes between two writes |
| Git service and reconciliation (`git/service.rs`, `workspace/host.rs`) | queues of reads and mutations per repository, freshness of the snapshot | submit, coalesce, cancel, refresh | coalescing against mutations; stale snapshots |
| Language servers (`lsp/`) | a session per language with a generation | start, restart, request, shut down | messages of a dead generation |
| Plugins (`plugin/`, `workspace/host/plugin_*.rs`) | workers, jobs, deadlines, staged writes | request, deliver, expire, stop | bounded queues both ways, results that outlive their owner |
| Filesystem plans (`fs_plan.rs`) | staged moves, recovery report | build, stage, publish, roll back | one step of several fails |
| File and Git monitors | observation generations | sync, observe, debounce | late observations |
| Buffers (`buffer.rs`) | text, undo tree, saved revision | edit, undo, save | long sequences of legal calls |
| Terminal emulator, UI, syntax, keymap, configuration, pickers, previews | display state | | sequential transformations, covered by unit tests |

The full list, with the parts that are not modelled and why, is `components`
in `PROJECT.json`; `hazards` lists what is hard to test, at the line where it
bites, with the property that would catch it.

What makes each modelled component correct:

- *Agent input*: an Enter is pressed only into the terminal state it was asked
  for, under the same attachment; at most one waits per terminal; the mark in
  the title tells the truth; typing and leaving overtake queued lines.
- *Wait requests*: an outcome is final and means what it says (completed: every
  buffer saved or closed; never after `:q!`); a pending request has work left
  and someone waiting; the host does not end under a waiting caller.
- *Agent channel*: reading page by page skips nothing silently whatever is
  lost; names stay attached to messages; one presence per connection.
- *Frame delivery*: the client converges to the newest frame, never shows an
  older one again, never takes an orderly end for a lost connection, and a
  barrier answers with a frame that shows the input before it.
- *Git service*: however work is shared, cancelled and reported, each request is
  answered once, as if its repository had run them one by one in order.
- *Git reconciliation*: no change the editor made is forgotten, a commit message
  shows the index of the moment it was asked for, the view catches up.
- *Filesystem plans*: whatever fails, only what the plan was reviewed to delete
  is destroyed, and everything left in staging is reported.
- *Endpoint*: a serving host keeps its endpoint; the remains of a dead host keep
  nobody out.
- *Language servers*: every request ends; what the editor wrongly believes of a
  server is being corrected; a document taken for synchronised is.

## 2. Plan

Done, most important behaviour first: `AgentInput` (with proofs),
`WaitRequests`, `AgentChannel`, `FrameDelivery`, `GitService` with its abstract
specification `GitRequests`, `GitRefresh`, `FsPlan`, `Endpoint`, `LspManager`.

Proved as well as checked: `AgentInput`, `WaitRequests`, `AgentChannel`,
`FrameDelivery`, `GitService` with its refinement, `GitRefresh`, `Endpoint`,
and `FsPlan` (section 5).

Next:

1. Proofs for `LspManager`: some of its steps fold over the documents
   (`FoldSet`), and what such a fold yields is induction over data, so that they
   have to be restated without one.
2. `PluginWorker`: deadlines against messages queued behind them.
3. `ParentHandoff` (`cli.rs`): every `ParentAttach` answered once, a late result
   after the 30 seconds.
4. `ContextReaders`: scopes and revocation against requests under way.

No module declares a RECURSIVE operator.

## 3. Modules

Each component has a module; a module `MC<name>` beside it gives its constants
small values. `GitService` instantiates `GitRequests`; the other modules share
no state, each taking the events of the host's loop that concern it.

### AgentInput

`pc` is where the loop stands: at its top (`note_plugin_frontend`, then
`sync_context`), in the `select!`, or with a reader's frame in hand (which
syncs first). `enters` is `context.enters` with the deadline of a record
abstracted to a timer that goes from *delay* to *due*, *armed* and *settled*;
time passes as an action. `term` holds a session's state, read revision, input
generation and pending mark; `input` is the PTY queue; `output` what the child
wrote and the loop has not applied; `delivery`, `proposals` and `writes` the
three places a queued line is known from. `Sync` is one `sync_context`: it drops
revoked readers, cancels lines of a frontend that is gone, and advances every
Enter. The writer thread (`WriterTakes`, `WriterFails`), the child and the clock
are separate actors. Revisions are bounded by `MaxRevision`, attachments by
`MaxEpoch`.

### WaitRequests

`waits` is `wait_requests` (the record of a token), `tokens` the tokens each
connection keeps, `shared` the counts the editor caches in
`parent_wait_buffers`, `actions` the `:wq`/`:q!` not yet reconciled. One action
per request and per editor event; whether an editor event reconciles depends on
whether it is an input of the client or a slice of a macro replay. A reply that
cannot be queued ends the use of a connection; the transport reports the
disconnection later. `Panics` is the state in which leaving the workspace would
unwrap a request that is gone. `unreconciled` and `forced` are history.

### AgentChannel

The host's side (`Channel::join`, `post`, `read`, `disconnect`, `record`,
`evict_departed`) and the adapter's (`Bridge::discover`, `request`,
`channel_call`), with one request under way per agent, replies that may be
given up on after their effect, connections that die at either end and
revocations. A message weighs its `Bytes`; the log is bounded by count and by
bytes as in `record`. `got` is history: what an agent received.

### FrameDelivery

A frame is its id; damage has the id it starts from. `lane` is the two response
channels (queue, final slot, visual slot, what `recv` has polled so far): `recv`
is split where its biased select looks at one branch after the other, because
another thread may fill a branch already looked at. The host loop, the
connection task, the reader thread and the client loop are the actors.
`RefillBegins`/`RefillEnds` are the finder refill that defers publication.
`client` is the kind of client: a terminal, a window with input barriers, or a
window that opens launch targets first.

### GitRequests and GitService

`GitService` is the scheduler thread (`pc` cycles through draining completions,
starting work and waiting), its workers and their cancellation monitors
(`active`), and the process-wide ticket queue of `repository_lock.rs`
(`tickets`). A job is the sequence of requests that wait for it. The monitor
abandons an execution under the waiters' lock, in the same critical section in
which `JoinActive` looks at the flag. `view`, `log` and `stamp` are history: what
the result of a read shows, the mutations that ran, the generation of a result.

`GitRequests` says what all of that is for: requests of a repository are answered
as if they had run one by one in the order of submission. The refinement mapping
is the identity on the five variables it has (`AnswersInOrder`): the queues,
tickets, sharing and workers are what is hidden.

### GitRefresh

The repository is a version; a snapshot shows the version it began to read. The
service is reduced to what `GitRequests` promises of one repository. `HostHandles`
is the whole of `WorkspaceHost::apply_git_service_event`, with the editor's
`apply_git_service_event` and `apply_repository_snapshot` inside it; `full` is
whether the request queue takes what it submits. Instants are counts of
observations, so that "observed after the snapshot began" can be said without a
clock.

### FsPlan

`place` maps what exists to where it is; an entry is a record that says what
made it (the listing, a create, a copy, a staging directory, another process).
`PlanConstants` is the layout that the listing shows: the root and the
directories in it, names unique in a directory. `Below` looks six levels down,
deeper than the checked plans put anything. `Init` is every plan that
`build_with_limits` would build from an edited listing of up to `MaxOperations`
operations with at most one transferred row and one new row, over paths of depth two. Each call of `apply` that
can fail has an action for its failure; `Intrude` and `RemoveEntry` are the other
processes, `MaxDisturbances` times. They act between the steps; the copy of a
directory, recursive in the code, is one step, so nothing is created or removed
inside it while it is copied. A staging directory has a name no path
spells. `gone`, `disturbed` and `faulted` are history.

### Endpoint

A file is the host that wrote it. `step` is where each host process stands in
`bind`, in publication and in retirement; a crash may happen at every step and
leaves the files. The session listing (`ScanJudge`, `ScanMatch`, `ScanRemove`)
takes no lock, as in the code, and `StopHost`/`ClearPublished` are the person who
stops an incompatible host. A failed publication may fail to remove its row, too,
which nobody hears of. `torn` and `raced` are history: the two windows that
the observations below describe.

### LspManager

The editor's half (`language_workflows.rs`), the manager task (`lsp/mod.rs`) with
its permission watch, control queue, commands and inbox polled in that order, and
the processes. A text is the number of its edits; an incremental change is right
only for the copy it was computed from, at the process whose position encoding it
was written for, and spoils any other. `Request` is any request about a buffer,
after `lsp_touch`; `RunAction` the command of a code action, which goes without
it; `Dismiss` what a moved caret cancels. `EndProcess` lets `Connection::stop`
leave at most the last `Closed` of the process in the inbox: everything else its
drain would drop or keep is of a generation that no running server has, and is
ignored either way. The inbox has no limit. `stopping` is the part of a restart or a
reconfiguration still to do, with the grace period in which the messages of the
other servers are handled.

## 4. Runs

| Run | Module | Distinct states | Shows |
| --- | --- | --- | --- |
| AgentEnters | MCAgentInput | 1.3 M | one Enter per terminal, owners connected, a truthful pending mark, pressed as asked, always decided; queued lines against typing, detaching, revocation and the writer thread |
| WaitOutcome | MCWaitRequests | 1.6 M | final outcomes, completed only when saved and never after `:q!`, work and a waiter for each pending request, none abandoned |
| WaitAttachedPanic | MCWaitRequests | | *violation*: a pruned request the client still lists |
| ChannelPeople | MCAgentChannel | 2.1 M | presence, names that stay with messages, nothing skipped, unread is news |
| FrameDelivered | MCFrameDelivery | 9.1 M | order and completeness for a terminal client and for a window with launch targets and barriers |
| FrameConverges | MCFrameDelivery | 0.7 M | convergence and answered barriers, under fairness |
| GitAnswers | MCGitService | 1.3 M | the service implements `GitRequests`; tickets, generations, every request answered |
| GitRefreshed | MCGitRefresh | 1.6 M | changes kept, commits see the index, the editor catches up |
| PlanApplied | MCFsPlan | 0.9 M | plans under failures and other processes |
| EndpointBound | MCEndpoint | 0.14 M | three hosts under crashes and failures |
| EndpointRow | MCEndpoint | | *violation*: a listing removes the row of a replacement |
| LspServed | MCLspManager | 1.1 M | a request, beliefs and documents through a full command queue, restarts and withdrawn permissions |

Every property of a passing run has a mutant in `PROJECT.json`: a plausible
mistake in one definition (a guard dropped, a reset missing, an order swapped)
under which TLC finds the property violated.

**Bounds.** The limits of the code (`MAX_WAIT_REQUESTS` 256, `MAX_ENTERS` 4,
`MAX_PARTICIPANTS` 64, `RESPONSE_CAPACITY`, `REQUEST_CAPACITY`, `MAX_WORKERS`,
`COMMAND_CAPACITY`, `PENDING_CAPACITY`) are constants set to one or two, so
that two or three actors reach the "it is full" cases; `LspServed`, with its one
request, is the exception. Two readers race for one terminal, with two Enters
and a queued line, through an attachment, a detach and a new attachment
(`MaxEpoch` 3).
Two agents over three connections, or two callers, are the smallest numbers for
which every race listed under hazards exists; revisions, attachments, tokens and
log entries are bounded a little above the number of steps those races need.
Four Git requests are a running read, a mutation behind it, a read behind that
and one that may or may not share; two changes of the repository with one
failure let a snapshot be outdated twice. Three operations of a plan are a cycle
of moves, or a move into a directory that is itself moved. Three hosts are a
retiring one, its successor and a newcomer.
`LspServed` is the thinnest: one server with a successor, one document, one edit,
one request, and one restart, reload or withdrawn permission. Its command queue
and the queue to the process fill, a change is refused and sent again whole; its
control queue never is full, no cap refuses its request and no transient request
replaces another, no incremental change follows a refused one, and no other
server speaks in a grace period. Larger instances were explored by hand, without
liveness, and are no part of the runs: two requests (10.3 million states), two edits (3.7
million), and two servers with a document each and no request or edit (4.2
million) satisfy the same invariants. Answers to requests of another server
during a grace period, and the cap of one server apart from the global one, were
not explored. Agents, buffers, connections and terminals are
interchangeable and declared symmetric in the safety runs; the runs with
liveness use no symmetry.

**Deadlock** is not checked where the system may really stop (the host has
ended, every bounded counter is used up). `PlanApplied` checks it: `apply` always
has a next step until it returns.

**Fairness.** In each module only what the runtime or the kernel schedules is
fair; clients, agents, people, children and other processes never have to act.
`AgentInput`: the loop's own steps and the clock of a waiting Enter (the loop
sleeps no longer than `context_delay`). `FrameDelivery`: the host's handling of
events and its scan slices, the connection task, the reader thread, the client's
return to `recv`. `GitService`: the scheduler and the workers (Git commands end;
they have timeouts); the monitors need not run. `GitRefresh`: the service, the
host's events, and the timer with a Git view in sight and nobody interacting; the
monitor need not see anything, which is why the timer exists. `FsPlan`: the one
thread that applies. `Endpoint`: a process that has begun to bind or to retire,
until it dies. `LspManager`: the manager task, the editor's loop, and a language
server that runs reads and answers; without the last a request may wait as long
as the server likes, as in the code.

## 5. Proofs

The proofs of a component are in `<component>Proofs`. Each holds for every value
of the constants that satisfies the named ASSUME of the component: any number of
readers, callers, agents, hosts or requests, any limit, any bound. The argument
is the same everywhere. `IndInv` conjoins the properties of the runs with what
they rest on; `InitInv` and one lemma per action (under it one step per conjunct
that the action can disturb) give `Invariance`; the properties follow from it,
the action properties from `IndInv /\ [Next]_vars`. Before it was proved each
`IndInv` was checked by TLC as an invariant of the component's run.

**AgentInputProofs** (`TypeCorrect`, `Invariance`, `OneEnter`,
`TitlesShowEnters`, `OwnersConnected`, `PressedAsAsked`, `QueuedLinesOwned`).
`IndInv` is the type invariant, `OneEnterPerTerminal`, `PendingShown`,
`EnterOwnerConnected` and `AttachmentNoted`. The parts need each other: the mark
of a terminal is cleared when *an* Enter of it ends, which is right only because
no second one waits; and an Enter is pressed under the attachment it was asked
for only because the noted attachment is the real one whenever a request is
handled. `LinesInv` adds that every line in a terminal's queue is listed among
the proposals of its session: cancelling goes by that list, and without it a
line could outlive the wish for it.

**WaitRequestsProofs** (`Invariance`, `WaitsHaveWork`, `ForceIsFinal`,
`OutcomesAreFinal`, `SuccessMeansSaved`, `NobodyAbandoned`). The table is a
sequence from which finished requests are pruned, so the lemmas on each of its
operators (`update_wait_status`, closing, reconciling, pruning) come first: a
request keeps its place's meaning, its buffers and a final status. `IndInv`:
the limit of the table; work left for each pending request; a connection that
watches it; open buffers and a live terminal once nothing is unreconciled;
tokens to come that nothing mentions; and, for `ForcedNeverSucceeds`, that a pending request left with
`:q!` has its cancellation already in the queue. A pending request whose last
buffer was closed is the reason for that part: only the order of the queue
decides whether it completes or is cancelled.

**GitServiceProofs** (`Invariance`, `TicketFirst`, `GenerationsOrder`,
`Refinement`). `IndInv` says where a request that is not answered is (in the
channel, a queue, a job under way: exactly one, once), that channel, queues, jobs
and work of a repository are in the order of submission, that the tickets of a
repository are those of its waiting requests in that order, and what the logs
and stamps are worth: a result of the current generation shows every mutation that ran. `Refinement` is
`Spec => AnswersInOrder`: each action is shown to be a step of `GitRequests` or
to leave its five variables alone. The interesting step is a read answered to
several waiters, which is right because no unanswered mutation of its repository
is older than any of them.

**GitRefreshProofs** (`Invariance`, `FlightsAreKnown`, `ChangeIsKept`,
`CommitSees`). `IndInv`: clocks; for each of the two flags of the editor, one
request of its purpose among jobs and completions when it is set and none
otherwise; snapshots that arrive in the order of what they show and of their
generations; an answer that was not shared is current; and a *promise*: when a
change is not shown and not pending, the reconciliation under way will show it
if it succeeds. The promise breaks exactly when a snapshot is outdated by a
second change, and there the code sets the pending flag again. `OnlyTheHostTakes`
reduces `CommitSeesIndex` to one action.

**EndpointProofs** (`Invariance`, `ServingKept`, `RefusedForLive`). Files name a
host only once it has written them (`WrittenInTurn`); the holder of the lock
finds what it prepared (`Prepared`); a serving host keeps socket, metadata and
row (`Kept`) unless one of the two observed windows, `torn` or `raced`, has taken
them: that exception is in the property, it is what the code gives.

**AgentChannelProofs** (`Invariance`, `PresenceHolds`, `NamesHold`,
`AgentsMissNothing`, `UnreadIsUnknown`). `IndInv`: presence agrees with the
connections; a nickname is given once and never to another, also after its owner
departed; names kept for the retained messages; one conversation per connection;
and positions, requests and answers that fit each other, which is what survives
a lost reply: the position an adapter asks from is never past what it was given
or told it had missed. `ChannelConstants` assumes limits that let a message in
(`MaxBytes`, `ReadBytes` above one) and that there is a provider, a task and a
place.

**FrameDeliveryProofs** (`NeverGoesBack`, `EndExplained`, `DamageAlwaysFits`,
`BarrierCovers`). The invariant is proved in five layers, each using the ones
before it; `HostMoves`, `TaskMove`, `ReaderMove` and `ClientMove` say once what a
step of each actor may do, and the layers are proved against those.
1. `Typed`: types, what each place may hold, and that the inputs handled and on
   their way are the inputs sent.
2. `EndsInTurn`, `FinalIsLast`: an end travels through task, reader and client in
   that order, and wherever the final reply is, no semantic reply is behind it.
   That needs `semantic_before_final`: recv may have looked at an empty queue
   before the last reply was put there.
3. `Balanced`, `Greeting`: the replies accepted are those received and those in
   the pipe; Welcome comes first, and nothing is asked before the first frame.
   `EndIsExplained` follows from the first three and `Explained`.
4. `SlotAhead`, `Plain`, `Chain`: the visual slot is never behind what was
   written; a terminal never asks for barriers or complete frames; and while it
   runs, each damage on its way starts from what will be shown before it: in the
   slot from what was delivered, on the socket from the update before it or the
   reader's frame, at the client never. `DamageFits` is a part of it.
5. `OneBarrier`, `Covered`: the barrier a window waits for is in one place at
   most (asked, noted, on its way back), which takes counting over five queues;
   every input it covers is ahead of it; frames show ever more input. So the
   frame that answers shows all of it.

**FsPlanProofs** (`NothingIsLost`, `StoppedRestores`, `StagingIsReported`,
`ReportHolds`).
`LostInv`, for the first: until the deletes are done the disk holds nothing but
originals (in place, or staged), entries of other processes and staging
directories in the root; a path of the listing leads to its original while that
was not moved; and the source of a staged move is in place no more. So a delete
meets only what is doomed, also when the paths of the plan cross, and the later
phases remove nothing but staging directories and copies of their own.
`RollbackInv`, for plans that stop undisturbed: what is staged is the moves of
the plan up to a point, in order, and everything else lies where it lay; the
place the last one left has stayed free, and the directory it lay in is back or
never left, so that the last one can always return. `StagingInv`: each staging
directory on disk is in use, staged or reported, an original in one likewise;
a move is staged once and pending until it is published, so that nothing is
staged any more when `apply` returns normally. `ReportInv`, while no other
process interferes: the plan has the shape that `build_with_limits` lets through
(`Shaped`: a copy is made of what a move of the plan puts there, or of an entry
that no step takes away, or of one that keeps its path because nothing is put in
its place); the steps are applied or left to do; and what a path leads to once
(`Leads`) it leads to for good, because later steps only come to names that are
free and remove only what no path leads to (`SameOn`, lemmas `Arrival`,
`CleanupSame`, `CopyIn`). So the effect of a step outlives the steps after it,
also when it went through a directory that another step of the plan made.

**Model-checked only.** Liveness under the fairness of section 4
(`EnterDecided` and the like, `Converges`, `CatchesUp`, `Finishes`,
`RequestsEnd`) and ENABLED, which the prover does not treat; the two runs
that expect a violation; `TypeOK` of `FsPlan`, which `Finishes` demands
throughout: that every entry lies in a directory that exists (`Below` has a
finite depth, which suffices for every plan that was checked, not for every
plan); and the properties of `LspManager`, whose steps fold over the documents.

## 6. Findings

1. **Panic on leaving** (`cli.rs:4217`). The client's list of wait tokens keeps
   tokens of requests that were pruned at `MAX_WAIT_REQUESTS`; `:detach` or
   `:quit` then reaches `expect("cancelled wait exists")` (run
   `WaitAttachedPanic`).
2. **Row of a replacement removed** (`workspace/transport.rs:1377`). A listing
   compares the pid of a row and then unlinks the file, without a lock; a host
   that publishes in between is not listed any more (run `EndpointRow`).

Observations, met while modelling, that no run states as a property:

- *Agent input.* A due Enter waits 100 ms for a pass of the loop, but the pass
  that comes may be for another event: output queued before the Enter fell due
  can be unread (`context_input.rs:22` says otherwise). Cancelling a queued line
  does not cancel an Enter already queued behind it.
- *Wait requests.* A request created after the last reconciliation is not in the
  counts by which `:q!` decides whether another request shares the buffer
  (`host.rs:863`, `navigation_workflows.rs:728`).
- *Agent channel.* `read` moves `read_through` when it prepares its answer: after
  a lost reply the messages wait for the agent but no longer count as unread.
- *Frames.* Waiting for its launch barrier a window passes over every visual, the
  newest too (`cli.rs:5187`); it keeps an older frame until something changes.
- *Git.* `:git-refresh` may join a refresh that began before the last change,
  although `docs/user-guide/git.md:73` says that it reconciles immediately. A worker thread
  that panics leaves its repository busy for ever.
- *Filesystem plans.* A staging directory whose cleanup failed is reported and
  stays; when it lies in a directory that a later copy of the same plan copies,
  its copy is left there too and no report names it (`fs_plan.rs:1987`,
  `fs_plan/staging.rs:185`). A directory that `OwnedTree::allocate` made but
  could not identify (`fs_plan/staging.rs:90`) stays empty on disk and in no
  report; the model's failed allocations make nothing.
- *Endpoint.* A publication that failed drops the identity lock before it removes
  its socket and metadata (`transport.rs:745`): it can take a successor's.
- *Language servers.* A stopped server "will restart on the next edit"
  (`lsp/mod.rs:1424`), but `lsp_change` returns early without a document entry
  (`language_workflows.rs:438`): the next request or save starts it. An Open
  queued behind a restart starts the successor with the document, which its
  Ready then announces again. A Close that finds the queue full is forgotten.

## 7. Not modelled

Text, layout, rendering, parsing and formatting; the Windows adapters (the same
contracts over named pipes); the git program; write timeouts and the flush
budget at shutdown; pointer batching; an agent that is paired anew under another
identity, or that names the message it reads from (`since`), and so skips or
repeats by its own choice; diagnostics and the edits a language
server applies; symbolic links in plans; workspace names and renaming. Plugins,
the parent handoff and context grants are the parts with concurrency of their
own that are left; the plan takes them up. Most of the remaining source (the
editor's commands, the user interface, syntax, pickers, configuration) is
sequential transformation of text and screens, which a model checker would only
restate. `components` in `PROJECT.json` gives the reason for each.
