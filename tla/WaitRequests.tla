---------------------------- MODULE WaitRequests ----------------------------
(***************************************************************************)
(* Wait requests of the persistent workspace host: a command line client   *)
(* ("runyte --wait", an editor started inside one of the host's own        *)
(* terminals) asks for files to be edited and blocks until the host says   *)
(* completed or cancelled.                                                 *)
(*                                                                         *)
(* The host is one event loop, so each action is one event: a connection   *)
(* that comes or goes, a request, an input of the attached TUI, a slice of *)
(* a macro replay, a terminal that exits.  What interleaves are the        *)
(* events of several connections, the editor and the terminals.            *)
(*                                                                         *)
(* Sources: src/src/workspace/host.rs (the table of wait requests),        *)
(* src/src/cli.rs (connections, tokens, quit and shutdown),                *)
(* src/src/cli/host_requests.rs, src/src/app/navigation_workflows.rs       *)
(* (complete_parent_wait), src/src/app/file_workflows.rs.                  *)
(***************************************************************************)
EXTENDS Integers, Sequences, FiniteSets

CONSTANTS
    Conns,            \* connections; each is used once
    Buffers,
    Terminals,        \* terminals whose child may ask for an edit
    None,             \* no connection, no terminal
    MaxWaitRequests,  \* MAX_WAIT_REQUESTS
    MaxToken,         \* bound on the tokens ever issued
    MaxActions        \* bound on parent actions not yet reconciled

ASSUME WaitConstants ==
    /\ MaxWaitRequests \in Nat \ {0}
    /\ MaxToken \in Nat /\ MaxActions \in Nat
    /\ None \notin Conns \union Terminals

VARIABLES
    pc,          \* "run", then how the loop ended
    link,        \* the connections the transport reported, by their kind
    active,      \* the attached TUI
    controls,    \* control connections that still have a response sender
    attachment,  \* control_attachments: the TUI attached when one connected
    tokens,      \* control_wait_tokens, and AttachedClient.wait_tokens
    waits,       \* WorkspaceHost.wait_requests
    nextToken,   \* next_wait_token; wait_order is the order of the tokens
    origin,      \* WorkspaceHost.parent_wait_origins
    doc,         \* App.buffers and App.closed_buffers
    term,        \* App.terminals
    shared,      \* App.parent_wait_buffers
    actions,     \* App.parent_wait_actions
    unreconciled,\* history: the editor changed since the last reconcile
    forced       \* history: requests of a buffer that was left with :q!

hostVars == <<waits, nextToken, origin>>
appVars == <<doc, term, shared, actions>>
connVars == <<link, active, controls, attachment, tokens>>
history == <<unreconciled, forced>>
vars == <<pc, connVars, hostVars, appVars, history>>

Tokens == 1 .. MaxToken

-----------------------------------------------------------------------------
(* Types *)

Wait == [status : {"absent", "pending", "completed", "cancelled"},
         buffers : SUBSET Buffers, completed : SUBSET Buffers]

TypeOK ==
    /\ pc \in {"run", "stopped", "killed", "panicked"}
    /\ link \in [Conns -> {"unused", "tui", "control", "gone"}]
    /\ active \in {c \in Conns : link[c] = "tui"} \union {None}
    /\ controls \subseteq {c \in Conns : link[c] = "control"}
    /\ attachment \in [Conns -> Conns \union {None}]
    /\ tokens \in [Conns -> SUBSET Tokens]
    /\ waits \in [Tokens -> Wait]
    /\ nextToken \in 1 .. MaxToken + 1
    /\ origin \in [Tokens -> Terminals \union {None}]
    /\ doc \in [Buffers -> {"clean", "dirty", "saving", "closed"}]
    /\ term \in [Terminals -> {"live", "exited", "closed"}]
    /\ shared \in [Buffers -> 0 .. MaxToken]
    /\ actions \in Seq([buffer : Buffers, cancel : BOOLEAN])
    /\ unreconciled \in BOOLEAN
    /\ forced \subseteq Tokens

Absent == [status |-> "absent", buffers |-> {}, completed |-> {}]

Pending(t) == waits[t].status = "pending"
Recorded(w) == {t \in Tokens : w[t].status # "absent"}
Remaining(request) == request.buffers \ request.completed
PendingOf(w) == {t \in Tokens : w[t].status = "pending"}

-----------------------------------------------------------------------------
(* The table of wait requests, as operators on a table w. *)

\* update_wait_status.
Updated(request) ==
    [request EXCEPT !.status =
        IF request.buffers \subseteq request.completed THEN "completed"
        ELSE "pending"]

\* Mutant of Cancelled: a completed request is cancelled too.
CancelledAnyway(w, T) ==
    [t \in Tokens |-> IF t \in T /\ w[t].status # "absent"
                      THEN [w[t] EXCEPT !.status = "cancelled"] ELSE w[t]]

\* cancel_wait, for the pending requests of T.
Cancelled(w, T) ==
    [t \in Tokens |-> IF t \in T /\ w[t].status = "pending"
                      THEN [w[t] EXCEPT !.status = "cancelled"] ELSE w[t]]

\* refresh_parent_wait_buffers: how many pending requests hold each buffer of
\* a pending parent request.
Counts(w, o) ==
    [b \in Buffers |->
        LET holders == {t \in PendingOf(w) : b \in Remaining(w[t])}
        IN  IF \E t \in holders : o[t] # None THEN Cardinality(holders)
            ELSE 0]

\* prune_terminal_wait_requests: the oldest terminal requests make room.
Pruned(w) ==
    LET terminal == Recorded(w) \ PendingOf(w)
        excess == Cardinality(Recorded(w)) - MaxWaitRequests + 1
    IN  [t \in Tokens |->
            IF t \in terminal
               /\ Cardinality({u \in terminal : u < t}) < excess
            THEN Absent ELSE w[t]]

\* create_wait_request accepts one more request.
HasRoom(w) == Cardinality(Recorded(w)) < MaxWaitRequests

\* The parent edits the person ended with :wq or :q!, in order, applied to a
\* pending parent request; d is the state of the buffers.
Ended(request, acts, d) ==
    LET finishes == {i \in DOMAIN acts : /\ ~acts[i].cancel
                                         /\ acts[i].buffer \in request.buffers
                                         /\ d[acts[i].buffer] = "clean"}
        cancels == {i \in DOMAIN acts : /\ acts[i].cancel
                                        /\ acts[i].buffer \in request.buffers}
        done(I) == request.completed \union {acts[i].buffer : i \in I}
    IN  IF \E i \in cancels :
              ~(request.buffers \subseteq done({j \in finishes : j < i}))
        THEN [request EXCEPT !.status = "cancelled"]
        ELSE Updated([request EXCEPT !.completed = done(finishes)])

\* Mutant of WithClosed: update_wait_status is not called.
WithClosedUncounted(request, d) ==
    [request EXCEPT !.completed =
        @ \union {b \in request.buffers : d[b] = "closed"}]

\* The ordinary reconciliation of a pending request with the closed buffers.
WithClosed(request, d) ==
    Updated([request EXCEPT !.completed =
                @ \union {b \in request.buffers : d[b] = "closed"}])

\* Mutant of Reconciled: closed buffers are reconciled first.
ReconciledClosedFirst(w, acts, d, terminals) ==
    [t \in Tokens |->
        IF w[t].status # "pending" THEN w[t]
        ELSE LET closed == WithClosed(w[t], d)
             IN  IF closed.status # "pending" \/ origin[t] = None THEN closed
                 ELSE LET ended == Ended(closed, acts, d)
                      IN  IF ended.status = "pending"
                             /\ terminals[origin[t]] # "live"
                          THEN [ended EXCEPT !.status = "cancelled"]
                          ELSE ended]

\* reconcile_wait_requests: explicit parent edits, then parents whose
\* terminal is gone, then closed buffers.
Reconciled(w, acts, d, terminals) ==
    [t \in Tokens |->
        IF w[t].status # "pending" THEN w[t]
        ELSE IF origin[t] = None THEN WithClosed(w[t], d)
        ELSE LET ended == Ended(w[t], acts, d)
             IN  IF ended.status # "pending" THEN ended
                 ELSE IF terminals[origin[t]] # "live"
                 THEN [ended EXCEPT !.status = "cancelled"]
                 ELSE WithClosed(ended, d)]

\* The host after a reconcile, with buffers d, terminals ts and parent edits
\* acts.
Reconcile(acts, d, ts) ==
    /\ waits' = Reconciled(waits, acts, d, ts)
    /\ shared' = Counts(waits', origin)
    /\ actions' = <<>>
    /\ unreconciled' = FALSE
    /\ UNCHANGED <<nextToken, origin>>

\* An input of the TUI reconciles, a slice of a macro replay does not.
AfterEditor(reconciles, acts, counts, d, ts) ==
    /\ doc' = d
    /\ term' = ts
    /\ IF reconciles THEN Reconcile(acts, d, ts)
       ELSE /\ actions' = acts
            /\ shared' = counts
            /\ unreconciled' = TRUE
            /\ UNCHANGED hostVars
    /\ UNCHANGED <<pc, connVars>>

\* cancel_wait for each of the tokens T; an unknown one changes nothing.
CancelWaits(T) ==
    /\ waits' = Cancelled(waits, T)
    /\ shared' = IF T \intersect Recorded(waits) = {} THEN shared
                 ELSE Counts(waits', origin)
    /\ UNCHANGED <<nextToken, origin, doc, term, actions, history>>

-----------------------------------------------------------------------------
Init ==
    /\ pc = "run"
    /\ link = [c \in Conns |-> "unused"]
    /\ active = None
    /\ controls = {}
    /\ attachment = [c \in Conns |-> None]
    /\ tokens = [c \in Conns |-> {}]
    /\ waits = [t \in Tokens |-> Absent]
    /\ nextToken = 1
    /\ origin = [t \in Tokens |-> None]
    /\ doc = [b \in Buffers |-> "clean"]
    /\ term = [t \in Terminals |-> "live"]
    /\ shared = [b \in Buffers |-> 0]
    /\ actions = <<>>
    /\ unreconciled = FALSE
    /\ forced = {}

-----------------------------------------------------------------------------
(* Connections *)

\* ServerEvent::Connected.  A second TUI is refused; a Welcome that cannot be
\* queued (welcomed FALSE) leaves a connection the host keeps nothing of.
Connected(c, kind, welcomed) ==
    /\ pc = "run"
    /\ link[c] = "unused"
    /\ kind = "tui" /\ active # None => ~welcomed
    /\ link' = [link EXCEPT ![c] = kind]
    /\ active' = IF kind = "tui" /\ welcomed THEN c ELSE active
    /\ controls' = IF kind = "control" /\ welcomed THEN controls \union {c}
                   ELSE controls
    /\ attachment' = IF kind = "control" /\ welcomed
                     THEN [attachment EXCEPT ![c] = active] ELSE attachment
    /\ UNCHANGED <<pc, tokens, hostVars, appVars, history>>

\* The requests that go with connection c; those a TUI watches stay.
Abandoned(c) == IF link[c] = "control" THEN tokens[c] ELSE {}

\* ServerEvent::Disconnected.
Disconnected(c) ==
    /\ pc = "run"
    /\ link[c] \in {"tui", "control"}
    /\ link' = [link EXCEPT ![c] = "gone"]
    /\ active' = IF active = c THEN None ELSE active
    /\ controls' = controls \ {c}
    /\ attachment' = [attachment EXCEPT ![c] = None]
    /\ tokens' = [tokens EXCEPT ![c] = {}]
    /\ CancelWaits(Abandoned(c))
    /\ UNCHANGED pc

\* A request is handled while the host knows its connection.
MayAsk(c) == pc = "run" /\ (c = active \/ c \in controls)
TuiAttached == pc = "run" /\ active # None

\* send_control_response and send_active_response: a reply that cannot be
\* queued (~sent) ends the connection's use, not yet its requests.
Reply(c, sent) ==
    /\ active' = IF c = active /\ ~sent THEN None ELSE active
    /\ controls' = IF sent THEN controls ELSE controls \ {c}

-----------------------------------------------------------------------------
(* Requests *)

\* The connections that keep a new token: its own, and the attached TUI.
Keepers(c) == {c} \union ({active} \ {None})

\* create_wait_request with the table already pruned to w.
Insert(w, B) ==
    waits' = [w EXCEPT ![nextToken] =
                 [status |-> "pending", buffers |-> B, completed |-> {}]]

\* CreateWait, for buffers B that its paths open.
CreateWait(c, B, sent) ==
    /\ MayAsk(c)
    /\ nextToken <= MaxToken
    /\ \A b \in B : doc[b] # "closed"
    /\ HasRoom(Pruned(waits))
    /\ Insert(Pruned(waits), B)
    /\ origin' = [t \in Tokens |->
                     IF Pruned(waits)[t].status = "absent" THEN None
                     ELSE origin[t]]
    /\ nextToken' = nextToken + 1
    /\ tokens' = [k \in Conns |-> IF k \in Keepers(c)
                                  THEN tokens[k] \union {nextToken}
                                  ELSE tokens[k]]
    /\ Reply(c, sent)
    /\ UNCHANGED <<pc, link, attachment, appVars, history>>

\* ParentWait: the TUI that was attached when the client connected still is,
\* and the terminal it runs in lives.
ParentWait(c, t, B, sent) ==
    /\ MayAsk(c) /\ c \in controls
    /\ active # None /\ attachment[c] = active
    /\ term[t] = "live"
    /\ nextToken <= MaxToken
    /\ \A b \in B : doc[b] # "closed"
    /\ HasRoom(Pruned(waits))
    /\ Insert(Pruned(waits), B)
    /\ origin' = [u \in Tokens |->
                     IF u = nextToken THEN t
                     ELSE IF Pruned(waits)[u].status = "absent" THEN None
                     ELSE origin[u]]
    /\ shared' = Counts(waits', origin')
    /\ nextToken' = nextToken + 1
    /\ tokens' = [tokens EXCEPT ![c] = @ \union {nextToken}]
    /\ Reply(c, sent)
    /\ UNCHANGED <<pc, link, attachment, doc, term, actions, history>>

\* A CreateWait or ParentWait whose files cannot be opened, or for which there
\* is no room, has pruned the table already.  (begin_parent_wait cannot fail:
\* parent_wait_origin_available has just found what it looks for, and opening
\* without activation changes neither panes nor terminals.)
WaitRefused(c, sent) ==
    /\ MayAsk(c)
    /\ waits' = Pruned(waits)
    /\ origin' = [t \in Tokens |-> IF waits'[t].status = "absent" THEN None
                                   ELSE origin[t]]
    /\ Reply(c, sent)
    /\ UNCHANGED <<pc, link, attachment, tokens, nextToken, appVars, history>>

\* AttachWait: the TUI watches a request the host knows.
AttachWait(t, sent) ==
    /\ TuiAttached
    /\ t \in Recorded(waits)
    /\ tokens' = [tokens EXCEPT ![active] = @ \union {t}]
    /\ Reply(active, sent)
    /\ UNCHANGED <<pc, link, attachment, hostVars, appVars, history>>

\* CompleteWaitBuffer of a saved buffer; the counts are not refreshed.  A
\* request completed by name is no longer one that :q! ended.
CompleteWaitBuffer(c, t, b, sent) ==
    /\ MayAsk(c)
    /\ Pending(t)
    /\ b \in Remaining(waits[t])
    /\ doc[b] = "clean"
    /\ waits' = [waits EXCEPT ![t] =
                    Updated([waits[t] EXCEPT !.completed = @ \union {b}])]
    /\ forced' = forced \ {t}
    /\ Reply(c, sent)
    /\ UNCHANGED <<pc, link, attachment, tokens, nextToken, origin, appVars,
                   unreconciled>>

\* CancelWait.
CancelWait(c, t, sent) ==
    /\ MayAsk(c)
    /\ t \in Recorded(waits)
    /\ CancelWaits({t})
    /\ Reply(c, sent)
    /\ UNCHANGED <<pc, link, attachment, tokens>>

\* CloseBuffer, which reconciles.
CloseBuffer(c, b, discard, sent) ==
    /\ MayAsk(c)
    /\ doc[b] = "clean" \/ (doc[b] = "dirty" /\ discard)
    /\ doc' = [doc EXCEPT ![b] = "closed"]
    /\ Reconcile(actions, doc', term)
    /\ Reply(c, sent)
    /\ UNCHANGED <<pc, link, attachment, tokens, term, forced>>

\* Any other request: nothing here changes but what an unsent reply ends.
OtherRequest(c, sent) ==
    /\ MayAsk(c)
    /\ Reply(c, sent)
    /\ UNCHANGED <<pc, link, attachment, tokens, hostVars, appVars, history>>

-----------------------------------------------------------------------------
(* The editor and the terminals.  `reconciles` tells an input of the TUI    *)
(* from a slice of a macro replay.                                          *)

MayEdit(reconciles) == pc = "run" /\ (reconciles => active # None)

\* Typing, saving and closing; closing discards when the person says so.
EditorChanges(b, state, reconciles) ==
    /\ MayEdit(reconciles)
    /\ doc[b] \in {"clean", "dirty"} /\ doc[b] # state
    /\ AfterEditor(reconciles, actions, shared,
                   [doc EXCEPT ![b] = state], term)
    /\ UNCHANGED forced

\* A save that runs in the background, begun and ended.
SaveBegins(b) ==
    /\ pc = "run"
    /\ doc[b] \in {"clean", "dirty"}
    /\ doc' = [doc EXCEPT ![b] = "saving"]
    /\ UNCHANGED <<pc, connVars, hostVars, term, shared, actions, history>>

SaveEnds(b, saved) ==
    /\ pc = "run"
    /\ doc[b] = "saving"
    /\ doc' = [doc EXCEPT ![b] = IF saved THEN "clean" ELSE "dirty"]
    /\ Reconcile(actions, doc', term)
    /\ UNCHANGED <<pc, connVars, term, forced>>

\* The pending parent requests that leaving buffer b with :q! ends; one that
\* an earlier edit in line already ends is not its own.
EndedBy(b) ==
    {t \in PendingOf(waits) :
        /\ origin[t] # None
        /\ b \in waits[t].buffers
        /\ \A i \in DOMAIN actions : actions[i].buffer \notin waits[t].buffers}

\* complete_parent_wait: :wq (or :q) and :q! in a buffer of a parent request.
\* Unsaved text is only discarded by :q!, and only when the counts say that
\* no other request shares the buffer.
CompleteParentWait(b, cancel, reconciles) ==
    /\ MayEdit(reconciles)
    /\ Len(actions) < MaxActions
    /\ shared[b] > 0
    /\ doc[b] = "clean" \/ (doc[b] = "dirty" /\ cancel /\ shared[b] <= 1)
    /\ AfterEditor(reconciles,
                   Append(actions, [buffer |-> b, cancel |-> cancel]),
                   [shared EXCEPT ![b] = 0],
                   [doc EXCEPT ![b] = "clean"], term)
    /\ forced' = IF cancel THEN forced \union EndedBy(b) ELSE forced

\* The person closes a terminal.
CloseTerminal(t, reconciles) ==
    /\ MayEdit(reconciles)
    /\ term[t] # "closed"
    /\ AfterEditor(reconciles, actions, shared, doc,
                   [term EXCEPT ![t] = "closed"])
    /\ UNCHANGED forced

\* apply_terminal_output for Exited, which reconciles.
TerminalExits(t) ==
    /\ pc = "run"
    /\ term[t] = "live"
    /\ term' = [term EXCEPT ![t] = "exited"]
    /\ Reconcile(actions, doc, term')
    /\ UNCHANGED <<pc, connVars, doc, forced>>

-----------------------------------------------------------------------------
(* The TUI leaves, the host ends. *)

\* Mutant of Unprotected: only the requests of a terminal's editor count.
UnprotectedByWaits(w, force, terminate) ==
    /\ force \/ \A b \in Buffers : doc[b] # "dirty"
    /\ \A t \in PendingOf(w) : origin[t] = None
    /\ terminate \/ \A t \in Terminals : term[t] # "live"

\* protected_state().is_empty() for the table w, after what a force spelling
\* and the end of the terminals take out of it.
Unprotected(w, force, terminate) ==
    /\ force \/ \A b \in Buffers : doc[b] # "dirty"
    /\ PendingOf(w) = {}
    /\ terminate \/ \A t \in Terminals : term[t] # "live"

\* Mutant of Finished: modified buffers do not stop a completion.
FinishedUnsaved(w, T) ==
    [t \in Tokens |->
        IF t \notin T \/ w[t].status # "pending" THEN w[t]
        ELSE Updated([w[t] EXCEPT !.completed = w[t].buffers])]

\* complete_wait_request for the tokens T of a reconciled table, cancelling
\* what cannot complete.
Finished(w, T) ==
    [t \in Tokens |->
        IF t \notin T \/ w[t].status # "pending" THEN w[t]
        ELSE IF \A b \in Remaining(w[t]) : doc[b] = "clean"
        THEN Updated([w[t] EXCEPT !.completed = w[t].buffers])
        ELSE [w[t] EXCEPT !.status = "cancelled"]]

\* The table complete_attached_waits leaves; without tokens it does nothing.
AfterAttached(T) ==
    IF T = {} THEN waits
    ELSE Finished(Reconciled(waits, actions, doc, term), T)

\* complete_attached_waits.  The counts are those of the reconciliation for
\* the last token, or of its cancellation.
CompleteAttachedWaits(T) ==
    /\ T \subseteq Recorded(waits)
    /\ waits' = AfterAttached(T)
    /\ IF T = {} THEN UNCHANGED <<shared, actions, unreconciled>>
       ELSE /\ \E last \in T :
                  shared' = Counts(
                      IF waits'[last].status = "completed"
                      THEN [waits' EXCEPT ![last] =
                              Reconciled(waits, actions, doc, term)[last]]
                      ELSE waits', origin)
            /\ actions' = <<>>
            /\ unreconciled' = FALSE
    /\ UNCHANGED <<nextToken, origin, doc, forced>>

\* The `expect` in complete_attached_waits finds no request for a token.
Panics ==
    /\ TuiAttached
    /\ ~(tokens[active] \subseteq Recorded(waits))
    /\ pc' = "panicked"
    /\ UNCHANGED <<connVars, hostVars, appVars, history>>

\* :detach.
FinishAttachedDetach ==
    /\ TuiAttached
    /\ CompleteAttachedWaits(tokens[active])
    /\ active' = None
    /\ UNCHANGED <<pc, link, controls, attachment, tokens, term>>

\* finish_attached_quit; a refused quit leaves the TUI attached, unless one of
\* the wait states could not be sent to it.
FinishAttachedQuit(force, terminate, sent) ==
    /\ TuiAttached
    /\ terminate => force
    /\ sent \/ tokens[active] # {}
    /\ CompleteAttachedWaits(tokens[active])
    /\ IF Unprotected(AfterAttached(tokens[active]), force, terminate)
       THEN /\ pc' = "stopped"
            /\ term' = IF terminate THEN [t \in Terminals |-> "closed"]
                       ELSE term
            /\ UNCHANGED active
       ELSE /\ active' = IF sent THEN active ELSE None
            /\ UNCHANGED <<pc, term>>
    /\ UNCHANGED <<link, controls, attachment, tokens>>

\* switch_attached_workspace.
SwitchWorkspace ==
    /\ TuiAttached
    /\ CancelWaits(tokens[active])
    /\ active' = None
    /\ UNCHANGED <<pc, link, controls, attachment, tokens>>

\* A Detach request, or a ParentAttach that hands the TUI over: its tokens are
\* forgotten and its requests stay.
Detach ==
    /\ TuiAttached
    /\ active' = None
    /\ UNCHANGED <<pc, link, controls, attachment, tokens, hostVars, appVars,
                   history>>

\* cancel_all_waits when the loop ends.
EndLoop(how) ==
    /\ pc' = how
    /\ waits' = Cancelled(waits, Tokens)
    /\ UNCHANGED <<connVars, nextToken, origin, appVars, history>>

Shutdown(c) ==
    /\ MayAsk(c)
    /\ Unprotected(waits, FALSE, FALSE)
    /\ EndLoop("stopped")

\* may_retire_idle, once the idle interval has passed.
RetireIdle ==
    /\ pc = "run"
    /\ active = None
    /\ Unprotected(waits, FALSE, FALSE)
    /\ \A t \in Terminals : term[t] = "closed"
    /\ EndLoop("stopped")

\* ForceShutdown, a signal, or the end of the supervising process.
Kill ==
    /\ pc = "run"
    /\ EndLoop("killed")

-----------------------------------------------------------------------------
NonEmpty == (SUBSET Buffers) \ {{}}

ConnectionEvent ==
    \E c \in Conns :
        \/ \E kind \in {"tui", "control"}, ok \in BOOLEAN :
              Connected(c, kind, ok)
        \/ Disconnected(c)

RequestEvent ==
    \E c \in Conns, sent \in BOOLEAN :
        \/ \E B \in NonEmpty : CreateWait(c, B, sent)
        \/ \E B \in NonEmpty, t \in Terminals : ParentWait(c, t, B, sent)
        \/ WaitRefused(c, sent)
        \/ \E t \in Tokens, b \in Buffers : CompleteWaitBuffer(c, t, b, sent)
        \/ \E t \in Tokens : CancelWait(c, t, sent)
        \/ \E b \in Buffers, discard \in BOOLEAN :
              CloseBuffer(c, b, discard, sent)
        \/ OtherRequest(c, sent)

EditorEvent ==
    \/ \E b \in Buffers, reconciles \in BOOLEAN :
        \/ \E state \in {"clean", "dirty", "closed"} :
              EditorChanges(b, state, reconciles)
        \/ \E cancel \in BOOLEAN : CompleteParentWait(b, cancel, reconciles)
    \/ \E b \in Buffers : SaveBegins(b) \/ \E ok \in BOOLEAN : SaveEnds(b, ok)
    \/ \E t \in Terminals :
        \/ TerminalExits(t)
        \/ \E reconciles \in BOOLEAN : CloseTerminal(t, reconciles)

LeaveEvent ==
    \/ \E t \in Tokens, sent \in BOOLEAN : AttachWait(t, sent)
    \/ Panics \/ FinishAttachedDetach \/ SwitchWorkspace \/ Detach
    \/ \E force, terminate, sent \in BOOLEAN :
          FinishAttachedQuit(force, terminate, sent)
    \/ \E c \in Conns : Shutdown(c)
    \/ RetireIdle \/ Kill

Next == ConnectionEvent \/ RequestEvent \/ EditorEvent \/ LeaveEvent

Spec == Init /\ [][Next]_vars

-----------------------------------------------------------------------------
(* Properties *)

\* What a waiting client was told stays true: a completed or cancelled request
\* never changes again, a pending one is never forgotten, and a forgotten
\* token is never issued again.
OutcomeFinal ==
    [][\A t \in Tokens :
          /\ waits[t].status \in {"completed", "cancelled"} =>
                waits'[t].status \in {waits[t].status, "absent"}
          /\ Pending(t) => waits'[t].status # "absent"
          /\ t < nextToken /\ waits[t].status = "absent" =>
                waits'[t].status = "absent"]_vars

\* No request succeeds while one of the buffers it still waits for is modified
\* or being written, whichever of the paths completes it.
CompletedWhenSaved ==
    [][\A t \in Tokens :
          Pending(t) /\ waits'[t].status = "completed" =>
              \A b \in Remaining(waits[t]) : doc'[b] \in {"clean", "closed"}]_vars

\* A client that waits has something left to wait for, and a request somebody
\* who waits: once the host has reconciled, every pending request has a buffer
\* open that nobody completed, and a parent request has its terminal and the
\* control connection that asked for it, even when the host could not send it
\* the token.  The host keeps at most MAX_WAIT_REQUESTS requests, and every
\* variable has its type.
PendingHasWork ==
    /\ TypeOK
    /\ Cardinality(Recorded(waits)) <= MaxWaitRequests
    /\ \A t \in Tokens : Pending(t) =>
          /\ Remaining(waits[t]) # {}
          /\ origin[t] # None =>
                \E c \in Conns : link[c] = "control" /\ t \in tokens[c]
          /\ ~unreconciled =>
                /\ \A b \in Remaining(waits[t]) : doc[b] # "closed"
                /\ origin[t] # None => term[origin[t]] = "live"

\* "a forced cancellation can never become success" (host.rs:1097): a request
\* whose buffer was left with :q! is not completed by the reconciliation that
\* follows, though the buffer may have been closed before it ran.
ForcedNeverSucceeds ==
    \A t \in forced : waits[t].status # "completed"

\* "a control client that raced the command cannot be abandoned" (cli.rs:4241):
\* the host ends of its own accord only when every request still pending was
\* the attached TUI's own, or is ended by what the editor already did.
NoWaiterAbandoned ==
    [][pc = "run" /\ pc' = "stopped" =>
          \A t \in PendingOf(waits) :
              \/ active # None /\ t \in tokens[active]
              \/ Reconciled(waits, actions, doc, term)[t].status # "pending"]_vars

\* `expect("cancelled wait exists")` (cli.rs:4217): completing the attached
\* TUI's requests finds every one of them.
AttachedWaitsExist == pc # "panicked"
=============================================================================
