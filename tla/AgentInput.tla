----------------------------- MODULE AgentInput -----------------------------
(***************************************************************************)
(* What agents type into terminals: lines of text, and the Enter that may  *)
(* follow them.                                                            *)
(*                                                                         *)
(* Three kinds of actors interleave.  The host's event loop is one thread  *)
(* that alternates between a pass ("top": note_plugin_frontend, then       *)
(* sync_context) and one event ("select").  Each terminal has a writer     *)
(* thread that takes queued input to the child and a child whose output    *)
(* the loop applies later.  Time runs beside them.                         *)
(*                                                                         *)
(* Sources: src/src/workspace/host/context_input.rs (Enter, writes),       *)
(* src/src/workspace/host/context.rs (sync_context, disconnect),           *)
(* src/src/terminal/mod.rs (revision, generation, proposals),              *)
(* src/src/terminal/proposal.rs (Delivery), src/src/terminal/pty.rs        *)
(* (the writer), src/src/app/plugin_views.rs (attachment generation).      *)
(***************************************************************************)
EXTENDS Integers, Sequences, FiniteSets

CONSTANTS
    Readers,        \* connections of readers whose grant holds Write
    Terminals,
    EnterIds,       \* handles of Enters; a handle is free once its record goes
    Texts,          \* agent lines: a bound on how many are ever written
    None,           \* no reader, no terminal, no line
    MaxEnters,      \* wire::MAX_ENTERS: waiting Enters of one reader
    MaxHostEnters,  \* wire::MAX_HOST_ENTERS: waiting Enters of the host
    RetainedEnters, \* RETAINED_ENTERS: records kept, finished ones included
    MaxRevision,    \* bound on a terminal's revision, so on what happens to it
    MaxEpoch        \* bound on attachments and detachments

ASSUME AgentInputConstants ==
    /\ MaxEnters \in Nat /\ MaxHostEnters \in Nat /\ RetainedEnters \in Nat
    /\ MaxRevision \in Nat /\ MaxEpoch \in Nat
    /\ None \notin Readers \union Terminals \union Texts

VARIABLES
    pc,          \* where the event loop stands
    epoch,       \* attachments and detachments so far; odd while attached
    frontend,    \* App.plugins.frontend_attached and attachment_generation
    readers,     \* Context.readers that are registered with Write
    writes,      \* Reader.writes: deliveries with the attachment they need
    enters,      \* Context.enters
    term,        \* TerminalManager.sessions
    proposals,   \* TerminalSession.proposal_deliveries
    delivery,    \* the shared state of each Delivery
    input,       \* the queue of each PTY writer thread
    writer,      \* whether that thread still runs
    output       \* whether the child has output the loop has not applied

vars == <<pc, epoch, frontend, readers, writes, enters, term, proposals,
          delivery, input, writer, output>>

hostVars == <<epoch, frontend, readers, writes, enters>>
termVars == <<term, proposals, delivery, input, writer, output>>

-----------------------------------------------------------------------------
(* Types *)

EnterStates == {"absent", "waiting", "sent", "stale", "cancelled"}
Timers == {"delay", "due", "armed", "settled"}
DeliveryStates ==
    {"none", "Queued", "Writing", "Delivered", "Cancelled", "OutcomeUnknown"}

\* `epoch` is history: the attachment the Enter was asked under.
Enter == [state : EnterStates, owner : Readers \union {None},
          terminal : Terminals \union {None}, revision : Nat,
          generation : Nat, attachment : Nat, timer : Timers,
          epoch : Nat]

Session == [state : {"live", "exited", "closed"}, revision : Nat,
            generation : Nat, pending : BOOLEAN]

Input == [kind : {"key", "reply", "enter", "text"}, text : Texts \union {None}]

TypeOK ==
    /\ pc \in {"top", "select", "frame"}
    /\ epoch \in Nat
    /\ frontend \in [attached : BOOLEAN, generation : Nat]
    /\ readers \subseteq Readers
    /\ writes \in [Readers -> SUBSET (Texts \X Nat)]
    /\ enters \in [EnterIds -> Enter]
    /\ \A e \in EnterIds : enters[e].state # "absent" =>
          enters[e].owner \in Readers /\ enters[e].terminal \in Terminals
    /\ term \in [Terminals -> Session]
    /\ proposals \in [Terminals -> SUBSET Texts]
    /\ delivery \in [Texts -> DeliveryStates]
    /\ input \in [Terminals -> Seq(Input)]
    /\ writer \in [Terminals -> BOOLEAN]
    /\ output \in [Terminals -> BOOLEAN]

Attached == epoch % 2 = 1

Waiting(e) == enters[e].state = "waiting"
Recorded(e) == enters[e].state # "absent"
Live(t) == term[t].state = "live"

Key == [kind |-> "key", text |-> None]
Reply == [kind |-> "reply", text |-> None]
Return == [kind |-> "enter", text |-> None]
Line(d) == [kind |-> "text", text |-> d]

-----------------------------------------------------------------------------
(* The terminal *)

\* Delivery::transition from Queued to Cancelled, for each delivery of D.
CancelQueued(states, D) ==
    [d \in Texts |-> IF d \in D /\ states[d] = "Queued" THEN "Cancelled"
                     ELSE states[d]]

\* Records that are neither Queued nor Writing are dropped from their lists.
Unfinished(states, D) == {d \in D : states[d] \in {"Queued", "Writing"}}

\* TerminalSession::cancel_queued_proposals for the sessions of T.
CancelProposals(T) ==
    LET cancelled == UNION {proposals[t] : t \in T}
        after == CancelQueued(delivery, cancelled)
    IN  /\ delivery' = after
        /\ proposals' = [t \in Terminals |->
                            IF t \in T
                            THEN {d \in proposals[t] : after[d] = "Writing"}
                            ELSE proposals[t]]

\* TerminalSession::note_input: input moves the generation and the revision.
NoteInput(session) == [session EXCEPT !.generation = @ + 1, !.revision = @ + 1]

NoteChange(session) == [session EXCEPT !.revision = @ + 1]

\* Pty::write takes bytes while the session has a PTY whose writer runs; the
\* byte budget may refuse them all the same.
MayWrite(t) == Live(t) /\ writer[t]

-----------------------------------------------------------------------------
\* A handle without a record.
Absent == [state |-> "absent", owner |-> None, terminal |-> None,
           revision |-> 0, generation |-> 0, attachment |-> 0,
           timer |-> "delay", epoch |-> 0]

Init ==
    /\ pc = "top"
    /\ epoch = 0
    /\ frontend = [attached |-> FALSE, generation |-> 0]
    /\ readers = {}
    /\ writes = [r \in Readers |-> {}]
    /\ enters = [e \in EnterIds |-> Absent]
    /\ term = [t \in Terminals |-> [state |-> "live", revision |-> 1,
                                    generation |-> 0, pending |-> FALSE]]
    /\ proposals = [t \in Terminals |-> {}]
    /\ delivery = [d \in Texts |-> "none"]
    /\ input = [t \in Terminals |-> <<>>]
    /\ writer = [t \in Terminals |-> TRUE]
    /\ output = [t \in Terminals |-> FALSE]

-----------------------------------------------------------------------------
(* A pass of the loop: sync_context with a pending decision that           *)
(* disconnects `revoked` readers (context_disconnect_identity), then       *)
(* context_advance_enters.                                                 *)

\* Mutant of Allowed: the attachment is not compared.
AllowedUnderAnyAttachment(e, front, connected) ==
    enters[e].owner \in connected

\* context_granted and the attachment checks of context_advance_enters, for a
\* frontend `front` and the readers `connected` in the host's table.
Allowed(e, front, connected) ==
    /\ enters[e].owner \in connected
    /\ front.attached
    /\ enters[e].attachment = front.generation

\* Nothing appeared or was typed in the terminal since the Enter was asked for.
Unchanged(e) ==
    LET session == term[enters[e].terminal]
    IN  /\ session.revision = enters[e].revision
        /\ session.generation = enters[e].generation

\* What a pass decides about a waiting Enter; "press" is press_agent_enter.
Verdict(e, front, connected) ==
    IF ~Allowed(e, front, connected) \/ ~Live(enters[e].terminal)
    THEN "cancelled"
    ELSE IF ~Unchanged(e) THEN "stale"
    ELSE IF enters[e].timer = "delay" THEN "wait"
    ELSE IF enters[e].timer # "settled" THEN "arm"
    ELSE "press"

\* The record after the pass.  A write the PTY refuses leaves a stale Enter.
\* Finished records in `expired` are older than ENTER_RECORD_SECONDS.
Advanced(e, front, connected, accepts, expired) ==
    LET verdict == Verdict(e, front, connected)
    IN  IF ~Waiting(e)
        THEN IF e \in expired THEN Absent ELSE enters[e]
        ELSE CASE verdict = "wait" -> enters[e]
               [] verdict = "arm" ->
                    [enters[e] EXCEPT !.timer =
                        IF @ = "due" THEN "armed" ELSE @]
               [] verdict = "press" ->
                    [enters[e] EXCEPT !.state =
                        IF enters[e].terminal \in accepts
                        THEN "sent" ELSE "stale"]
               [] OTHER -> [enters[e] EXCEPT !.state = verdict]

\* Mutant of LostTexts: the attachment a line was accepted under is ignored.
LostToRevocation(revoked, front) ==
    {d \in Texts : \E r \in revoked : \E w \in writes[r] : w[1] = d}

\* The texts that lose their reader, or whose attachment is not `front`'s.
LostTexts(revoked, front) ==
    {d \in Texts : \E r \in Readers : \E w \in writes[r] :
        /\ w[1] = d
        /\ \/ r \in revoked
           \/ ~front.attached
           \/ w[2] # front.generation}

\* The terminals where a pass presses Enter, and where it ends one.
PressedBy(front, connected) ==
    {t \in Terminals : \E e \in EnterIds :
        /\ Waiting(e) /\ enters[e].terminal = t
        /\ Verdict(e, front, connected) = "press"}

EndedBy(front, connected) ==
    {t \in Terminals : \E e \in EnterIds :
        /\ Waiting(e) /\ enters[e].terminal = t
        /\ Verdict(e, front, connected) \notin {"wait", "arm"}}

Sync(front, revoked) ==
    LET connected == readers \ revoked
        pressed == PressedBy(front, connected)
        ended == EndedBy(front, connected)
        after == CancelQueued(delivery, LostTexts(revoked, front))
    IN  \E accepts \in SUBSET {t \in pressed : MayWrite(t)},
           expired \in SUBSET {e \in EnterIds : ~Waiting(e)} :
          /\ frontend' = front
          /\ readers' = connected
          /\ delivery' = after
          /\ writes' = [r \in Readers |->
                IF r \in connected
                THEN {w \in writes[r] : after[w[1]] \in {"Queued", "Writing"}}
                ELSE {}]
          /\ enters' = [e \in EnterIds |->
                IF enters[e].owner \in revoked THEN Absent
                ELSE Advanced(e, front, connected, accepts, expired)]
          /\ term' = [t \in Terminals |->
                LET session == IF t \in pressed THEN NoteInput(term[t])
                               ELSE term[t]
                IN  [session EXCEPT !.pending = @ /\ t \notin ended]]
          /\ input' = [t \in Terminals |->
                IF t \in accepts THEN Append(input[t], Return) ELSE input[t]]
          /\ UNCHANGED <<epoch, proposals, writer, output>>

\* note_plugin_frontend: the generation counts changes of attachment.
NotedFrontend ==
    IF frontend.attached # Attached
    THEN [attached |-> Attached, generation |-> frontend.generation + 1]
    ELSE frontend

\* The head of the loop: note_plugin_frontend, then sync_context.
Top ==
    /\ pc = "top"
    /\ pc' = "select"
    /\ \E revoked \in SUBSET readers : Sync(NotedFrontend, revoked)

\* Mutant of EnterDelayEnds: the settle deadline does not wake the loop.
DueEnds == \E e \in EnterIds : Waiting(e) /\ enters[e].timer = "due"

\* context_enter_delay has run out for some waiting Enter.
EnterDelayEnds ==
    \E e \in EnterIds : Waiting(e) /\ enters[e].timer \in {"due", "settled"}

\* context_timeout wakes the loop for an Enter that is due or has settled.
ContextTimeout ==
    /\ pc = "select"
    /\ EnterDelayEnds
    /\ pc' = "top"
    /\ \E revoked \in SUBSET readers : Sync(frontend, revoked)

\* handle_context_event for a reader's frame syncs before it reads the frame.
FrameArrives ==
    /\ pc = "select"
    /\ pc' = "frame"
    /\ \E revoked \in SUBSET readers : Sync(frontend, revoked)

-----------------------------------------------------------------------------
(* Requests of a reader, handled where the loop stands at "frame". *)

Register(r) ==
    /\ pc = "frame"
    /\ r \notin readers
    /\ pc' = "top"
    /\ readers' = readers \union {r}
    /\ UNCHANGED <<epoch, frontend, writes, enters, termVars>>

\* A request that is refused, or that only asks for a status.
NoEffect ==
    /\ pc = "frame"
    /\ pc' = "top"
    /\ UNCHANGED <<hostVars, termVars>>

\* context_write_terminal: queue_agent_text notes the input before the PTY
\* accepts the line, so a refused line (`accepted` FALSE) leaves its mark too.
WriteTerminal(r, t, d, accepted) ==
    /\ pc = "frame"
    /\ r \in readers /\ frontend.attached /\ Live(t)
    /\ delivery[d] = "none"
    /\ term[t].revision < MaxRevision
    /\ accepted => MayWrite(t)
    /\ pc' = "top"
    /\ term' = [term EXCEPT ![t] = NoteInput(@)]
    /\ LET kept == Unfinished(delivery, proposals[t])
           mine == {w \in writes[r] : delivery[w[1]] \in {"Queued", "Writing"}}
       IN  IF accepted
           THEN /\ proposals' = [proposals EXCEPT ![t] = kept \union {d}]
                /\ delivery' = [delivery EXCEPT ![d] = "Queued"]
                /\ input' = [input EXCEPT ![t] = Append(@, Line(d))]
                /\ writes' = [writes EXCEPT ![r] =
                                 mine \union {<<d, frontend.generation>>}]
           ELSE /\ proposals' = [proposals EXCEPT ![t] = kept]
                /\ UNCHANGED <<delivery, input, writes>>
    /\ UNCHANGED <<epoch, frontend, readers, enters, writer, output>>

\* Mutant of TerminalFree: no conflict check.
TerminalUnchecked(t) == TRUE

\* One Enter may wait for a terminal.
TerminalFree(t) == \A f \in EnterIds : Waiting(f) => enters[f].terminal # t

\* The finished records that make room for one more; context_request_enter
\* takes the oldest, which is left open here.
Evictions ==
    LET recorded == {f \in EnterIds : Recorded(f)}
        finished == {f \in recorded : ~Waiting(f)}
        excess == Cardinality(recorded) - RetainedEnters + 1
    IN  {old \in SUBSET finished :
            Cardinality(old) =
                IF excess <= 0 THEN 0
                ELSE IF excess <= Cardinality(finished) THEN excess
                ELSE Cardinality(finished)}

\* context_request_enter, with the terminal's current revision expected.
RequestEnter(r, t, e) ==
    /\ pc = "frame"
    /\ r \in readers /\ frontend.attached /\ Live(t)
    /\ term[t].revision < MaxRevision
    /\ TerminalFree(t)
    /\ Cardinality({f \in EnterIds : Waiting(f)}) < MaxHostEnters
    /\ Cardinality({f \in EnterIds : Waiting(f) /\ enters[f].owner = r})
          < MaxEnters
    /\ ~Recorded(e)
    /\ \E evicted \in Evictions :
          enters' = [f \in EnterIds |->
              IF f = e
              THEN [state |-> "waiting", owner |-> r, terminal |-> t,
                    revision |-> term[t].revision,
                    generation |-> term[t].generation,
                    attachment |-> frontend.generation,
                    timer |-> "delay", epoch |-> epoch]
              ELSE IF f \in evicted THEN Absent ELSE enters[f]]
    /\ pc' = "top"
    /\ term' = [term EXCEPT ![t].pending = TRUE]
    /\ UNCHANGED <<epoch, frontend, readers, writes, proposals, delivery,
                   input, writer, output>>

-----------------------------------------------------------------------------
(* The other events of the loop. *)

\* Mutant of TitlesOf: the records go and the titles stay.
TitlesForgotten(r) == {}

\* The terminals that show an Enter of reader r; context_finish_enter clears
\* the flag of each.
TitlesOf(r) == {enters[e].terminal : e \in {f \in EnterIds :
                                      Waiting(f) /\ enters[f].owner = r}}

\* Mutant of ReaderClosed: context_cancel_enters marks the records cancelled
\* and keeps them.
ReaderClosedKeepsRecords(r) ==
    /\ pc = "select"
    /\ r \in readers
    /\ pc' = "top"
    /\ readers' = readers \ {r}
    /\ delivery' = CancelQueued(delivery, {w[1] : w \in writes[r]})
    /\ writes' = [writes EXCEPT ![r] = {}]
    /\ term' = [t \in Terminals |->
                   [term[t] EXCEPT !.pending = @ /\ t \notin TitlesOf(r)]]
    /\ enters' = [e \in EnterIds |->
                     IF enters[e].owner = r /\ Waiting(e)
                     THEN [enters[e] EXCEPT !.state = "cancelled"]
                     ELSE enters[e]]
    /\ UNCHANGED <<epoch, frontend, proposals, input, writer, output>>

\* Event::Closed: context_disconnect, and context_cancel_enters in it.
ReaderClosed(r) ==
    /\ pc = "select"
    /\ r \in readers
    /\ pc' = "top"
    /\ readers' = readers \ {r}
    /\ delivery' = CancelQueued(delivery, {w[1] : w \in writes[r]})
    /\ writes' = [writes EXCEPT ![r] = {}]
    /\ term' = [t \in Terminals |->
                   [term[t] EXCEPT !.pending = @ /\ t \notin TitlesOf(r)]]
    /\ enters' = [e \in EnterIds |->
                     IF enters[e].owner = r THEN Absent ELSE enters[e]]
    /\ UNCHANGED <<epoch, frontend, proposals, input, writer, output>>

\* An interactive client attaches or leaves; the next pass notes it.
AttachOrDetach ==
    /\ pc = "select"
    /\ epoch < MaxEpoch
    /\ pc' = "top"
    /\ epoch' = epoch + 1
    /\ UNCHANGED <<frontend, readers, writes, enters, termVars>>

\* The person types, pastes, undoes a paste or sends the mouse to a terminal:
\* note_input_intent, and the bytes when the PTY takes them.
Type(t, accepted) ==
    /\ pc = "select"
    /\ Attached
    /\ term[t].state # "closed"
    /\ term[t].revision < MaxRevision
    /\ accepted => MayWrite(t)
    /\ pc' = "top"
    /\ CancelProposals({t})
    /\ term' = [term EXCEPT ![t] = NoteInput(@)]
    /\ input' = IF accepted THEN [input EXCEPT ![t] = Append(@, Key)]
                ELSE input
    /\ UNCHANGED <<hostVars, writer, output>>

\* terminal_events: TerminalManager::apply feeds what the children wrote to
\* some of the terminals.  A change of input mode (the terminals `modes`)
\* cancels queued lines, and a query is answered (the terminals `replies`).
ApplyOutput ==
    /\ pc = "select"
    /\ \E fed \in SUBSET {t \in Terminals : output[t]} :
        /\ fed # {}
        /\ \E modes \in SUBSET fed, replies \in SUBSET {t \in fed : MayWrite(t)} :
            /\ CancelProposals(modes)
            /\ input' = [t \in Terminals |-> IF t \in replies
                            THEN Append(input[t], Reply) ELSE input[t]]
        /\ output' = [t \in Terminals |-> output[t] /\ t \notin fed]
        /\ term' = [t \in Terminals |->
                       IF t \in fed /\ term[t].state # "closed"
                       THEN NoteChange(term[t]) ELSE term[t]]
    /\ pc' = "top"
    /\ UNCHANGED <<hostVars, writer>>

\* A resize or a smaller scrollback limit changes what a read would return.
Reshape(t) ==
    /\ pc = "select"
    /\ term[t].state # "closed"
    /\ term[t].revision < MaxRevision
    /\ pc' = "top"
    /\ term' = [term EXCEPT ![t] = NoteChange(@)]
    /\ UNCHANGED <<hostVars, proposals, delivery, input, writer, output>>

\* TerminalOutput::Exited.
Exited(t) ==
    /\ pc = "select"
    /\ Live(t) /\ ~output[t]
    /\ pc' = "top"
    /\ CancelProposals({t})
    /\ term' = [term EXCEPT ![t].state = "exited",
                            ![t].revision = @ + 1]
    /\ UNCHANGED <<hostVars, input, writer, output>>

\* TerminalManager::close; dropping the session cancels its queued lines.
Close(t) ==
    /\ pc = "select"
    /\ term[t].state # "closed"
    /\ pc' = "top"
    /\ CancelProposals({t})
    /\ term' = [term EXCEPT ![t].state = "closed", ![t].pending = FALSE]
    /\ UNCHANGED <<hostVars, input, writer, output>>

\* Any other branch of the loop: Git, language servers, ticks.
OtherEvent ==
    /\ pc = "select"
    /\ pc' = "top"
    /\ UNCHANGED <<hostVars, termVars>>

-----------------------------------------------------------------------------
(* The writer thread of a PTY, its child, and time. *)

\* Input::deliver: a line that was cancelled is skipped, one that is claimed
\* can no longer be cancelled.  Other input is written without a record.
WriterTakes(t) ==
    /\ writer[t] /\ input[t] # <<>>
    /\ LET item == Head(input[t])
       IN  IF item.kind = "text" /\ delivery[item.text] = "Queued"
           THEN /\ delivery' = [delivery EXCEPT ![item.text] = "Writing"]
                /\ UNCHANGED input
           ELSE /\ input' = [input EXCEPT ![t] = Tail(@)]
                /\ delivery' =
                     IF item.kind = "text" /\ delivery[item.text] = "Writing"
                     THEN [delivery EXCEPT ![item.text] = "Delivered"]
                     ELSE delivery
    /\ UNCHANGED <<pc, hostVars, term, proposals, writer, output>>

\* A failed write ends the thread and drops its queue: Input::drop abandons
\* every delivery that is still there.
WriterFails(t) ==
    /\ writer[t] /\ input[t] # <<>>
    /\ writer' = [writer EXCEPT ![t] = FALSE]
    /\ input' = [input EXCEPT ![t] = <<>>]
    /\ LET dropped == {input[t][i].text : i \in DOMAIN input[t]}
       IN  delivery' = [d \in Texts |->
              CASE d \in dropped /\ delivery[d] = "Queued" -> "Cancelled"
                [] d \in dropped /\ delivery[d] = "Writing" -> "OutcomeUnknown"
                [] OTHER -> delivery[d]]
    /\ UNCHANGED <<pc, hostVars, term, proposals, output>>

ChildWrites(t) ==
    /\ Live(t) /\ ~output[t]
    /\ term[t].revision < MaxRevision
    /\ output' = [output EXCEPT ![t] = TRUE]
    /\ UNCHANGED <<pc, hostVars, term, proposals, delivery, input, writer>>

\* ENTER_DELAY_MILLIS, or ENTER_SETTLE after it was armed, has passed.
TimePasses(e) ==
    /\ Waiting(e)
    /\ enters[e].timer \in {"delay", "armed"}
    /\ enters' = [enters EXCEPT
          ![e].timer = IF @ = "delay" THEN "due" ELSE "settled"]
    /\ UNCHANGED <<pc, epoch, frontend, readers, writes, termVars>>

-----------------------------------------------------------------------------
Request ==
    \/ \E r \in Readers : Register(r)
    \/ NoEffect
    \/ \E r \in Readers, t \in Terminals, d \in Texts, ok \in BOOLEAN :
          WriteTerminal(r, t, d, ok)
    \/ \E r \in Readers, t \in Terminals, e \in EnterIds :
          RequestEnter(r, t, e)

Event ==
    \/ \E r \in Readers : ReaderClosed(r)
    \/ AttachOrDetach
    \/ \E t \in Terminals, ok \in BOOLEAN : Type(t, ok)
    \/ ApplyOutput
    \/ \E t \in Terminals : Reshape(t) \/ Exited(t) \/ Close(t)
    \/ OtherEvent

Outside ==
    \/ \E t \in Terminals : WriterTakes(t) \/ WriterFails(t) \/ ChildWrites(t)
    \/ \E e \in EnterIds : TimePasses(e)

Next == Top \/ ContextTimeout \/ FrameArrives \/ Request \/ Event \/ Outside

\* The loop never stops between a pass and the next event it waits for, a
\* timer that was set fires, and delays end.
Fairness ==
    /\ WF_vars(Top) /\ WF_vars(ContextTimeout) /\ WF_vars(Request)
    /\ \A e \in EnterIds : WF_vars(TimePasses(e))

Spec == Init /\ [][Next]_vars /\ Fairness

-----------------------------------------------------------------------------
(* Properties *)

\* At most one Enter waits for a terminal, whichever readers asked: two would
\* submit one line twice (context_request_enter's conflict check).
OneEnterPerTerminal ==
    \A e, f \in EnterIds :
        Waiting(e) /\ Waiting(f) /\ enters[e].terminal = enters[f].terminal
            => e = f

\* The flag the pane title shows is up exactly while an Enter waits there, on
\* every path that ends one: sent, stale, cancelled, reader or grant gone.
PendingShown ==
    \A t \in Terminals : term[t].state # "closed" =>
        (term[t].pending <=> \E e \in EnterIds :
                                Waiting(e) /\ enters[e].terminal = t)

\* No record outlives its reader: a later connection can neither press nor
\* inspect what a reader that has gone asked for.
EnterOwnerConnected ==
    \A e \in EnterIds : Recorded(e) => enters[e].owner \in readers

\* A line the writer thread may still claim belongs to a reader that is
\* connected, and to the attachment the host last noted; and no key the person
\* typed waits behind it in the queue, since typing supersedes queued lines.
QueuedLineOwned ==
    /\ \A d \in Texts : delivery[d] = "Queued" =>
          /\ frontend.attached
          /\ \E r \in readers : <<d, frontend.generation>> \in writes[r]
    /\ \A t \in Terminals : \A i, j \in DOMAIN input[t] :
          i < j /\ input[t][i].kind = "text" /\ input[t][j].kind = "key"
              => delivery[input[t][i].text] # "Queued"

\* No change of attachment escapes the host: the generation it hands out
\* counts every attachment and detachment, so two are never confused.
AttachmentNoted ==
    /\ frontend.attached <=> frontend.generation % 2 = 1
    /\ epoch = frontend.generation
          \/ (pc = "top" /\ epoch = frontend.generation + 1)
    /\ \A e \in EnterIds : Recorded(e) => enters[e].attachment = enters[e].epoch

\* Enter is pressed only under the very attachment it was asked under, by a
\* reader still connected, in a live terminal where nothing changed since.
EnterPressedAsAsked ==
    [][\A e \in EnterIds :
          Waiting(e) /\ enters'[e].state = "sent" =>
              /\ epoch = enters[e].epoch
              /\ enters[e].owner \in readers'
              /\ Live(enters[e].terminal) /\ Unchanged(e)]_vars

\* Every Enter is decided: it does not wait for ever while the loop runs.
EnterDecided == \A e \in EnterIds : Waiting(e) ~> ~Waiting(e)
=============================================================================
