----------------------------- MODULE LspManager -----------------------------
(* The language servers of a workspace: the editor's half                    *)
(* (src/src/app/language_workflows.rs), the manager task                     *)
(* (src/src/lsp/mod.rs) and the processes it runs (src/src/lsp/transport.rs).*)
(* The editor never waits: it queues commands with try_send and applies the  *)
(* manager's events when it comes round to them, so what it believes of a    *)
(* server may be out of date whenever it sends.                              *)
(*                                                                           *)
(* A text is the number of edits it took.  An incremental change is right    *)
(* for a copy that holds the text it was computed from, at the process whose *)
(* position encoding it was written in; anywhere else it spoils the copy.    *)
EXTENDS Naturals, Sequences, FiniteSets, FiniteSetsExt, SequencesExt

CONSTANTS
    Servers,        \* ServerIds: the roots at which the one language runs
    Docs, ServerOf, \* documents, and the server each belongs to
    Syncs,          \* what a server may negotiate: [openClose, change]
    Definitions,    \* what the language may be configured as
    None,
    CommandCap,     \* COMMAND_CAPACITY
    ControlCap,     \* capacity of the control queue
    WireCap,        \* OUTGOING_CAPACITY, less the two messages of a handshake
    PendingCap,     \* PENDING_CAPACITY
    GlobalPendingCap,
    MaxGeneration, MaxEdits, MaxTokens,
    MaxUpheavals    \* restarts, reloads and withdrawn permissions

ASSUME LspAssumption ==
    /\ ServerOf \in [Docs -> Servers]
    /\ Syncs \subseteq [openClose : BOOLEAN,
                        change : {"none", "full", "incremental"}]
    /\ None \notin Servers \union Definitions
    /\ {CommandCap, ControlCap, WireCap, PendingCap, GlobalPendingCap,
        MaxGeneration} \subseteq Nat \ {0}
    /\ {MaxEdits, MaxTokens, MaxUpheavals} \subseteq Nat

VARIABLES
    \* The editor.
    open,        \* buffers that are open
    text,        \* their texts
    known,       \* lsp_servers: the generation that said Ready, or 0
    docs,        \* lsp_documents: "none", "synced" or "desynced"
    tracked,     \* lsp_requests: token to [doc, state, transient]
    nextToken,
    \* The queues between them, and the permission they share.
    commands, controls, events,
    permission,  \* the watch channel: [allowed, epoch]
    noticed,     \* the manager has seen its latest value
    \* The manager.
    config,      \* the language's definition, or None
    servers,     \* running servers: [gen, ready, pending, nextId, queued]
    failed, nextGeneration,
    early,       \* early_cancels
    maxToken,    \* max_request_token
    seen,        \* the epoch its events carry
    stopping,    \* [why, todo, all, grace]: the servers a stop is working off
    \* The processes, by generation, and what they wrote.
    proc, inbox,
    upheavals

editorVars == <<open, text, known, docs, tracked, nextToken>>
managerVars == <<config, servers, failed, nextGeneration, early, maxToken,
                 seen, stopping>>
vars == <<editorVars, commands, controls, events, permission, noticed,
          managerVars, proc, inbox, upheavals>>

Tokens == 1 .. MaxTokens
Generations == 1 .. MaxGeneration
Closed == MaxEdits + 1    \* a document the process does not have open
Spoiled == MaxEdits + 2   \* a copy nobody knows the text of

NoRequest == [doc |-> None, state |-> "none", transient |-> FALSE]
NoStop == [why |-> "none", todo |-> <<>>, all |-> {}, grace |-> FALSE]
NoProcess == [up |-> FALSE, wire |-> <<>>, asked |-> {},
              copy |-> [d \in Docs |-> Closed],
              sync |-> [openClose |-> FALSE, change |-> "none"]]

Init ==
    /\ open = {} /\ text = [d \in Docs |-> 0]
    /\ known = [s \in Servers |-> 0]
    /\ docs = [d \in Docs |-> "none"]
    /\ tracked = [t \in Tokens |-> NoRequest]
    /\ nextToken = 1
    /\ commands = <<>> /\ controls = <<>> /\ events = <<>>
    /\ permission = [allowed |-> TRUE, epoch |-> 0] /\ noticed = TRUE
    /\ config \in Definitions
    /\ servers = [s \in Servers |-> None] /\ failed = {}
    /\ nextGeneration = 1 /\ early = {} /\ maxToken = 0 /\ seen = 0
    /\ stopping = NoStop
    /\ proc = [g \in Generations |-> NoProcess] /\ inbox = <<>>
    /\ upheavals = 0

-----------------------------------------------------------------------------
(* The editor.  Each handler threads what it may change through `e`, a       *)
(* record of the queue of commands, the documents and the requests.          *)

SyncOf(s) == proc[known[s]].sync

Room(e) == Len(e.commands) < CommandCap

\* LspHandle::send for a command: what the queue does not take is dropped.
Sent(e, command) ==
    IF Room(e) THEN [e EXCEPT !.commands = Append(@, command)] ELSE e

Ensure(s) == [do |-> "ensure", server |-> s]
OpenDoc(d) == [do |-> "open", server |-> ServerOf[d], doc |-> d,
               text |-> text[d]]
Change(d, base, new, whole) ==
    [do |-> "change", server |-> ServerOf[d], doc |-> d, whole |-> whole,
     base |-> base, text |-> new, gen |-> known[ServerOf[d]]]

Now == [commands |-> commands, controls |-> controls, docs |-> docs,
        tracked |-> tracked]

\* lsp_touch, for a buffer that is open: ask for its server, announce the
\* document once the handshake is known, send it whole when it fell behind.
Touched(e, d) ==
    LET s == ServerOf[d]
    IN  CASE known[s] = 0 -> Sent(e, Ensure(s))
          [] known[s] # 0 /\ e.docs[d] = "desynced" ->
               IF SyncOf(s).change # "none" /\ Room(e)
               THEN [Sent(e, Change(d, text[d], text[d], TRUE))
                        EXCEPT !.docs[d] = "synced"]
               ELSE e
          [] known[s] # 0 /\ e.docs[d] = "none" ->
               IF ~SyncOf(s).openClose THEN [e EXCEPT !.docs[d] = "synced"]
               ELSE IF Room(e)
               THEN [Sent(e, OpenDoc(d)) EXCEPT !.docs[d] = "synced"]
               ELSE e
          [] OTHER -> e

\* cancel_lsp_request: a request whose cancellation is not taken stays, marked.
CancelledRequest(e, t) ==
    IF Len(e.controls) < ControlCap
    THEN [e EXCEPT !.controls = Append(@, t),
                   !.tracked[t] = NoRequest]
    ELSE [e EXCEPT !.tracked[t].state = "cancelled"]

CancelledRequests(e, T) == FoldSet(LAMBDA t, r : CancelledRequest(r, t), e, T)

RequestsOf(d) == {t \in Tokens : tracked[t].doc = d}
TransientOf(d) == {t \in RequestsOf(d) : tracked[t].transient}

Becomes(e) ==
    /\ commands' = e.commands /\ controls' = e.controls
    /\ docs' = e.docs /\ tracked' = e.tracked

EditorOnly ==
    UNCHANGED <<events, permission, noticed, managerVars, proc, inbox, upheavals>>

\* A file is opened: open_file, install_plugin_document.
OpenBuffer(d) ==
    /\ d \notin open
    /\ open' = open \union {d}
    /\ Becomes(IF permission.allowed THEN Touched(Now, d) ELSE Now)
    /\ UNCHANGED <<text, known, nextToken>> /\ EditorOnly

\* lsp_save touches the document (the didSave it adds changes no text).
Save(d) ==
    /\ d \in open /\ permission.allowed
    /\ Becomes(Touched(Now, d))
    /\ UNCHANGED <<open, text, known, nextToken>> /\ EditorOnly

\* retire_lsp_buffer; the Close may find no room.
CloseBuffer(d) ==
    /\ d \in open
    /\ open' = open \ {d}
    /\ LET closed == IF docs[d] = "none" THEN Now
                     ELSE [Sent(Now, [do |-> "close", server |-> ServerOf[d],
                                      doc |-> d]) EXCEPT !.docs[d] = "none"]
       IN  Becomes(CancelledRequests(closed, RequestsOf(d)))
    /\ UNCHANGED <<text, known, nextToken>> /\ EditorOnly

\* Mutant of Edited: a refused change is forgotten.
EditedAnyway(e, d, whole) ==
    IF e.docs[d] = "none" \/ SyncOf(ServerOf[d]).change = "none" THEN e
    ELSE Sent(e, Change(d, text[d], text[d] + 1, whole))

\* lsp_change for a transaction, lsp_resync (`whole`) for an undo or a reload.
Edited(e, d, whole) ==
    LET sync == SyncOf(ServerOf[d])
        all == whole \/ sync.change = "full" \/ e.docs[d] = "desynced"
    IN  IF e.docs[d] = "none" \/ sync.change = "none" THEN e
        ELSE [Sent(e, Change(d, text[d], text[d] + 1, all))
                 EXCEPT !.docs[d] = IF Room(e) THEN "synced" ELSE "desynced"]

Edit(d, whole) ==
    /\ d \in open /\ text[d] < MaxEdits
    /\ text' = [text EXCEPT ![d] = @ + 1]
    /\ Becomes(Edited(Now, d, whole))
    /\ UNCHANGED <<open, known, nextToken>> /\ EditorOnly

\* The request the next token names is queued and tracked.
Asked(e, d, transient) ==
    [Sent(e, [do |-> "request", server |-> ServerOf[d], token |-> nextToken])
        EXCEPT !.tracked[nextToken] = [doc |-> d, state |-> "live",
                                       transient |-> transient]]

\* try_lsp_request_from.  A transient request (one group stands for them)
\* replaces those of its buffer.
Request(d, transient) ==
    LET touched == Touched(Now, d)
        current == IF transient THEN CancelledRequests(touched, TransientOf(d))
                   ELSE touched
    IN  /\ d \in open /\ permission.allowed /\ nextToken <= MaxTokens
        /\ IF known[ServerOf[d]] = 0 \/ touched.docs[d] # "synced"
           THEN Becomes(touched) /\ UNCHANGED nextToken
           ELSE IF ~Room(current)
           THEN Becomes(current) /\ UNCHANGED nextToken
           ELSE Becomes(Asked(current, d, transient)) /\ nextToken' = nextToken + 1
        /\ UNCHANGED <<open, text, known>> /\ EditorOnly

\* send_action_command: a code action's command goes to a server that is known
\* without the document being touched first.
RunAction(d) ==
    /\ d \in open /\ known[ServerOf[d]] # 0
    /\ nextToken <= MaxTokens /\ Room(Now)
    /\ Becomes(Asked(Now, d, FALSE))
    /\ nextToken' = nextToken + 1
    /\ UNCHANGED <<open, text, known>> /\ EditorOnly

\* dismiss_popups: the caret moved.
Dismiss(d) ==
    /\ TransientOf(d) # {}
    /\ Becomes(CancelledRequests(Now, TransientOf(d)))
    /\ UNCHANGED <<open, text, known, nextToken>> /\ EditorOnly

\* :lsp-restart, for the language or for the servers that failed.
AskRestart(named) ==
    /\ permission.allowed /\ upheavals < MaxUpheavals
    /\ Room(Now)
    /\ commands' = Append(commands, [do |-> "restart", named |-> named])
    /\ upheavals' = upheavals + 1
    /\ UNCHANGED <<editorVars, controls, events, permission, noticed,
                   managerVars, proc, inbox>>

\* :config-reload, whatever the permission.
AskReconfigure(definition) ==
    /\ upheavals < MaxUpheavals
    /\ Room(Now)
    /\ commands' = Append(commands, [do |-> "reconfigure",
                                     definition |-> definition])
    /\ upheavals' = upheavals + 1
    /\ UNCHANGED <<editorVars, controls, events, permission, noticed,
                   managerVars, proc, inbox>>

\* set_lsp_workspace_allowed(false): the editor forgets, the epoch moves on.
Deny ==
    /\ permission.allowed /\ upheavals < MaxUpheavals
    /\ permission' = [allowed |-> FALSE, epoch |-> permission.epoch + 1]
    /\ noticed' = FALSE
    /\ known' = [s \in Servers |-> 0]
    /\ docs' = [d \in Docs |-> "none"]
    /\ tracked' = [t \in Tokens |-> NoRequest]
    /\ upheavals' = upheavals + 1
    /\ UNCHANGED <<open, text, nextToken, commands, controls, events,
                   managerVars, proc, inbox>>

\* set_lsp_workspace_allowed(true) touches every buffer.
Allow ==
    /\ ~permission.allowed
    /\ permission' = [permission EXCEPT !.allowed = TRUE]
    /\ noticed' = FALSE
    /\ Becomes(FoldSet(LAMBDA d, e : Touched(e, d), Now, open))
    /\ UNCHANGED <<open, text, known, nextToken, events, managerVars, proc,
                   inbox, upheavals>>

\* Mutant of Accepted: the epoch is not compared.
AcceptedWhenAllowed(event) == permission.allowed

\* LspEvents::accepts.
Accepted(event) == permission.allowed /\ event.epoch = permission.epoch

\* Ready: the server is known, and its buffers are announced to it.
LearnReady(event) ==
    LET s == event.server
        \* Touched, with the generation this event brings.
        Announced(e, d) ==
            IF ~proc[event.gen].sync.openClose
            THEN [e EXCEPT !.docs[d] = "synced"]
            ELSE IF Room(e)
            THEN [Sent(e, OpenDoc(d)) EXCEPT !.docs[d] = "synced"]
            ELSE e
    IN  /\ known' = [known EXCEPT ![s] = event.gen]
        /\ Becomes(FoldSet(LAMBDA d, e : Announced(e, d), Now,
                           {d \in open : ServerOf[d] = s /\ docs[d] = "none"}))

\* forget_lsp_server.
Forget(s) ==
    /\ known' = [known EXCEPT ![s] = 0]
    /\ docs' = [d \in Docs |-> IF ServerOf[d] = s THEN "none" ELSE docs[d]]
    /\ UNCHANGED <<tracked, commands, controls>>

\* A response ends the request; a cancelled one is thrown away.
EndRequest(t) ==
    /\ tracked' = [tracked EXCEPT ![t] = NoRequest]
    /\ UNCHANGED <<known, docs, commands, controls>>

\* apply_lsp_event, after LspEvents::recv dropped what is not accepted.
ApplyEvent ==
    /\ events # <<>>
    /\ events' = Tail(events)
    /\ LET event == Head(events)
       IN  \/ /\ ~Accepted(event)
              /\ UNCHANGED <<known, docs, tracked, commands, controls>>
           \/ Accepted(event) /\ event.kind = "ready" /\ LearnReady(event)
           \/ /\ Accepted(event) /\ event.kind \in {"stopped", "restarted"}
              /\ Forget(event.server)
           \/ /\ Accepted(event) /\ event.kind = "response"
              /\ EndRequest(event.token)
    /\ UNCHANGED <<open, text, nextToken, permission, noticed, managerVars,
                   proc, inbox, upheavals>>

-----------------------------------------------------------------------------
(* What the manager does to its servers.  `rest` is the inbox without the    *)
(* message at hand.                                                          *)

Running == {s \in Servers : servers[s] # None}

\* Connection::send may take n messages, and may refuse them: the queue is
\* full, or the writer of a process that ended has stopped.
MayAccept(g, n) == ~proc[g].up \/ Len(proc[g].wire) + n <= WireCap
MayRefuse(g, n) == ~proc[g].up \/ Len(proc[g].wire) + n > WireCap

Written(g, messages) ==
    IF proc[g].up THEN [proc EXCEPT ![g].wire = @ \o messages] ELSE proc

\* Connection::stop kills the process; what its reader had still to say
\* before that may be in the inbox.
EndProcess(g, rest) ==
    /\ proc' = [proc EXCEPT ![g] = [NoProcess EXCEPT !.sync = proc[g].sync]]
    /\ inbox' \in {rest} \union
          (IF proc[g].up THEN {Append(rest, [gen |-> g, kind |-> "closed",
                                             id |-> 0])} ELSE {})

\* emit labels every event with the epoch the manager last noticed.
Response(t, own) == [epoch |-> seen, kind |-> "response", token |-> t,
                     own |-> own]
ServerEvent(kind, s) == [epoch |-> seen, kind |-> kind, server |-> s]
ReadyEvent(s, g) == [epoch |-> seen, kind |-> "ready", server |-> s, gen |-> g]

\* Mutant of Failures: nobody is told.
NoFailures(s) == <<>>

\* The requests a server will never answer are failed; the handshake is not
\* the editor's.
Failures(s) ==
    LET unanswered == {p.token : p \in servers[s].pending} \ {0}
    IN  SetToSeq({Response(t, TRUE) : t \in unanswered})

Nothing(rest) ==
    /\ inbox' = rest
    /\ UNCHANGED <<servers, failed, nextGeneration, events, proc>>

Emit(event, rest) ==
    /\ events' = Append(events, event)
    /\ inbox' = rest
    /\ UNCHANGED <<servers, failed, nextGeneration, proc>>

\* stop_server.
StopServer(s, rest) ==
    /\ servers' = [servers EXCEPT ![s] = None]
    /\ failed' = failed \union {s}
    /\ events' = events \o Failures(s) \o <<ServerEvent("stopped", s)>>
    /\ EndProcess(servers[s].gen, rest)
    /\ UNCHANGED nextGeneration

\* ensure_server starts what is configured, not running and has not failed.
MayLaunch(s) ==
    /\ servers[s] = None /\ s \notin failed /\ config # None
    /\ nextGeneration <= MaxGeneration

\* The process starts with `initialize` on its wire and, for an Open, the
\* document queued behind the handshake; or it cannot be started, which is
\* reported once for the language.
Launch(s, queued) ==
    \/ /\ servers' = [servers EXCEPT ![s] =
             [gen |-> nextGeneration, ready |-> FALSE, nextId |-> 2,
              pending |-> {[id |-> 1, token |-> 0]}, queued |-> queued]]
       /\ \E sync \in Syncs :
             proc' = [proc EXCEPT ![nextGeneration] =
                [NoProcess EXCEPT !.up = TRUE, !.sync = sync,
                                  !.wire = <<[do |-> "ask", id |-> 1]>>]]
       /\ nextGeneration' = nextGeneration + 1
       /\ UNCHANGED <<failed, events, inbox>>
    \/ /\ failed' = failed \union {s}
       /\ nextGeneration' = nextGeneration + 1
       /\ \/ events' = Append(events, ServerEvent("stopped", s))
          \/ failed # {} /\ UNCHANGED events
       /\ UNCHANGED <<servers, proc, inbox>>

\* The notifications a server wants, by what it negotiated.
Wants(g, message) ==
    IF message.do = "change" THEN proc[g].sync.change # "none"
    ELSE proc[g].sync.openClose

\* Server::notify, and stop_server when the server takes no more.
Notify(s, message) ==
    LET server == servers[s]
        g == server.gen
    IN  \/ /\ server.ready /\ ~Wants(g, message)
           /\ Nothing(inbox)
        \/ /\ ~server.ready /\ Len(server.queued) < WireCap
           /\ servers' = [servers EXCEPT ![s].queued = Append(@, message)]
           /\ UNCHANGED <<failed, nextGeneration, events, proc, inbox>>
        \/ /\ ~server.ready /\ Len(server.queued) = WireCap
           /\ StopServer(s, inbox)
        \/ /\ server.ready /\ Wants(g, message) /\ MayAccept(g, 1)
           /\ proc' = Written(g, <<message>>)
           /\ UNCHANGED <<servers, failed, nextGeneration, events, inbox>>
        \/ /\ server.ready /\ Wants(g, message) /\ MayRefuse(g, 1)
           /\ StopServer(s, inbox)

-----------------------------------------------------------------------------
(* Messages from the processes. *)

\* Mutant of Sender: the language alone names the server.
SenderByLanguage(g) == Running

\* "Generations are never reused, so one names a process whatever its root".
Sender(g) == {s \in Running : servers[s].gen = g}

\* finish_initialize: the queued notifications the server wants are flushed.
FinishInitialize(s, rest) ==
    LET g == servers[s].gen
        flushed == SelectSeq(servers[s].queued, LAMBDA m : Wants(g, m))
    IN  \/ /\ MayAccept(g, Len(flushed))
           /\ proc' = Written(g, flushed)
           /\ servers' = [servers EXCEPT ![s].ready = TRUE, ![s].queued = <<>>,
                                         ![s].pending = {}]
           /\ events' = Append(events, ReadyEvent(s, g))
           /\ inbox' = rest
           /\ UNCHANGED <<failed, nextGeneration>>
        \/ MayRefuse(g, Len(flushed)) /\ StopServer(s, rest)

\* handle_incoming: Closed, and handle_response.
HandleIncoming(message, rest) ==
    \/ Sender(message.gen) = {} /\ Nothing(rest)
    \/ \E s \in Sender(message.gen) :
        LET answered == {p \in servers[s].pending : p.id = message.id}
        IN  \/ message.kind = "closed" /\ StopServer(s, rest)
            \/ message.kind # "closed" /\ answered = {} /\ Nothing(rest)
            \/ \E p \in answered :
                \/ p.token = 0 /\ message.kind = "result"
                     /\ FinishInitialize(s, rest)
                \/ p.token = 0 /\ message.kind = "error"
                     /\ StopServer(s, rest)
                \/ /\ p.token # 0 /\ message.kind # "closed"
                   /\ servers' = [servers EXCEPT ![s].pending = @ \ {p}]
                   /\ events' = Append(events, Response(p.token,
                                          message.gen = servers[s].gen))
                   /\ inbox' = rest
                   /\ UNCHANGED <<failed, nextGeneration, proc>>

-----------------------------------------------------------------------------
(* The manager's loop: select! polls the permission first, then the control  *)
(* queue, the commands and the inbox.                                        *)

Idle == stopping = NoStop

\* approval.changed(): a withdrawn permission drops every server.
Notice ==
    /\ Idle /\ ~noticed
    /\ noticed' = TRUE
    /\ seen' = permission.epoch
    /\ IF ~permission.allowed \/ permission.epoch # seen
       THEN LET dropped == {servers[s].gen : s \in Running}
            IN  /\ servers' = [s \in Servers |-> None]
                /\ failed' = {} /\ early' = {}
                /\ proc' = [g \in Generations |->
                      IF g \in dropped THEN [NoProcess EXCEPT !.sync = proc[g].sync]
                      ELSE proc[g]]
       ELSE UNCHANGED <<servers, failed, early, proc>>
    /\ UNCHANGED <<editorVars, commands, controls, events, permission, config,
                   nextGeneration, maxToken, stopping, inbox, upheavals>>

\* A cancellation for a request that has not been read yet is remembered.
Early(t) == t > maxToken

\* LspCommand::Cancel, from the control queue ($/cancelRequest is best effort).
TakeCancel ==
    /\ Idle /\ noticed /\ controls # <<>>
    /\ controls' = Tail(controls)
    /\ LET t == Head(controls)
           Holds(s) == \E p \in servers[s].pending : p.token = t
           holders == {s \in Running : Holds(s)}
       IN  IF ~permission.allowed THEN UNCHANGED <<servers, early>>
           ELSE /\ servers' = [s \in Servers |->
                      IF s \in holders
                      THEN [servers[s] EXCEPT
                               !.pending = {p \in @ : p.token # t}]
                      ELSE servers[s]]
                /\ early' = IF /\ holders = {} /\ Early(t)
                               /\ Cardinality(early) < CommandCap
                            THEN early \union {t} ELSE early
    /\ UNCHANGED <<editorVars, commands, events, permission, noticed, config,
                   failed, nextGeneration, maxToken, seen, stopping, proc,
                   inbox, upheavals>>

\* LspCommand::Open starts a server that is not running.
HandleOpen(c) ==
    \/ servers[c.server] # None /\ Notify(c.server, c)
    \/ MayLaunch(c.server) /\ Launch(c.server, <<c>>)
    \/ servers[c.server] = None /\ ~MayLaunch(c.server) /\ Nothing(inbox)

HandleEnsure(c) ==
    \/ MayLaunch(c.server) /\ Launch(c.server, <<>>)
    \/ ~MayLaunch(c.server) /\ Nothing(inbox)

\* Change and Close reach a server that runs.
HandleUpdate(c) ==
    \/ servers[c.server] # None /\ Notify(c.server, c)
    \/ servers[c.server] = None /\ Nothing(inbox)

\* Refusals of LspCommand::Request, each answered at once.
CannotAsk(s) ==
    \/ servers[s] = None
    \/ ~servers[s].ready
    \/ Cardinality(servers[s].pending) >= PendingCap
    \/ MapThenSumSet(LAMBDA r : Cardinality(servers[r].pending), Running)
          >= GlobalPendingCap

HandleRequest(c) ==
    LET s == c.server
        id == servers[s].nextId
        g == servers[s].gen
    IN  IF c.token \in early THEN Nothing(inbox)
        ELSE IF CannotAsk(s) THEN Emit(Response(c.token, TRUE), inbox)
        ELSE \/ /\ MayAccept(g, 1)
                /\ servers' = [servers EXCEPT ![s].nextId = @ + 1,
                      ![s].pending = @ \union {[id |-> id, token |-> c.token]}]
                /\ proc' = Written(g, <<[do |-> "ask", id |-> id]>>)
                /\ UNCHANGED <<failed, nextGeneration, events, inbox>>
             \/ MayRefuse(g, 1) /\ Emit(Response(c.token, TRUE), inbox)

\* handle_command, while the workspace allows language servers.
TakeCommand ==
    /\ Idle /\ noticed /\ controls = <<>> /\ commands # <<>>
    /\ LET c == Head(commands)
       IN  /\ c.do \notin {"restart", "reconfigure"}
           /\ commands' = Tail(commands)
           /\ IF ~permission.allowed
              THEN Nothing(inbox) /\ UNCHANGED <<early, maxToken>>
              ELSE /\ \/ c.do = "ensure" /\ HandleEnsure(c)
                      \/ c.do = "open" /\ HandleOpen(c)
                      \/ c.do \in {"change", "close"} /\ HandleUpdate(c)
                      \/ c.do = "request" /\ HandleRequest(c)
                   /\ IF c.do = "request"
                      THEN maxToken' = c.token /\ early' = early \ {c.token}
                      ELSE UNCHANGED <<early, maxToken>>
    /\ UNCHANGED <<editorVars, controls, permission, noticed, config, seen,
                   stopping, upheavals>>

TakeIncoming ==
    /\ Idle /\ noticed /\ controls = <<>> /\ commands = <<>> /\ inbox # <<>>
    /\ HandleIncoming(Head(inbox), Tail(inbox))
    /\ UNCHANGED <<editorVars, commands, controls, permission, noticed, config,
                   early, maxToken, seen, stopping, upheavals>>

-----------------------------------------------------------------------------
(* Restarting: one server after the other, each with a grace period in which *)
(* the messages of the others are still handled.                             *)

Stopping(why, S) == [why |-> why, todo |-> SetToSeq(S), all |-> S,
                     grace |-> FALSE]

\* LspCommand::Restart and reconfigure, up to their loops over the servers.
TakeRestart ==
    /\ Idle /\ noticed /\ controls = <<>> /\ commands # <<>>
    /\ LET c == Head(commands)
       IN  /\ c.do \in {"restart", "reconfigure"}
           /\ commands' = Tail(commands)
           /\ \/ /\ c.do = "restart" /\ permission.allowed
                 /\ stopping' = Stopping("restart", IF c.named
                                   THEN Running \union failed ELSE failed)
                 /\ UNCHANGED <<config, failed>>
              \/ /\ c.do = "reconfigure" /\ c.definition # config
                 /\ stopping' = Stopping("reconfigure", Running)
                 /\ config' = c.definition
                 /\ failed' = {}
              \/ /\ \/ c.do = "restart" /\ ~permission.allowed
                    \/ c.do = "reconfigure" /\ c.definition = config
                 /\ UNCHANGED <<stopping, config, failed>>
    /\ UNCHANGED <<editorVars, controls, events, permission, noticed, servers,
                   nextGeneration, early, maxToken, seen, proc, inbox, upheavals>>

RestartUnchanged ==
    UNCHANGED <<editorVars, commands, controls, permission, noticed, config,
                nextGeneration, early, maxToken, seen, upheavals>>

\* The process is stopped and the editor told.
Retire(s, before, rest) ==
    /\ servers' = [servers EXCEPT ![s] = None]
    /\ events' = before \o <<ServerEvent("restarted", s)>>
    /\ EndProcess(servers[s].gen, rest)
    /\ stopping' = [stopping EXCEPT !.todo = Tail(@), !.grace = FALSE]

\* The next server of the list: its requests are failed and it is asked to
\* shut down.
StopNext ==
    /\ ~Idle /\ ~stopping.grace /\ stopping.todo # <<>>
    /\ LET s == Head(stopping.todo)
           told == events \o Failures(s)
           id == servers[s].nextId
           g == servers[s].gen
       IN  /\ failed' = IF stopping.why = "restart" THEN failed \ {s} ELSE failed
           /\ \/ /\ servers[s] = None
                 /\ stopping' = [stopping EXCEPT !.todo = Tail(@)]
                 /\ UNCHANGED <<servers, events, proc, inbox>>
              \/ /\ servers[s] # None /\ MayAccept(g, 1)
                 /\ servers' = [servers EXCEPT ![s].pending = {},
                                               ![s].nextId = @ + 1]
                 /\ events' = told
                 /\ proc' = Written(g, <<[do |-> "ask", id |-> id]>>)
                 /\ stopping' = [stopping EXCEPT !.grace = TRUE]
                 /\ UNCHANGED inbox
              \/ /\ servers[s] # None /\ MayRefuse(g, 1)
                 /\ Retire(s, told, inbox)
    /\ RestartUnchanged

\* graceful_stop_server: the shutdown is answered, or the process ends.
Farewell(s, message) ==
    /\ message.gen = servers[s].gen
    /\ message.kind = "closed" \/ message.id = servers[s].nextId - 1

\* In the grace period other messages of the process are ignored, and those
\* of the other servers handled.
DrainIncoming ==
    /\ ~Idle /\ stopping.grace /\ inbox # <<>>
    /\ LET s == Head(stopping.todo)
           message == Head(inbox)
           rest == Tail(inbox)
       IN  \/ /\ Farewell(s, message)
              /\ Retire(s, events, rest)
              /\ UNCHANGED failed
           \/ /\ ~Farewell(s, message) /\ message.gen = servers[s].gen
              /\ Nothing(rest)
              /\ UNCHANGED stopping
           \/ /\ message.gen # servers[s].gen
              /\ HandleIncoming(message, rest)
              /\ UNCHANGED stopping
    /\ RestartUnchanged

\* The grace period is over.
GraceEnds ==
    /\ ~Idle /\ stopping.grace
    /\ Retire(Head(stopping.todo), events, inbox)
    /\ UNCHANGED failed
    /\ RestartUnchanged

\* "A deliberate stop is not a failure whichever order they land in."
Forgiven == IF stopping.why = "reconfigure" THEN failed \ stopping.all ELSE failed

StopsDone ==
    /\ ~Idle /\ ~stopping.grace /\ stopping.todo = <<>>
    /\ stopping' = NoStop
    /\ failed' = Forgiven
    /\ UNCHANGED <<servers, events, proc, inbox>>
    /\ RestartUnchanged

-----------------------------------------------------------------------------
(* The processes (external): they read in order, answer in any order, and    *)
(* may end at any time.                                                      *)

\* A copy after a change; one that is not open stays so.
Copied(g, m) ==
    CASE proc[g].copy[m.doc] = Closed -> Closed
      [] m.whole -> m.text
      [] m.gen = g /\ proc[g].copy[m.doc] = m.base -> m.text
      [] OTHER -> Spoiled

ProcessReads(g) ==
    /\ proc[g].up /\ proc[g].wire # <<>>
    /\ LET m == Head(proc[g].wire)
           p == [proc[g] EXCEPT !.wire = Tail(@)]
       IN  proc' = [proc EXCEPT ![g] =
              CASE m.do = "ask" -> [p EXCEPT !.asked = @ \union {m.id}]
                [] m.do = "open" -> [p EXCEPT !.copy[m.doc] = m.text]
                [] m.do = "change" -> [p EXCEPT !.copy[m.doc] = Copied(g, m)]
                [] m.do = "close" -> [p EXCEPT !.copy[m.doc] = Closed]]
    /\ UNCHANGED <<editorVars, commands, controls, events, permission, noticed,
                   managerVars, inbox, upheavals>>

ProcessAnswers(g, id, kind) ==
    /\ proc[g].up /\ id \in proc[g].asked
    /\ proc' = [proc EXCEPT ![g].asked = @ \ {id}]
    /\ inbox' = Append(inbox, [gen |-> g, kind |-> kind, id |-> id])
    /\ UNCHANGED <<editorVars, commands, controls, events, permission, noticed,
                   managerVars, upheavals>>

ProcessEnds(g) ==
    /\ proc[g].up
    /\ proc' = [proc EXCEPT ![g] = [NoProcess EXCEPT !.sync = proc[g].sync]]
    /\ inbox' = Append(inbox, [gen |-> g, kind |-> "closed", id |-> 0])
    /\ UNCHANGED <<editorVars, commands, controls, events, permission, noticed,
                   managerVars, upheavals>>

-----------------------------------------------------------------------------
EditorActs ==
    \/ \E d \in Docs :
        \/ OpenBuffer(d) \/ CloseBuffer(d) \/ Save(d)
        \/ RunAction(d) \/ Dismiss(d)
        \/ \E whole \in BOOLEAN : Edit(d, whole)
        \/ \E transient \in BOOLEAN : Request(d, transient)
    \/ \E named \in BOOLEAN : AskRestart(named)
    \/ \E definition \in Definitions \union {None} : AskReconfigure(definition)
    \/ Deny \/ Allow

Manager ==
    \/ Notice \/ TakeCancel \/ TakeCommand \/ TakeIncoming \/ TakeRestart
    \/ StopNext \/ DrainIncoming \/ GraceEnds \/ StopsDone

\* A request that fails is answered like one that does not; a handshake that
\* fails ends the server.
Answers(g) ==
    \E id \in proc[g].asked, kind \in {"result", "error"} :
        /\ kind = "error" => id = 1
        /\ ProcessAnswers(g, id, kind)

Next ==
    \/ EditorActs \/ ApplyEvent \/ Manager
    \/ \E g \in Generations : ProcessReads(g) \/ Answers(g) \/ ProcessEnds(g)

Spec == Init /\ [][Next]_vars

\* The manager's task and the editor's loop run on, and a language server that
\* runs reads what it is sent and answers what it is asked.
Fairness ==
    /\ WF_vars(Manager) /\ WF_vars(ApplyEvent)
    /\ \A g \in Generations : WF_vars(ProcessReads(g)) /\ WF_vars(Answers(g))

FairSpec == Spec /\ Fairness

-----------------------------------------------------------------------------
(* Properties *)

TypeOK ==
    /\ open \subseteq Docs /\ text \in [Docs -> 0 .. MaxEdits]
    /\ known \in [Servers -> 0 .. MaxGeneration]
    /\ docs \in [Docs -> {"none", "synced", "desynced"}]
    /\ Len(commands) <= CommandCap /\ Len(controls) <= ControlCap
    /\ failed \intersect Running = {}
    /\ \A s \in Running :
          /\ Cardinality(servers[s].pending) <= PendingCap
          /\ Len(servers[s].queued) <= WireCap
          /\ servers[s].gen < nextGeneration
    /\ \A g \in Generations : Len(proc[g].wire) <= WireCap

\* Nothing in the editor waits for an answer that cannot come: a request it
\* tracks is in the queue, outstanding at a server that runs, or answered by an
\* event it will accept, and only one of these; and an answer comes from the
\* process that was asked.
RequestsAccounted ==
    /\ \A t \in Tokens :
        LET queued == {i \in DOMAIN commands : commands[i].do = "request"
                                               /\ commands[i].token = t}
            outstanding == {s \in Running :
                              \E p \in servers[s].pending : p.token = t}
            answered == {i \in DOMAIN events :
                          /\ events[i].kind = "response"
                          /\ events[i].token = t
                          /\ Accepted(events[i])}
            places == Cardinality(queued) + Cardinality(outstanding)
                        + Cardinality(answered)
        IN  /\ tracked[t].state # "none" => places = 1
            /\ places <= 1
    /\ \A i \in DOMAIN events : events[i].kind = "response" => events[i].own

\* The editor is never left with a wrong belief: the server it takes for ready
\* runs with the handshake it knows, or an event that says otherwise is on its
\* way to it.  Documents are only taken for open at a server that is known.
BeliefCorrected ==
    /\ TypeOK
    /\ \A s \in Servers : known[s] # 0 =>
        \/ servers[s] # None /\ servers[s].gen = known[s] /\ servers[s].ready
        \/ \E i \in DOMAIN events :
              /\ events[i].kind \in {"stopped", "restarted"}
              /\ events[i].server = s /\ Accepted(events[i])
    /\ \A d \in Docs : docs[d] # "none" => d \in open /\ known[ServerOf[d]] # 0

\* Messages about d that have not reached the process of server s.
OnTheWay(d, s) ==
    LET About(m) == m.do \in {"open", "change", "close"} /\ m.doc = d
    IN  \/ \E i \in DOMAIN commands : About(commands[i])
        \/ \E i \in DOMAIN proc[servers[s].gen].wire :
              About(proc[servers[s].gen].wire[i])

\* A server's copy is the buffer's text: whenever the editor takes a document
\* for synchronised, the server it knows is running and nothing about it is
\* still on the way, the copy is what the person sees, through full queues,
\* restarts and servers that come and go.
DocumentsAgree ==
    \A d \in Docs :
        LET s == ServerOf[d]
        IN  /\ docs[d] = "synced"
            /\ servers[s] # None /\ servers[s].gen = known[s]
            /\ proc[known[s]].up /\ ~OnTheWay(d, s)
            /\ SyncOf(s).openClose /\ SyncOf(s).change # "none"
            => proc[known[s]].copy[d] = text[d]

\* Every request comes to an end while the processes answer or end.
RequestsEnd ==
    \A t \in Tokens : tracked[t].state # "none" ~> tracked[t].state = "none"
=============================================================================
