---------------------------- MODULE FrameDelivery ---------------------------
(***************************************************************************)
(* How the workspace host's frames and replies reach the attached client.  *)
(*                                                                         *)
(* A reply passes two response channels (a lane at the host, a lane at the *)
(* client), each with a FIFO of semantic replies, room for one final reply *)
(* and one replaceable slot for the newest visual update.  Four actors run *)
(* at once: the host loop, the connection task that empties the host's     *)
(* lane onto the socket, the client's reader thread that folds damage into *)
(* complete frames for the client's lane, and the client's own loop.       *)
(*                                                                         *)
(* A frame is its id: damage turns the frame `base` into the frame `id`    *)
(* and fits no other.                                                      *)
(*                                                                         *)
(* Sources: src/src/cli.rs (publish_attached_frame, run_attached),         *)
(* src/src/workspace/transport_shared.rs (ResponseSender,                  *)
(* ResponseReceiver, FrameCoalescer, serve_connection_with_peer),          *)
(* src/src/workspace/transport.rs (BufferedLocalClient).                   *)
(***************************************************************************)
EXTENDS Integers, Sequences

CONSTANTS
    Clients,     \* the kinds of client that may attach
    SemanticCap, \* RESPONSE_CAPACITY
    WireCap,     \* bound on the messages the socket holds towards the client
    UpCap,       \* bound on the requests on their way to the host
    MaxInputs,   \* bound on the client's inputs
    MaxAsks,     \* bound on the client's requests that have a reply
    MaxChanges   \* bound on what changes without the client

ASSUME DeliveryConstants ==
    /\ Clients \subseteq {"terminal", "window", "launcher"}
    /\ {SemanticCap, WireCap} \subseteq Nat \ {0}
    /\ UpCap \in Nat \ {0, 1}
    /\ {MaxInputs, MaxAsks, MaxChanges} \subseteq Nat

VARIABLES
    client,        \* the kind of the attached client, which never changes
    nextFrame,     \* WorkspaceHost.next_frame
    applied,       \* inputs the host has handled
    shows,         \* history: the inputs each frame shows
    refilling,     \* finder_scan_refills
    framePending,  \* frame_pending
    attached,      \* active is some; else its response sender is dropped
    lastFrame,     \* AttachedClient.last_frame
    inputBarrier,  \* AttachedClient.input_barrier
    media,         \* how many App.media_requests wait for a frame
    lane,          \* the two response channels
    delivered,     \* ResponseSender.delivered_visual
    task,          \* the connection task
    writing,       \* the message it writes
    wire,          \* the socket, towards the client
    up, events,    \* the requests in the socket, and in the event channel
    reading,       \* the reader thread runs
    latest,        \* FrameCoalescer.latest_frame
    phase,         \* where run_attached is
    current,       \* its current_frame
    awaiting,      \* the input barrier the window waits for
    sent,          \* what the client has sent, and the host changed by itself
    covers,        \* history: the inputs sent before the awaited barrier
    semantic,      \* history: semantic replies accepted, and received
    ended          \* history: the host accepted a final reply

hostVars == <<nextFrame, applied, shows, refilling, framePending, attached,
              lastFrame, inputBarrier, media>>
taskVars == <<delivered, task, writing>>
readVars == <<reading, latest>>
clientVars == <<phase, current, awaiting, covers>>
vars == <<client, hostVars, lane, taskVars, wire, up, events, readVars, clientVars,
          sent, semantic, ended>>

-----------------------------------------------------------------------------
\* A window asks for input barriers; a launcher is a window that opens launch
\* targets first.
Window == client # "terminal"
Launch == client = "launcher"

NoFrame == 0
NoSerial == -1
Message(kind, id, base, serial) ==
    [kind |-> kind, id |-> id, base |-> base, serial |-> serial]
NoMessage == Message("none", NoFrame, NoFrame, NoSerial)

Messages ==
    [kind : {"welcome", "reply", "barrier", "frame", "damage", "final",
             "none"}, id : Nat, base : Nat, serial : Int]
Requests == [kind : {"input", "barrier", "launch", "ask", "resync", "detach",
                     "gone"}, serial : Int]
Request(kind, serial) == [kind |-> kind, serial |-> serial]

IsVisual(m) == m.kind \in {"frame", "damage"}
IsFinal(m) == m.kind = "final"

Lane == [queue : Seq(Messages), final : Messages, held : Messages,
         slot : Messages, seen : BOOLEAN, polled : 0 .. 2]
EmptyLane == [queue |-> <<>>, final |-> NoMessage, held |-> NoMessage,
              slot |-> NoMessage, seen |-> TRUE, polled |-> 0]

TypeOK ==
    /\ client \in Clients
    /\ nextFrame \in Nat \ {0} /\ applied \in Nat
    /\ shows \in Seq(Nat) /\ Len(shows) = nextFrame - 1
    /\ {refilling, framePending, attached, reading, ended} \subseteq BOOLEAN
    /\ lastFrame \in 0 .. nextFrame - 1
    /\ inputBarrier \in Int /\ awaiting \in Int
    /\ media \in 0 .. MaxInputs
    /\ lane \in [{"host", "client"} -> Lane]
    /\ \A k \in {"host", "client"} : Len(lane[k].queue) <= SemanticCap
    /\ delivered \in 0 .. nextFrame - 1
    /\ task \in {"handshake", "serving", "closed"}
    /\ writing \in Messages
    /\ wire \in Seq(Messages) /\ Len(wire) <= WireCap
    /\ up \in Seq(Requests) /\ events \in Seq(Requests)
    /\ Len(up) <= UpCap /\ Len(events) <= UpCap + 1
    /\ latest \in 0 .. nextFrame - 1
    /\ phase \in {"handshake", "initial", "launch", "loop",
                  "finished", "unexpected", "refused", "lost", "left"}
    /\ current \in 0 .. nextFrame - 1
    /\ sent \in [inputs : 0 .. MaxInputs, asks : 0 .. MaxAsks,
                 changes : 0 .. MaxChanges]
    /\ covers \in 0 .. MaxInputs
    /\ semantic \in [accepted : Nat, received : Nat]

Running == phase \in {"handshake", "initial", "launch", "loop"}

-----------------------------------------------------------------------------
(* The response channel, as operators on a lane l. *)

\* ResponseSender::try_send accepts m (a visual always, a final one once).
Accepts(l, m) ==
    \/ IsVisual(m)
    \/ IsFinal(m) /\ l.final = NoMessage
    \/ ~IsVisual(m) /\ ~IsFinal(m) /\ Len(l.queue) < SemanticCap

\* The lane after it accepted m; a visual replaces the one in the slot.
Put(l, m) ==
    IF IsVisual(m) THEN [l EXCEPT !.slot = m, !.seen = FALSE]
    ELSE IF IsFinal(m) THEN [l EXCEPT !.final = m]
    ELSE [l EXCEPT !.queue = Append(@, m)]

\* visual_pending: the connection task has not finished writing the slot.
VisualPending == lane["host"].slot.id # delivered

\* One poll of recv's biased select: it finds the semantic queue empty, then
\* the final lane, and a wakeup starts it again.
Polled(l) ==
    IF l.polled = 0 /\ l.queue = <<>> THEN {[l EXCEPT !.polled = 1]}
    ELSE IF l.polled = 1 /\ l.final = NoMessage THEN {[l EXCEPT !.polled = 2]}
    ELSE IF l.polled = 2 /\ (l.queue # <<>> \/ l.final # NoMessage)
    THEN {[l EXCEPT !.polled = 0]}
    ELSE {}

\* semantic_before_final: a semantic reply that arrived meanwhile goes first
\* and the final one is held.  The message taken and the lane it leaves.
SemanticBeforeFinal(l, final) ==
    IF l.queue = <<>>
    THEN [taken |-> final, left |-> [l EXCEPT !.held = NoMessage]]
    ELSE [taken |-> Head(l.queue),
          left |-> [l EXCEPT !.queue = Tail(@), !.held = final]]

\* ResponseReceiver::recv, where it returns.
Received(l) ==
    IF l.held # NoMessage THEN {SemanticBeforeFinal(l, l.held)}
    ELSE IF l.polled = 0 /\ l.queue # <<>>
    THEN {[taken |-> Head(l.queue), left |-> [l EXCEPT !.queue = Tail(@)]]}
    ELSE IF l.polled = 1 /\ l.final # NoMessage
    THEN {SemanticBeforeFinal([l EXCEPT !.final = NoMessage, !.polled = 0],
                              l.final)}
    ELSE IF l.polled = 2 /\ ~l.seen
    THEN {[taken |-> l.slot, left |-> [l EXCEPT !.seen = TRUE, !.polled = 0]]}
    ELSE {}

\* Mutant: only the two queues that carry most messages count.
DrainedOfMost(l) == l.queue = <<>> /\ l.seen

\* recv has nothing more to return once the sender is gone.
Drained(l) ==
    /\ l.queue = <<>> /\ l.seen
    /\ l.final = NoMessage /\ l.held = NoMessage

-----------------------------------------------------------------------------
\* ServerEvent::Connected: Welcome is queued and, unless a refill is under
\* way, the first complete frame is published.
Init ==
    /\ client \in Clients
    /\ refilling \in BOOLEAN /\ framePending = refilling
    /\ nextFrame = IF refilling THEN 1 ELSE 2
    /\ shows = IF refilling THEN <<>> ELSE <<0>>
    /\ lastFrame = nextFrame - 1
    /\ lane = [k \in {"host", "client"} |->
          IF k = "client" THEN EmptyLane
          ELSE LET welcomed == Put(EmptyLane, Message("welcome", NoFrame,
                                                     NoFrame, NoSerial))
               IN  IF refilling THEN welcomed
                   ELSE Put(welcomed, Message("frame", 1, NoFrame, NoSerial))]
    /\ applied = 0 /\ attached = TRUE
    /\ inputBarrier = NoSerial /\ media = 0
    /\ delivered = NoFrame /\ task = "handshake" /\ writing = NoMessage
    /\ wire = <<>> /\ up = <<>> /\ events = <<>>
    /\ reading = TRUE /\ latest = NoFrame
    /\ phase = "handshake" /\ current = NoFrame /\ awaiting = NoSerial
    /\ sent = [inputs |-> 0, asks |-> 0, changes |-> 0]
    /\ covers = 0
    /\ semantic = [accepted |-> 1, received |-> 0]
    /\ ended = FALSE

-----------------------------------------------------------------------------
(* The host loop *)

\* Mutant: a barrier is answered with the frame published last.
ResponseWithLast(n, last, barrier, whole) ==
    IF barrier # NoSerial
    THEN Message("barrier", IF last = NoFrame THEN n ELSE last, NoFrame, barrier)
    ELSE IF VisualPending \/ last = NoFrame \/ whole
    THEN Message("frame", n, NoFrame, NoSerial)
    ELSE Message("damage", n, last, NoSerial)

\* The response publish_attached_frame chooses for frame n; damage may not
\* describe what changed (whole).
Response(n, last, barrier, whole) ==
    IF barrier # NoSerial THEN Message("barrier", n, NoFrame, barrier)
    ELSE IF VisualPending \/ last = NoFrame \/ whole
    THEN Message("frame", n, NoFrame, NoSerial)
    ELSE Message("damage", n, last, NoSerial)

\* The host's lane l, with k replies more than it had, takes m; a receiver
\* that is gone, or full, ends the attachment.
Send(l, k, m) ==
    LET taken == task # "closed" /\ Accepts(l, m)
    IN  /\ lane' = [lane EXCEPT !["host"] = IF taken THEN Put(l, m) ELSE l]
        /\ attached' = (taken /\ ~IsFinal(m))
        /\ semantic' = [semantic EXCEPT !.accepted =
              @ + k + (IF taken /\ ~IsVisual(m) /\ ~IsFinal(m) THEN 1 ELSE 0)]
        /\ ended' = (ended \/ (taken /\ IsFinal(m)))

\* The lane l with the m media actions that go before a frame.
WithMedia(l, m) ==
    [l EXCEPT !.queue = @ \o [i \in 1 .. m |->
                                Message("reply", NoFrame, NoFrame, NoSerial)]]

\* publish_attached_frame, with last_frame, input_barrier and the queued media
\* actions as the event left them, and the inputs n applied.
PublishAttachedFrame(last, barrier, m, n) ==
    IF ~attached
    THEN UNCHANGED <<nextFrame, shows, lastFrame, inputBarrier, attached,
                     media, lane, semantic, ended>>
    ELSE /\ nextFrame' = nextFrame + 1
         /\ shows' = Append(shows, n)
         /\ media' = 0
         /\ LET room == IF task = "closed" THEN 0
                        ELSE SemanticCap - Len(lane["host"].queue)
            IN  IF m > room
                THEN /\ attached' = FALSE
                     /\ lane' = [lane EXCEPT !["host"] = WithMedia(@, room)]
                     /\ semantic' = [semantic EXCEPT !.accepted = @ + room]
                     /\ lastFrame' = last /\ inputBarrier' = barrier
                     /\ UNCHANGED ended
                ELSE /\ \E whole \in BOOLEAN :
                           Send(WithMedia(lane["host"], m), m,
                                Response(nextFrame, last, barrier, whole))
                     /\ lastFrame' = IF attached' THEN nextFrame ELSE last
                     /\ inputBarrier' = IF attached' THEN NoSerial ELSE barrier

\* The end of a pass of the loop in which something changed:
\* frame_publication_ready, then the publication.
Changed(last, barrier, m, n) ==
    IF refilling
    THEN /\ framePending' = TRUE
         /\ lastFrame' = last /\ inputBarrier' = barrier /\ media' = m
         /\ UNCHANGED <<nextFrame, shows, attached, lane, semantic, ended>>
    ELSE /\ PublishAttachedFrame(last, barrier, m, n)
         /\ framePending' = FALSE

\* The handler of each request of the attached client.  A key of a window may
\* ask for a media action, or be dropped: it answers an approval that is not
\* the one painted.
OnInput ==
    \/ \E m \in {media} \union (IF Window THEN {media + 1} ELSE {}) :
          Changed(lastFrame, inputBarrier, m, applied + 1)
    \/ /\ Window
       /\ UNCHANGED <<nextFrame, shows, framePending, attached, lastFrame,
                      inputBarrier, media, lane, semantic, ended>>

OnInputBarrier(serial) == Changed(lastFrame, serial, media, applied)

OnResynchronize == Changed(NoFrame, inputBarrier, media, applied)

\* OpenLaunchTargets opens, or (a path that cannot be) answers an error.
OnLaunch ==
    \/ Changed(lastFrame, 0, media, applied)
    \/ /\ Send(lane["host"], 0, Message("reply", NoFrame, NoFrame, NoSerial))
       /\ UNCHANGED <<nextFrame, shows, framePending, lastFrame, inputBarrier,
                   media>>

\* A request with a semantic reply: send_active_response.
OnAsk ==
    /\ Send(lane["host"], 0, Message("reply", NoFrame, NoFrame, NoSerial))
    /\ UNCHANGED <<nextFrame, shows, framePending, lastFrame, inputBarrier,
                   media>>

\* detach_client, and every other way the host ends the attachment.
DetachClient ==
    /\ Send(lane["host"], 0, Message("final", NoFrame, NoFrame, NoSerial))
    /\ UNCHANGED <<nextFrame, shows, framePending, lastFrame, inputBarrier,
                   media>>

\* ServerEvent::Disconnected.
OnDisconnected ==
    /\ attached' = FALSE
    /\ UNCHANGED <<nextFrame, shows, framePending, lastFrame, inputBarrier,
                   media, lane, semantic, ended>>

HandleRequest ==
    /\ events # <<>>
    /\ events' = Tail(events)
    /\ LET r == Head(events)
       IN  /\ IF ~attached
              THEN UNCHANGED <<nextFrame, shows, framePending, attached,
                               lastFrame, inputBarrier, media, lane, semantic,
                               ended>>
              ELSE \/ r.kind = "input" /\ OnInput
                   \/ r.kind = "barrier" /\ OnInputBarrier(r.serial)
                   \/ r.kind = "resync" /\ OnResynchronize
                   \/ r.kind = "launch" /\ OnLaunch
                   \/ r.kind = "ask" /\ OnAsk
                   \/ r.kind = "detach" /\ DetachClient
                   \/ r.kind = "gone" /\ OnDisconnected
           /\ applied' = IF attached /\ r.kind = "input" THEN applied + 1
                         ELSE applied
    /\ UNCHANGED <<refilling, taskVars, wire, up, readVars, clientVars, sent>>

\* Output, a finished service or a timer changes the editor by itself.
HostChanges ==
    /\ attached
    /\ sent.changes < MaxChanges
    /\ sent' = [sent EXCEPT !.changes = @ + 1]
    /\ Changed(lastFrame, inputBarrier, media, applied)
    /\ UNCHANGED <<applied, refilling, taskVars, wire, up, events, readVars,
                   clientVars>>

\* A finder refill begins, and ends with a change.
RefillBegins ==
    /\ attached /\ ~refilling
    /\ sent.changes < MaxChanges
    /\ sent' = [sent EXCEPT !.changes = @ + 1]
    /\ refilling' = TRUE
    /\ framePending' = TRUE
    /\ UNCHANGED <<nextFrame, applied, shows, attached, lastFrame,
                   inputBarrier, media, lane, taskVars, wire, up, events, readVars,
                   clientVars, semantic, ended>>

RefillEnds ==
    /\ refilling
    /\ refilling' = FALSE
    /\ PublishAttachedFrame(lastFrame, inputBarrier, media, applied)
    /\ framePending' = FALSE
    /\ UNCHANGED <<applied, taskVars, wire, up, events, readVars, clientVars,
                   sent>>

\* The host ends the attachment: :detach, a switch, a shutdown.
HostEnds ==
    /\ attached
    /\ DetachClient
    /\ UNCHANGED <<applied, refilling, taskVars, wire, up, events, readVars,
                   clientVars, sent>>

-----------------------------------------------------------------------------
(* The connection task *)

\* recv_handshake waits for the semantic queue alone.
TaskHandshake ==
    /\ task = "handshake" /\ writing = NoMessage
    /\ lane["host"].queue # <<>>
    /\ writing' = Head(lane["host"].queue)
    /\ lane' = [lane EXCEPT !["host"].queue = Tail(@)]
    /\ task' = "serving"
    /\ UNCHANGED <<hostVars, delivered, wire, up, events, readVars,
                   clientVars, sent, semantic, ended>>

TaskPolls ==
    /\ task = "serving" /\ writing = NoMessage
    /\ \E l \in Polled(lane["host"]) : lane' = [lane EXCEPT !["host"] = l]
    /\ UNCHANGED <<hostVars, taskVars, wire, up, events, readVars, clientVars,
                   sent, semantic, ended>>

TaskTakes ==
    /\ task = "serving" /\ writing = NoMessage
    /\ \E r \in Received(lane["host"]) :
          /\ writing' = r.taken
          /\ lane' = [lane EXCEPT !["host"] = r.left]
    /\ UNCHANGED <<hostVars, delivered, task, wire, up, events, readVars,
                   clientVars, sent, semantic, ended>>

\* write_host_message, then mark_delivered.
TaskWrites ==
    /\ writing # NoMessage
    /\ Running /\ Len(wire) < WireCap
    /\ wire' = Append(wire, writing)
    /\ delivered' = IF IsVisual(writing) THEN writing.id ELSE delivered
    /\ writing' = NoMessage
    /\ UNCHANGED <<hostVars, lane, task, up, events, readVars, clientVars,
                   sent, semantic, ended>>

\* A request is read while there is nothing to write.
TaskReads ==
    /\ task = "serving" /\ writing = NoMessage
    /\ lane["host"].polled = 2 /\ lane["host"].seen
    /\ up # <<>> /\ Len(events) < UpCap
    /\ events' = Append(events, Head(up))
    /\ up' = Tail(up)
    /\ lane' = [lane EXCEPT !["host"].polled = 0]
    /\ UNCHANGED <<hostVars, taskVars, wire, readVars, clientVars, sent,
                   semantic, ended>>

\* The task ends: its channel is drained and its sender gone, or the client
\* closed the socket.
TaskEnds ==
    /\ task # "closed"
    /\ \/ writing = NoMessage /\ ~attached /\ Drained(lane["host"])
       \/ ~Running /\ (writing # NoMessage \/ up = <<>>)
    /\ task' = "closed"
    /\ writing' = NoMessage
    /\ events' = Append(events, Request("gone", NoSerial))
    /\ UNCHANGED <<hostVars, lane, delivered, wire, up, readVars, clientVars,
                   sent, semantic, ended>>

-----------------------------------------------------------------------------
(* The client's reader thread *)

\* FrameCoalescer::coalesce: damage that fits becomes a complete frame.
Coalesced(m) ==
    IF m.kind = "damage" /\ m.base = latest
    THEN Message("frame", m.id, NoFrame, NoSerial) ELSE m

\* Mutant: folding leaves the latest frame as it was.
FoldedAside(m) == IF m.kind = "frame" THEN m.id ELSE latest

\* The latest complete frame, with the damage of m applied in place.
Folded(m) == IF Coalesced(m).kind = "frame" THEN m.id ELSE latest

\* buffer_host_responses: a full semantic queue holds the thread back.
ReaderReads ==
    /\ reading /\ Running
    /\ wire # <<>>
    /\ Accepts(lane["client"], Coalesced(Head(wire)))
    /\ lane' = [lane EXCEPT !["client"] = Put(@, Coalesced(Head(wire)))]
    /\ latest' = Folded(Head(wire))
    /\ wire' = Tail(wire)
    /\ UNCHANGED <<hostVars, taskVars, up, events, reading, clientVars, sent,
                   semantic, ended>>

ReaderEnds ==
    /\ reading
    /\ ~Running \/ (task = "closed" /\ wire = <<>>)
    /\ reading' = FALSE
    /\ UNCHANGED <<hostVars, lane, taskVars, wire, up, events, latest,
                   clientVars, sent, semantic, ended>>

-----------------------------------------------------------------------------
(* The client's loop *)

ClientSends(requests) ==
    /\ Len(up) + Len(requests) <= UpCap
    /\ up' = up \o requests

\* The client's loop goes on in phase p with this frame on screen.
Goes(p, frame) ==
    /\ phase' = p
    /\ current' = frame

\* recv_handshake of the client.
ClientHandshake ==
    /\ phase = "handshake"
    /\ lane["client"].queue # <<>>
    /\ lane' = [lane EXCEPT !["client"].queue = Tail(@)]
    /\ Goes(IF Head(lane["client"].queue).kind = "welcome" THEN "initial"
            ELSE "unexpected", current)
    /\ semantic' = [semantic EXCEPT !.received = @ + 1]
    /\ UNCHANGED <<hostVars, taskVars, wire, up, events, readVars, awaiting,
                   covers, sent, ended>>

\* The first update is a complete frame; launch targets are sent after it.
OnInitial(m) ==
    /\ IF m.kind # "frame"
       THEN Goes("unexpected", current) /\ UNCHANGED <<up, awaiting>>
       ELSE IF Launch
       THEN /\ Goes("launch", m.id)
            /\ ClientSends(<<Request("launch", NoSerial)>>)
            /\ awaiting' = 0
       ELSE Goes("loop", m.id) /\ UNCHANGED <<up, awaiting>>
    /\ UNCHANGED covers

\* Until launch targets are open every visual is passed over.
OnLaunching(m) ==
    /\ CASE m.kind = "barrier" ->
              Goes("loop", m.id) /\ awaiting' = NoSerial
         [] IsVisual(m) -> UNCHANGED <<phase, current, awaiting>>
         [] m.kind = "reply" -> Goes("refused", current) /\ UNCHANGED awaiting
         [] OTHER -> Goes("unexpected", current) /\ UNCHANGED awaiting
    /\ UNCHANGED <<up, covers>>

\* Mutant: what arrives last is shown.
NewestArrived(id) == id

\* A barrier's frame, and a complete frame, may be older than the one shown.
Newest(id) == IF id >= current THEN id ELSE current

\* Mutant: damage that does not fit is only dropped.
DropDamage == UNCHANGED up

\* Damage that does not fit asks for a complete frame.
Resynchronize == ClientSends(<<Request("resync", NoSerial)>>)

OnResponse(m) ==
    /\ CASE m.kind = "barrier" ->
              Goes("loop", Newest(m.id)) /\ awaiting' = NoSerial
                 /\ UNCHANGED up
         [] m.kind = "frame" ->
              Goes("loop", Newest(m.id)) /\ UNCHANGED <<awaiting, up>>
         [] m.kind = "damage" /\ m.base = current ->
              Goes("loop", m.id) /\ UNCHANGED <<awaiting, up>>
         [] m.kind = "damage" /\ m.base # current ->
              Resynchronize /\ UNCHANGED <<phase, current, awaiting>>
         [] m.kind = "final" ->
              Goes("finished", current) /\ UNCHANGED <<awaiting, up>>
         [] m.kind = "reply" ->  \* an error ends the attachment
              /\ Goes(phase, current) \/ Goes("refused", current)
              /\ UNCHANGED <<awaiting, up>>
         [] OTHER -> UNCHANGED <<phase, current, awaiting, up>>
    /\ UNCHANGED covers

ClientPolls ==
    /\ phase \in {"initial", "launch", "loop"}
    /\ \E l \in Polled(lane["client"]) : lane' = [lane EXCEPT !["client"] = l]
    /\ UNCHANGED <<hostVars, taskVars, wire, up, events, readVars, clientVars,
                   sent, semantic, ended>>

ClientTakes ==
    /\ \E r \in Received(lane["client"]) :
          /\ lane' = [lane EXCEPT !["client"] = r.left]
          /\ \/ phase = "initial" /\ OnInitial(r.taken)
             \/ phase = "launch" /\ OnLaunching(r.taken)
             \/ phase = "loop" /\ OnResponse(r.taken)
          /\ semantic' = IF IsVisual(r.taken) \/ IsFinal(r.taken)
                         THEN semantic
                         ELSE [semantic EXCEPT !.received = @ + 1]
    /\ UNCHANGED <<hostVars, taskVars, wire, events, readVars, sent, ended>>

\* The stream ended without a final reply.
ClientLoses ==
    /\ phase \in {"handshake", "initial", "launch", "loop"}
    /\ ~reading /\ Drained(lane["client"])
    /\ Goes("lost", current)
    /\ UNCHANGED <<hostVars, lane, taskVars, wire, up, events, readVars,
                   awaiting, covers, sent, semantic, ended>>

\* Between two passes of its select the loop handles an event of its own.
ClientActs(requests) ==
    /\ phase = "loop"
    /\ lane["client"].polled # 1
    /\ ClientSends(requests)
    /\ lane' = [lane EXCEPT !["client"].polled = 0]
    /\ UNCHANGED <<hostVars, taskVars, wire, events, readVars, phase, current,
                   semantic, ended>>

\* A key; a window may wait for the frame that shows it before the next one.
ClientInput(barrier) ==
    /\ awaiting = NoSerial
    /\ sent.inputs < MaxInputs
    /\ barrier => Window
    /\ ClientActs(<<Request("input", NoSerial)>> \o
                  (IF barrier THEN <<Request("barrier", sent.inputs + 1)>>
                   ELSE <<>>))
    /\ awaiting' = IF barrier THEN sent.inputs + 1 ELSE NoSerial
    /\ covers' = IF barrier THEN sent.inputs + 1 ELSE covers
    /\ sent' = [sent EXCEPT !.inputs = @ + 1]

ClientAsks ==
    /\ sent.asks < MaxAsks
    /\ ClientActs(<<Request("ask", NoSerial)>>)
    /\ sent' = [sent EXCEPT !.asks = @ + 1]
    /\ UNCHANGED <<awaiting, covers>>

\* The window is closed: Detach, answered like any other end.
ClientDetaches ==
    /\ sent.asks < MaxAsks
    /\ ClientActs(<<Request("detach", NoSerial)>>)
    /\ sent' = [sent EXCEPT !.asks = @ + 1]
    /\ UNCHANGED <<awaiting, covers>>

\* The process ends.
ClientLeaves ==
    /\ Running
    /\ Goes("left", current)
    /\ UNCHANGED <<hostVars, lane, taskVars, wire, up, events, readVars,
                   awaiting, covers, sent, semantic, ended>>

-----------------------------------------------------------------------------
SameClient == UNCHANGED client

HostHandles == SameClient /\ HandleRequest
HostRefills == SameClient /\ RefillEnds
HostActs == SameClient /\ (HostChanges \/ RefillBegins \/ HostEnds)
HostStep == HostHandles \/ HostRefills \/ HostActs
TaskStep ==
    /\ SameClient
    /\ \/ TaskHandshake \/ TaskPolls \/ TaskTakes \/ TaskWrites
       \/ TaskReads \/ TaskEnds
ReaderStep == SameClient /\ (ReaderReads \/ ReaderEnds)
ClientReceives ==
    /\ SameClient
    /\ ClientHandshake \/ ClientPolls \/ ClientTakes \/ ClientLoses
ClientInputs ==
    /\ SameClient
    /\ \/ \E barrier \in BOOLEAN : ClientInput(barrier)
       \/ ClientAsks \/ ClientDetaches \/ ClientLeaves
ClientStep == ClientReceives \/ ClientInputs

Next == HostStep \/ TaskStep \/ ReaderStep \/ ClientStep

Spec == Init /\ [][Next]_vars

\* Every actor is scheduled: the host's loop takes its events and its scan
\* slices, the runtime runs the task, the kernel the thread, and the client's
\* loop returns to recv.
Fairness ==
    /\ WF_vars(HostHandles) /\ WF_vars(HostRefills)
    /\ WF_vars(TaskStep) /\ WF_vars(ReaderStep) /\ WF_vars(ClientReceives)

FairSpec == Spec /\ Fairness

-----------------------------------------------------------------------------
(* Properties *)

\* What is on screen never goes back, though a barrier may overtake an older
\* frame on either side of the socket.
ScreenNeverGoesBack ==
    [][phase = "loop" /\ phase' = "loop" => current' >= current]_vars

\* "lets the client converge without a resynchronization loop under continuous
\* output" (cli.rs:3887): a terminal client never meets damage that does not
\* fit, however far it falls behind.
DamageFits ==
    ~Window => \A i \in DOMAIN up : up[i].kind # "resync"

\* A window that has its barrier answered shows every input it sent before.
BarrierCoversInput ==
    [][awaiting # NoSerial /\ awaiting' = NoSerial =>
          shows'[current'] >= covers]_vars

\* An attachment the host ended is never reported as a lost connection; the
\* client has every semantic reply when the final one ends it (WaitState
\* before ShuttingDown); and it is confused by the order things arrive in (a
\* handshake without Welcome, damage before a complete frame) only when the
\* host was already ending the attachment.  Every variable has its type.
EndIsExplained ==
    /\ TypeOK
    /\ phase = "finished" => semantic.received = semantic.accepted
    /\ phase = "lost" => ~ended
    /\ phase = "unexpected" => ended

\* When nothing changes any more the client shows the newest frame; and a
\* window never waits for ever: its barrier is answered, or the attachment
\* ends.
Converges ==
    /\ <>[](phase = "loop" /\ attached => current = nextFrame - 1 /\ ~framePending)
    /\ [](awaiting # NoSerial => <>(awaiting = NoSerial \/ ~Running))
=============================================================================
