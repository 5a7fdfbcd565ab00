---------------------------- MODULE AgentChannel ----------------------------
(***************************************************************************)
(* The conversation agents hold through a workspace host, and the MCP      *)
(* adapters that read it for them.                                         *)
(*                                                                         *)
(* An adapter has at most one request in flight on its connection.  It may *)
(* give up on the answer at any time; the host may still handle the        *)
(* request later, and sees the connection close only after it.  A new      *)
(* connection may be served before either.                                 *)
(*                                                                         *)
(* Sources: src/src/workspace/context/channel.rs (the conversation),       *)
(* src/src/workspace/host/context_channel.rs (its requests),               *)
(* src/src/workspace/host/context.rs (context_disconnect),                 *)
(* src/src/mcp/channel.rs and src/src/mcp/client.rs (the adapter).         *)
(***************************************************************************)
EXTENDS Integers, Sequences, FiniteSets

CONSTANTS
    Agents,           \* adapter processes
    Providers, Tasks, Places,
    MaxParticipants,  \* MAX_PARTICIPANTS
    MaxMessages,      \* MAX_MESSAGES
    MaxBytes,         \* MAX_RETAINED_BYTES; a posted message has two, a
                      \* notice one
    ReadLimit,        \* the limit a read asks for, at most MAX_READ
    ReadBytes,        \* MAX_READ_BYTES
    Calls,            \* bound on what agents ask for: "join", "post", "read"
    Revocable,        \* bound: the connections the host may revoke
    MaxConns,         \* bound on connections
    MaxIds,           \* bound on participants ever joined
    MaxLog            \* bound on messages ever recorded

ASSUME ChannelConstants ==
    /\ {MaxParticipants, MaxMessages, ReadLimit} \subseteq Nat \ {0}
    /\ {MaxBytes, ReadBytes} \subseteq Nat \ {0, 1}
    /\ {MaxConns, MaxIds, MaxLog} \subseteq Nat
    /\ Providers # {} /\ Tasks # {} /\ Places # {}

Ids == 1 .. MaxIds      \* in the order they first joined: joined_order
Conns == 1 .. MaxConns
NoOne == 0              \* no participant, no connection

VARIABLES
    who,       \* Channel.participants
    nick,      \* the nickname each participant was given
    departed,  \* Channel.departed
    counts,    \* Channel.joined_per_provider
    log,       \* every message ever recorded; its index is its seq
    first,     \* the seq of the oldest message still in Channel.messages
    revision,  \* Channel.revision as departures see it: the code advances it
               \* at every change, but only orders departures by it
    link,      \* the connections, as the host knows them
    inbox,     \* the request a connection carries to the host
    reply,     \* the answer a connection carries back
    conn,      \* Bridge.connections: the connection of each adapter
    joined,    \* Bridge.joined
    got,       \* history: the messages each agent was given
    told       \* history: the messages each agent was told are lost

hostVars == <<who, nick, departed, counts, log, first, revision>>
wireVars == <<link, inbox, reply>>
agentVars == <<conn, joined, got, told>>
vars == <<hostVars, wireVars, agentVars>>

-----------------------------------------------------------------------------
(* Types *)

Nicks == Providers \X Nat
Participants ==
    [known : BOOLEAN, connection : Conns \union {NoOne}, left : Nat,
     provider : Providers, task : Tasks, place : Places, through : Nat]
Message == [kind : {"Joined", "Updated", "Moved", "Message"}, from : Ids,
            to : Ids \union {NoOne}]
Requests ==
    [op : {"join"}, provider : Providers, task : Tasks, place : Places,
     resume : Ids \union {NoOne}]
    \union [op : {"post"}, to : Ids \union {NoOne}, place : Places]
    \union [op : {"read"}, since : Nat]
    \union {[op |-> "none"]}
Replies ==
    [op : {"joined"}, resume : Ids]
    \union [op : {"messages"}, seqs : SUBSET Nat, next : Nat,
            lost : SUBSET Nat]
    \union {[op |-> o] : o \in {"none", "posted", "refused", "denied"}}

TypeOK ==
    /\ who \in [Ids -> Participants]
    /\ nick \in [Ids -> Nicks]
    /\ departed \subseteq Ids
    /\ counts \in [Providers -> Nat]
    /\ log \in Seq(Message)
    /\ first \in 1 .. Len(log) + 1
    /\ revision \in Nat
    /\ link \in [Conns -> {"unused", "open", "closing", "gone"}]
    /\ inbox \in [Conns -> Requests]
    /\ reply \in [Conns -> Replies]
    /\ conn \in [Agents -> Conns \union {NoOne}]
    /\ joined \in [Agents -> [resume : Ids \union {NoOne},
                              connection : Conns \union {NoOne},
                              next : Nat]]
    /\ got \in [Agents -> SUBSET Nat]
    /\ told \in [Agents -> SUBSET Nat]

Known == {p \in Ids : who[p].known}
LastSeq == Len(log)
Retained == first .. LastSeq
NoRequest == [op |-> "none"]
NoReply == [op |-> "none"]

-----------------------------------------------------------------------------
(* The conversation *)

\* Message::visible_to.
VisibleTo(m, p) == m.to = NoOne \/ m.to = p \/ m.from = p

\* The bytes of the messages S of the conversation l.
Bytes(l, S) == Cardinality(S) + Cardinality({i \in S : l[i].kind = "Message"})

\* Channel::record drops the oldest messages until both limits hold.
Oldest(l, f) ==
    CHOOSE i \in f .. Len(l) + 1 :
        /\ Len(l) - i + 1 <= MaxMessages
        /\ Bytes(l, i .. Len(l)) <= MaxBytes
        /\ \A j \in f .. i - 1 : \/ Len(l) - j + 1 > MaxMessages
                                 \/ Bytes(l, j .. Len(l)) > MaxBytes

\* Channel::record for the messages `added`, in order.
Record(added) ==
    /\ LastSeq + Len(added) <= MaxLog
    /\ log' = log \o added
    /\ first' = Oldest(log', first)

Notice(kind, p) == <<[kind |-> kind, from |-> p, to |-> NoOne]>>

\* Channel::relocate.
Moves(p, place) ==
    IF who[p].place = place THEN <<>> ELSE Notice("Moved", p)

\* Channel::joined.
JoinedOn(c) == {p \in Known : who[p].connection = c}

\* The participant a join is for: the connection's own, or the one whose
\* private resume token it presents, under the identity it joined with: an
\* adapter keeps its pairing here.
Existing(c, resume) ==
    IF JoinedOn(c) # {} THEN JoinedOn(c) ELSE {resume} \intersect Known

\* evict_departed: the participant that left longest ago, if any has.
Evicted ==
    LET gone == {p \in Known : who[p].left # 0}
    IN  IF Cardinality(Known) < MaxParticipants THEN {}
        ELSE {p \in gone : \A q \in gone : who[p].left <= who[q].left}

Names(l, S) == {l[i].from : i \in S} \union {l[i].to : i \in S}

\* Mutant of DepartedAfter: names are kept for receivers only.
DepartedRecipients(evicted) ==
    IF evicted = {} THEN departed
    ELSE (departed \union evicted) \intersect {log[i].to : i \in Retained}

\* The nicknames that stay for retained messages after an eviction.
DepartedAfter(evicted) ==
    IF evicted = {} THEN departed
    ELSE (departed \union evicted) \intersect Names(log, Retained)

\* `provider-N`, numbered per provider.
NextNick(provider) == <<provider, counts[provider] + 1>>

Nobody == [known |-> FALSE, connection |-> NoOne, left |-> 0,
           provider |-> CHOOSE v \in Providers : TRUE,
           task |-> CHOOSE v \in Tasks : TRUE,
           place |-> CHOOSE v \in Places : TRUE, through |-> 0]

-----------------------------------------------------------------------------
Init ==
    /\ who = [p \in Ids |-> Nobody]
    /\ nick = [p \in Ids |-> <<CHOOSE v \in Providers : TRUE, 0>>]
    /\ departed = {}
    /\ counts = [v \in Providers |-> 0]
    /\ log = <<>>
    /\ first = 1
    /\ revision = 0
    /\ link = [c \in Conns |-> "unused"]
    /\ inbox = [c \in Conns |-> NoRequest]
    /\ reply = [c \in Conns |-> NoReply]
    /\ conn = [a \in Agents |-> NoOne]
    /\ joined = [a \in Agents |-> [resume |-> NoOne, connection |-> NoOne,
                                   next |-> 0]]
    /\ got = [a \in Agents |-> {}]
    /\ told = [a \in Agents |-> {}]

-----------------------------------------------------------------------------
(* The host handles the request of a connection it still serves. *)

Served(c, op) == link[c] \in {"open", "closing"} /\ inbox[c].op = op

\* The answer to the request of c; nobody reads it once the adapter left.
Answer(c, answer) ==
    /\ inbox' = [inbox EXCEPT ![c] = NoRequest]
    /\ reply' = [reply EXCEPT ![c] =
                    IF link[c] = "open" THEN answer ELSE NoReply]
    /\ UNCHANGED <<link, agentVars>>

\* Mutant: a participant that comes back keeps the mark that it left.
ReturnedStillLeft(p, c) ==
    [who[p] EXCEPT !.connection = c, !.provider = inbox[c].provider,
                   !.task = inbox[c].task, !.place = inbox[c].place]

\* Participant p on connection c, as the join of c describes it.
Returned(p, c) ==
    [who[p] EXCEPT !.connection = c, !.left = 0,
                   !.provider = inbox[c].provider, !.task = inbox[c].task,
                   !.place = inbox[c].place]

\* Channel::join of a participant the channel knows.
Rejoin(c, p) ==
    LET asked == inbox[c]
        changed == \/ who[p].provider # asked.provider
                   \/ who[p].task # asked.task
        added == (IF changed THEN Notice("Updated", p) ELSE <<>>)
                    \o Moves(p, asked.place)
    IN  /\ Served(c, "join")
        /\ p \in Existing(c, asked.resume)
        /\ who' = [who EXCEPT ![p] = Returned(p, c)]
        /\ Record(added)
        /\ Answer(c, [op |-> "joined", resume |-> p])
        /\ UNCHANGED <<nick, departed, counts, revision>>

\* Channel::join of a new participant p; a departed one may give way.
JoinNew(c, p) ==
    LET asked == inbox[c]
    IN  /\ Served(c, "join")
        /\ Existing(c, asked.resume) = {}
        /\ \A q \in Ids : q < p <=> nick[q][2] # 0
        /\ Cardinality(Known) < MaxParticipants \/ Evicted # {}
        /\ who' = [q \in Ids |->
              IF q = p
              THEN [known |-> TRUE, connection |-> c, left |-> 0,
                    provider |-> asked.provider, task |-> asked.task,
                    place |-> asked.place, through |-> LastSeq]
              ELSE IF q \in Evicted THEN Nobody ELSE who[q]]
        /\ departed' = DepartedAfter(Evicted)
        /\ counts' = [counts EXCEPT ![asked.provider] = @ + 1]
        /\ nick' = [nick EXCEPT ![p] = NextNick(asked.provider)]
        /\ Record(Notice("Joined", p))
        /\ Answer(c, [op |-> "joined", resume |-> p])
        /\ UNCHANGED revision

\* Channel::join when nobody gives way.
JoinRefused(c) ==
    /\ Served(c, "join")
    /\ Existing(c, inbox[c].resume) = {}
    /\ Cardinality(Known) >= MaxParticipants /\ Evicted = {}
    /\ Answer(c, [op |-> "refused"])
    /\ UNCHANGED hostVars

\* Channel::post.
Post(c, p) ==
    LET asked == inbox[c]
        added == Moves(p, asked.place)
                    \o <<[kind |-> "Message", from |-> p, to |-> asked.to]>>
    IN  /\ Served(c, "post")
        /\ p \in JoinedOn(c)
        /\ asked.to \in (Known \ {p}) \union {NoOne}
        /\ who' = [who EXCEPT ![p].place = asked.place]
        /\ Record(added)
        /\ Answer(c, [op |-> "posted"])
        /\ UNCHANGED <<nick, departed, counts, revision>>

\* A post to oneself, or to someone the channel does not know.
PostRefused(c) ==
    /\ Served(c, "post")
    /\ \E p \in JoinedOn(c) : inbox[c].to \notin (Known \ {p}) \union {NoOne}
    /\ Answer(c, [op |-> "refused"])
    /\ UNCHANGED hostVars

\* The messages one read takes: the longest run, in order, of those after
\* `since` that p may see within both limits.
Taken(p, since) ==
    LET visible == {i \in Retained : i > since /\ VisibleTo(log[i], p)}
        upTo(i) == {j \in visible : j <= i}
    IN  {i \in visible : /\ Cardinality(upTo(i)) <= ReadLimit
                         /\ Bytes(log, upTo(i)) <= ReadBytes}

\* Mutant: a read always moves to the newest message.
NextIsNewest(p, since) == LastSeq

\* The last message a read examined.
NextOf(p, since) ==
    LET left == {i \in Retained : i > since /\ VisibleTo(log[i], p)}
                    \ Taken(p, since)
    IN  IF left = {} THEN LastSeq
        ELSE (CHOOSE i \in left : \A j \in left : i <= j) - 1

\* Mutant: one message short.
ReadThroughBefore(p, next) ==
    IF next > who[p].through THEN next - 1 ELSE who[p].through

\* read_through only advances.
ReadThrough(p, next) ==
    IF next > who[p].through THEN next ELSE who[p].through

\* Channel::read.  A position past the newest message starts over.
Read(c, p) ==
    LET asked == inbox[c].since
        since == IF asked > LastSeq THEN 0 ELSE asked
        next == NextOf(p, since)
    IN  /\ Served(c, "read")
        /\ p \in JoinedOn(c)
        /\ who' = [who EXCEPT ![p].through = ReadThrough(p, next)]
        /\ Answer(c, [op |-> "messages", seqs |-> Taken(p, since),
                      next |-> next, lost |-> since + 1 .. first - 1])
        /\ UNCHANGED <<nick, departed, counts, log, first, revision>>

\* A post or a read of a connection that has not joined.
NotJoined(c) ==
    /\ Served(c, "post") \/ Served(c, "read")
    /\ JoinedOn(c) = {}
    /\ Answer(c, [op |-> "denied"])
    /\ UNCHANGED hostVars

\* context_disconnect: the adapter closed the connection, once its last
\* request was handled, or (revoked) the host ends it.
Disconnect(c, revoked) ==
    /\ \/ link[c] = "closing" /\ inbox[c] = NoRequest /\ ~revoked
       \/ link[c] = "open" /\ revoked /\ c \in Revocable
    /\ link' = [link EXCEPT ![c] = "gone"]
    /\ inbox' = [inbox EXCEPT ![c] = NoRequest]
    /\ revision' = revision + Cardinality(JoinedOn(c))
    /\ who' = [p \in Ids |->
                  IF p \in JoinedOn(c)
                  THEN [who[p] EXCEPT !.connection = NoOne, !.left = revision']
                  ELSE who[p]]
    /\ UNCHANGED <<nick, departed, counts, log, first, reply, agentVars>>

-----------------------------------------------------------------------------
(* The adapter *)

Idle(a) ==
    /\ conn[a] # NoOne
    /\ link[conn[a]] = "open"
    /\ inbox[conn[a]] = NoRequest /\ reply[conn[a]] = NoReply

Ask(a, request) ==
    /\ request.op \in Calls
    /\ Idle(a)
    /\ inbox' = [inbox EXCEPT ![conn[a]] = request]
    /\ UNCHANGED <<hostVars, link, reply, agentVars>>

\* discover opens a connection when there is none.
Connect(a, c) ==
    /\ conn[a] = NoOne
    /\ \A d \in Conns : d < c <=> link[d] # "unused"
    /\ link' = [link EXCEPT ![c] = "open"]
    /\ conn' = [conn EXCEPT ![a] = c]
    /\ UNCHANGED <<hostVars, inbox, reply, joined, got, told>>

\* channel_join, asked for by the agent or by channel_rejoin.
CallJoin(a, provider, task, place) ==
    Ask(a, [op |-> "join", provider |-> provider, task |-> task,
            place |-> place, resume |-> joined[a].resume])

\* channel_rejoin lets a call through when the join was made on this very
\* connection.
JoinedHere(a) == joined[a].connection = conn[a]

CallPost(a, to, place) ==
    /\ JoinedHere(a)
    /\ Ask(a, [op |-> "post", to |-> to, place |-> place])

\* read_messages continues where the last read stopped.
CallRead(a) ==
    /\ JoinedHere(a)
    /\ Ask(a, [op |-> "read", since |-> joined[a].next])

\* Bridge::forget; the host learns of it later.
Forget(a) ==
    /\ conn' = [conn EXCEPT ![a] = NoOne]
    /\ link' = [link EXCEPT ![conn[a]] = IF @ = "open" THEN "closing" ELSE @]
    /\ reply' = [reply EXCEPT ![conn[a]] = NoReply]

\* A timeout, a closed socket, a spent request budget or a rediscovery.  The
\* bound on connections leaves one to come back on.
GiveUp(a) ==
    /\ conn[a] # NoOne
    /\ \E c \in Conns : link[c] = "unused"
    /\ Forget(a)
    /\ UNCHANGED <<hostVars, inbox, joined, got, told>>

\* The position after a join: a first one reads the conversation so far.
Place(a, answer) ==
    [resume |-> answer.resume, connection |-> conn[a],
     next |-> joined[a].next]

Receive(a) ==
    /\ conn[a] # NoOne
    /\ LET answer == reply[conn[a]]
       IN  /\ answer.op # "none"
           /\ joined' = [joined EXCEPT ![a] =
                 CASE answer.op = "joined" -> Place(a, answer)
                   [] answer.op = "messages" -> [@ EXCEPT !.next = answer.next]
                   [] OTHER -> @]
           /\ IF answer.op = "messages"
              THEN /\ got' = [got EXCEPT ![a] = @ \union answer.seqs]
                   /\ told' = [told EXCEPT ![a] = @ \union answer.lost]
              ELSE UNCHANGED <<got, told>>
           /\ IF answer.op = "denied" THEN Forget(a)
              ELSE /\ reply' = [reply EXCEPT ![conn[a]] = NoReply]
                   /\ UNCHANGED <<conn, link>>
    /\ UNCHANGED <<hostVars, inbox>>

-----------------------------------------------------------------------------
HostStep ==
    \E c \in Conns :
        \/ \E p \in Ids : Rejoin(c, p) \/ JoinNew(c, p) \/ Post(c, p)
                             \/ Read(c, p)
        \/ JoinRefused(c) \/ PostRefused(c) \/ NotJoined(c)
        \/ \E revoked \in BOOLEAN : Disconnect(c, revoked)

AgentStep ==
    \E a \in Agents :
        \/ \E c \in Conns : Connect(a, c)
        \/ \E v \in Providers, k \in Tasks, l \in Places : CallJoin(a, v, k, l)
        \/ \E to \in Ids \union {NoOne}, l \in Places : CallPost(a, to, l)
        \/ CallRead(a) \/ GiveUp(a) \/ Receive(a)

Next == HostStep \/ AgentStep

Spec == Init /\ [][Next]_vars

-----------------------------------------------------------------------------
(* Properties *)

\* The channel's table agrees with the connections: a participant is either
\* connected, through a connection of its own that the host still serves, or
\* has left at a revision of its own.  Rejoining before the host saw the old
\* connection close must not confuse the two.  Every variable has its type.
PresenceConsistent ==
    /\ TypeOK
    /\ \A p \in Known :
          /\ who[p].connection = NoOne <=> who[p].left # 0
          /\ who[p].connection # NoOne =>
                link[who[p].connection] \in {"open", "closing"}
          /\ who[p].left <= revision
          /\ \A q \in Known \ {p} :
                /\ who[p].connection = who[q].connection =>
                      who[p].connection = NoOne
                /\ who[p].left = who[q].left => who[p].left = 0

\* Every message still kept names people the channel can show a nickname for,
\* though participants give way to new ones and departed names are dropped;
\* and a nickname names one participant, so a direct message reaches who it
\* names.
MessagesNamed ==
    /\ \A i \in Retained :
          /\ log[i].from \in Known \union departed
          /\ log[i].to \in Known \union departed \union {NoOne}
    /\ \A p, q \in Known \union departed : nick[p] = nick[q] => p = q

\* An agent that follows its position misses nothing silently: whatever it may
\* see up to there was given to it, or reported as lost, through reconnects,
\* lost answers, partial reads and a new participant in its place.
NothingSkipped ==
    \A a \in Agents : joined[a].resume # NoOne =>
        \A i \in 1 .. joined[a].next :
            VisibleTo(log[i], joined[a].resume) =>
                i \in got[a] \union told[a]

\* The messages Channel::unread counts for p.
Unread(p) == {i \in Retained : /\ i > who[p].through /\ log[i].from # p
                               /\ log[i].kind = "Message"
                               /\ VisibleTo(log[i], p)}

\* The [N unread] of a title never counts a message the agent was given.
UnreadIsNews ==
    \A a \in Agents : joined[a].resume \in Known =>
        Unread(joined[a].resume) \intersect got[a] = {}
=============================================================================
