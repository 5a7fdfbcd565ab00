------------------------- MODULE AgentChannelProofs -------------------------
(* Theorems about AgentChannel, for every number of agents, connections and   *)
(* participants and every limit.                                              *)
EXTENDS AgentChannel, FiniteSetTheorems, SequenceTheorems,
        WellFoundedInduction, TLAPS

-----------------------------------------------------------------------------
(* The inductive invariant *)

\* The participants that were ever given a nickname.
Named == {p \in Ids : nick[p][2] # 0}

\* A nickname is given once, and whoever is spoken of has one.
Nicknamed ==
    /\ Known \union departed \subseteq Named
    /\ \A i \in 1 .. Len(log) : /\ log[i].from \in Named
                                /\ log[i].to \in Named \union {NoOne}
    /\ \A p \in Ids : nick[p][2] <= counts[nick[p][1]]
    /\ \A p, q \in Named : nick[p] = nick[q] => p = q

\* The first part of MessagesNamed.
KeptNamed ==
    \A i \in Retained :
        /\ log[i].from \in Known \union departed
        /\ log[i].to \in Known \union departed \union {NoOne}

\* A connection is one adapter's, which asks for one thing at a time.
OneConversation ==
    /\ \A c \in Conns : inbox[c] # NoRequest => reply[c] = NoReply
    /\ \A c \in Conns : link[c] = "unused" =>
          inbox[c] = NoRequest /\ reply[c] = NoReply
    /\ \A a \in Agents : conn[a] # NoOne => link[conn[a]] \in {"open", "gone"}
    /\ \A a, b \in Agents : conn[a] # NoOne /\ conn[a] = conn[b] => a = b

\* Whatever p may see up to the position of agent a was given to a or reported
\* lost, and p has no message as unread that a was given.
Follows(a, p) ==
    /\ p \in Named
    /\ \A i \in 1 .. joined[a].next :
          VisibleTo(log[i], p) => i \in got[a] \union told[a]
    /\ p \in Known => \A i \in got[a] : i <= who[p].through

\* The position of an agent.
Positions ==
    \A a \in Agents :
        /\ joined[a].next <= Len(log)
        /\ joined[a].resume = NoOne => joined[a].next = 0
        /\ \A i \in got[a] : i <= Len(log)
        /\ \A p \in Ids : joined[a].resume = p => Follows(a, p)

\* A request on the connection of an agent is for the position it is at, and a
\* participant on it is the agent's, or will be once the answer is read.
Asked(a, c) ==
    /\ inbox[c].op = "join" => inbox[c].resume = joined[a].resume
    /\ inbox[c].op = "read" => inbox[c].since = joined[a].next
    /\ \A p \in JoinedOn(c) :
          p = IF reply[c].op = "joined" THEN reply[c].resume
              ELSE joined[a].resume

\* The messages that read for p bring agent a, from its position on.
Brings(a, c, p) ==
    /\ \A i \in 1 .. reply[c].next :
          joined[a].next < i /\ VisibleTo(log[i], p) =>
              i \in reply[c].seqs \union reply[c].lost
    /\ p \in Known => reply[c].next <= who[p].through

\* An answer that agent a may still read fits its position.
Fits(a, c) ==
    /\ reply[c].op = "joined" =>
          \A p \in Ids : reply[c].resume = p => Follows(a, p)
    /\ reply[c].op = "messages" =>
          /\ joined[a].resume # NoOne
          /\ reply[c].next <= Len(log)
          /\ \A i \in reply[c].seqs : i <= reply[c].next
          /\ \A p \in Ids : joined[a].resume = p => Brings(a, c, p)

\* Every agent and its connection.
InTouch ==
    \A a \in Agents, c \in Conns : conn[a] = c => Asked(a, c) /\ Fits(a, c)

\* What every reachable state satisfies.
IndInv ==
    /\ PresenceConsistent /\ Nicknamed /\ KeptNamed
    /\ OneConversation /\ Positions /\ InTouch

-----------------------------------------------------------------------------
(* Counting *)

\* A set of numbers that is not empty has a smallest one.
LEMMA SmallestNumber ==
    ASSUME NEW S \in SUBSET Nat, S # {}
    PROVE  \E m \in S : \A k \in S : m <= k
  <1> DEFINE Less == {s \in Nat \X Nat : s[1] < s[2]}
  <1>1. IsWellFoundedOn(Less, Nat)
    <2>1. OpToRel(<, Nat) = Less
      BY Zenon DEF OpToRel
    <2> QED
      BY <2>1, NatLessThanWellFounded, Zenon
  <1>2. PICK m \in S : \A k \in S : <<k, m>> \notin Less
    <2> HIDE DEF Less
    <2> QED
      BY <1>1, WFMin
  <1>3. \A k \in S : ~(k < m)
    <2> SUFFICES ASSUME NEW k \in S, k < m PROVE FALSE
      OBVIOUS
    <2>1. <<k, m>> \in Nat \X Nat /\ <<k, m>>[1] < <<k, m>>[2]
      OBVIOUS
    <2>2. <<k, m>> \in Less
      BY <2>1, Zenon
    <2> QED
      BY <1>2, <2>2, Zenon
  <1> QED
    BY <1>3

\* The bytes of a finite set of messages are counted, and no subset has more.
LEMMA BytesCounted ==
    ASSUME NEW l, NEW T, IsFiniteSet(T), NEW S \in SUBSET T
    PROVE  /\ Bytes(l, S) \in Nat /\ Bytes(l, T) \in Nat
           /\ Bytes(l, S) <= Bytes(l, T)
           /\ Cardinality(S) \in Nat /\ Cardinality(T) \in Nat
           /\ Cardinality(S) <= Cardinality(T)
  <1> DEFINE Text(U) == {i \in U : l[i].kind = "Message"}
  <1>1. IsFiniteSet(S) /\ Cardinality(S) <= Cardinality(T)
    BY FS_Subset
  <1>2. IsFiniteSet(Text(T))
    BY FS_Subset
  <1>3. IsFiniteSet(Text(S)) /\ Cardinality(Text(S)) <= Cardinality(Text(T))
    <2>1. Text(S) \in SUBSET Text(T)
      OBVIOUS
    <2> HIDE DEF Text
    <2> QED
      BY <1>2, <2>1, FS_Subset
  <1>4. /\ Cardinality(S) \in Nat /\ Cardinality(T) \in Nat
        /\ Cardinality(Text(S)) \in Nat /\ Cardinality(Text(T)) \in Nat
    <2> HIDE DEF Text
    <2> QED
      BY <1>1, <1>2, <1>3, FS_CardinalityType
  <1>5. /\ Bytes(l, S) = Cardinality(S) + Cardinality(Text(S))
        /\ Bytes(l, T) = Cardinality(T) + Cardinality(Text(T))
    BY DEF Bytes
  <1> HIDE DEF Text
  <1> QED
    BY <1>1, <1>3, <1>4, <1>5

\* Channel::record finds where to cut: at the latest, after the newest message.
LEMMA OldestFits ==
    ASSUME NEW l \in Seq(Message), NEW f \in 1 .. Len(l) + 1
    PROVE  Oldest(l, f) \in f .. Len(l) + 1
  <1> USE ChannelConstants
  <1>1. Len(l) \in Nat
    BY LenProperties
  <1> DEFINE Over(i) == \/ Len(l) - i + 1 > MaxMessages
                        \/ Bytes(l, i .. Len(l)) > MaxBytes
             Fitting == {i \in f .. Len(l) + 1 : ~Over(i)}
  <1>2. \A i \in f .. Len(l) + 1 : Bytes(l, i .. Len(l)) \in Nat
    <2> TAKE i \in f .. Len(l) + 1
    <2>1. IsFiniteSet(i .. Len(l))
      BY <1>1, FS_Interval
    <2> QED
      BY <2>1, BytesCounted
  <1>3. Len(l) + 1 \in Fitting
    <2>1. (Len(l) + 1) .. Len(l) = {}
      BY <1>1
    <2>2. Bytes(l, {}) = 0
      <3>1. {i \in {} : l[i].kind = "Message"} = {}
        OBVIOUS
      <3> QED
        BY <3>1, FS_EmptySet DEF Bytes
    <2> QED
      BY <1>1, <2>1, <2>2
  <1>4. PICK m \in Fitting : \A k \in Fitting : m <= k
    <2>1. Fitting \in SUBSET Nat
      BY <1>1
    <2> HIDE DEF Fitting
    <2> QED
      BY <1>3, <2>1, SmallestNumber
  <1>5. /\ m \in f .. Len(l) + 1
        /\ Len(l) - m + 1 <= MaxMessages
        /\ Bytes(l, m .. Len(l)) <= MaxBytes
    BY <1>1, <1>2, <1>4
  <1>6. \A j \in f .. m - 1 : Over(j)
    <2> TAKE j \in f .. m - 1
    <2>1. j \in f .. Len(l) + 1 /\ ~(m <= j)
      BY <1>1, <1>5
    <2> QED
      BY <1>4, <2>1
  <1> QED
    BY <1>5, <1>6 DEF Oldest

\* Channel::record only adds to the conversation, and drops its oldest part.
LEMMA RecordExtends ==
    ASSUME TypeOK, NEW added \in Seq(Message), Record(added)
    PROVE  /\ log' \in Seq(Message)
           /\ first' \in 1 .. Len(log') + 1
           /\ first <= first'
           /\ Len(added) \in Nat
           /\ Len(log') = Len(log) + Len(added)
           /\ \A i \in 1 .. Len(log) : log'[i] = log[i]
           /\ \A i \in 1 .. Len(log') :
                 i > Len(log) => log'[i] = added[i - Len(log)]
  <1>1. /\ log \in Seq(Message) /\ first \in 1 .. Len(log) + 1
        /\ log' = log \o added
        /\ first' = Oldest(log', first)
    BY DEF Record, TypeOK
  <1>2. Len(log) \in Nat /\ Len(added) \in Nat
    BY <1>1, LenProperties
  <1>3. /\ log' \in Seq(Message)
        /\ Len(log') = Len(log) + Len(added)
        /\ \A i \in 1 .. Len(log) + Len(added) :
              log'[i] = IF i <= Len(log) THEN log[i] ELSE added[i - Len(log)]
    BY <1>1, ConcatProperties
  <1>4. first \in 1 .. Len(log') + 1
    BY <1>1, <1>2, <1>3
  <1>5. first' \in first .. Len(log') + 1
    BY <1>1, <1>3, <1>4, OldestFits
  <1> QED
    BY <1>1, <1>2, <1>3, <1>5

\* A read takes nothing it has not examined, and all it examined that the
\* participant may see and that is still kept.
LEMMA TakenThroughNext ==
    ASSUME TypeOK, NEW p \in Ids, NEW since \in Nat
    PROVE  /\ NextOf(p, since) \in 0 .. LastSeq
           /\ Taken(p, since) \in SUBSET Nat
           /\ \A i \in Taken(p, since) : i <= NextOf(p, since)
           /\ \A i \in 1 .. NextOf(p, since) :
                 since < i /\ VisibleTo(log[i], p) =>
                     i \in Taken(p, since) \union (since + 1 .. first - 1)
  <1> USE ChannelConstants
  <1> DEFINE visible == {i \in Retained : i > since /\ VisibleTo(log[i], p)}
             upTo(i) == {j \in visible : j <= i}
             left == visible \ Taken(p, since)
  <1>1. Len(log) \in Nat /\ first \in 1 .. Len(log) + 1
    BY LenProperties DEF TypeOK
  <1>2. Taken(p, since) = {i \in visible : /\ Cardinality(upTo(i)) <= ReadLimit
                                           /\ Bytes(log, upTo(i)) <= ReadBytes}
    BY DEF Taken
  <1>3. NextOf(p, since) =
          IF left = {} THEN Len(log)
          ELSE (CHOOSE i \in left : \A j \in left : i <= j) - 1
    BY DEF NextOf, LastSeq
  <1>4. visible \in SUBSET (1 .. Len(log))
    BY <1>1 DEF Retained, LastSeq
  <1>5. ASSUME NEW i \in visible, NEW m \in visible, m <= i,
               i \in Taken(p, since)
        PROVE  m \in Taken(p, since)
    <2>1. IsFiniteSet(visible)
      <3>1. IsFiniteSet(1 .. Len(log))
        BY <1>1, FS_Interval
      <3> HIDE DEF visible
      <3> QED
        BY <1>4, <3>1, FS_Subset
    <2>2. IsFiniteSet(upTo(i)) /\ upTo(m) \in SUBSET upTo(i)
      <3>1. upTo(i) \in SUBSET visible
        OBVIOUS
      <3>2. IsFiniteSet(upTo(i))
        <4> HIDE DEF upTo, visible
        <4> QED
          BY <2>1, <3>1, FS_Subset
      <3>3. \A j \in visible : j <= m => j <= i
        BY <1>1, <1>4, <1>5
      <3> QED
        BY <3>2, <3>3
    <2>3. /\ Bytes(log, upTo(m)) \in Nat /\ Bytes(log, upTo(i)) \in Nat
          /\ Bytes(log, upTo(m)) <= Bytes(log, upTo(i))
          /\ Cardinality(upTo(m)) \in Nat /\ Cardinality(upTo(i)) \in Nat
          /\ Cardinality(upTo(m)) <= Cardinality(upTo(i))
      <3> HIDE DEF upTo
      <3> QED
        BY <2>2, BytesCounted
    <2>4. Cardinality(upTo(i)) <= ReadLimit /\ Bytes(log, upTo(i)) <= ReadBytes
      BY <1>2, <1>5
    <2>5. Cardinality(upTo(m)) <= ReadLimit /\ Bytes(log, upTo(m)) <= ReadBytes
      <3> HIDE DEF upTo
      <3> QED
        BY <2>3, <2>4
    <2> QED
      BY <1>2, <1>5, <2>5
  <1>6. Taken(p, since) \in SUBSET visible
    BY <1>2
  <1> HIDE DEF upTo
  <1>7. CASE left = {}
    <2>1. NextOf(p, since) = Len(log)
      BY <1>3, <1>7
    <2>2. \A i \in Taken(p, since) : i \in 1 .. Len(log)
      BY <1>4, <1>6
    <2>3. ASSUME NEW i \in 1 .. Len(log), since < i, VisibleTo(log[i], p)
          PROVE  i \in Taken(p, since) \union (since + 1 .. first - 1)
      BY <1>1, <1>7, <2>3 DEF Retained, LastSeq
    <2> HIDE DEF visible, left
    <2> QED
      BY <1>1, <2>1, <2>2, <2>3 DEF LastSeq
  <1>8. CASE left # {}
    <2>1. \E m \in left : \A k \in left : m <= k
      <3>1. left \in SUBSET Nat
        BY <1>1, <1>4
      <3> HIDE DEF left
      <3> QED
        BY <1>8, <3>1, SmallestNumber
    <2>2. PICK m \in left : /\ \A k \in left : m <= k
                            /\ NextOf(p, since) = m - 1
      <3> HIDE DEF left
      <3> QED
        BY <1>3, <1>8, <2>1
    <2>3. m \in 1 .. Len(log) /\ m \in visible /\ m \notin Taken(p, since)
      BY <1>4
    <2>4. \A i \in Taken(p, since) : i <= m - 1
      <3> SUFFICES ASSUME NEW i \in Taken(p, since), m <= i PROVE FALSE
        BY <1>1, <1>4, <1>6, <2>3
      <3> QED
        BY <1>5, <1>6, <2>3
    <2>5. ASSUME NEW i \in 1 .. m - 1, since < i, VisibleTo(log[i], p)
          PROVE  i \in Taken(p, since) \union (since + 1 .. first - 1)
      <3>1. i \in Int /\ ~(m <= i) /\ i <= Len(log)
        BY <1>1, <2>3
      <3>2. CASE i < first
        BY <1>1, <2>5, <3>1, <3>2
      <3>3. CASE i >= first
        <4>1. i \in visible
          BY <1>1, <2>5, <3>1, <3>3 DEF Retained, LastSeq
        <4>2. i \notin left
          BY <2>2, <3>1
        <4> QED
          BY <4>1, <4>2
      <3> QED
        BY <1>1, <3>1, <3>2, <3>3
    <2>6. Taken(p, since) \in SUBSET Nat
      BY <1>4, <1>6
    <2> HIDE DEF left, visible
    <2>7. NextOf(p, since) \in 0 .. LastSeq
      BY <1>1, <2>2, <2>3 DEF LastSeq
    <2> QED
      BY <2>2, <2>4, <2>5, <2>6, <2>7
  <1> QED
    BY <1>7, <1>8

-----------------------------------------------------------------------------
(* What a step of the host keeps *)

\* The fields of a request and of an answer.
LEMMA WireTyped ==
    ASSUME TypeOK, NEW c \in Conns
    PROVE  /\ inbox[c].op \in {"join", "post", "read", "none"}
           /\ inbox[c].op = "none" <=> inbox[c] = NoRequest
           /\ inbox[c].op = "join" =>
                 /\ inbox[c].provider \in Providers
                 /\ inbox[c].task \in Tasks
                 /\ inbox[c].place \in Places
                 /\ inbox[c].resume \in Ids \union {NoOne}
           /\ inbox[c].op = "post" =>
                 /\ inbox[c].to \in Ids \union {NoOne}
                 /\ inbox[c].place \in Places
           /\ inbox[c].op = "read" => inbox[c].since \in Nat
           /\ reply[c].op = "none" <=> reply[c] = NoReply
           /\ reply[c].op = "joined" => reply[c].resume \in Ids
           /\ reply[c].op = "messages" =>
                 /\ reply[c].seqs \in SUBSET Nat
                 /\ reply[c].next \in Nat
                 /\ reply[c].lost \in SUBSET Nat
  <1>1. inbox[c] \in Requests /\ reply[c] \in Replies
    BY DEF TypeOK
  <1> QED
    BY <1>1 DEF Requests, Replies, NoRequest, NoReply

\* The fields of a participant.
LEMMA WhoTyped ==
    ASSUME TypeOK, NEW p \in Ids
    PROVE  /\ who[p] \in Participants
           /\ who[p].known \in BOOLEAN
           /\ who[p].connection \in Conns \union {NoOne}
           /\ who[p].left \in Nat
           /\ who[p].provider \in Providers
           /\ who[p].task \in Tasks
           /\ who[p].place \in Places
           /\ who[p].through \in Nat
           /\ nick[p] \in Nicks
           /\ nick[p][1] \in Providers
           /\ nick[p][2] \in Nat
           /\ counts[nick[p][1]] \in Nat
  <1>1. who[p] \in Participants /\ nick[p] \in Nicks
    BY DEF TypeOK
  <1>2. nick[p][1] \in Providers /\ nick[p][2] \in Nat
    BY <1>1 DEF Nicks
  <1> QED
    BY <1>1, <1>2 DEF Participants, TypeOK

\* What an adapter knows.
LEMMA AgentTyped ==
    ASSUME TypeOK, NEW a \in Agents
    PROVE  /\ conn[a] \in Conns \union {NoOne}
           /\ joined[a].resume \in Ids \union {NoOne}
           /\ joined[a].connection \in Conns \union {NoOne}
           /\ joined[a].next \in Nat
           /\ got[a] \in SUBSET Nat /\ told[a] \in SUBSET Nat
           /\ Len(log) \in Nat
  <1>1. Len(log) \in Nat
    BY LenProperties DEF TypeOK
  <1>2. joined[a] \in [resume : Ids \union {NoOne},
                       connection : Conns \union {NoOne}, next : Nat]
    BY DEF TypeOK
  <1> QED
    BY <1>1, <1>2 DEF TypeOK

\* What the host never takes back: messages recorded, nicknames given, and what
\* a participant has read while it is known; and nobody unknown comes back
\* under a number that was used.
Grown ==
    /\ Len(log) <= Len(log')
    /\ \A i \in 1 .. Len(log) : log'[i] = log[i]
    /\ Named \subseteq Named'
    /\ \A p \in Named : p \in Known' =>
          p \in Known /\ who[p].through <= who'[p].through

\* An agent goes on following a conversation that only grew.
LEMMA FollowsKept ==
    ASSUME TypeOK, TypeOK', Grown, UNCHANGED agentVars, Positions,
           NEW a \in Agents, NEW p \in Ids, Follows(a, p)
    PROVE  Follows(a, p)'
  <1>1. p \in Named' /\ p \in Named
    BY DEF Follows, Grown
  <1>2. ASSUME NEW i \in 1 .. joined'[a].next, VisibleTo(log'[i], p)
        PROVE  i \in got'[a] \union told'[a]
    <2>1. joined' = joined /\ got' = got /\ told' = told
      BY DEF agentVars
    <2>2. /\ joined[a].next \in Nat /\ Len(log) \in Nat
          /\ joined[a].next <= Len(log)
      BY AgentTyped DEF Positions
    <2>3. log'[i] = log[i]
      BY <2>1, <2>2 DEF Grown
    <2> QED
      BY <1>2, <2>1, <2>3 DEF Follows
  <1>3. ASSUME p \in Known', NEW i \in got'[a]
        PROVE  i <= who'[p].through
    <2>1. i \in got[a] /\ i \in Nat
      BY AgentTyped DEF agentVars
    <2>2. p \in Known /\ who[p].through <= who'[p].through
      BY <1>1, <1>3 DEF Grown
    <2>3. who[p].through \in Nat /\ who'[p].through \in Nat
      BY WhoTyped DEF TypeOK, Participants
    <2> QED
      BY <2>1, <2>2, <2>3 DEF Follows
  <1> QED
    BY <1>1, <1>2, <1>3 DEF Follows

\* A step of the host leaves the agents where they are.
LEMMA PositionsKept ==
    ASSUME TypeOK, TypeOK', Grown, UNCHANGED agentVars, Positions
    PROVE  Positions'
  <1> SUFFICES ASSUME NEW a \in Agents
               PROVE  /\ joined'[a].next <= Len(log')
                      /\ joined'[a].resume = NoOne => joined'[a].next = 0
                      /\ \A i \in got'[a] : i <= Len(log')
                      /\ \A p \in Ids : joined'[a].resume = p =>
                            Follows(a, p)'
    BY DEF Positions
  <1>1. joined' = joined /\ got' = got
    BY DEF agentVars
  <1>2. /\ joined[a].next \in Nat /\ got[a] \in SUBSET Nat
        /\ Len(log) \in Nat /\ Len(log') \in Nat /\ Len(log) <= Len(log')
    <2>1. Len(log') \in Nat
      BY LenProperties DEF TypeOK
    <2> QED
      BY <2>1, AgentTyped DEF Grown
  <1>3. \A p \in Ids : joined[a].resume = p => Follows(a, p)'
    BY FollowsKept DEF Positions
  <1> QED
    BY <1>1, <1>2, <1>3 DEF Positions

\* An answer on its way keeps fitting.
LEMMA FitsKept ==
    ASSUME TypeOK, TypeOK', Grown, UNCHANGED agentVars, Positions,
           NEW a \in Agents, NEW c \in Conns, Fits(a, c),
           reply'[c] = reply[c]
    PROVE  Fits(a, c)'
  <1>1. joined' = joined
    BY DEF agentVars
  <1>2. CASE reply[c].op = "joined"
    <2>1. \A p \in Ids : reply[c].resume = p => Follows(a, p)'
      BY <1>2, FollowsKept DEF Fits
    <2> QED
      BY <1>2, <2>1 DEF Fits
  <1>3. CASE reply[c].op = "messages"
    <2>1. /\ joined[a].resume # NoOne
          /\ reply[c].next <= Len(log)
          /\ \A i \in reply[c].seqs : i <= reply[c].next
          /\ \A p \in Ids : joined[a].resume = p => Brings(a, c, p)
      BY <1>3 DEF Fits
    <2>2. /\ reply[c].next \in Nat /\ Len(log) \in Nat /\ Len(log') \in Nat
          /\ reply[c].next <= Len(log')
      <3>1. Len(log') \in Nat
        BY LenProperties DEF TypeOK
      <3> QED
        BY <1>3, <2>1, <3>1, WireTyped, AgentTyped DEF Grown
    <2>3. ASSUME NEW p \in Ids, joined[a].resume = p
          PROVE  Brings(a, c, p)'
      <3>1. Brings(a, c, p)
        BY <2>1, <2>3
      <3>2. p \in Named
        BY <2>3 DEF Positions, Follows
      <3>3. \A i \in 1 .. reply[c].next : log'[i] = log[i]
        BY <2>1, <2>2 DEF Grown
      <3>4. p \in Known' => reply[c].next <= who'[p].through
        <4>1. who[p].through \in Nat /\ who'[p].through \in Nat
          BY WhoTyped DEF TypeOK, Participants
        <4> QED
          BY <2>2, <3>1, <3>2, <4>1 DEF Brings, Grown
      <3> QED
        BY <1>1, <3>1, <3>3, <3>4 DEF Brings
    <2> QED
      BY <1>1, <1>3, <2>1, <2>2, <2>3 DEF Fits
  <1>4. CASE reply[c].op \notin {"joined", "messages"}
    BY <1>4 DEF Fits
  <1> QED
    BY <1>2, <1>3, <1>4

\* The agents stay in touch when the host handles the request of c, if they do
\* over c itself and no participant moves to another connection.
LEMMA InTouchKept ==
    ASSUME TypeOK, TypeOK', Grown, UNCHANGED agentVars, Positions, InTouch,
           NEW c \in Conns, inbox'[c] = NoRequest,
           \A d \in Conns \ {c} :
               /\ inbox'[d] = inbox[d] /\ reply'[d] = reply[d]
               /\ JoinedOn(d)' \subseteq JoinedOn(d),
           ASSUME NEW a \in Agents, conn[a] = c
           PROVE  /\ \A p \in JoinedOn(c)' :
                        p = IF reply'[c].op = "joined" THEN reply'[c].resume
                            ELSE joined[a].resume
                  /\ Fits(a, c)'
    PROVE  InTouch'
  <1> SUFFICES ASSUME NEW a \in Agents, NEW d \in Conns, conn'[a] = d
               PROVE  Asked(a, d)' /\ Fits(a, d)'
    BY DEF InTouch
  <1>1. joined' = joined /\ conn' = conn
    BY DEF agentVars
  <1>2. CASE d = c
    <2>1. conn[a] = c
      BY <1>1, <1>2
    <2>2. Asked(a, c)'
      BY <1>1, <2>1 DEF Asked, NoRequest
    <2> QED
      BY <1>2, <2>1, <2>2
  <1>3. CASE d # c
    <2>1. Asked(a, d) /\ Fits(a, d)
      BY <1>1 DEF InTouch
    <2>2. /\ inbox'[d] = inbox[d] /\ reply'[d] = reply[d]
          /\ JoinedOn(d)' \subseteq JoinedOn(d)
      BY <1>3
    <2>3. Fits(a, d)'
      BY <2>1, <2>2, FitsKept
    <2>4. Asked(a, d)'
      BY <1>1, <2>1, <2>2 DEF Asked
    <2> QED
      BY <2>3, <2>4
  <1> QED
    BY <1>2, <1>3

-----------------------------------------------------------------------------
(* The requests *)

\* The agent whose request the host handles still waits for the answer, and a
\* participant of the connection is its own.
LEMMA WhileServed ==
    ASSUME IndInv, NEW c \in Conns, NEW op \in {"join", "post", "read"},
           Served(c, op)
    PROVE  /\ inbox[c].op = op /\ inbox[c] # NoRequest
           /\ reply[c] = NoReply
           /\ link[c] \in {"open", "closing"}
           /\ \A p, q \in JoinedOn(c) : p = q
           /\ \A a \in Agents : conn[a] = c =>
                 /\ link[c] = "open"
                 /\ \A p \in JoinedOn(c) : joined[a].resume = p
                 /\ op = "join" => inbox[c].resume = joined[a].resume
                 /\ op = "read" => inbox[c].since = joined[a].next
  <1>1. /\ inbox[c].op = op /\ inbox[c] # NoRequest
        /\ link[c] \in {"open", "closing"}
    BY DEF Served, NoRequest
  <1>2. reply[c] = NoReply /\ reply[c].op = "none"
    BY <1>1 DEF IndInv, OneConversation, NoReply
  <1>3. ASSUME NEW p \in JoinedOn(c), NEW q \in JoinedOn(c)
        PROVE  p = q
    BY <1>3, ChannelConstants
    DEF IndInv, PresenceConsistent, JoinedOn, Conns, NoOne
  <1>4. ASSUME NEW a \in Agents, conn[a] = c
        PROVE  /\ link[c] = "open"
               /\ \A p \in JoinedOn(c) : joined[a].resume = p
               /\ op = "join" => inbox[c].resume = joined[a].resume
               /\ op = "read" => inbox[c].since = joined[a].next
    <2>1. link[c] = "open"
      BY <1>1, <1>4, ChannelConstants DEF IndInv, OneConversation, Conns, NoOne
    <2>2. Asked(a, c)
      BY <1>4 DEF IndInv, InTouch
    <2> QED
      BY <1>1, <1>2, <2>1, <2>2 DEF Asked
  <1> QED
    BY <1>1, <1>2, <1>3, <1>4

\* What answering does to the connections.
LEMMA Answered ==
    ASSUME IndInv, NEW c \in Conns, NEW op \in {"join", "post", "read"},
           Served(c, op), NEW answer \in Replies, Answer(c, answer)
    PROVE  /\ UNCHANGED <<link, agentVars>>
           /\ inbox' \in [Conns -> Requests] /\ reply' \in [Conns -> Replies]
           /\ inbox'[c] = NoRequest
           /\ link[c] = "open" => reply'[c] = answer
           /\ \A d \in Conns \ {c} :
                 inbox'[d] = inbox[d] /\ reply'[d] = reply[d]
           /\ OneConversation'
  <1>1. inbox \in [Conns -> Requests] /\ reply \in [Conns -> Replies]
    BY DEF IndInv, PresenceConsistent, TypeOK
  <1>2. NoRequest \in Requests /\ NoReply \in Replies
    BY DEF Requests, Replies, NoRequest, NoReply
  <1>3. /\ inbox' = [inbox EXCEPT ![c] = NoRequest]
        /\ reply' = [reply EXCEPT ![c] =
                        IF link[c] = "open" THEN answer ELSE NoReply]
        /\ UNCHANGED <<link, agentVars>>
    BY DEF Answer
  <1>4. link[c] # "unused"
    BY DEF Served
  <1>5. \A d \in Conns : d # c => inbox'[d] = inbox[d] /\ reply'[d] = reply[d]
    BY <1>1, <1>3
  <1>6. inbox'[c] = NoRequest /\ (link[c] = "open" => reply'[c] = answer)
    BY <1>1, <1>3
  <1>7. OneConversation'
    <2>1. conn' = conn /\ link' = link
      BY <1>3 DEF agentVars
    <2> QED
      BY <1>4, <1>5, <1>6, <2>1 DEF IndInv, OneConversation
  <1> QED
    BY <1>1, <1>2, <1>3, <1>5, <1>6, <1>7

\* A request that changes nothing keeps the invariant.
LEMMA RefusedInv ==
    ASSUME IndInv, NEW c \in Conns, NEW op \in {"join", "post", "read"},
           Served(c, op), NEW answer \in {"refused", "denied"},
           Answer(c, [op |-> answer]), UNCHANGED hostVars
    PROVE  IndInv'
  <1> DEFINE r == [op |-> answer]
  <1>1. r \in Replies /\ r.op = answer
    BY DEF Replies
  <1> HIDE DEF r
  <1>2. Answer(c, r)
    BY DEF r
  <1>3. /\ UNCHANGED <<link, agentVars>>
        /\ inbox' \in [Conns -> Requests] /\ reply' \in [Conns -> Replies]
        /\ inbox'[c] = NoRequest
        /\ link[c] = "open" => reply'[c] = r
        /\ \A d \in Conns \ {c} :
              inbox'[d] = inbox[d] /\ reply'[d] = reply[d]
        /\ OneConversation'
    BY <1>1, <1>2, Answered
  <1>4. PresenceConsistent'
    BY <1>3
    DEF hostVars, agentVars, IndInv, PresenceConsistent, TypeOK, Known
  <1>5. Nicknamed' /\ KeptNamed'
    BY DEF hostVars, IndInv, Nicknamed, KeptNamed, Named, Known, Retained,
           LastSeq
  <1>6. Grown
    <2>1. Len(log) \in Nat /\ \A p \in Ids : who[p].through \in Nat
      BY LenProperties, WhoTyped DEF IndInv, PresenceConsistent, TypeOK
    <2> QED
      BY <2>1 DEF hostVars, Grown, Named, Known
  <1>7. TypeOK /\ TypeOK' /\ Positions /\ InTouch
    BY <1>4 DEF IndInv, PresenceConsistent
  <1>8. Positions'
    BY <1>3, <1>6, <1>7, PositionsKept
  <1>9. \A d \in Conns : JoinedOn(d)' = JoinedOn(d)
    BY DEF hostVars, JoinedOn, Known
  <1>10. InTouch'
    <2>1. ASSUME NEW a \in Agents, conn[a] = c
          PROVE  /\ \A p \in JoinedOn(c)' :
                       p = IF reply'[c].op = "joined" THEN reply'[c].resume
                           ELSE joined[a].resume
                 /\ Fits(a, c)'
      <3>1. reply'[c].op = answer
        BY <1>1, <1>3, <2>1, WhileServed
      <3> QED
        BY <1>9, <2>1, <3>1, WhileServed DEF Fits
    <2> QED
      BY <1>3, <1>6, <1>7, <1>9, <2>1, InTouchKept
  <1> QED
    BY <1>3, <1>4, <1>5, <1>8, <1>10 DEF IndInv

\* A position in the newest messages reads on, and what participant p has read
\* only grows.
LEMMA ReadInv ==
    ASSUME IndInv, NEW c \in Conns, NEW p \in Ids, Read(c, p)
    PROVE  IndInv'
  <1> DEFINE asked == inbox[c].since
             since == IF asked > LastSeq THEN 0 ELSE asked
             next == NextOf(p, since)
             lost == since + 1 .. first - 1
             r == [op |-> "messages", seqs |-> Taken(p, since),
                   next |-> next, lost |-> lost]
             through == ReadThrough(p, next)
  <1>1. /\ Served(c, "read")
        /\ p \in JoinedOn(c)
        /\ who' = [who EXCEPT ![p].through = through]
        /\ Answer(c, r)
        /\ UNCHANGED <<nick, departed, counts, log, first, revision>>
    BY DEF Read
  <1>2. /\ TypeOK /\ who \in [Ids -> Participants]
        /\ Len(log) \in Nat /\ first \in Nat
    BY LenProperties DEF IndInv, PresenceConsistent, TypeOK
  <1>3. asked \in Nat /\ since \in Nat /\ since <= Len(log)
    BY <1>1, <1>2, WireTyped DEF Served, LastSeq
  <1> HIDE DEF asked, since
  <1>4. /\ next \in 0 .. LastSeq
        /\ Taken(p, since) \in SUBSET Nat
        /\ \A i \in Taken(p, since) : i <= next
        /\ \A i \in 1 .. next : since < i /\ VisibleTo(log[i], p) =>
              i \in Taken(p, since) \union lost
    BY <1>2, <1>3, TakenThroughNext
  <1>5. lost \in SUBSET Nat
    BY <1>2, <1>3
  <1> HIDE DEF next, lost
  <1>6. /\ r \in Replies
        /\ r.op = "messages" /\ r.seqs = Taken(p, since)
        /\ r.next = next /\ r.lost = lost
    BY <1>2, <1>4, <1>5 DEF Replies, LastSeq
  <1>7. through \in Nat /\ who[p].through <= through /\ next <= through
    BY <1>2, <1>4, WhoTyped DEF ReadThrough, LastSeq
  <1> HIDE DEF r, through
  <1>8. /\ UNCHANGED <<link, agentVars>>
        /\ inbox' \in [Conns -> Requests] /\ reply' \in [Conns -> Replies]
        /\ inbox'[c] = NoRequest
        /\ link[c] = "open" => reply'[c] = r
        /\ \A d \in Conns \ {c} :
              inbox'[d] = inbox[d] /\ reply'[d] = reply[d]
        /\ OneConversation'
    BY <1>1, <1>6, Answered
  <1>9. /\ who' \in [Ids -> Participants]
        /\ who'[p].through = through
        /\ \A q \in Ids : /\ who'[q].known = who[q].known
                          /\ who'[q].connection = who[q].connection
                          /\ who'[q].left = who[q].left
                          /\ q # p => who'[q].through = who[q].through
    BY <1>1, <1>2, <1>7 DEF Participants
  <1>10. TypeOK'
    BY <1>1, <1>8, <1>9 DEF agentVars, IndInv, PresenceConsistent, TypeOK
  <1>11. Known' = Known /\ \A d \in Conns : JoinedOn(d)' = JoinedOn(d)
    BY <1>9 DEF Known, JoinedOn
  <1>12. PresenceConsistent'
    BY <1>1, <1>8, <1>9, <1>10, <1>11 DEF IndInv, PresenceConsistent, Known
  <1>13. Nicknamed' /\ KeptNamed'
    BY <1>1, <1>11 DEF IndInv, Nicknamed, KeptNamed, Named, Retained, LastSeq
  <1>14. Grown
    <2>1. \A q \in Ids : who[q].through <= who'[q].through
      BY <1>2, <1>7, <1>9, WhoTyped
    <2> QED
      BY <1>1, <1>2, <1>11, <2>1 DEF Grown, Named
  <1>15. Positions /\ InTouch /\ Positions'
    BY <1>2, <1>8, <1>10, <1>14, PositionsKept DEF IndInv
  <1>16. InTouch'
    <2>1. ASSUME NEW a \in Agents, conn[a] = c
          PROVE  /\ \A q \in JoinedOn(c)' :
                       q = IF reply'[c].op = "joined" THEN reply'[c].resume
                           ELSE joined[a].resume
                 /\ Fits(a, c)'
      <3>1. /\ link[c] = "open" /\ reply'[c] = r
            /\ \A q \in JoinedOn(c) : joined[a].resume = q
            /\ asked = joined[a].next
        BY <1>1, <1>8, <2>1, WhileServed DEF asked
      <3>2. joined[a].resume = p /\ since = joined[a].next
        BY <1>1, <1>2, <1>3, <1>15, <3>1 DEF Positions, since, LastSeq
      <3>3. Brings(a, c, p)'
        <4>1. joined' = joined /\ log' = log
          BY <1>1, <1>8 DEF agentVars
        <4> QED
          BY <1>4, <1>6, <1>7, <1>9, <3>1, <3>2, <4>1 DEF Brings, VisibleTo
      <3>4. Fits(a, c)'
        <4>1. joined'[a].resume = p /\ p # NoOne
          BY <1>8, <3>2, ChannelConstants DEF agentVars, Ids, NoOne
        <4>2. log' = log
          BY <1>1
        <4> QED
          BY <1>2, <1>4, <1>6, <3>1, <3>3, <4>1, <4>2 DEF Fits, LastSeq
      <3> QED
        BY <1>6, <1>11, <3>1, <3>4
    <2> QED
      BY <1>2, <1>8, <1>10, <1>11, <1>14, <1>15, <2>1, InTouchKept
  <1> QED
    BY <1>8, <1>12, <1>13, <1>15, <1>16 DEF IndInv

\* The channel's notices are messages of those it knows.
LEMMA NoticeTyped ==
    ASSUME NEW p \in Ids, NEW kind \in {"Joined", "Updated", "Moved"}
    PROVE  /\ Notice(kind, p) \in Seq(Message)
           /\ Len(Notice(kind, p)) = 1
           /\ Notice(kind, p)[1].from = p
           /\ Notice(kind, p)[1].to = NoOne
  <1>1. [kind |-> kind, from |-> p, to |-> NoOne] \in Message
    BY DEF Message
  <1> QED
    BY <1>1 DEF Notice

\* What two runs of messages have in common, their concatenation has too.
LEMMA JoinedRuns ==
    ASSUME NEW s \in Seq(Message), NEW t \in Seq(Message),
           NEW From, NEW To,
           \A i \in 1 .. Len(s) : s[i].from \in From /\ s[i].to \in To,
           \A i \in 1 .. Len(t) : t[i].from \in From /\ t[i].to \in To
    PROVE  /\ s \o t \in Seq(Message)
           /\ \A i \in 1 .. Len(s \o t) :
                 (s \o t)[i].from \in From /\ (s \o t)[i].to \in To
  <1>1. Len(s) \in Nat /\ Len(t) \in Nat
    BY LenProperties
  <1>2. /\ s \o t \in Seq(Message)
        /\ Len(s \o t) = Len(s) + Len(t)
        /\ \A i \in 1 .. Len(s) + Len(t) :
              (s \o t)[i] = IF i <= Len(s) THEN s[i] ELSE t[i - Len(s)]
    BY ConcatProperties
  <1>3. ASSUME NEW i \in 1 .. Len(s \o t)
        PROVE  (s \o t)[i].from \in From /\ (s \o t)[i].to \in To
    <2>1. CASE i <= Len(s)
      <3>1. i \in 1 .. Len(s) /\ (s \o t)[i] = s[i]
        BY <1>1, <1>2, <2>1
      <3> QED
        BY <3>1
    <2>2. CASE i > Len(s)
      <3>1. /\ i - Len(s) \in 1 .. Len(t)
            /\ (s \o t)[i] = t[i - Len(s)]
        BY <1>1, <1>2, <2>2
      <3> QED
        BY <3>1
    <2> QED
      BY <1>1, <1>2, <2>1, <2>2
  <1> QED
    BY <1>2, <1>3

\* Channel::relocate records a notice of the participant, or nothing.
LEMMA MovesTyped ==
    ASSUME NEW p \in Ids, NEW place
    PROVE  /\ Moves(p, place) \in Seq(Message)
           /\ \A i \in 1 .. Len(Moves(p, place)) :
                 /\ Moves(p, place)[i].from \in {p}
                 /\ Moves(p, place)[i].to \in {NoOne}
  <1>1. /\ Notice("Moved", p) \in Seq(Message) /\ Len(Notice("Moved", p)) = 1
        /\ Notice("Moved", p)[1].from = p /\ Notice("Moved", p)[1].to = NoOne
    BY NoticeTyped
  <1>2. CASE who[p].place = place
    <2>1. Moves(p, place) = <<>>
      BY <1>2 DEF Moves
    <2> QED
      BY <2>1, EmptySeq
  <1>3. CASE who[p].place # place
    <2>1. Moves(p, place) = Notice("Moved", p)
      BY <1>3 DEF Moves
    <2> QED
      BY <1>1, <2>1
  <1> QED
    BY <1>2, <1>3

\* Messages recorded of known participants, to known participants, keep the
\* names of the conversation, if nobody is forgotten.
LEMMA NamesKept ==
    ASSUME IndInv, NEW added \in Seq(Message), Record(added),
           Known \subseteq Known', Known' \subseteq Named',
           departed' = departed, Named \subseteq Named',
           \A i \in 1 .. Len(added) :
               added[i].from \in Known' /\ added[i].to \in Known' \union {NoOne}
    PROVE  /\ KeptNamed'
           /\ Known' \union departed' \subseteq Named'
           /\ \A i \in 1 .. Len(log') : /\ log'[i].from \in Named'
                                        /\ log'[i].to \in Named' \union {NoOne}
  <1>1. /\ log' \in Seq(Message)
        /\ first' \in 1 .. Len(log') + 1
        /\ first <= first'
        /\ Len(added) \in Nat
        /\ Len(log') = Len(log) + Len(added)
        /\ \A i \in 1 .. Len(log) : log'[i] = log[i]
        /\ \A i \in 1 .. Len(log') :
              i > Len(log) => log'[i] = added[i - Len(log)]
    BY RecordExtends DEF IndInv, PresenceConsistent
  <1>2. Len(log) \in Nat /\ first \in 1 .. Len(log) + 1
    BY LenProperties DEF IndInv, PresenceConsistent, TypeOK
  <1>3. ASSUME NEW i \in 1 .. Len(log'), i > Len(log)
        PROVE  /\ log'[i].from \in Known'
               /\ log'[i].to \in Known' \union {NoOne}
    <2>1. i - Len(log) \in 1 .. Len(added) /\ log'[i] = added[i - Len(log)]
      BY <1>1, <1>2, <1>3
    <2> QED
      BY <2>1
  <1>4. ASSUME NEW i \in 1 .. Len(log), i >= first
        PROVE  /\ log'[i].from \in Known' \union departed'
               /\ log'[i].to \in Known' \union departed' \union {NoOne}
    <2>1. i \in Retained /\ log'[i] = log[i]
      BY <1>1, <1>2, <1>4 DEF Retained, LastSeq
    <2> QED
      BY <2>1 DEF IndInv, KeptNamed
  <1>5. KeptNamed'
    <2>1. ASSUME NEW i \in first' .. Len(log')
          PROVE  /\ log'[i].from \in Known' \union departed'
                 /\ log'[i].to \in Known' \union departed' \union {NoOne}
      BY <1>1, <1>2, <1>3, <1>4
    <2> QED
      BY <2>1 DEF KeptNamed, Retained, LastSeq
  <1>6. ASSUME NEW i \in 1 .. Len(log')
        PROVE  log'[i].from \in Named' /\ log'[i].to \in Named' \union {NoOne}
    <2>1. CASE i <= Len(log)
      <3>1. i \in 1 .. Len(log) /\ log'[i] = log[i]
        BY <1>1, <1>2, <2>1
      <3> QED
        BY <3>1 DEF IndInv, Nicknamed
    <2>2. CASE i > Len(log)
      BY <1>3, <2>2
    <2> QED
      BY <1>1, <1>2, <2>1, <2>2
  <1>7. Known' \union departed' \subseteq Named'
    BY DEF IndInv, Nicknamed
  <1> QED
    BY <1>5, <1>6, <1>7

\* What a known participant says, or the channel says of it, keeps all of the
\* invariant that does not depend on the connections.
LEMMA Says ==
    ASSUME IndInv, NEW c \in Conns, NEW op \in {"join", "post", "read"},
           Served(c, op), NEW answer \in Replies, Answer(c, answer),
           NEW p \in Known, NEW added \in Seq(Message), Record(added),
           \A i \in 1 .. Len(added) :
               added[i].from \in {p} /\ added[i].to \in Known \union {NoOne},
           who' \in [Ids -> Participants],
           \A q \in Ids : /\ who'[q].known = who[q].known
                          /\ who'[q].through = who[q].through,
           UNCHANGED <<nick, departed, counts, revision>>
    PROVE  /\ TypeOK' /\ Nicknamed' /\ KeptNamed' /\ OneConversation'
           /\ Positions' /\ Grown /\ Known' = Known
  <1>1. /\ UNCHANGED <<link, agentVars>>
        /\ inbox' \in [Conns -> Requests] /\ reply' \in [Conns -> Replies]
        /\ OneConversation'
    BY Answered
  <1>2. /\ log' \in Seq(Message)
        /\ first' \in 1 .. Len(log') + 1
        /\ Len(added) \in Nat
        /\ Len(log') = Len(log) + Len(added)
        /\ \A i \in 1 .. Len(log) : log'[i] = log[i]
    BY RecordExtends DEF IndInv, PresenceConsistent
  <1>3. TypeOK /\ Len(log) \in Nat /\ \A q \in Ids : who[q].through \in Nat
    BY LenProperties, WhoTyped DEF IndInv, PresenceConsistent, TypeOK
  <1>4. TypeOK'
    BY <1>1, <1>2, <1>3 DEF agentVars, TypeOK
  <1>5. Known' = Known /\ Named' = Named /\ Known \subseteq Named
    BY DEF Known, Named, IndInv, Nicknamed
  <1>6. Grown
    BY <1>2, <1>3, <1>5 DEF Grown, Known
  <1>7. Positions'
    BY <1>1, <1>3, <1>4, <1>6, PositionsKept DEF IndInv
  <1>8. /\ KeptNamed'
        /\ Known' \union departed' \subseteq Named'
        /\ \A i \in 1 .. Len(log') : /\ log'[i].from \in Named'
                                     /\ log'[i].to \in Named' \union {NoOne}
    BY <1>5, NamesKept
  <1>9. Nicknamed'
    BY <1>5, <1>8 DEF IndInv, Nicknamed
  <1> QED
    BY <1>1, <1>4, <1>5, <1>6, <1>7, <1>8, <1>9

\* A post keeps the invariant.
LEMMA PostInv ==
    ASSUME IndInv, NEW c \in Conns, NEW p \in Ids, Post(c, p)
    PROVE  IndInv'
  <1> DEFINE asked == inbox[c]
             direct == <<[kind |-> "Message", from |-> p, to |-> asked.to]>>
             added == Moves(p, asked.place) \o direct
             r == [op |-> "posted"]
  <1>1. /\ Served(c, "post")
        /\ p \in JoinedOn(c)
        /\ asked.to \in (Known \ {p}) \union {NoOne}
        /\ who' = [who EXCEPT ![p].place = asked.place]
        /\ Record(added)
        /\ Answer(c, r)
        /\ UNCHANGED <<nick, departed, counts, revision>>
    BY DEF Post
  <1>2. TypeOK /\ who \in [Ids -> Participants] /\ p \in Known
    BY <1>1 DEF IndInv, PresenceConsistent, TypeOK, JoinedOn
  <1>3. asked.place \in Places /\ asked.to \in Ids \union {NoOne}
    BY <1>1, <1>2, WireTyped DEF Served
  <1>4. /\ added \in Seq(Message)
        /\ \A i \in 1 .. Len(added) : /\ added[i].from \in {p}
                                      /\ added[i].to \in Known \union {NoOne}
    <2>1. /\ direct \in Seq(Message)
          /\ \A i \in 1 .. Len(direct) : /\ direct[i].from \in {p}
                                         /\ direct[i].to \in Known \union {NoOne}
      <3>1. [kind |-> "Message", from |-> p, to |-> asked.to] \in Message
        BY <1>3 DEF Message
      <3>2. asked.to \in Known \union {NoOne}
        BY <1>1
      <3> HIDE DEF asked
      <3> QED
        BY <3>1, <3>2
    <2>2. /\ Moves(p, asked.place) \in Seq(Message)
          /\ \A i \in 1 .. Len(Moves(p, asked.place)) :
                /\ Moves(p, asked.place)[i].from \in {p}
                /\ Moves(p, asked.place)[i].to \in Known \union {NoOne}
      BY MovesTyped
    <2> HIDE DEF direct, asked
    <2> QED
      BY <2>1, <2>2, JoinedRuns
  <1>5. r \in Replies /\ r.op = "posted"
    BY DEF Replies
  <1>6. /\ who' \in [Ids -> Participants]
        /\ \A q \in Ids : /\ who'[q].known = who[q].known
                          /\ who'[q].through = who[q].through
                          /\ who'[q].connection = who[q].connection
                          /\ who'[q].left = who[q].left
    BY <1>1, <1>2, <1>3 DEF Participants
  <1> HIDE DEF added, r
  <1>7. /\ TypeOK' /\ Nicknamed' /\ KeptNamed' /\ OneConversation'
        /\ Positions' /\ Grown /\ Known' = Known
    BY <1>1, <1>2, <1>4, <1>5, <1>6, Says
  <1>8. /\ UNCHANGED <<link, agentVars>>
        /\ inbox'[c] = NoRequest
        /\ link[c] = "open" => reply'[c] = r
        /\ \A d \in Conns \ {c} :
              inbox'[d] = inbox[d] /\ reply'[d] = reply[d]
    BY <1>1, <1>5, Answered
  <1>9. PresenceConsistent'
    BY <1>1, <1>6, <1>7, <1>8 DEF IndInv, PresenceConsistent, Known
  <1>10. \A d \in Conns : JoinedOn(d)' = JoinedOn(d)
    BY <1>6, <1>7 DEF JoinedOn, Known
  <1>11. InTouch'
    <2>1. ASSUME NEW a \in Agents, conn[a] = c
          PROVE  /\ \A q \in JoinedOn(c)' :
                       q = IF reply'[c].op = "joined" THEN reply'[c].resume
                           ELSE joined[a].resume
                 /\ Fits(a, c)'
      <3>1. /\ reply'[c].op = "posted"
            /\ \A q \in JoinedOn(c) : joined[a].resume = q
        BY <1>1, <1>5, <1>8, <2>1, WhileServed
      <3> QED
        BY <1>10, <3>1 DEF Fits
    <2>2. Positions /\ InTouch
      BY DEF IndInv
    <2> QED
      BY <1>2, <1>7, <1>8, <1>10, <2>1, <2>2, InTouchKept
  <1> QED
    BY <1>7, <1>9, <1>11 DEF IndInv

\* A join of a participant the channel knows keeps the invariant: it is the
\* agent's own, whatever connection it was on.
LEMMA RejoinInv ==
    ASSUME IndInv, NEW c \in Conns, NEW p \in Ids, Rejoin(c, p)
    PROVE  IndInv'
  <1> DEFINE asked == inbox[c]
             changed == \/ who[p].provider # asked.provider
                        \/ who[p].task # asked.task
             news == IF changed THEN Notice("Updated", p) ELSE <<>>
             added == news \o Moves(p, asked.place)
             r == [op |-> "joined", resume |-> p]
  <1>1. /\ Served(c, "join")
        /\ p \in Existing(c, asked.resume)
        /\ who' = [who EXCEPT ![p] = Returned(p, c)]
        /\ Record(added)
        /\ Answer(c, r)
        /\ UNCHANGED <<nick, departed, counts, revision>>
    BY DEF Rejoin
  <1>2. TypeOK /\ who \in [Ids -> Participants] /\ p \in Known
    BY <1>1 DEF IndInv, PresenceConsistent, TypeOK, JoinedOn, Existing
  <1>3. /\ asked.provider \in Providers /\ asked.task \in Tasks
        /\ asked.place \in Places
    BY <1>1, <1>2, WireTyped DEF Served
  <1>4. /\ added \in Seq(Message)
        /\ \A i \in 1 .. Len(added) : /\ added[i].from \in {p}
                                      /\ added[i].to \in Known \union {NoOne}
    <2>1. /\ news \in Seq(Message)
          /\ \A i \in 1 .. Len(news) : /\ news[i].from \in {p}
                                       /\ news[i].to \in Known \union {NoOne}
      <3>1. CASE changed
        <4>1. news = Notice("Updated", p)
          BY <3>1
        <4>2. /\ Notice("Updated", p) \in Seq(Message)
              /\ Len(Notice("Updated", p)) = 1
              /\ Notice("Updated", p)[1].from = p
              /\ Notice("Updated", p)[1].to = NoOne
          BY NoticeTyped
        <4> HIDE DEF news
        <4> QED
          BY <4>1, <4>2
      <3>2. CASE ~changed
        <4>1. news = <<>>
          BY <3>2
        <4> HIDE DEF news
        <4> QED
          BY <4>1, EmptySeq
      <3> QED
        BY <3>1, <3>2
    <2>2. /\ Moves(p, asked.place) \in Seq(Message)
          /\ \A i \in 1 .. Len(Moves(p, asked.place)) :
                /\ Moves(p, asked.place)[i].from \in {p}
                /\ Moves(p, asked.place)[i].to \in Known \union {NoOne}
      BY MovesTyped
    <2> HIDE DEF news, asked
    <2> QED
      BY <2>1, <2>2, JoinedRuns
  <1>5. r \in Replies /\ r.op = "joined" /\ r.resume = p
    BY DEF Replies
  <1>6. /\ Returned(p, c) \in Participants
        /\ Returned(p, c).known = who[p].known
        /\ Returned(p, c).through = who[p].through
        /\ Returned(p, c).connection = c
        /\ Returned(p, c).left = 0
    BY <1>2, <1>3, WhoTyped DEF Returned, Participants
  <1>7. /\ who' \in [Ids -> Participants]
        /\ \A q \in Ids : /\ who'[q].known = who[q].known
                          /\ who'[q].through = who[q].through
                          /\ q # p => who'[q] = who[q]
        /\ who'[p].connection = c /\ who'[p].left = 0
    BY <1>1, <1>2, <1>6
  <1> HIDE DEF added, r
  <1>8. /\ TypeOK' /\ Nicknamed' /\ KeptNamed' /\ OneConversation'
        /\ Positions' /\ Grown /\ Known' = Known
    BY <1>1, <1>2, <1>4, <1>5, <1>7, Says
  <1>9. /\ UNCHANGED <<link, agentVars>>
        /\ inbox'[c] = NoRequest
        /\ link[c] = "open" => reply'[c] = r
        /\ \A d \in Conns \ {c} :
              inbox'[d] = inbox[d] /\ reply'[d] = reply[d]
    BY <1>1, <1>5, Answered
  <1>10. /\ c # NoOne /\ link[c] \in {"open", "closing"}
         /\ JoinedOn(c) \subseteq {p}
    <2>1. link[c] \in {"open", "closing"} /\ \A q, s \in JoinedOn(c) : q = s
      BY <1>1, WhileServed
    <2>2. JoinedOn(c) # {} => p \in JoinedOn(c)
      BY <1>1 DEF Existing
    <2> QED
      BY <2>1, <2>2, ChannelConstants DEF Conns, NoOne
  <1>11. PresenceConsistent'
    <2>1. \A q \in Known \ {p} : who[q].connection # c
      BY <1>10 DEF JoinedOn
    <2>2. revision' = revision /\ revision \in Nat /\ link' = link
      BY <1>1, <1>9 DEF IndInv, PresenceConsistent, TypeOK
    <2>3. ASSUME NEW q \in Known'
          PROVE  /\ who'[q].connection = NoOne <=> who'[q].left # 0
                 /\ who'[q].connection # NoOne =>
                       link'[who'[q].connection] \in {"open", "closing"}
                 /\ who'[q].left <= revision'
                 /\ \A s \in Known' \ {q} :
                       /\ who'[q].connection = who'[s].connection =>
                             who'[q].connection = NoOne
                       /\ who'[q].left = who'[s].left => who'[q].left = 0
      <3>1. q \in Known /\ Known \subseteq Ids
        BY <1>8, <2>3 DEF Known
      <3>2. CASE q = p
        <4>1. \A s \in Known \ {p} : who'[s] = who[s]
          BY <1>7, <3>1
        <4> QED
          BY <1>7, <1>8, <1>10, <2>1, <2>2, <3>2, <4>1
      <3>3. CASE q # p
        <4>1. who'[q] = who[q] /\ who[q].connection # c
          BY <1>7, <2>1, <3>1, <3>3
        <4>2. \A s \in Known \ {q} :
                /\ who[q].connection = who[s].connection =>
                      who[q].connection = NoOne
                /\ who[q].left = who[s].left => who[q].left = 0
          BY <3>1 DEF IndInv, PresenceConsistent
        <4>3. \A s \in Known \ {q} : s = p \/ who'[s] = who[s]
          BY <1>7, <3>1
        <4>4. /\ who[q].connection = NoOne <=> who[q].left # 0
              /\ who[q].connection # NoOne =>
                    link[who[q].connection] \in {"open", "closing"}
              /\ who[q].left <= revision
          BY <3>1 DEF IndInv, PresenceConsistent
        <4> QED
          BY <1>7, <1>8, <2>2, <4>1, <4>2, <4>3, <4>4
      <3> QED
        BY <3>2, <3>3
    <2> QED
      BY <1>8, <2>3 DEF PresenceConsistent
  <1>12. /\ JoinedOn(c)' \subseteq {p}
         /\ \A d \in Conns \ {c} : JoinedOn(d)' \subseteq JoinedOn(d)
    <2>1. ASSUME NEW d \in Conns, NEW q \in JoinedOn(d)'
          PROVE  (q = p /\ d = c) \/ (q # p /\ q \in JoinedOn(d))
      <3>1. q \in Known /\ q \in Ids /\ who'[q].connection = d
        BY <1>8, <2>1 DEF JoinedOn, Known
      <3> QED
        BY <1>7, <3>1 DEF JoinedOn
    <2> QED
      BY <1>10, <2>1
  <1>13. Positions /\ InTouch
    BY DEF IndInv
  <1>14. InTouch'
    <2>1. ASSUME NEW a \in Agents, conn[a] = c
          PROVE  /\ \A q \in JoinedOn(c)' :
                       q = IF reply'[c].op = "joined" THEN reply'[c].resume
                           ELSE joined[a].resume
                 /\ Fits(a, c)'
      <3>1. /\ reply'[c].op = "joined" /\ reply'[c].resume = p
            /\ \A q \in JoinedOn(c) : joined[a].resume = q
            /\ asked.resume = joined[a].resume
        BY <1>1, <1>5, <1>9, <2>1, WhileServed
      <3>2. joined[a].resume = p
        BY <1>1, <3>1 DEF Existing
      <3>3. Follows(a, p)'
        BY <1>2, <1>8, <1>9, <1>13, <3>2, FollowsKept DEF Positions
      <3> QED
        BY <1>12, <3>1, <3>3 DEF Fits
    <2> QED
      BY <1>2, <1>8, <1>9, <1>12, <1>13, <2>1, InTouchKept
  <1> QED
    BY <1>8, <1>11, <1>14 DEF IndInv

\* Nobody is a participant the channel does not know.
LEMMA NobodyTyped ==
    Nobody \in Participants /\ Nobody.known = FALSE
  <1>1. /\ (CHOOSE v \in Providers : TRUE) \in Providers
        /\ (CHOOSE v \in Tasks : TRUE) \in Tasks
        /\ (CHOOSE v \in Places : TRUE) \in Places
    BY ChannelConstants
  <1> QED
    BY <1>1 DEF Nobody, Participants

\* A join of a newcomer keeps the invariant, though a departed participant may
\* give way to it.
LEMMA JoinNewInv ==
    ASSUME IndInv, NEW c \in Conns, NEW p \in Ids, JoinNew(c, p)
    PROVE  IndInv'
  <1> DEFINE asked == inbox[c]
             added == Notice("Joined", p)
             r == [op |-> "joined", resume |-> p]
             New == [known |-> TRUE, connection |-> c, left |-> 0,
                     provider |-> asked.provider, task |-> asked.task,
                     place |-> asked.place, through |-> LastSeq]
  <1>1. /\ Served(c, "join")
        /\ Existing(c, asked.resume) = {}
        /\ \A q \in Ids : q < p <=> nick[q][2] # 0
        /\ who' = [q \in Ids |-> IF q = p THEN New
                                 ELSE IF q \in Evicted THEN Nobody ELSE who[q]]
        /\ departed' = DepartedAfter(Evicted)
        /\ counts' = [counts EXCEPT ![asked.provider] = counts[asked.provider] + 1]
        /\ nick' = [nick EXCEPT ![p] = NextNick(asked.provider)]
        /\ Record(added)
        /\ Answer(c, r)
        /\ UNCHANGED revision
    BY DEF JoinNew
  <1>2. /\ TypeOK /\ who \in [Ids -> Participants]
        /\ nick \in [Ids -> Nicks] /\ counts \in [Providers -> Nat]
        /\ departed \subseteq Ids /\ revision \in Nat
        /\ Len(log) \in Nat /\ first \in 1 .. Len(log) + 1
    BY LenProperties DEF IndInv, PresenceConsistent, TypeOK
  <1>3. /\ asked.provider \in Providers /\ asked.task \in Tasks
        /\ asked.place \in Places
    BY <1>1, <1>2, WireTyped DEF Served
  <1>4. /\ added \in Seq(Message) /\ Len(added) = 1
        /\ added[1].from = p /\ added[1].to = NoOne
    BY NoticeTyped
  <1>5. r \in Replies /\ r.op = "joined" /\ r.resume = p
    BY DEF Replies
  <1>6. /\ New \in Participants /\ New.known = TRUE /\ New.connection = c
        /\ New.left = 0 /\ New.through = Len(log)
    BY <1>2, <1>3 DEF Participants, LastSeq
  <1> HIDE DEF added, r, New
  <1>7. /\ p \notin Named /\ p \notin Known
        /\ JoinedOn(c) = {}
        /\ Evicted \subseteq Known
    <2>1. p \notin Named
      <3>1. ~(p < p)
        BY ChannelConstants DEF Ids
      <3> QED
        BY <1>1, <3>1 DEF Named
    <2>2. p \notin Known
      BY <2>1 DEF IndInv, Nicknamed
    <2>3. JoinedOn(c) = {}
      BY <1>1 DEF Existing
    <2>4. Evicted \subseteq Known
      BY DEF Evicted
    <2> QED
      BY <2>1, <2>2, <2>3, <2>4
  <1>8. /\ who' \in [Ids -> Participants]
        /\ who'[p] = New
        /\ \A q \in Ids : q # p /\ q \in Evicted => who'[q] = Nobody
        /\ \A q \in Ids : q # p /\ q \notin Evicted => who'[q] = who[q]
    BY <1>1, <1>2, <1>6, NobodyTyped
  <1>9. Known' = (Known \ Evicted) \union {p}
    <2>1. \A q \in Ids : who'[q].known <=> q = p \/ (q \in Known /\ q \notin Evicted)
      BY <1>6, <1>7, <1>8, NobodyTyped DEF Known
    <2> QED
      BY <2>1 DEF Known
  <1>10. /\ UNCHANGED <<link, agentVars>>
         /\ inbox' \in [Conns -> Requests] /\ reply' \in [Conns -> Replies]
         /\ inbox'[c] = NoRequest
         /\ link[c] = "open" => reply'[c] = r
         /\ \A d \in Conns \ {c} :
               inbox'[d] = inbox[d] /\ reply'[d] = reply[d]
         /\ OneConversation'
    BY <1>1, <1>5, Answered
  <1>11. /\ log' \in Seq(Message)
         /\ first' \in 1 .. Len(log') + 1
         /\ first <= first'
         /\ Len(log') = Len(log) + 1
         /\ \A i \in 1 .. Len(log) : log'[i] = log[i]
         /\ log'[Len(log) + 1] = added[1]
    <2>1. /\ log' \in Seq(Message)
          /\ first' \in 1 .. Len(log') + 1
          /\ first <= first'
          /\ Len(log') = Len(log) + Len(added)
          /\ \A i \in 1 .. Len(log) : log'[i] = log[i]
          /\ \A i \in 1 .. Len(log') :
                i > Len(log) => log'[i] = added[i - Len(log)]
      BY <1>1, <1>2, <1>4, RecordExtends
    <2>2. Len(log) + 1 \in 1 .. Len(log') /\ (Len(log) + 1) - Len(log) = 1
      BY <1>2, <1>4, <2>1
    <2> QED
      BY <1>2, <1>4, <2>1, <2>2
  <1>12. /\ departed' \subseteq departed \union Evicted
         /\ Evicted \subseteq Ids
         /\ \A q \in departed \union Evicted :
               q \in Names(log, Retained) => q \in departed'
    BY <1>1, <1>7 DEF DepartedAfter, Known
  <1>13. /\ nick' \in [Ids -> Nicks]
         /\ nick'[p][1] = asked.provider
         /\ nick'[p][2] = counts[asked.provider] + 1
         /\ \A q \in Ids : q # p => nick'[q] = nick[q]
         /\ counts' \in [Providers -> Nat]
         /\ \A v \in Providers :
               counts'[v] = IF v = asked.provider THEN counts[v] + 1 ELSE counts[v]
    <2>1. /\ NextNick(asked.provider) \in Nicks
          /\ NextNick(asked.provider)[1] = asked.provider
          /\ NextNick(asked.provider)[2] = counts[asked.provider] + 1
      BY <1>2, <1>3 DEF NextNick, Nicks
    <2> HIDE DEF asked
    <2>2. nick' \in [Ids -> Nicks] /\ nick'[p] = NextNick(asked.provider)
          /\ \A q \in Ids : q # p => nick'[q] = nick[q]
      BY <1>1, <1>2, <2>1
    <2>3. /\ counts' \in [Providers -> Nat]
          /\ \A v \in Providers :
               counts'[v] = IF v = asked.provider THEN counts[v] + 1 ELSE counts[v]
      BY <1>1, <1>2, <1>3
    <2> QED
      BY <2>1, <2>2, <2>3
  <1>14. TypeOK'
    BY <1>1, <1>2, <1>8, <1>10, <1>11, <1>12, <1>13 DEF agentVars, TypeOK
  <1>15. Named' = Named \union {p}
    <2>1. counts[asked.provider] + 1 # 0
      BY <1>2, <1>3
    <2>2. \A q \in Ids : nick'[q][2] # 0 <=> q = p \/ nick[q][2] # 0
      BY <1>13, <2>1
    <2> QED
      BY <2>2 DEF Named
  <1>16. Nicknamed'
    <2>1. Known' \union departed' \subseteq Named'
      BY <1>7, <1>9, <1>12, <1>15 DEF IndInv, Nicknamed
    <2>2. ASSUME NEW i \in 1 .. Len(log')
          PROVE  /\ log'[i].from \in Named'
                 /\ log'[i].to \in Named' \union {NoOne}
      <3>1. CASE i <= Len(log)
        <4>1. i \in 1 .. Len(log) /\ log'[i] = log[i]
          BY <1>2, <1>11, <3>1
        <4> QED
          BY <1>15, <4>1 DEF IndInv, Nicknamed
      <3>2. CASE i = Len(log) + 1
        BY <1>4, <1>11, <1>15, <3>2
      <3> QED
        BY <1>2, <1>11, <3>1, <3>2
    <2>3. \A q \in Ids : nick'[q][2] <= counts'[nick'[q][1]]
      <3> TAKE q \in Ids
      <3>1. CASE q = p
        BY <1>2, <1>3, <1>13, <3>1
      <3>2. CASE q # p
        <4>1. /\ nick'[q] = nick[q] /\ nick[q][1] \in Providers
              /\ nick[q][2] \in Nat /\ counts[nick[q][1]] \in Nat
              /\ nick[q][2] <= counts[nick[q][1]]
          BY <1>2, <1>13, <3>2, WhoTyped DEF IndInv, Nicknamed
        <4>2. counts[nick[q][1]] <= counts'[nick[q][1]]
              /\ counts'[nick[q][1]] \in Nat
          BY <1>13, <4>1
        <4> QED
          BY <4>1, <4>2
      <3> QED
        BY <3>1, <3>2
    <2>4. ASSUME NEW q \in Named', NEW s \in Named', nick'[q] = nick'[s]
          PROVE  q = s
      <3>1. ASSUME NEW t \in Named, nick'[t] = nick'[p]
            PROVE  FALSE
        <4>1. t \in Ids /\ t # p
          BY <1>7 DEF Named
        <4>2. /\ nick[t][1] = asked.provider
              /\ nick[t][2] = counts[asked.provider] + 1
          BY <1>13, <3>1, <4>1
        <4>3. nick[t][2] <= counts[nick[t][1]]
          BY <4>1 DEF IndInv, Nicknamed
        <4>4. counts[asked.provider] \in Nat
          BY <1>2, <1>3
        <4> QED
          BY <4>2, <4>3, <4>4
      <3>2. CASE q \in Named /\ s \in Named
        <4>1. nick[q] = nick[s]
          BY <1>7, <1>13, <2>4, <3>2 DEF Named
        <4> QED
          BY <3>2, <4>1 DEF IndInv, Nicknamed
      <3> QED
        BY <1>15, <2>4, <3>1, <3>2
    <2> QED
      BY <2>1, <2>2, <2>3, <2>4 DEF Nicknamed
  <1>17. KeptNamed'
    <2>1. ASSUME NEW i \in first' .. Len(log')
          PROVE  /\ log'[i].from \in Known' \union departed'
                 /\ log'[i].to \in Known' \union departed' \union {NoOne}
      <3>1. CASE i <= Len(log)
        <4>1. i \in Retained /\ log'[i] = log[i]
          BY <1>2, <1>11, <3>1 DEF Retained, LastSeq
        <4>2. /\ log[i].from \in Known \union departed
              /\ log[i].to \in Known \union departed \union {NoOne}
          BY <4>1 DEF IndInv, KeptNamed
        <4>3. /\ log[i].from \in Names(log, Retained)
              /\ log[i].to \in Names(log, Retained)
          BY <4>1 DEF Names
        <4> QED
          BY <1>9, <1>12, <4>1, <4>2, <4>3
      <3>2. CASE i = Len(log) + 1
        BY <1>4, <1>9, <1>11, <3>2
      <3> QED
        BY <1>2, <1>11, <3>1, <3>2
    <2> QED
      BY <2>1 DEF KeptNamed, Retained, LastSeq
  <1>18. Grown
    <2>1. ASSUME NEW q \in Named, q \in Known'
          PROVE  q \in Known /\ who[q].through <= who'[q].through
      <3>1. q \in Known /\ q # p /\ q \notin Evicted /\ q \in Ids
        BY <1>7, <1>9, <2>1 DEF Named
      <3> QED
        BY <1>2, <1>8, <3>1, WhoTyped
    <2> QED
      BY <1>2, <1>11, <1>15, <2>1 DEF Grown
  <1>19. Positions /\ InTouch /\ Positions'
    BY <1>2, <1>10, <1>14, <1>18, PositionsKept DEF IndInv
  <1>20. c # NoOne /\ link[c] \in {"open", "closing"}
    BY <1>1, ChannelConstants DEF Served, Conns, NoOne
  <1>21. PresenceConsistent'
    <2>1. ASSUME NEW q \in Known'
          PROVE  /\ who'[q].connection = NoOne <=> who'[q].left # 0
                 /\ who'[q].connection # NoOne =>
                       link'[who'[q].connection] \in {"open", "closing"}
                 /\ who'[q].left <= revision'
                 /\ \A s \in Known' \ {q} :
                       /\ who'[q].connection = who'[s].connection =>
                             who'[q].connection = NoOne
                       /\ who'[q].left = who'[s].left => who'[q].left = 0
      <3>1. \A s \in Known' \ {p} :
              s \in Known /\ who'[s] = who[s] /\ who[s].connection # c
        BY <1>7, <1>8, <1>9 DEF JoinedOn, Known
      <3>2. revision' = revision /\ link' = link
        BY <1>1, <1>10
      <3>3. CASE q = p
        BY <1>2, <1>6, <1>8, <1>20, <3>1, <3>2, <3>3
      <3>4. CASE q # p
        <4>1. q \in Known /\ who'[q] = who[q] /\ who[q].connection # c
          BY <2>1, <3>1, <3>4
        <4>2. /\ who[q].connection = NoOne <=> who[q].left # 0
              /\ who[q].connection # NoOne =>
                    link[who[q].connection] \in {"open", "closing"}
              /\ who[q].left <= revision
              /\ \A s \in Known \ {q} :
                    /\ who[q].connection = who[s].connection =>
                          who[q].connection = NoOne
                    /\ who[q].left = who[s].left => who[q].left = 0
          BY <4>1 DEF IndInv, PresenceConsistent
        <4>3. \A s \in Known' \ {q} : s = p \/ (s \in Known \ {q} /\ who'[s] = who[s])
          BY <3>1
        <4> QED
          BY <1>6, <1>8, <3>2, <4>1, <4>2, <4>3
      <3> QED
        BY <3>3, <3>4
    <2> QED
      BY <1>14, <2>1 DEF PresenceConsistent
  <1>22. /\ JoinedOn(c)' \subseteq {p}
         /\ \A d \in Conns \ {c} : JoinedOn(d)' \subseteq JoinedOn(d)
    <2>1. ASSUME NEW d \in Conns, NEW q \in JoinedOn(d)'
          PROVE  (q = p /\ d = c) \/ (q # p /\ q \in JoinedOn(d))
      <3>1. q \in Known' /\ q \in Ids /\ who'[q].connection = d
        BY <2>1 DEF JoinedOn, Known
      <3> QED
        BY <1>6, <1>8, <1>9, <3>1 DEF JoinedOn
    <2> QED
      BY <1>7, <2>1
  <1>23. InTouch'
    <2>1. ASSUME NEW a \in Agents, conn[a] = c
          PROVE  /\ \A q \in JoinedOn(c)' :
                       q = IF reply'[c].op = "joined" THEN reply'[c].resume
                           ELSE joined[a].resume
                 /\ Fits(a, c)'
      <3>1. /\ reply'[c].op = "joined" /\ reply'[c].resume = p
            /\ asked.resume = joined[a].resume
        BY <1>1, <1>5, <1>10, <2>1, WhileServed
      <3>2. joined' = joined /\ got' = got /\ told' = told
        BY <1>10 DEF agentVars
      <3>3. /\ joined[a].next \in Nat /\ joined[a].next <= Len(log)
            /\ got[a] \in SUBSET Nat /\ joined[a].resume \in Ids \union {NoOne}
            /\ \A i \in got[a] : i <= Len(log)
            /\ joined[a].resume = NoOne => joined[a].next = 0
        BY <1>2, <1>19, AgentTyped DEF Positions
      <3>4. ASSUME NEW i \in 1 .. joined[a].next, VisibleTo(log'[i], p)
            PROVE  i \in got[a] \union told[a]
        <4>1. i \in 1 .. Len(log) /\ log'[i] = log[i]
          BY <1>2, <1>11, <3>3
        <4>2. log[i].from # p /\ log[i].to # p
          BY <1>7, <4>1, ChannelConstants
          DEF IndInv, Nicknamed, Ids, NoOne
        <4>3. PICK s \in Ids : joined[a].resume = s
          BY <1>2, <3>3
        <4>4. VisibleTo(log[i], s)
          BY <3>4, <4>1, <4>2 DEF VisibleTo
        <4> QED
          BY <1>19, <4>3, <4>4 DEF Positions, Follows
      <3>5. Follows(a, p)'
        BY <1>6, <1>8, <1>15, <3>2, <3>3, <3>4 DEF Follows
      <3> QED
        BY <1>22, <3>1, <3>5 DEF Fits
    <2> QED
      BY <1>2, <1>10, <1>14, <1>18, <1>19, <1>22, <2>1, InTouchKept
  <1> QED
    BY <1>10, <1>16, <1>17, <1>19, <1>21, <1>23 DEF IndInv

-----------------------------------------------------------------------------
(* The connections *)

\* A connection that ends, by itself or revoked, keeps the invariant: whoever
\* was on it left after all who left before.
LEMMA DisconnectInv ==
    ASSUME IndInv, NEW c \in Conns, NEW revoked \in BOOLEAN,
           Disconnect(c, revoked)
    PROVE  IndInv'
  <1>1. /\ link[c] \in {"closing", "open"}
        /\ link' = [link EXCEPT ![c] = "gone"]
        /\ inbox' = [inbox EXCEPT ![c] = NoRequest]
        /\ revision' = revision + Cardinality(JoinedOn(c))
        /\ who' = [p \in Ids |->
              IF p \in JoinedOn(c)
              THEN [who[p] EXCEPT !.connection = NoOne, !.left = revision']
              ELSE who[p]]
        /\ UNCHANGED <<nick, departed, counts, log, first, reply, agentVars>>
    BY DEF Disconnect
  <1>2. /\ TypeOK /\ who \in [Ids -> Participants]
        /\ Len(log) \in Nat /\ revision \in Nat
        /\ link \in [Conns -> {"unused", "open", "closing", "gone"}]
        /\ inbox \in [Conns -> Requests]
    BY LenProperties DEF IndInv, PresenceConsistent, TypeOK
  <1>3. c # NoOne /\ c \in Nat
    BY ChannelConstants DEF Conns, NoOne
  <1>4. \A p, q \in JoinedOn(c) : p = q
    BY <1>3 DEF IndInv, PresenceConsistent, JoinedOn
  <1>5. /\ revision' \in Nat /\ revision <= revision'
        /\ JoinedOn(c) # {} => revision < revision'
    <2>1. revision' = revision + Cardinality(JoinedOn(c))
      BY <1>1
    <2>2. CASE JoinedOn(c) = {}
      <3>1. Cardinality(JoinedOn(c)) = 0
        BY <2>2, FS_EmptySet, Zenon
      <3> QED
        BY <1>2, <2>1, <2>2, <3>1
    <2>3. CASE JoinedOn(c) # {}
      <3>1. PICK p \in JoinedOn(c) : JoinedOn(c) = {p}
        BY <1>4, <2>3
      <3>2. Cardinality(JoinedOn(c)) = 1
        BY <3>1, FS_Singleton
      <3> QED
        BY <1>2, <2>1, <3>2
    <2> QED
      BY <2>2, <2>3
  <1>6. /\ who' \in [Ids -> Participants]
        /\ \A p \in Ids : /\ who'[p].known = who[p].known
                          /\ who'[p].through = who[p].through
        /\ \A p \in Ids : p \in JoinedOn(c) =>
              who'[p].connection = NoOne /\ who'[p].left = revision'
        /\ \A p \in Ids : p \notin JoinedOn(c) => who'[p] = who[p]
    BY <1>1, <1>2, <1>5, ZenonT(60) DEF Participants
  <1>7. Known' = Known /\ Named' = Named
    BY <1>1, <1>6 DEF Known, Named
  <1>8. /\ link' \in [Conns -> {"unused", "open", "closing", "gone"}]
        /\ inbox' \in [Conns -> Requests]
        /\ link'[c] = "gone" /\ inbox'[c] = NoRequest
        /\ \A d \in Conns \ {c} : link'[d] = link[d] /\ inbox'[d] = inbox[d]
        /\ reply' = reply
    <2>1. NoRequest \in Requests
      BY DEF Requests, NoRequest
    <2> QED
      BY <1>1, <1>2, <2>1
  <1>9. TypeOK'
    BY <1>1, <1>2, <1>5, <1>6, <1>8 DEF agentVars, TypeOK
  <1>10. PresenceConsistent'
    <2>1. ASSUME NEW q \in Known'
          PROVE  /\ who'[q].connection = NoOne <=> who'[q].left # 0
                 /\ who'[q].connection # NoOne =>
                       link'[who'[q].connection] \in {"open", "closing"}
                 /\ who'[q].left <= revision'
                 /\ \A s \in Known' \ {q} :
                       /\ who'[q].connection = who'[s].connection =>
                             who'[q].connection = NoOne
                       /\ who'[q].left = who'[s].left => who'[q].left = 0
      <3>1. q \in Known /\ Known \subseteq Ids
        BY <1>7, <2>1 DEF Known
      <3>2. \A s \in Known : who[s].left \in Nat /\ who[s].left <= revision
        BY <1>2, <3>1, WhoTyped DEF IndInv, PresenceConsistent
      <3>3. CASE q \in JoinedOn(c)
        <4>1. \A s \in Known \ {q} :
                s \notin JoinedOn(c) /\ who'[s] = who[s]
          BY <1>4, <1>6, <3>1, <3>3
        <4>2. \A s \in Known \ {q} : who'[s].left < revision'
          BY <1>2, <1>5, <3>2, <3>3, <4>1
        <4>3. who'[q].connection = NoOne /\ who'[q].left = revision'
          BY <1>6, <3>1, <3>3
        <4>4. revision' # 0
          BY <1>2, <1>5, <3>3
        <4>5. \A s \in Known \ {q} : who'[s].left # revision'
          BY <1>2, <1>5, <3>2, <3>3, <4>1
        <4> QED
          BY <1>5, <1>7, <4>3, <4>4, <4>5
      <3>4. CASE q \notin JoinedOn(c)
        <4>1. who'[q] = who[q] /\ who[q].connection # c
          BY <1>6, <3>1, <3>4 DEF JoinedOn
        <4>2. /\ who[q].connection = NoOne <=> who[q].left # 0
              /\ who[q].connection # NoOne =>
                    link[who[q].connection] \in {"open", "closing"}
              /\ \A s \in Known \ {q} :
                    /\ who[q].connection = who[s].connection =>
                          who[q].connection = NoOne
                    /\ who[q].left = who[s].left => who[q].left = 0
          BY <3>1 DEF IndInv, PresenceConsistent
        <4>3. who[q].connection \in Conns \union {NoOne}
          BY <1>2, <3>1, WhoTyped
        <4>4. who'[q].connection # NoOne =>
                  link'[who'[q].connection] \in {"open", "closing"}
          BY <1>8, <4>1, <4>2, <4>3
        <4>5. who'[q].left <= revision'
          BY <1>2, <1>5, <3>1, <3>2, <4>1
        <4>6. ASSUME NEW s \in Known \ {q}
              PROVE  /\ who'[q].connection = who'[s].connection =>
                            who'[q].connection = NoOne
                     /\ who'[q].left = who'[s].left => who'[q].left = 0
          <5>1. CASE s \in JoinedOn(c)
            <6>1. who'[s].connection = NoOne /\ who'[s].left = revision'
              BY <1>6, <3>1, <5>1
            <6>2. who[q].left < revision' /\ who[q].left \in Nat
              BY <1>2, <1>5, <3>1, <3>2, <5>1
            <6> QED
              BY <1>5, <4>1, <6>1, <6>2
          <5>2. CASE s \notin JoinedOn(c)
            BY <1>6, <3>1, <4>1, <4>2, <5>2
          <5> QED
            BY <5>1, <5>2
        <4> QED
          BY <1>7, <4>1, <4>2, <4>4, <4>5, <4>6
      <3> QED
        BY <3>3, <3>4
    <2> QED
      BY <1>9, <2>1 DEF PresenceConsistent
  <1>11. Nicknamed' /\ KeptNamed'
    BY <1>1, <1>7 DEF IndInv, Nicknamed, KeptNamed, Retained, LastSeq
  <1>12. OneConversation'
    <2>1. conn' = conn
      BY <1>1 DEF agentVars
    <2>2. \A a \in Agents : conn[a] \in Conns \union {NoOne}
      BY <1>2, AgentTyped
    <2>3. \A a \in Agents : conn[a] # NoOne => link[conn[a]] \in {"open", "gone"}
      BY DEF IndInv, OneConversation
    <2>4. \A a \in Agents : conn'[a] # NoOne => link'[conn'[a]] \in {"open", "gone"}
      BY <1>8, <2>1, <2>2, <2>3
    <2>5. /\ \A d \in Conns : inbox'[d] # NoRequest => reply'[d] = NoReply
          /\ \A d \in Conns : link'[d] = "unused" =>
                inbox'[d] = NoRequest /\ reply'[d] = NoReply
      BY <1>8 DEF IndInv, OneConversation
    <2> QED
      BY <2>1, <2>4, <2>5 DEF IndInv, OneConversation
  <1>13. Grown
    <2>1. \A q \in Named : who'[q].through = who[q].through
                            /\ who[q].through \in Nat
      BY <1>2, <1>6, WhoTyped DEF Named
    <2>2. log' = log
      BY <1>1
    <2> QED
      BY <1>2, <1>7, <2>1, <2>2 DEF Grown
  <1>14. UNCHANGED agentVars
    BY <1>1
  <1>15. Positions /\ InTouch /\ Positions'
    BY <1>2, <1>9, <1>13, <1>14, PositionsKept DEF IndInv
  <1>16. /\ JoinedOn(c)' = {}
         /\ \A d \in Conns : JoinedOn(d)' \subseteq JoinedOn(d)
    <2>1. ASSUME NEW d \in Conns, NEW q \in JoinedOn(d)'
          PROVE  d # c /\ q \in JoinedOn(d)
      <3>1. q \in Known /\ q \in Ids /\ who'[q].connection = d /\ d # NoOne
        BY <1>7, <2>1, ChannelConstants DEF JoinedOn, Known, Conns, NoOne
      <3> QED
        BY <1>6, <3>1 DEF JoinedOn
    <2> QED
      BY <2>1
  <1>17. InTouch'
    <2>1. ASSUME NEW a \in Agents, conn[a] = c
          PROVE  /\ \A q \in JoinedOn(c)' :
                       q = IF reply'[c].op = "joined" THEN reply'[c].resume
                           ELSE joined[a].resume
                 /\ Fits(a, c)'
      <3>1. Fits(a, c)
        BY <2>1 DEF IndInv, InTouch
      <3> QED
        BY <1>2, <1>8, <1>9, <1>13, <1>14, <1>15, <1>16, <3>1, FitsKept
    <2> QED
      BY <1>2, <1>8, <1>9, <1>13, <1>14, <1>15, <1>16, <2>1, InTouchKept
  <1> QED
    BY <1>10, <1>11, <1>12, <1>15, <1>17 DEF IndInv

-----------------------------------------------------------------------------
(* The adapters *)

\* A step of an adapter keeps the host's part of the invariant.
LEMMA HostUntouched ==
    ASSUME IndInv, UNCHANGED hostVars,
           link' \in [Conns -> {"unused", "open", "closing", "gone"}],
           \A c \in Conns : link[c] \in {"open", "closing"} =>
                                link'[c] \in {"open", "closing"},
           inbox' \in [Conns -> Requests], reply' \in [Conns -> Replies],
           conn' \in [Agents -> Conns \union {NoOne}],
           joined' \in [Agents -> [resume : Ids \union {NoOne},
                                   connection : Conns \union {NoOne},
                                   next : Nat]],
           got' \in [Agents -> SUBSET Nat], told' \in [Agents -> SUBSET Nat]
    PROVE  /\ PresenceConsistent' /\ Nicknamed' /\ KeptNamed'
           /\ Named' = Named /\ Known' = Known
           /\ \A d \in Conns : JoinedOn(d)' = JoinedOn(d)
  <1>1. Known' = Known /\ Named' = Named
    BY DEF hostVars, Known, Named
  <1>2. \A d \in Conns : JoinedOn(d)' = JoinedOn(d)
    BY <1>1 DEF hostVars, JoinedOn
  <1>3. Nicknamed' /\ KeptNamed'
    BY <1>1 DEF hostVars, IndInv, Nicknamed, KeptNamed, Retained, LastSeq
  <1>4. TypeOK'
    BY DEF hostVars, IndInv, PresenceConsistent, TypeOK
  <1>5. \A p \in Known : who[p].connection \in Conns \union {NoOne}
    BY WhoTyped DEF IndInv, PresenceConsistent, Known
  <1>6. who' = who /\ revision' = revision
    BY DEF hostVars
  <1>7. \A p \in Known : who[p].connection # NoOne =>
            link'[who[p].connection] \in {"open", "closing"}
    BY <1>5 DEF IndInv, PresenceConsistent
  <1>8. PresenceConsistent'
    BY <1>1, <1>4, <1>6, <1>7 DEF IndInv, PresenceConsistent
  <1> QED
    BY <1>1, <1>2, <1>3, <1>8

\* A request on an idle connection keeps the invariant, if it is for the
\* position of the agent.
LEMMA AskInv ==
    ASSUME IndInv, NEW a \in Agents, NEW request \in Requests, Ask(a, request),
           request.op \in {"join", "post", "read"},
           request.op = "join" => request.resume = joined[a].resume,
           request.op = "read" => request.since = joined[a].next
    PROVE  IndInv'
  <1>1. PICK c \in Conns : c = conn[a]
    BY AgentTyped DEF Ask, Idle, IndInv, PresenceConsistent
  <1>2. /\ link[c] = "open" /\ inbox[c] = NoRequest /\ reply[c] = NoReply
        /\ inbox' = [inbox EXCEPT ![c] = request]
        /\ UNCHANGED <<hostVars, link, reply, agentVars>>
    BY <1>1 DEF Ask, Idle
  <1>3. TypeOK
    BY DEF IndInv, PresenceConsistent
  <1>4. /\ inbox' \in [Conns -> Requests]
        /\ inbox'[c] = request
        /\ \A d \in Conns \ {c} : inbox'[d] = inbox[d]
    BY <1>2, <1>3 DEF TypeOK
  <1>5. conn' = conn /\ joined' = joined /\ got' = got /\ told' = told
    BY <1>2 DEF agentVars
  <1>6. link' = link /\ reply' = reply /\ UNCHANGED hostVars
    BY <1>2
  <1>7. /\ PresenceConsistent' /\ Nicknamed' /\ KeptNamed'
        /\ Named' = Named /\ Known' = Known
        /\ \A d \in Conns : JoinedOn(d)' = JoinedOn(d)
    BY <1>3, <1>4, <1>5, <1>6, HostUntouched DEF TypeOK
  <1>8. OneConversation'
    BY <1>2, <1>4, <1>5, <1>6 DEF IndInv, OneConversation
  <1>9. log' = log /\ who' = who
    BY <1>6 DEF hostVars
  <1>10. \A b \in Agents, p \in Ids : Follows(b, p) => Follows(b, p)'
    BY <1>5, <1>7, <1>9 DEF Follows
  <1>11. Positions'
    BY <1>5, <1>9, <1>10 DEF IndInv, Positions
  <1>12. InTouch'
    <2>1. ASSUME NEW b \in Agents, NEW d \in Conns, conn'[b] = d
          PROVE  Asked(b, d)' /\ Fits(b, d)'
      <3>1. Asked(b, d) /\ Fits(b, d)
        BY <1>5, <2>1 DEF IndInv, InTouch
      <3>2. \A p \in Ids : Brings(b, d, p) => Brings(b, d, p)'
        BY <1>5, <1>6, <1>7, <1>9 DEF Brings
      <3>3. Fits(b, d)'
        BY <1>5, <1>6, <1>9, <1>10, <3>1, <3>2 DEF Fits
      <3>4. Asked(b, d)'
        <4>1. CASE d = c
          <5>1. b = a
            BY <1>1, <1>5, <2>1, <4>1, ChannelConstants
            DEF IndInv, OneConversation, Conns, NoOne
          <5> QED
            BY <1>2, <1>4, <1>5, <1>6, <1>7, <3>1, <4>1, <5>1 DEF Asked
        <4>2. CASE d # c
          BY <1>4, <1>5, <1>6, <1>7, <3>1, <4>2 DEF Asked
        <4> QED
          BY <4>1, <4>2
      <3> QED
        BY <3>3, <3>4
    <2> QED
      BY <2>1 DEF InTouch
  <1> QED
    BY <1>7, <1>8, <1>11, <1>12 DEF IndInv

\* Every call of an agent keeps the invariant.
LEMMA CallInv ==
    ASSUME IndInv, NEW a \in Agents,
           \/ \E v \in Providers, k \in Tasks, l \in Places : CallJoin(a, v, k, l)
           \/ \E to \in Ids \union {NoOne}, l \in Places : CallPost(a, to, l)
           \/ CallRead(a)
    PROVE  IndInv'
  <1>1. /\ joined[a].resume \in Ids \union {NoOne}
        /\ joined[a].next \in Nat
    BY AgentTyped DEF IndInv, PresenceConsistent
  <1>2. ASSUME NEW v \in Providers, NEW k \in Tasks, NEW l \in Places,
               CallJoin(a, v, k, l)
        PROVE  IndInv'
    <2> DEFINE r == [op |-> "join", provider |-> v, task |-> k, place |-> l,
                     resume |-> joined[a].resume]
    <2>1. r \in Requests /\ r.op = "join" /\ r.resume = joined[a].resume
      BY <1>1 DEF Requests
    <2>2. Ask(a, r)
      BY <1>2 DEF CallJoin
    <2> HIDE DEF r
    <2> QED
      BY <2>1, <2>2, AskInv
  <1>3. ASSUME NEW to \in Ids \union {NoOne}, NEW l \in Places, CallPost(a, to, l)
        PROVE  IndInv'
    <2> DEFINE r == [op |-> "post", to |-> to, place |-> l]
    <2>1. r \in Requests /\ r.op = "post"
      BY DEF Requests
    <2>2. Ask(a, r)
      BY <1>3 DEF CallPost
    <2> HIDE DEF r
    <2> QED
      BY <2>1, <2>2, AskInv
  <1>4. CASE CallRead(a)
    <2> DEFINE r == [op |-> "read", since |-> joined[a].next]
    <2>1. r \in Requests /\ r.op = "read" /\ r.since = joined[a].next
      BY <1>1 DEF Requests
    <2>2. Ask(a, r)
      BY <1>4 DEF CallRead
    <2> HIDE DEF r
    <2> QED
      BY <2>1, <2>2, AskInv
  <1> QED
    BY <1>2, <1>3, <1>4

\* A new connection, which nobody was on, keeps the invariant.
LEMMA ConnectInv ==
    ASSUME IndInv, NEW a \in Agents, NEW c \in Conns, Connect(a, c)
    PROVE  IndInv'
  <1>1. /\ conn[a] = NoOne
        /\ \A d \in Conns : d < c <=> link[d] # "unused"
        /\ link' = [link EXCEPT ![c] = "open"]
        /\ conn' = [conn EXCEPT ![a] = c]
        /\ UNCHANGED <<hostVars, inbox, reply, joined, got, told>>
    BY DEF Connect
  <1>2. link[c] = "unused" /\ c # NoOne
    <2>1. ~(c < c) /\ c # NoOne
      BY ChannelConstants DEF Conns, NoOne
    <2> QED
      BY <1>1, <2>1
  <1>3. TypeOK
    BY DEF IndInv, PresenceConsistent
  <1>4. /\ link' \in [Conns -> {"unused", "open", "closing", "gone"}]
        /\ link'[c] = "open"
        /\ \A d \in Conns \ {c} : link'[d] = link[d]
    BY <1>1, <1>3 DEF TypeOK
  <1>5. /\ conn' \in [Agents -> Conns \union {NoOne}]
        /\ conn'[a] = c
        /\ \A b \in Agents \ {a} : conn'[b] = conn[b]
    BY <1>1, <1>3 DEF TypeOK
  <1>6. /\ inbox' = inbox /\ reply' = reply /\ joined' = joined
        /\ got' = got /\ told' = told /\ UNCHANGED hostVars
    BY <1>1
  <1>7. /\ PresenceConsistent' /\ Nicknamed' /\ KeptNamed'
        /\ Named' = Named /\ Known' = Known
        /\ \A d \in Conns : JoinedOn(d)' = JoinedOn(d)
    BY <1>3, <1>4, <1>5, <1>6, HostUntouched DEF TypeOK
  <1>8. \A b \in Agents \ {a} : conn[b] # c
    BY <1>2 DEF IndInv, OneConversation
  <1>9. OneConversation'
    <2>1. \A b \in Agents : conn[b] \in Conns \union {NoOne}
      BY <1>3, AgentTyped
    <2>2. \A b \in Agents : conn'[b] # NoOne => link'[conn'[b]] \in {"open", "gone"}
      BY <1>4, <1>5, <1>8, <2>1 DEF IndInv, OneConversation
    <2>3. \A b, d \in Agents : conn'[b] # NoOne /\ conn'[b] = conn'[d] => b = d
      BY <1>5, <1>8 DEF IndInv, OneConversation
    <2>4. /\ \A d \in Conns : inbox'[d] # NoRequest => reply'[d] = NoReply
          /\ \A d \in Conns : link'[d] = "unused" =>
                inbox'[d] = NoRequest /\ reply'[d] = NoReply
      BY <1>4, <1>6 DEF IndInv, OneConversation
    <2> QED
      BY <2>2, <2>3, <2>4 DEF OneConversation
  <1>10. log' = log /\ who' = who
    BY <1>6 DEF hostVars
  <1>11. \A b \in Agents, p \in Ids : Follows(b, p) => Follows(b, p)'
    BY <1>6, <1>7, <1>10 DEF Follows
  <1>12. Positions'
    BY <1>6, <1>10, <1>11 DEF IndInv, Positions
  <1>13. JoinedOn(c) = {}
    BY <1>2 DEF IndInv, PresenceConsistent, JoinedOn
  <1>14. InTouch'
    <2>1. ASSUME NEW b \in Agents, NEW d \in Conns, conn'[b] = d
          PROVE  Asked(b, d)' /\ Fits(b, d)'
      <3>1. CASE b = a
        <4>1. d = c /\ inbox'[c] = NoRequest /\ reply'[c] = NoReply
          BY <1>2, <1>5, <1>6, <2>1, <3>1 DEF IndInv, OneConversation
        <4> QED
          BY <1>7, <1>13, <4>1 DEF Asked, Fits, NoRequest, NoReply
      <3>2. CASE b # a
        <4>1. Asked(b, d) /\ Fits(b, d)
          BY <1>5, <2>1, <3>2 DEF IndInv, InTouch
        <4>2. \A p \in Ids : Brings(b, d, p) => Brings(b, d, p)'
          BY <1>6, <1>7, <1>10 DEF Brings
        <4>3. Fits(b, d)'
          BY <1>6, <1>10, <1>11, <4>1, <4>2 DEF Fits
        <4> QED
          BY <1>6, <1>7, <4>1, <4>3 DEF Asked
      <3> QED
        BY <3>1, <3>2
    <2> QED
      BY <2>1 DEF InTouch
  <1> QED
    BY <1>7, <1>9, <1>12, <1>14 DEF IndInv

\* An agent whose connection carries no answer any more keeps the invariant, if
\* it is at a position that fits and, unless it leaves the connection, is the
\* participant on it.
LEMMA MovesOnInv ==
    ASSUME IndInv, NEW a \in Agents, NEW c \in Conns, conn[a] = c,
           UNCHANGED <<hostVars, inbox>>,
           link' \in [Conns -> {"unused", "open", "closing", "gone"}],
           \/ link' = link
           \/ /\ link[c] = "open" /\ link'[c] = "closing" /\ conn'[a] = NoOne
              /\ \A d \in Conns \ {c} : link'[d] = link[d],
           reply' \in [Conns -> Replies], reply'[c] = NoReply,
           \A d \in Conns \ {c} : reply'[d] = reply[d],
           conn' \in [Agents -> Conns \union {NoOne}], conn'[a] \in {c, NoOne},
           \A b \in Agents \ {a} : conn'[b] = conn[b],
           joined' \in [Agents -> [resume : Ids \union {NoOne},
                                   connection : Conns \union {NoOne},
                                   next : Nat]],
           got' \in [Agents -> SUBSET Nat], told' \in [Agents -> SUBSET Nat],
           \A b \in Agents \ {a} :
               joined'[b] = joined[b] /\ got'[b] = got[b] /\ told'[b] = told[b],
           /\ joined'[a].next <= Len(log)
           /\ joined'[a].resume = NoOne => joined'[a].next = 0
           /\ \A i \in got'[a] : i <= Len(log)
           /\ \A p \in Ids : joined'[a].resume = p => Follows(a, p)',
           conn'[a] = c => /\ inbox[c] = NoRequest
                           /\ \A p \in JoinedOn(c) : p = joined'[a].resume
    PROVE  IndInv'
  <1>1. TypeOK /\ c # NoOne
    BY ChannelConstants DEF IndInv, PresenceConsistent, Conns, NoOne
  <1>2. inbox' = inbox /\ UNCHANGED hostVars
    OBVIOUS
  <1>3. inbox' \in [Conns -> Requests]
    BY <1>1, <1>2 DEF TypeOK
  <1>4. /\ PresenceConsistent' /\ Nicknamed' /\ KeptNamed'
        /\ Named' = Named /\ Known' = Known
        /\ \A d \in Conns : JoinedOn(d)' = JoinedOn(d)
    <2>1. \A d \in Conns : link[d] \in {"open", "closing"} =>
                               link'[d] \in {"open", "closing"}
      OBVIOUS
    <2> QED
      BY <1>2, <1>3, <2>1, HostUntouched
  <1>5. \A b \in Agents \ {a} : conn[b] # c
    BY <1>1 DEF IndInv, OneConversation
  <1>6. OneConversation'
    <2>1. \A b \in Agents : conn[b] \in Conns \union {NoOne}
      BY <1>1, AgentTyped
    <2>2. ASSUME NEW b \in Agents, conn'[b] # NoOne
          PROVE  link'[conn'[b]] \in {"open", "gone"} /\ conn'[b] = conn[b]
      <3>1. conn'[b] = conn[b]
        BY <2>2
      <3>2. link[conn[b]] \in {"open", "gone"}
        BY <2>2, <3>1 DEF IndInv, OneConversation
      <3>3. link' # link => conn[b] # c
        BY <1>1, <1>5, <2>2, <3>1
      <3> QED
        BY <2>1, <2>2, <3>1, <3>2, <3>3
    <2>3. \A b, d \in Agents : conn'[b] # NoOne /\ conn'[b] = conn'[d] => b = d
      BY <2>2 DEF IndInv, OneConversation
    <2>4. ASSUME NEW d \in Conns
          PROVE  /\ inbox'[d] # NoRequest => reply'[d] = NoReply
                 /\ link'[d] = "unused" =>
                       inbox'[d] = NoRequest /\ reply'[d] = NoReply
      <3>1. link'[d] = "unused" => link[d] = "unused"
        OBVIOUS
      <3>2. reply'[d] = NoReply \/ reply'[d] = reply[d]
        OBVIOUS
      <3> QED
        BY <1>2, <3>1, <3>2 DEF IndInv, OneConversation
    <2>5. \A b \in Agents : conn'[b] # NoOne => link'[conn'[b]] \in {"open", "gone"}
      BY <2>2
    <2> QED
      BY <2>3, <2>4, <2>5 DEF OneConversation
  <1>7. log' = log /\ who' = who
    BY <1>2 DEF hostVars
  <1>8. \A b \in Agents \ {a}, p \in Ids : Follows(b, p) => Follows(b, p)'
    BY <1>4, <1>7 DEF Follows
  <1>9. Positions'
    <2>1. ASSUME NEW b \in Agents
          PROVE  /\ joined'[b].next <= Len(log')
                 /\ joined'[b].resume = NoOne => joined'[b].next = 0
                 /\ \A i \in got'[b] : i <= Len(log')
                 /\ \A p \in Ids : joined'[b].resume = p => Follows(b, p)'
      <3>1. CASE b = a
        BY <1>7, <3>1
      <3>2. CASE b # a
        <4>1. joined'[b] = joined[b] /\ got'[b] = got[b]
          BY <3>2
        <4>2. /\ joined[b].next <= Len(log)
              /\ joined[b].resume = NoOne => joined[b].next = 0
              /\ \A i \in got[b] : i <= Len(log)
              /\ \A p \in Ids : joined[b].resume = p => Follows(b, p)
          BY DEF IndInv, Positions
        <4>3. \A p \in Ids : joined[b].resume = p => Follows(b, p)'
          BY <1>8, <3>2, <4>2
        <4> QED
          BY <1>7, <4>1, <4>2, <4>3
      <3> QED
        BY <3>1, <3>2
    <2> QED
      BY <2>1 DEF Positions
  <1>10. InTouch'
    <2>1. ASSUME NEW b \in Agents, NEW d \in Conns, conn'[b] = d
          PROVE  Asked(b, d)' /\ Fits(b, d)'
      <3>1. d # NoOne
        BY ChannelConstants DEF Conns, NoOne
      <3>2. CASE b = a
        <4>1. d = c /\ inbox'[c] = NoRequest
              /\ \A p \in JoinedOn(c)' : p = joined'[a].resume
          BY <1>2, <1>4, <2>1, <3>1, <3>2
        <4> QED
          BY <3>2, <4>1 DEF Asked, Fits, NoRequest, NoReply
      <3>3. CASE b # a
        <4>1. d # c /\ conn[b] = d
          BY <1>5, <2>1, <3>3
        <4>2. Asked(b, d) /\ Fits(b, d)
          BY <4>1 DEF IndInv, InTouch
        <4>3. joined'[b] = joined[b] /\ reply'[d] = reply[d]
          BY <3>3, <4>1
        <4>4. \A p \in Ids : Brings(b, d, p) => Brings(b, d, p)'
          BY <1>4, <1>7, <4>3 DEF Brings
        <4>5. Fits(b, d)'
          BY <1>7, <1>8, <3>3, <4>2, <4>3, <4>4 DEF Fits
        <4> QED
          BY <1>2, <1>4, <4>2, <4>3, <4>5 DEF Asked
      <3> QED
        BY <3>2, <3>3
    <2> QED
      BY <2>1 DEF InTouch
  <1> QED
    BY <1>4, <1>6, <1>9, <1>10 DEF IndInv

\* What Bridge::forget does to the connection of a.
LEMMA Forgotten ==
    ASSUME TypeOK, NEW a \in Agents, NEW c \in Conns, conn[a] = c, Forget(a)
    PROVE  /\ link' \in [Conns -> {"unused", "open", "closing", "gone"}]
           /\ \/ link' = link
              \/ /\ link[c] = "open" /\ link'[c] = "closing" /\ conn'[a] = NoOne
                 /\ \A d \in Conns \ {c} : link'[d] = link[d]
           /\ reply' \in [Conns -> Replies] /\ reply'[c] = NoReply
           /\ \A d \in Conns \ {c} : reply'[d] = reply[d]
           /\ conn' \in [Agents -> Conns \union {NoOne}] /\ conn'[a] = NoOne
           /\ \A b \in Agents \ {a} : conn'[b] = conn[b]
  <1>1. /\ conn' = [conn EXCEPT ![a] = NoOne]
        /\ link' = [link EXCEPT ![c] = IF link[c] = "open" THEN "closing"
                                       ELSE link[c]]
        /\ reply' = [reply EXCEPT ![c] = NoReply]
    BY DEF Forget
  <1>2. /\ conn \in [Agents -> Conns \union {NoOne}]
        /\ link \in [Conns -> {"unused", "open", "closing", "gone"}]
        /\ reply \in [Conns -> Replies] /\ NoReply \in Replies
    BY DEF TypeOK, Replies, NoReply
  <1>3. \/ link' = link
        \/ /\ link[c] = "open" /\ link'[c] = "closing"
           /\ \A d \in Conns \ {c} : link'[d] = link[d]
    <2>1. CASE link[c] = "open"
      BY <1>1, <1>2, <2>1
    <2>2. CASE link[c] # "open"
      BY <1>1, <1>2, <2>2
    <2> QED
      BY <2>1, <2>2
  <1>4. link' \in [Conns -> {"unused", "open", "closing", "gone"}]
    BY <1>1, <1>2
  <1> QED
    BY <1>1, <1>2, <1>3, <1>4

\* An agent that gives up keeps the invariant.
LEMMA GiveUpInv ==
    ASSUME IndInv, NEW a \in Agents, GiveUp(a)
    PROVE  IndInv'
  <1>1. TypeOK
    BY DEF IndInv, PresenceConsistent
  <1>2. PICK c \in Conns : c = conn[a]
    BY <1>1, AgentTyped DEF GiveUp
  <1>3. /\ Forget(a) /\ UNCHANGED <<hostVars, inbox>>
        /\ joined' = joined /\ got' = got /\ told' = told
    BY DEF GiveUp
  <1>4. /\ link' \in [Conns -> {"unused", "open", "closing", "gone"}]
        /\ \/ link' = link
           \/ /\ link[c] = "open" /\ link'[c] = "closing" /\ conn'[a] = NoOne
              /\ \A d \in Conns \ {c} : link'[d] = link[d]
        /\ reply' \in [Conns -> Replies] /\ reply'[c] = NoReply
        /\ \A d \in Conns \ {c} : reply'[d] = reply[d]
        /\ conn' \in [Agents -> Conns \union {NoOne}] /\ conn'[a] = NoOne
        /\ \A b \in Agents \ {a} : conn'[b] = conn[b]
    BY <1>1, <1>2, <1>3, Forgotten
  <1>5. \A p \in Ids : Follows(a, p) => Follows(a, p)'
    <2>1. log' = log /\ who' = who /\ Known' = Known /\ Named' = Named
      BY <1>3 DEF hostVars, Known, Named
    <2> QED
      BY <1>3, <2>1 DEF Follows
  <1>6. /\ joined'[a].next <= Len(log)
        /\ joined'[a].resume = NoOne => joined'[a].next = 0
        /\ \A i \in got'[a] : i <= Len(log)
        /\ \A p \in Ids : joined'[a].resume = p => Follows(a, p)'
    BY <1>3, <1>5 DEF IndInv, Positions
  <1>7. /\ joined' \in [Agents -> [resume : Ids \union {NoOne},
                                   connection : Conns \union {NoOne},
                                   next : Nat]]
        /\ got' \in [Agents -> SUBSET Nat] /\ told' \in [Agents -> SUBSET Nat]
    BY <1>1, <1>3 DEF TypeOK
  <1>8. c # NoOne
    BY ChannelConstants DEF Conns, NoOne
  <1> QED
    BY <1>2, <1>3, <1>4, <1>6, <1>7, <1>8, MovesOnInv

\* Reading a request's answer keeps the invariant: a join names the agent's
\* participant, a read moves its position, and all else leaves it.
LEMMA ReceiveInv ==
    ASSUME IndInv, NEW a \in Agents, Receive(a)
    PROVE  IndInv'
  <1>1. TypeOK
    BY DEF IndInv, PresenceConsistent
  <1>2. PICK c \in Conns : c = conn[a]
    BY <1>1, AgentTyped DEF Receive
  <1> DEFINE answer == reply[c]
  <1>3. /\ answer.op # "none"
        /\ joined' = [joined EXCEPT ![a] =
              CASE answer.op = "joined" -> Place(a, answer)
                [] answer.op = "messages" ->
                      [joined[a] EXCEPT !.next = answer.next]
                [] OTHER -> joined[a]]
        /\ IF answer.op = "messages"
           THEN /\ got' = [got EXCEPT ![a] = got[a] \union answer.seqs]
                /\ told' = [told EXCEPT ![a] = told[a] \union answer.lost]
           ELSE UNCHANGED <<got, told>>
        /\ IF answer.op = "denied" THEN Forget(a)
           ELSE /\ reply' = [reply EXCEPT ![c] = NoReply]
                /\ UNCHANGED <<conn, link>>
        /\ UNCHANGED <<hostVars, inbox>>
    BY <1>2 DEF Receive
  <1>4. inbox[c] = NoRequest /\ c # NoOne
    BY <1>3, ChannelConstants DEF IndInv, OneConversation, NoReply, Conns, NoOne
  <1>5. Asked(a, c) /\ Fits(a, c)
    BY <1>2 DEF IndInv, InTouch
  <1>6. /\ link' \in [Conns -> {"unused", "open", "closing", "gone"}]
        /\ \/ link' = link
           \/ /\ link[c] = "open" /\ link'[c] = "closing" /\ conn'[a] = NoOne
              /\ \A d \in Conns \ {c} : link'[d] = link[d]
        /\ reply' \in [Conns -> Replies] /\ reply'[c] = NoReply
        /\ \A d \in Conns \ {c} : reply'[d] = reply[d]
        /\ conn' \in [Agents -> Conns \union {NoOne}] /\ conn'[a] \in {c, NoOne}
        /\ \A b \in Agents \ {a} : conn'[b] = conn[b]
        /\ conn'[a] = c => answer.op # "denied"
    <2>1. CASE answer.op = "denied"
      BY <1>1, <1>2, <1>3, <1>4, <2>1, Forgotten
    <2>2. CASE answer.op # "denied"
      <3>1. reply' = [reply EXCEPT ![c] = NoReply] /\ conn' = conn /\ link' = link
        BY <1>3, <2>2
      <3>2. NoReply \in Replies
        BY DEF Replies, NoReply
      <3> HIDE DEF answer
      <3> QED
        BY <1>1, <1>2, <2>2, <3>1, <3>2 DEF TypeOK
    <2> QED
      BY <2>1, <2>2
  <1>7. /\ log' = log /\ who' = who /\ Known' = Known /\ Named' = Named
        /\ UNCHANGED <<hostVars, inbox>>
    BY <1>3 DEF hostVars, Known, Named
  <1> DEFINE Position == [resume : Ids \union {NoOne},
                          connection : Conns \union {NoOne}, next : Nat]
  <1>8. /\ joined \in [Agents -> Position] /\ got \in [Agents -> SUBSET Nat]
        /\ told \in [Agents -> SUBSET Nat] /\ Len(log) \in Nat
        /\ joined[a] \in Position /\ joined[a].next \in Nat
    BY <1>1, AgentTyped DEF TypeOK
  <1>9. /\ joined[a].next <= Len(log)
        /\ joined[a].resume = NoOne => joined[a].next = 0
        /\ \A i \in got[a] : i <= Len(log)
        /\ \A p \in Ids : joined[a].resume = p => Follows(a, p)
    BY DEF IndInv, Positions
  <1>10. ASSUME joined'[a] \in Position, got'[a] \in SUBSET Nat,
                told'[a] \in SUBSET Nat,
                \A b \in Agents \ {a} :
                    /\ joined'[b] = joined[b]
                    /\ got'[b] = got[b] /\ told'[b] = told[b],
                joined' = [joined EXCEPT ![a] = joined'[a]],
                got' = [got EXCEPT ![a] = got'[a]],
                told' = [told EXCEPT ![a] = told'[a]],
                joined'[a].next <= Len(log),
                joined'[a].resume = NoOne => joined'[a].next = 0,
                \A i \in got'[a] : i <= Len(log),
                \A p \in Ids : joined'[a].resume = p => Follows(a, p)',
                conn'[a] = c => \A p \in JoinedOn(c) : p = joined'[a].resume
         PROVE  IndInv'
    <2>1. /\ joined' \in [Agents -> Position] /\ got' \in [Agents -> SUBSET Nat]
          /\ told' \in [Agents -> SUBSET Nat]
      <3> HIDE DEF Position
      <3> QED
        BY <1>8, <1>10
    <2> HIDE DEF answer
    <2> QED
      BY <1>2, <1>4, <1>6, <1>7, <1>10, <2>1, MovesOnInv
  <1>11. CASE answer.op = "joined"
    <2>1. /\ joined' = [joined EXCEPT ![a] = Place(a, answer)]
          /\ got' = got /\ told' = told
      BY <1>3, <1>11
    <2>2. PICK p \in Ids : p = answer.resume
      BY <1>1, <1>11, WireTyped
    <2>3. /\ Place(a, answer) \in Position /\ Place(a, answer).resume = p
          /\ Place(a, answer).next = joined[a].next
      BY <1>2, <1>8, <2>2 DEF Place
    <2>4. Follows(a, p)
      BY <1>5, <1>11, <2>2 DEF Fits
    <2>5. \A q \in JoinedOn(c) : q = p
      BY <1>5, <1>11, <2>2 DEF Asked
    <2> HIDE DEF answer, Position
    <2>6. /\ joined'[a] = Place(a, answer)
          /\ \A b \in Agents \ {a} : joined'[b] = joined[b]
      BY <1>8, <2>1
    <2>7. Follows(a, p)'
      BY <1>7, <2>1, <2>3, <2>4, <2>6 DEF Follows
    <2>8. p # NoOne
      BY ChannelConstants DEF Ids, NoOne
    <2> QED
      BY <1>8, <1>9, <1>10, <2>1, <2>3, <2>5, <2>6, <2>7, <2>8
  <1>12. CASE answer.op = "messages"
    <2>1. /\ joined' = [joined EXCEPT ![a] =
                            [joined[a] EXCEPT !.next = answer.next]]
          /\ got' = [got EXCEPT ![a] = got[a] \union answer.seqs]
          /\ told' = [told EXCEPT ![a] = told[a] \union answer.lost]
      BY <1>3, <1>12
    <2>2. /\ answer.seqs \in SUBSET Nat /\ answer.next \in Nat
          /\ answer.lost \in SUBSET Nat
      BY <1>1, <1>12, WireTyped
    <2>3. /\ joined[a].resume # NoOne
          /\ answer.next <= Len(log)
          /\ \A i \in answer.seqs : i <= answer.next
          /\ \A p \in Ids : joined[a].resume = p => Brings(a, c, p)
      BY <1>5, <1>12 DEF Fits
    <2>4. \A q \in JoinedOn(c) : q = joined[a].resume
      BY <1>5, <1>12 DEF Asked
    <2>5. /\ joined'[a] = [joined[a] EXCEPT !.next = answer.next]
          /\ joined'[a] \in Position
          /\ joined'[a].resume = joined[a].resume
          /\ joined'[a].next = answer.next
          /\ \A b \in Agents \ {a} : joined'[b] = joined[b]
      BY <1>8, <2>1, <2>2
    <2>6. /\ got'[a] = got[a] \union answer.seqs
          /\ told'[a] = told[a] \union answer.lost
          /\ \A b \in Agents \ {a} : got'[b] = got[b] /\ told'[b] = told[b]
      BY <1>8, <2>1
    <2>7. ASSUME NEW p \in Ids, joined[a].resume = p
          PROVE  Follows(a, p)'
      <3>1. Follows(a, p) /\ Brings(a, c, p)
        BY <1>9, <2>3, <2>7
      <3>2. ASSUME NEW i \in 1 .. answer.next, VisibleTo(log[i], p)
            PROVE  i \in got'[a] \union told'[a]
        <4>1. CASE i <= joined[a].next
          <5>1. i \in 1 .. joined[a].next
            BY <1>8, <2>2, <3>2, <4>1
          <5> QED
            BY <2>6, <3>1, <3>2, <5>1 DEF Follows
        <4>2. CASE joined[a].next < i
          BY <2>6, <3>1, <3>2, <4>2 DEF Brings
        <4> QED
          BY <1>8, <2>2, <4>1, <4>2
      <3>3. ASSUME p \in Known, NEW i \in got'[a]
            PROVE  i <= who[p].through
        <4>1. who[p].through \in Nat /\ answer.next <= who[p].through
          BY <1>1, <3>1, <3>3, WhoTyped DEF Brings
        <4>2. CASE i \in got[a]
          BY <3>1, <3>3, <4>2 DEF Follows
        <4>3. CASE i \in answer.seqs
          <5>1. i \in Nat /\ i <= answer.next
            BY <2>2, <2>3, <4>3
          <5> HIDE DEF answer
          <5> QED
            BY <2>2, <4>1, <5>1
        <4> QED
          BY <2>6, <3>3, <4>2, <4>3
      <3>4. p \in Named
        BY <3>1 DEF Follows
      <3> HIDE DEF answer
      <3> QED
        BY <1>7, <2>5, <3>2, <3>3, <3>4 DEF Follows
    <2>8. got'[a] \in SUBSET Nat /\ told'[a] \in SUBSET Nat
      BY <1>8, <2>2, <2>6
    <2>9. \A i \in got'[a] : i <= Len(log)
      <3>1. ASSUME NEW i \in answer.seqs
            PROVE  i <= Len(log)
        <4>1. i \in Nat /\ i <= answer.next
          BY <2>2, <2>3
        <4> HIDE DEF answer
        <4> QED
          BY <1>8, <2>2, <2>3, <4>1
      <3> QED
        BY <1>9, <2>6, <3>1
    <2> HIDE DEF answer, Position
    <2> QED
      BY <1>10, <2>1, <2>3, <2>4, <2>5, <2>6, <2>7, <2>8, <2>9
  <1>13. CASE answer.op \notin {"joined", "messages"}
    <2>1. joined' = joined /\ got' = got /\ told' = told
      <3>1. joined' = [joined EXCEPT ![a] = joined[a]]
        BY <1>3, <1>13
      <3> HIDE DEF answer, Position
      <3>2. joined' = joined
        BY <1>8, <3>1
      <3> QED
        BY <1>3, <1>13, <3>2 DEF answer
    <2>2. \A q \in JoinedOn(c) : q = joined[a].resume
      BY <1>5, <1>13 DEF Asked
    <2>3. \A p \in Ids : Follows(a, p) => Follows(a, p)'
      BY <1>7, <2>1 DEF Follows
    <2> HIDE DEF answer, Position
    <2> QED
      BY <1>8, <1>9, <1>10, <2>1, <2>2, <2>3
  <1> QED
    BY <1>11, <1>12, <1>13

-----------------------------------------------------------------------------
(* The theorems *)

\* The first states satisfy the invariant.
LEMMA InitInv == Init => IndInv
  <1> SUFFICES ASSUME Init PROVE IndInv
    OBVIOUS
  <1>1. /\ who = [p \in Ids |-> Nobody]
        /\ nick = [p \in Ids |-> <<CHOOSE v \in Providers : TRUE, 0>>]
        /\ departed = {} /\ counts = [v \in Providers |-> 0]
        /\ log = <<>> /\ first = 1 /\ revision = 0
        /\ link = [c \in Conns |-> "unused"]
        /\ inbox = [c \in Conns |-> NoRequest]
        /\ reply = [c \in Conns |-> NoReply]
        /\ conn = [a \in Agents |-> NoOne]
        /\ joined = [a \in Agents |-> [resume |-> NoOne, connection |-> NoOne,
                                       next |-> 0]]
        /\ got = [a \in Agents |-> {}]
        /\ told = [a \in Agents |-> {}]
    BY DEF Init
  <1>2. (CHOOSE v \in Providers : TRUE) \in Providers
    BY ChannelConstants
  <1>3. /\ log \in Seq(Message) /\ Len(log) = 0
        /\ NoRequest \in Requests /\ NoReply \in Replies
    BY <1>1, EmptySeq DEF Requests, Replies, NoRequest, NoReply
  <1>4. nick \in [Ids -> Nicks] /\ \A p \in Ids : nick[p][2] = 0
    BY <1>1, <1>2 DEF Nicks
  <1>5. who \in [Ids -> Participants] /\ \A p \in Ids : who[p].known = FALSE
    BY <1>1, NobodyTyped
  <1>6. TypeOK
    BY <1>1, <1>3, <1>4, <1>5 DEF TypeOK
  <1>7. Known = {} /\ Named = {}
    BY <1>4, <1>5 DEF Known, Named
  <1>8. PresenceConsistent
    BY <1>6, <1>7 DEF PresenceConsistent
  <1>9. Nicknamed
    <2>1. \A p \in Ids : nick[p][2] <= counts[nick[p][1]]
      BY <1>1, <1>2, <1>4
    <2> QED
      BY <1>1, <1>3, <1>7, <2>1 DEF Nicknamed
  <1>10. KeptNamed /\ OneConversation
    BY <1>1, <1>3 DEF KeptNamed, Retained, LastSeq, OneConversation
  <1>11. Positions
    <2>1. NoOne \notin Ids
      BY ChannelConstants DEF Ids, NoOne
    <2> QED
      BY <1>1, <1>3, <2>1 DEF Positions
  <1>12. InTouch
    <2>1. NoOne \notin Conns
      BY ChannelConstants DEF Conns, NoOne
    <2> QED
      BY <1>1, <2>1 DEF InTouch
  <1> QED
    BY <1>8, <1>9, <1>10, <1>11, <1>12 DEF IndInv

\* A step that changes nothing keeps the invariant.
LEMMA StutterInv ==
    ASSUME IndInv, UNCHANGED vars
    PROVE  IndInv'
  <1>1. /\ UNCHANGED hostVars /\ UNCHANGED wireVars /\ UNCHANGED agentVars
    BY DEF vars
  <1>2. /\ Known' = Known /\ Named' = Named
        /\ \A d \in Conns : JoinedOn(d)' = JoinedOn(d)
    BY <1>1 DEF hostVars, Known, Named, JoinedOn
  <1>3. PresenceConsistent' /\ Nicknamed' /\ KeptNamed' /\ OneConversation'
    BY <1>1, <1>2
    DEF hostVars, wireVars, agentVars, IndInv, PresenceConsistent, TypeOK,
        Nicknamed, KeptNamed, OneConversation, Retained, LastSeq
  <1>4. \A a \in Agents, p \in Ids : Follows(a, p) => Follows(a, p)'
    BY <1>1, <1>2 DEF hostVars, agentVars, Follows
  <1>5. Positions'
    BY <1>1, <1>4 DEF hostVars, agentVars, IndInv, Positions
  <1>6. \A a \in Agents, c \in Conns, p \in Ids : Brings(a, c, p) => Brings(a, c, p)'
    BY <1>1, <1>2 DEF hostVars, wireVars, agentVars, Brings
  <1>7. InTouch'
    <2>1. ASSUME NEW a \in Agents, NEW c \in Conns, conn'[a] = c
          PROVE  Asked(a, c)' /\ Fits(a, c)'
      <3>1. Asked(a, c) /\ Fits(a, c)
        BY <1>1, <2>1 DEF agentVars, IndInv, InTouch
      <3> QED
        BY <1>1, <1>2, <1>4, <1>6, <3>1
        DEF hostVars, wireVars, agentVars, Asked, Fits
    <2> QED
      BY <2>1 DEF InTouch
  <1> QED
    BY <1>3, <1>5, <1>7 DEF IndInv

\* IndInv is an invariant.
THEOREM Invariance == Spec => []IndInv
  <1>1. ASSUME IndInv, [Next]_vars
        PROVE  IndInv'
    <2>1. CASE HostStep
      <3>1. PICK c \in Conns :
              \/ \E p \in Ids : Rejoin(c, p) \/ JoinNew(c, p) \/ Post(c, p)
                                   \/ Read(c, p)
              \/ JoinRefused(c) \/ PostRefused(c) \/ NotJoined(c)
              \/ \E revoked \in BOOLEAN : Disconnect(c, revoked)
        BY <2>1 DEF HostStep
      <3>2. CASE JoinRefused(c) \/ PostRefused(c) \/ NotJoined(c)
        BY <1>1, <3>2, RefusedInv DEF JoinRefused, PostRefused, NotJoined
      <3> QED
        BY <1>1, <3>1, <3>2, RejoinInv, JoinNewInv, PostInv, ReadInv,
           DisconnectInv
    <2>2. CASE AgentStep
      BY <1>1, <2>2, ConnectInv, CallInv, GiveUpInv, ReceiveInv DEF AgentStep
    <2> QED
      BY <1>1, <2>1, <2>2, StutterInv DEF Next
  <1> QED
    BY InitInv, <1>1, PTL DEF Spec

\* Whatever adapters do, and however late the host learns of it, the channel's
\* table agrees with the connections, and departures are told apart.
THEOREM PresenceHolds == Spec => []PresenceConsistent
  <1>1. IndInv => PresenceConsistent
    BY DEF IndInv
  <1> QED
    BY <1>1, Invariance, PTL

\* Every message kept names participants that have nicknames of their own,
\* though newcomers replace those who left.
THEOREM NamesHold == Spec => []MessagesNamed
  <1>1. IndInv => MessagesNamed
    BY DEF IndInv, Nicknamed, KeptNamed, MessagesNamed
  <1> QED
    BY <1>1, Invariance, PTL

\* An agent misses no message without being told.
THEOREM AgentsMissNothing == Spec => []NothingSkipped
  <1>1. ASSUME IndInv, NEW a \in Agents, joined[a].resume # NoOne,
               NEW i \in 1 .. joined[a].next,
               VisibleTo(log[i], joined[a].resume)
        PROVE  i \in got[a] \union told[a]
    <2>1. PICK p \in Ids : joined[a].resume = p
      BY <1>1, AgentTyped DEF IndInv, PresenceConsistent
    <2> QED
      BY <1>1, <2>1 DEF IndInv, Positions, Follows
  <1>2. IndInv => NothingSkipped
    BY <1>1 DEF NothingSkipped
  <1> QED
    BY <1>2, Invariance, PTL

\* No message an agent was given counts as unread.
THEOREM UnreadIsUnknown == Spec => []UnreadIsNews
  <1>1. ASSUME IndInv, NEW a \in Agents, joined[a].resume \in Known
        PROVE  Unread(joined[a].resume) \intersect got[a] = {}
    <2>1. PICK p \in Known : joined[a].resume = p
      BY <1>1
    <2>2. /\ p \in Ids /\ who[p].through \in Nat /\ got[a] \in SUBSET Nat
      BY <1>1, WhoTyped, AgentTyped DEF IndInv, PresenceConsistent, Known
    <2>3. \A i \in got[a] : i <= who[p].through
      BY <1>1, <2>1, <2>2 DEF IndInv, Positions, Follows
    <2> QED
      BY <2>1, <2>2, <2>3 DEF Unread
  <1>2. IndInv => UnreadIsNews
    BY <1>1 DEF UnreadIsNews
  <1> QED
    BY <1>2, Invariance, PTL
=============================================================================
