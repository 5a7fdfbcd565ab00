-------------------------- MODULE AgentInputProofs --------------------------
(* Theorems about AgentInput, for every set of readers, terminals, handles   *)
(* and lines and every limit.                                                *)
EXTENDS AgentInput, TLAPS

\* What context_advance_enters makes of a record is a record.
LEMMA AdvancedType ==
    ASSUME TypeOK, NEW e \in EnterIds,
           NEW front \in [attached : BOOLEAN, generation : Nat],
           NEW connected, NEW accepts, NEW expired
    PROVE  LET en == Advanced(e, front, connected, accepts, expired)
           IN  /\ en \in Enter
               /\ en.state # "absent" =>
                    en.owner \in Readers /\ en.terminal \in Terminals
  <1>1. enters[e] \in Enter /\ Absent \in Enter
    BY DEF TypeOK, Enter, Absent, EnterStates, Timers
  <1>2. Verdict(e, front, connected)
           \in {"cancelled", "stale", "wait", "arm", "press"}
    BY DEF Verdict
  <1>3. enters[e].state # "absent" =>
           enters[e].owner \in Readers /\ enters[e].terminal \in Terminals
    BY DEF TypeOK
  <1> QED
    BY <1>1, <1>2, <1>3
    DEF Advanced, Enter, EnterStates, Timers, Waiting, Absent

\* Noting input or another change keeps a session a session.
LEMMA NoteInputType ==
    ASSUME NEW s \in Session
    PROVE  /\ NoteInput(s) \in Session
           /\ NoteInput(s).state = s.state
           /\ NoteInput(s).pending = s.pending
  <1>1. s.revision \in Nat /\ s.generation \in Nat
    BY DEF Session
  <1>2. s.revision + 1 \in Nat /\ s.generation + 1 \in Nat
    BY <1>1
  <1> QED
    BY <1>2 DEF Session, NoteInput

\* NotedFrontend is a frontend.
LEMMA NotedType ==
    TypeOK => NotedFrontend \in [attached : BOOLEAN, generation : Nat]
  BY DEF TypeOK, NotedFrontend, Attached

\* A pass keeps every variable in its type.
LEMMA SyncType ==
    ASSUME TypeOK, NEW front \in [attached : BOOLEAN, generation : Nat],
           NEW revoked \in SUBSET readers, Sync(front, revoked),
           pc' \in {"top", "select", "frame"}
    PROVE  TypeOK'
  <1> DEFINE connected == readers \ revoked
  <1> DEFINE pressed == PressedBy(front, connected)
  <1> DEFINE ended == EndedBy(front, connected)
  <1> DEFINE after == CancelQueued(delivery, LostTexts(revoked, front))
  <1>1. PICK accepts \in SUBSET {t \in pressed : MayWrite(t)},
             expired \in SUBSET {e \in EnterIds : ~Waiting(e)} :
          /\ frontend' = front
          /\ readers' = connected
          /\ delivery' = after
          /\ writes' = [r \in Readers |->
                IF r \in connected
                THEN {w \in writes[r] : after[w[1]] \in {"Queued", "Writing"}}
                ELSE {}]
          /\ enters' = [e \in EnterIds |->
                IF enters[e].owner \in revoked THEN Absent
                ELSE Advanced(e, front, connected, accepts, expired)]
          /\ term' = [t \in Terminals |->
                LET session == IF t \in pressed THEN NoteInput(term[t])
                               ELSE term[t]
                IN  [session EXCEPT !.pending = @ /\ t \notin ended]]
          /\ input' = [t \in Terminals |->
                IF t \in accepts THEN Append(input[t], Return) ELSE input[t]]
          /\ UNCHANGED <<epoch, proposals, writer, output>>
    BY DEF Sync
  <1> HIDE DEF connected, pressed, ended, after
  <1>2. readers' \subseteq Readers
    BY <1>1 DEF connected, TypeOK
  <1>3. delivery' \in [Texts -> DeliveryStates]
    BY <1>1 DEF after, CancelQueued, TypeOK, DeliveryStates
  <1>4. writes' \in [Readers -> SUBSET (Texts \X Nat)]
    BY <1>1 DEF TypeOK
  <1>5. \A e \in EnterIds :
           /\ enters'[e] \in Enter
           /\ enters'[e].state # "absent" =>
                enters'[e].owner \in Readers /\ enters'[e].terminal \in Terminals
    <2> TAKE e \in EnterIds
    <2>1. Absent \in Enter /\ Absent.state = "absent"
      BY DEF Absent, Enter, EnterStates, Timers
    <2> QED
      BY <1>1, <2>1, AdvancedType
  <1>6. enters' \in [EnterIds -> Enter]
    BY <1>1, <1>5
  <1>7. term' \in [Terminals -> Session]
    <2>1. \A s \in Session : NoteInput(s) \in Session
      BY NoteInputType
    <2>2. \A s \in Session : \A x :
             [s EXCEPT !.pending = @ /\ x] \in Session
      BY DEF Session
    <2> QED
      BY <1>1, <2>1, <2>2 DEF TypeOK
  <1>8. input' \in [Terminals -> Seq(Input)]
    <2>1. Return \in Input
      BY DEF Return, Input
    <2> QED
      BY <1>1, <2>1 DEF TypeOK
  <1> QED
    BY <1>1, <1>2, <1>3, <1>4, <1>5, <1>6, <1>7, <1>8 DEF TypeOK

\* Session::note_change keeps a session's type and its state.
LEMMA NoteChangeType ==
    ASSUME NEW s \in Session
    PROVE  /\ NoteChange(s) \in Session
           /\ NoteChange(s).state = s.state
           /\ NoteChange(s).pending = s.pending
  BY DEF Session, NoteChange

\* Fields of a session may be set one by one.
LEMMA SessionFields ==
    ASSUME NEW s \in Session, NEW b \in BOOLEAN,
           NEW st \in {"live", "exited", "closed"}, NEW n \in Nat
    PROVE  /\ [s EXCEPT !.pending = b] \in Session
           /\ [s EXCEPT !.state = st] \in Session
           /\ [s EXCEPT !.revision = n] \in Session
  BY DEF Session

\* Cancelling the queued lines of some terminals keeps both lists typed.
LEMMA CancelProposalsType ==
    ASSUME TypeOK, NEW T \in SUBSET Terminals, CancelProposals(T)
    PROVE  /\ delivery' \in [Texts -> DeliveryStates]
           /\ proposals' \in [Terminals -> SUBSET Texts]
  BY DEF TypeOK, CancelProposals, CancelQueued, DeliveryStates

\* Every step keeps the types.
LEMMA NextType == TypeOK /\ [Next]_vars => TypeOK'
  <1> SUFFICES ASSUME TypeOK, [Next]_vars PROVE TypeOK'
    OBVIOUS
  <1> USE DEF hostVars, termVars
  <1>1. CASE Top
    BY <1>1, NotedType, SyncType DEF Top
  <1>2. CASE ContextTimeout
    BY <1>2, SyncType DEF ContextTimeout, TypeOK
  <1>3. CASE FrameArrives
    BY <1>3, SyncType DEF FrameArrives, TypeOK
  <1>4. ASSUME NEW r \in Readers, Register(r) PROVE TypeOK'
    BY <1>4 DEF TypeOK, Register
  <1>5. CASE NoEffect
    BY <1>5 DEF TypeOK, NoEffect
  <1>6. ASSUME NEW r \in Readers, NEW t \in Terminals, NEW d \in Texts,
               NEW ok \in BOOLEAN, WriteTerminal(r, t, d, ok)
        PROVE TypeOK'
    <2>1. term' \in [Terminals -> Session]
      BY <1>6, NoteInputType DEF TypeOK, WriteTerminal
    <2>2. Line(d) \in Input
      BY DEF Line, Input
    <2>3. input' \in [Terminals -> Seq(Input)]
      <3>1. Append(input[t], Line(d)) \in Seq(Input)
        BY <2>2 DEF TypeOK
      <3>2. input' \in {input, [input EXCEPT ![t] = Append(@, Line(d))]}
        BY <1>6 DEF WriteTerminal
      <3> QED
        BY <3>1, <3>2 DEF TypeOK
    <2>4. /\ proposals' \in [Terminals -> SUBSET Texts]
          /\ delivery' \in [Texts -> DeliveryStates]
      <3>1. /\ delivery' \in {delivery, [delivery EXCEPT ![d] = "Queued"]}
            /\ \E P \in SUBSET Texts : proposals' = [proposals EXCEPT ![t] = P]
        <4>1. Unfinished(delivery, proposals[t]) \in SUBSET Texts
          BY DEF TypeOK, Unfinished
        <4> QED
          BY <1>6, <4>1 DEF WriteTerminal
      <3>2. delivery' \in [Texts -> DeliveryStates]
        BY <3>1 DEF TypeOK, DeliveryStates
      <3>3. PICK P \in SUBSET Texts : proposals' = [proposals EXCEPT ![t] = P]
        BY <3>1
      <3> QED
        BY <3>2, <3>3 DEF TypeOK
    <2>5. writes' \in [Readers -> SUBSET (Texts \X Nat)]
      <3> DEFINE mine == {w \in writes[r] :
                             delivery[w[1]] \in {"Queued", "Writing"}}
      <3>1. writes[r] \in SUBSET (Texts \X Nat) /\ frontend.generation \in Nat
        BY DEF TypeOK
      <3>2. mine \cup {<<d, frontend.generation>>} \in SUBSET (Texts \X Nat)
        BY <3>1
      <3>3. writes' \in {writes, [writes EXCEPT ![r] =
                             mine \cup {<<d, frontend.generation>>}]}
        BY <1>6 DEF WriteTerminal
      <3> HIDE DEF mine
      <3>4. writes \in [Readers -> SUBSET (Texts \X Nat)]
        BY DEF TypeOK
      <3> QED
        BY <3>2, <3>3, <3>4
    <2> QED
      BY <1>6, <2>1, <2>3, <2>4, <2>5 DEF TypeOK, WriteTerminal
  <1>7. ASSUME NEW r \in Readers, NEW t \in Terminals, NEW e \in EnterIds,
               RequestEnter(r, t, e)
        PROVE TypeOK'
    <2> DEFINE fresh == [state |-> "waiting", owner |-> r, terminal |-> t,
                    revision |-> term[t].revision,
                    generation |-> term[t].generation,
                    attachment |-> frontend.generation,
                    timer |-> "delay", epoch |-> epoch]
    <2>1. PICK evicted \in Evictions :
             enters' = [f \in EnterIds |->
                IF f = e THEN fresh
                ELSE IF f \in evicted THEN Absent ELSE enters[f]]
      BY <1>7 DEF RequestEnter
    <2>2. fresh \in Enter /\ Absent \in Enter /\ Absent.state = "absent"
      BY DEF TypeOK, Session, Enter, EnterStates, Timers, Absent
    <2>3. fresh.owner = r /\ fresh.terminal = t
      OBVIOUS
    <2> HIDE DEF fresh
    <2>4. /\ enters' \in [EnterIds -> Enter]
          /\ \A f \in EnterIds : enters'[f].state # "absent" =>
                enters'[f].owner \in Readers /\ enters'[f].terminal \in Terminals
      BY <2>1, <2>2, <2>3 DEF TypeOK
    <2>5. term' \in [Terminals -> Session]
      BY <1>7, SessionFields DEF TypeOK, RequestEnter
    <2> QED
      BY <1>7, <2>4, <2>5 DEF TypeOK, RequestEnter
  <1>8. ASSUME NEW r \in Readers, ReaderClosed(r) PROVE TypeOK'
    <2>1. Absent \in Enter /\ Absent.state = "absent"
      BY DEF Enter, EnterStates, Timers, Absent
    <2>2. /\ enters' \in [EnterIds -> Enter]
          /\ \A f \in EnterIds : enters'[f].state # "absent" =>
                enters'[f].owner \in Readers /\ enters'[f].terminal \in Terminals
      BY <1>8, <2>1 DEF TypeOK, ReaderClosed
    <2>3. term' \in [Terminals -> Session]
      <3>1. \A u \in Terminals : (term[u].pending /\ u \notin TitlesOf(r))
                                   \in BOOLEAN
        OBVIOUS
      <3> QED
        BY <1>8, <3>1, SessionFields DEF TypeOK, ReaderClosed
    <2>4. delivery' \in [Texts -> DeliveryStates]
      BY <1>8 DEF TypeOK, ReaderClosed, CancelQueued, DeliveryStates
    <2> QED
      BY <1>8, <2>2, <2>3, <2>4 DEF TypeOK, ReaderClosed
  <1>9. CASE AttachOrDetach
    BY <1>9 DEF TypeOK, AttachOrDetach
  <1>10. ASSUME NEW t \in Terminals, NEW ok \in BOOLEAN, Type(t, ok)
         PROVE TypeOK'
    <2>1. term' \in [Terminals -> Session]
      BY <1>10, NoteInputType DEF TypeOK, Type
    <2>2. Key \in Input
      BY DEF Key, Input
    <2>3. input' \in [Terminals -> Seq(Input)]
      BY <1>10, <2>2 DEF TypeOK, Type
    <2> QED
      BY <1>10, <2>1, <2>3, CancelProposalsType DEF TypeOK, Type
  <1>11. CASE ApplyOutput
    <2>1. PICK fed \in SUBSET {t \in Terminals : output[t]} :
            /\ \E modes \in SUBSET fed,
                  replies \in SUBSET {t \in fed : MayWrite(t)} :
                /\ CancelProposals(modes)
                /\ input' = [t \in Terminals |-> IF t \in replies
                                THEN Append(input[t], Reply) ELSE input[t]]
            /\ output' = [t \in Terminals |-> output[t] /\ t \notin fed]
            /\ term' = [t \in Terminals |->
                           IF t \in fed /\ term[t].state # "closed"
                           THEN NoteChange(term[t]) ELSE term[t]]
      BY <1>11 DEF ApplyOutput
    <2>2. Reply \in Input
      BY DEF Reply, Input
    <2>3. input' \in [Terminals -> Seq(Input)]
      BY <2>1, <2>2 DEF TypeOK
    <2>4. term' \in [Terminals -> Session]
      BY <2>1, NoteChangeType DEF TypeOK
    <2>5. output' \in [Terminals -> BOOLEAN]
      BY <2>1 DEF TypeOK
    <2>6. /\ delivery' \in [Texts -> DeliveryStates]
          /\ proposals' \in [Terminals -> SUBSET Texts]
      BY <2>1, CancelProposalsType
    <2> QED
      BY <1>11, <2>3, <2>4, <2>5, <2>6 DEF TypeOK, ApplyOutput
  <1>12. ASSUME NEW t \in Terminals, Reshape(t) PROVE TypeOK'
    BY <1>12, NoteChangeType DEF TypeOK, Reshape
  <1>13. ASSUME NEW t \in Terminals, Exited(t) PROVE TypeOK'
    <2>1. term' \in [Terminals -> Session]
      <3>1. \A s \in Session : [s EXCEPT !.state = "exited",
                                        !.revision = @ + 1] \in Session
        <4> SUFFICES ASSUME NEW s \in Session
                     PROVE  [s EXCEPT !.state = "exited",
                                      !.revision = s.revision + 1] \in Session
          OBVIOUS
        <4>1. s.revision + 1 \in Nat
          BY DEF Session
        <4> QED
          BY <4>1 DEF Session
      <3>2. term' = [term EXCEPT ![t] = [term[t] EXCEPT !.state = "exited",
                                        !.revision = @ + 1]]
        BY <1>13 DEF TypeOK, Exited
      <3> QED
        BY <3>1, <3>2 DEF TypeOK
    <2> QED
      BY <1>13, <2>1, CancelProposalsType DEF TypeOK, Exited
  <1>14. ASSUME NEW t \in Terminals, Close(t) PROVE TypeOK'
    <2>1. term' \in [Terminals -> Session]
      <3>1. \A s \in Session : [s EXCEPT !.state = "closed",
                                        !.pending = FALSE] \in Session
        BY DEF Session
      <3>2. term' = [term EXCEPT ![t] = [term[t] EXCEPT !.state = "closed",
                                        !.pending = FALSE]]
        BY <1>14 DEF TypeOK, Close
      <3> QED
        BY <3>1, <3>2 DEF TypeOK
    <2> QED
      BY <1>14, <2>1, CancelProposalsType DEF TypeOK, Close
  <1>15. CASE OtherEvent
    BY <1>15 DEF TypeOK, OtherEvent
  <1>16. ASSUME NEW t \in Terminals, WriterTakes(t) PROVE TypeOK'
    <2>1. Head(input[t]) \in Input /\ Tail(input[t]) \in Seq(Input)
      BY <1>16 DEF TypeOK, WriterTakes
    <2>2. input' \in [Terminals -> Seq(Input)]
      BY <1>16, <2>1 DEF TypeOK, WriterTakes
    <2>3. delivery' \in [Texts -> DeliveryStates]
      BY <1>16, <2>1 DEF TypeOK, WriterTakes, DeliveryStates
    <2> QED
      BY <1>16, <2>2, <2>3 DEF TypeOK, WriterTakes
  <1>17. ASSUME NEW t \in Terminals, WriterFails(t) PROVE TypeOK'
    <2>1. <<>> \in Seq(Input)
      OBVIOUS
    <2>2. delivery' \in [Texts -> DeliveryStates]
      BY <1>17 DEF TypeOK, WriterFails, DeliveryStates
    <2> QED
      BY <1>17, <2>1, <2>2 DEF TypeOK, WriterFails
  <1>18. ASSUME NEW t \in Terminals, ChildWrites(t) PROVE TypeOK'
    BY <1>18 DEF TypeOK, ChildWrites
  <1>19. ASSUME NEW e \in EnterIds, TimePasses(e) PROVE TypeOK'
    <2>1. enters' \in [EnterIds -> Enter]
      <3>1. \A en \in Enter : \A tm \in Timers :
               [en EXCEPT !.timer = tm] \in Enter
        BY DEF Enter
      <3>2. PICK tm \in Timers :
               enters' = [enters EXCEPT ![e] =
                             [enters[e] EXCEPT !.timer = tm]]
        <4>1. (IF enters[e].timer = "delay" THEN "due" ELSE "settled") \in Timers
          BY DEF Timers
        <4> QED
          BY <1>19, <4>1 DEF TypeOK, TimePasses
      <3> QED
        BY <3>1, <3>2 DEF TypeOK
    <2>2. \A f \in EnterIds :
             /\ enters'[f].owner = enters[f].owner
             /\ enters'[f].terminal = enters[f].terminal
             /\ enters'[f].state = enters[f].state
      BY <1>19 DEF TypeOK, TimePasses, Enter
    <2> QED
      BY <1>19, <2>1, <2>2 DEF TypeOK, TimePasses
  <1>20. CASE UNCHANGED vars
    BY <1>20 DEF TypeOK, vars
  <1> QED
    BY <1>1, <1>2, <1>3, <1>4, <1>5, <1>6, <1>7, <1>8, <1>9, <1>10, <1>11,
       <1>12, <1>13, <1>14, <1>15, <1>16, <1>17, <1>18, <1>19, <1>20
    DEF Next, Request, Event, Outside

\* The initial state is typed.
LEMMA InitType == Init => TypeOK
  BY DEF Init, TypeOK, Absent, Enter, EnterStates, Timers, Session,
         DeliveryStates

\* Every reachable state of every instance is typed.
THEOREM TypeCorrect == Spec => []TypeOK
  BY InitType, NextType, PTL DEF Spec

-----------------------------------------------------------------------------
(* The inductive invariant: an Enter's record, the flag of its terminal and  *)
(* the reader that owns it move together, and the generation it carries      *)
(* names one attachment.                                                     *)

\* What every reachable state satisfies.
IndInv == /\ TypeOK
          /\ OneEnterPerTerminal
          /\ PendingShown
          /\ EnterOwnerConnected
          /\ AttachmentNoted

\* A pass keeps the identity of each record and lets an Enter wait only while
\* its verdict says so.
LEMMA SyncEnters ==
    ASSUME TypeOK, NEW front \in [attached : BOOLEAN, generation : Nat],
           NEW revoked \in SUBSET readers, Sync(front, revoked),
           NEW e \in EnterIds
    PROVE  /\ Recorded(e)' =>
                /\ Recorded(e) /\ enters[e].owner \notin revoked
                /\ enters'[e].owner = enters[e].owner
                /\ enters'[e].terminal = enters[e].terminal
                /\ enters'[e].attachment = enters[e].attachment
                /\ enters'[e].epoch = enters[e].epoch
           /\ Waiting(e)' <=>
                /\ Waiting(e)
                /\ Verdict(e, front, readers \ revoked) \in {"wait", "arm"}
           /\ Waiting(e) /\ enters'[e].state = "sent" =>
                Verdict(e, front, readers \ revoked) = "press"
  <1> DEFINE v == Verdict(e, front, readers \ revoked)
  <1>1. PICK accepts \in SUBSET {t \in PressedBy(front, readers \ revoked) :
                                  MayWrite(t)},
             expired \in SUBSET {f \in EnterIds : ~Waiting(f)} :
          enters'[e] = IF enters[e].owner \in revoked THEN Absent
                       ELSE Advanced(e, front, readers \ revoked,
                                     accepts, expired)
    BY DEF Sync
  <1>2. v \in {"cancelled", "stale", "wait", "arm", "press"}
    BY DEF Verdict
  <1>3. enters[e].owner \in revoked => v = "cancelled"
    BY DEF Verdict, Allowed
  <1>4. enters[e] \in Enter
    BY DEF TypeOK
  <1>5. CASE enters[e].owner \in revoked
    BY <1>1, <1>3, <1>5 DEF Absent, Recorded, Waiting
  <1>6. CASE enters[e].owner \notin revoked /\ ~Waiting(e)
    BY <1>1, <1>6 DEF Advanced, Absent, Recorded, Waiting
  <1>7. CASE enters[e].owner \notin revoked /\ Waiting(e)
    <2>1. enters'[e] = Advanced(e, front, readers \ revoked, accepts, expired)
      BY <1>1, <1>7
    <2>2. CASE v = "wait"
      BY <2>1, <2>2, <1>7 DEF Advanced, Recorded, Waiting
    <2>3. CASE v = "arm"
      BY <2>1, <2>3, <1>4, <1>7 DEF Advanced, Recorded, Waiting, Enter
    <2>4. CASE v = "press"
      BY <2>1, <2>4, <1>4, <1>7 DEF Advanced, Recorded, Waiting, Enter
    <2>5. CASE v \in {"cancelled", "stale"}
      BY <2>1, <2>5, <1>4, <1>7 DEF Advanced, Recorded, Waiting, Enter
    <2> QED
      BY <1>2, <2>2, <2>3, <2>4, <2>5
  <1> QED
    BY <1>5, <1>6, <1>7

\* A pass clears the flag of the terminals where it ends an Enter, no other.
LEMMA SyncTerms ==
    ASSUME TypeOK, NEW front \in [attached : BOOLEAN, generation : Nat],
           NEW revoked \in SUBSET readers, Sync(front, revoked),
           NEW t \in Terminals
    PROVE  /\ term'[t].state = term[t].state
           /\ term'[t].pending <=>
                /\ term[t].pending
                /\ t \notin EndedBy(front, readers \ revoked)
  <1> DEFINE session == IF t \in PressedBy(front, readers \ revoked)
                        THEN NoteInput(term[t]) ELSE term[t]
  <1>1. term'[t] = [session EXCEPT !.pending =
                       @ /\ t \notin EndedBy(front, readers \ revoked)]
    BY DEF Sync
  <1>2. session \in Session /\ session.state = term[t].state
           /\ session.pending = term[t].pending
    BY NoteInputType DEF TypeOK
  <1> HIDE DEF session
  <1> QED
    BY <1>1, <1>2 DEF Session

\* A pass that runs under the attachment it has noted keeps the invariant.
LEMMA SyncInv ==
    ASSUME IndInv, NEW front \in [attached : BOOLEAN, generation : Nat],
           NEW revoked \in SUBSET readers, Sync(front, revoked),
           pc' \in {"top", "select", "frame"},
           front.generation = epoch, front.attached <=> epoch % 2 = 1
    PROVE  IndInv'
  <1> DEFINE connected == readers \ revoked
  <1> USE DEF IndInv
  <1>1. TypeOK'
    BY SyncType
  <1>2. readers' = connected /\ frontend' = front /\ epoch' = epoch
    BY DEF Sync
  <1>3. OneEnterPerTerminal'
    <2> SUFFICES ASSUME NEW e \in EnterIds, NEW f \in EnterIds,
                        Waiting(e)', Waiting(f)',
                        enters'[e].terminal = enters'[f].terminal
                 PROVE  e = f
      BY DEF OneEnterPerTerminal, Waiting
    <2>1. Recorded(e)' /\ Recorded(f)'
      BY DEF Recorded, Waiting
    <2>2. /\ Waiting(e) /\ enters'[e].terminal = enters[e].terminal
          /\ Waiting(f) /\ enters'[f].terminal = enters[f].terminal
      BY <2>1, SyncEnters
    <2> QED
      BY <2>2 DEF OneEnterPerTerminal
  <1>4. EnterOwnerConnected'
    BY <1>2, SyncEnters DEF EnterOwnerConnected
  <1>5. AttachmentNoted'
    <2>1. \A e \in EnterIds : Recorded(e)' =>
             enters'[e].attachment = enters'[e].epoch
      <3> SUFFICES ASSUME NEW e \in EnterIds, Recorded(e)'
                   PROVE  enters'[e].attachment = enters'[e].epoch
        BY DEF Recorded
      <3>1. /\ Recorded(e)
            /\ enters'[e].attachment = enters[e].attachment
            /\ enters'[e].epoch = enters[e].epoch
        BY SyncEnters
      <3> QED
        BY <3>1 DEF AttachmentNoted
    <2> QED
      BY <1>2, <2>1 DEF AttachmentNoted, Recorded
  <1>6. PendingShown'
    <2> SUFFICES ASSUME NEW t \in Terminals, term'[t].state # "closed"
                 PROVE  term'[t].pending <=> \E e \in EnterIds :
                            Waiting(e)' /\ enters'[e].terminal = t
      BY DEF PendingShown, Waiting
    <2>1. /\ term[t].state # "closed"
          /\ term'[t].pending <=>
                term[t].pending /\ t \notin EndedBy(front, connected)
      BY SyncTerms
    <2>2. term[t].pending <=> \E e \in EnterIds :
                            Waiting(e) /\ enters[e].terminal = t
      BY <2>1 DEF PendingShown
    <2>3. ASSUME term'[t].pending
          PROVE  \E e \in EnterIds : Waiting(e)' /\ enters'[e].terminal = t
      <3>1. PICK e \in EnterIds : Waiting(e) /\ enters[e].terminal = t
        BY <2>1, <2>2, <2>3
      <3>2. Verdict(e, front, connected) \in {"wait", "arm"}
        BY <2>1, <2>3, <3>1 DEF EndedBy
      <3> QED
        BY <3>1, <3>2, SyncEnters DEF Recorded, Waiting
    <2>4. ASSUME NEW e \in EnterIds, Waiting(e)', enters'[e].terminal = t
          PROVE  term'[t].pending
      <3>1. /\ Waiting(e) /\ enters[e].terminal = t
            /\ Verdict(e, front, connected) \in {"wait", "arm"}
        BY <2>4, SyncEnters DEF Recorded, Waiting
      <3>2. t \notin EndedBy(front, connected)
        BY <3>1 DEF EndedBy, OneEnterPerTerminal
      <3> QED
        BY <2>1, <2>2, <3>1, <3>2
    <2> QED
      BY <2>3, <2>4
  <1> QED
    BY <1>1, <1>3, <1>4, <1>5, <1>6

\* Steps that leave the Enters alone and only close or change terminals.
LEMMA TermsOnly ==
    ASSUME IndInv, TypeOK', UNCHANGED <<epoch, frontend, readers, enters>>,
           pc' = pc \/ pc # "top",
           \A t \in Terminals : term'[t].state # "closed" =>
               /\ term[t].state # "closed"
               /\ term'[t].pending = term[t].pending
    PROVE  IndInv'
  <1> USE DEF IndInv, Waiting, Recorded
  <1>1. OneEnterPerTerminal'
    BY DEF OneEnterPerTerminal
  <1>2. PendingShown'
    BY DEF PendingShown
  <1>3. EnterOwnerConnected'
    BY DEF EnterOwnerConnected
  <1>4. AttachmentNoted'
    BY DEF AttachmentNoted, TypeOK
  <1> QED
    BY <1>1, <1>2, <1>3, <1>4

\* A session after some input or change shows the same flag.
LEMMA TermsNoted ==
    ASSUME TypeOK, NEW T \in SUBSET Terminals,
           \/ term' = [t \in Terminals |-> IF t \in T THEN NoteInput(term[t])
                                           ELSE term[t]]
           \/ term' = [t \in Terminals |-> IF t \in T THEN NoteChange(term[t])
                                           ELSE term[t]]
    PROVE  \A t \in Terminals : /\ term'[t].state = term[t].state
                                /\ term'[t].pending = term[t].pending
  BY NoteInputType, NoteChangeType, ZenonT(60) DEF TypeOK

\* A new Enter keeps the invariant: its terminal had none, and it carries the
\* attachment of this moment.
LEMMA RequestEnterInv ==
    ASSUME IndInv, TypeOK', NEW r \in Readers, NEW t \in Terminals,
           NEW e \in EnterIds, RequestEnter(r, t, e)
    PROVE  IndInv'
  <1> USE DEF IndInv
  <1> DEFINE fresh == [state |-> "waiting", owner |-> r, terminal |-> t,
                  revision |-> term[t].revision,
                  generation |-> term[t].generation,
                  attachment |-> frontend.generation,
                  timer |-> "delay", epoch |-> epoch]
  <1>1. PICK evicted \in Evictions :
           enters' = [f \in EnterIds |->
              IF f = e THEN fresh
              ELSE IF f \in evicted THEN Absent ELSE enters[f]]
    BY DEF RequestEnter
  <1>2. evicted \subseteq {f \in EnterIds : ~Waiting(f)}
    BY DEF Evictions
  <1>3. /\ enters'[e].state = "waiting" /\ enters'[e].owner = r
        /\ enters'[e].terminal = t /\ enters'[e].epoch = epoch
        /\ enters'[e].attachment = frontend.generation
    BY <1>1
  <1>4. \A f \in EnterIds \ {e} :
           \/ enters'[f] = enters[f]
           \/ ~Waiting(f) /\ enters'[f].state = "absent"
    BY <1>1, <1>2 DEF Absent
  <1> HIDE DEF fresh
  <1>5. ~Waiting(e) /\ \A f \in EnterIds : Waiting(f) => enters[f].terminal # t
    BY DEF RequestEnter, TerminalFree, Recorded, Waiting
  <1>6. OneEnterPerTerminal'
    BY <1>3, <1>4, <1>5 DEF OneEnterPerTerminal, Waiting
  <1>7. /\ term'[t].pending /\ term'[t].state = term[t].state
        /\ \A u \in Terminals \ {t} : term'[u] = term[u]
    BY DEF RequestEnter, TypeOK, Session
  <1>8. PendingShown'
    BY <1>3, <1>4, <1>5, <1>7 DEF PendingShown, Waiting
  <1>9. EnterOwnerConnected'
    BY <1>3, <1>4 DEF EnterOwnerConnected, Recorded, RequestEnter
  <1>10. AttachmentNoted'
    BY <1>3, <1>4 DEF AttachmentNoted, Recorded, RequestEnter, TypeOK
  <1> QED
    BY <1>6, <1>8, <1>9, <1>10

\* A reader that goes takes its Enters and their flags with it.
LEMMA ReaderClosedInv ==
    ASSUME IndInv, TypeOK', NEW r \in Readers, ReaderClosed(r)
    PROVE  IndInv'
  <1> USE DEF IndInv
  <1>1. \A e \in EnterIds :
           \/ enters[e].owner = r /\ enters'[e].state = "absent"
           \/ enters[e].owner # r /\ enters'[e] = enters[e]
    BY DEF ReaderClosed, Absent
  <1>2. \A t \in Terminals :
           /\ term'[t].state = term[t].state
           /\ term'[t].pending <=> term[t].pending /\ t \notin TitlesOf(r)
    <2> TAKE t \in Terminals
    <2>1. term'[t] = [term[t] EXCEPT !.pending =
                         term[t].pending /\ t \notin TitlesOf(r)]
      BY DEF ReaderClosed
    <2>2. term[t] \in Session
      BY DEF TypeOK
    <2> QED
      BY <2>1, <2>2 DEF Session
  <1>3. OneEnterPerTerminal'
    BY <1>1 DEF OneEnterPerTerminal, Waiting
  <1>4. PendingShown'
    <2> SUFFICES ASSUME NEW t \in Terminals, term'[t].state # "closed"
                 PROVE  term'[t].pending <=> \E e \in EnterIds :
                          enters'[e].state = "waiting"
                             /\ enters'[e].terminal = t
      BY DEF PendingShown, Waiting
    <2>1. term[t].pending <=> \E e \in EnterIds :
                          Waiting(e) /\ enters[e].terminal = t
      BY <1>2 DEF PendingShown
    <2>2. ASSUME term'[t].pending
          PROVE  \E e \in EnterIds : enters'[e].state = "waiting"
                                       /\ enters'[e].terminal = t
      BY <1>1, <1>2, <2>1, <2>2 DEF TitlesOf, Waiting
    <2>3. ASSUME NEW e \in EnterIds, enters'[e].state = "waiting",
                 enters'[e].terminal = t
          PROVE  term'[t].pending
      <3>1. enters[e].owner # r /\ Waiting(e) /\ enters[e].terminal = t
        BY <1>1, <2>3 DEF Waiting
      <3>2. t \notin TitlesOf(r)
        BY <3>1 DEF TitlesOf, OneEnterPerTerminal
      <3> QED
        BY <1>2, <2>1, <3>1, <3>2
    <2> QED
      BY <2>2, <2>3
  <1>5. EnterOwnerConnected'
    BY <1>1 DEF EnterOwnerConnected, Recorded, ReaderClosed
  <1>6. AttachmentNoted'
    BY <1>1 DEF AttachmentNoted, Recorded, ReaderClosed, TypeOK
  <1> QED
    BY <1>3, <1>4, <1>5, <1>6

\* The noted frontend is the one attached now.
LEMMA NotedNow ==
    ASSUME TypeOK, AttachmentNoted
    PROVE  /\ NotedFrontend.generation = epoch
           /\ NotedFrontend.attached <=> epoch % 2 = 1
  <1> DEFINE g == frontend.generation
  <1>1. g \in Nat /\ epoch \in Nat /\ (epoch = g \/ epoch = g + 1)
    BY DEF TypeOK, AttachmentNoted
  <1>2. frontend.attached <=> g % 2 = 1
    BY DEF AttachmentNoted
  <1> HIDE DEF g
  <1>3. epoch = g + 1 => (epoch % 2 = 1 <=> ~(g % 2 = 1))
    BY <1>1
  <1>4. frontend.attached \in BOOLEAN
    BY DEF TypeOK
  <1>5. CASE epoch = g
    BY <1>2, <1>4, <1>5 DEF NotedFrontend, Attached, g
  <1>6. CASE epoch = g + 1
    <2>1. frontend.attached # Attached
      BY <1>2, <1>3, <1>4, <1>6 DEF Attached
    <2> QED
      BY <2>1, <1>6 DEF NotedFrontend, Attached, g
  <1> QED
    BY <1>1, <1>5, <1>6

\* Every step keeps the invariant.
LEMMA NextInv == IndInv /\ [Next]_vars => IndInv'
  <1> SUFFICES ASSUME IndInv, [Next]_vars PROVE IndInv'
    OBVIOUS
  <1>0. TypeOK /\ TypeOK'
    BY NextType DEF IndInv
  <1> USE DEF hostVars, termVars
  <1>1. CASE Top
    BY <1>0, <1>1, NotedType, NotedNow, SyncInv DEF Top, IndInv
  <1>2. pc = "select" => /\ frontend \in [attached : BOOLEAN, generation : Nat]
                         /\ frontend.generation = epoch
                         /\ frontend.attached <=> epoch % 2 = 1
    BY DEF IndInv, TypeOK, AttachmentNoted
  <1>3. CASE ContextTimeout
    BY <1>2, <1>3, SyncInv DEF ContextTimeout
  <1>4. CASE FrameArrives
    BY <1>2, <1>4, SyncInv DEF FrameArrives
  <1>5. ASSUME NEW r \in Readers, Register(r) PROVE IndInv'
    <2>1. EnterOwnerConnected'
      BY <1>5 DEF Register, IndInv, EnterOwnerConnected, Recorded
    <2>2. OneEnterPerTerminal' /\ PendingShown' /\ AttachmentNoted'
      BY <1>0, <1>5 DEF Register, IndInv, OneEnterPerTerminal, PendingShown,
                        AttachmentNoted, Waiting, Recorded, TypeOK
    <2> QED
      BY <1>0, <2>1, <2>2 DEF IndInv
  <1>6. CASE NoEffect
    BY <1>0, <1>6, TermsOnly DEF NoEffect
  <1>7. ASSUME NEW r \in Readers, NEW t \in Terminals, NEW d \in Texts,
               NEW ok \in BOOLEAN, WriteTerminal(r, t, d, ok)
        PROVE IndInv'
    <2>1. term' = [u \in Terminals |-> IF u \in {t} THEN NoteInput(term[u])
                                       ELSE term[u]]
      BY <1>0, <1>7 DEF WriteTerminal, TypeOK
    <2> QED
      BY <1>0, <1>7, <2>1, TermsNoted, TermsOnly DEF WriteTerminal
  <1>8. ASSUME NEW r \in Readers, NEW t \in Terminals, NEW e \in EnterIds,
               RequestEnter(r, t, e)
        PROVE IndInv'
    BY <1>0, <1>8, RequestEnterInv
  <1>9. ASSUME NEW r \in Readers, ReaderClosed(r) PROVE IndInv'
    BY <1>0, <1>9, ReaderClosedInv
  <1>10. CASE AttachOrDetach
    BY <1>0, <1>10 DEF AttachOrDetach, IndInv, OneEnterPerTerminal,
         PendingShown, EnterOwnerConnected, AttachmentNoted, Waiting, Recorded,
         TypeOK
  <1>11. ASSUME NEW t \in Terminals, NEW ok \in BOOLEAN, Type(t, ok)
         PROVE IndInv'
    <2>1. term' = [u \in Terminals |-> IF u \in {t} THEN NoteInput(term[u])
                                       ELSE term[u]]
      BY <1>0, <1>11 DEF Type, TypeOK
    <2> QED
      BY <1>0, <1>11, <2>1, TermsNoted, TermsOnly DEF Type
  <1>12. CASE ApplyOutput
    <2>1. PICK fed \in SUBSET {t \in Terminals : output[t]} :
             term' = [t \in Terminals |->
                           IF t \in fed /\ term[t].state # "closed"
                           THEN NoteChange(term[t]) ELSE term[t]]
      BY <1>12 DEF ApplyOutput
    <2>2. \A t \in Terminals : /\ term'[t].state = term[t].state
                               /\ term'[t].pending = term[t].pending
      BY <1>0, <2>1, NoteChangeType DEF TypeOK
    <2> QED
      BY <1>0, <1>12, <2>2, TermsOnly DEF ApplyOutput
  <1>13. ASSUME NEW t \in Terminals, Reshape(t) PROVE IndInv'
    <2>1. term' = [u \in Terminals |-> IF u \in {t} THEN NoteChange(term[u])
                                       ELSE term[u]]
      BY <1>0, <1>13 DEF Reshape, TypeOK
    <2> QED
      BY <1>0, <1>13, <2>1, TermsNoted, TermsOnly DEF Reshape
  <1>14. ASSUME NEW t \in Terminals, Exited(t) PROVE IndInv'
    <2>1. \A u \in Terminals : term'[u].state # "closed" =>
               /\ term[u].state # "closed"
               /\ term'[u].pending = term[u].pending
      BY <1>0, <1>14 DEF Exited, Live, TypeOK, Session
    <2> QED
      BY <1>0, <1>14, <2>1, TermsOnly DEF Exited
  <1>15. ASSUME NEW t \in Terminals, Close(t) PROVE IndInv'
    <2>1. \A u \in Terminals : term'[u].state # "closed" =>
               /\ term[u].state # "closed"
               /\ term'[u].pending = term[u].pending
      BY <1>0, <1>15 DEF Close, TypeOK, Session
    <2> QED
      BY <1>0, <1>15, <2>1, TermsOnly DEF Close
  <1>16. CASE OtherEvent
    BY <1>0, <1>16, TermsOnly DEF OtherEvent
  <1>17. ASSUME NEW t \in Terminals, WriterTakes(t) PROVE IndInv'
    BY <1>0, <1>17, TermsOnly DEF WriterTakes
  <1>18. ASSUME NEW t \in Terminals, WriterFails(t) PROVE IndInv'
    BY <1>0, <1>18, TermsOnly DEF WriterFails
  <1>19. ASSUME NEW t \in Terminals, ChildWrites(t) PROVE IndInv'
    BY <1>0, <1>19, TermsOnly DEF ChildWrites
  <1>20. ASSUME NEW e \in EnterIds, TimePasses(e) PROVE IndInv'
    <2>1. \A f \in EnterIds :
             /\ enters'[f].owner = enters[f].owner
             /\ enters'[f].terminal = enters[f].terminal
             /\ enters'[f].state = enters[f].state
             /\ enters'[f].attachment = enters[f].attachment
             /\ enters'[f].epoch = enters[f].epoch
      BY <1>0, <1>20 DEF TypeOK, TimePasses, Enter
    <2>2. UNCHANGED <<pc, epoch, frontend, readers, term>>
      BY <1>20 DEF TimePasses
    <2>3. OneEnterPerTerminal' /\ EnterOwnerConnected' /\ AttachmentNoted'
      BY <2>1, <2>2 DEF IndInv, OneEnterPerTerminal, EnterOwnerConnected,
                        AttachmentNoted, Waiting, Recorded
    <2>4. PendingShown'
      BY <2>1, <2>2 DEF IndInv, PendingShown, Waiting
    <2> QED
      BY <1>0, <2>3, <2>4 DEF IndInv
  <1>21. CASE UNCHANGED vars
    BY <1>0, <1>21, TermsOnly DEF vars
  <1> QED
    BY <1>1, <1>3, <1>4, <1>5, <1>6, <1>7, <1>8, <1>9, <1>10, <1>11, <1>12,
       <1>13, <1>14, <1>15, <1>16, <1>17, <1>18, <1>19, <1>20, <1>21
    DEF Next, Request, Event, Outside

\* The first states satisfy the invariant.
LEMMA InitInv == Init => IndInv
  <1> SUFFICES ASSUME Init PROVE IndInv
    OBVIOUS
  <1>1. TypeOK
    BY InitType
  <1>2. \A e \in EnterIds : enters[e].state = "absent"
    BY DEF Init, Absent
  <1>3. OneEnterPerTerminal /\ EnterOwnerConnected
    BY <1>2 DEF OneEnterPerTerminal, EnterOwnerConnected, Waiting, Recorded
  <1>4. PendingShown
    BY <1>2 DEF PendingShown, Waiting, Init
  <1>5. AttachmentNoted
    BY <1>2 DEF AttachmentNoted, Recorded, Init
  <1> QED
    BY <1>1, <1>3, <1>4, <1>5 DEF IndInv

\* The inductive invariant holds in every reachable state.
THEOREM Invariance == Spec => []IndInv
  BY InitInv, NextInv, PTL DEF Spec

\* At most one Enter waits for a terminal, however many readers ask.
THEOREM OneEnter == Spec => []OneEnterPerTerminal
  <1>1. IndInv => OneEnterPerTerminal
    BY DEF IndInv
  <1> QED
    BY <1>1, Invariance, PTL

\* The pane title announces exactly the Enters that wait.
THEOREM TitlesShowEnters == Spec => []PendingShown
  <1>1. IndInv => PendingShown
    BY DEF IndInv
  <1> QED
    BY <1>1, Invariance, PTL

\* No record of an Enter outlives the reader that asked for it.
THEOREM OwnersConnected == Spec => []EnterOwnerConnected
  <1>1. IndInv => EnterOwnerConnected
    BY DEF IndInv
  <1> QED
    BY <1>1, Invariance, PTL

\* An Enter that a pass presses was asked for under the present attachment,
\* by a reader still connected, in a live terminal that has not changed.
LEMMA SyncPresses ==
    ASSUME IndInv, NEW front \in [attached : BOOLEAN, generation : Nat],
           NEW revoked \in SUBSET readers, Sync(front, revoked),
           front.generation = epoch,
           NEW e \in EnterIds, Waiting(e), enters'[e].state = "sent"
    PROVE  /\ epoch = enters[e].epoch
           /\ enters[e].owner \in readers'
           /\ Live(enters[e].terminal) /\ Unchanged(e)
  <1>1. Verdict(e, front, readers \ revoked) = "press"
    BY SyncEnters DEF IndInv
  <1>2. /\ Allowed(e, front, readers \ revoked)
        /\ Live(enters[e].terminal) /\ Unchanged(e)
    BY <1>1 DEF Verdict
  <1>3. Recorded(e)
    BY DEF Recorded, Waiting
  <1>4. epoch = enters[e].epoch
    BY <1>2, <1>3 DEF Allowed, IndInv, AttachmentNoted
  <1>5. readers' = readers \ revoked
    BY DEF Sync
  <1> QED
    BY <1>2, <1>4, <1>5 DEF Allowed

\* Enter is pressed only as it was asked for, in every step of every instance.
THEOREM PressedAsAsked == Spec => EnterPressedAsAsked
  <1> DEFINE Pressed == \A e \in EnterIds :
          Waiting(e) /\ enters'[e].state = "sent" =>
              /\ epoch = enters[e].epoch
              /\ enters[e].owner \in readers'
              /\ Live(enters[e].terminal) /\ Unchanged(e)
  <1>1. ASSUME IndInv, [Next]_vars PROVE [Pressed]_vars
    <2> SUFFICES ASSUME Next, NEW e \in EnterIds, Waiting(e),
                        enters'[e].state = "sent"
                 PROVE  /\ epoch = enters[e].epoch
                        /\ enters[e].owner \in readers'
                        /\ Live(enters[e].terminal) /\ Unchanged(e)
      BY <1>1
    <2>0. TypeOK
      BY <1>1 DEF IndInv
    <2>1. CASE Top
      BY <1>1, <2>0, <2>1, NotedType, NotedNow, SyncPresses DEF Top, IndInv
    <2>2. pc = "select" =>
             /\ frontend \in [attached : BOOLEAN, generation : Nat]
             /\ frontend.generation = epoch
      BY <1>1 DEF IndInv, TypeOK, AttachmentNoted
    <2>3. CASE ContextTimeout \/ FrameArrives
      BY <1>1, <2>2, <2>3, SyncPresses DEF ContextTimeout, FrameArrives
    <2>4. CASE Request \/ Event \/ Outside
      <3>1. \A f \in EnterIds : enters'[f].state \in
                {enters[f].state, "absent", "waiting"}
        <4>1. ASSUME NEW r \in Readers, NEW t \in Terminals, NEW f \in EnterIds,
                     RequestEnter(r, t, f)
              PROVE  \A g \in EnterIds : enters'[g].state \in
                        {enters[g].state, "absent", "waiting"}
          BY <4>1 DEF RequestEnter, Absent
        <4>2. ASSUME NEW r \in Readers, ReaderClosed(r)
              PROVE  \A g \in EnterIds : enters'[g].state \in
                        {enters[g].state, "absent", "waiting"}
          BY <4>2 DEF ReaderClosed, Absent
        <4>3. ASSUME NEW f \in EnterIds, TimePasses(f)
              PROVE  \A g \in EnterIds : enters'[g].state = enters[g].state
          BY <2>0, <4>3 DEF TimePasses, TypeOK, Enter
        <4>4. \/ UNCHANGED enters
              \/ \E r \in Readers, t \in Terminals, f \in EnterIds :
                    RequestEnter(r, t, f)
              \/ \E r \in Readers : ReaderClosed(r)
              \/ \E f \in EnterIds : TimePasses(f)
          BY <2>4 DEF Request, Event, Outside, Register, NoEffect,
               WriteTerminal, AttachOrDetach, Type, ApplyOutput, Reshape,
               Exited, Close, OtherEvent, WriterTakes, WriterFails,
               ChildWrites, hostVars
        <4> QED
          BY <4>1, <4>2, <4>3, <4>4
      <3> QED
        BY <3>1 DEF Waiting
    <2> QED
      BY <2>1, <2>3, <2>4 DEF Next
  <1>2. EnterPressedAsAsked <=> [][Pressed]_vars
    BY DEF EnterPressedAsAsked
  <1> QED
    BY <1>1, <1>2, Invariance, PTL DEF Spec


-----------------------------------------------------------------------------
(* The lines agents queue: what ties a line in the queue of a writer thread  *)
(* to the delivery its reader holds and to the list its session cancels by.  *)

\* A line in a terminal's queue was written, and while it may still be
\* cancelled the session lists it, so typing there finds it.
QueuedLinesListed ==
    \A t \in Terminals : \A i \in DOMAIN input[t] :
        input[t][i].kind = "text" =>
            LET d == input[t][i].text
            IN  /\ d \in Texts /\ delivery[d] # "none"
                /\ delivery[d] = "Queued" => d \in proposals[t]

\* The inductive invariant of the lines.
LinesInv == TypeOK /\ QueuedLineOwned /\ QueuedLinesListed

\* One terminal's queue may lose its head, or grow by something that is not a
\* line: a key only when no listed line is left queued.
QueueMoves(t) ==
    \/ input'[t] = input[t]
    \/ input[t] # <<>> /\ input'[t] \in {<<>>, Tail(input[t])}
    \/ \E x \in {Key, Reply, Return} :
          /\ input'[t] = Append(input[t], x)
          /\ x = Key => \A d \in proposals[t] : delivery'[d] # "Queued"

\* What a queue holds after such a move was in it, in the same order, or is the
\* new last item.
LEMMA QueueMoved ==
    ASSUME TypeOK, NEW t \in Terminals, QueueMoves(t)
    PROVE  \/ \E n \in {0, 1} :
                /\ \A i \in DOMAIN input'[t] :
                      /\ i + n \in DOMAIN input[t]
                      /\ input'[t][i] = input[t][i + n]
           \/ \E x \in {Key, Reply, Return} :
                /\ x = Key => \A d \in proposals[t] : delivery'[d] # "Queued"
                /\ DOMAIN input[t] = 1 .. Len(input[t])
                /\ Len(input[t]) \in Nat
                /\ \A i \in DOMAIN input'[t] :
                      \/ i \in DOMAIN input[t] /\ input'[t][i] = input[t][i]
                      \/ i = Len(input[t]) + 1 /\ input'[t][i] = x
  <1>1. input[t] \in Seq(Input)
    BY DEF TypeOK
  <1>2. CASE input'[t] = input[t]
    <2>1. \A i \in DOMAIN input'[t] :
             /\ i + 0 \in DOMAIN input[t]
             /\ input'[t][i] = input[t][i + 0]
      BY <1>1, <1>2
    <2> QED
      BY <2>1
  <1>3. CASE input[t] # <<>> /\ input'[t] = <<>>
    <2>1. \A i \in DOMAIN input'[t] : FALSE
      BY <1>3
    <2> QED
      BY <2>1
  <1>4. CASE input[t] # <<>> /\ input'[t] = Tail(input[t])
    <2>1. \A i \in DOMAIN input'[t] :
             /\ i + 1 \in DOMAIN input[t]
             /\ input'[t][i] = input[t][i + 1]
      BY <1>1, <1>4
    <2> QED
      BY <2>1
  <1>5. ASSUME NEW x \in {Key, Reply, Return}, input'[t] = Append(input[t], x),
               x = Key => \A d \in proposals[t] : delivery'[d] # "Queued"
        PROVE  /\ DOMAIN input[t] = 1 .. Len(input[t])
               /\ Len(input[t]) \in Nat
               /\ \A i \in DOMAIN input'[t] :
                     \/ i \in DOMAIN input[t] /\ input'[t][i] = input[t][i]
                     \/ i = Len(input[t]) + 1 /\ input'[t][i] = x
    BY <1>1, <1>5
  <1> QED
    BY <1>2, <1>3, <1>4, <1>5 DEF QueueMoves

\* A step that queues no line keeps the invariant, when the lines it leaves
\* queued keep their owner and their place in the session's list.
LEMMA NoLineAdded ==
    ASSUME LinesInv, TypeOK',
           \A d \in Texts :
              /\ delivery'[d] = "Queued" =>
                    /\ delivery[d] = "Queued"
                    /\ frontend'.attached
                    /\ \E r \in readers' :
                          <<d, frontend'.generation>> \in writes'[r]
              /\ delivery'[d] = "none" => delivery[d] = "none",
           \A t \in Terminals : \A d \in proposals[t] :
              delivery'[d] = "Queued" => d \in proposals'[t],
           \A t \in Terminals : QueueMoves(t)
    PROVE  LinesInv'
  <1> USE DEF LinesInv
  <1> DEFINE Kept(t) ==
        /\ \A i \in DOMAIN input'[t] : input'[t][i].kind = "text" =>
              LET d == input'[t][i].text
              IN  /\ d \in Texts /\ delivery'[d] # "none"
                  /\ delivery'[d] = "Queued" => d \in proposals'[t]
        /\ \A i, j \in DOMAIN input'[t] :
              i < j /\ input'[t][i].kind = "text" /\ input'[t][j].kind = "key"
                 => delivery'[input'[t][i].text] # "Queued"
  <1>1. ASSUME NEW t \in Terminals PROVE Kept(t)
    <2>1. \A i \in DOMAIN input[t] : input[t][i].kind = "text" =>
             LET d == input[t][i].text
             IN  /\ d \in Texts /\ delivery'[d] # "none"
                 /\ delivery'[d] = "Queued" =>
                       delivery[d] = "Queued" /\ d \in proposals[t]
                                              /\ d \in proposals'[t]
      BY DEF QueuedLinesListed
    <2>2. \A i, j \in DOMAIN input[t] :
             i < j /\ input[t][i].kind = "text" /\ input[t][j].kind = "key"
                => delivery'[input[t][i].text] # "Queued"
      BY <2>1 DEF QueuedLineOwned
    <2>3. input[t] \in Seq(Input) /\ input'[t] \in Seq(Input)
      BY DEF TypeOK
    <2>4. \A i \in DOMAIN input[t] : i \in Int
      BY <2>3
    <2>5. ASSUME NEW n \in {0, 1},
                 \A i \in DOMAIN input'[t] :
                      /\ i + n \in DOMAIN input[t]
                      /\ input'[t][i] = input[t][i + n]
          PROVE  Kept(t)
      <3>1. \A i \in DOMAIN input'[t] : i \in Int
        BY <2>3
      <3> QED
        BY <2>1, <2>2, <2>4, <2>5, <3>1
    <2>6. ASSUME NEW x \in {Key, Reply, Return},
                 x = Key => \A d \in proposals[t] : delivery'[d] # "Queued",
                 DOMAIN input[t] = 1 .. Len(input[t]), Len(input[t]) \in Nat,
                 \A i \in DOMAIN input'[t] :
                      \/ i \in DOMAIN input[t] /\ input'[t][i] = input[t][i]
                      \/ i = Len(input[t]) + 1 /\ input'[t][i] = x
          PROVE  Kept(t)
      <3>1. x.kind # "text" /\ (x.kind = "key" => x = Key)
        BY DEF Key, Reply, Return
      <3> QED
        BY <2>1, <2>2, <2>6, <3>1
    <2> QED
      BY <2>5, <2>6, QueueMoved
  <1>2. QueuedLineOwned'
    BY <1>1 DEF QueuedLineOwned
  <1>3. QueuedLinesListed'
    BY <1>1 DEF QueuedLinesListed
  <1> QED
    BY <1>2, <1>3

\* A pass leaves queued only the lines whose reader stays connected under the
\* attachment it has noted.
LEMMA SyncLines ==
    ASSUME LinesInv, TypeOK', NEW front \in [attached : BOOLEAN, generation : Nat],
           NEW revoked \in SUBSET readers, Sync(front, revoked)
    PROVE  LinesInv'
  <1> DEFINE after == CancelQueued(delivery, LostTexts(revoked, front))
  <1>1. PICK accepts \in SUBSET Terminals :
          /\ frontend' = front
          /\ readers' = readers \ revoked
          /\ delivery' = after
          /\ writes' = [r \in Readers |->
                IF r \in readers \ revoked
                THEN {w \in writes[r] : after[w[1]] \in {"Queued", "Writing"}}
                ELSE {}]
          /\ input' = [t \in Terminals |->
                IF t \in accepts THEN Append(input[t], Return) ELSE input[t]]
          /\ proposals' = proposals
    <2>1. SUBSET {t \in PressedBy(front, readers \ revoked) : MayWrite(t)}
             \subseteq SUBSET Terminals
      BY DEF PressedBy
    <2> QED
      BY <2>1 DEF Sync
  <1>2. ASSUME NEW d \in Texts
        PROVE  /\ delivery'[d] = "Queued" =>
                     /\ delivery[d] = "Queued"
                     /\ frontend'.attached
                     /\ \E r \in readers' :
                           <<d, frontend'.generation>> \in writes'[r]
               /\ delivery'[d] = "none" => delivery[d] = "none"
    <2>1. /\ delivery'[d] = "Queued" =>
                delivery[d] = "Queued" /\ d \notin LostTexts(revoked, front)
          /\ delivery'[d] = "none" => delivery[d] = "none"
      BY <1>1 DEF CancelQueued
    <2>2. SUFFICES ASSUME delivery'[d] = "Queued"
                   PROVE  /\ front.attached
                          /\ \E r \in readers' :
                                <<d, front.generation>> \in writes'[r]
      BY <1>1, <2>1
    <2>3. PICK r \in readers : <<d, frontend.generation>> \in writes[r]
      BY <2>1, <2>2 DEF LinesInv, QueuedLineOwned
    <2>4. r \in Readers /\ r \notin revoked /\ front.attached
            /\ frontend.generation = front.generation
      BY <2>1, <2>2, <2>3 DEF LostTexts, LinesInv, TypeOK
    <2>5. <<d, front.generation>> \in writes'[r]
      BY <1>1, <2>2, <2>3, <2>4
    <2> QED
      BY <1>1, <2>3, <2>4, <2>5
  <1>3. \A t \in Terminals : QueueMoves(t)
    <2>1. Return # Key
      BY DEF Return, Key
    <2> QED
      BY <1>1, <2>1 DEF QueueMoves
  <1> HIDE DEF after
  <1> QED
    BY <1>1, <1>2, <1>3, NoLineAdded

\* Cancelling the queued lines of some terminals leaves the others listed.
LEMMA CancelledLines ==
    ASSUME LinesInv, NEW T \in SUBSET Terminals, CancelProposals(T),
           UNCHANGED <<frontend, readers, writes>>
    PROVE  /\ \A d \in Texts :
                /\ delivery'[d] = "Queued" =>
                      /\ delivery[d] = "Queued"
                      /\ frontend'.attached
                      /\ \E r \in readers' :
                            <<d, frontend'.generation>> \in writes'[r]
                /\ delivery'[d] = "none" => delivery[d] = "none"
           /\ \A t \in Terminals : \A d \in proposals[t] :
                delivery'[d] = "Queued" => t \notin T /\ d \in proposals'[t]
  <1>1. ASSUME NEW d \in Texts
        PROVE  /\ delivery'[d] = "Queued" => delivery[d] = "Queued"
               /\ delivery'[d] = "none" => delivery[d] = "none"
               /\ \A t \in T : d \in proposals[t] => delivery'[d] # "Queued"
    BY DEF CancelProposals, CancelQueued
  <1>2. \A t \in Terminals \ T : proposals'[t] = proposals[t]
    BY DEF CancelProposals
  <1>3. \A t \in Terminals : proposals[t] \subseteq Texts
    BY DEF LinesInv, TypeOK
  <1> QED
    BY <1>1, <1>2, <1>3 DEF LinesInv, QueuedLineOwned

\* A new line is listed, owned and last in its queue; its delivery was unused,
\* so no other queue holds it.
LEMMA WriteLines ==
    ASSUME LinesInv, TypeOK', NEW r \in Readers, NEW t \in Terminals,
           NEW d \in Texts, NEW ok \in BOOLEAN, WriteTerminal(r, t, d, ok)
    PROVE  LinesInv'
  <1> USE DEF LinesInv
  <1>1. /\ delivery[d] = "none" /\ r \in readers /\ frontend.attached
        /\ UNCHANGED <<frontend, readers>>
    BY DEF WriteTerminal
  <1>2. CASE ~ok
    <2>1. /\ UNCHANGED <<delivery, input, writes>>
          /\ proposals' = [proposals EXCEPT
                              ![t] = Unfinished(delivery, proposals[t])]
      BY <1>2 DEF WriteTerminal
    <2>2. \A u \in Terminals : \A x \in proposals[u] :
             delivery'[x] = "Queued" => x \in proposals'[u]
      BY <2>1 DEF Unfinished, TypeOK
    <2>3. \A u \in Terminals : QueueMoves(u)
      BY <2>1 DEF QueueMoves
    <2>4. \A x \in Texts : delivery'[x] = "Queued" =>
             /\ frontend'.attached
             /\ \E q \in readers' : <<x, frontend'.generation>> \in writes'[q]
      BY <1>1, <2>1 DEF QueuedLineOwned
    <2> QED
      BY <2>1, <2>2, <2>3, <2>4, NoLineAdded
  <1>3. CASE ok
    <2> DEFINE kept == Unfinished(delivery, proposals[t])
    <2> DEFINE mine == {w \in writes[r] :
                           delivery[w[1]] \in {"Queued", "Writing"}}
    <2>1. /\ proposals' = [proposals EXCEPT ![t] = kept \union {d}]
          /\ delivery' = [delivery EXCEPT ![d] = "Queued"]
          /\ input' = [input EXCEPT ![t] = Append(@, Line(d))]
          /\ writes' = [writes EXCEPT ![r] =
                           mine \union {<<d, frontend.generation>>}]
      BY <1>3 DEF WriteTerminal
    <2>2. /\ \A x \in Texts : delivery'[x] =
                IF x = d THEN "Queued" ELSE delivery[x]
          /\ \A u \in Terminals :
                /\ u # t => input'[u] = input[u] /\ proposals'[u] = proposals[u]
                /\ u = t => input'[u] = Append(input[u], Line(d))
          /\ d \in proposals'[t]
      BY <2>1 DEF TypeOK
    <2>3. \A x \in proposals[t] : delivery[x] = "Queued" => x \in proposals'[t]
      BY <2>1 DEF TypeOK, Unfinished
    <2>4. ASSUME NEW x \in Texts, delivery'[x] = "Queued"
          PROVE  \E q \in readers : <<x, frontend.generation>> \in writes'[q]
      <3>1. CASE x = d
        <4>1. <<x, frontend.generation>> \in writes'[r]
          BY <2>1, <3>1 DEF TypeOK
        <4> QED
          BY <1>1, <4>1
      <3>2. CASE x # d
        <4>1. delivery[x] = "Queued"
          BY <2>2, <2>4, <3>2
        <4>2. PICK q \in readers : <<x, frontend.generation>> \in writes[q]
          BY <4>1 DEF QueuedLineOwned
        <4>3. <<x, frontend.generation>>[1] = x
          OBVIOUS
        <4>4. q = r => <<x, frontend.generation>> \in mine
          BY <4>1, <4>2, <4>3
        <4>5. q \in Readers
          BY DEF TypeOK
        <4>6. <<x, frontend.generation>> \in writes'[q]
          BY <2>1, <4>2, <4>4, <4>5 DEF TypeOK
        <4> QED
          BY <4>6
      <3> QED
        BY <3>1, <3>2
    <2> HIDE DEF kept, mine
    <2>5. ASSUME NEW u \in Terminals, NEW i \in DOMAIN input[u],
                 input[u][i].kind = "text"
          PROVE  LET x == input[u][i].text
                 IN  /\ x \in Texts /\ x # d
                     /\ delivery'[x] = delivery[x] /\ delivery[x] # "none"
                     /\ delivery[x] = "Queued" => x \in proposals'[u]
      <3>1. LET x == input[u][i].text
            IN  /\ x \in Texts /\ delivery[x] # "none"
                /\ delivery[x] = "Queued" => x \in proposals[u]
        BY <2>5 DEF QueuedLinesListed
      <3> QED
        BY <1>1, <2>2, <2>3, <3>1
    <2>6. ASSUME NEW u \in Terminals, NEW i \in DOMAIN input'[u]
          PROVE  \/ /\ i \in DOMAIN input[u] /\ input'[u][i] = input[u][i]
                    /\ i \in Int
                 \/ /\ u = t /\ i = Len(input[u]) + 1 /\ i \in Int
                    /\ input'[u][i] = Line(d)
                    /\ DOMAIN input[u] = 1 .. Len(input[u])
                    /\ Len(input[u]) \in Nat
      <3>1. input[u] \in Seq(Input) /\ Line(d) \in Input
        BY DEF TypeOK, Line, Input
      <3>2. CASE u = t
        BY <2>2, <3>1, <3>2
      <3>3. CASE u # t
        BY <2>2, <3>1, <3>3
      <3> QED
        BY <3>2, <3>3
    <2>7. Line(d).kind = "text" /\ Line(d).text = d
      BY DEF Line
    <2>8. QueuedLinesListed'
      <3> SUFFICES ASSUME NEW u \in Terminals, NEW i \in DOMAIN input'[u],
                          input'[u][i].kind = "text"
                   PROVE  LET x == input'[u][i].text
                          IN  /\ x \in Texts /\ delivery'[x] # "none"
                              /\ delivery'[x] = "Queued" => x \in proposals'[u]
        BY DEF QueuedLinesListed
      <3>1. CASE i \in DOMAIN input[u] /\ input'[u][i] = input[u][i]
        BY <2>5, <3>1
      <3>2. CASE u = t /\ input'[u][i] = Line(d)
        BY <2>2, <2>7, <3>2
      <3> QED
        BY <2>6, <3>1, <3>2
    <2>9. ASSUME NEW u \in Terminals, NEW i \in DOMAIN input'[u],
                 NEW j \in DOMAIN input'[u], i < j,
                 input'[u][i].kind = "text", input'[u][j].kind = "key"
          PROVE  delivery'[input'[u][i].text] # "Queued"
      <3>1. /\ j \in DOMAIN input[u] /\ input'[u][j] = input[u][j]
            /\ i \in DOMAIN input[u] /\ input'[u][i] = input[u][i]
        BY <2>6, <2>7, <2>9
      <3>2. delivery[input[u][i].text] # "Queued"
        BY <2>9, <3>1 DEF QueuedLineOwned
      <3> QED
        BY <2>5, <2>9, <3>1, <3>2
    <2>10. QueuedLineOwned'
      BY <1>1, <2>4, <2>9 DEF QueuedLineOwned
    <2> QED
      BY <2>8, <2>10
  <1> QED
    BY <1>2, <1>3

\* A reader that goes takes its queued lines with it; the lines that stay
\* queued belong to others.
LEMMA ClosedLines ==
    ASSUME LinesInv, TypeOK', NEW r \in Readers, ReaderClosed(r)
    PROVE  LinesInv'
  <1> USE DEF LinesInv
  <1>1. /\ delivery' = CancelQueued(delivery, {w[1] : w \in writes[r]})
        /\ readers' = readers \ {r}
        /\ writes' = [writes EXCEPT ![r] = {}]
        /\ UNCHANGED <<frontend, proposals, input>>
    BY DEF ReaderClosed
  <1>2. ASSUME NEW d \in Texts
        PROVE  /\ delivery'[d] = "Queued" =>
                     /\ delivery[d] = "Queued"
                     /\ frontend'.attached
                     /\ \E q \in readers' :
                           <<d, frontend'.generation>> \in writes'[q]
               /\ delivery'[d] = "none" => delivery[d] = "none"
    <2>1. /\ delivery'[d] = "Queued" =>
                delivery[d] = "Queued" /\ d \notin {w[1] : w \in writes[r]}
          /\ delivery'[d] = "none" => delivery[d] = "none"
      BY <1>1 DEF CancelQueued
    <2>2. ASSUME delivery'[d] = "Queued"
          PROVE  \E q \in readers' : <<d, frontend.generation>> \in writes'[q]
      <3>1. PICK q \in readers : <<d, frontend.generation>> \in writes[q]
        BY <2>1, <2>2 DEF QueuedLineOwned
      <3>2. <<d, frontend.generation>>[1] = d
        OBVIOUS
      <3>3. q # r
        BY <2>1, <2>2, <3>1, <3>2
      <3>4. q \in readers' /\ writes'[q] = writes[q]
        BY <1>1, <3>1, <3>3 DEF TypeOK
      <3> QED
        BY <3>1, <3>4
    <2>3. delivery'[d] = "Queued" => frontend'.attached
      BY <1>1, <2>1 DEF QueuedLineOwned
    <2> QED
      BY <1>1, <2>1, <2>2, <2>3
  <1>3. \A t \in Terminals : QueueMoves(t)
    BY <1>1 DEF QueueMoves
  <1> QED
    BY <1>1, <1>2, <1>3, NoLineAdded

\* Steps that touch neither a line nor a queue keep the invariant; a reader
\* more takes nothing from the others.
LEMMA LinesUntouched ==
    ASSUME LinesInv, TypeOK', readers \subseteq readers',
           UNCHANGED <<frontend, writes, proposals, delivery, input>>
    PROVE  LinesInv'
  BY DEF LinesInv, QueuedLineOwned, QueuedLinesListed

\* Typing, output, an exit and a close cancel what is queued there first.
LEMMA CancellingLines ==
    ASSUME LinesInv, TypeOK', NEW T \in SUBSET Terminals, CancelProposals(T),
           UNCHANGED <<frontend, readers, writes>>,
           \A t \in Terminals :
              \/ input'[t] = input[t]
              \/ input'[t] = Append(input[t], Reply)
              \/ t \in T /\ input'[t] = Append(input[t], Key)
    PROVE  LinesInv'
  <1>1. /\ \A d \in Texts :
              /\ delivery'[d] = "Queued" =>
                    /\ delivery[d] = "Queued"
                    /\ frontend'.attached
                    /\ \E r \in readers' :
                          <<d, frontend'.generation>> \in writes'[r]
              /\ delivery'[d] = "none" => delivery[d] = "none"
        /\ \A t \in Terminals : \A d \in proposals[t] :
              delivery'[d] = "Queued" => t \notin T /\ d \in proposals'[t]
    BY CancelledLines
  <1>2. ASSUME NEW t \in Terminals PROVE QueueMoves(t)
    <2>1. Reply # Key
      BY DEF Reply, Key
    <2> QED
      BY <1>1, <2>1 DEF QueueMoves
  <1> QED
    BY <1>1, <1>2, NoLineAdded

\* The writer thread claims a line, finishes one, or fails with its queue.
LEMMA WriterLines ==
    ASSUME LinesInv, TypeOK', NEW t \in Terminals,
           WriterTakes(t) \/ WriterFails(t)
    PROVE  LinesInv'
  <1> USE DEF LinesInv
  <1>1. UNCHANGED <<frontend, readers, writes, proposals>>
    BY DEF WriterTakes, WriterFails, hostVars
  <1>2. /\ \A u \in Terminals : QueueMoves(u)
        /\ \A d \in Texts :
              /\ delivery'[d] = "Queued" => delivery[d] = "Queued"
              /\ delivery'[d] = "none" => delivery[d] = "none"
    <2>1. CASE WriterTakes(t)
      <3> DEFINE item == Head(input[t])
      <3>1. CASE item.kind = "text" /\ delivery[item.text] = "Queued"
        <4>1. /\ delivery' = [delivery EXCEPT ![item.text] = "Writing"]
              /\ input' = input
          BY <2>1, <3>1 DEF WriterTakes
        <4> HIDE DEF item
        <4> QED
          BY <4>1 DEF QueueMoves, TypeOK
      <3>2. CASE ~(item.kind = "text" /\ delivery[item.text] = "Queued")
        <4>1. /\ input' = [input EXCEPT ![t] = Tail(@)]
              /\ delivery' \in {delivery,
                                [delivery EXCEPT ![item.text] = "Delivered"]}
              /\ input[t] # <<>>
          BY <2>1, <3>2 DEF WriterTakes
        <4> HIDE DEF item
        <4> QED
          BY <4>1 DEF QueueMoves, TypeOK
      <3> QED
        BY <3>1, <3>2
    <2>2. CASE WriterFails(t)
      <3>1. input' = [input EXCEPT ![t] = <<>>] /\ input[t] # <<>>
        BY <2>2 DEF WriterFails
      <3>2. \A d \in Texts :
               delivery'[d] \in {delivery[d], "Cancelled", "OutcomeUnknown"}
        BY <2>2 DEF WriterFails
      <3> QED
        BY <3>1, <3>2 DEF QueueMoves, TypeOK
    <2> QED
      BY <2>1, <2>2
  <1>3. \A d \in Texts : delivery'[d] = "Queued" =>
           /\ frontend'.attached
           /\ \E r \in readers' : <<d, frontend'.generation>> \in writes'[r]
    BY <1>1, <1>2 DEF QueuedLineOwned
  <1> QED
    BY <1>1, <1>2, <1>3, NoLineAdded

\* Every step keeps what is known of the queued lines.
LEMMA NextLines == LinesInv /\ [Next]_vars => LinesInv'
  <1> SUFFICES ASSUME LinesInv, [Next]_vars PROVE LinesInv'
    OBVIOUS
  <1>0. TypeOK /\ TypeOK'
    BY NextType DEF LinesInv
  <1> USE DEF hostVars, termVars
  <1>1. CASE Top
    BY <1>0, <1>1, NotedType, SyncLines DEF Top
  <1>2. CASE ContextTimeout \/ FrameArrives
    BY <1>0, <1>2, SyncLines DEF ContextTimeout, FrameArrives, TypeOK
  <1>3. ASSUME NEW r \in Readers, NEW t \in Terminals, NEW d \in Texts,
               NEW ok \in BOOLEAN, WriteTerminal(r, t, d, ok)
        PROVE  LinesInv'
    BY <1>0, <1>3, WriteLines
  <1>4. ASSUME NEW r \in Readers, ReaderClosed(r) PROVE LinesInv'
    BY <1>0, <1>4, ClosedLines
  <1>5. ASSUME NEW t \in Terminals, NEW ok \in BOOLEAN, Type(t, ok)
        PROVE  LinesInv'
    <2>1. \A u \in Terminals :
             \/ input'[u] = input[u]
             \/ u \in {t} /\ input'[u] = Append(input[u], Key)
      BY <1>0, <1>5 DEF Type, TypeOK
    <2>2. {t} \in SUBSET Terminals /\ CancelProposals({t})
            /\ UNCHANGED <<frontend, readers, writes>>
      BY <1>5 DEF Type
    <2> QED
      BY <1>0, <2>1, <2>2, CancellingLines
  <1>6. CASE ApplyOutput
    <2>1. PICK fed \in SUBSET {t \in Terminals : output[t]} :
             \E modes \in SUBSET fed,
                replies \in SUBSET {t \in fed : MayWrite(t)} :
                /\ CancelProposals(modes)
                /\ input' = [t \in Terminals |-> IF t \in replies
                                THEN Append(input[t], Reply) ELSE input[t]]
      BY <1>6 DEF ApplyOutput
    <2>2. PICK modes \in SUBSET fed,
               replies \in SUBSET {t \in fed : MayWrite(t)} :
                /\ CancelProposals(modes)
                /\ input' = [t \in Terminals |-> IF t \in replies
                                THEN Append(input[t], Reply) ELSE input[t]]
      BY <2>1
    <2>3. modes \in SUBSET Terminals
      OBVIOUS
    <2>4. \A t \in Terminals :
             input'[t] = input[t] \/ input'[t] = Append(input[t], Reply)
      BY <2>2
    <2>5. UNCHANGED <<frontend, readers, writes>>
      BY <1>6 DEF ApplyOutput
    <2> QED
      BY <1>0, <2>2, <2>3, <2>4, <2>5, CancellingLines
  <1>7. ASSUME NEW t \in Terminals, Exited(t) \/ Close(t) PROVE LinesInv'
    <2>1. /\ {t} \in SUBSET Terminals /\ CancelProposals({t})
          /\ UNCHANGED <<frontend, readers, writes, input>>
      BY <1>7 DEF Exited, Close
    <2> QED
      BY <1>0, <2>1, CancellingLines
  <1>8. ASSUME NEW t \in Terminals, WriterTakes(t) \/ WriterFails(t)
        PROVE  LinesInv'
    BY <1>0, <1>8, WriterLines
  <1>9. ASSUME \/ \E r \in Readers : Register(r)
               \/ NoEffect
               \/ \E r \in Readers, t \in Terminals, e \in EnterIds :
                     RequestEnter(r, t, e)
               \/ AttachOrDetach \/ OtherEvent
               \/ \E t \in Terminals : Reshape(t) \/ ChildWrites(t)
               \/ \E e \in EnterIds : TimePasses(e)
               \/ UNCHANGED vars
        PROVE  LinesInv'
    <2>1. /\ readers \subseteq readers'
          /\ UNCHANGED <<frontend, writes, proposals, delivery, input>>
      BY <1>9 DEF Register, NoEffect, RequestEnter, AttachOrDetach, OtherEvent,
                  Reshape, ChildWrites, TimePasses, vars
    <2> QED
      BY <1>0, <2>1, LinesUntouched
  <1> QED
    BY <1>1, <1>2, <1>3, <1>4, <1>5, <1>6, <1>7, <1>8, <1>9
    DEF Next, Request, Event, Outside

\* A line the writer may still claim is owned, under the attachment of this
\* moment, and no key waits behind it, in every reachable state of every
\* instance.
THEOREM QueuedLinesOwned == Spec => []QueuedLineOwned
  <1>1. Init => LinesInv
    <2> SUFFICES ASSUME Init PROVE QueuedLineOwned /\ QueuedLinesListed
      BY InitType DEF LinesInv
    <2>1. \A d \in Texts : delivery[d] # "Queued"
      BY DEF Init
    <2>2. \A t \in Terminals : DOMAIN input[t] = {}
      BY DEF Init
    <2> QED
      BY <2>1, <2>2 DEF QueuedLineOwned, QueuedLinesListed
  <1>2. LinesInv => QueuedLineOwned
    BY DEF LinesInv
  <1> QED
    BY <1>1, <1>2, NextLines, PTL DEF Spec
=============================================================================
