--------------------------- MODULE EndpointProofs ---------------------------
(* Theorems about Endpoint, for every set of host processes and any number   *)
(* of failures and crashes.                                                  *)
EXTENDS Endpoint, TLAPS

-----------------------------------------------------------------------------
(* The inductive invariant *)

\* The variables TypeOK leaves open.
Shapes ==
    /\ {directory, torn, raced} \subseteq BOOLEAN
    /\ scan \in [saw : Hosts \cup {None}, at : {"idle", "judged", "matched"}]
    /\ scan.saw = None => scan.at = "idle"

\* The steps of a host before, while and after it serves.
Early == {"new", "waiting", "locked", "scanned", "clear"}
Serving == {"bound", "registered", "published"}
Late == {"retiring", "unpublished"} \cup Failing \cup Ended

\* A file names a host only once the host has come to write it, and a host
\* listens only from then on.
WrittenInTurn ==
    \A h \in Hosts :
        /\ socket = h \/ h \in listening => step[h] \notin Early
        /\ row = h => step[h] \notin Early \cup {"bound"}
        /\ meta = h => step[h] \notin Early \cup {"bound", "registered"}

\* Between taking the lock and listening, a host finds the place prepared.
Prepared ==
    \A h \in Hosts :
        /\ step[h] \in Locked => directory
        /\ step[h] = "clear" => socket = None

\* Unless a failed publication has taken files that were not its own: from
\* listening to retiring a host has its socket, the row is its own once
\* written or was removed by a racing listing, and no listing is about to
\* remove the row of a host that has not retired.
Kept ==
    ~torn =>
        /\ \A h \in Hosts : step[h] \in Serving => socket = h /\ h \in listening
        /\ \A h \in Hosts : step[h] \in {"registered", "published"} =>
              row \in {h, None} /\ (raced \/ row = h)
        /\ \A h \in Hosts : step[h] = "published" => meta = h
        /\ scan.saw # None => step[scan.saw] \in Late

\* What every reachable state satisfies.
IndInv == TypeOK /\ Shapes /\ WrittenInTurn /\ Prepared /\ Kept

-----------------------------------------------------------------------------
\* The first states satisfy the invariant.
LEMMA InitInv == Init => IndInv
  <1> SUFFICES ASSUME Init PROVE IndInv
    OBVIOUS
  <1> USE EndpointConstants DEF Init
  <1>1. scan.saw = None /\ scan.at = "idle"
    BY DEF NoScan
  <1>2. \A h \in Hosts : step[h] = "new"
    OBVIOUS
  <1>3. TypeOK
    BY <1>1, <1>2 DEF TypeOK, Steps, Locked, Ended
  <1>4. Shapes
    BY DEF Shapes, NoScan
  <1>5. WrittenInTurn /\ Prepared /\ Kept
    BY <1>1, <1>2 DEF WrittenInTurn, Prepared, Kept, Serving, Locked
  <1> QED
    BY <1>3, <1>4, <1>5 DEF IndInv

\* Every step of a host that binds keeps the invariant.
LEMMA BindsInv ==
    ASSUME IndInv, NEW h \in Hosts, Start(h) \/ Binds(h)
    PROVE  IndInv'
  <1> USE EndpointConstants
      DEF IndInv, TypeOK, Shapes, WrittenInTurn, Prepared, Kept, NoScan,
          Steps, Locked, Failing, Ended, Early, Serving, Late, Go, files
  <1>1. CASE Start(h)
    <2>1. directory' = directory
      BY <1>1, Zenon DEF Start, PrepareDirectory, PrepareAt
    <2> QED
      BY <1>1, <2>1 DEF Start
  <1>2. CASE LockIdentity(h)
    <2>1. directory'
      BY <1>2 DEF LockIdentity, PrepareDirectory, PrepareAt
    <2> QED
      BY <1>2, <2>1 DEF LockIdentity, LockFree
  <1>3. CASE FindRegistered(h)
    BY <1>3 DEF FindRegistered, Leave
  <1>4. CASE FindNone(h)
    BY <1>4 DEF FindNone, RowStale, Accepts, Complete
  <1>5. CASE RefuseInUse(h)
    BY <1>5 DEF RefuseInUse, Unbindable, Leave
  <1>6. CASE ClearStale(h)
    BY <1>6 DEF ClearStale, SocketInUse, Accepts
  <1>7. CASE Listen(h)
    BY <1>7 DEF Listen
  <1>8. CASE BindFails(h)
    BY <1>8 DEF BindFails, Leave
  <1>9. CASE Register(h)
    BY <1>9 DEF Register
  <1>10. CASE Publish(h)
    BY <1>10 DEF Publish
  <1>11. CASE PublishFails(h)
    BY <1>11 DEF PublishFails, RowWithout
  <1>12. CASE CloseListener(h)
    BY <1>12 DEF CloseListener
  <1>13. CASE UnlinkSocket(h)
    <2>1. torn' \in BOOLEAN /\ (torn' <=> torn \/ socket \notin {None, h})
      BY <1>13 DEF UnlinkSocket
    <2> QED
      BY <1>13, <2>1 DEF UnlinkSocket
  <1>14. CASE UnlinkMetadata(h)
    <2>1. torn' \in BOOLEAN /\ (torn' <=> torn \/ meta \notin {None, h})
      BY <1>14 DEF UnlinkMetadata
    <2> QED
      BY <1>14, <2>1 DEF UnlinkMetadata, Leave
  <1> QED
    BY <1>1, <1>2, <1>3, <1>4, <1>5, <1>6, <1>7, <1>8, <1>9, <1>10, <1>11,
       <1>12, <1>13, <1>14 DEF Binds

\* So does every step of a host that ends.
LEMMA EndsInv ==
    ASSUME IndInv, NEW h \in Hosts,
           Shutdown(h) \/ Retires(h) \/ Crash(h) \/ StopHost(h)
    PROVE  IndInv'
  <1> USE EndpointConstants
      DEF IndInv, TypeOK, Shapes, WrittenInTurn, Prepared, Kept, NoScan,
          Steps, Locked, Failing, Ended, Early, Serving, Late, Go, files
  <1>1. CASE Shutdown(h)
    BY <1>1 DEF Shutdown
  <1>2. CASE Unpublish(h)
    BY <1>2 DEF Unpublish, CleanUp, Owns, RowWithout, LockFree
  <1>3. CASE DropServer(h)
    BY <1>3 DEF DropServer, CleanUp, Owns, RowWithout, LockFree, Leave
  <1>4. CASE Crash(h)
    BY <1>4 DEF Crash, LockAfterDeath
  <1>5. CASE StopHost(h)
    BY <1>5 DEF StopHost
  <1> QED
    BY <1>1, <1>2, <1>3, <1>4, <1>5 DEF Retires

\* And every step of a process that only looks on, or stops a host.
LEMMA OthersInv ==
    ASSUME IndInv, Scans \/ ClearPublished
    PROVE  IndInv'
  <1> USE EndpointConstants
      DEF IndInv, TypeOK, Shapes, WrittenInTurn, Prepared, Kept, NoScan,
          Steps, Locked, Failing, Ended, Early, Serving, Late, files
  <1>1. CASE ScanJudge
    BY <1>1 DEF ScanJudge, RowStale, Accepts, Complete
  <1>2. CASE ScanMatch
    BY <1>2 DEF ScanMatch
  <1>3. CASE ScanRemove
    <2>1. raced' \in BOOLEAN /\ (raced' <=> raced \/ row \notin {None, scan.saw})
      BY <1>3 DEF ScanRemove
    <2> QED
      BY <1>3, <2>1 DEF ScanRemove
  <1>4. CASE ClearPublished
    BY <1>4 DEF ClearPublished, ClearsPublished, RowWithout, LockFree
  <1> QED
    BY <1>1, <1>2, <1>3, <1>4 DEF Scans

\* IndInv is an invariant.
THEOREM Invariance == Spec => []IndInv
  <1>1. ASSUME IndInv, [Next]_vars
        PROVE  IndInv'
    <2>1. CASE UNCHANGED vars
      BY <1>1, <2>1
      DEF IndInv, TypeOK, Shapes, WrittenInTurn, Prepared, Kept, vars
    <2> QED
      BY <1>1, <2>1, BindsInv, EndsInv, OthersInv DEF Next
  <1> QED
    BY InitInv, <1>1, PTL DEF Spec

\* A host that serves keeps its socket, its endpoint.json and its row, whatever
\* predecessors, newcomers, listings and stops do at the same time.
THEOREM ServingKept == Spec => []EndpointKept
  <1>1. IndInv => EndpointKept
    BY DEF IndInv, TypeOK, Kept, Serving, EndpointKept
  <1> QED
    BY <1>1, Invariance, PTL

\* Two actions turn a host away, and only the one that takes the step.
LEMMA TurnedAway ==
    ASSUME IndInv, Next, NEW h \in Hosts,
           step[h] # "refused", step'[h] = "refused"
    PROVE  FindRegistered(h) \/ RefuseInUse(h)
  <1> USE DEF IndInv, TypeOK, Go
  <1>1. ASSUME NEW g \in Hosts, Binds(g)
        PROVE  FindRegistered(h) \/ RefuseInUse(h)
    <2>1. CASE FindRegistered(g) \/ RefuseInUse(g)
      BY <2>1 DEF FindRegistered, RefuseInUse, Leave
    <2>2. \/ step' = [step EXCEPT ![g] = step'[g]] /\ step'[g] # "refused"
          \/ FindRegistered(g) \/ RefuseInUse(g)
      BY <1>1
      DEF Binds, LockIdentity, FindNone, ClearStale, Listen, BindFails,
          Register, Publish, PublishFails, CloseListener, UnlinkSocket,
          UnlinkMetadata, Leave
    <2> QED
      BY <2>1, <2>2
  <1>2. ASSUME NEW g \in Hosts,
               Start(g) \/ Shutdown(g) \/ Retires(g) \/ Crash(g) \/ StopHost(g)
        PROVE  step'[h] # "refused" \/ step'[h] = step[h]
    BY <1>2
    DEF Start, Shutdown, Retires, Unpublish, DropServer, Leave, Crash, StopHost
  <1>3. ASSUME Scans \/ ClearPublished
        PROVE  step' = step
    BY <1>3 DEF Scans, ScanJudge, ScanMatch, ScanRemove, ClearPublished
  <1> QED
    BY <1>1, <1>2, <1>3 DEF Next

\* A host is refused only because of another live process.
THEOREM RefusedForLive == Spec => RefusedOnlyForLive
  <1> DEFINE Turned ==
          \A h \in Hosts :
              step[h] # "refused" /\ step'[h] = "refused" => alive \ {h} # {}
  <1>1. ASSUME IndInv, [Next]_vars
        PROVE  [Turned]_vars
    <2> SUFFICES ASSUME Next, NEW h \in Hosts,
                        step[h] # "refused", step'[h] = "refused"
                 PROVE  alive \ {h} # {}
      BY <1>1
    <2>1. FindRegistered(h) \/ RefuseInUse(h)
      BY <1>1, TurnedAway
    <2> USE DEF IndInv, TypeOK, WrittenInTurn, Early
    <2>2. CASE FindRegistered(h)
      BY <1>1, <2>2 DEF FindRegistered, RowShown, Accepts
    <2>3. CASE step[h] = "scanned" /\ SocketInUse
      BY <1>1, <2>3 DEF SocketInUse, Accepts
    <2>4. ~(step[h] = "clear" /\ (~directory \/ socket # None))
      BY <1>1 DEF Prepared, Locked
    <2> QED
      BY <2>1, <2>2, <2>3, <2>4 DEF RefuseInUse, Unbindable
  <1>2. RefusedOnlyForLive <=> [][Turned]_vars
    BY DEF RefusedOnlyForLive
  <1> QED
    BY <1>1, <1>2, Invariance, PTL DEF Spec
=============================================================================
