------------------------------ MODULE Endpoint ------------------------------
(***************************************************************************)
(* Publication of the endpoint of one workspace on Unix                    *)
(* (workspace/transport.rs, and the end of the host's loop in cli.rs).     *)
(*                                                                         *)
(* Host processes of one workspace bind, publish, retire and crash; a      *)
(* session listing scans the registry without any lock; a person stops a   *)
(* host that speaks another protocol.  What they share are files: the      *)
(* identity lock (a flock, which the system drops with its process), the   *)
(* endpoint directory, the socket, endpoint.json and the row of the host   *)
(* registry.  A file is the host that wrote it, or None.  A host process   *)
(* stands for its pid: pids are not reused here.  Names, namespaces, the   *)
(* second and the owner-wide registry (each behaves like the one row) and  *)
(* the permission checks are left out.                                     *)
(***************************************************************************)
EXTENDS Naturals, FiniteSets

CONSTANTS
    Hosts,          \* host processes started for this workspace
    None,           \* no such file, no holder
    MaxFailures,    \* bound: failures of a write while binding
    MaxCrashes      \* bound: hosts that die without cleaning up

ASSUME EndpointConstants ==
    /\ None \notin Hosts
    /\ MaxFailures \in Nat
    /\ MaxCrashes \in Nat

VARIABLES
    lock,        \* holder of .host-<id>.lock
    directory,   \* the endpoint directory exists
    socket,      \* the socket file, by whose listener made it
    listening,   \* hosts whose listener is open
    meta,        \* endpoint.json
    row,         \* the registry row
    alive,       \* hosts whose process runs
    step,        \* where each host is
    scan,        \* a listing that found the row of `saw` stale
    stopping,    \* the host a person stops
    failures, crashes,
    torn,        \* a failed bind removed a file that was not its own
    raced        \* a listing removed a row that it had not judged

files == <<directory, socket, meta, row>>
vars == <<lock, directory, socket, listening, meta, row, alive, step, scan,
          stopping, failures, crashes, torn, raced>>

Locked == {"locked", "scanned", "clear", "bound", "registered"}
Failing == {"closing", "unlinking", "forgetting"}
Ended == {"refused", "failed", "stopped", "crashed"}
Steps == {"new", "waiting", "published", "retiring", "unpublished"}
            \cup Locked \cup Failing \cup Ended

NoScan == [saw |-> None, at |-> "idle"]

Init ==
    /\ lock = None /\ directory = FALSE
    /\ socket = None /\ listening = {} /\ meta = None /\ row = None
    /\ alive = {} /\ step = [h \in Hosts |-> "new"]
    /\ scan = NoScan /\ stopping = None
    /\ failures = 0 /\ crashes = 0 /\ torn = FALSE /\ raced = FALSE

Go(h, s) == step' = [step EXCEPT ![h] = s]

\* The process returns an error and exits; its descriptors close.
Leave(h, s) ==
    /\ Go(h, s)
    /\ alive' = alive \ {h}
    /\ listening' = listening \ {h}
    /\ lock' = IF lock = h THEN None ELSE lock

\* remove_registrations_if_matches, remove_registration_if_pid_matches.
RowWithout(h) == IF row = h THEN None ELSE row

\* A connection to the socket file is accepted.
Accepts == socket # None /\ socket \in listening

\* What registered_hosts_in makes of the row.  It removes a row whose
\* endpoint is complete and refuses connections, or is incomplete while the
\* process is gone; it shows one that accepts them.
Complete == meta # None /\ socket # None
RowShown == row # None /\ Complete /\ meta = row /\ Accepts
RowStale ==
    /\ row # None
    /\ ~Accepts
    /\ IF Complete THEN meta = row ELSE row \notin alive

-----------------------------------------------------------------------------
(* LocalEndpoint::bind.                                                    *)

\* Mutant: the directory is made before the lock is taken.
PrepareAtStart == "waiting"

\* The directory is made under the lock: a retiring host removes it under
\* the same lock when it is empty.
PrepareAt == "locked"
PrepareDirectory(at) == directory' = (directory \/ at = PrepareAt)

Start(h) ==
    /\ step[h] = "new"
    /\ Go(h, "waiting")
    /\ alive' = alive \cup {h}
    /\ PrepareDirectory("waiting")
    /\ UNCHANGED <<lock, socket, meta, row, listening, scan, stopping,
                   failures, crashes, torn, raced>>

\* PrivateFileLock: one process at a time holds the identity's lock.
LockFree == lock = None

LockIdentity(h) ==
    /\ step[h] = "waiting" /\ LockFree
    /\ lock' = h
    /\ PrepareDirectory("locked")
    /\ Go(h, "locked")
    /\ UNCHANGED <<socket, listening, meta, row, alive, scan, stopping,
                   failures, crashes, torn, raced>>

\* ensure_no_registered_host: a host the scan shows ends the attempt.  A
\* probe that times out hides it, and keeps its row.
FindRegistered(h) ==
    /\ step[h] = "locked"
    /\ RowShown
    /\ Leave(h, "refused")
    /\ UNCHANGED <<files, scan, stopping, failures, crashes, torn, raced>>

FindNone(h) ==
    /\ step[h] = "locked"
    /\ row' = IF RowStale THEN None ELSE row
    /\ Go(h, "scanned")
    /\ UNCHANGED <<lock, directory, socket, meta, listening, alive, scan,
                   stopping, failures, crashes, torn, raced>>

\* listener_is_live: a socket that answers, or whose recorded host runs.
SocketInUse == socket # None /\ (Accepts \/ meta \in alive)

\* The endpoint is in use, or cannot be made.
Unbindable(h) ==
    \/ step[h] = "scanned" /\ SocketInUse
    \/ step[h] = "clear" /\ (~directory \/ socket # None)

RefuseInUse(h) ==
    /\ Unbindable(h)
    /\ Leave(h, "refused")
    /\ UNCHANGED <<files, scan, stopping, failures, crashes, torn, raced>>

\* remove_stale_unlocked, when there is a socket at all.
ClearStale(h) ==
    /\ step[h] = "scanned"
    /\ ~SocketInUse
    /\ socket' = None
    /\ meta' = IF socket = None THEN meta ELSE None
    /\ row' = IF socket = None THEN row ELSE None
    /\ Go(h, "clear")
    /\ UNCHANGED <<lock, directory, listening, alive, scan, stopping,
                   failures, crashes, torn, raced>>

Listen(h) ==
    /\ step[h] = "clear"
    /\ directory /\ socket = None
    /\ socket' = h
    /\ listening' = listening \cup {h}
    /\ Go(h, "bound")
    /\ UNCHANGED <<lock, directory, meta, row, alive, scan, stopping,
                   failures, crashes, torn, raced>>

\* The mode or the name cannot be set: undone under the lock.
BindFails(h) ==
    /\ step[h] = "bound" /\ failures < MaxFailures
    /\ socket' = None
    /\ failures' = failures + 1
    /\ Leave(h, "failed")
    /\ UNCHANGED <<directory, meta, row, scan, stopping, crashes, torn, raced>>

\* publish_metadata: the rows first, endpoint.json, the readiness marker, last.
Register(h) ==
    /\ step[h] = "bound"
    /\ row' = h
    /\ Go(h, "registered")
    /\ UNCHANGED <<lock, directory, socket, meta, listening, alive, scan,
                   stopping, failures, crashes, torn, raced>>

Publish(h) ==
    /\ step[h] = "registered"
    /\ meta' = h
    /\ lock' = None
    /\ Go(h, "published")
    /\ UNCHANGED <<directory, socket, row, listening, alive, scan, stopping,
                   failures, crashes, torn, raced>>

\* One of the writes failed, the last perhaps after its rename.  The rows go
\* under the lock, unless their removal fails too, of which nobody hears; the
\* listener, the socket and endpoint.json after it.
PublishFails(h) ==
    /\ step[h] \in {"bound", "registered"} /\ failures < MaxFailures
    /\ meta' \in (IF step[h] = "registered" THEN {meta, h} ELSE {meta})
    /\ row' \in {row, RowWithout(h)}
    /\ lock' = None
    /\ failures' = failures + 1
    /\ Go(h, "closing")
    /\ UNCHANGED <<directory, socket, listening, alive, scan, stopping,
                   crashes, torn, raced>>

CloseListener(h) ==
    /\ step[h] = "closing"
    /\ listening' = listening \ {h}
    /\ Go(h, "unlinking")
    /\ UNCHANGED <<lock, files, alive, scan, stopping, failures, crashes,
                   torn, raced>>

UnlinkSocket(h) ==
    /\ step[h] = "unlinking"
    /\ socket' = None
    /\ torn' = (torn \/ socket \notin {None, h})
    /\ Go(h, "forgetting")
    /\ UNCHANGED <<lock, directory, meta, row, listening, alive, scan,
                   stopping, failures, crashes, raced>>

UnlinkMetadata(h) ==
    /\ step[h] = "forgetting"
    /\ meta' = None
    /\ torn' = (torn \/ meta \notin {None, h})
    /\ Leave(h, "failed")
    /\ UNCHANGED <<directory, socket, row, scan, stopping, failures, crashes,
                   raced>>

-----------------------------------------------------------------------------
(* The end of a host.                                                      *)

\* Mutant: a host cleans up what is not its own.
OwnsAnyway(h) == TRUE

\* LocalEndpoint::cleanup, under the lock: the endpoint goes if its metadata
\* or its row is this host's, the row if it is, the directory if it is empty.
Owns(h) == meta = h \/ row = h

CleanUp(h) ==
    /\ LockFree
    /\ socket' = IF Owns(h) THEN None ELSE socket
    /\ meta' = IF Owns(h) THEN None ELSE meta
    /\ row' = RowWithout(h)
    /\ directory' = (directory /\ (socket' # None \/ meta' # None))

\* The loop is left: by a request, a signal or an error.
Shutdown(h) ==
    /\ step[h] = "published"
    /\ Go(h, "retiring")
    /\ UNCHANGED <<lock, files, listening, alive, scan, stopping, failures,
                   crashes, torn, raced>>

\* Unpublished first; the listener still accepts while connections finish.
Unpublish(h) ==
    /\ step[h] = "retiring"
    /\ CleanUp(h)
    /\ Go(h, "unpublished")
    /\ UNCHANGED <<lock, listening, alive, scan, stopping, failures, crashes,
                   torn, raced>>

\* Dropping the server cleans up once more.
DropServer(h) ==
    /\ step[h] = "unpublished"
    /\ CleanUp(h)
    /\ Leave(h, "stopped")
    /\ UNCHANGED <<scan, stopping, failures, crashes, torn, raced>>

\* Mutant: a lock that outlives its process.
LockKept(h) == lock

\* The process dies: its listener and its flock go with it, its files stay.
LockAfterDeath(h) == IF lock = h THEN None ELSE lock

Crash(h) ==
    /\ h \in alive /\ crashes < MaxCrashes
    /\ crashes' = crashes + 1
    /\ Go(h, "crashed")
    /\ alive' = alive \ {h}
    /\ listening' = listening \ {h}
    /\ lock' = LockAfterDeath(h)
    /\ UNCHANGED <<files, scan, stopping, failures, torn, raced>>

-----------------------------------------------------------------------------
(* Processes without a host of their own.                                  *)

\* A listing judges a row stale, reads it again to see that it still names
\* that process, and removes the file.
ScanJudge ==
    /\ scan = NoScan
    /\ RowStale
    /\ scan' = [saw |-> row, at |-> "judged"]
    /\ UNCHANGED <<lock, files, listening, alive, step, stopping, failures,
                   crashes, torn, raced>>

ScanMatch ==
    /\ scan.at = "judged"
    /\ scan' = IF row = scan.saw THEN [scan EXCEPT !.at = "matched"] ELSE NoScan
    /\ UNCHANGED <<lock, files, listening, alive, step, stopping, failures,
                   crashes, torn, raced>>

ScanRemove ==
    /\ scan.at = "matched"
    /\ row' = None
    /\ raced' = (raced \/ row \notin {None, scan.saw})
    /\ scan' = NoScan
    /\ UNCHANGED <<lock, directory, socket, meta, listening, alive, step,
                   stopping, failures, crashes, torn>>

\* terminate_incompatible_host: SIGTERM to the published host, then
\* clear_published_host once its process is gone.
StopHost(h) ==
    /\ stopping = None
    /\ step[h] = "published" /\ meta = h /\ Accepts
    /\ stopping' = h
    /\ Go(h, "retiring")
    /\ UNCHANGED <<lock, files, listening, alive, scan, failures, crashes,
                   torn, raced>>

\* Without metadata everything goes; with it, read_metadata_for_connect asks
\* for the socket too, and the process for which the host was stopped.
ClearsPublished == meta = None \/ (meta = stopping /\ socket # None)

ClearPublished ==
    /\ stopping # None /\ stopping \notin alive /\ LockFree
    /\ socket' = IF ClearsPublished THEN None ELSE socket
    /\ meta' = IF ClearsPublished THEN None ELSE meta
    /\ row' = IF ClearsPublished THEN RowWithout(stopping) ELSE row
    /\ directory' = (directory /\ ~ClearsPublished)
    /\ stopping' = None
    /\ UNCHANGED <<lock, listening, alive, step, scan, failures, crashes,
                   torn, raced>>

Binds(h) ==
    \/ LockIdentity(h) \/ FindRegistered(h) \/ FindNone(h)
    \/ RefuseInUse(h) \/ ClearStale(h) \/ Listen(h)
    \/ BindFails(h) \/ Register(h) \/ Publish(h) \/ PublishFails(h)
    \/ CloseListener(h) \/ UnlinkSocket(h) \/ UnlinkMetadata(h)
Retires(h) == Unpublish(h) \/ DropServer(h)
Scans == ScanJudge \/ ScanMatch \/ ScanRemove

Next ==
    \/ \E h \in Hosts : Start(h) \/ Binds(h) \/ Shutdown(h) \/ Retires(h)
                            \/ Crash(h) \/ StopHost(h)
    \/ Scans \/ ClearPublished

Spec == Init /\ [][Next]_vars

\* A process that has begun to bind or to retire runs on until it dies.
FairSpec == Spec /\ \A h \in Hosts : WF_vars(Binds(h)) /\ WF_vars(Retires(h))

-----------------------------------------------------------------------------
(* Properties.                                                             *)

\* Only a live host holds the lock, and only while it binds.
TypeOK ==
    /\ step \in [Hosts -> Steps]
    /\ {socket, meta, row, lock, stopping, scan.saw} \subseteq Hosts \cup {None}
    /\ listening \subseteq alive
    /\ alive = {h \in Hosts : step[h] \notin Ended \cup {"new"}}
    /\ \A h \in Hosts : (lock = h) = (step[h] \in Locked)

\* A host that serves keeps its own socket, endpoint.json and registry row:
\* neither a predecessor's late cleanup, nor a stop meant for it, nor a newcomer
\* takes them away, so two hosts never serve the workspace at once.  The
\* exceptions are a publication that failed and took a successor's files with it
\* (transport.rs:745-751) and, for the row, a listing that removed it on the
\* strength of what it replaced.
EndpointKept ==
    /\ TypeOK
    /\ ~torn => \A h \in Hosts : step[h] = "published" =>
          /\ socket = h /\ meta = h /\ h \in listening
          /\ raced \/ row = h

\* The row of a host that serves is its own: a listing that found a dead
\* host's row stale does not remove the row that replaced it
\* (remove_registration_if_pid_matches, transport.rs:1374).
RowKept == \A h \in Hosts : step[h] = "published" => row = h

\* A host is turned away only because of another live process: no remains of
\* a dead host, and no cleanup under way, keep a workspace closed.
RefusedOnlyForLive ==
    [][\A h \in Hosts :
          step[h] # "refused" /\ step'[h] = "refused" => alive \ {h} # {}]_vars

\* Every attempt to open the workspace comes to an end: the lock is never
\* left behind, and nobody waits for ever.
Opens ==
    \A h \in Hosts :
        step[h] = "waiting" ~>
            step[h] \in {"published", "retiring", "unpublished"} \cup Ended
=============================================================================
