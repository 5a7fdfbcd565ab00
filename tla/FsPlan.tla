------------------------------- MODULE FsPlan -------------------------------
(***************************************************************************)
(* A filesystem plan (fs_plan.rs, fs_plan/staging.rs): the edited listing  *)
(* of a directory becomes creates, moves, copies and deletes, and `apply`  *)
(* carries them out on a disk that other processes change meanwhile and    *)
(* whose every call may fail.                                              *)
(*                                                                         *)
(* The disk is the function `place` from the entries that exist to where   *)
(* they are: the directory that holds them, their name in it, their kind.  *)
(* A directory is named by its identity, so that what is inside moves with *)
(* it.  A path is a sequence of one or two names below the root.  A        *)
(* staging directory (OwnedTree) is an entry like the others; it has a     *)
(* name of its own, which no path of a plan can spell, and holds its       *)
(* payload under the name Payload.                                         *)
(***************************************************************************)
EXTENDS Integers, FiniteSets, SequencesExt

CONSTANTS
    Originals,        \* entries on disk when the listing is read
    Layout,           \* where they are: [dir, name, kind]
    Root,             \* the directory the plan is about
    Paths,            \* the paths an edited listing may name
    NoName,           \* the name of a staging directory
    MaxOperations,    \* bound: operations of one plan
    MaxDisturbances   \* bound: changes other processes make

Payload == 0

\* No staging directory is in use.
NoTree == [made |-> "none"]

Spot(directories, names) ==
    [dir : directories, name : names, kind : {"file", "dir"}]

\* An entry is a record that says what made it.  The listing shows the root and
\* the directories in it; names are unique in a directory.
ASSUME PlanConstants ==
    /\ MaxOperations \in Nat
    /\ MaxDisturbances \in Nat
    /\ NoName \notin Nat
    /\ Root.made = "root"
    /\ \A e \in Originals : e.made = "original"
    /\ Layout \in [Originals -> Spot(Originals \cup {Root}, Nat \ {Payload})]
    /\ \A e \in Originals : Layout[e].dir # Root =>
          LET d == Layout[e].dir
          IN  Layout[d].dir = Root /\ Layout[d].kind = "dir"
    /\ \A e, f \in Originals :
          Layout[e].dir = Layout[f].dir /\ Layout[e].name = Layout[f].name
          => e = f
    /\ \A p \in Paths : p \in Seq(Nat \ {Payload}) /\ Len(p) \in 1..2

VARIABLES
    plan,         \* operations by class: moves, deletes, creates, copies
    place,        \* the disk
    pc,           \* the phase of apply_with_io_bounded
    todo,         \* operations left in this phase, or in this pass
    deferred,     \* pending steps whose parent is not on disk yet
    progressed,   \* this pass did something
    staged,       \* moves out of their place and not yet published
    using,        \* the staging directory of the step under way
    applied,      \* report.applied
    recovery,     \* report.recovery
    outcome,      \* what apply returned
    gone,         \* entries that other processes removed, or own and lost
    disturbed,    \* changes made by other processes
    faulted       \* a restore failed that nothing stood in the way of

vars == <<plan, place, pc, todo, deferred, progressed, staged, using,
          applied, recovery, outcome, gone, disturbed, faulted>>

-----------------------------------------------------------------------------
(* The disk.                                                               *)

\* X and the directories that hold what is in it on disk p.
WithHolders(p, X) == X \cup {p[x].dir : x \in X \cap DOMAIN p}
ThreeUp(p, X) == WithHolders(p, WithHolders(p, WithHolders(p, X)))

\* The entries of S on disk p, and everything below them: six levels, deeper
\* than the plans that are checked put anything.
Below(p, S) == {x \in DOMAIN p : ThreeUp(p, ThreeUp(p, {x})) \cap S # {}}

\* The directory that holds a path, as a set of at most one.
Parent(path) ==
    IF Len(path) = 1 THEN {Root}
    ELSE {d \in DOMAIN place : /\ place[d].dir = Root
                               /\ place[d].name = path[1]
                               /\ place[d].kind = "dir"}

\* What a path names, as a set of at most one.
Named(d, n) == {x \in DOMAIN place : place[x].dir = d /\ place[x].name = n}
At(path) == UNION {Named(d, Last(path)) : d \in Parent(path)}

\* The disk p without the entries of S.
Without(p, S) == [x \in DOMAIN p \ S |-> p[x]]

\* Mutant: a plain rename, which replaces what has the name.
RenameOver(x, d, n) ==
    LET disk == Without(place, Named(d, n) \ {x})
    IN  IF d # Root /\ d \notin DOMAIN place THEN {}
        ELSE {[disk EXCEPT ![x] = [dir |-> d, name |-> n, kind |-> @.kind]]}

\* The disk after the rename of x to name n of directory d: there is none
\* when the name is taken, the directory is gone, or is inside x.
RenameNoReplace(x, d, n) ==
    IF \/ Named(d, n) # {}
       \/ d # Root /\ d \notin DOMAIN place
       \/ d \in Below(place, {x})
    THEN {} ELSE {[place EXCEPT ![x] = [dir |-> d, name |-> n, kind |-> @.kind]]}

\* The disk after a new entry is made at name n of directory d.
With(x, d, n, k) ==
    [y \in DOMAIN place \cup {x} |->
        IF y = x THEN [dir |-> d, name |-> n, kind |-> k] ELSE place[y]]

Tree(use, path) == [made |-> "tree", use |-> use, path |-> path]
New(path) == [made |-> "new", path |-> path]
Intruder(i) == [made |-> "other", number |-> i]
Removal(i) == [made |-> "removal", number |-> i]
Copied(x, to) == [made |-> "copy", of |-> x, path |-> to]

\* Mutant: what a cleanup keeps is not reported.
CleanupsSilent(p, tree, owned, kind) ==
    {[place |-> p, recovery |-> recovery]}
    \cup (IF tree \in DOMAIN p /\ Below(p, {tree}) = owned \cup {tree}
          THEN {[place |-> Without(p, owned \cup {tree}), recovery |-> recovery]}
          ELSE {})

\* OwnedTree::cleanup on disk p: it removes a staging directory that holds
\* exactly what it should, and any failure is reported and keeps it.
Cleanups(p, tree, owned, kind) ==
    {[place |-> p, recovery |-> recovery \cup {[tree |-> tree, kind |-> kind]}]}
    \cup (IF tree \in DOMAIN p /\ Below(p, {tree}) = owned \cup {tree}
          THEN {[place |-> Without(p, owned \cup {tree}), recovery |-> recovery]}
          ELSE {})

-----------------------------------------------------------------------------
(* Building a plan from an edited listing.                                 *)

Listed == {e \in Originals : Layout[e].dir = Root}
PathOf(e) == IF Layout[e].dir = Root THEN <<Layout[e].name>>
             ELSE <<Layout[Layout[e].dir].name, Layout[e].name>>
StartsWith(path, prefix) == IsPrefix(prefix, path)

\* `of` is the entry whose row the operation comes from; apply never reads it.
Operation(do, from, to, kind, of) ==
    [do |-> do, from |-> from, to |-> to, kind |-> kind, of |-> of]

\* operation_order: shallow paths first, then by name.
Before(p, q) ==
    \/ Len(p) < Len(q)
    \/ /\ Len(p) = Len(q)
       /\ \/ p[1] < q[1]
          \/ p[1] = q[1] /\ Len(p) = 2 /\ p[2] < q[2]
Arrangements(ops) ==
    {s \in BoundedSeq(ops, MaxOperations) : ToSet(s) = ops /\ IsInjective(s)}
InOrder(ops) ==
    {s \in Arrangements(ops) :
        \A i, j \in DOMAIN s : i < j => ~Before(s[j].to, s[i].to)}
InReverse(ops) ==
    {s \in Arrangements(ops) :
        \A i, j \in DOMAIN s : i < j => ~Before(s[i].from, s[j].from)}

\* rows[e] are the rows that still carry the identity of e and main[e] the
\* one that is its primary; transfers are rows cut or copied elsewhere.
Primary(e, rows, main) ==
    \/ rows = {} /\ main = <<>>
    \/ main \in rows /\ (PathOf(e) \in rows => main = PathOf(e))

Deletes(rows) ==
    {Operation("delete", PathOf(e), <<>>, Layout[e].kind, {e}) :
        e \in {x \in Listed : rows[x] = {}}}
Moves(main, transfers) ==
    {Operation("move", PathOf(e), main[e], Layout[e].kind, {e}) :
        e \in {x \in Listed : main[x] \notin {<<>>, PathOf(x)}}}
    \cup {Operation("move", PathOf(t.of), t.to, Layout[t.of].kind, {t.of}) :
        t \in {x \in transfers : x.mode = "move"}}
Copies(rows, main, transfers) ==
    (UNION {{Operation("copy", main[e], path, Layout[e].kind, {e}) :
        path \in rows[e] \ {main[e]}} : e \in Listed})
    \cup {Operation("copy", PathOf(t.of), t.to, Layout[t.of].kind, {t.of}) :
        t \in {x \in transfers : x.mode = "copy"}}
Creates(news) == {Operation("create", <<>>, n.to, n.kind, {}) : n \in news}

Vacated(moves, deletes) == {op.from : op \in moves \cup deletes}

\* Mutant: a copy of what the plan moves away is let through.
BuildableOverSource(rows, main, transfers, news) ==
    LET moves == Moves(main, transfers)
        copies == Copies(rows, main, transfers)
    IN  /\ \A e, f \in Listed : e # f => rows[e] \cap rows[f] = {}
        /\ \A x \in transfers \cup news, e \in Listed : x.to \notin rows[e]
        /\ \A t \in transfers, n \in news : t.to # n.to
        /\ \A op \in moves \cup copies :
              /\ op.from # op.to
              /\ op.kind = "dir" => ~StartsWith(op.to, op.from)

\* The refusals of build_with_limits: a path named twice, an entry put into
\* itself, a copy of what the plan moves away or deletes.
Buildable(rows, main, transfers, news) ==
    LET moves == Moves(main, transfers)
        copies == Copies(rows, main, transfers)
    IN  /\ \A e, f \in Listed : e # f => rows[e] \cap rows[f] = {}
        /\ \A x \in transfers \cup news, e \in Listed : x.to \notin rows[e]
        /\ \A t \in transfers, n \in news : t.to # n.to
        /\ \A op \in moves \cup copies :
              /\ op.from # op.to
              /\ op.kind = "dir" => ~StartsWith(op.to, op.from)
        /\ \A t \in transfers : t.mode = "copy" =>
              ~ \E v \in Vacated(moves, Deletes(rows)) :
                    StartsWith(PathOf(t.of), v)

Operations(p) == ToSet(p.moves) \cup ToSet(p.deletes)
                    \cup ToSet(p.creates) \cup ToSet(p.copies)

TransferSets == {{}} \cup {{[of |-> e, to |-> p, mode |-> m]} :
                    e \in Originals, p \in Paths, m \in {"move", "copy"}}
NewSets == {{}} \cup {{[to |-> p, kind |-> k]} :
                p \in Paths, k \in {"file", "dir"}}

Init ==
    /\ \E rows \in [Listed -> {S \in SUBSET Paths : Cardinality(S) <= 2}] :
       \E main \in [Listed -> Paths \cup {<<>>}] :
       \E transfers \in TransferSets, news \in NewSets :
          /\ \A e \in Listed : Primary(e, rows[e], main[e])
          /\ Cardinality(Deletes(rows)) + Cardinality(Moves(main, transfers))
             + Cardinality(Copies(rows, main, transfers)) + Cardinality(news)
                \in 1..MaxOperations
          /\ Buildable(rows, main, transfers, news)
          /\ plan \in [moves : InOrder(Moves(main, transfers)),
                       deletes : InReverse(Deletes(rows)),
                       creates : InOrder(Creates(news)),
                       copies : InOrder(Copies(rows, main, transfers))]
    /\ place = Layout
    /\ pc = "built"
    /\ todo = <<>> /\ deferred = <<>> /\ progressed = FALSE
    /\ staged = <<>> /\ using = NoTree
    /\ applied = {} /\ recovery = {} /\ outcome = "none"
    /\ gone = {} /\ disturbed = {} /\ faulted = FALSE

-----------------------------------------------------------------------------
(* The checks before anything is touched.                                  *)

\* The listing shows the same names and kinds as when it was read.
BaselineMatches ==
    {[name |-> place[x].name, kind |-> place[x].kind] :
        x \in {y \in DOMAIN place : place[y].dir = Root}}
    = {[name |-> Layout[e].name, kind |-> Layout[e].kind] : e \in Listed}

\* Every source is the entry it was, with the same entries inside.
SourcesUnchanged ==
    \A op \in Operations(plan) : \A e \in Originals :
        PathOf(e) = op.from =>
            /\ At(op.from) = {e}
            /\ Below(place, {e}) = Below(Layout, {e})

FinalDirectories ==
    {op.to : op \in {o \in Operations(plan) : o.kind = "dir" /\ o.to # <<>>}}

\* A target is free or will be vacated, and its parent is or becomes a
\* directory.
Preflight ==
    LET vacated == Vacated(ToSet(plan.moves), ToSet(plan.deletes))
    IN  \A op \in {o \in Operations(plan) : o.to # <<>>} :
            /\ At(op.to) # {} => op.to \in vacated
            /\ Len(op.to) = 2 =>
                 LET above == <<op.to[1]>>
                 IN  /\ above \in vacated => above \in FinalDirectories
                     /\ \A x \in At(above) : place[x].kind = "dir"
                     /\ At(above) = {} => above \in FinalDirectories

\* existing_target_parent: the directory that becomes the target's parent,
\* where it is now, or the root when it is still to be made.
TargetParent(op) ==
    LET above == <<op.to[1]>>
        movers == {m \in ToSet(plan.moves) : m.kind = "dir" /\ m.to = above}
        now == IF movers = {} THEN above ELSE (CHOOSE m \in movers : TRUE).from
    IN  IF Len(op.to) = 1 \/ At(now) = {} THEN {Root} ELSE At(now)
ProbedParents ==
    (UNION {TargetParent(op) : op \in ToSet(plan.moves) \cup ToSet(plan.copies)})
    \cup (IF plan.moves = <<>> THEN {} ELSE {Root})

Stop(result) == pc' = "done" /\ outcome' = result

\* A check failed, or a read it needs: nothing has been touched.
Refuse ==
    /\ pc = "built"
    /\ Stop("failed")
    /\ UNCHANGED <<plan, place, todo, deferred, progressed, staged, using,
                   applied, recovery, gone, disturbed, faulted>>

\* The plan is as reviewed and every parent takes an exclusive rename.
Verify ==
    /\ pc = "built"
    /\ BaselineMatches /\ SourcesUnchanged /\ Preflight
    /\ pc' = "stage" /\ todo' = plan.moves
    /\ UNCHANGED <<plan, place, deferred, progressed, staged, using,
                   applied, recovery, outcome, gone, disturbed, faulted>>

\* A probe could not be removed: the plan stops, and says where it is.
ProbeRetained ==
    /\ pc = "built"
    /\ BaselineMatches /\ SourcesUnchanged /\ Preflight
    /\ \E d \in ProbedParents :
         place' = With(Tree("probe", <<>>), d, NoName, "dir")
    /\ recovery' = {[tree |-> Tree("probe", <<>>), kind |-> "staging"]}
    /\ Stop("failed")
    /\ UNCHANGED <<plan, todo, deferred, progressed, staged, using, applied,
                   gone, disturbed, faulted>>

-----------------------------------------------------------------------------
(* Moves are staged: out of their place into a directory of their own.     *)

Fail == pc' = "rollback" /\ outcome' = "failed"

\* The identity of the source is read, then a directory is made for it.
StageAllocate ==
    LET op == Head(todo)
    IN  /\ pc = "stage" /\ todo # <<>> /\ using = NoTree
        /\ \E x \in At(op.from) :
             using' = [op |-> op, entry |-> x, tree |-> Tree("move", op.to)]
        /\ place' = With(Tree("move", op.to), Root, NoName, "dir")
        /\ UNCHANGED <<plan, pc, todo, deferred, progressed, staged, applied,
                       recovery, outcome, gone, disturbed, faulted>>

\* The source is gone, or the directory cannot be made.  (One that was made
\* and cannot be identified stays, empty and unreported: see the README.)
StageAllocateFails ==
    /\ pc = "stage" /\ todo # <<>> /\ using = NoTree
    /\ Fail
    /\ UNCHANGED <<plan, place, todo, deferred, progressed, staged, using,
                   applied, recovery, gone, disturbed, faulted>>

StageRename ==
    /\ pc = "stage" /\ using # NoTree
    /\ \E x \in At(using.op.from) :
         place' \in RenameNoReplace(x, using.tree, Payload)
    /\ staged' = Append(staged, using)
    /\ using' = NoTree
    /\ todo' = Tail(todo)
    /\ UNCHANGED <<plan, pc, deferred, progressed, applied, recovery, outcome,
                   gone, disturbed, faulted>>

StageRenameFails ==
    /\ pc = "stage" /\ using # NoTree
    /\ \E c \in Cleanups(place, using.tree, {}, "staging") :
         place' = c.place /\ recovery' = c.recovery
    /\ using' = NoTree
    /\ Fail
    /\ UNCHANGED <<plan, todo, deferred, progressed, staged, applied, gone,
                   disturbed, faulted>>

Staged ==
    /\ pc = "stage" /\ todo = <<>> /\ using = NoTree
    /\ pc' = "delete" /\ todo' = plan.deletes
    /\ UNCHANGED <<plan, place, deferred, progressed, staged, using, applied,
                   recovery, outcome, gone, disturbed, faulted>>

-----------------------------------------------------------------------------
(* Deletes.                                                                *)

\* What is not the user's own original is accounted for here.
Lose(S) == gone' = gone \cup (S \ Originals)

Delete ==
    LET op == Head(todo)
        lost == Below(place, At(op.from))
    IN  /\ pc = "delete" /\ todo # <<>>
        /\ At(op.from) # {}
        /\ place' = Without(place, lost)
        /\ Lose(lost)
        /\ applied' = applied \cup {op}
        /\ todo' = Tail(todo)
        /\ UNCHANGED <<plan, pc, deferred, progressed, staged, using,
                       recovery, outcome, disturbed, faulted>>

\* remove_dir_all may stop halfway: some of what is inside is gone.
DeleteFails ==
    LET op == Head(todo)
        inside == Below(place, At(op.from)) \ At(op.from)
    IN  /\ pc = "delete" /\ todo # <<>>
        /\ \E lost \in {{}, inside} : place' = Without(place, lost) /\ Lose(lost)
        /\ Fail
        /\ UNCHANGED <<plan, todo, deferred, progressed, staged, using,
                       applied, recovery, disturbed, faulted>>

\* Creates come before the staged moves in the list of pending steps.
Deleted ==
    /\ pc = "delete" /\ todo = <<>>
    /\ pc' = "finish"
    /\ todo' = plan.creates \o plan.moves
    /\ progressed' = FALSE
    /\ UNCHANGED <<plan, place, deferred, staged, using, applied, recovery,
                   outcome, gone, disturbed, faulted>>

-----------------------------------------------------------------------------
(* Creates and publications, in passes: each runs the steps whose parent   *)
(* directory is on disk and defers the others.                             *)

ParentIsReady(op) == Parent(op.to) # {}

Ready(do) == pc = "finish" /\ todo # <<>> /\ Head(todo).do = do
                /\ ParentIsReady(Head(todo))

Done(op) == applied' = applied \cup {op} /\ todo' = Tail(todo)
                /\ progressed' = TRUE

Defer ==
    /\ pc = "finish" /\ todo # <<>>
    /\ ~ParentIsReady(Head(todo))
    /\ deferred' = Append(deferred, Head(todo))
    /\ todo' = Tail(todo)
    /\ UNCHANGED <<plan, place, pc, progressed, staged, using, applied,
                   recovery, outcome, gone, disturbed, faulted>>

Create ==
    LET op == Head(todo)
    IN  /\ Ready("create")
        /\ At(op.to) = {}
        /\ \E d \in Parent(op.to) :
             place' = With(New(op.to), d, Last(op.to), op.kind)
        /\ Done(op)
        /\ UNCHANGED <<plan, pc, deferred, staged, using, recovery, outcome,
                       gone, disturbed, faulted>>

CreateFails ==
    /\ Ready("create")
    /\ Fail
    /\ UNCHANGED <<plan, place, todo, deferred, progressed, staged, using,
                   applied, recovery, gone, disturbed, faulted>>

\* StagedMove::check: the payload is the entry that was taken.
Holds(s) == Named(s.tree, Payload) = {s.entry}

\* The staged moves without the one that ended: no two have one operation.
Unfinalized(k) == RemoveAt(staged, k)

Publish ==
    LET op == Head(todo)
    IN  /\ Ready("move")
        /\ \E k \in DOMAIN staged : \E d \in Parent(op.to) :
             LET s == staged[k]
             IN  /\ s.op = op /\ Holds(s)
                 /\ \E disk \in RenameNoReplace(s.entry, d, Last(op.to)) :
                    \E c \in Cleanups(disk, s.tree, {}, "staging") :
                       place' = c.place /\ recovery' = c.recovery
                 /\ staged' = Unfinalized(k)
        /\ Done(op)
        /\ UNCHANGED <<plan, pc, deferred, using, outcome, gone, disturbed,
                       faulted>>

PublishFails ==
    /\ Ready("move")
    /\ Fail
    /\ UNCHANGED <<plan, place, todo, deferred, progressed, staged, using,
                   applied, recovery, gone, disturbed, faulted>>

\* Mutant: another pass is made though the last did nothing.
NextPassAnyway ==
    /\ pc = "finish" /\ todo = <<>>
    /\ deferred # <<>>
    /\ todo' = deferred /\ deferred' = <<>> /\ progressed' = FALSE
    /\ UNCHANGED <<plan, place, pc, staged, using, applied, recovery, outcome,
                   gone, disturbed, faulted>>

\* A pass is over: the next one, the copies, or the plan is stuck.
NextPass ==
    /\ pc = "finish" /\ todo = <<>>
    /\ deferred # <<>> /\ progressed
    /\ todo' = deferred /\ deferred' = <<>> /\ progressed' = FALSE
    /\ UNCHANGED <<plan, place, pc, staged, using, applied, recovery, outcome,
                   gone, disturbed, faulted>>

NoParent ==
    /\ pc = "finish" /\ todo = <<>>
    /\ deferred # <<>> /\ ~progressed
    /\ Fail
    /\ UNCHANGED <<plan, place, todo, deferred, progressed, staged, using,
                   applied, recovery, gone, disturbed, faulted>>

Finalized ==
    /\ pc = "finish" /\ todo = <<>> /\ deferred = <<>>
    /\ pc' = "copy" /\ todo' = plan.copies
    /\ UNCHANGED <<plan, place, deferred, progressed, staged, using, applied,
                   recovery, outcome, gone, disturbed, faulted>>

-----------------------------------------------------------------------------
(* Copies, each made in a staging directory beside its target.             *)

\* The disk with the tree of x copied into a new staging directory in d.
CopyInto(x, op, d) ==
    LET tree == Tree("copy", op.to)
        old == Below(place, {x})
        spot(y) == IF y = x THEN [dir |-> tree, name |-> Payload]
                   ELSE [dir |-> Copied(place[y].dir, op.to),
                         name |-> place[y].name]
        disk == With(tree, d, NoName, "dir")
    IN  [z \in DOMAIN disk \cup {Copied(y, op.to) : y \in old} |->
            IF z \in DOMAIN disk THEN disk[z]
            ELSE LET y == z.of IN [dir |-> spot(y).dir, name |-> spot(y).name,
                                   kind |-> place[y].kind]]

\* copy_entry, the whole tree in one step: others act before it and after it.
CopyEntry ==
    LET op == Head(todo)
    IN  /\ pc = "copy" /\ todo # <<>> /\ using = NoTree
        /\ \E x \in At(op.from), d \in Parent(op.to) :
             /\ place' = CopyInto(x, op, d)
             /\ using' = [op |-> op, entry |-> Copied(x, op.to),
                          tree |-> Tree("copy", op.to),
                          owned |-> {Copied(y, op.to) : y \in Below(place, {x})}]
        /\ UNCHANGED <<plan, pc, todo, deferred, progressed, staged, applied,
                       recovery, outcome, gone, disturbed, faulted>>

\* No staging directory could be made, or it was cleaned up again.
CopyEntryFails ==
    /\ pc = "copy" /\ todo # <<>> /\ using = NoTree
    /\ Stop("failed")
    /\ UNCHANGED <<plan, place, todo, deferred, progressed, staged, using,
                   applied, recovery, gone, disturbed, faulted>>

CopyPublish ==
    /\ pc = "copy" /\ using # NoTree
    /\ \E d \in Parent(using.op.to) :
       \E x \in Named(using.tree, Payload) :
       \E disk \in RenameNoReplace(x, d, Last(using.op.to)) :
       \E c \in Cleanups(disk, using.tree, {}, "copy") :
          place' = c.place /\ recovery' = c.recovery
    /\ applied' = applied \cup {using.op}
    /\ using' = NoTree
    /\ todo' = Tail(todo)
    /\ UNCHANGED <<plan, pc, deferred, progressed, staged, outcome, gone,
                   disturbed, faulted>>

\* The copy or its publication failed; the plan stops here.
CopyPublishFails ==
    /\ pc = "copy" /\ using # NoTree
    /\ \E c \in Cleanups(place, using.tree, using.owned, "copy") :
         place' = c.place /\ recovery' = c.recovery
    /\ using' = NoTree
    /\ Stop("failed")
    /\ UNCHANGED <<plan, todo, deferred, progressed, staged, applied, gone,
                   disturbed, faulted>>

Complete ==
    /\ pc = "copy" /\ todo = <<>> /\ using = NoTree
    /\ Stop(IF recovery = {} THEN "ok" ELSE "failed")
    /\ UNCHANGED <<plan, place, todo, deferred, progressed, staged, using,
                   applied, recovery, gone, disturbed, faulted>>

-----------------------------------------------------------------------------
(* rollback_staged: the moves still staged go back, the last one first.    *)

\* Mutant: the moves go back in the order they were staged.
FirstTaken == 1

LastTaken == Len(staged)
NextRestored == staged[LastTaken]
RestRestored == RemoveAt(staged, LastTaken)

\* The disks on which s is back where it came from.
Restored(s) ==
    IF Holds(s)
    THEN UNION {RenameNoReplace(s.entry, d, Last(s.op.from)) :
                    d \in Parent(s.op.from)}
    ELSE {}

Restore ==
    /\ pc = "rollback" /\ staged # <<>>
    /\ \E disk \in Restored(NextRestored) :
       \E c \in Cleanups(disk, NextRestored.tree, {}, "staging") :
          place' = c.place /\ recovery' = c.recovery
    /\ staged' = RestRestored
    /\ UNCHANGED <<plan, pc, todo, deferred, progressed, using, applied,
                   outcome, gone, disturbed, faulted>>

\* The entry stays in its staging directory, and the report says so.
RestoreFails ==
    /\ pc = "rollback" /\ staged # <<>>
    /\ recovery' = recovery \cup {[tree |-> NextRestored.tree,
                                   kind |-> "original"]}
    /\ faulted' = (faulted \/ Restored(NextRestored) # {})
    /\ staged' = RestRestored
    /\ UNCHANGED <<plan, place, pc, todo, deferred, progressed, using,
                   applied, outcome, gone, disturbed>>

RolledBack ==
    /\ pc = "rollback" /\ staged = <<>>
    /\ Stop("failed")
    /\ UNCHANGED <<plan, place, todo, deferred, progressed, staged, using,
                   applied, recovery, gone, disturbed, faulted>>

-----------------------------------------------------------------------------
(* Other processes.                                                        *)

\* A new file at a free name of any directory.
Intrude ==
    /\ pc # "done" /\ Cardinality(disturbed) < MaxDisturbances
    /\ \E d \in {Root} \cup {x \in DOMAIN place : place[x].kind = "dir"} :
       \E p \in Paths \cup {<<Payload>>} :
          /\ (Last(p) = Payload) = (d \in DOMAIN place /\ place[d].name = NoName)
          /\ Named(d, Last(p)) = {}
          /\ place' = With(Intruder(Cardinality(disturbed)), d, Last(p), "file")
    /\ disturbed' = disturbed \cup {Intruder(Cardinality(disturbed))}
    /\ UNCHANGED <<plan, pc, todo, deferred, progressed, staged, using,
                   applied, recovery, outcome, gone, faulted>>

\* An entry, and what is inside it, is removed.
RemoveEntry ==
    /\ pc # "done" /\ Cardinality(disturbed) < MaxDisturbances
    /\ \E x \in DOMAIN place :
         /\ place' = Without(place, Below(place, {x}))
         /\ gone' = gone \cup Below(place, {x})
    /\ disturbed' = disturbed \cup {Removal(Cardinality(disturbed))}
    /\ UNCHANGED <<plan, pc, todo, deferred, progressed, staged, using,
                   applied, recovery, outcome, faulted>>

Apply ==
    \/ Refuse \/ Verify \/ ProbeRetained
    \/ StageAllocate \/ StageAllocateFails \/ StageRename \/ StageRenameFails
    \/ Staged
    \/ Delete \/ DeleteFails \/ Deleted
    \/ Defer \/ Create \/ CreateFails \/ Publish \/ PublishFails
    \/ NextPass \/ NoParent \/ Finalized
    \/ CopyEntry \/ CopyEntryFails \/ CopyPublish \/ CopyPublishFails
    \/ Complete
    \/ Restore \/ RestoreFails \/ RolledBack

Terminated == pc = "done" /\ UNCHANGED vars

Next == Apply \/ Intrude \/ RemoveEntry \/ Terminated

Spec == Init /\ [][Next]_vars

\* apply is one call that nothing waits in: its thread keeps running.
FairSpec == Spec /\ WF_vars(Apply)

-----------------------------------------------------------------------------
(* Properties.                                                             *)

\* Every entry is in the root or in a directory that exists, no name is
\* used twice, and the report is about steps of this plan.
TypeOK ==
    /\ pc \in {"built", "stage", "delete", "finish", "copy", "rollback", "done"}
    /\ outcome \in {"none", "ok", "failed"}
    /\ (outcome = "none") = (pc \notin {"rollback", "done"})
    /\ Cardinality(disturbed) <= MaxDisturbances
    /\ \A x \in DOMAIN place : place[x].dir \in {Root} \cup DOMAIN place
    /\ \A x, y \in DOMAIN place :
          /\ place[x].dir = place[y].dir /\ place[x].name = place[y].name
          /\ place[x].name # NoName
          => x = y
    /\ applied \subseteq Operations(plan)
    /\ \A s \in ToSet(staged) : s.op \in ToSet(plan.moves) \ applied

\* Originals the reviewed plan deletes: at or below a deleted path, and not
\* moved out of it by the same plan.
Doomed ==
    {e \in Originals :
        /\ \E op \in ToSet(plan.deletes) : StartsWith(PathOf(e), op.from)
        /\ ~ \E op \in ToSet(plan.moves) : StartsWith(PathOf(e), op.from)}

\* Whatever fails, and whatever other processes create meanwhile, applying a
\* plan destroys only what the plan was reviewed to delete: not an original
\* whose place or target was taken, and not the entry that took it.
NothingLost ==
    /\ \A e \in Originals : e \in DOMAIN place \cup gone \cup Doomed
    /\ \A x \in disturbed : x.made = "other" => x \in DOMAIN place \cup gone

\* When apply returns, no entry of the user is hidden in a staging directory,
\* and no staging directory it made is left, that the report does not name.
StagingReported ==
    pc = "done" =>
        \A x \in DOMAIN place :
            /\ x.made = "tree" => \E r \in recovery : r.tree = x
            /\ x \in Originals /\ place[x].name = Payload =>
                 [tree |-> place[x].dir, kind |-> "original"] \in recovery

\* A plan that stopped before it applied anything put every staged entry
\* back, unless another process or a failing disk stood in the way.
RollbackRestores ==
    pc = "done" /\ applied = {} /\ disturbed = {} /\ ~faulted =>
        \A e \in Originals \ Doomed :
            e \in DOMAIN place /\ place[e] = Layout[e]

\* What an operation promises of the disk after the plan.
Effect(op) ==
    CASE op.do = "create" -> At(op.to) = {New(op.to)}
      [] op.do = "move"   -> At(op.to) = op.of
      [] op.do = "copy"   -> At(op.to) = {Copied(x, op.to) : x \in op.of}
      [] op.do = "delete" -> op.of \cap DOMAIN place = {}

\* Undisturbed, what the report lists as applied is what the disk shows, and
\* a success lists the whole plan.
ReportIsTrue ==
    pc = "done" /\ disturbed = {} =>
        /\ \A op \in applied : Effect(op)
        /\ outcome = "ok" => applied = Operations(plan)

\* apply returns, over disks that are well formed throughout: no pass over the
\* pending steps repeats without progress.
Finishes == []TypeOK /\ <>(pc = "done")
=============================================================================
