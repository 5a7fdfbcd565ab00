---------------------------- MODULE FsPlanProofs ----------------------------
(* Theorems about FsPlan, for every listing, every set of paths and every    *)
(* limit.                                                                    *)
EXTENDS FsPlan, SequenceTheorems, FiniteSetTheorems, TLAPS

-----------------------------------------------------------------------------
(* The inductive invariant of NothingLost                                    *)

IsSequence(s) == s \in Seq(ToSet(s))

\* The lists are lists; what the plan moves or deletes was in the listing.
PlanFormed ==
    /\ \A s \in {plan.moves, plan.deletes, plan.creates, plan.copies,
                 todo, deferred, staged} : IsSequence(s)
    /\ \A op \in ToSet(plan.moves) : \E e \in Originals : op.from = PathOf(e)
    /\ \A op \in ToSet(plan.deletes) : \E e \in Listed : op.from = PathOf(e)

\* The disk says of each entry where it is.
Formed(p) ==
    p = [x \in DOMAIN p |->
            [dir |-> p[x].dir, name |-> p[x].name, kind |-> p[x].kind]]

\* A cleanup is given a staging directory, and copies that plan made.
TreesOwned ==
    /\ using # NoTree => /\ pc \in {"stage", "copy"} /\ using.tree.made = "tree"
                         /\ todo # <<>> /\ using.op = Head(todo)
    /\ pc = "copy" /\ using # NoTree => \A x \in using.owned : x.made = "copy"
    /\ \A s \in ToSet(staged) : s.tree.made = "tree"

Early == pc \in {"built", "stage", "delete"}

Unmoved(e) == e \in DOMAIN place /\ place[e] = Layout[e]
InTree(x) == place[x].dir.made = "tree" /\ place[x].name = Payload

\* Until the deletes are done, an original is where it was or staged, other
\* processes made files only, and staging directories are in the root.
EarlyDisk ==
    Early => \A x \in DOMAIN place :
        \/ x \in Originals /\ (place[x] = Layout[x] \/ InTree(x))
        \/ x.made = "other" /\ place[x].kind = "file"
        \/ x.made = "tree" /\ place[x].dir = Root /\ place[x].name = NoName

\* A name is used once in a directory.
EarlyNames ==
    Early => \A x, y \in DOMAIN place :
        /\ place[x].dir = place[y].dir /\ place[x].name = place[y].name
        /\ place[x].name # NoName
        => x = y

\* A source that was staged is not in its place any more.
MovedAway ==
    \A m \in ToSet(plan.moves) :
        (pc = "stage" /\ m \notin ToSet(todo)) \/ pc = "delete" =>
            \A e \in Originals : PathOf(e) = m.from => ~Unmoved(e)

\* The deletes under way are the plan's.
StepsLeft ==
    /\ pc = "stage" => ToSet(todo) \subseteq ToSet(plan.moves)
    /\ pc = "delete" => ToSet(todo) \subseteq ToSet(plan.deletes)

LostInv == /\ PlanFormed /\ Formed(place) /\ TreesOwned /\ EarlyDisk /\ EarlyNames /\ MovedAway
           /\ StepsLeft /\ NothingLost

-----------------------------------------------------------------------------
(* The inductive invariant of RollbackRestores                               *)

\* Nothing was applied, and nothing happened that a rollback cannot undo.
Quiet == disturbed = {} /\ ~faulted /\ applied = {}

Undoable == pc \in {"built", "stage", "delete", "finish", "rollback"}

\* A staged move: its entry is in its directory, which holds nothing else.
StagedWell(s) ==
    /\ s.entry \in Originals /\ s.entry \in DOMAIN place
    /\ s.op \in ToSet(plan.moves) /\ s.op.from = PathOf(s.entry)
    /\ s.tree.made = "tree"
    /\ place[s.entry] = [dir |-> s.tree, name |-> Payload,
                         kind |-> Layout[s.entry].kind]

\* The disk then: originals in place or staged, and staging directories.
QuietDisk ==
    Quiet /\ Undoable =>
        /\ \A x \in DOMAIN place :
              \/ x \in Originals
                 /\ (place[x] = Layout[x] \/ \E s \in ToSet(staged) : s.entry = x)
              \/ x.made = "tree" /\ place[x].dir = Root
                 /\ place[x].name = NoName
        /\ \A e \in Originals : e \in Listed \/ e \notin Doomed =>
              e \in DOMAIN place
        /\ \A s \in ToSet(staged) : StagedWell(s)

\* Each entry is staged once, in a directory of its own, and a directory after
\* what is in it.
QuietOrder ==
    Quiet /\ Undoable =>
        \A i, j \in DOMAIN staged :
            /\ \/ staged[i].entry = staged[j].entry
               \/ staged[i].tree = staged[j].tree
               => i = j
            /\ Layout[staged[i].entry].dir = staged[j].entry => i < j

\* The entry about to be staged is the one the plan is about.
QuietUsing ==
    Quiet /\ pc = "stage" /\ using # NoTree =>
        using.entry \in Originals /\ PathOf(using.entry) = using.op.from

\* What is staged waits for its publication.
QuietPending ==
    Quiet =>
        /\ pc = "built" => staged = <<>>
        /\ pc = "finish" =>
              \A s \in ToSet(staged) : s.op \in ToSet(todo) \cup ToSet(deferred)

\* Then every entry that was not deleted is where it was.
QuietEnd ==
    Quiet /\ pc \in {"copy", "done"} =>
        \A e \in Originals \ Doomed : Unmoved(e)

RollbackInv == /\ QuietDisk /\ QuietOrder /\ QuietUsing /\ QuietPending
               /\ QuietEnd

-----------------------------------------------------------------------------
(* Lists, and the operators on the disk                                      *)

\* A sequence is one of its own elements.
LEMMA ListOfItsOwn ==
    ASSUME NEW T, NEW s \in Seq(T)
    PROVE  IsSequence(s)
  <1>1. Len(s) \in Nat /\ DOMAIN s = 1 .. Len(s) /\ s \in [1 .. Len(s) -> T]
    OBVIOUS
  <1>2. \A i \in 1 .. Len(s) : s[i] \in ToSet(s)
    BY <1>1 DEF ToSet
  <1>3. s \in [1 .. Len(s) -> ToSet(s)]
    BY <1>1, <1>2
  <1> QED
    BY <1>1, <1>3, SeqDef DEF IsSequence

\* Dropping the head of a list, and adding to its end.
LEMMA ListSteps ==
    ASSUME NEW s, IsSequence(s)
    PROVE  /\ \A x : /\ IsSequence(Append(s, x))
                      /\ ToSet(Append(s, x)) = ToSet(s) \cup {x}
           /\ s # <<>> =>
                 /\ IsSequence(Tail(s)) /\ Head(s) \in ToSet(s)
                 /\ ToSet(s) = ToSet(Tail(s)) \cup {Head(s)}
  <1> DEFINE T == ToSet(s)
  <1>1. s \in Seq(T)
    BY DEF IsSequence
  <1>2. ASSUME NEW x
        PROVE  /\ IsSequence(Append(s, x))
               /\ ToSet(Append(s, x)) = T \cup {x}
    <2>1. s \in Seq(T \cup {x})
      BY <1>1, SeqDef
    <2>2. /\ Append(s, x) \in Seq(T \cup {x})
          /\ Len(Append(s, x)) = Len(s) + 1
          /\ \A i \in 1 .. Len(s) : Append(s, x)[i] = s[i]
          /\ Append(s, x)[Len(s) + 1] = x
      BY <2>1, AppendProperties
    <2>3. Len(s) \in Nat /\ DOMAIN s = 1 .. Len(s)
          /\ DOMAIN Append(s, x) = 1 .. Len(s) + 1
      BY <1>1, <2>2
    <2>4. ToSet(Append(s, x)) = T \cup {x}
      BY <2>2, <2>3 DEF ToSet
    <2> QED
      BY <2>2, <2>4 DEF IsSequence
  <1>3. ASSUME s # <<>>
        PROVE  /\ IsSequence(Tail(s)) /\ Head(s) \in T
               /\ T = ToSet(Tail(s)) \cup {Head(s)}
    <2>1. /\ Head(s) = s[1] /\ Len(s) \in Nat /\ Len(s) >= 1
          /\ DOMAIN s = 1 .. Len(s)
          /\ Tail(s) \in Seq(T) /\ Len(Tail(s)) = Len(s) - 1
          /\ DOMAIN Tail(s) = 1 .. Len(s) - 1
          /\ \A i \in 1 .. Len(s) - 1 : Tail(s)[i] = s[i + 1]
      BY <1>1, <1>3, HeadTailProperties, EmptySeq
    <2>2. IsSequence(Tail(s))
      BY <2>1, ListOfItsOwn
    <2>3. Head(s) \in T
      BY <2>1 DEF ToSet
    <2>4. ToSet(Tail(s)) \subseteq T
      BY <2>1 DEF ToSet
    <2>5. ASSUME NEW y \in T, y # s[1]
          PROVE  y \in ToSet(Tail(s))
      <3>1. PICK i \in 1 .. Len(s) : y = s[i]
        BY <2>1 DEF ToSet
      <3>2. i - 1 \in 1 .. Len(s) - 1 /\ Tail(s)[i - 1] = s[i]
        BY <2>1, <2>5, <3>1
      <3> QED
        BY <2>1, <3>1, <3>2 DEF ToSet
    <2> QED
      BY <2>1, <2>2, <2>3, <2>4, <2>5
  <1> QED
    BY <1>2, <1>3

\* Dropping one place of a list.
LEMMA ListRemove ==
    ASSUME NEW s, IsSequence(s), NEW k \in DOMAIN s
    PROVE  /\ IsSequence(RemoveAt(s, k))
           /\ Len(RemoveAt(s, k)) = Len(s) - 1
           /\ \A i \in DOMAIN RemoveAt(s, k) :
                 RemoveAt(s, k)[i] = s[IF i < k THEN i ELSE i + 1]
           /\ \A i \in DOMAIN RemoveAt(s, k) :
                 /\ (IF i < k THEN i ELSE i + 1) \in DOMAIN s
                 /\ (IF i < k THEN i ELSE i + 1) # k
           /\ ToSet(RemoveAt(s, k)) \subseteq ToSet(s)
  <1> DEFINE T == ToSet(s)
             r == RemoveAt(s, k)
             a == SubSeq(s, 1, k - 1)
             b == SubSeq(s, k + 1, Len(s))
  <1>1. s \in Seq(T) /\ Len(s) \in Nat /\ DOMAIN s = 1 .. Len(s)
        /\ k \in 1 .. Len(s)
    BY DEF IsSequence
  <1>2. /\ a \in Seq(T) /\ Len(a) = k - 1
        /\ \A i \in 1 .. k - 1 : a[i] = s[i]
    BY <1>1
  <1>3. /\ b \in Seq(T) /\ Len(b) = Len(s) - k
        /\ \A i \in 1 .. Len(s) - k : b[i] = s[i + k]
    BY <1>1
  <1>4. r = a \o b
    BY Zenon DEF RemoveAt
  <1> HIDE DEF a, b, r, T
  <1>5. /\ r \in Seq(T) /\ Len(r) = Len(s) - 1
        /\ DOMAIN r = 1 .. Len(s) - 1
        /\ \A i \in 1 .. Len(s) - 1 :
              r[i] = IF i <= k - 1 THEN a[i] ELSE b[i - (k - 1)]
    <2>1. /\ r \in Seq(T) /\ Len(r) = Len(a) + Len(b)
          /\ \A i \in 1 .. Len(a) + Len(b) :
                r[i] = IF i <= Len(a) THEN a[i] ELSE b[i - Len(a)]
      BY <1>2, <1>3, <1>4, ConcatProperties
    <2>2. Len(a) + Len(b) = Len(s) - 1
      BY <1>1, <1>2, <1>3
    <2>3. DOMAIN r = 1 .. Len(r)
      BY <2>1
    <2> QED
      BY <1>2, <2>1, <2>2, <2>3
  <1>6. ASSUME NEW i \in 1 .. Len(s) - 1
        PROVE  /\ r[i] = s[IF i < k THEN i ELSE i + 1]
               /\ (IF i < k THEN i ELSE i + 1) \in DOMAIN s
               /\ (IF i < k THEN i ELSE i + 1) # k
    <2>1. CASE i < k
      BY <1>1, <1>2, <1>5, <2>1
    <2>2. CASE ~(i < k)
      <3>1. /\ i - (k - 1) \in 1 .. Len(s) - k /\ i - (k - 1) + k = i + 1
            /\ ~(i <= k - 1) /\ i + 1 \in 1 .. Len(s) /\ i + 1 # k
        BY <1>1, <2>2
      <3>2. r[i] = b[i - (k - 1)]
        BY <1>5, <3>1
      <3>3. b[i - (k - 1)] = s[i - (k - 1) + k]
        BY <1>3, <3>1
      <3> QED
        BY <1>1, <2>2, <3>1, <3>2, <3>3
    <2> QED
      BY <2>1, <2>2
  <1>7. ToSet(r) \subseteq T /\ IsSequence(r)
    <2>1. IsSequence(r)
      BY <1>5, ListOfItsOwn
    <2>2. ToSet(r) \subseteq T
      BY <1>5 DEF ToSet
    <2> QED
      BY <2>1, <2>2
  <1> QED
    BY <1>5, <1>6, <1>7 DEF r, T

\* What is below entries of a set that holds what is in its members.
LEMMA BelowStays ==
    ASSUME NEW p, NEW S, NEW K, S \subseteq K,
           \A z \in DOMAIN p : p[z].dir \in K => z \in K
    PROVE  Below(p, S) \subseteq K
  <1>1. ASSUME NEW X, X \cap K = {}
        PROVE  WithHolders(p, X) \cap K = {}
    BY <1>1 DEF WithHolders
  <1>2. ASSUME NEW X, X \cap K = {}
        PROVE  ThreeUp(p, X) \cap K = {}
    <2>1. PICK Y : Y = WithHolders(p, X)
      OBVIOUS
    <2>2. PICK Z : Z = WithHolders(p, Y)
      OBVIOUS
    <2>3. Y \cap K = {}
      BY <1>1, <1>2, <2>1
    <2>4. Z \cap K = {}
      BY <1>1, <2>2, <2>3
    <2>5. WithHolders(p, Z) \cap K = {}
      BY <1>1, <2>4
    <2> QED
      BY <2>1, <2>2, <2>5 DEF ThreeUp
  <1>3. ASSUME NEW x \in Below(p, S), x \notin K
        PROVE  FALSE
    <2>1. PICK X : X = ThreeUp(p, {x})
      OBVIOUS
    <2>2. X \cap K = {}
      BY <1>2, <1>3, <2>1
    <2>3. ThreeUp(p, X) \cap K = {}
      BY <1>2, <2>2
    <2> QED
      BY <1>3, <2>1, <2>3 DEF Below
  <1> QED
    BY <1>3

\* A disk without some entries.
LEMMA WithoutSome ==
    ASSUME NEW p, NEW S, Formed(p)
    PROVE  /\ Formed(Without(p, S)) /\ DOMAIN Without(p, S) = DOMAIN p \ S
           /\ \A x \in DOMAIN p \ S : Without(p, S)[x] = p[x]
  <1>1. /\ DOMAIN Without(p, S) = DOMAIN p \ S
        /\ \A x \in DOMAIN p \ S : Without(p, S)[x] = p[x]
    BY DEF Without
  <1>2. Formed(Without(p, S))
    <2>1. \A x \in DOMAIN p : p[x] = [dir |-> p[x].dir, name |-> p[x].name,
                                      kind |-> p[x].kind]
      BY DEF Formed
    <2>2. Without(p, S) = [x \in DOMAIN p \ S |-> p[x]]
      BY DEF Without
    <2> QED
      BY <1>1, <2>1, <2>2 DEF Formed
  <1> QED
    BY <1>1, <1>2

\* A disk with one entry more, or with an entry of the same name made anew.
LEMMA WithOne ==
    ASSUME Formed(place), NEW x, NEW d, NEW n, NEW k,
           NEW disk, disk = With(x, d, n, k)
    PROVE  /\ Formed(disk) /\ DOMAIN disk = DOMAIN place \cup {x}
           /\ disk[x] = [dir |-> d, name |-> n, kind |-> k]
           /\ \A y \in DOMAIN place : y # x => disk[y] = place[y]
  <1>1. /\ DOMAIN disk = DOMAIN place \cup {x}
        /\ disk[x] = [dir |-> d, name |-> n, kind |-> k]
        /\ \A y \in DOMAIN place : y # x => disk[y] = place[y]
    BY DEF With
  <1>2. \A y \in DOMAIN disk :
           disk[y] = [dir |-> disk[y].dir, name |-> disk[y].name,
                      kind |-> disk[y].kind]
    <2>1. \A y \in DOMAIN place : place[y] =
             [dir |-> place[y].dir, name |-> place[y].name,
              kind |-> place[y].kind]
      BY DEF Formed
    <2> QED
      BY <1>1, <2>1
  <1>3. disk = [y \in DOMAIN disk |-> disk[y]]
    BY DEF With
  <1>4. Formed(disk)
    BY <1>2, <1>3 DEF Formed
  <1> QED
    BY <1>1, <1>4

\* A disk after a rename.
LEMMA Renamed ==
    ASSUME Formed(place), NEW x \in DOMAIN place, NEW d, NEW n,
           NEW disk \in RenameNoReplace(x, d, n)
    PROVE  /\ Formed(disk) /\ DOMAIN disk = DOMAIN place
           /\ disk[x] = [dir |-> d, name |-> n, kind |-> place[x].kind]
           /\ \A y \in DOMAIN place : y # x => disk[y] = place[y]
           /\ Named(d, n) = {} /\ d \in DOMAIN place \cup {Root}
           /\ d \notin Below(place, {x})
  <1>1. /\ disk = [place EXCEPT ![x] = [dir |-> d, name |-> n, kind |-> @.kind]]
        /\ Named(d, n) = {} /\ d \in DOMAIN place \cup {Root}
        /\ d \notin Below(place, {x})
    BY DEF RenameNoReplace
  <1>2. \A y \in DOMAIN place : place[y] =
           [dir |-> place[y].dir, name |-> place[y].name,
            kind |-> place[y].kind]
    BY DEF Formed
  <1>3. /\ DOMAIN disk = DOMAIN place
        /\ disk[x] = [dir |-> d, name |-> n, kind |-> place[x].kind]
        /\ \A y \in DOMAIN place : y # x => disk[y] = place[y]
    BY <1>1, <1>2
  <1>4. disk = [y \in DOMAIN disk |-> disk[y]]
    BY <1>1
  <1>5. Formed(disk)
    BY <1>2, <1>3, <1>4 DEF Formed
  <1> QED
    BY <1>1, <1>3, <1>5

\* A disk after a cleanup: as it was, or without the directory and what it owns.
LEMMA CleanedUp ==
    ASSUME NEW p, Formed(p), NEW tree, NEW owned, NEW kind,
           NEW c \in Cleanups(p, tree, owned, kind)
    PROVE  /\ Formed(c.place) /\ DOMAIN c.place \subseteq DOMAIN p
           /\ DOMAIN p \ DOMAIN c.place \subseteq owned \cup {tree}
           /\ \A x \in DOMAIN c.place : c.place[x] = p[x]
  <1>1. c.place = p \/ c.place = Without(p, owned \cup {tree})
    BY DEF Cleanups
  <1>2. CASE c.place = p
    BY <1>2
  <1>3. CASE c.place = Without(p, owned \cup {tree})
    <2> DEFINE q == Without(p, owned \cup {tree})
    <2>1. /\ Formed(q) /\ DOMAIN q = DOMAIN p \ (owned \cup {tree})
          /\ \A x \in DOMAIN p \ (owned \cup {tree}) : q[x] = p[x]
      BY WithoutSome
    <2> HIDE DEF q
    <2>2. c.place = q
      BY <1>3 DEF q
    <2> QED
      BY <2>1, <2>2
  <1> QED
    BY <1>1, <1>2, <1>3

-----------------------------------------------------------------------------
(* The plan, and the steps after the deletes                                 *)

\* A sorted list is a list of what was to be sorted.
LEMMA ArrangedList ==
    ASSUME NEW ops, NEW s \in Arrangements(ops)
    PROVE  IsSequence(s) /\ ToSet(s) = ops
  <1>1. PICK n \in 0 .. MaxOperations : s \in [1 .. n -> ops]
    BY DEF Arrangements, BoundedSeq, SeqOf
  <1>2. n \in Nat
    BY PlanConstants
  <1>3. s \in Seq(ops)
    BY <1>1, <1>2
  <1> QED
    BY <1>3, ListOfItsOwn DEF Arrangements

\* What a plan moves and deletes was in the listing.
LEMMA PlanSources ==
    ASSUME NEW rows, NEW main, NEW transfers \in TransferSets
    PROVE  /\ \A op \in Moves(main, transfers) :
                 \E e \in Originals : op.from = PathOf(e)
           /\ \A op \in Deletes(rows) : \E e \in Listed : op.from = PathOf(e)
  <1>1. \A t \in transfers : t.of \in Originals
    BY DEF TransferSets
  <1>2. \A e \in Listed : e \in Originals
    BY DEF Listed
  <1>3. \A do, from, to, kind, of : Operation(do, from, to, kind, of).from = from
    BY DEF Operation
  <1>4. ASSUME NEW op \in Moves(main, transfers)
        PROVE  \E e \in Originals : op.from = PathOf(e)
    <2>1. CASE \E e \in Listed : op = Operation("move", PathOf(e), main[e],
                                                Layout[e].kind, {e})
      BY <1>2, <1>3, <2>1
    <2>2. CASE \E t \in transfers : op = Operation("move", PathOf(t.of), t.to,
                                             Layout[t.of].kind, {t.of})
      BY <1>1, <1>3, <2>2
    <2> QED
      BY <2>1, <2>2 DEF Moves
  <1>5. ASSUME NEW op \in Deletes(rows)
        PROVE  \E e \in Listed : op.from = PathOf(e)
    <2>1. PICK e \in {x \in Listed : rows[x] = {}} :
             op = Operation("delete", PathOf(e), <<>>, Layout[e].kind, {e})
      BY Zenon DEF Deletes
    <2> QED
      BY <1>3, <2>1
  <1> QED
    BY <1>4, <1>5

LEMMA EmptyList ==
    IsSequence(<<>>) /\ ToSet(<<>>) = {}
  <1>1. <<>> \in Seq({}) /\ DOMAIN <<>> = {}
    OBVIOUS
  <1> QED
    BY <1>1, ListOfItsOwn DEF ToSet

\* The invariant holds of the listing as it was read.
LEMMA InitLost == Init => LostInv
  <1> SUFFICES ASSUME Init PROVE LostInv
    OBVIOUS
  <1>1. PICK rows \in [Listed -> {S \in SUBSET Paths : Cardinality(S) <= 2}],
             main \in [Listed -> Paths \cup {<<>>}],
             transfers \in TransferSets, news \in NewSets :
           plan \in [moves : InOrder(Moves(main, transfers)),
                     deletes : InReverse(Deletes(rows)),
                     creates : InOrder(Creates(news)),
                     copies : InOrder(Copies(rows, main, transfers))]
    BY Zenon DEF Init
  <1>2. /\ place = Layout /\ pc = "built" /\ todo = <<>> /\ deferred = <<>>
        /\ staged = <<>> /\ using = NoTree /\ disturbed = {}
    BY DEF Init
  <1>3. /\ plan.moves \in Arrangements(Moves(main, transfers))
        /\ plan.deletes \in Arrangements(Deletes(rows))
        /\ plan.creates \in Arrangements(Creates(news))
        /\ plan.copies \in Arrangements(Copies(rows, main, transfers))
    BY <1>1 DEF InOrder, InReverse
  <1>4. PlanFormed
    BY <1>2, <1>3, ArrangedList, PlanSources, EmptyList DEF PlanFormed
  <1>5. DOMAIN place = Originals /\ Formed(place)
    <2>1. Layout \in [Originals -> Spot(Originals \cup {Root}, Nat \ {Payload})]
      BY PlanConstants
    <2>2. \A e \in Originals : Layout[e] = [dir |-> Layout[e].dir,
             name |-> Layout[e].name, kind |-> Layout[e].kind]
      BY <2>1 DEF Spot
    <2> QED
      BY <1>2, <2>1, <2>2 DEF Formed
  <1>6. TreesOwned /\ StepsLeft /\ MovedAway
    BY <1>2, EmptyList DEF TreesOwned, StepsLeft, MovedAway
  <1>7. EarlyDisk /\ EarlyNames
    BY <1>2, <1>5, PlanConstants DEF EarlyDisk, EarlyNames
  <1>8. NothingLost
    BY <1>2, <1>5 DEF NothingLost
  <1> QED
    BY <1>4, <1>5, <1>6, <1>7, <1>8 DEF LostInv

\* What is not on the disk any more had gone, was to be deleted, or is staging.
LEMMA StillThere ==
    ASSUME NothingLost, plan' = plan, gone \subseteq gone',
           \A x \in DOMAIN place \ DOMAIN place' :
              x \in gone' \cup Doomed \/ x.made \in {"tree", "copy"},
           \A x \in disturbed' \ disturbed :
              x.made = "other" => x \in DOMAIN place' \cup gone'
    PROVE  NothingLost'
  <1>1. Doomed' = Doomed
    BY DEF Doomed
  <1>2. \A e \in Originals : e.made = "original"
    BY PlanConstants
  <1>3. Doomed \subseteq Originals
    BY DEF Doomed
  <1>4. ASSUME NEW e \in Originals
        PROVE  e \in DOMAIN place' \cup gone' \cup Doomed
    BY <1>2, <1>4 DEF NothingLost
  <1>5. ASSUME NEW x \in disturbed', x.made = "other"
        PROVE  x \in DOMAIN place' \cup gone'
    BY <1>2, <1>3, <1>5 DEF NothingLost
  <1> QED
    BY <1>1, <1>4, <1>5 DEF NothingLost

\* A step that ends in a phase after the deletes.
LEMMA LateStep ==
    ASSUME LostInv, UNCHANGED <<plan, disturbed>>, gone \subseteq gone',
           pc' \in {"finish", "copy", "rollback", "done"},
           IsSequence(todo'), IsSequence(deferred'), IsSequence(staged'),
           ToSet(staged') \subseteq ToSet(staged),
           using' # NoTree =>
              /\ pc' = "copy" /\ using'.tree.made = "tree"
              /\ todo' # <<>> /\ using'.op = Head(todo')
              /\ \A x \in using'.owned : x.made = "copy",
           Formed(place'),
           \A x \in DOMAIN place \ DOMAIN place' :
              x \in gone' \cup Doomed \/ x.made \in {"tree", "copy"}
    PROVE  LostInv'
  <1>1. PlanFormed'
    BY DEF LostInv, PlanFormed
  <1>2. TreesOwned'
    BY DEF LostInv, TreesOwned
  <1>3. EarlyDisk' /\ EarlyNames' /\ MovedAway' /\ StepsLeft'
    BY DEF EarlyDisk, EarlyNames, MovedAway, StepsLeft, Early
  <1>4. NothingLost'
    BY StillThere DEF LostInv
  <1> QED
    BY <1>1, <1>2, <1>3, <1>4 DEF LostInv

\* Two lists in a row are a list.
LEMMA ListConcat ==
    ASSUME NEW s, NEW t, IsSequence(s), IsSequence(t)
    PROVE  IsSequence(s \o t)
  <1>1. s \in Seq(ToSet(s) \cup ToSet(t)) /\ t \in Seq(ToSet(s) \cup ToSet(t))
    BY SeqDef DEF IsSequence
  <1>2. s \o t \in Seq(ToSet(s) \cup ToSet(t))
    BY <1>1, ConcatProperties
  <1> QED
    BY <1>2, ListOfItsOwn

\* The lists of the invariant.
LEMMA PlanLists ==
    ASSUME LostInv
    PROVE  /\ IsSequence(plan.moves) /\ IsSequence(plan.deletes)
           /\ IsSequence(plan.creates) /\ IsSequence(plan.copies)
           /\ IsSequence(todo) /\ IsSequence(deferred) /\ IsSequence(staged)
  BY DEF LostInv, PlanFormed

\* The last staged move leaves a list of the others.
LEMMA RestFormed ==
    ASSUME IsSequence(staged), staged # <<>>
    PROVE  /\ LastTaken \in DOMAIN staged /\ NextRestored \in ToSet(staged)
           /\ IsSequence(RestRestored) /\ ToSet(RestRestored) \subseteq ToSet(staged)
  <1>1. Len(staged) \in DOMAIN staged
    BY EmptySeq DEF IsSequence
  <1> QED
    BY <1>1, ListRemove DEF LastTaken, NextRestored, RestRestored, ToSet

\* The steps after the deletes that leave the disk alone, and the ends before.
LEMMA StillLateInv ==
    ASSUME LostInv,
           \/ Refuse \/ StageAllocateFails \/ Deleted \/ Defer \/ CreateFails
           \/ PublishFails \/ NextPass \/ NoParent \/ Finalized
           \/ CopyEntryFails \/ Complete \/ RestoreFails \/ RolledBack
    PROVE  LostInv'
  <1>1. UNCHANGED <<plan, place, gone, disturbed, using>>
    BY DEF Refuse, StageAllocateFails, Deleted, Defer, CreateFails,
       PublishFails, NextPass, NoParent, Finalized, CopyEntryFails, Complete,
       RestoreFails, RolledBack
  <1>2. pc' \in {"finish", "copy", "rollback", "done"}
    BY DEF Refuse, StageAllocateFails, Deleted, Defer, CreateFails,
       PublishFails, NextPass, NoParent, Finalized, CopyEntryFails, Complete,
       RestoreFails, RolledBack, Fail, Stop, Ready
  <1>3. using = NoTree
    BY DEF LostInv, TreesOwned, Refuse, StageAllocateFails, Deleted, Defer,
       CreateFails, PublishFails, NextPass, NoParent, Finalized,
       CopyEntryFails, Complete, RestoreFails, RolledBack, Ready
  <1>4. /\ IsSequence(todo') /\ IsSequence(deferred') /\ IsSequence(staged')
        /\ ToSet(staged') \subseteq ToSet(staged)
    <2>1. CASE UNCHANGED <<todo, deferred, staged>>
      BY <2>1, PlanLists
    <2>2. CASE Deleted
      <3>1. IsSequence(plan.creates \o plan.moves)
        BY PlanLists, ListConcat
      <3> QED
        BY <2>2, <3>1, PlanLists DEF Deleted
    <2>3. CASE Defer
      BY <2>3, PlanLists, ListSteps DEF Defer
    <2>4. CASE NextPass
      BY <2>4, PlanLists, EmptyList DEF NextPass
    <2>5. CASE Finalized
      BY <2>5, PlanLists DEF Finalized
    <2>6. CASE RestoreFails
      BY <2>6, PlanLists, RestFormed DEF RestoreFails
    <2> QED
      BY <2>1, <2>2, <2>3, <2>4, <2>5, <2>6
      DEF Refuse, StageAllocateFails, CreateFails, PublishFails, NoParent,
          CopyEntryFails, Complete, RolledBack
  <1>5. Formed(place')
    BY <1>1 DEF LostInv
  <1> QED
    BY <1>1, <1>2, <1>3, <1>4, <1>5, LateStep

\* A probe that stays is a new directory.
LEMMA ProbeRetainedInv ==
    ASSUME LostInv, ProbeRetained
    PROVE  LostInv'
  <1>1. PICK d \in ProbedParents :
           place' = With(Tree("probe", <<>>), d, NoName, "dir")
    BY DEF ProbeRetained
  <1>2. Formed(place') /\ DOMAIN place \subseteq DOMAIN place'
    <2>1. Formed(place)
      BY DEF LostInv
    <2>2. /\ Formed(place')
          /\ DOMAIN place' = DOMAIN place \cup {Tree("probe", <<>>)}
      BY <1>1, <2>1, WithOne
    <2> QED
      BY <2>2
  <1>3. using = NoTree
    BY DEF LostInv, TreesOwned, ProbeRetained
  <1> QED
    BY <1>2, <1>3, PlanLists, LateStep DEF ProbeRetained, Stop

\* A cleanup after a failed rename removes an empty staging directory only.
LEMMA StageRenameFailsInv ==
    ASSUME LostInv, StageRenameFails
    PROVE  LostInv'
  <1>1. PICK c \in Cleanups(place, using.tree, {}, "staging") : place' = c.place
    BY DEF StageRenameFails
  <1>2. using.tree.made = "tree" /\ Formed(place)
    BY DEF LostInv, TreesOwned, StageRenameFails
  <1>3. /\ Formed(place')
        /\ \A x \in DOMAIN place \ DOMAIN place' : x.made = "tree"
    BY <1>1, <1>2, CleanedUp
  <1> QED
    BY <1>3, PlanLists, LateStep DEF StageRenameFails, Fail

\* A new entry is made where there was none.
LEMMA CreateInv ==
    ASSUME LostInv, Create
    PROVE  LostInv'
  <1>1. PICK x, d, n, k : place' = With(x, d, n, k)
    BY DEF Create
  <1>2. Formed(place') /\ DOMAIN place \subseteq DOMAIN place'
    <2>1. Formed(place)
      BY DEF LostInv
    <2>2. /\ Formed(place')
          /\ DOMAIN place' = DOMAIN place \cup {x}
      BY <1>1, <2>1, WithOne
    <2> QED
      BY <2>2
  <1>3. using = NoTree /\ todo # <<>> /\ pc = "finish"
    BY DEF LostInv, TreesOwned, Create, Ready
  <1> QED
    BY <1>2, <1>3, PlanLists, ListSteps, LateStep DEF Create, Done

\* A publication moves one entry and removes an empty staging directory.
LEMMA PublishInv ==
    ASSUME LostInv, Publish
    PROVE  LostInv'
  <1>1. PICK k \in DOMAIN staged, d \in Parent(Head(todo).to) :
          /\ Holds(staged[k])
          /\ \E disk \in RenameNoReplace(staged[k].entry, d,
                                         Last(Head(todo).to)) :
             \E c \in Cleanups(disk, staged[k].tree, {}, "staging") :
                place' = c.place
          /\ staged' = Unfinalized(k)
    BY DEF Publish
  <1>2. PICK disk \in RenameNoReplace(staged[k].entry, d, Last(Head(todo).to)) :
           \E c \in Cleanups(disk, staged[k].tree, {}, "staging") :
              place' = c.place
    BY <1>1
  <1>3. PICK c \in Cleanups(disk, staged[k].tree, {}, "staging") :
           place' = c.place
    BY <1>2
  <1>4. Formed(disk) /\ DOMAIN disk = DOMAIN place
    <2>1. staged[k].entry \in DOMAIN place
      BY <1>1 DEF Holds, Named
    <2>2. Formed(place)
      BY DEF LostInv
    <2>3. PICK x, e, n : x = staged[k].entry /\ e = d /\ n = Last(Head(todo).to)
      OBVIOUS
    <2>4. x \in DOMAIN place
      BY <2>1, <2>3
    <2>5. PICK q \in RenameNoReplace(x, e, n) : q = disk
      BY <1>2, <2>3
    <2>6. Formed(q)
      BY <2>2, <2>4, <2>5, Renamed
    <2>7. DOMAIN q = DOMAIN place
      BY <2>5 DEF RenameNoReplace
    <2> QED
      BY <2>5, <2>6, <2>7
  <1>5. staged[k] \in ToSet(staged) /\ staged[k].tree.made = "tree"
    BY DEF LostInv, TreesOwned, ToSet
  <1>6. /\ Formed(place')
        /\ \A x \in DOMAIN place \ DOMAIN place' : x.made = "tree"
    BY <1>3, <1>4, <1>5, CleanedUp
  <1>7. IsSequence(staged') /\ ToSet(staged') \subseteq ToSet(staged)
    BY <1>1, PlanLists, ListRemove DEF Unfinalized
  <1>8. using = NoTree /\ todo # <<>> /\ pc = "finish"
    BY DEF LostInv, TreesOwned, Publish, Ready
  <1> QED
    BY <1>6, <1>7, <1>8, PlanLists, ListSteps, LateStep DEF Publish, Done

\* The disk with a copy of an entry in a new staging directory.
LEMMA CopyMade ==
    ASSUME Formed(place), NEW x, NEW op, NEW d,
           NEW disk, disk = CopyInto(x, op, d)
    PROVE  Formed(disk) /\ DOMAIN place \subseteq DOMAIN disk
  <1> DEFINE w == With(Tree("copy", op.to), d, NoName, "dir")
             old == Below(place, {x})
             made == {Copied(y, op.to) : y \in old}
  <1>1. Formed(w) /\ DOMAIN place \subseteq DOMAIN w
    <2>1. PICK t, n, k : t = Tree("copy", op.to) /\ n = NoName /\ k = "dir"
      OBVIOUS
    <2>2. w = With(t, d, n, k)
      BY <2>1
    <2> HIDE DEF w
    <2>3. Formed(w)
      BY <2>2, WithOne
    <2>4. DOMAIN w = DOMAIN place \cup {t}
      BY <2>2, WithOne
    <2> QED
      BY <2>3, <2>4
  <1>2. DOMAIN disk = DOMAIN w \cup made
    BY DEF CopyInto
  <1>3. \A z \in DOMAIN w : disk[z] = w[z]
    BY DEF CopyInto
  <1>4. \A z \in made \ DOMAIN w : \E a, b, k :
           disk[z] = [dir |-> a, name |-> b, kind |-> k]
    BY DEF CopyInto
  <1>5. disk = [z \in DOMAIN disk |-> disk[z]]
    BY DEF CopyInto
  <1> HIDE DEF w, made
  <1>6. \A z \in DOMAIN w :
           w[z] = [dir |-> w[z].dir, name |-> w[z].name, kind |-> w[z].kind]
    BY <1>1 DEF Formed
  <1>7. \A z \in DOMAIN disk : disk[z] =
           [dir |-> disk[z].dir, name |-> disk[z].name, kind |-> disk[z].kind]
    BY <1>2, <1>3, <1>4, <1>6
  <1> QED
    BY <1>1, <1>2, <1>5, <1>7 DEF Formed

\* A copy is made of new entries only.
LEMMA CopyEntryInv ==
    ASSUME LostInv, CopyEntry
    PROVE  LostInv'
  <1>1. PICK x, d :
          /\ place' = CopyInto(x, Head(todo), d)
          /\ using' = [op |-> Head(todo), entry |-> Copied(x, Head(todo).to),
                       tree |-> Tree("copy", Head(todo).to),
                       owned |-> {Copied(y, Head(todo).to) :
                                     y \in Below(place, {x})}]
    BY DEF CopyEntry
  <1>2. Formed(place') /\ DOMAIN place \subseteq DOMAIN place'
    <2>1. PICK op : op = Head(todo)
      OBVIOUS
    <2>2. Formed(place) /\ place' = CopyInto(x, op, d)
      BY <1>1, <2>1 DEF LostInv
    <2> QED
      BY <2>2, CopyMade
  <1>3. /\ using'.tree.made = "tree" /\ \A y \in using'.owned : y.made = "copy"
        /\ using'.op = Head(todo)
    BY <1>1 DEF Tree, Copied
  <1> QED
    BY <1>2, <1>3, PlanLists, LateStep DEF CopyEntry

\* A finished copy leaves its staging directory, which goes if it is empty.
LEMMA CopyPublishInv ==
    ASSUME LostInv, CopyPublish
    PROVE  LostInv'
  <1>1. PICK d \in Parent(using.op.to), x \in Named(using.tree, Payload) :
           \E disk \in RenameNoReplace(x, d, Last(using.op.to)) :
           \E c \in Cleanups(disk, using.tree, {}, "copy") : place' = c.place
    BY DEF CopyPublish
  <1>2. PICK n, t : n = Last(using.op.to) /\ t = using.tree
    OBVIOUS
  <1>3. PICK disk \in RenameNoReplace(x, d, n) :
           \E c \in Cleanups(disk, t, {}, "copy") : place' = c.place
    BY <1>1, <1>2
  <1>4. PICK c \in Cleanups(disk, t, {}, "copy") : place' = c.place
    BY <1>3
  <1>5. Formed(place) /\ x \in DOMAIN place
    BY DEF LostInv, Named
  <1>6. Formed(disk)
    BY <1>3, <1>5, Renamed
  <1>7. DOMAIN disk = DOMAIN place
    BY <1>3 DEF RenameNoReplace
  <1>8. t.made = "tree"
    BY <1>2 DEF LostInv, TreesOwned, CopyPublish
  <1>9. /\ Formed(place')
        /\ \A y \in DOMAIN place \ DOMAIN place' : y.made = "tree"
    BY <1>4, <1>6, <1>7, <1>8, CleanedUp
  <1>10. IsSequence(todo')
    BY PlanLists, ListSteps DEF CopyPublish, LostInv, TreesOwned
  <1> QED
    BY <1>9, <1>10, PlanLists, LateStep DEF CopyPublish

\* What the cleanup of a failed copy removes is the copy.
LEMMA CopyPublishFailsInv ==
    ASSUME LostInv, CopyPublishFails
    PROVE  LostInv'
  <1>1. PICK t, o : t = using.tree /\ o = using.owned
    OBVIOUS
  <1>2. PICK c \in Cleanups(place, t, o, "copy") : place' = c.place
    BY <1>1 DEF CopyPublishFails
  <1>3. Formed(place) /\ t.made = "tree" /\ \A x \in o : x.made = "copy"
    BY <1>1 DEF LostInv, TreesOwned, CopyPublishFails
  <1>4. /\ Formed(place')
        /\ \A y \in DOMAIN place \ DOMAIN place' : y.made \in {"tree", "copy"}
    BY <1>2, <1>3, CleanedUp
  <1> QED
    BY <1>4, PlanLists, LateStep DEF CopyPublishFails, Stop

\* A restored entry leaves its staging directory, which goes if it is empty.
LEMMA RestoreInv ==
    ASSUME LostInv, Restore
    PROVE  LostInv'
  <1>1. PICK s, t, x, n : s = NextRestored /\ t = s.tree /\ x = s.entry
                          /\ n = Last(s.op.from)
    OBVIOUS
  <1>2. PICK disk \in Restored(s) :
           \E c \in Cleanups(disk, t, {}, "staging") : place' = c.place
    BY <1>1 DEF Restore
  <1>3. PICK c \in Cleanups(disk, t, {}, "staging") : place' = c.place
    BY <1>2
  <1>4. Holds(s) /\ \E d : disk \in RenameNoReplace(x, d, n)
    BY <1>1, <1>2 DEF Restored
  <1>5. PICK d : disk \in RenameNoReplace(x, d, n)
    BY <1>4
  <1>6. Formed(place) /\ x \in DOMAIN place
    BY <1>1, <1>4 DEF LostInv, Holds, Named
  <1>7. Formed(disk)
    BY <1>5, <1>6, Renamed
  <1>8. DOMAIN disk = DOMAIN place
    BY <1>5, <1>6, Renamed
  <1>9. s \in ToSet(staged) /\ staged # <<>> /\ pc = "rollback"
    BY <1>1, RestFormed, PlanLists DEF Restore
  <1>10. t.made = "tree" /\ using = NoTree
    BY <1>1, <1>9 DEF LostInv, TreesOwned
  <1>11. /\ Formed(place')
         /\ \A y \in DOMAIN place \ DOMAIN place' : y.made = "tree"
    BY <1>3, <1>7, <1>8, <1>10, CleanedUp
  <1> QED
    BY <1>9, <1>10, <1>11, PlanLists, RestFormed, LateStep DEF Restore

-----------------------------------------------------------------------------
(* Paths, and the steps until the deletes are done                           *)

\* A prefix is a start of the sequence, place by place.
LEMMA PrefixOf ==
    ASSUME NEW T, NEW s \in Seq(T), NEW t \in Seq(T)
    PROVE  IsPrefix(s, t) <=>
              Len(s) <= Len(t) /\ \A i \in 1 .. Len(s) : s[i] = t[i]
  <1> DEFINE a == SubSeq(s, 1, Len(s))
             b == SubSeq(t, 1, Len(s))
  <1>1. /\ a \in Seq(T) /\ Len(a) = Len(s) /\ \A i \in 1 .. Len(s) : a[i] = s[i]
    OBVIOUS
  <1>2. ASSUME Len(s) <= Len(t)
        PROVE  b \in Seq(T) /\ Len(b) = Len(s) /\ \A i \in 1 .. Len(s) : b[i] = t[i]
    BY <1>2
  <1>3. IsPrefix(s, t) <=> Len(s) <= Len(t) /\ a = b
    BY DEF IsPrefix
  <1> HIDE DEF a, b
  <1>4. ASSUME Len(s) <= Len(t), \A i \in 1 .. Len(s) : s[i] = t[i]
        PROVE  a = b
    BY <1>1, <1>2, <1>4, SeqEqual
  <1> QED
    BY <1>1, <1>2, <1>3, <1>4

\* Prefixes among paths of one or two names.
LEMMA PathPrefixes ==
    ASSUME NEW a, NEW b, NEW c, NEW d
    PROVE  /\ IsPrefix(<<a>>, <<b>>) <=> a = b
           /\ IsPrefix(<<a>>, <<b, c>>) <=> a = b
           /\ ~IsPrefix(<<a, c>>, <<b>>)
           /\ IsPrefix(<<a, c>>, <<b, d>>) <=> a = b /\ c = d
  <1>1. PICK T : T = {a, b, c, d}
    OBVIOUS
  <1>2. PICK s : s = <<a>>
    OBVIOUS
  <1>3. PICK t : t = <<b>>
    OBVIOUS
  <1>4. PICK u : u = <<a, c>>
    OBVIOUS
  <1>5. PICK v : v = <<b, d>>
    OBVIOUS
  <1>6. PICK w : w = <<b, c>>
    OBVIOUS
  <1>7. /\ s \in Seq(T) /\ Len(s) = 1 /\ s[1] = a
        /\ t \in Seq(T) /\ Len(t) = 1 /\ t[1] = b
    BY <1>1, <1>2, <1>3
  <1>8. /\ u \in Seq(T) /\ Len(u) = 2 /\ u[1] = a /\ u[2] = c
        /\ v \in Seq(T) /\ Len(v) = 2 /\ v[1] = b /\ v[2] = d
        /\ w \in Seq(T) /\ Len(w) = 2 /\ w[1] = b /\ w[2] = c
    BY <1>1, <1>4, <1>5, <1>6
  <1>9. IsPrefix(s, t) <=> a = b
    BY <1>7, PrefixOf
  <1>10. IsPrefix(s, w) <=> a = b
    BY <1>7, <1>8, PrefixOf
  <1>11. ~IsPrefix(u, t)
    BY <1>7, <1>8 DEF IsPrefix
  <1>12. IsPrefix(u, v) <=> a = b /\ c = d
    BY <1>8, PrefixOf
  <1> QED
    BY <1>2, <1>3, <1>4, <1>5, <1>6, <1>9, <1>10, <1>11, <1>12

\* The same, of two paths of two names.
LEMMA TwoNames ==
    ASSUME NEW a, NEW b, NEW c, NEW d, IsPrefix(<<a, b>>, <<c, d>>)
    PROVE  a = c /\ b = d
  <1>1. PICK T : T = {a, b, c, d}
    OBVIOUS
  <1>2. PICK u : u = <<a, b>>
    OBVIOUS
  <1>3. PICK v : v = <<c, d>>
    OBVIOUS
  <1>4. /\ u \in Seq(T) /\ Len(u) = 2 /\ u[1] = a /\ u[2] = b
        /\ v \in Seq(T) /\ Len(v) = 2 /\ v[1] = c /\ v[2] = d
    BY <1>1, <1>2, <1>3
  <1>5. IsPrefix(u, v)
    BY <1>2, <1>3
  <1> QED
    BY <1>4, <1>5, PrefixOf

\* The listing: two levels, in which a name is used once in a directory.
LEMMA ListingFacts ==
    ASSUME NEW e \in Originals
    PROVE  /\ e.made = "original" /\ e # Root
           /\ Layout[e].name \in Nat \ {Payload}
           /\ Layout[e].name # NoName /\ Layout[e].name # Payload
           /\ Layout[e].dir \in Originals \cup {Root}
           /\ Layout[e].dir.made # "tree"
           /\ e \in Listed => PathOf(e) = <<Layout[e].name>> /\ Layout[e].dir = Root
           /\ e \notin Listed =>
                 /\ Layout[e].dir \in Listed /\ Layout[Layout[e].dir].kind = "dir"
                 /\ PathOf(e) = <<Layout[Layout[e].dir].name, Layout[e].name>>
  <1>1. /\ e.made = "original" /\ e # Root
        /\ Layout[e].name \in Nat \ {Payload}
        /\ Layout[e].name # NoName
        /\ Layout[e].dir \in Originals \cup {Root}
        /\ Layout[e].dir.made # "tree"
    BY PlanConstants DEF Spot
  <1>2. e \in Listed => PathOf(e) = <<Layout[e].name>> /\ Layout[e].dir = Root
    BY DEF Listed, PathOf
  <1>3. ASSUME e \notin Listed
        PROVE  /\ Layout[e].dir \in Listed /\ Layout[Layout[e].dir].kind = "dir"
               /\ PathOf(e) = <<Layout[Layout[e].dir].name, Layout[e].name>>
    <2>1. Layout[e].dir # Root
      BY <1>3 DEF Listed
    <2>2. Layout[e].dir \in Originals
      BY <1>1, <2>1
    <2>3. Layout[Layout[e].dir].dir = Root /\ Layout[Layout[e].dir].kind = "dir"
      BY <2>1, PlanConstants, Zenon
    <2> QED
      BY <2>1, <2>2, <2>3 DEF Listed, PathOf
  <1> QED
    BY <1>1, <1>2, <1>3

\* A path names one original.
LEMMA SamePath ==
    ASSUME NEW e \in Originals, NEW f \in Originals, PathOf(e) = PathOf(f)
    PROVE  e = f
  <1>1. \A x, y \in Originals :
           Layout[x].dir = Layout[y].dir /\ Layout[x].name = Layout[y].name
           => x = y
    BY PlanConstants, Zenon
  <1>2. \A x \in Listed : x \in Originals
    BY DEF Listed
  <1>3. CASE e \in Listed /\ f \in Listed
    <2>1. <<Layout[e].name>> = <<Layout[f].name>>
      BY <1>3, ListingFacts
    <2>2. Layout[e].name = Layout[f].name
      BY <2>1
    <2> QED
      BY <1>1, <1>3, <2>2, ListingFacts
  <1>4. CASE e \notin Listed /\ f \notin Listed
    <2>1. PICK d, g : d = Layout[e].dir /\ g = Layout[f].dir
      OBVIOUS
    <2>2. <<Layout[d].name, Layout[e].name>> = <<Layout[g].name, Layout[f].name>>
      BY <1>4, <2>1, ListingFacts
    <2>3. Layout[d].name = Layout[g].name /\ Layout[e].name = Layout[f].name
      BY <2>2
    <2>4. d \in Listed /\ g \in Listed
      BY <1>4, <2>1, ListingFacts
    <2>5. Layout[d].dir = Layout[g].dir
      BY <2>4 DEF Listed
    <2>6. d = g
      BY <1>1, <1>2, <2>3, <2>4, <2>5
    <2> QED
      BY <1>1, <2>1, <2>3, <2>6
  <1>5. CASE e \in Listed /\ f \notin Listed
    <2>1. PICK a, b, c : PathOf(e) = <<a>> /\ PathOf(f) = <<b, c>>
      BY <1>5, ListingFacts
    <2>2. <<a>> # <<b, c>>
      OBVIOUS
    <2> QED
      BY <2>1, <2>2, Zenon
  <1>6. CASE e \notin Listed /\ f \in Listed
    <2>1. PICK a, b, c : PathOf(f) = <<a>> /\ PathOf(e) = <<b, c>>
      BY <1>6, ListingFacts
    <2>2. <<a>> # <<b, c>>
      OBVIOUS
    <2> QED
      BY <2>1, <2>2, Zenon
  <1> QED
    BY <1>3, <1>4, <1>5, <1>6

\* Where a path of the listing is looked up.
LEMMA Looked ==
    ASSUME NEW e \in Originals, NEW x \in At(PathOf(e))
    PROVE  /\ x \in DOMAIN place /\ place[x].name = Layout[e].name
           /\ e \in Listed => place[x].dir = Root
           /\ e \notin Listed =>
                 \E d \in DOMAIN place :
                    /\ place[d].dir = Root /\ place[d].kind = "dir"
                    /\ place[d].name = Layout[Layout[e].dir].name
                    /\ place[x].dir = d
  <1>1. PICK d \in Parent(PathOf(e)) : x \in Named(d, Last(PathOf(e)))
    BY DEF At
  <1>2. /\ x \in DOMAIN place /\ place[x].dir = d
        /\ place[x].name = Last(PathOf(e))
    BY <1>1 DEF Named
  <1>3. CASE e \in Listed
    <2>1. PICK a : a = Layout[e].name
      OBVIOUS
    <2>2. PathOf(e) = <<a>>
      BY <1>3, <2>1, ListingFacts
    <2>3. Len(<<a>>) = 1 /\ Last(<<a>>) = a
      BY DEF Last
    <2>4. d = Root
      BY <1>1, <2>2, <2>3 DEF Parent
    <2> QED
      BY <1>2, <1>3, <2>1, <2>2, <2>3, <2>4
  <1>4. CASE e \notin Listed
    <2>1. PICK a, b : a = Layout[Layout[e].dir].name /\ b = Layout[e].name
      OBVIOUS
    <2>2. PathOf(e) = <<a, b>>
      BY <1>4, <2>1, ListingFacts
    <2>3. Len(<<a, b>>) = 2 /\ Last(<<a, b>>) = b /\ <<a, b>>[1] = a
      BY DEF Last
    <2>4. /\ d \in DOMAIN place /\ place[d].dir = Root /\ place[d].kind = "dir"
          /\ place[d].name = a
      BY <1>1, <2>2, <2>3 DEF Parent
    <2> QED
      BY <1>2, <1>4, <2>1, <2>2, <2>3, <2>4
  <1> QED
    BY <1>3, <1>4

\* Until the deletes are done, what has a name of the listing in the root is
\* an original in its place, or a file.
LEMMA InRoot ==
    ASSUME EarlyDisk, Early, NEW x \in DOMAIN place, place[x].dir = Root,
           place[x].name # NoName
    PROVE  \/ x \in Originals /\ place[x] = Layout[x]
           \/ x.made = "other" /\ place[x].kind = "file"
  <1>1. \/ x \in Originals /\ (place[x] = Layout[x] \/ InTree(x))
        \/ x.made = "other" /\ place[x].kind = "file"
        \/ x.made = "tree" /\ place[x].dir = Root /\ place[x].name = NoName
    BY DEF EarlyDisk
  <1>2. ~InTree(x)
    BY PlanConstants DEF InTree
  <1> QED
    BY <1>1, <1>2

\* A path of the listing leads to the original it is of, while that is unmoved.
LEMMA SourceFound ==
    ASSUME EarlyDisk, EarlyNames, Early, NEW e \in Originals, Unmoved(e),
           NEW x \in At(PathOf(e))
    PROVE  x = e
  <1>1. /\ x \in DOMAIN place /\ e \in DOMAIN place /\ place[e] = Layout[e]
        /\ place[x].name = place[e].name /\ place[x].name # NoName
    BY Looked, ListingFacts DEF Unmoved
  <1>2. place[x].dir = place[e].dir
    <2>1. CASE e \in Listed
      BY <1>1, <2>1, Looked, ListingFacts
    <2>2. CASE e \notin Listed
      <3>1. PICK y : y = Layout[e].dir
        OBVIOUS
      <3>2. PICK d \in DOMAIN place :
              /\ place[d].dir = Root /\ place[d].kind = "dir"
              /\ place[d].name = Layout[y].name /\ place[x].dir = d
        BY <2>2, <3>1, Looked
      <3>3. y \in Originals /\ Layout[y].dir = Root
        BY <2>2, <3>1, ListingFacts DEF Listed
      <3>4. place[d].name # NoName
        BY <3>2, <3>3, ListingFacts
      <3>5. d \in Originals /\ place[d] = Layout[d]
        BY <3>2, <3>4, InRoot
      <3>6. Layout[d].dir = Layout[y].dir /\ Layout[d].name = Layout[y].name
        BY <3>2, <3>3, <3>5
      <3>7. \A f, g \in Originals :
               Layout[f].dir = Layout[g].dir /\ Layout[f].name = Layout[g].name
               => f = g
        BY PlanConstants, Zenon
      <3>8. d = y
        BY <3>3, <3>5, <3>6, <3>7
      <3> QED
        BY <1>1, <3>1, <3>2, <3>8
    <2> QED
      BY <2>1, <2>2
  <1> QED
    BY <1>1, <1>2 DEF EarlyNames

\* A disk with fewer entries, all where they were.
LEMMA EarlyRest ==
    ASSUME EarlyDisk, EarlyNames, Early' => Early,
           DOMAIN place' \subseteq DOMAIN place,
           \A x \in DOMAIN place' : place'[x] = place[x]
    PROVE  /\ EarlyDisk' /\ EarlyNames'
           /\ \A e : Unmoved(e)' => Unmoved(e)
  <1>1. EarlyDisk'
    BY DEF EarlyDisk, InTree
  <1>2. EarlyNames'
    BY DEF EarlyNames
  <1>3. \A e : Unmoved(e)' => Unmoved(e)
    BY DEF Unmoved
  <1> QED
    BY <1>1, <1>2, <1>3

\* The originals that a delete finds at its path, and below it, are in their
\* places, and the plan deletes them.
LEMMA DeleteLoses ==
    ASSUME LostInv, pc = "delete", todo # <<>>
    PROVE  \A x \in Below(place, At(Head(todo).from)) :
              x \in Originals => x \in Doomed /\ place[x] = Layout[x]
  <1>1. /\ EarlyDisk /\ EarlyNames /\ Early /\ MovedAway
        /\ Head(todo) \in ToSet(plan.deletes)
    BY PlanLists, ListSteps DEF LostInv, StepsLeft, Early
  <1>2. PICK e0 \in Listed : Head(todo).from = PathOf(e0)
    BY <1>1 DEF LostInv, PlanFormed
  <1>3. e0 \in Originals
    BY DEF Listed
  <1>4. PICK P, S : P = Head(todo).from /\ S = At(P)
    OBVIOUS
  <1> DEFINE K == {x \in DOMAIN place :
                     /\ x.made # "tree"
                     /\ x \in Originals => x \in Doomed /\ place[x] = Layout[x]}
  \* No move takes an entry that is where it was out of a deleted directory.
  <1>5. ASSUME NEW e \in Originals, place[e] = Layout[e], e \in DOMAIN place,
               NEW m \in ToSet(plan.moves)
        PROVE  m.from # PathOf(e)
    BY <1>1, <1>5 DEF MovedAway, Unmoved
  <1>6. \A m \in ToSet(plan.moves) : \E f \in Originals : m.from = PathOf(f)
    BY DEF LostInv, PlanFormed
  <1>7. ASSUME NEW x \in S
        PROVE  x \in K
    <2>1. /\ x \in DOMAIN place /\ place[x].dir = Root
          /\ place[x].name = Layout[e0].name /\ place[x].name # NoName
      BY <1>2, <1>3, <1>4, <1>7, Looked, ListingFacts
    <2>2. CASE x.made = "other"
      BY <2>1, <2>2, ListingFacts
    <2>3. CASE x \in Originals /\ place[x] = Layout[x]
      <3>1. Layout[x].dir = Layout[e0].dir /\ Layout[x].name = Layout[e0].name
        BY <1>2, <1>3, <2>1, <2>3, ListingFacts
      <3>2. x = e0
        <4>1. \A f, g \in Originals :
                 Layout[f].dir = Layout[g].dir /\ Layout[f].name = Layout[g].name
                 => f = g
          BY PlanConstants, Zenon
        <4> QED
          BY <1>3, <2>3, <3>1, <4>1
      <3>3. PICK n : PathOf(x) = <<n>>
        BY <1>2, <1>3, <3>2, ListingFacts
      <3>4. StartsWith(PathOf(x), Head(todo).from)
        <4>1. IsPrefix(<<n>>, <<n>>)
          BY PathPrefixes
        <4> QED
          BY <1>2, <3>2, <3>3, <4>1 DEF StartsWith
      <3>5. ASSUME NEW m \in ToSet(plan.moves), StartsWith(PathOf(x), m.from)
            PROVE  FALSE
        <4>1. PICK f \in Originals : m.from = PathOf(f)
          BY <1>6
        <4>2. IsPrefix(PathOf(f), <<n>>)
          BY <3>3, <3>5, <4>1 DEF StartsWith
        <4>3. CASE f \in Listed
          <5>1. PICK a : PathOf(f) = <<a>>
            BY <4>3, ListingFacts
          <5>2. IsPrefix(<<a>>, <<n>>)
            BY <4>2, <5>1
          <5>3. a = n
            BY <5>2, PathPrefixes
          <5>4. m.from = PathOf(x)
            BY <3>3, <4>1, <5>1, <5>3
          <5> QED
            BY <1>5, <2>1, <2>3, <5>4
        <4>4. CASE f \notin Listed
          <5>1. PICK a, b : PathOf(f) = <<a, b>>
            BY <4>4, ListingFacts
          <5>2. IsPrefix(<<a, b>>, <<n>>)
            BY <4>2, <5>1
          <5> QED
            BY <5>2, PathPrefixes
        <4> QED
          BY <4>3, <4>4
      <3>6. x \in Doomed
        BY <1>1, <2>3, <3>4, <3>5 DEF Doomed
      <3>7. x.made # "tree"
        BY <2>3, ListingFacts
      <3> QED
        BY <2>1, <2>3, <3>6, <3>7
    <2> QED
      BY <1>1, <2>1, <2>2, <2>3, InRoot
  <1>8. ASSUME NEW z \in DOMAIN place, place[z].dir \in K
        PROVE  z \in K
    <2>1. PICK y : y = place[z].dir
      OBVIOUS
    <2>2. y \in DOMAIN place /\ y.made # "tree" /\ y # Root
      <3>1. Root \notin DOMAIN place
        BY <1>1, PlanConstants DEF EarlyDisk
      <3> QED
        BY <1>8, <2>1, <3>1
    <2>3. \/ z \in Originals /\ place[z] = Layout[z]
          \/ z.made = "other"
      BY <1>1, <2>1, <2>2 DEF EarlyDisk, InTree
    <2>4. CASE z.made = "other"
      BY <2>4, ListingFacts
    <2>5. CASE z \in Originals /\ place[z] = Layout[z]
      <3>1. z \notin Listed /\ y = Layout[z].dir /\ y \in Listed
        BY <2>1, <2>2, <2>5, ListingFacts DEF Listed
      <3>2. y \in Originals /\ y \in Doomed /\ place[y] = Layout[y]
        BY <1>8, <2>1, <3>1 DEF Listed
      <3>3. PICK a, b : PathOf(y) = <<a>> /\ PathOf(z) = <<a, b>>
        BY <2>5, <3>1, <3>2, ListingFacts
      <3>4. PICK op \in ToSet(plan.deletes) : StartsWith(PathOf(y), op.from)
        BY <3>2 DEF Doomed
      <3>5. StartsWith(PathOf(z), op.from)
        <4>1. PICK g \in Listed : op.from = PathOf(g)
          BY DEF LostInv, PlanFormed
        <4>2. PICK c : PathOf(g) = <<c>>
          BY <4>1, ListingFacts DEF Listed
        <4>3. IsPrefix(<<c>>, <<a>>)
          BY <3>3, <3>4, <4>1, <4>2 DEF StartsWith
        <4>4. IsPrefix(<<c>>, <<a, b>>)
          BY <4>3, PathPrefixes
        <4> QED
          BY <3>3, <4>1, <4>2, <4>4 DEF StartsWith
      <3>6. ASSUME NEW m \in ToSet(plan.moves), StartsWith(PathOf(z), m.from)
            PROVE  FALSE
        <4>1. PICK f \in Originals : m.from = PathOf(f)
          BY <1>6
        <4>2. IsPrefix(PathOf(f), <<a, b>>)
          BY <3>3, <3>6, <4>1 DEF StartsWith
        <4>3. CASE f \in Listed
          <5>1. PICK c : PathOf(f) = <<c>>
            BY <4>3, ListingFacts
          <5>2. IsPrefix(<<c>>, <<a, b>>)
            BY <4>2, <5>1
          <5>3. c = a
            BY <5>2, PathPrefixes
          <5>4. m.from = PathOf(y)
            BY <3>3, <4>1, <5>1, <5>3
          <5> QED
            BY <1>5, <2>2, <3>2, <5>4
        <4>4. CASE f \notin Listed
          <5>1. PICK c, d : PathOf(f) = <<c, d>>
            BY <4>4, ListingFacts
          <5>2. IsPrefix(<<c, d>>, <<a, b>>)
            BY <4>2, <5>1
          <5>3. c = a /\ d = b
            BY <5>2, TwoNames
          <5>4. m.from = PathOf(z)
            BY <3>3, <4>1, <5>1, <5>3
          <5> QED
            BY <1>5, <2>5, <5>4
        <4> QED
          BY <4>3, <4>4
      <3>7. z \in Doomed
        BY <2>5, <3>5, <3>6 DEF Doomed
      <3>8. z.made # "tree"
        BY <2>5, ListingFacts
      <3> QED
        BY <2>5, <3>7, <3>8
    <2> QED
      BY <2>3, <2>4, <2>5
  <1>9. Below(place, S) \subseteq K
    <2>1. PICK L : L = K
      OBVIOUS
    <2>2. S \subseteq L /\ \A z \in DOMAIN place : place[z].dir \in L => z \in L
      BY <1>7, <1>8, <2>1
    <2> QED
      BY <2>1, <2>2, BelowStays
  <1> QED
    BY <1>4, <1>9

\* The parts of the invariant that the steps before the deletes can disturb.
LEMMA EarlyStep ==
    ASSUME LostInv, UNCHANGED plan, gone \subseteq gone',
           IsSequence(todo'), IsSequence(deferred'), IsSequence(staged'),
           TreesOwned', Formed(place'), EarlyDisk', EarlyNames', MovedAway',
           StepsLeft',
           \A x \in DOMAIN place \ DOMAIN place' :
              x \in gone' \cup Doomed \/ x.made \in {"tree", "copy"},
           \A x \in disturbed' \ disturbed :
              x.made = "other" => x \in DOMAIN place' \cup gone'
    PROVE  LostInv'
  <1>1. PlanFormed'
    BY DEF LostInv, PlanFormed
  <1>2. NothingLost'
    BY StillThere DEF LostInv
  <1> QED
    BY <1>1, <1>2 DEF LostInv

\* The phases begin with the lists of the plan.
LEMMA BeginsInv ==
    ASSUME LostInv, Verify \/ Staged
    PROVE  LostInv'
  <1>1. UNCHANGED <<plan, place, deferred, staged, using, gone, disturbed>>
    BY DEF Verify, Staged
  <1>2. Early /\ EarlyDisk /\ EarlyNames /\ using = NoTree
    BY DEF LostInv, TreesOwned, Verify, Staged, Early
  <1>3. EarlyDisk' /\ EarlyNames' /\ \A e : Unmoved(e)' => Unmoved(e)
    BY <1>1, <1>2, EarlyRest
  <1>4. TreesOwned'
    BY <1>1, <1>2 DEF TreesOwned, LostInv
  <1>5. StepsLeft' /\ IsSequence(todo')
    BY PlanLists DEF StepsLeft, Verify, Staged
  <1>6. MovedAway'
    <2>1. CASE Verify
      BY <1>1, <2>1 DEF MovedAway, Verify
    <2>2. CASE Staged
      <3>1. pc = "stage" /\ ToSet(todo) = {}
        BY <2>2, EmptyList DEF Staged
      <3> QED
        BY <1>1, <1>3, <3>1 DEF MovedAway, LostInv
    <2> QED
      BY <2>1, <2>2
  <1> QED
    BY <1>1, <1>3, <1>4, <1>5, <1>6, PlanLists, EarlyStep DEF LostInv

\* A staging directory is made for the next move.
LEMMA StageAllocateInv ==
    ASSUME LostInv, StageAllocate
    PROVE  LostInv'
  <1>1. PICK t, op : t = Tree("move", op.to) /\ op = Head(todo)
    OBVIOUS
  <1>2. /\ pc = "stage" /\ todo # <<>> /\ using = NoTree
        /\ place' = With(t, Root, NoName, "dir")
        /\ using'.op = op /\ using'.tree = t
    BY <1>1 DEF StageAllocate
  <1>3. t.made = "tree" /\ Formed(place) /\ Early /\ EarlyDisk /\ EarlyNames
    BY <1>1, <1>2 DEF Tree, LostInv, Early
  <1>4. Formed(place')
    BY <1>2, <1>3, WithOne
  <1>5. /\ DOMAIN place' = DOMAIN place \cup {t}
        /\ place'[t] = [dir |-> Root, name |-> NoName, kind |-> "dir"]
        /\ \A y \in DOMAIN place : y # t => place'[y] = place[y]
    BY <1>2 DEF With
  <1>6. EarlyDisk'
    BY <1>3, <1>5 DEF EarlyDisk, InTree
  <1>7. EarlyNames'
    BY <1>3, <1>5 DEF EarlyNames
  <1>8. \A e \in Originals : Unmoved(e)' => Unmoved(e)
    BY <1>3, <1>5, ListingFacts DEF Unmoved
  <1>9. UNCHANGED <<plan, pc, todo, deferred, staged, gone, disturbed>>
    BY DEF StageAllocate
  <1>10. TreesOwned'
    BY <1>1, <1>2, <1>3, <1>9 DEF LostInv, TreesOwned
  <1>11. MovedAway' /\ StepsLeft'
    BY <1>8, <1>9 DEF LostInv, MovedAway, StepsLeft
  <1> QED
    BY <1>4, <1>5, <1>6, <1>7, <1>9, <1>10, <1>11, PlanLists, EarlyStep
    DEF LostInv

\* The entry that has the source's path is put into the staging directory.
LEMMA StageRenameInv ==
    ASSUME LostInv, StageRename
    PROVE  LostInv'
  <1>1. /\ pc = "stage" /\ using # NoTree /\ todo # <<>>
        /\ using.op = Head(todo) /\ using.tree.made = "tree"
        /\ Formed(place) /\ Early /\ EarlyDisk /\ EarlyNames
        /\ Head(todo) \in ToSet(plan.moves)
    BY PlanLists, ListSteps DEF StageRename, LostInv, TreesOwned, StepsLeft, Early
  <1>2. PICK e0 \in Originals : Head(todo).from = PathOf(e0)
    BY <1>1 DEF LostInv, PlanFormed
  <1>3. PICK t, n : t = using.tree /\ n = Payload
    OBVIOUS
  <1>4. PICK x \in At(PathOf(e0)) : place' \in RenameNoReplace(x, t, n)
    BY <1>1, <1>2, <1>3 DEF StageRename
  <1>5. x \in DOMAIN place /\ place[x].name # NoName
    BY <1>4, Looked, ListingFacts
  <1>6. PICK disk \in RenameNoReplace(x, t, n) : disk = place'
    BY <1>4
  <1>7. Formed(disk)
    BY <1>1, <1>5, <1>6, Renamed
  <1>8. DOMAIN disk = DOMAIN place /\ Named(t, n) = {}
    BY <1>6 DEF RenameNoReplace
  <1>9. /\ disk[x] = [dir |-> t, name |-> n, kind |-> place[x].kind]
        /\ \A y \in DOMAIN place : y # x => disk[y] = place[y]
    BY <1>5, <1>6 DEF RenameNoReplace
  <1>10. /\ Formed(place') /\ DOMAIN place' = DOMAIN place
         /\ place'[x] = [dir |-> t, name |-> n, kind |-> place[x].kind]
         /\ \A y \in DOMAIN place : y # x => place'[y] = place[y]
    BY <1>6, <1>7, <1>8, <1>9
  <1>11. t.made = "tree"
    BY <1>1, <1>3
  <1>12. EarlyDisk'
    <2>1. x \in Originals \/ (x.made = "other" /\ place[x].kind = "file")
      BY <1>1, <1>5 DEF EarlyDisk
    <2> QED
      BY <1>1, <1>3, <1>10, <1>11, <2>1 DEF EarlyDisk, InTree
  <1>13. EarlyNames'
    BY <1>1, <1>8, <1>10 DEF EarlyNames, Named
  <1>14. \A e \in Originals : Unmoved(e)' => Unmoved(e) /\ e # x
    BY <1>10, <1>11, ListingFacts DEF Unmoved
  <1>15. \A e \in Originals : PathOf(e) = Head(todo).from => ~Unmoved(e)'
    <2>1. ASSUME NEW e \in Originals, PathOf(e) = Head(todo).from, Unmoved(e)
          PROVE  e = x
      <3>1. x \in At(PathOf(e))
        BY <1>2, <1>4, <2>1
      <3> QED
        BY <1>1, <2>1, <3>1, SourceFound
    <2> QED
      BY <1>14, <2>1
  <1>16. /\ UNCHANGED <<plan, pc, deferred, gone, disturbed>> /\ using' = NoTree
         /\ todo' = Tail(todo) /\ staged' = Append(staged, using)
    BY DEF StageRename
  <1>17. /\ IsSequence(todo') /\ IsSequence(staged')
         /\ ToSet(todo) = ToSet(todo') \cup {Head(todo)}
         /\ ToSet(staged') = ToSet(staged) \cup {using}
    BY <1>1, <1>16, PlanLists, ListSteps
  <1>18. TreesOwned'
    BY <1>1, <1>16, <1>17 DEF LostInv, TreesOwned
  <1>19. MovedAway'
    BY <1>1, <1>14, <1>15, <1>16, <1>17 DEF LostInv, MovedAway
  <1>20. StepsLeft'
    BY <1>16, <1>17 DEF LostInv, StepsLeft
  <1> QED
    BY <1>10, <1>12, <1>13, <1>16, <1>17, <1>18, <1>19, <1>20, PlanLists,
       EarlyStep DEF LostInv

\* A delete removes what the plan was reviewed to delete.
LEMMA DeleteInv ==
    ASSUME LostInv, Delete
    PROVE  LostInv'
  <1>1. PICK S : S = Below(place, At(Head(todo).from))
    OBVIOUS
  <1>2. /\ pc = "delete" /\ todo # <<>> /\ place' = Without(place, S)
        /\ gone' = gone \cup (S \ Originals) /\ todo' = Tail(todo)
        /\ UNCHANGED <<plan, pc, deferred, staged, using, disturbed>>
    BY <1>1 DEF Delete, Lose
  <1>3. Formed(place) /\ EarlyDisk /\ EarlyNames /\ Early /\ using = NoTree
    BY <1>2 DEF LostInv, TreesOwned, Early
  <1>4. /\ Formed(place') /\ DOMAIN place' = DOMAIN place \ S
        /\ \A x \in DOMAIN place' : place'[x] = place[x]
    <2>1. Formed(place')
      BY <1>2, <1>3, WithoutSome
    <2>2. /\ DOMAIN place' = DOMAIN place \ S
          /\ \A x \in DOMAIN place' : place'[x] = place[x]
      BY <1>2 DEF Without
    <2> QED
      BY <2>1, <2>2
  <1>5. EarlyDisk' /\ EarlyNames' /\ \A e : Unmoved(e)' => Unmoved(e)
    BY <1>3, <1>4, EarlyRest
  <1>6. S \cap Originals \subseteq Doomed
    BY <1>1, <1>2, DeleteLoses
  <1>7. \A x \in DOMAIN place \ DOMAIN place' : x \in gone' \cup Doomed
    BY <1>2, <1>4, <1>6
  <1>8. IsSequence(todo') /\ ToSet(todo') \subseteq ToSet(todo)
    BY <1>2, PlanLists, ListSteps
  <1>9. TreesOwned' /\ StepsLeft' /\ MovedAway'
    <2>1. TreesOwned'
      BY <1>2, <1>3 DEF LostInv, TreesOwned
    <2>2. StepsLeft'
      BY <1>2, <1>8 DEF LostInv, StepsLeft
    <2>3. MovedAway'
      BY <1>2, <1>5 DEF LostInv, MovedAway
    <2> QED
      BY <2>1, <2>2, <2>3
  <1> QED
    BY <1>2, <1>4, <1>5, <1>7, <1>8, <1>9, PlanLists, EarlyStep

\* A delete that stops halfway removes less.
LEMMA DeleteFailsInv ==
    ASSUME LostInv, DeleteFails
    PROVE  LostInv'
  <1>1. PICK S : S = Below(place, At(Head(todo).from))
    OBVIOUS
  <1>2. PICK T \in {{}, S \ At(Head(todo).from)} :
           place' = Without(place, T) /\ gone' = gone \cup (T \ Originals)
    BY <1>1 DEF DeleteFails, Lose
  <1>3. pc = "delete" /\ todo # <<>> /\ pc' = "rollback"
        /\ UNCHANGED <<plan, todo, deferred, staged, using, disturbed>>
    BY DEF DeleteFails, Fail
  <1>4. Formed(place) /\ using = NoTree
    BY <1>3 DEF LostInv, TreesOwned
  <1>5. Formed(place') /\ DOMAIN place' = DOMAIN place \ T
    BY <1>2, <1>4, WithoutSome
  <1>6. S \cap Originals \subseteq Doomed
    BY <1>1, <1>3, DeleteLoses
  <1>7. T \subseteq S
    BY <1>2
  <1>8. \A x \in DOMAIN place \ DOMAIN place' : x \in gone' \cup Doomed
    BY <1>2, <1>5, <1>6, <1>7
  <1> QED
    BY <1>2, <1>3, <1>4, <1>5, <1>8, PlanLists, LateStep

\* Another process makes a file.
LEMMA IntrudeInv ==
    ASSUME LostInv, Intrude
    PROVE  LostInv'
  <1>1. PICK x : x = Intruder(Cardinality(disturbed))
    OBVIOUS
  <1>2. PICK d \in {Root} \cup {y \in DOMAIN place : place[y].kind = "dir"},
             p \in Paths \cup {<<Payload>>} :
          /\ Named(d, Last(p)) = {} /\ place' = With(x, d, Last(p), "file")
    BY <1>1 DEF Intrude
  <1>3. PICK n : n = Last(p)
    OBVIOUS
  <1>4. /\ UNCHANGED <<plan, pc, todo, deferred, staged, using, gone>>
        /\ disturbed' = disturbed \cup {x}
    BY <1>1 DEF Intrude
  <1>5. Formed(place) /\ place' = With(x, d, n, "file") /\ x.made = "other"
    BY <1>1, <1>2, <1>3 DEF Intruder, LostInv
  <1>6. Formed(place')
    BY <1>5, WithOne
  <1>7. /\ DOMAIN place' = DOMAIN place \cup {x}
        /\ place'[x] = [dir |-> d, name |-> n, kind |-> "file"]
        /\ \A y \in DOMAIN place : y # x => place'[y] = place[y]
    BY <1>5 DEF With
  <1>8. EarlyDisk'
    BY <1>4, <1>5, <1>7 DEF LostInv, EarlyDisk, InTree, Early
  <1>9. EarlyNames'
    BY <1>2, <1>3, <1>4, <1>7 DEF LostInv, EarlyNames, Early, Named
  <1>10. \A e \in Originals : Unmoved(e)' => Unmoved(e)
    BY <1>5, <1>7, ListingFacts DEF Unmoved
  <1>11. TreesOwned' /\ StepsLeft' /\ MovedAway'
    <2>1. TreesOwned' /\ StepsLeft'
      BY <1>4 DEF LostInv, TreesOwned, StepsLeft
    <2>2. MovedAway'
      BY <1>4, <1>10 DEF LostInv, MovedAway
    <2> QED
      BY <2>1, <2>2
  <1> QED
    BY <1>4, <1>6, <1>7, <1>8, <1>9, <1>11, PlanLists, EarlyStep

\* Another process removes an entry with what is inside.
LEMMA RemoveEntryInv ==
    ASSUME LostInv, RemoveEntry
    PROVE  LostInv'
  <1>1. PICK x \in DOMAIN place :
          /\ place' = Without(place, Below(place, {x}))
          /\ gone' = gone \cup Below(place, {x})
    BY DEF RemoveEntry
  <1>2. PICK S : S = Below(place, {x})
    OBVIOUS
  <1>3. place' = Without(place, S) /\ gone' = gone \cup S /\ Formed(place)
    BY <1>1, <1>2 DEF LostInv
  <1>4. /\ Formed(place') /\ DOMAIN place' = DOMAIN place \ S
        /\ \A y \in DOMAIN place' : place'[y] = place[y]
    <2>1. Formed(place')
      BY <1>3, WithoutSome
    <2>2. /\ DOMAIN place' = DOMAIN place \ S
          /\ \A y \in DOMAIN place' : place'[y] = place[y]
      BY <1>3 DEF Without
    <2> QED
      BY <2>1, <2>2
  <1>5. UNCHANGED <<plan, pc, todo, deferred, staged, using>>
    BY DEF RemoveEntry
  <1>6. \A y \in disturbed' \ disturbed : y.made # "other"
    <2>1. \A y \in disturbed' \ disturbed : y = Removal(Cardinality(disturbed))
      BY DEF RemoveEntry
    <2> QED
      BY <2>1 DEF Removal
  <1>7. EarlyDisk' /\ EarlyNames' /\ \A e : Unmoved(e)' => Unmoved(e)
    BY <1>4, <1>5, EarlyRest DEF LostInv, Early
  <1>8. TreesOwned' /\ StepsLeft' /\ MovedAway'
    <2>1. TreesOwned' /\ StepsLeft'
      BY <1>5 DEF LostInv, TreesOwned, StepsLeft
    <2>2. MovedAway'
      BY <1>5, <1>7 DEF LostInv, MovedAway
    <2> QED
      BY <2>1, <2>2
  <1> QED
    BY <1>3, <1>4, <1>5, <1>6, <1>7, <1>8, PlanLists, EarlyStep

-----------------------------------------------------------------------------
(* Nothing is lost                                                           *)

LEMMA LostStep == LostInv /\ [Next]_vars => LostInv'
  <1> SUFFICES ASSUME LostInv, [Next]_vars PROVE LostInv'
    OBVIOUS
  <1>1. CASE Verify \/ Staged
    BY <1>1, BeginsInv
  <1>2. CASE StageAllocate
    BY <1>2, StageAllocateInv
  <1>3. CASE StageRename
    BY <1>3, StageRenameInv
  <1>4. CASE Delete
    BY <1>4, DeleteInv
  <1>5. CASE DeleteFails
    BY <1>5, DeleteFailsInv
  <1>6. CASE ProbeRetained
    BY <1>6, ProbeRetainedInv
  <1>7. CASE StageRenameFails
    BY <1>7, StageRenameFailsInv
  <1>8. CASE Create
    BY <1>8, CreateInv
  <1>9. CASE Publish
    BY <1>9, PublishInv
  <1>10. CASE CopyEntry
    BY <1>10, CopyEntryInv
  <1>11. CASE CopyPublish
    BY <1>11, CopyPublishInv
  <1>12. CASE CopyPublishFails
    BY <1>12, CopyPublishFailsInv
  <1>13. CASE Restore
    BY <1>13, RestoreInv
  <1>14. CASE \/ Refuse \/ StageAllocateFails \/ Deleted \/ Defer \/ CreateFails
              \/ PublishFails \/ NextPass \/ NoParent \/ Finalized
              \/ CopyEntryFails \/ Complete \/ RestoreFails \/ RolledBack
    BY <1>14, StillLateInv
  <1>15. CASE Intrude
    BY <1>15, IntrudeInv
  <1>16. CASE RemoveEntry
    BY <1>16, RemoveEntryInv
  <1>17. CASE UNCHANGED vars
    <2>1. UNCHANGED <<plan, place, pc, todo, deferred, staged, using, gone,
                      disturbed>>
      BY <1>17 DEF vars
    <2>2. PlanFormed' /\ Formed(place') /\ TreesOwned' /\ StepsLeft'
      BY <2>1 DEF LostInv, PlanFormed, TreesOwned, StepsLeft
    <2>3. EarlyDisk' /\ EarlyNames' /\ \A e : Unmoved(e)' => Unmoved(e)
      BY <2>1, EarlyRest DEF LostInv, Early
    <2>4. MovedAway'
      BY <2>1, <2>3 DEF LostInv, MovedAway
    <2>5. NothingLost'
      BY <2>1, StillThere DEF LostInv
    <2> QED
      BY <2>2, <2>3, <2>4, <2>5 DEF LostInv
  <1> QED
    BY <1>1, <1>2, <1>3, <1>4, <1>5, <1>6, <1>7, <1>8, <1>9, <1>10, <1>11,
       <1>12, <1>13, <1>14, <1>15, <1>16, <1>17 DEF Next, Apply, Terminated

LEMMA LostAlways == Spec => []LostInv
  BY InitLost, LostStep, PTL DEF Spec

\* Whatever call fails and whatever other processes do meanwhile, apply destroys
\* only what the plan was reviewed to delete (NothingLost).
THEOREM NothingIsLost == Spec => []NothingLost
  <1>1. LostInv => NothingLost
    BY DEF LostInv
  <1> QED
    BY <1>1, LostAlways, PTL

-----------------------------------------------------------------------------
(* What a rollback restores                                                  *)

\* What is inside an entry is in an entry.
LEMMA BelowInside ==
    ASSUME NEW p, NEW S, S \subseteq DOMAIN p, NEW x \in Below(p, S), x \notin S
    PROVE  x \in DOMAIN p /\ p[x].dir \in DOMAIN p
  <1>1. PICK K : K = {y \in DOMAIN p : y \in S \/ p[y].dir \in DOMAIN p}
    OBVIOUS
  <1>2. S \subseteq K /\ \A z \in DOMAIN p : p[z].dir \in K => z \in K
    BY <1>1
  <1>3. x \in K
    BY <1>2, BelowStays
  <1> QED
    BY <1>1, <1>3

\* A staged entry is in its directory.
LEMMA StagedFacts ==
    ASSUME QuietDisk, Quiet, Undoable, NEW s \in ToSet(staged)
    PROVE  /\ s.entry \in Originals /\ s.entry \in DOMAIN place
           /\ s.op \in ToSet(plan.moves) /\ s.op.from = PathOf(s.entry)
           /\ s.tree.made = "tree"
           /\ place[s.entry] = [dir |-> s.tree, name |-> Payload,
                                kind |-> Layout[s.entry].kind]
           /\ place[s.entry].dir = s.tree /\ place[s.entry].name = Payload
  <1>1. StagedWell(s)
    BY DEF QuietDisk
  <1> QED
    BY <1>1 DEF StagedWell

\* Where an entry is while nothing happened that cannot be undone.
LEMMA QuietPlaces ==
    ASSUME QuietDisk, Quiet, Undoable
    PROVE  /\ Root \notin DOMAIN place
           /\ \A x \in DOMAIN place : place[x].name # NoName =>
                 /\ x \in Originals
                 /\ \/ place[x] = Layout[x]
                    \/ place[x].dir.made = "tree" /\ place[x].name = Payload
           /\ \A s \in ToSet(staged) : ~Unmoved(s.entry)
           /\ \A x \in Originals \cap DOMAIN place :
                 Unmoved(x) \/ \E s \in ToSet(staged) : s.entry = x
           /\ \A x \in DOMAIN place : x \in Originals \/ x.made = "tree"
  <1>1. ASSUME NEW x \in DOMAIN place
        PROVE  \/ x \in Originals
                  /\ (place[x] = Layout[x] \/ \E s \in ToSet(staged) : s.entry = x)
               \/ x.made = "tree" /\ place[x].dir = Root
                  /\ place[x].name = NoName
    BY DEF QuietDisk
  <1>3. ASSUME NEW s \in ToSet(staged)
        PROVE  /\ s.entry \in Originals /\ s.tree.made = "tree"
               /\ place[s.entry].dir = s.tree /\ place[s.entry].name = Payload
    BY StagedFacts
  <1>4. Root \notin DOMAIN place
    BY <1>1, PlanConstants
  <1>5. ASSUME NEW x \in DOMAIN place, place[x].name # NoName
        PROVE  /\ x \in Originals
               /\ \/ place[x] = Layout[x]
                  \/ place[x].dir.made = "tree" /\ place[x].name = Payload
    BY <1>1, <1>3, <1>5
  <1>6. \A s \in ToSet(staged) : ~Unmoved(s.entry)
    BY <1>3, ListingFacts DEF Unmoved
  <1>7. \A x \in Originals \cap DOMAIN place :
           Unmoved(x) \/ \E s \in ToSet(staged) : s.entry = x
    BY <1>1, ListingFacts DEF Unmoved
  <1>8. \A x \in DOMAIN place : x \in Originals \/ x.made = "tree"
    BY <1>1
  <1> QED
    BY <1>4, <1>5, <1>6, <1>7, <1>8

\* The directory that a path of the listing leads to is the one it was in.
LEMMA QuietParent ==
    ASSUME QuietDisk, Quiet, Undoable, NEW e \in Originals,
           NEW d \in Parent(PathOf(e))
    PROVE  /\ d = Layout[e].dir
           /\ e \notin Listed => Unmoved(d) /\ d \in Originals
  <1>1. CASE e \in Listed
    <2>1. PICK a : PathOf(e) = <<a>>
      BY <1>1, ListingFacts
    <2>2. Len(<<a>>) = 1
      OBVIOUS
    <2> QED
      BY <1>1, <2>1, <2>2, ListingFacts DEF Parent
  <1>2. CASE e \notin Listed
    <2>1. PICK y : y = Layout[e].dir
      OBVIOUS
    <2>2. PICK a, b : PathOf(e) = <<a, b>> /\ a = Layout[y].name
      BY <1>2, <2>1, ListingFacts
    <2>3. Len(<<a, b>>) = 2 /\ <<a, b>>[1] = a
      OBVIOUS
    <2>4. d \in DOMAIN place /\ place[d].dir = Root /\ place[d].name = a
      BY <2>2, <2>3 DEF Parent
    <2>5. y \in Originals /\ Layout[y].dir = Root /\ a # NoName
      BY <1>2, <2>1, <2>2, ListingFacts DEF Listed
    <2>6. d \in Originals /\ place[d] = Layout[d]
      BY <2>4, <2>5, QuietPlaces, PlanConstants
    <2>7. \A f, g \in Originals :
             Layout[f].dir = Layout[g].dir /\ Layout[f].name = Layout[g].name
             => f = g
      BY PlanConstants, Zenon
    <2>8. Layout[d].dir = Layout[y].dir /\ Layout[d].name = Layout[y].name
      BY <2>2, <2>4, <2>5, <2>6
    <2>9. d = y
      BY <2>5, <2>6, <2>7, <2>8
    <2> QED
      BY <2>1, <2>4, <2>6, <2>9 DEF Unmoved
  <1> QED
    BY <1>1, <1>2

\* What a path of the listing names is the original it is of, in its place.
LEMMA QuietFound ==
    ASSUME QuietDisk, Quiet, Undoable, NEW e \in Originals,
           NEW x \in At(PathOf(e))
    PROVE  /\ x = e /\ Unmoved(e)
           /\ e \notin Listed => Unmoved(Layout[e].dir)
  <1>1. PICK d \in Parent(PathOf(e)) : x \in Named(d, Last(PathOf(e)))
    BY DEF At
  <1>2. /\ x \in DOMAIN place /\ place[x].name = Layout[e].name
        /\ Layout[e].name # NoName /\ Layout[e].name # Payload
    BY Looked, ListingFacts
  <1>3. place[x].dir = d
    BY <1>1 DEF Named
  <1>4. d = Layout[e].dir
    BY QuietParent
  <1>5. e \notin Listed => Unmoved(d)
    BY QuietParent
  <1>6. x \in Originals /\ place[x] = Layout[x]
    BY <1>2, QuietPlaces
  <1>7. Layout[x].dir = Layout[e].dir /\ Layout[x].name = Layout[e].name
    BY <1>2, <1>3, <1>4, <1>6
  <1>8. \A f, g \in Originals :
           Layout[f].dir = Layout[g].dir /\ Layout[f].name = Layout[g].name
           => f = g
    BY PlanConstants, Zenon
  <1>9. x = e
    BY <1>6, <1>7, <1>8
  <1> QED
    BY <1>2, <1>4, <1>5, <1>6, <1>9 DEF Unmoved

\* A staged entry that is the last one can go back.
LEMMA CanGoBack ==
    ASSUME QuietDisk, QuietOrder, Quiet, Undoable, IsSequence(staged),
           staged # <<>>
    PROVE  Restored(NextRestored) # {}
  <1>1. PICK s, k : s = NextRestored /\ k = LastTaken
    OBVIOUS
  <1>2. /\ k \in DOMAIN staged /\ s = staged[k] /\ s \in ToSet(staged)
        /\ \A j \in DOMAIN staged : j <= k
    <2>1. DOMAIN staged = 1 .. Len(staged) /\ Len(staged) \in Nat
      BY DEF IsSequence
    <2> QED
      BY <1>1, <2>1, RestFormed DEF NextRestored, LastTaken
  <1>3. PICK e : e = s.entry
    OBVIOUS
  <1>4. /\ e \in Originals /\ e \in DOMAIN place /\ s.op.from = PathOf(e)
        /\ s.tree.made = "tree" /\ place[e].dir = s.tree
        /\ place[e].name = Payload
    BY <1>2, <1>3, StagedFacts
  <1>5. Holds(s)
    <2>1. e \in Named(s.tree, Payload)
      BY <1>4 DEF Named
    <2>2. ASSUME NEW x \in Named(s.tree, Payload)
          PROVE  x = e
      <3>1. x \in DOMAIN place /\ place[x].dir = s.tree /\ place[x].name = Payload
        BY DEF Named
      <3>2. Payload # NoName
        BY PlanConstants DEF Payload
      <3>3. x \in Originals /\ ~Unmoved(x)
        BY <1>4, <3>1, <3>2, QuietPlaces, ListingFacts DEF Unmoved
      <3>4. PICK t \in ToSet(staged) : t.entry = x
        BY <3>1, <3>3, QuietPlaces
      <3>5. PICK j \in DOMAIN staged : t = staged[j]
        BY DEF ToSet
      <3>6. t.tree = s.tree
        BY <3>1, <3>4, StagedFacts
      <3>7. j = k
        BY <1>2, <3>5, <3>6 DEF QuietOrder
      <3> QED
        BY <1>2, <1>3, <3>4, <3>5, <3>7
    <2> QED
      BY <1>3, <2>1, <2>2 DEF Holds
  <1>6. PICK d : d = Layout[e].dir
    OBVIOUS
  <1>7. d \in Parent(PathOf(e)) /\ (d = Root \/ d \in DOMAIN place)
        /\ d \notin Below(place, {e})
    <2>1. CASE e \in Listed
      <3>1. PICK a : PathOf(e) = <<a>>
        BY <1>4, <2>1, ListingFacts
      <3>2. Len(<<a>>) = 1 /\ d = Root
        BY <1>4, <1>6, <2>1, ListingFacts
      <3>3. d \notin DOMAIN place
        BY <3>2, QuietPlaces
      <3> QED
        BY <3>1, <3>2, <3>3 DEF Parent, Below
    <2>2. CASE e \notin Listed
      <3>1. PICK a, b : PathOf(e) = <<a, b>> /\ a = Layout[d].name
        BY <1>4, <1>6, <2>2, ListingFacts
      <3>2. Len(<<a, b>>) = 2 /\ <<a, b>>[1] = a
        OBVIOUS
      <3>3. /\ d \in Listed /\ d \in Originals /\ Layout[d].dir = Root
            /\ Layout[d].kind = "dir"
        BY <1>4, <1>6, <2>2, ListingFacts DEF Listed
      <3>4. d \in DOMAIN place
        BY <3>3 DEF QuietDisk
      <3>5. Unmoved(d)
        <4>1. ASSUME NEW t \in ToSet(staged), t.entry = d
              PROVE  FALSE
          <5>1. PICK j \in DOMAIN staged : t = staged[j]
            BY DEF ToSet
          <5>2. k < j
            BY <1>2, <1>3, <1>6, <4>1, <5>1 DEF QuietOrder
          <5>3. j <= k /\ j \in Nat /\ k \in Nat
            BY <1>2, <5>1 DEF IsSequence
          <5> QED
            BY <5>2, <5>3
        <4> QED
          BY <3>3, <3>4, <4>1, QuietPlaces
      <3>6. place[d] = Layout[d]
        BY <3>5 DEF Unmoved
      <3>7. d \in Parent(PathOf(e))
        BY <3>1, <3>2, <3>3, <3>4, <3>6 DEF Parent
      <3>8. d \notin Below(place, {e})
        <4>1. d # e /\ Root \notin DOMAIN place
          BY <2>2, <3>3, QuietPlaces
        <4>2. place[d].dir \notin DOMAIN place /\ {e} \subseteq DOMAIN place
          BY <1>4, <3>3, <3>6, <4>1
        <4> QED
          BY <4>1, <4>2, BelowInside
      <3> QED
        BY <3>4, <3>7, <3>8
    <2> QED
      BY <2>1, <2>2
  <1>8. Named(d, Last(PathOf(e))) = {}
    <2>1. ASSUME NEW x \in Named(d, Last(PathOf(e)))
          PROVE  FALSE
      <3>1. x \in At(PathOf(e))
        BY <1>7, <2>1 DEF At
      <3>2. Unmoved(e)
        BY <1>4, <3>1, QuietFound
      <3> QED
        BY <1>2, <1>3, <3>2, QuietPlaces
    <2> QED
      BY <2>1
  <1>9. PICK n : n = Last(PathOf(e))
    OBVIOUS
  <1>10. RenameNoReplace(e, d, n) # {}
    BY <1>7, <1>8, <1>9 DEF RenameNoReplace
  <1>11. PICK disk : disk \in RenameNoReplace(e, d, n)
    BY <1>10
  <1>12. disk \in Restored(s)
    BY <1>3, <1>4, <1>5, <1>7, <1>9, <1>11 DEF Restored
  <1> QED
    BY <1>1, <1>12

\* The invariant says nothing once something cannot be undone.
LEMMA NotQuiet ==
    ASSUME ~Quiet'
    PROVE  RollbackInv'
  <1>1. QuietDisk' /\ QuietOrder'
    BY DEF QuietDisk, QuietOrder
  <1>2. QuietUsing' /\ QuietPending' /\ QuietEnd'
    BY DEF QuietUsing, QuietPending, QuietEnd
  <1> QED
    BY <1>1, <1>2 DEF RollbackInv

LEMMA InitRollback == Init => RollbackInv
  <1> SUFFICES ASSUME Init PROVE RollbackInv
    OBVIOUS
  <1>1. /\ place = Layout /\ pc = "built" /\ staged = <<>> /\ using = NoTree
    BY DEF Init
  <1>2. DOMAIN place = Originals
    BY <1>1, PlanConstants
  <1>3. ToSet(staged) = {} /\ DOMAIN staged = {}
    BY <1>1, EmptyList
  <1>4. QuietDisk /\ QuietOrder
    <2>1. QuietDisk
      BY <1>1, <1>2, <1>3 DEF QuietDisk
    <2>2. QuietOrder
      BY <1>3 DEF QuietOrder
    <2> QED
      BY <2>1, <2>2
  <1>5. QuietUsing /\ QuietPending /\ QuietEnd
    BY <1>1 DEF QuietUsing, QuietPending, QuietEnd
  <1> QED
    BY <1>4, <1>5 DEF RollbackInv

\* The originals stay, and what else there is is staging directories.
OriginalsStay ==
    /\ \A e \in Originals :
          /\ e \in DOMAIN place <=> e \in DOMAIN place'
          /\ e \in DOMAIN place => place'[e] = place[e]
    /\ \A x \in DOMAIN place' :
          \/ x \in Originals
          \/ x \in DOMAIN place /\ place'[x] = place[x]
          \/ x.made = "tree" /\ place'[x].dir = Root /\ place'[x].name = NoName

\* A step that leaves the originals and what is staged as they are.
LEMMA QuietKeeps ==
    ASSUME RollbackInv, UNCHANGED <<plan, staged>>, Quiet, Undoable,
           OriginalsStay
    PROVE  QuietDisk' /\ QuietOrder'
  <1>1. QuietDisk /\ QuietOrder /\ Doomed' = Doomed
    BY DEF RollbackInv, Doomed
  <1>2. \A s \in ToSet(staged) : StagedWell(s)'
    <2> SUFFICES ASSUME NEW s \in ToSet(staged) PROVE StagedWell(s)'
      OBVIOUS
    <2>1. StagedWell(s)
      BY <1>1 DEF QuietDisk
    <2>2. s.entry \in DOMAIN place' /\ place'[s.entry] = place[s.entry]
      BY <2>1 DEF StagedWell, OriginalsStay
    <2> QED
      BY <2>1, <2>2 DEF StagedWell
  <1>3. \A x \in DOMAIN place' :
           \/ x \in Originals
              /\ (place'[x] = Layout[x] \/ \E s \in ToSet(staged) : s.entry = x)
           \/ x.made = "tree" /\ place'[x].dir = Root
              /\ place'[x].name = NoName
    <2> SUFFICES ASSUME NEW x \in DOMAIN place'
                 PROVE  \/ x \in Originals
                           /\ \/ place'[x] = Layout[x]
                              \/ \E s \in ToSet(staged) : s.entry = x
                        \/ x.made = "tree" /\ place'[x].dir = Root
                           /\ place'[x].name = NoName
      OBVIOUS
    <2>1. CASE x \in DOMAIN place /\ place'[x] = place[x]
      BY <1>1, <2>1 DEF QuietDisk
    <2> QED
      BY <2>1 DEF OriginalsStay
  <1>4. \A e \in Originals : e \in Listed \/ e \notin Doomed => e \in DOMAIN place'
    BY <1>1 DEF QuietDisk, OriginalsStay
  <1>5. QuietDisk'
    BY <1>1, <1>2, <1>3, <1>4 DEF QuietDisk
  <1>6. QuietOrder'
    BY <1>1 DEF QuietOrder
  <1> QED
    BY <1>5, <1>6

\* With nothing staged, every original that stays is in its place.
LEMMA NothingStaged ==
    ASSUME RollbackInv, Quiet, Undoable, staged = <<>>
    PROVE  \A e \in Originals \ Doomed : Unmoved(e)
  <1>1. QuietDisk
    BY DEF RollbackInv
  <1>2. ToSet(staged) = {}
    BY EmptyList
  <1> SUFFICES ASSUME NEW e \in Originals \ Doomed PROVE Unmoved(e)
    OBVIOUS
  <1>3. e \in DOMAIN place
    BY <1>1 DEF QuietDisk
  <1> QED
    BY <1>1, <1>2, <1>3, QuietPlaces

\* The steps that end the phases in which a rollback is possible.
LEMMA EndsQuiet ==
    ASSUME LostInv, RollbackInv,
           Refuse \/ ProbeRetained \/ RolledBack \/ Finalized
    PROVE  RollbackInv'
  <1> SUFFICES ASSUME Quiet' PROVE RollbackInv'
    BY NotQuiet
  <1>1. /\ UNCHANGED <<plan, staged, using, disturbed, faulted, applied>>
        /\ pc \in {"built", "rollback", "finish"} /\ pc' \in {"copy", "done"}
    BY DEF Refuse, ProbeRetained, RolledBack, Finalized, Stop
  <1>2. Quiet /\ Undoable
    BY <1>1 DEF Quiet, Undoable
  <1>3. staged = <<>>
    <2>1. CASE Refuse \/ ProbeRetained
      BY <1>2, <2>1 DEF RollbackInv, QuietPending, Refuse, ProbeRetained
    <2>2. CASE RolledBack
      BY <2>2 DEF RolledBack
    <2>3. CASE Finalized
      <3>1. \A s \in ToSet(staged) : FALSE
        BY <1>2, <2>3, EmptyList DEF RollbackInv, QuietPending, Finalized
      <3>2. IsSequence(staged)
        BY PlanLists
      <3> QED
        BY <3>1, <3>2, ListSteps
    <2> QED
      BY <2>1, <2>2, <2>3
  <1>4. \A e \in Originals \ Doomed : Unmoved(e)
    BY <1>2, <1>3, NothingStaged
  <1>5. \A e \in Originals : Unmoved(e) => Unmoved(e)'
    <2>1. CASE ProbeRetained
      <3>1. PICK t : t = Tree("probe", <<>>)
        OBVIOUS
      <3>2. PICK d : place' = With(t, d, NoName, "dir")
        BY <2>1, <3>1 DEF ProbeRetained
      <3>3. t.made = "tree"
        BY <3>1 DEF Tree
      <3> QED
        BY <3>2, <3>3, ListingFacts DEF Unmoved, With
    <2>2. CASE Refuse \/ RolledBack \/ Finalized
      BY <2>2 DEF Unmoved, Refuse, RolledBack, Finalized
    <2> QED
      BY <2>1, <2>2
  <1>6. Doomed' = Doomed
    BY <1>1 DEF Doomed
  <1>7. QuietEnd'
    BY <1>4, <1>5, <1>6 DEF QuietEnd
  <1>8. QuietDisk' /\ QuietOrder' /\ QuietUsing' /\ QuietPending'
    BY <1>1 DEF QuietDisk, QuietOrder, QuietUsing, QuietPending, Undoable
  <1> QED
    BY <1>7, <1>8 DEF RollbackInv

\* The copies, and the end after them, leave the originals where they are.
LEMMA CopiesQuiet ==
    ASSUME LostInv, RollbackInv,
           CopyEntry \/ CopyEntryFails \/ CopyPublishFails \/ Complete
    PROVE  RollbackInv'
  <1> SUFFICES ASSUME Quiet' PROVE RollbackInv'
    BY NotQuiet
  <1>1. /\ UNCHANGED <<plan, staged, disturbed, faulted, applied>>
        /\ pc = "copy" /\ pc' \in {"copy", "done"}
    BY DEF CopyEntry, CopyEntryFails, CopyPublishFails, Complete, Stop
  <1>2. \A e \in Originals \ Doomed : Unmoved(e)
    BY <1>1 DEF RollbackInv, QuietEnd, Quiet
  <1>3. \A e \in Originals : Unmoved(e) => Unmoved(e)'
    <2>1. CASE CopyEntry
      <3>1. PICK x, d : place' = CopyInto(x, Head(todo), d)
        BY <2>1 DEF CopyEntry
      <3>2. PICK t, op : op = Head(todo) /\ t = Tree("copy", op.to)
        OBVIOUS
      <3>3. PICK w : w = With(t, d, NoName, "dir")
        OBVIOUS
      <3>4. \A z \in DOMAIN w : z \in DOMAIN place' /\ place'[z] = w[z]
        BY <3>1, <3>2, <3>3 DEF CopyInto
      <3>5. t.made = "tree"
        BY <3>2 DEF Tree
      <3>6. \A e \in DOMAIN place : e # t => e \in DOMAIN w /\ w[e] = place[e]
        BY <3>3 DEF With
      <3> QED
        BY <3>4, <3>5, <3>6, ListingFacts DEF Unmoved
    <2>2. CASE CopyPublishFails
      <3>1. PICK t, o : t = using.tree /\ o = using.owned
        OBVIOUS
      <3>2. PICK c \in Cleanups(place, t, o, "copy") : place' = c.place
        BY <2>2, <3>1 DEF CopyPublishFails
      <3>3. Formed(place) /\ t.made = "tree" /\ \A x \in o : x.made = "copy"
        BY <2>2, <3>1 DEF LostInv, TreesOwned, CopyPublishFails
      <3>4. /\ DOMAIN place \ DOMAIN place' \subseteq o \cup {t}
            /\ \A x \in DOMAIN place' : place'[x] = place[x]
        BY <3>2, <3>3, CleanedUp
      <3> QED
        BY <3>3, <3>4, ListingFacts DEF Unmoved
    <2>3. CASE CopyEntryFails \/ Complete
      BY <2>3 DEF Unmoved, CopyEntryFails, Complete
    <2> QED
      BY <2>1, <2>2, <2>3
  <1>4. Doomed' = Doomed
    BY <1>1 DEF Doomed
  <1>5. QuietEnd'
    BY <1>2, <1>3, <1>4 DEF QuietEnd
  <1>6. QuietDisk' /\ QuietOrder' /\ QuietUsing' /\ QuietPending'
    BY <1>1 DEF QuietDisk, QuietOrder, QuietUsing, QuietPending, Undoable
  <1> QED
    BY <1>5, <1>6 DEF RollbackInv

\* The steps after which something was applied, or another process came by.
LEMMA LoudSteps ==
    ASSUME Delete \/ Create \/ Publish \/ CopyPublish \/ Intrude \/ RemoveEntry
    PROVE  RollbackInv'
  <1>1. applied' # {} \/ disturbed' # {}
    BY DEF Delete, Create, Publish, CopyPublish, Intrude, RemoveEntry, Done
  <1> QED
    BY <1>1, NotQuiet DEF Quiet

\* Two lists in a row have the elements of both.
LEMMA ConcatElements ==
    ASSUME NEW s, NEW t, IsSequence(s), IsSequence(t)
    PROVE  ToSet(t) \subseteq ToSet(s \o t)
  <1>1. PICK T : T = ToSet(s) \cup ToSet(t)
    OBVIOUS
  <1>2. s \in Seq(T) /\ t \in Seq(T)
    BY <1>1, SeqDef DEF IsSequence
  <1>3. PICK u : u = s \o t
    OBVIOUS
  <1>4. /\ u \in Seq(T) /\ Len(u) = Len(s) + Len(t)
        /\ \A i \in 1 .. Len(s) + Len(t) :
              u[i] = IF i <= Len(s) THEN s[i] ELSE t[i - Len(s)]
    BY <1>2, <1>3, ConcatProperties
  <1>5. /\ Len(s) \in Nat /\ Len(t) \in Nat /\ DOMAIN t = 1 .. Len(t)
        /\ DOMAIN u = 1 .. Len(s) + Len(t)
    BY <1>2, <1>4
  <1>6. ASSUME NEW j \in 1 .. Len(t)
        PROVE  \E i \in DOMAIN u : u[i] = t[j]
    <2>1. PICK i : i = Len(s) + j
      OBVIOUS
    <2>2. i \in 1 .. Len(s) + Len(t) /\ ~(i <= Len(s)) /\ i - Len(s) = j
      BY <1>5, <2>1
    <2> QED
      BY <1>4, <1>5, <2>2
  <1> QED
    BY <1>3, <1>5, <1>6 DEF ToSet

\* The disk is as it was, or a staging directory came or went.
LEMMA SameOriginals ==
    ASSUME LostInv,
           \/ place' = place
           \/ StageAllocate
           \/ StageRenameFails
    PROVE  OriginalsStay
  <1>1. CASE place' = place
    BY <1>1 DEF OriginalsStay
  <1>2. CASE StageAllocate
    <2>1. PICK t : t = Tree("move", Head(todo).to)
      OBVIOUS
    <2>2. place' = With(t, Root, NoName, "dir") /\ t.made = "tree"
      BY <1>2, <2>1 DEF StageAllocate, Tree
    <2>3. /\ DOMAIN place' = DOMAIN place \cup {t}
          /\ place'[t] = [dir |-> Root, name |-> NoName, kind |-> "dir"]
          /\ \A y \in DOMAIN place : y # t => place'[y] = place[y]
      BY <2>2 DEF With
    <2> QED
      BY <2>2, <2>3, ListingFacts DEF OriginalsStay
  <1>3. CASE StageRenameFails
    <2>1. PICK t : t = using.tree
      OBVIOUS
    <2>2. PICK c \in Cleanups(place, t, {}, "staging") : place' = c.place
      BY <1>3, <2>1 DEF StageRenameFails
    <2>3. t.made = "tree" /\ Formed(place)
      BY <1>3, <2>1 DEF LostInv, TreesOwned, StageRenameFails
    <2>4. DOMAIN place \ DOMAIN place' \subseteq {t}
      BY <2>2, <2>3, CleanedUp
    <2>5. DOMAIN place' \subseteq DOMAIN place
      BY <2>2, <2>3, CleanedUp
    <2>6. \A x \in DOMAIN place' : place'[x] = place[x]
      BY <2>2, <2>3, CleanedUp
    <2> QED
      BY <2>3, <2>4, <2>5, <2>6, ListingFacts DEF OriginalsStay
  <1> QED
    BY <1>1, <1>2, <1>3

\* The steps that leave the originals and what is staged as they are.
LEMMA StepsQuiet ==
    ASSUME LostInv, RollbackInv,
           \/ Verify \/ StageAllocate \/ StageAllocateFails
           \/ StageRenameFails \/ Staged \/ Deleted \/ Defer \/ CreateFails
           \/ PublishFails \/ NextPass \/ NoParent
    PROVE  RollbackInv'
  <1> SUFFICES ASSUME Quiet' PROVE RollbackInv'
    BY NotQuiet
  <1>1. /\ UNCHANGED <<plan, staged, disturbed, faulted, applied>>
        /\ pc \in {"built", "stage", "delete", "finish"}
        /\ pc' \in {"stage", "delete", "finish", "rollback"}
    BY DEF Verify, StageAllocate, StageAllocateFails, StageRenameFails, Staged,
       Deleted, Defer, CreateFails, PublishFails, NextPass, NoParent, Fail,
       Ready
  <1>2. place' = place \/ StageAllocate \/ StageRenameFails
    BY DEF Verify, StageAllocateFails, Staged, Deleted, Defer, CreateFails,
       PublishFails, NextPass, NoParent
  <1>3. Quiet /\ Undoable
    BY <1>1 DEF Quiet, Undoable
  <1>4. QuietDisk' /\ QuietOrder'
    <2>1. OriginalsStay
      BY <1>2, SameOriginals
    <2> QED
      BY <1>1, <1>3, <2>1, QuietKeeps
  <1>5. QuietUsing'
    <2>1. CASE StageAllocate
      <3>1. PICK x \in At(Head(todo).from) :
               using' = [op |-> Head(todo), entry |-> x,
                         tree |-> Tree("move", Head(todo).to)]
        BY <2>1 DEF StageAllocate
      <3>2. Head(todo) \in ToSet(plan.moves)
        BY <2>1, PlanLists, ListSteps DEF LostInv, StepsLeft, StageAllocate
      <3>3. PICK e \in Originals : Head(todo).from = PathOf(e)
        BY <3>2 DEF LostInv, PlanFormed
      <3>4. x \in At(PathOf(e)) /\ QuietDisk
        BY <3>1, <3>3 DEF RollbackInv
      <3>5. x = e
        BY <1>3, <3>4, QuietFound
      <3>6. using'.entry = x /\ using'.op = Head(todo)
        BY <3>1
      <3> QED
        BY <3>3, <3>5, <3>6 DEF QuietUsing
    <2>2. CASE using' = NoTree \/ pc' # "stage"
      BY <2>2 DEF QuietUsing
    <2>3. CASE ~StageAllocate
      <3>1. using' = NoTree \/ pc' # "stage"
        BY <2>3 DEF Verify, StageAllocateFails, StageRenameFails, Staged,
           Deleted, Defer, CreateFails, PublishFails, NextPass, NoParent, Fail,
           LostInv, TreesOwned
      <3> QED
        BY <2>2, <3>1
    <2> QED
      BY <2>1, <2>3
  <1>6. QuietPending'
    <2>1. CASE Deleted
      <3>1. ToSet(plan.moves) \subseteq ToSet(todo')
        BY <2>1, PlanLists, ConcatElements DEF Deleted
      <3>2. \A s \in ToSet(staged) : s.op \in ToSet(plan.moves)
        BY <1>3, StagedFacts DEF RollbackInv
      <3> QED
        BY <1>1, <2>1, <3>1, <3>2 DEF QuietPending, Deleted
    <2>2. CASE Defer
      <3>1. /\ ToSet(deferred') = ToSet(deferred) \cup {Head(todo)}
            /\ ToSet(todo) = ToSet(todo') \cup {Head(todo)}
        BY <2>2, PlanLists, ListSteps DEF Defer
      <3> QED
        BY <1>1, <1>3, <2>2, <3>1 DEF RollbackInv, QuietPending, Defer
    <2>3. CASE NextPass
      BY <1>1, <1>3, <2>3, EmptyList DEF RollbackInv, QuietPending, NextPass
    <2>4. CASE pc' \in {"stage", "delete", "rollback"}
      BY <2>4 DEF QuietPending
    <2> QED
      BY <2>1, <2>2, <2>3, <2>4
      DEF Verify, StageAllocate, StageAllocateFails, StageRenameFails, Staged,
          CreateFails, PublishFails, NoParent, Fail
  <1>7. QuietEnd'
    BY <1>1 DEF QuietEnd
  <1> QED
    BY <1>4, <1>5, <1>6, <1>7 DEF RollbackInv

\* A delete that stopped halfway removed only what the plan deletes.
LEMMA DeleteFailsQuiet ==
    ASSUME LostInv, RollbackInv, DeleteFails
    PROVE  RollbackInv'
  <1> SUFFICES ASSUME Quiet' PROVE RollbackInv'
    BY NotQuiet
  <1>1. PICK A : A = At(Head(todo).from)
    OBVIOUS
  <1>2. PICK S : S = Below(place, A)
    OBVIOUS
  <1>3. PICK T \in {{}, S \ A} : place' = Without(place, T)
    BY <1>1, <1>2 DEF DeleteFails, Lose
  <1>4. /\ pc = "delete" /\ todo # <<>> /\ pc' = "rollback"
        /\ UNCHANGED <<plan, todo, staged, using, disturbed, faulted, applied>>
    BY DEF DeleteFails, Fail
  <1>5. Quiet /\ Undoable /\ QuietDisk /\ QuietOrder /\ Formed(place)
    BY <1>4 DEF Quiet, Undoable, RollbackInv, LostInv
  <1>6. /\ DOMAIN place' = DOMAIN place \ T
        /\ \A x \in DOMAIN place' : place'[x] = place[x]
    BY <1>3 DEF Without
  <1>7. ASSUME NEW x \in T \cap Originals
        PROVE  /\ x \in Doomed /\ x \notin Listed /\ place[x] = Layout[x]
               /\ x \in DOMAIN place
    <2>1. x \in S /\ x \notin A
      BY <1>3
    <2>2. x \in Doomed /\ place[x] = Layout[x]
      BY <1>1, <1>2, <1>4, <2>1, DeleteLoses
    <2>3. A \subseteq DOMAIN place
      BY <1>1 DEF At, Named
    <2>4. x \in DOMAIN place /\ place[x].dir \in DOMAIN place
      BY <1>2, <2>1, <2>3, BelowInside
    <2>5. x \notin Listed
      BY <1>5, <2>2, <2>4, QuietPlaces DEF Listed
    <2> QED
      BY <2>2, <2>4, <2>5
  <1>8. \A s \in ToSet(staged) : s.entry \notin T
    <2> SUFFICES ASSUME NEW s \in ToSet(staged), s.entry \in T PROVE FALSE
      OBVIOUS
    <2>1. s.entry \in Originals /\ ~Unmoved(s.entry)
      BY <1>5, StagedFacts, QuietPlaces
    <2> QED
      BY <1>7, <2>1 DEF Unmoved
  <1>9. Doomed' = Doomed
    BY <1>4 DEF Doomed
  <1>10. QuietDisk'
    <2>1. \A x \in DOMAIN place' :
             \/ x \in Originals
                /\ (place'[x] = Layout[x] \/ \E s \in ToSet(staged) : s.entry = x)
             \/ x.made = "tree" /\ place'[x].dir = Root
                /\ place'[x].name = NoName
      BY <1>5, <1>6 DEF QuietDisk
    <2>2. \A e \in Originals : e \in Listed \/ e \notin Doomed => e \in DOMAIN place'
      BY <1>5, <1>6, <1>7 DEF QuietDisk
    <2>3. \A s \in ToSet(staged) : StagedWell(s)'
      <3> SUFFICES ASSUME NEW s \in ToSet(staged) PROVE StagedWell(s)'
        OBVIOUS
      <3>1. StagedWell(s)
        BY <1>5 DEF QuietDisk
      <3>2. s.entry \in DOMAIN place' /\ place'[s.entry] = place[s.entry]
        BY <1>6, <1>8, <3>1 DEF StagedWell
      <3> QED
        BY <1>4, <3>1, <3>2 DEF StagedWell
    <2> QED
      BY <1>4, <1>9, <2>1, <2>2, <2>3 DEF QuietDisk
  <1>11. QuietOrder'
    BY <1>4, <1>5 DEF QuietOrder
  <1>12. QuietUsing' /\ QuietPending' /\ QuietEnd'
    BY <1>4 DEF QuietUsing, QuietPending, QuietEnd
  <1> QED
    BY <1>10, <1>11, <1>12 DEF RollbackInv

\* The entry that is staged goes to the end of the list, out of its place.
LEMMA StageRenameQuiet ==
    ASSUME LostInv, RollbackInv, StageRename
    PROVE  RollbackInv'
  <1> SUFFICES ASSUME Quiet' PROVE RollbackInv'
    BY NotQuiet
  <1>1. /\ pc = "stage" /\ using # NoTree /\ todo # <<>> /\ pc' = "stage"
        /\ UNCHANGED <<plan, disturbed, faulted, applied>> /\ using' = NoTree
        /\ staged' = Append(staged, using)
        /\ using.op = Head(todo) /\ using.tree.made = "tree"
        /\ Head(todo) \in ToSet(plan.moves)
    BY PlanLists, ListSteps DEF StageRename, LostInv, TreesOwned, StepsLeft
  <1>2. /\ Quiet /\ Undoable /\ QuietDisk /\ QuietOrder /\ Formed(place)
        /\ IsSequence(staged)
    BY <1>1, PlanLists DEF Quiet, Undoable, RollbackInv, LostInv
  <1>3. PICK e, t, n : e = using.entry /\ t = using.tree /\ n = Payload
    OBVIOUS
  <1>4. e \in Originals /\ PathOf(e) = using.op.from
    BY <1>1, <1>2, <1>3 DEF RollbackInv, QuietUsing
  <1>5. PICK x \in At(PathOf(e)) : place' \in RenameNoReplace(x, t, n)
    BY <1>3, <1>4 DEF StageRename
  <1>6. x = e /\ Unmoved(e) /\ (e \notin Listed => Unmoved(Layout[e].dir))
    BY <1>2, <1>4, QuietFound
  <1>7. place' \in RenameNoReplace(e, t, n) /\ e \in DOMAIN place
    BY <1>5, <1>6 DEF Unmoved
  <1>8. /\ DOMAIN place' = DOMAIN place /\ Named(t, n) = {}
        /\ \A y \in DOMAIN place : y # e => place'[y] = place[y]
        /\ place'[e] = [dir |-> t, name |-> n, kind |-> place[e].kind]
    BY <1>7 DEF RenameNoReplace
  <1>9. place'[e] = [dir |-> t, name |-> Payload, kind |-> Layout[e].kind]
    BY <1>3, <1>6, <1>8 DEF Unmoved
  <1>10. ToSet(staged') = ToSet(staged) \cup {using}
    BY <1>1, <1>2, ListSteps
  <1>11. \A s \in ToSet(staged) : s.entry # e /\ s.tree # t
    <2> SUFFICES ASSUME NEW s \in ToSet(staged) PROVE s.entry # e /\ s.tree # t
      OBVIOUS
    <2>1. s.entry # e
      BY <1>2, <1>6, QuietPlaces
    <2>2. s.entry \in Named(s.tree, Payload)
      BY <1>2, StagedFacts DEF Named
    <2> QED
      BY <1>3, <1>8, <2>1, <2>2
  <1>12. Doomed' = Doomed
    BY <1>1 DEF Doomed
  <1>13. QuietDisk'
    <2>1. \A y \in DOMAIN place' :
             \/ y \in Originals
                /\ (place'[y] = Layout[y] \/ \E s \in ToSet(staged') : s.entry = y)
             \/ y.made = "tree" /\ place'[y].dir = Root
                /\ place'[y].name = NoName
      <3> SUFFICES ASSUME NEW y \in DOMAIN place'
                   PROVE  \/ y \in Originals
                             /\ \/ place'[y] = Layout[y]
                                \/ \E s \in ToSet(staged') : s.entry = y
                          \/ y.made = "tree" /\ place'[y].dir = Root
                             /\ place'[y].name = NoName
        OBVIOUS
      <3>1. CASE y = e
        BY <1>3, <1>4, <1>10, <3>1
      <3>2. CASE y # e
        <4>1. y \in DOMAIN place /\ place'[y] = place[y]
          BY <1>8, <3>2
        <4> QED
          BY <1>2, <1>10, <4>1 DEF QuietDisk
      <3> QED
        BY <3>1, <3>2
    <2>2. \A f \in Originals : f \in Listed \/ f \notin Doomed => f \in DOMAIN place'
      BY <1>2, <1>8 DEF QuietDisk
    <2>3. \A s \in ToSet(staged') : StagedWell(s)'
      <3>1. ASSUME NEW s \in ToSet(staged)
            PROVE  StagedWell(s)'
        <4>1. StagedWell(s)
          BY <1>2 DEF QuietDisk
        <4>2. s.entry \in DOMAIN place' /\ place'[s.entry] = place[s.entry]
          BY <1>8, <1>11, <4>1 DEF StagedWell
        <4> QED
          BY <1>1, <4>1, <4>2 DEF StagedWell
      <3>2. ASSUME NEW s \in ToSet(staged'), s = using
            PROVE  StagedWell(s)'
        <4>1. /\ s.entry = e /\ s.tree = t /\ s.op \in ToSet(plan.moves)
              /\ s.op.from = PathOf(e) /\ t.made = "tree"
          BY <1>1, <1>3, <1>4, <3>2
        <4> QED
          BY <1>1, <1>4, <1>7, <1>8, <1>9, <4>1 DEF StagedWell
      <3> QED
        BY <1>10, <3>1, <3>2
    <2> QED
      BY <1>12, <2>1, <2>2, <2>3 DEF QuietDisk
  <1>14. QuietOrder'
    <2>1. PICK N : N = Len(staged)
      OBVIOUS
    <2>2. /\ N \in Nat /\ DOMAIN staged = 1 .. N /\ DOMAIN staged' = 1 .. N + 1
          /\ \A i \in 1 .. N : staged'[i] = staged[i]
          /\ staged'[N + 1] = using
      <3>1. staged \in Seq(ToSet(staged))
        BY <1>2 DEF IsSequence
      <3>2. staged \in Seq(ToSet(staged) \cup {using})
        BY <3>1, SeqDef
      <3> QED
        BY <1>1, <2>1, <3>2, AppendProperties
    <2>3. \A i \in 1 .. N : staged[i] \in ToSet(staged)
      BY <2>2 DEF ToSet
    <2> SUFFICES ASSUME NEW i \in 1 .. N + 1, NEW j \in 1 .. N + 1
                 PROVE  /\ \/ staged'[i].entry = staged'[j].entry
                           \/ staged'[i].tree = staged'[j].tree
                           => i = j
                        /\ Layout[staged'[i].entry].dir = staged'[j].entry
                           => i < j
      BY <2>2 DEF QuietOrder
    <2>4. CASE i \in 1 .. N /\ j \in 1 .. N
      BY <1>2, <2>2, <2>4 DEF QuietOrder
    <2>5. CASE i \in 1 .. N /\ j = N + 1
      <3>1. staged'[i] \in ToSet(staged) /\ staged'[j] = using /\ i < j
        BY <2>2, <2>3, <2>5
      <3> QED
        BY <1>3, <1>11, <3>1
    <2>6. CASE i = N + 1 /\ j \in 1 .. N
      <3>1. staged'[j] \in ToSet(staged) /\ staged'[i] = using
        BY <2>2, <2>3, <2>6
      <3>2. Layout[e].dir # staged'[j].entry
        <4>1. staged'[j].entry \in Originals /\ ~Unmoved(staged'[j].entry)
          BY <1>2, <3>1, StagedFacts, QuietPlaces
        <4>2. e \in Listed => Layout[e].dir \notin Originals
          BY <1>4, ListingFacts
        <4> QED
          BY <1>6, <4>1, <4>2
      <3> QED
        BY <1>3, <1>11, <3>1, <3>2
    <2>7. CASE i = N + 1 /\ j = N + 1
      <3>1. Layout[e].dir # e
        BY <1>4, ListingFacts DEF Listed
      <3> QED
        BY <1>3, <2>2, <2>7, <3>1
    <2> QED
      BY <2>2, <2>4, <2>5, <2>6, <2>7
  <1>15. QuietUsing' /\ QuietPending' /\ QuietEnd'
    BY <1>1 DEF QuietUsing, QuietPending, QuietEnd
  <1> QED
    BY <1>13, <1>14, <1>15 DEF RollbackInv

\* The last staged entry goes back to its place.
LEMMA RestoreQuiet ==
    ASSUME LostInv, RollbackInv, Restore
    PROVE  RollbackInv'
  <1> SUFFICES ASSUME Quiet' PROVE RollbackInv'
    BY NotQuiet
  <1>1. /\ pc = "rollback" /\ pc' = "rollback" /\ staged # <<>>
        /\ UNCHANGED <<plan, using, disturbed, faulted, applied>>
        /\ staged' = RestRestored
    BY DEF Restore
  <1>2. /\ Quiet /\ Undoable /\ QuietDisk /\ QuietOrder /\ Formed(place)
        /\ IsSequence(staged)
    BY <1>1, PlanLists DEF Quiet, Undoable, RollbackInv, LostInv
  <1>3. PICK s, e, t, n, k : s = NextRestored /\ e = s.entry /\ t = s.tree
                             /\ n = Last(s.op.from) /\ k = Len(staged)
    OBVIOUS
  <1>4. /\ k \in DOMAIN staged /\ s = staged[k] /\ s \in ToSet(staged)
        /\ DOMAIN staged = 1 .. k /\ k \in Nat
    <2>1. DOMAIN staged = 1 .. Len(staged) /\ Len(staged) \in Nat
      BY <1>2 DEF IsSequence
    <2> QED
      BY <1>1, <1>2, <1>3, <2>1, RestFormed DEF NextRestored, LastTaken
  <1>5. /\ e \in Originals /\ e \in DOMAIN place /\ s.op.from = PathOf(e)
        /\ t.made = "tree" /\ place[e].kind = Layout[e].kind
    <2>1. /\ e \in Originals /\ e \in DOMAIN place /\ s.op.from = PathOf(e)
          /\ t.made = "tree"
      BY <1>2, <1>3, <1>4, StagedFacts
    <2>2. place[e] = [dir |-> t, name |-> Payload, kind |-> Layout[e].kind]
      BY <1>2, <1>3, <1>4, StagedFacts
    <2> QED
      BY <2>1, <2>2
  <1>6. PICK disk \in Restored(s) :
           \E c \in Cleanups(disk, t, {}, "staging") : place' = c.place
    BY <1>3 DEF Restore
  <1>7. PICK c \in Cleanups(disk, t, {}, "staging") : place' = c.place
    BY <1>6
  <1>8. \E d \in Parent(PathOf(e)) : disk \in RenameNoReplace(e, d, n)
    BY <1>3, <1>5, <1>6 DEF Restored
  <1>9. PICK d \in Parent(PathOf(e)) : disk \in RenameNoReplace(e, d, n)
    BY <1>8
  <1>10. d = Layout[e].dir
    BY <1>2, <1>5, QuietParent
  <1>11. n = Layout[e].name
    <2>1. PICK a, b : (PathOf(e) = <<a>> /\ a = Layout[e].name)
                      \/ (PathOf(e) = <<b, a>> /\ a = Layout[e].name)
      BY <1>5, ListingFacts
    <2>2. Last(<<a>>) = a /\ Last(<<b, a>>) = a
      BY DEF Last
    <2> QED
      BY <1>3, <1>5, <2>1, <2>2
  <1>12. /\ DOMAIN disk = DOMAIN place
         /\ \A y \in DOMAIN place : y # e => disk[y] = place[y]
         /\ disk[e] = [dir |-> d, name |-> n, kind |-> place[e].kind]
    BY <1>5, <1>9 DEF RenameNoReplace
  <1>13. Formed(disk)
    BY <1>2, <1>5, <1>9, Renamed
  <1>14. disk[e] = Layout[e]
    <2>1. Layout[e] = [dir |-> Layout[e].dir, name |-> Layout[e].name,
                       kind |-> Layout[e].kind]
      BY <1>5, PlanConstants DEF Spot
    <2> QED
      BY <1>5, <1>10, <1>11, <1>12, <2>1
  <1>15. DOMAIN disk \ DOMAIN place' \subseteq {t}
    BY <1>7, <1>13, CleanedUp
  <1>16. DOMAIN place' \subseteq DOMAIN disk
    BY <1>7, <1>13, CleanedUp
  <1>17. \A y \in DOMAIN place' : place'[y] = disk[y]
    BY <1>7, <1>13, CleanedUp
  <1>18. \A y \in Originals \cap DOMAIN place : y \in DOMAIN place'
    BY <1>5, <1>12, <1>15, ListingFacts
  <1>19. \A y \in DOMAIN place' : /\ y \in DOMAIN place
                                  /\ y # e => place'[y] = place[y]
                                  /\ y = e => place'[y] = Layout[e]
    BY <1>12, <1>14, <1>16, <1>17
  <1>20. PICK r : r = RestRestored
    OBVIOUS
  <1>21. /\ r = RemoveAt(staged, k) /\ IsSequence(r) /\ Len(r) = k - 1
         /\ \A i \in DOMAIN r : r[i] = staged[IF i < k THEN i ELSE i + 1]
    BY <1>2, <1>3, <1>4, <1>20, ListRemove DEF RestRestored, LastTaken
  <1>22. DOMAIN r = 1 .. k - 1
    BY <1>21 DEF IsSequence
  <1>23. \A i \in 1 .. k - 1 : r[i] = staged[i] /\ i \in 1 .. k /\ i # k
    BY <1>4, <1>21, <1>22
  <1>24. \A u \in ToSet(r) : u \in ToSet(staged) /\ u.entry # e
    <2> SUFFICES ASSUME NEW u \in ToSet(r)
                 PROVE  u \in ToSet(staged) /\ u.entry # e
      OBVIOUS
    <2>1. PICK i \in 1 .. k - 1 : u = r[i]
      BY <1>22 DEF ToSet
    <2>2. u = staged[i] /\ i \in DOMAIN staged /\ i # k
      BY <1>4, <1>23, <2>1
    <2>3. u \in ToSet(staged)
      BY <2>2 DEF ToSet
    <2>4. u.entry # e
      BY <1>2, <1>3, <1>4, <2>2 DEF QuietOrder
    <2> QED
      BY <2>3, <2>4
  <1>25. \A u \in ToSet(staged) : u.entry # e => u \in ToSet(r)
    <2> SUFFICES ASSUME NEW u \in ToSet(staged), u.entry # e
                 PROVE  u \in ToSet(r)
      OBVIOUS
    <2>1. PICK i \in 1 .. k : u = staged[i]
      BY <1>4 DEF ToSet
    <2>2. i # k
      BY <1>3, <1>4, <2>1
    <2>3. i \in 1 .. k - 1 /\ u = r[i]
      BY <1>4, <1>23, <2>1, <2>2
    <2> QED
      BY <1>22, <2>3 DEF ToSet
  <1>26. Doomed' = Doomed /\ staged' = r
    BY <1>1, <1>20 DEF Doomed
  <1>27. QuietDisk'
    <2>1. \A y \in DOMAIN place' :
             \/ y \in Originals
                /\ (place'[y] = Layout[y] \/ \E u \in ToSet(r) : u.entry = y)
             \/ y.made = "tree" /\ place'[y].dir = Root
                /\ place'[y].name = NoName
      <3> SUFFICES ASSUME NEW y \in DOMAIN place'
                   PROVE  \/ y \in Originals
                             /\ \/ place'[y] = Layout[y]
                                \/ \E u \in ToSet(r) : u.entry = y
                          \/ y.made = "tree" /\ place'[y].dir = Root
                             /\ place'[y].name = NoName
        OBVIOUS
      <3>1. CASE y = e
        BY <1>5, <1>19, <3>1
      <3>2. CASE y # e
        <4>1. y \in DOMAIN place /\ place'[y] = place[y]
          BY <1>19, <3>2
        <4>2. \/ y \in Originals
                 /\ \/ place[y] = Layout[y]
                    \/ \E u \in ToSet(staged) : u.entry = y
              \/ y.made = "tree" /\ place[y].dir = Root /\ place[y].name = NoName
          BY <1>2, <4>1 DEF QuietDisk
        <4> QED
          BY <1>25, <3>2, <4>1, <4>2
      <3> QED
        BY <3>1, <3>2
    <2>2. \A f \in Originals : f \in Listed \/ f \notin Doomed => f \in DOMAIN place'
      BY <1>2, <1>18 DEF QuietDisk
    <2>3. \A u \in ToSet(r) : StagedWell(u)'
      <3> SUFFICES ASSUME NEW u \in ToSet(r) PROVE StagedWell(u)'
        OBVIOUS
      <3>1. StagedWell(u) /\ u.entry # e
        BY <1>2, <1>24 DEF QuietDisk
      <3>2. u.entry \in DOMAIN place' /\ place'[u.entry] = place[u.entry]
        BY <1>18, <1>19, <3>1 DEF StagedWell
      <3> QED
        BY <1>1, <3>1, <3>2 DEF StagedWell
    <2> QED
      BY <1>26, <2>1, <2>2, <2>3 DEF QuietDisk
  <1>28. QuietOrder'
    <2>1. \A i, j \in 1 .. k - 1 :
             /\ r[i].entry = r[j].entry \/ r[i].tree = r[j].tree => i = j
             /\ Layout[r[i].entry].dir = r[j].entry => i < j
      BY <1>2, <1>4, <1>23 DEF QuietOrder
    <2> QED
      BY <1>22, <1>26, <2>1 DEF QuietOrder
  <1>29. QuietUsing' /\ QuietPending' /\ QuietEnd'
    BY <1>1 DEF QuietUsing, QuietPending, QuietEnd
  <1> QED
    BY <1>27, <1>28, <1>29 DEF RollbackInv

\* An entry that could go back and was not put back is a fault of the disk.
LEMMA RestoreFailsLoud ==
    ASSUME LostInv, RollbackInv, RestoreFails
    PROVE  RollbackInv'
  <1> SUFFICES ASSUME Quiet' PROVE FALSE
    BY NotQuiet
  <1>1. /\ pc = "rollback" /\ staged # <<>>
        /\ UNCHANGED <<disturbed, applied>>
        /\ faulted' = (faulted \/ Restored(NextRestored) # {})
    BY DEF RestoreFails
  <1>2. ~faulted /\ Restored(NextRestored) = {}
    BY <1>1 DEF Quiet
  <1>3. Quiet /\ Undoable /\ QuietDisk /\ QuietOrder /\ IsSequence(staged)
    BY <1>1, <1>2, PlanLists DEF Quiet, Undoable, RollbackInv
  <1> QED
    BY <1>1, <1>2, <1>3, CanGoBack

LEMMA RollbackStep == LostInv /\ RollbackInv /\ [Next]_vars => RollbackInv'
  <1> SUFFICES ASSUME LostInv, RollbackInv, [Next]_vars PROVE RollbackInv'
    OBVIOUS
  <1>1. CASE Refuse \/ ProbeRetained \/ RolledBack \/ Finalized
    BY <1>1, EndsQuiet
  <1>2. CASE CopyEntry \/ CopyEntryFails \/ CopyPublishFails \/ Complete
    BY <1>2, CopiesQuiet
  <1>3. CASE \/ Delete \/ Create \/ Publish \/ CopyPublish \/ Intrude
             \/ RemoveEntry
    BY <1>3, LoudSteps
  <1>4. CASE \/ Verify \/ StageAllocate \/ StageAllocateFails
             \/ StageRenameFails \/ Staged \/ Deleted \/ Defer \/ CreateFails
             \/ PublishFails \/ NextPass \/ NoParent
    BY <1>4, StepsQuiet
  <1>5. CASE StageRename
    BY <1>5, StageRenameQuiet
  <1>6. CASE DeleteFails
    BY <1>6, DeleteFailsQuiet
  <1>7. CASE Restore
    BY <1>7, RestoreQuiet
  <1>8. CASE RestoreFails
    BY <1>8, RestoreFailsLoud
  <1>9. CASE UNCHANGED vars
    <2>1. UNCHANGED <<plan, place, pc, todo, deferred, staged, using, applied,
                      disturbed, faulted>>
      BY <1>9 DEF vars
    <2>2. QuietDisk' /\ QuietOrder'
      BY <2>1 DEF RollbackInv, QuietDisk, QuietOrder, StagedWell, Quiet,
         Undoable, Doomed
    <2>3. QuietUsing' /\ QuietPending' /\ QuietEnd'
      BY <2>1 DEF RollbackInv, QuietUsing, QuietPending, QuietEnd, Quiet,
         Unmoved, Doomed
    <2> QED
      BY <2>2, <2>3 DEF RollbackInv
  <1> QED
    BY <1>1, <1>2, <1>3, <1>4, <1>5, <1>6, <1>7, <1>8, <1>9
    DEF Next, Apply, Terminated

\* A plan that stopped before it applied anything put every staged entry back,
\* unless another process or a failing disk stood in the way (RollbackRestores).
THEOREM StoppedRestores == Spec => []RollbackRestores
  <1>1. RollbackInv => RollbackRestores
    BY DEF RollbackInv, QuietEnd, RollbackRestores, Quiet, Unmoved
  <1> QED
    BY <1>1, InitRollback, RollbackStep, LostAlways, PTL DEF Spec

-----------------------------------------------------------------------------
(* What the report says of staging                                           *)

\* Each move is in the plan once, and no target has the name of a payload.
PlanTold ==
    /\ \A op \in ToSet(plan.moves) : op.do = "move"
    /\ \A op \in ToSet(plan.creates) : op.do = "create"
    /\ \A op \in ToSet(plan.moves) \cup ToSet(plan.copies) :
          Last(op.to) # Payload
    /\ IsInjective(plan.moves)

\* No two staged moves have one operation, nor is one left to be staged.
StagedOnce ==
    /\ \A i, j \in DOMAIN staged : staged[i].op = staged[j].op => i = j
    /\ \A s \in ToSet(staged) : s.op \in ToSet(plan.moves)
    /\ pc = "stage" => /\ IsInjective(todo)
                       /\ \A s \in ToSet(staged) : s.op \notin ToSet(todo)

\* Before the checks there is nothing to report.
Untouched == pc = "built" => staged = <<>> /\ recovery = {}

\* A staged move waits for its publication, until all are published.
StagedPending ==
    /\ pc \in {"copy", "done"} => staged = <<>>
    /\ pc = "finish" =>
          \A s \in ToSet(staged) : s.op \in ToSet(todo) \cup ToSet(deferred)

\* The copies under way are the plan's.
CopiesLeft == pc = "copy" => ToSet(todo) \subseteq ToSet(plan.copies)

\* A staging directory is in use, or the report names it.
TreesKnown ==
    \A x \in DOMAIN place : x.made = "tree" =>
        \/ \E r \in recovery : r.tree = x
        \/ \E s \in ToSet(staged) : s.tree = x
        \/ using # NoTree /\ using.tree = x

\* So is the one that an original is in.
HiddenKnown ==
    \A x \in DOMAIN place : x \in Originals /\ place[x].name = Payload =>
        \/ \E s \in ToSet(staged) : s.tree = place[x].dir
        \/ [tree |-> place[x].dir, kind |-> "original"] \in recovery

StagingInv == /\ PlanTold /\ Untouched /\ StagedOnce /\ StagedPending
              /\ CopiesLeft /\ TreesKnown /\ HiddenKnown

\* A list without repetitions does not hold its head again.
LEMMA TailOnce ==
    ASSUME NEW s, IsSequence(s), s # <<>>, IsInjective(s)
    PROVE  IsInjective(Tail(s)) /\ Head(s) \notin ToSet(Tail(s))
  <1>1. PICK T : T = ToSet(s)
    OBVIOUS
  <1>2. s \in Seq(T)
    BY <1>1 DEF IsSequence
  <1>3. PICK t : t = Tail(s)
    OBVIOUS
  <1>4. /\ t \in Seq(T) /\ Len(t) = Len(s) - 1 /\ Len(s) \in Nat \ {0}
        /\ \A i \in 1 .. Len(t) : t[i] = s[i + 1]
        /\ DOMAIN s = 1 .. Len(s) /\ DOMAIN t = 1 .. Len(t) /\ Head(s) = s[1]
    BY <1>2, <1>3, HeadTailProperties, LenProperties, EmptySeq
  <1>5. \A i, j \in 1 .. Len(s) : s[i] = s[j] => i = j
    BY <1>4 DEF IsInjective
  <1>6. IsInjective(t)
    <2> SUFFICES ASSUME NEW i \in 1 .. Len(t), NEW j \in 1 .. Len(t), t[i] = t[j]
                 PROVE  i = j
      BY <1>4 DEF IsInjective
    <2>1. i + 1 \in 1 .. Len(s) /\ j + 1 \in 1 .. Len(s)
      BY <1>4
    <2>2. i + 1 = j + 1
      BY <1>4, <1>5, <2>1
    <2> QED
      BY <2>2
  <1>7. ASSUME NEW i \in 1 .. Len(t), t[i] = s[1]
        PROVE  FALSE
    <2>1. i + 1 \in 1 .. Len(s) /\ 1 \in 1 .. Len(s) /\ i + 1 # 1
      BY <1>4
    <2> QED
      BY <1>4, <1>5, <1>7, <2>1
  <1> QED
    BY <1>3, <1>4, <1>6, <1>7 DEF ToSet

\* An arrangement has no repetitions.
LEMMA ArrangedOnce ==
    ASSUME NEW ops, NEW s \in Arrangements(ops)
    PROVE  IsInjective(s)
  BY DEF Arrangements

\* The plan of a listing, as it is built.
LEMMA PlanBuilt ==
    ASSUME NEW rows \in [Listed -> {S \in SUBSET Paths : Cardinality(S) <= 2}],
           NEW main \in [Listed -> Paths \cup {<<>>}],
           NEW transfers \in TransferSets, NEW news
    PROVE  /\ \A op \in Moves(main, transfers) :
                 op.do = "move" /\ op.to \in Paths
           /\ \A op \in Copies(rows, main, transfers) :
                 op.do = "copy" /\ op.to \in Paths
           /\ \A op \in Creates(news) : op.do = "create"
  <1>1. \A do, from, to, kind, of :
           /\ Operation(do, from, to, kind, of).do = do
           /\ Operation(do, from, to, kind, of).to = to
    BY DEF Operation
  <1>2. \A t \in transfers : t.to \in Paths
    BY DEF TransferSets
  <1>3. ASSUME NEW op \in Moves(main, transfers)
        PROVE  op.do = "move" /\ op.to \in Paths
    <2>1. CASE \E e \in {x \in Listed : main[x] \notin {<<>>, PathOf(x)}} :
                  op = Operation("move", PathOf(e), main[e], Layout[e].kind, {e})
      BY <1>1, <2>1
    <2>2. CASE \E t \in transfers : op = Operation("move", PathOf(t.of), t.to,
                                             Layout[t.of].kind, {t.of})
      BY <1>1, <1>2, <2>2
    <2> QED
      BY <2>1, <2>2 DEF Moves
  <1>4. ASSUME NEW op \in Copies(rows, main, transfers)
        PROVE  op.do = "copy" /\ op.to \in Paths
    <2>1. CASE \E e \in Listed : \E path \in rows[e] :
                  op = Operation("copy", main[e], path, Layout[e].kind, {e})
      <3>1. PICK e \in Listed : \E path \in rows[e] :
               op = Operation("copy", main[e], path, Layout[e].kind, {e})
        BY <2>1
      <3>2. rows[e] \subseteq Paths
        OBVIOUS
      <3> QED
        BY <1>1, <3>1, <3>2
    <2>2. CASE \E t \in transfers : op = Operation("copy", PathOf(t.of), t.to,
                                             Layout[t.of].kind, {t.of})
      BY <1>1, <1>2, <2>2
    <2>3. \/ \E e \in Listed :
                op \in {Operation("copy", main[e], path, Layout[e].kind, {e}) :
                           path \in rows[e] \ {main[e]}}
          \/ \E t \in transfers : op = Operation("copy", PathOf(t.of), t.to,
                                               Layout[t.of].kind, {t.of})
      BY Zenon DEF Copies
    <2> QED
      BY <2>1, <2>2, <2>3
  <1>5. \A op \in Creates(news) : op.do = "create"
    BY <1>1 DEF Creates
  <1> QED
    BY <1>3, <1>4, <1>5

LEMMA InitStaging == Init => StagingInv
  <1> SUFFICES ASSUME Init PROVE StagingInv
    OBVIOUS
  <1>1. PICK rows \in [Listed -> {S \in SUBSET Paths : Cardinality(S) <= 2}],
             main \in [Listed -> Paths \cup {<<>>}],
             transfers \in TransferSets, news \in NewSets :
           plan \in [moves : InOrder(Moves(main, transfers)),
                     deletes : InReverse(Deletes(rows)),
                     creates : InOrder(Creates(news)),
                     copies : InOrder(Copies(rows, main, transfers))]
    BY Zenon DEF Init
  <1>2. /\ place = Layout /\ pc = "built" /\ staged = <<>>
        /\ using = NoTree /\ recovery = {}
    BY DEF Init
  <1>3. /\ plan.moves \in Arrangements(Moves(main, transfers))
        /\ plan.creates \in Arrangements(Creates(news))
        /\ plan.copies \in Arrangements(Copies(rows, main, transfers))
    BY <1>1 DEF InOrder
  <1>4. /\ ToSet(plan.moves) = Moves(main, transfers)
        /\ ToSet(plan.creates) = Creates(news)
        /\ ToSet(plan.copies) = Copies(rows, main, transfers)
    BY <1>3, ArrangedList
  <1>5. \A p \in Paths : Last(p) # Payload
    <2> SUFFICES ASSUME NEW p \in Paths PROVE p[Len(p)] # Payload
      BY DEF Last
    <2>1. /\ Len(p) \in 1 .. 2
          /\ \A i \in 1 .. Len(p) : p[i] \in Nat \ {Payload}
      BY PlanConstants
    <2>2. PICK n : n = Len(p)
      OBVIOUS
    <2>3. n \in 1 .. n
      BY <2>1, <2>2
    <2> QED
      BY <2>1, <2>2, <2>3
  <1>6. PlanTold
    <2>1. IsInjective(plan.moves)
      BY <1>3, ArrangedOnce
    <2> QED
      BY <1>1, <1>4, <1>5, <2>1, PlanBuilt DEF PlanTold
  <1>7. Untouched /\ StagedOnce /\ StagedPending /\ CopiesLeft
    BY <1>2, EmptyList DEF Untouched, StagedOnce, StagedPending, CopiesLeft
  <1>8. TreesKnown /\ HiddenKnown
    <2>1. DOMAIN place = Originals
      BY <1>2, PlanConstants
    <2> QED
      BY <1>2, <2>1, ListingFacts DEF TreesKnown, HiddenKnown
  <1> QED
    BY <1>6, <1>7, <1>8 DEF StagingInv

\* What a cleanup says of the directory it was given.
LEMMA CleanupTold ==
    ASSUME NEW p, Formed(p), NEW tree, NEW owned, NEW kind,
           NEW c \in Cleanups(p, tree, owned, kind)
    PROVE  /\ recovery \subseteq c.recovery
           /\ tree \notin DOMAIN c.place \/ \E r \in c.recovery : r.tree = tree
  <1>1. CASE c = [place |-> p, recovery |->
                    recovery \cup {[tree |-> tree, kind |-> kind]}]
    <2>1. PICK r : r = [tree |-> tree, kind |-> kind]
      OBVIOUS
    <2>2. r.tree = tree /\ c.recovery = recovery \cup {r}
      BY <1>1, <2>1
    <2> QED
      BY <2>2
  <1>2. CASE c = [place |-> Without(p, owned \cup {tree}), recovery |-> recovery]
    <2>1. PICK S : S = owned \cup {tree}
      OBVIOUS
    <2>2. c.place = Without(p, S) /\ c.recovery = recovery
      BY <1>2, <2>1
    <2>3. DOMAIN c.place = DOMAIN p \ S
      BY <2>2, WithoutSome
    <2> QED
      BY <2>1, <2>2, <2>3
  <1> QED
    BY <1>1, <1>2 DEF Cleanups

\* The staging directories after a step.
LEMMA TreesStep ==
    ASSUME TreesKnown, recovery \subseteq recovery',
           \A x \in DOMAIN place' : x.made = "tree" =>
              \/ x \in DOMAIN place
              \/ \E r \in recovery' : r.tree = x
              \/ using' # NoTree /\ using'.tree = x,
           \A s \in ToSet(staged) :
              \/ s \in ToSet(staged')
              \/ s.tree \notin DOMAIN place'
              \/ \E r \in recovery' : r.tree = s.tree,
           using # NoTree =>
              \/ using' = using
              \/ using \in ToSet(staged')
              \/ using.tree \notin DOMAIN place'
              \/ \E r \in recovery' : r.tree = using.tree
    PROVE  TreesKnown'
  BY DEF TreesKnown

\* The originals in them after a step.
LEMMA HiddenStep ==
    ASSUME HiddenKnown, recovery \subseteq recovery',
           \A x \in DOMAIN place' :
              x \in Originals /\ place'[x].name = Payload =>
                 \/ x \in DOMAIN place /\ place'[x] = place[x]
                 \/ \E s \in ToSet(staged') : s.tree = place'[x].dir,
           \A s \in ToSet(staged) :
              \/ s \in ToSet(staged')
              \/ [tree |-> s.tree, kind |-> "original"] \in recovery'
              \/ \A x \in DOMAIN place' :
                    x \in Originals /\ place'[x].name = Payload =>
                       place'[x].dir # s.tree
    PROVE  HiddenKnown'
  BY DEF HiddenKnown

\* The steps that leave the disk, what is staged and the report alone.
LEMMA StillStaging ==
    ASSUME LostInv, StagingInv,
           \/ Refuse \/ Verify \/ StageAllocateFails \/ Staged \/ Deleted
           \/ Defer \/ CreateFails \/ PublishFails \/ NextPass \/ NoParent
           \/ Finalized \/ CopyEntryFails \/ Complete \/ RolledBack
           \/ UNCHANGED vars
    PROVE  StagingInv'
  <1>1. UNCHANGED <<plan, place, recovery, staged, using>>
    BY DEF Refuse, Verify, StageAllocateFails, Staged, Deleted, Defer,
       CreateFails, PublishFails, NextPass, NoParent, Finalized,
       CopyEntryFails, Complete, RolledBack, vars
  <1>2. PlanTold' /\ TreesKnown' /\ HiddenKnown'
    BY <1>1 DEF StagingInv, PlanTold, TreesKnown, HiddenKnown
  <1>3. CASE UNCHANGED <<pc, todo, deferred>>
    BY <1>1, <1>2, <1>3 DEF StagingInv, StagedOnce, StagedPending, CopiesLeft,
         Untouched
  <1>4. CASE \/ StageAllocateFails \/ Staged \/ CreateFails \/ PublishFails
             \/ NoParent
    <2>1. pc' \in {"rollback", "delete"}
      BY <1>4 DEF StageAllocateFails, Staged, CreateFails, PublishFails,
         NoParent, Fail
    <2> QED
      BY <1>1, <1>2, <2>1 DEF StagingInv, StagedOnce, StagedPending, CopiesLeft,
         Untouched
  <1>5. CASE Refuse \/ CopyEntryFails \/ Complete \/ RolledBack
    <2>1. pc' = "done" /\ staged = <<>>
      BY <1>5 DEF Refuse, CopyEntryFails, Complete, RolledBack, Stop,
         StagingInv, StagedPending, Untouched
    <2> QED
      BY <1>1, <1>2, <2>1 DEF StagingInv, StagedOnce, StagedPending, CopiesLeft,
         Untouched
  <1>6. CASE Verify
    <2>1. pc' = "stage" /\ todo' = plan.moves /\ staged = <<>>
      BY <1>6 DEF Verify, StagingInv, Untouched
    <2> QED
      BY <1>1, <1>2, <2>1, EmptyList
      DEF StagingInv, PlanTold, StagedOnce, StagedPending, CopiesLeft,
         Untouched
  <1>7. CASE Deleted
    <2>1. pc' = "finish" /\ todo' = plan.creates \o plan.moves
      BY <1>7 DEF Deleted
    <2>2. ToSet(plan.moves) \subseteq ToSet(todo')
      BY <2>1, PlanLists, ConcatElements
    <2> QED
      BY <1>1, <1>2, <2>1, <2>2
      DEF StagingInv, StagedOnce, StagedPending, CopiesLeft,
         Untouched
  <1>8. CASE Defer
    <2>1. /\ pc = "finish" /\ pc' = "finish"
          /\ ToSet(todo) \cup ToSet(deferred)
                = ToSet(todo') \cup ToSet(deferred')
      BY <1>8, PlanLists, ListSteps DEF Defer
    <2> QED
      BY <1>1, <1>2, <2>1 DEF StagingInv, StagedOnce, StagedPending, CopiesLeft,
         Untouched
  <1>9. CASE NextPass
    <2>1. /\ pc = "finish" /\ pc' = "finish"
          /\ ToSet(todo) \cup ToSet(deferred) = ToSet(todo')
      BY <1>9, EmptyList DEF NextPass
    <2> QED
      BY <1>1, <1>2, <2>1 DEF StagingInv, StagedOnce, StagedPending, CopiesLeft,
         Untouched
  <1>10. CASE Finalized
    <2>1. /\ pc = "finish" /\ pc' = "copy" /\ todo' = plan.copies
          /\ ToSet(todo) \cup ToSet(deferred) = {}
      BY <1>10, EmptyList DEF Finalized
    <2>2. ToSet(staged) = {}
      BY <2>1 DEF StagingInv, StagedPending
    <2>3. staged = <<>>
      <3>1. staged # <<>> => Head(staged) \in ToSet(staged)
        BY PlanLists, ListSteps
      <3> QED
        BY <2>2, <3>1
    <2> QED
      BY <1>1, <1>2, <2>1, <2>3
      DEF StagingInv, StagedOnce, StagedPending, CopiesLeft,
         Untouched
  <1> QED
    BY <1>3, <1>4, <1>5, <1>6, <1>7, <1>8, <1>9, <1>10 DEF vars

\* The other processes, and what deletes and creates do: no staging directory
\* is made, and no original comes into one.
LEMMA OthersStaging ==
    ASSUME StagingInv, UNCHANGED <<plan, staged, using>>,
           UNCHANGED recovery,
           \/ UNCHANGED <<pc, todo, deferred>>
           \/ pc' = "rollback"
           \/ pc' = pc /\ pc = "delete",
           \A x \in DOMAIN place' : x.made \in {"tree", "original"} =>
              x \in DOMAIN place /\ place'[x] = place[x]
    PROVE  StagingInv'
  <1>1. PlanTold' /\ Untouched' /\ StagedOnce' /\ StagedPending' /\ CopiesLeft'
    BY DEF StagingInv, PlanTold, StagedOnce, StagedPending, CopiesLeft,
         Untouched
  <1>2. TreesKnown'
    BY TreesStep DEF StagingInv
  <1>3. HiddenKnown'
    BY HiddenStep, ListingFacts DEF StagingInv
  <1> QED
    BY <1>1, <1>2, <1>3 DEF StagingInv

\* Deletes, and the other processes.
LEMMA DisturbedStaging ==
    ASSUME LostInv, StagingInv, Delete \/ DeleteFails \/ Intrude \/ RemoveEntry
    PROVE  StagingInv'
  <1>1. Formed(place)
    BY DEF LostInv
  <1>2. CASE \E S : place' = Without(place, S)
    <2>0. PICK S : place' = Without(place, S)
      BY <1>2
    <2>1. \A x \in DOMAIN place' : x \in DOMAIN place /\ place'[x] = place[x]
      BY <2>0 DEF Without
    <2>2. /\ UNCHANGED <<plan, staged, using, recovery>>
          /\ \/ UNCHANGED <<pc, todo, deferred>>
             \/ pc' = "rollback"
             \/ pc' = pc /\ pc = "delete"
      BY DEF Delete, DeleteFails, Intrude, RemoveEntry, Fail
    <2> QED
      BY <2>1, <2>2, OthersStaging
  <1>3. CASE Intrude
    <2>1. PICK d, p : place' = With(Intruder(Cardinality(disturbed)), d,
                                    Last(p), "file")
      BY <1>3 DEF Intrude
    <2>2. PICK x, n, k : /\ x = Intruder(Cardinality(disturbed))
                         /\ n = Last(p) /\ k = "file"
      OBVIOUS
    <2>3. place' = With(x, d, n, k) /\ x.made = "other"
      BY <2>1, <2>2 DEF Intruder
    <2>4. \A y \in DOMAIN place' : y # x => y \in DOMAIN place /\ place'[y] = place[y]
      BY <2>3 DEF With
    <2> QED
      BY <1>3, <2>3, <2>4, OthersStaging DEF Intrude
  <1> QED
    BY <1>2, <1>3 DEF Delete, DeleteFails, RemoveEntry

\* A probe that stays is reported; a new directory for a move is in use.
LEMMA AllocateStaging ==
    ASSUME LostInv, StagingInv, ProbeRetained \/ StageAllocate
    PROVE  StagingInv'
  <1>1. PICK t, d, n, k :
           /\ place' = With(t, d, n, k) /\ t.made = "tree"
           /\ \/ ProbeRetained /\ \E r \in recovery' : r.tree = t
              \/ StageAllocate /\ using' # NoTree /\ using'.tree = t
    <2>1. CASE ProbeRetained
      <3>1. PICK d : place' = With(Tree("probe", <<>>), d, NoName, "dir")
        BY <2>1 DEF ProbeRetained
      <3>2. PICK t, r : /\ t = Tree("probe", <<>>)
                        /\ r = [tree |-> t, kind |-> "staging"]
        OBVIOUS
      <3>3. t.made = "tree" /\ r.tree = t /\ r \in recovery'
        BY <2>1, <3>2 DEF ProbeRetained, Tree
      <3> QED
        BY <2>1, <3>1, <3>2, <3>3
    <2>2. CASE StageAllocate
      <3>1. PICK t : t = Tree("move", Head(todo).to)
        OBVIOUS
      <3>2. t.made = "tree" /\ place' = With(t, Root, NoName, "dir")
        BY <2>2, <3>1 DEF StageAllocate, Tree
      <3>3. PICK x, op : using' = [op |-> op, entry |-> x, tree |-> t]
        BY <2>2, <3>1 DEF StageAllocate
      <3>4. using'.tree = t /\ using' # NoTree
        BY <3>3 DEF NoTree
      <3> QED
        BY <2>2, <3>2, <3>4
    <2> QED
      BY <2>1, <2>2
  <1>2. \A y \in DOMAIN place' : y # t => y \in DOMAIN place /\ place'[y] = place[y]
    BY <1>1 DEF With
  <1>3. /\ UNCHANGED <<plan, todo, deferred, staged>> /\ using = NoTree
        /\ recovery \subseteq recovery'
        /\ \/ pc = "stage" /\ pc' = "stage"
           \/ pc' = "done" /\ staged = <<>>
    BY <1>1 DEF ProbeRetained, StageAllocate, Stop, LostInv, TreesOwned,
       StagingInv, Untouched
  <1>4. /\ PlanTold' /\ Untouched' /\ StagedOnce' /\ StagedPending'
        /\ CopiesLeft'
    BY <1>3 DEF StagingInv, PlanTold, Untouched, StagedOnce, StagedPending,
       CopiesLeft
  <1>5. TreesKnown'
    BY <1>1, <1>2, <1>3, TreesStep DEF StagingInv
  <1>6. HiddenKnown'
    BY <1>1, <1>2, <1>3, ListingFacts, HiddenStep DEF StagingInv
  <1> QED
    BY <1>4, <1>5, <1>6 DEF StagingInv

\* What comes into a staging directory is staged.
LEMMA RenameStaging ==
    ASSUME LostInv, StagingInv, StageRename
    PROVE  StagingInv'
  <1>1. PICK x, t : /\ x \in At(using.op.from) /\ t = using.tree
                    /\ place' \in RenameNoReplace(x, t, Payload)
    BY DEF StageRename
  <1>2. x \in DOMAIN place /\ Formed(place)
    BY <1>1 DEF At, Named, LostInv
  <1>3. PICK n : n = Payload
    OBVIOUS
  <1>4. /\ DOMAIN place' = DOMAIN place /\ place'[x].dir = t
        /\ \A y \in DOMAIN place : y # x => place'[y] = place[y]
    <2>1. PICK disk \in RenameNoReplace(x, t, n) : disk = place'
      BY <1>1, <1>3
    <2>2. disk = [place EXCEPT ![x] = [dir |-> t, name |-> n, kind |-> @.kind]]
      BY <2>1 DEF RenameNoReplace
    <2> QED
      BY <1>2, <2>1, <2>2
  <1>5. /\ pc = "stage" /\ pc' = "stage" /\ using # NoTree /\ using' = NoTree
        /\ UNCHANGED <<plan, recovery, deferred>>
        /\ staged' = Append(staged, using) /\ todo' = Tail(todo)
        /\ todo # <<>> /\ using.op = Head(todo)
    BY DEF StageRename, LostInv, TreesOwned
  <1>6. ToSet(staged') = ToSet(staged) \cup {using}
    BY <1>5, PlanLists, ListSteps
  <1>7. /\ ToSet(todo') \subseteq ToSet(todo) /\ using.op \in ToSet(todo)
        /\ using.op \in ToSet(plan.moves)
    BY <1>5, PlanLists, ListSteps DEF LostInv, StepsLeft
  <1>8. IsInjective(todo') /\ using.op \notin ToSet(todo')
    BY <1>5, PlanLists, TailOnce DEF StagingInv, StagedOnce
  <1>9. StagedOnce'
    <2>1. ASSUME NEW i \in DOMAIN staged', NEW j \in DOMAIN staged',
                 staged'[i].op = staged'[j].op
          PROVE  i = j
      <3>1. PICK T, m : T = ToSet(staged) \cup {using} /\ m = Len(staged)
        OBVIOUS
      <3>2. staged \in Seq(T) /\ using \in T
        BY <3>1, PlanLists DEF IsSequence
      <3>3. /\ m \in Nat /\ DOMAIN staged = 1 .. m /\ DOMAIN staged' = 1 .. m + 1
            /\ \A l \in 1 .. m : staged'[l] = staged[l]
            /\ staged'[m + 1] = using
        BY <1>5, <3>1, <3>2, AppendProperties, LenProperties
      <3>4. \A l \in 1 .. m : staged[l].op # using.op
        BY <1>5, <1>7, <3>3 DEF StagingInv, StagedOnce, ToSet
      <3>5. \A a, b \in 1 .. m : staged[a].op = staged[b].op => a = b
        BY <3>3 DEF StagingInv, StagedOnce
      <3> QED
        BY <2>1, <3>3, <3>4, <3>5
    <2>2. \A s \in ToSet(staged') : s.op \in ToSet(plan.moves) /\ s.op \notin ToSet(todo')
      BY <1>5, <1>6, <1>7, <1>8 DEF StagingInv, StagedOnce
    <2> QED
      BY <1>5, <1>8, <2>1, <2>2 DEF StagedOnce
  <1>10. PlanTold' /\ Untouched' /\ StagedPending' /\ CopiesLeft'
    BY <1>5 DEF StagingInv, PlanTold, Untouched, StagedPending, CopiesLeft
  <1>11. TreesKnown'
    BY <1>4, <1>5, <1>6, TreesStep DEF StagingInv
  <1>12. HiddenKnown'
    BY <1>1, <1>4, <1>5, <1>6, HiddenStep DEF StagingInv
  <1> QED
    BY <1>9, <1>10, <1>11, <1>12 DEF StagingInv

\* A cleanup after a failed step reports the directory or removes it.
LEMMA CleanStaging ==
    ASSUME LostInv, StagingInv, StageRenameFails \/ CopyPublishFails
    PROVE  StagingInv'
  <1>1. PICK t, o, k :
           /\ t = using.tree
           /\ \E c \in Cleanups(place, t, o, k) :
                 place' = c.place /\ recovery' = c.recovery
    BY DEF StageRenameFails, CopyPublishFails
  <1>2. PICK c \in Cleanups(place, t, o, k) :
           place' = c.place /\ recovery' = c.recovery
    BY <1>1
  <1>3. Formed(place)
    BY DEF LostInv
  <1>4. /\ DOMAIN place' \subseteq DOMAIN place
        /\ \A x \in DOMAIN place' : place'[x] = place[x]
    BY <1>2, <1>3, CleanedUp
  <1>5. /\ recovery \subseteq recovery'
        /\ t \notin DOMAIN place' \/ \E r \in recovery' : r.tree = t
    BY <1>2, <1>3, CleanupTold
  <1>6. /\ UNCHANGED <<plan, todo, deferred, staged>> /\ using' = NoTree
        /\ \/ pc' = "rollback"
           \/ pc = "copy" /\ pc' = "done"
    BY DEF StageRenameFails, CopyPublishFails, Fail, Stop
  <1>7. /\ PlanTold' /\ Untouched' /\ StagedOnce' /\ StagedPending'
        /\ CopiesLeft'
    BY <1>6 DEF StagingInv, PlanTold, Untouched, StagedOnce, StagedPending,
       CopiesLeft
  <1>8. TreesKnown'
    BY <1>1, <1>4, <1>5, <1>6, TreesStep DEF StagingInv
  <1>9. HiddenKnown'
    BY <1>4, <1>5, <1>6, HiddenStep DEF StagingInv
  <1> QED
    BY <1>7, <1>8, <1>9 DEF StagingInv

\* What is left of a list without one of its elements.
LEMMA ListLeft ==
    ASSUME NEW s, IsSequence(s), NEW k \in DOMAIN s
    PROVE  ToSet(s) \subseteq ToSet(RemoveAt(s, k)) \cup {s[k]}
  <1>1. PICK r : r = RemoveAt(s, k)
    OBVIOUS
  <1>2. /\ Len(s) \in Nat /\ DOMAIN s = 1 .. Len(s) /\ k \in 1 .. Len(s)
    BY LenProperties DEF IsSequence
  <1>3. /\ Len(r) = Len(s) - 1 /\ IsSequence(r)
        /\ \A i \in DOMAIN r : r[i] = s[IF i < k THEN i ELSE i + 1]
    BY <1>1, ListRemove
  <1>4. DOMAIN r = 1 .. Len(s) - 1
    BY <1>3, LenProperties DEF IsSequence
  <1>5. ASSUME NEW j \in DOMAIN s, j # k
        PROVE  \E i \in DOMAIN r : r[i] = s[j]
    <2>1. CASE j < k
      <3>1. j \in DOMAIN r
        BY <1>2, <1>4, <2>1
      <3>2. r[j] = s[j]
        BY <1>3, <2>1, <3>1
      <3> QED
        BY <3>1, <3>2
    <2>2. CASE j > k
      <3>1. PICK i : i = j - 1
        OBVIOUS
      <3>2. i \in DOMAIN r /\ ~(i < k) /\ i + 1 = j
        BY <1>2, <1>4, <2>2, <3>1
      <3>3. r[i] = s[j]
        BY <1>3, <3>2
      <3> QED
        BY <3>2, <3>3
    <2> QED
      BY <1>2, <1>5, <2>1, <2>2
  <1> QED
    BY <1>1, <1>5 DEF ToSet

\* A staged entry leaves its staging directory, which held nothing else.
LEMMA TakenOut ==
    ASSUME LostInv, StagingInv, NEW k \in DOMAIN staged, Holds(staged[k]),
           NEW d, NEW n, n # Payload,
           NEW disk, disk \in RenameNoReplace(staged[k].entry, d, n),
           NEW c, c \in Cleanups(disk, staged[k].tree, {}, "staging"),
           place' = c.place, recovery' = c.recovery,
           staged' = RemoveAt(staged, k),
           using = NoTree, UNCHANGED <<plan, using>>
    PROVE  /\ TreesKnown' /\ HiddenKnown'
           /\ \A i, j \in DOMAIN staged' : staged'[i].op = staged'[j].op => i = j
           /\ \A s \in ToSet(staged') :
                 s \in ToSet(staged) /\ s.op # staged[k].op
  <1>1. PICK x, t : x = staged[k].entry /\ t = staged[k].tree
    OBVIOUS
  <1>2. x \in DOMAIN place /\ \A y : y \in Named(t, Payload) => y = x
    BY <1>1 DEF Holds, Named
  <1>3. disk = [place EXCEPT ![x] = [dir |-> d, name |-> n, kind |-> @.kind]]
    BY <1>1 DEF RenameNoReplace
  <1>4. /\ DOMAIN disk = DOMAIN place /\ disk[x].name # Payload
        /\ \A y \in DOMAIN place : y # x => disk[y] = place[y]
    BY <1>2, <1>3
  <1>5. Formed(disk)
    <2>1. Formed(place)
      BY DEF LostInv
    <2>2. disk \in RenameNoReplace(x, d, n)
      BY <1>1
    <2> QED
      BY <1>2, <2>1, <2>2, Renamed
  <1>6. c \in Cleanups(disk, t, {}, "staging")
    BY <1>1
  <1>7. /\ DOMAIN place' \subseteq DOMAIN place
        /\ \A y \in DOMAIN place' : place'[y] = disk[y]
    BY <1>4, <1>5, <1>6, CleanedUp
  <1>8. /\ recovery \subseteq recovery'
        /\ t \notin DOMAIN place' \/ \E r \in recovery' : r.tree = t
    BY <1>5, <1>6, CleanupTold
  <1>9. \A s \in ToSet(staged) : s \in ToSet(staged') \/ s = staged[k]
    BY PlanLists, ListLeft
  <1>10. TreesKnown'
    <2>1. \A s \in ToSet(staged) :
              \/ s \in ToSet(staged')
              \/ s.tree \notin DOMAIN place'
              \/ \E r \in recovery' : r.tree = s.tree
      BY <1>1, <1>8, <1>9
    <2> QED
      BY <1>7, <1>8, <2>1, TreesStep DEF StagingInv
  <1>11. HiddenKnown'
    <2>1. \A y \in DOMAIN place' : place'[y].name = Payload =>
              place'[y] = place[y] /\ y # x
      BY <1>4, <1>7
    <2>2. \A y \in DOMAIN place' : place'[y].name = Payload =>
              place'[y].dir # t
      BY <1>2, <1>7, <2>1 DEF Named
    <2>3. \A s \in ToSet(staged) :
              \/ s \in ToSet(staged')
              \/ \A y \in DOMAIN place' :
                    y \in Originals /\ place'[y].name = Payload =>
                       place'[y].dir # s.tree
      BY <1>1, <1>9, <2>2
    <2> QED
      BY <1>7, <1>8, <2>1, <2>3, HiddenStep DEF StagingInv
  <1>12. PICK r : r = RemoveAt(staged, k)
    OBVIOUS
  <1>13. /\ \A i \in DOMAIN r : r[i] = staged[IF i < k THEN i ELSE i + 1]
         /\ \A i \in DOMAIN r :
               /\ (IF i < k THEN i ELSE i + 1) \in DOMAIN staged
               /\ (IF i < k THEN i ELSE i + 1) # k
         /\ ToSet(r) \subseteq ToSet(staged)
    BY <1>12, PlanLists, ListRemove
  <1>14. DOMAIN r \subseteq Nat /\ k \in Nat
    <2>1. IsSequence(r) /\ IsSequence(staged)
      BY <1>12, PlanLists, ListRemove
    <2> QED
      BY <2>1, LenProperties DEF IsSequence
  <1>15. \A i, j \in DOMAIN staged : staged[i].op = staged[j].op => i = j
    BY DEF StagingInv, StagedOnce
  <1>16. \A i, j \in DOMAIN r : r[i].op = r[j].op => i = j
    <2> SUFFICES ASSUME NEW i \in DOMAIN r, NEW j \in DOMAIN r, r[i].op = r[j].op
                 PROVE  i = j
      OBVIOUS
    <2>1. (IF i < k THEN i ELSE i + 1) = (IF j < k THEN j ELSE j + 1)
      BY <1>13, <1>15
    <2> QED
      BY <1>14, <2>1
  <1>17. \A s \in ToSet(r) : s.op # staged[k].op
    BY <1>13, <1>15 DEF ToSet
  <1> QED
    BY <1>10, <1>11, <1>12, <1>13, <1>16, <1>17

\* A new entry is no staging directory, and its step no move.
LEMMA CreateStaging ==
    ASSUME LostInv, StagingInv, Create
    PROVE  StagingInv'
  <1>1. PICK x, d, n, k : place' = With(x, d, n, k) /\ x.made = "new"
    <2>1. PICK d : place' = With(New(Head(todo).to), d, Last(Head(todo).to),
                                 Head(todo).kind)
      BY DEF Create
    <2>2. New(Head(todo).to).made = "new"
      BY DEF New
    <2> QED
      BY <2>1, <2>2
  <1>2. \A y \in DOMAIN place' : y # x => y \in DOMAIN place /\ place'[y] = place[y]
    BY <1>1 DEF With
  <1>3. /\ pc = "finish" /\ pc' = "finish" /\ todo # <<>>
        /\ Head(todo).do = "create" /\ todo' = Tail(todo)
        /\ UNCHANGED <<plan, deferred, staged, using, recovery>>
    BY DEF Create, Ready, Done
  <1>4. ToSet(todo) = ToSet(todo') \cup {Head(todo)}
    BY <1>3, PlanLists, ListSteps
  <1>5. \A s \in ToSet(staged) : s.op # Head(todo)
    BY <1>3 DEF StagingInv, StagedOnce, PlanTold
  <1>6. StagedPending'
    BY <1>3, <1>4, <1>5 DEF StagingInv, StagedPending
  <1>7. PlanTold' /\ Untouched' /\ StagedOnce' /\ CopiesLeft'
    BY <1>3 DEF StagingInv, PlanTold, Untouched, StagedOnce, CopiesLeft
  <1>8. TreesKnown'
    BY <1>1, <1>2, <1>3, TreesStep DEF StagingInv
  <1>9. HiddenKnown'
    BY <1>1, <1>2, <1>3, ListingFacts, HiddenStep DEF StagingInv
  <1> QED
    BY <1>6, <1>7, <1>8, <1>9 DEF StagingInv

LEMMA PublishStaging ==
    ASSUME LostInv, StagingInv, Publish
    PROVE  StagingInv'
  <1>1. /\ pc = "finish" /\ pc' = "finish" /\ todo # <<>>
        /\ todo' = Tail(todo) /\ UNCHANGED <<plan, deferred, using>>
        /\ using = NoTree
    BY DEF Publish, Ready, Done, LostInv, TreesOwned
  <1>2. PICK k \in DOMAIN staged, d \in Parent(Head(todo).to) :
          /\ staged[k].op = Head(todo) /\ Holds(staged[k])
          /\ \E disk \in RenameNoReplace(staged[k].entry, d,
                                         Last(Head(todo).to)) :
             \E c \in Cleanups(disk, staged[k].tree, {}, "staging") :
                place' = c.place /\ recovery' = c.recovery
          /\ staged' = Unfinalized(k)
    BY DEF Publish
  <1>3. PICK n : n = Last(Head(todo).to)
    OBVIOUS
  <1>4. PICK disk \in RenameNoReplace(staged[k].entry, d, n) :
           \E c \in Cleanups(disk, staged[k].tree, {}, "staging") :
              place' = c.place /\ recovery' = c.recovery
    BY <1>2, <1>3
  <1>5. PICK c \in Cleanups(disk, staged[k].tree, {}, "staging") :
           place' = c.place /\ recovery' = c.recovery
    BY <1>4
  <1>6. n # Payload
    <2>1. staged[k] \in ToSet(staged)
      BY DEF ToSet
    <2> QED
      BY <1>2, <1>3, <2>1 DEF StagingInv, StagedOnce, PlanTold
  <1>7. staged' = RemoveAt(staged, k)
    BY <1>2 DEF Unfinalized
  <1>8. /\ TreesKnown' /\ HiddenKnown'
        /\ \A i, j \in DOMAIN staged' : staged'[i].op = staged'[j].op => i = j
        /\ \A s \in ToSet(staged') :
              s \in ToSet(staged) /\ s.op # staged[k].op
    BY <1>1, <1>2, <1>4, <1>5, <1>6, <1>7, TakenOut
  <1>9. ToSet(todo) = ToSet(todo') \cup {Head(todo)}
    BY <1>1, PlanLists, ListSteps
  <1>10. StagedPending' /\ StagedOnce'
    BY <1>1, <1>2, <1>8, <1>9 DEF StagingInv, StagedOnce, StagedPending
  <1>11. PlanTold' /\ Untouched' /\ CopiesLeft'
    BY <1>1 DEF StagingInv, PlanTold, Untouched, CopiesLeft
  <1> QED
    BY <1>8, <1>10, <1>11 DEF StagingInv

\* A copy is of new entries only, in a new directory that is in use.
LEMMA CopyStaging ==
    ASSUME LostInv, StagingInv, CopyEntry
    PROVE  StagingInv'
  <1>1. PICK x, d, op, e, o :
          /\ place' = CopyInto(x, op, d)
          /\ using' = [op |-> op, entry |-> e, tree |-> Tree("copy", op.to),
                       owned |-> o]
    BY DEF CopyEntry
  <1>2. PICK t : t = Tree("copy", op.to)
    OBVIOUS
  <1>3. using' # NoTree /\ using'.tree = t /\ t.made = "tree"
    BY <1>1, <1>2 DEF NoTree, Tree
  <1>4. PICK w : w = With(t, d, NoName, "dir")
    OBVIOUS
  <1>5. /\ DOMAIN place' = DOMAIN w \cup {Copied(y, op.to) : y \in Below(place, {x})}
        /\ \A z \in DOMAIN w : place'[z] = w[z]
    BY <1>1, <1>2, <1>4 DEF CopyInto
  <1>6. \A z \in DOMAIN place' : z.made # "copy" /\ z # t =>
           z \in DOMAIN place /\ place'[z] = place[z]
    <2>1. \A y : Copied(y, op.to).made = "copy"
      BY DEF Copied
    <2>2. \A z \in DOMAIN w : z # t => z \in DOMAIN place /\ w[z] = place[z]
      BY <1>4 DEF With
    <2> QED
      BY <1>5, <2>1, <2>2
  <1>7. /\ UNCHANGED <<plan, pc, todo, deferred, staged, recovery>>
        /\ using = NoTree
    BY DEF CopyEntry
  <1>8. /\ PlanTold' /\ Untouched' /\ StagedOnce' /\ StagedPending'
        /\ CopiesLeft'
    BY <1>7 DEF StagingInv, PlanTold, Untouched, StagedOnce, StagedPending,
       CopiesLeft
  <1>9. TreesKnown'
    BY <1>3, <1>6, <1>7, TreesStep DEF StagingInv
  <1>10. HiddenKnown'
    BY <1>3, <1>6, <1>7, ListingFacts, HiddenStep DEF StagingInv
  <1> QED
    BY <1>8, <1>9, <1>10 DEF StagingInv

\* A published copy leaves its directory.
LEMMA CopiedStaging ==
    ASSUME LostInv, StagingInv, CopyPublish
    PROVE  StagingInv'
  <1>1. /\ pc = "copy" /\ pc' = "copy" /\ using # NoTree /\ using' = NoTree
        /\ todo' = Tail(todo) /\ todo # <<>> /\ using.op = Head(todo)
        /\ UNCHANGED <<plan, deferred, staged>>
    BY DEF CopyPublish, LostInv, TreesOwned
  <1>2. PICK t, n : t = using.tree /\ n = Last(using.op.to)
    OBVIOUS
  <1>3. PICK x, d : /\ x \in Named(t, Payload)
                    /\ \E disk \in RenameNoReplace(x, d, n) :
                       \E c \in Cleanups(disk, t, {}, "copy") :
                          place' = c.place /\ recovery' = c.recovery
    BY <1>2 DEF CopyPublish
  <1>4. PICK disk \in RenameNoReplace(x, d, n) :
           \E c \in Cleanups(disk, t, {}, "copy") :
              place' = c.place /\ recovery' = c.recovery
    BY <1>3
  <1>5. PICK c \in Cleanups(disk, t, {}, "copy") :
           place' = c.place /\ recovery' = c.recovery
    BY <1>4
  <1>6. x \in DOMAIN place /\ Formed(place)
    BY <1>3 DEF Named, LostInv
  <1>7. disk = [place EXCEPT ![x] = [dir |-> d, name |-> n, kind |-> @.kind]]
    BY <1>4 DEF RenameNoReplace
  <1>8. n # Payload
    <2>1. using.op \in ToSet(todo)
      BY <1>1, PlanLists, ListSteps
    <2> QED
      BY <1>1, <1>2, <2>1 DEF StagingInv, CopiesLeft, PlanTold
  <1>9. /\ DOMAIN disk = DOMAIN place /\ disk[x].name # Payload
        /\ \A y \in DOMAIN place : y # x => disk[y] = place[y]
    BY <1>6, <1>7, <1>8
  <1>10. Formed(disk)
    BY <1>4, <1>6, Renamed
  <1>11. /\ DOMAIN place' \subseteq DOMAIN place
         /\ \A y \in DOMAIN place' : place'[y] = disk[y]
    BY <1>5, <1>9, <1>10, CleanedUp
  <1>12. /\ recovery \subseteq recovery'
         /\ t \notin DOMAIN place' \/ \E r \in recovery' : r.tree = t
    BY <1>5, <1>10, CleanupTold
  <1>13. ToSet(todo') \subseteq ToSet(todo)
    BY <1>1, PlanLists, ListSteps
  <1>14. /\ PlanTold' /\ Untouched' /\ StagedOnce' /\ StagedPending'
         /\ CopiesLeft'
    BY <1>1, <1>13 DEF StagingInv, PlanTold, Untouched, StagedOnce,
       StagedPending, CopiesLeft
  <1>15. TreesKnown'
    BY <1>1, <1>2, <1>11, <1>12, TreesStep DEF StagingInv
  <1>16. HiddenKnown'
    BY <1>1, <1>9, <1>11, <1>12, HiddenStep DEF StagingInv
  <1> QED
    BY <1>14, <1>15, <1>16 DEF StagingInv

\* A rollback takes an entry out of its directory, or reports it.
LEMMA RollbackStaging ==
    ASSUME LostInv, StagingInv, Restore \/ RestoreFails
    PROVE  StagingInv'
  <1>1. /\ pc = "rollback" /\ pc' = "rollback" /\ staged # <<>>
        /\ UNCHANGED <<plan, todo, deferred, using>> /\ using = NoTree
    BY DEF Restore, RestoreFails, LostInv, TreesOwned
  <1>2. PICK k \in DOMAIN staged :
           /\ k = LastTaken /\ NextRestored = staged[k]
           /\ staged' = RemoveAt(staged, k)
    BY <1>1, PlanLists, RestFormed
    DEF NextRestored, RestRestored, Restore, RestoreFails
  <1>3. /\ PlanTold' /\ Untouched' /\ StagedPending' /\ CopiesLeft'
    BY <1>1 DEF StagingInv, PlanTold, Untouched, StagedPending, CopiesLeft
  <1>4. CASE Restore
    <2>1. PICK s : s = staged[k]
      OBVIOUS
    <2>2. PICK disk \in Restored(s) :
             \E c \in Cleanups(disk, s.tree, {}, "staging") :
                place' = c.place /\ recovery' = c.recovery
      BY <1>2, <1>4, <2>1 DEF Restore
    <2>3. PICK c \in Cleanups(disk, s.tree, {}, "staging") :
             place' = c.place /\ recovery' = c.recovery
      BY <2>2
    <2>4. PICK n : n = Last(s.op.from)
      OBVIOUS
    <2>5. Holds(s) /\ \E d : disk \in RenameNoReplace(s.entry, d, n)
      BY <2>2, <2>4 DEF Restored
    <2>6. PICK d : disk \in RenameNoReplace(s.entry, d, n)
      BY <2>5
    <2>7. n # Payload
      <3>1. s.op \in ToSet(plan.moves)
        BY <2>1 DEF StagingInv, StagedOnce, ToSet
      <3>2. PICK e \in Originals : s.op.from = PathOf(e)
        BY <3>1 DEF LostInv, PlanFormed
      <3>3. \A a, b : Last(<<a>>) = a /\ Last(<<b, a>>) = a
        BY DEF Last
      <3>4. Last(PathOf(e)) = Layout[e].name
        BY <3>3, ListingFacts
      <3> QED
        BY <2>4, <3>2, <3>4, ListingFacts
    <2>8. /\ TreesKnown' /\ HiddenKnown'
          /\ \A i, j \in DOMAIN staged' : staged'[i].op = staged'[j].op => i = j
          /\ \A u \in ToSet(staged') : u \in ToSet(staged)
      BY <1>1, <1>2, <2>1, <2>3, <2>5, <2>6, <2>7, TakenOut
    <2>9. StagedOnce'
      BY <1>1, <2>8 DEF StagingInv, StagedOnce
    <2> QED
      BY <1>3, <2>8, <2>9 DEF StagingInv
  <1>5. CASE RestoreFails
    <2>1. PICK r : r = [tree |-> staged[k].tree, kind |-> "original"]
      OBVIOUS
    <2>2. UNCHANGED place /\ recovery' = recovery \cup {r} /\ r.tree = staged[k].tree
      BY <1>2, <1>5, <2>1 DEF RestoreFails
    <2>3. \A s \in ToSet(staged) : s \in ToSet(staged') \/ s = staged[k]
      BY <1>2, PlanLists, ListLeft
    <2>4. TreesKnown'
      BY <1>1, <2>2, <2>3, TreesStep DEF StagingInv
    <2>5. HiddenKnown'
      BY <1>1, <2>1, <2>2, <2>3, HiddenStep DEF StagingInv
    <2>6. PICK u : u = RemoveAt(staged, k)
      OBVIOUS
    <2>7. StagedOnce'
      <3>1. /\ \A i \in DOMAIN u : u[i] = staged[IF i < k THEN i ELSE i + 1]
            /\ \A i \in DOMAIN u :
                  (IF i < k THEN i ELSE i + 1) \in DOMAIN staged
            /\ ToSet(u) \subseteq ToSet(staged) /\ IsSequence(u)
        BY <2>6, PlanLists, ListRemove
      <3>2. DOMAIN u \subseteq Nat /\ k \in Nat
        BY <3>1, PlanLists, LenProperties DEF IsSequence
      <3>3. \A i, j \in DOMAIN staged : staged[i].op = staged[j].op => i = j
        BY DEF StagingInv, StagedOnce
      <3>4. \A i, j \in DOMAIN u : u[i].op = u[j].op => i = j
        <4> SUFFICES ASSUME NEW i \in DOMAIN u, NEW j \in DOMAIN u, u[i].op = u[j].op
                     PROVE  i = j
          OBVIOUS
        <4>1. (IF i < k THEN i ELSE i + 1) = (IF j < k THEN j ELSE j + 1)
          BY <3>1, <3>3
        <4> QED
          BY <3>2, <4>1
      <3> QED
        BY <1>1, <1>2, <2>6, <3>1, <3>4 DEF StagingInv, StagedOnce
    <2> QED
      BY <1>3, <2>4, <2>5, <2>7 DEF StagingInv
  <1> QED
    BY <1>4, <1>5

LEMMA StagingStep == LostInv /\ StagingInv /\ [Next]_vars => StagingInv'
  <1> SUFFICES ASSUME LostInv, StagingInv, [Next]_vars PROVE StagingInv'
    OBVIOUS
  <1>1. CASE \/ Refuse \/ Verify \/ StageAllocateFails \/ Staged \/ Deleted
             \/ Defer \/ CreateFails \/ PublishFails \/ NextPass \/ NoParent
             \/ Finalized \/ CopyEntryFails \/ Complete \/ RolledBack
             \/ UNCHANGED vars
    BY <1>1, StillStaging
  <1>2. CASE Delete \/ DeleteFails \/ Intrude \/ RemoveEntry
    BY <1>2, DisturbedStaging
  <1>3. CASE ProbeRetained \/ StageAllocate
    BY <1>3, AllocateStaging
  <1>4. CASE StageRename
    BY <1>4, RenameStaging
  <1>5. CASE StageRenameFails \/ CopyPublishFails
    BY <1>5, CleanStaging
  <1>6. CASE Create
    BY <1>6, CreateStaging
  <1>7. CASE Publish
    BY <1>7, PublishStaging
  <1>8. CASE CopyEntry
    BY <1>8, CopyStaging
  <1>9. CASE CopyPublish
    BY <1>9, CopiedStaging
  <1>10. CASE Restore \/ RestoreFails
    BY <1>10, RollbackStaging
  <1> QED
    BY <1>1, <1>2, <1>3, <1>4, <1>5, <1>6, <1>7, <1>8, <1>9, <1>10
    DEF Next, Apply, Terminated

LEMMA StagingAlways == Spec => []StagingInv
  BY InitStaging, StagingStep, LostAlways, PTL DEF Spec

\* When apply returns, the report names every staging directory it left, and
\* every one that an original of the user is in (StagingReported).
THEOREM StagingIsReported == Spec => []StagingReported
  <1>1. LostInv /\ StagingInv => StagingReported
    <2> SUFFICES ASSUME LostInv, StagingInv, pc = "done",
                        NEW x \in DOMAIN place
                 PROVE  /\ x.made = "tree" => \E r \in recovery : r.tree = x
                        /\ x \in Originals /\ place[x].name = Payload =>
                             [tree |-> place[x].dir, kind |-> "original"]
                                \in recovery
      BY DEF StagingReported
    <2>1. ToSet(staged) = {} /\ using = NoTree
      BY EmptyList DEF StagingInv, StagedPending, LostInv, TreesOwned
    <2> QED
      BY <2>1 DEF StagingInv, TreesKnown, HiddenKnown
  <1> QED
    BY <1>1, LostAlways, StagingAlways, PTL

-----------------------------------------------------------------------------
(* The inductive invariant of ReportIsTrue, while nothing is disturbed       *)

Calm == disturbed = {}

IsPath(path) == Len(path) \in 1..2 /\ path[1] \in Nat /\ Last(path) \in Nat

\* x is what path leads to on disk p.
OnPath(p, x, path) ==
    /\ x \in DOMAIN p /\ p[x].name = Last(path)
    /\ \/ Len(path) = 1 /\ p[x].dir = Root
       \/ /\ Len(path) = 2 /\ p[x].dir \in DOMAIN p
          /\ p[p[x].dir].dir = Root /\ p[p[x].dir].kind = "dir"
          /\ p[p[x].dir].name = path[1]

Leads(p, path, x) == \A y : OnPath(p, y, path) <=> y = x

\* What paths lead to stays what they lead to.
SameOn(p, q) ==
    \A path, x : IsPath(path) /\ Leads(p, path, x) => Leads(q, path, x)

\* The disk of a plan that nobody disturbs.
Well(p) ==
    /\ \A x \in DOMAIN p : x.made \in {"original", "tree", "new", "copy"}
    /\ \A x \in DOMAIN p : x.made = "tree" => p[x].name = NoName
    /\ \A x, y \in DOMAIN p :
          /\ p[x].dir = Root /\ p[y].dir = Root
          /\ p[x].name = p[y].name /\ p[x].name \in Nat
          => x = y

\* No step of the plan takes e away, or what holds it.
Kept(e) ==
    \A op \in ToSet(plan.moves) \cup ToSet(plan.deletes) :
        ~StartsWith(PathOf(e), op.from)

\* No step of the plan puts anything in the place of e.
Untaken(e) == \A op \in Operations(plan) : op.to # PathOf(e)

\* The plan as build_with_limits lets it through.
MovesShaped ==
    \A op \in ToSet(plan.moves) : /\ op.do = "move" /\ op.to \in Paths
        /\ \E e \in Originals : op.of = {e} /\ op.from = PathOf(e)
DeletesShaped ==
    \A op \in ToSet(plan.deletes) : /\ op.do = "delete"
        /\ \E e \in Listed : op.of = {e} /\ op.from = PathOf(e)
CreatesShaped ==
    \A op \in ToSet(plan.creates) : op.do = "create" /\ op.to \in Paths
CopiesShaped ==
    \A op \in ToSet(plan.copies) : /\ op.do = "copy" /\ op.to \in Paths
        /\ \E e \in Originals : /\ op.of = {e}
              /\ \/ \E m \in ToSet(plan.moves) : m.of = {e} /\ m.to = op.from
                 \/ op.from = PathOf(e) /\ Kept(e)
                 \/ op.from = PathOf(e) /\ e \in Listed /\ Untaken(e)
CopiesApart ==
    /\ \A op, o \in ToSet(plan.copies) : op.to = o.to => op = o
    /\ IsInjective(plan.copies)
Shaped == /\ MovesShaped /\ DeletesShaped /\ CreatesShaped
          /\ CopiesShaped /\ CopiesApart

\* The steps of the plan are left to do or applied.
Accounted ==
    /\ applied \subseteq Operations(plan)
    /\ pc \in {"built", "stage"} => applied = {}
    /\ Early => deferred = <<>>
    /\ pc = "delete" =>
          /\ applied \subseteq ToSet(plan.deletes)
          /\ ToSet(plan.deletes) \subseteq applied \cup ToSet(todo)
    /\ pc \in {"finish", "rollback"} => applied \cap ToSet(plan.copies) = {}
    /\ pc = "finish" =>
          /\ ToSet(todo) \cup ToSet(deferred)
                \subseteq ToSet(plan.creates) \cup ToSet(plan.moves)
          /\ ToSet(plan.deletes) \subseteq applied
          /\ ToSet(plan.creates) \cup ToSet(plan.moves)
                \subseteq applied \cup ToSet(todo) \cup ToSet(deferred)
    /\ pc = "copy" =>
          /\ IsInjective(todo) /\ ToSet(todo) \cap applied = {}
          /\ ToSet(plan.deletes) \cup ToSet(plan.creates) \cup ToSet(plan.moves)
                \subseteq applied
          /\ ToSet(plan.copies) \subseteq applied \cup ToSet(todo)
    /\ pc = "done" /\ outcome = "ok" => Operations(plan) \subseteq applied

\* What is staged, or being staged, is what the step is of.
TakenOf(s) == s.entry \in Originals /\ s.op.of = {s.entry} /\ s.tree.use = "move"
StagedOf ==
    /\ \A s \in ToSet(staged) : TakenOf(s)
    /\ pc = "stage" /\ using # NoTree => TakenOf(using)
TreeHolds ==
    Early => \A x \in DOMAIN place :
        InTree(x) => \E s \in ToSet(staged) : s.entry = x

\* A copy under way is of what the step is of, and alone in its directory.
CopyOf ==
    pc = "copy" /\ using # NoTree =>
        /\ using.tree = Tree("copy", using.op.to)
        /\ \E e \in Originals : /\ using.op.of = {e}
                                /\ using.entry = Copied(e, using.op.to)
CopyTrees ==
    pc # "done" => \A x \in DOMAIN place :
        place[x].dir.made = "tree" /\ place[x].dir.use = "copy" =>
            pc = "copy" /\ using # NoTree /\ x = using.entry

\* New entries and copies are of steps applied or under way.
MadeBySteps ==
    \A x \in DOMAIN place :
        /\ x.made = "new" =>
              \E op \in applied : op.do = "create" /\ op.to = x.path
        /\ x.made = "copy" /\ pc # "done" =>
              \/ \E op \in applied : op.do = "copy" /\ op.to = x.path
              \/ pc = "copy" /\ using # NoTree /\ using.op.to = x.path

\* What copies are made of is where it was.
KeptStill ==
    pc \in {"finish", "copy"} =>
        \A e \in Originals : Kept(e) => Leads(place, PathOf(e), e)
UntakenStill ==
    pc \in {"finish", "copy"} =>
        \A e \in Listed : Untaken(e) =>
            \A x \in DOMAIN place :
                place[x].dir = Root /\ place[x].name = Layout[e].name => x = e

Effects == \A op \in applied : Effect(op)

CalmInv == /\ Well(place) /\ gone \cap Originals = {} /\ Accounted /\ StagedOf
           /\ TreeHolds /\ CopyOf /\ CopyTrees /\ MadeBySteps /\ KeptStill
           /\ UntakenStill /\ Effects
ReportInv == Shaped /\ (Calm => CalmInv)

-----------------------------------------------------------------------------
(* Paths and disks                                                           *)

\* The paths of a plan and those of the listing.
LEMMA ReportPaths ==
    /\ \A path \in Paths : IsPath(path)
    /\ \A e \in Originals : IsPath(PathOf(e))
  <1>1. ASSUME NEW path \in Paths
        PROVE  IsPath(path)
    <2>1. path \in Seq(Nat \ {Payload}) /\ Len(path) \in 1..2
      BY PlanConstants
    <2>2. path[1] \in Nat /\ path[Len(path)] \in Nat
      BY <2>1
    <2> QED
      BY <2>1, <2>2 DEF IsPath, Last
  <1>2. ASSUME NEW e \in Originals
        PROVE  IsPath(PathOf(e))
    <2>1. CASE e \in Listed
      <3>1. PICK a : a = Layout[e].name
        OBVIOUS
      <3>2. PathOf(e) = <<a>> /\ a \in Nat
        BY <2>1, <3>1, ListingFacts
      <3>3. Len(<<a>>) = 1 /\ Last(<<a>>) = a /\ <<a>>[1] = a
        BY DEF Last
      <3> QED
        BY <3>2, <3>3 DEF IsPath
    <2>2. CASE e \notin Listed
      <3>1. PICK y : y = Layout[e].dir
        OBVIOUS
      <3>2. PICK a, b : a = Layout[y].name /\ b = Layout[e].name
        OBVIOUS
      <3>3. y \in Originals
        BY <2>2, <3>1, ListingFacts DEF Listed
      <3>4. PathOf(e) = <<a, b>> /\ a \in Nat /\ b \in Nat
        BY <2>2, <3>1, <3>2, <3>3, ListingFacts
      <3>5. Len(<<a, b>>) = 2 /\ Last(<<a, b>>) = b /\ <<a, b>>[1] = a
        BY DEF Last
      <3> QED
        BY <3>4, <3>5 DEF IsPath
    <2> QED
      BY <2>1, <2>2
  <1> QED
    BY <1>1, <1>2

\* At says what a path leads to.
LEMMA AtPath ==
    ASSUME NEW path, IsPath(path)
    PROVE  /\ \A x : x \in At(path) <=> OnPath(place, x, path)
           /\ \A x : x \in At(path)' <=> OnPath(place', x, path)
  <1>1. Len(path) = 1 \/ Len(path) = 2
    BY DEF IsPath
  <1>2. \A x : x \in At(path) <=>
           \E d \in Parent(path) : x \in DOMAIN place /\ place[x].dir = d
                                   /\ place[x].name = Last(path)
    <2>1. ASSUME NEW x
          PROVE  x \in At(path) <=> \E d \in Parent(path) :
                    x \in Named(d, Last(path))
      BY Zenon DEF At
    <2>2. \A x, d, n : x \in Named(d, n) <=>
             x \in DOMAIN place /\ place[x].dir = d /\ place[x].name = n
      BY DEF Named
    <2> QED
      BY <2>1, <2>2, Zenon
  <1>3. \A x : x \in At(path)' <=>
           \E d \in Parent(path)' : x \in DOMAIN place' /\ place'[x].dir = d
                                   /\ place'[x].name = Last(path)
    <2>1. ASSUME NEW x
          PROVE  x \in At(path)' <=> \E d \in Parent(path)' :
                    x \in Named(d, Last(path))'
      BY Zenon DEF At
    <2>2. \A x, d, n : x \in Named(d, n)' <=>
             x \in DOMAIN place' /\ place'[x].dir = d /\ place'[x].name = n
      BY DEF Named
    <2> QED
      BY <2>1, <2>2, Zenon
  <1>4. CASE Len(path) = 1
    <2>1. Parent(path) = {Root} /\ Parent(path)' = {Root}
      BY <1>4 DEF Parent
    <2> QED
      BY <1>2, <1>3, <1>4, <2>1 DEF OnPath
  <1>5. CASE Len(path) = 2
    <2>1. \A d : d \in Parent(path) <=>
             /\ d \in DOMAIN place /\ place[d].dir = Root
             /\ place[d].name = path[1] /\ place[d].kind = "dir"
      BY <1>5 DEF Parent
    <2>2. \A d : d \in Parent(path)' <=>
             /\ d \in DOMAIN place' /\ place'[d].dir = Root
             /\ place'[d].name = path[1] /\ place'[d].kind = "dir"
      BY <1>5 DEF Parent
    <2> QED
      BY <1>2, <1>3, <1>5, <2>1, <2>2 DEF OnPath
  <1> QED
    BY <1>1, <1>4, <1>5

\* A path leads to one entry when At holds just that.
LEMMA AtLeads ==
    ASSUME NEW path, IsPath(path), NEW x
    PROVE  /\ At(path) = {x} <=> Leads(place, path, x)
           /\ At(path)' = {x} <=> Leads(place', path, x)
  <1>1. At(path) = {x} <=> \A y : y \in At(path) <=> y = x
    OBVIOUS
  <1>2. At(path)' = {x} <=> \A y : y \in At(path)' <=> y = x
    OBVIOUS
  <1> QED
    BY <1>1, <1>2, AtPath, Zenon DEF Leads

\* The directory in which a path ends is the root or in it.
LEMMA PathParent ==
    ASSUME NEW path, IsPath(path), NEW d \in Parent(path)
    PROVE  /\ Len(path) = 1 => d = Root
           /\ Len(path) = 2 => d \in DOMAIN place /\ place[d].dir = Root
                 /\ place[d].kind = "dir" /\ place[d].name = path[1]
  BY DEF Parent, IsPath

\* The root is no entry, and a staging directory has no path's name.
LEMMA NoSuchMade == Root.made = "root" /\ NoName \notin Nat
  BY PlanConstants

\* An entry that comes to a free name, from nowhere or from a staging directory.
LEMMA Arrival ==
    ASSUME NEW p, NEW q, NEW z, NEW d, NEW n, NEW k, Well(p),
           DOMAIN q = DOMAIN p \cup {z},
           q[z] = [dir |-> d, name |-> n, kind |-> k],
           \A x \in DOMAIN p : x # z => q[x] = p[x],
           z \notin DOMAIN p \/ p[z].dir.made = "tree",
           \A x \in DOMAIN p : ~(p[x].dir = d /\ p[x].name = n),
           z.made \in {"original", "new", "copy"}
    PROVE  Well(q) /\ SameOn(p, q)
  <1>1. q[z].dir = d /\ q[z].name = n
    OBVIOUS
  <1>2. Well(q)
    <2>1. /\ \A x \in DOMAIN q : x.made \in {"original", "tree", "new", "copy"}
          /\ \A x \in DOMAIN q : x.made = "tree" => q[x].name = NoName
      BY DEF Well
    <2>2. ASSUME NEW x \in DOMAIN q, NEW y \in DOMAIN q, x # z,
                 q[x].dir = Root, q[y].dir = Root, q[x].name = q[y].name,
                 q[x].name \in Nat
          PROVE  x = y
      BY <1>1, <2>2 DEF Well
    <2>3. ASSUME NEW x \in DOMAIN q, NEW y \in DOMAIN q, y # z,
                 q[x].dir = Root, q[y].dir = Root, q[x].name = q[y].name,
                 q[x].name \in Nat
          PROVE  x = y
      BY <1>1, <2>3 DEF Well
    <2>4. \A x, y \in DOMAIN q :
             /\ q[x].dir = Root /\ q[y].dir = Root
             /\ q[x].name = q[y].name /\ q[x].name \in Nat
             => x = y
      BY <2>2, <2>3, Zenon
    <2> QED
      BY <2>1, <2>4 DEF Well
  <1>3. ASSUME NEW x \in DOMAIN p, p[x].dir = Root
        PROVE  x # z /\ q[x] = p[x]
    BY <1>3, NoSuchMade
  <1>4. ASSUME NEW path, NEW x, IsPath(path), OnPath(p, x, path)
        PROVE  x # z /\ OnPath(q, x, path)
    <2>1. CASE Len(path) = 1
      BY <1>3, <1>4, <2>1 DEF OnPath
    <2>2. CASE Len(path) = 2
      <3>1. PICK e : e = p[x].dir
        OBVIOUS
      <3>2. /\ x \in DOMAIN p /\ p[x].name = Last(path)
            /\ e \in DOMAIN p /\ p[e].dir = Root /\ p[e].kind = "dir"
            /\ p[e].name = path[1] /\ path[1] \in Nat
        BY <1>4, <2>2, <3>1 DEF OnPath, IsPath
      <3>3. e # z /\ q[e] = p[e]
        BY <1>3, <3>2
      <3>4. e.made # "tree"
        BY <3>2, NoSuchMade DEF Well
      <3>5. x # z /\ q[x] = p[x]
        BY <3>1, <3>2, <3>4
      <3> QED
        BY <2>2, <3>1, <3>2, <3>3, <3>5 DEF OnPath
    <2> QED
      BY <1>4, <2>1, <2>2 DEF IsPath
  <1>5. ASSUME NEW path, NEW x, NEW y, IsPath(path), Leads(p, path, x),
               OnPath(q, y, path)
        PROVE  y = x
    <2>1. OnPath(p, x, path) /\ OnPath(q, x, path) /\ x # z
      BY <1>4, <1>5 DEF Leads
    <2>2. /\ x \in DOMAIN p /\ q[x] = p[x] /\ p[x].name = Last(path)
          /\ y \in DOMAIN q /\ q[y].name = Last(path)
      BY <1>5, <2>1 DEF OnPath
    <2>3. q[y].dir = q[x].dir
      <3>1. CASE Len(path) = 1
        BY <1>5, <2>1, <3>1 DEF OnPath
      <3>2. CASE Len(path) = 2
        <4>1. PICK a, b : a = q[x].dir /\ b = q[y].dir
          OBVIOUS
        <4>2. /\ a \in DOMAIN q /\ b \in DOMAIN q
              /\ q[a].dir = Root /\ q[b].dir = Root
              /\ q[a].name = path[1] /\ q[b].name = path[1] /\ path[1] \in Nat
          BY <1>5, <2>1, <3>2, <4>1 DEF OnPath, IsPath
        <4> QED
          BY <1>2, <4>1, <4>2 DEF Well
      <3> QED
        BY <1>5, <3>1, <3>2 DEF IsPath
    <2>4. y # z
      BY <1>1, <2>2, <2>3
    <2>5. y \in DOMAIN p /\ q[y] = p[y]
      BY <2>2, <2>4
    <2>6. OnPath(p, y, path)
      <3>1. CASE Len(path) = 1
        BY <1>5, <2>5, <3>1 DEF OnPath
      <3>2. CASE Len(path) = 2
        <4>1. PICK a : a = p[x].dir
          OBVIOUS
        <4>2. p[y].dir = a /\ p[y].name = Last(path)
          BY <2>2, <2>3, <2>5, <4>1
        <4>3. /\ a \in DOMAIN p /\ p[a].dir = Root /\ p[a].kind = "dir"
              /\ p[a].name = path[1]
          BY <2>1, <3>2, <4>1 DEF OnPath
        <4> QED
          BY <2>5, <3>2, <4>2, <4>3 DEF OnPath
      <3> QED
        BY <1>5, <3>1, <3>2 DEF IsPath
    <2> QED
      BY <1>5, <2>6 DEF Leads
  <1>6. SameOn(p, q)
    BY <1>4, <1>5 DEF SameOn, Leads
  <1> QED
    BY <1>2, <1>6

\* What a path leads to once something came to where it ends.
LEMMA ArrivesAt ==
    ASSUME NEW q, NEW z, NEW d, NEW n, NEW k, NEW path, IsPath(path),
           NEW e \in Parent(path), e = d, n = Last(path), Well(place), Well(q),
           DOMAIN q = DOMAIN place \cup {z},
           q[z] = [dir |-> d, name |-> n, kind |-> k],
           \A x \in DOMAIN place : x # z => q[x] = place[x],
           z \notin DOMAIN place \/ place[z].dir.made = "tree",
           \A x \in DOMAIN place : ~(place[x].dir = d /\ place[x].name = n)
    PROVE  Leads(q, path, z)
  <1>1. q[z].dir = d /\ q[z].name = n /\ z \in DOMAIN q
    OBVIOUS
  <1>2. ASSUME Len(path) = 2
        PROVE  /\ d \in DOMAIN q /\ q[d].dir = Root /\ q[d].kind = "dir"
               /\ q[d].name = path[1] /\ path[1] \in Nat
    <2>1. /\ d \in DOMAIN place /\ place[d].dir = Root /\ place[d].kind = "dir"
          /\ place[d].name = path[1] /\ path[1] \in Nat
      BY <1>2, PathParent DEF IsPath
    <2>2. d # z
      BY <2>1, NoSuchMade
    <2> QED
      BY <2>1, <2>2
  <1>3. Len(path) = 1 => d = Root
    BY PathParent
  <1>4. OnPath(q, z, path)
    BY <1>1, <1>2, <1>3 DEF OnPath, IsPath
  <1>5. ASSUME NEW y, OnPath(q, y, path)
        PROVE  y = z
    <2>1. q[y].dir = d
      <3>1. CASE Len(path) = 1
        BY <1>3, <1>5, <3>1 DEF OnPath
      <3>2. CASE Len(path) = 2
        <4>1. PICK b : b = q[y].dir
          OBVIOUS
        <4>2. /\ b \in DOMAIN q /\ q[b].dir = Root
              /\ q[b].name = path[1]
          BY <1>5, <3>2, <4>1 DEF OnPath
        <4> QED
          BY <1>2, <3>2, <4>1, <4>2 DEF Well
      <3> QED
        BY <3>1, <3>2 DEF IsPath
    <2>2. y \in DOMAIN q /\ q[y].name = n
      BY <1>5 DEF OnPath
    <2> QED
      BY <2>1, <2>2
  <1> QED
    BY <1>4, <1>5, Zenon DEF Leads

\* Two steps that leave what paths lead to.
LEMMA SameTwice ==
    ASSUME NEW p, NEW q, NEW r, SameOn(p, q), SameOn(q, r)
    PROVE  SameOn(p, r)
  BY DEF SameOn

\* No step at all leaves it too.
LEMMA SameSelf ==
    ASSUME NEW p
    PROVE  SameOn(p, p)
  BY DEF SameOn

\* A disk with fewer entries.
LEMMA FewerWell ==
    ASSUME NEW p, NEW q, Well(p), DOMAIN q \subseteq DOMAIN p,
           \A x \in DOMAIN q : q[x] = p[x]
    PROVE  Well(q)
  BY DEF Well

\* The same, when only what no path leads to is missing.
Surface(p) ==
    {x \in DOMAIN p :
        /\ p[x].name \in Nat
        /\ \/ p[x].dir = Root
           \/ /\ p[x].dir \in DOMAIN p /\ p[p[x].dir].dir = Root
              /\ p[p[x].dir].name \in Nat}

\* What a path leads to, and the directory that holds it, is on the surface.
LEMMA OnSurface ==
    ASSUME NEW p, NEW path, NEW x, IsPath(path), OnPath(p, x, path)
    PROVE  x \in Surface(p) /\ (Len(path) = 2 => p[x].dir \in Surface(p))
  <1>1. PICK d : d = p[x].dir
    OBVIOUS
  <1>2. CASE Len(path) = 1
    BY <1>2 DEF IsPath, OnPath, Surface
  <1>3. CASE Len(path) = 2
    <2>1. /\ x \in DOMAIN p /\ d \in DOMAIN p /\ p[d].dir = Root
          /\ p[d].name \in Nat /\ p[x].name \in Nat
      BY <1>1, <1>3 DEF IsPath, OnPath
    <2> QED
      BY <1>1, <2>1 DEF Surface
  <1> QED
    BY <1>2, <1>3 DEF IsPath

\* A disk with fewer entries, when the surface is still there.
LEMMA FewerSame ==
    ASSUME NEW p, NEW q, DOMAIN q \subseteq DOMAIN p,
           \A x \in DOMAIN q : q[x] = p[x], Surface(p) \subseteq DOMAIN q
    PROVE  SameOn(p, q)
  <1>1. ASSUME NEW path, NEW x, IsPath(path), OnPath(p, x, path)
        PROVE  OnPath(q, x, path)
    <2>1. x \in DOMAIN q /\ (Len(path) = 2 => p[x].dir \in DOMAIN q)
      BY <1>1, OnSurface
    <2>2. PICK d : d = p[x].dir
      OBVIOUS
    <2>3. q[x] = p[x] /\ q[x].dir = d /\ q[x].name = p[x].name
      BY <2>1, <2>2
    <2>4. CASE Len(path) = 1
      BY <1>1, <2>1, <2>3, <2>4 DEF OnPath
    <2>5. CASE Len(path) = 2
      <3>1. d \in DOMAIN q /\ q[d] = p[d]
        BY <2>1, <2>2, <2>5
      <3>2. /\ p[d].dir = Root /\ p[d].kind = "dir" /\ p[d].name = path[1]
            /\ p[x].name = Last(path)
        BY <1>1, <2>2, <2>5 DEF OnPath
      <3> QED
        BY <2>1, <2>3, <2>5, <3>1, <3>2 DEF OnPath
    <2> QED
      BY <1>1, <2>4, <2>5 DEF IsPath
  <1>2. ASSUME NEW path, NEW x, IsPath(path), OnPath(q, x, path)
        PROVE  OnPath(p, x, path)
    <2>1. PICK d : d = q[x].dir
      OBVIOUS
    <2>2. x \in DOMAIN q /\ q[x] = p[x] /\ p[x].dir = d /\ p[x].name = Last(path)
      BY <1>2, <2>1 DEF OnPath
    <2>3. CASE Len(path) = 1
      BY <1>2, <2>1, <2>2, <2>3 DEF OnPath
    <2>4. CASE Len(path) = 2
      <3>1. /\ d \in DOMAIN q /\ q[d].dir = Root /\ q[d].kind = "dir"
            /\ q[d].name = path[1]
        BY <1>2, <2>1, <2>4 DEF OnPath
      <3>2. d \in DOMAIN p /\ p[d] = q[d]
        BY <3>1
      <3> QED
        BY <2>2, <2>4, <3>1, <3>2 DEF OnPath
    <2> QED
      BY <1>2, <2>3, <2>4 DEF IsPath
  <1> QED
    BY <1>1, <1>2 DEF SameOn, Leads

\* A cleanup takes nothing away that a path leads to.
LEMMA CleanupSame ==
    ASSUME NEW p, Formed(p), Well(p), NEW tree, tree.made = "tree",
           NEW owned, NEW kind, NEW c \in Cleanups(p, tree, owned, kind)
    PROVE  /\ Well(c.place) /\ SameOn(p, c.place)
           /\ DOMAIN c.place \subseteq DOMAIN p
           /\ \A x \in DOMAIN c.place : c.place[x] = p[x]
  <1>1. PICK q : q = c.place
    OBVIOUS
  <1>2. DOMAIN q \subseteq DOMAIN p /\ \A x \in DOMAIN q : q[x] = p[x]
    BY <1>1, CleanedUp
  <1>3. Well(q)
    BY <1>2, FewerWell
  <1>4. CASE q = p
    BY <1>1, <1>2, <1>3, <1>4, SameSelf
  <1>5. CASE q # p
    <2>1. /\ tree \in DOMAIN p /\ Below(p, {tree}) = owned \cup {tree}
          /\ q = Without(p, owned \cup {tree})
      BY <1>1, <1>5 DEF Cleanups
    <2>2. PICK K : K = DOMAIN p \ Surface(p)
      OBVIOUS
    <2>3. tree \notin Surface(p)
      BY <2>1, NoSuchMade DEF Surface, Well
    <2>4. ASSUME NEW z \in DOMAIN p, p[z].dir \in K
          PROVE  z \in K
      <3>1. PICK d : d = p[z].dir
        OBVIOUS
      <3>2. d \in DOMAIN p /\ d \notin Surface(p)
        BY <2>2, <2>4, <3>1
      <3>3. d # Root
        BY <3>2, NoSuchMade DEF Well
      <3>4. p[d].dir = Root /\ p[d].name \in Nat => d \in Surface(p)
        BY <3>2 DEF Surface
      <3>5. z \notin Surface(p)
        BY <3>1, <3>2, <3>3, <3>4 DEF Surface
      <3> QED
        BY <2>2, <3>5
    <2>5. {tree} \subseteq K
      BY <2>1, <2>2, <2>3
    <2>6. Below(p, {tree}) \subseteq K
      BY <2>4, <2>5, BelowStays
    <2>7. DOMAIN q = DOMAIN p \ (owned \cup {tree})
      BY <2>1 DEF Without
    <2>8. Surface(p) \subseteq DOMAIN q
      <3>1. Surface(p) \subseteq DOMAIN p
        BY DEF Surface
      <3> QED
        BY <2>1, <2>2, <2>6, <2>7, <3>1
    <2> QED
      BY <1>1, <1>2, <1>3, <2>8, FewerSame
  <1> QED
    BY <1>4, <1>5

\* A staging directory is made.
LEMMA TreeWell ==
    ASSUME NEW p, NEW q, NEW z, NEW d, NEW k, Well(p), z.made = "tree",
           DOMAIN q = DOMAIN p \cup {z},
           q[z] = [dir |-> d, name |-> NoName, kind |-> k],
           \A x \in DOMAIN p : x # z => q[x] = p[x]
    PROVE  Well(q)
  <1>1. q[z].name = NoName /\ q[z].name \notin Nat
    BY NoSuchMade
  <1>2. /\ \A x \in DOMAIN q : x.made \in {"original", "tree", "new", "copy"}
        /\ \A x \in DOMAIN q : x.made = "tree" => q[x].name = NoName
    BY <1>1 DEF Well
  <1>3. ASSUME NEW x \in DOMAIN q, NEW y \in DOMAIN q,
               q[x].dir = Root, q[y].dir = Root, q[x].name = q[y].name,
               q[x].name \in Nat
        PROVE  x = y
    <2>1. x # z /\ y # z
      BY <1>1, <1>3
    <2> QED
      BY <1>3, <2>1 DEF Well
  <1> QED
    BY <1>2, <1>3 DEF Well

\* An entry is taken out of its place into a staging directory.
LEMMA TakenWell ==
    ASSUME NEW p, NEW q, NEW z, NEW d, NEW n, NEW k, Well(p), d # Root,
           z \in DOMAIN p, z.made # "tree",
           DOMAIN q = DOMAIN p, q[z] = [dir |-> d, name |-> n, kind |-> k],
           \A x \in DOMAIN p : x # z => q[x] = p[x]
    PROVE  Well(q)
  <1>1. /\ \A x \in DOMAIN q : x.made \in {"original", "tree", "new", "copy"}
        /\ \A x \in DOMAIN q : x.made = "tree" => q[x].name = NoName
    BY DEF Well
  <1>2. ASSUME NEW x \in DOMAIN q, NEW y \in DOMAIN q,
               q[x].dir = Root, q[y].dir = Root, q[x].name = q[y].name,
               q[x].name \in Nat
        PROVE  x = y
    <2>1. q[z].dir = d
      OBVIOUS
    <2>2. x # z /\ y # z
      BY <1>2, <2>1
    <2> QED
      BY <1>2, <2>2 DEF Well
  <1> QED
    BY <1>1, <1>2 DEF Well

\* A copy is made where no path leads.
LEMMA CopyIn ==
    ASSUME Well(place), NEW x, NEW op, NEW d, NEW q, q = CopyInto(x, op, d),
           NEW t, t = Tree("copy", op.to),
           \A y \in DOMAIN place : y.made = "copy" => y.path # op.to
    PROVE  /\ Well(q) /\ SameOn(place, q) /\ DOMAIN place \subseteq DOMAIN q
           /\ t \in DOMAIN q /\ q[t].dir = d
           /\ \A y \in DOMAIN place : y # t => q[y] = place[y]
           /\ \A y \in DOMAIN q \ DOMAIN place : y # t =>
                 /\ y.made = "copy" /\ y.path = op.to
                 /\ \/ y = Copied(x, op.to) /\ q[y].dir = t
                    \/ q[y].dir.made = "copy"
  <1>1. PICK w : w = With(t, d, NoName, "dir")
    OBVIOUS
  <1>2. PICK made : made = {Copied(y, op.to) : y \in Below(place, {x})}
    OBVIOUS
  <1>3. /\ DOMAIN w = DOMAIN place \cup {t}
        /\ w[t] = [dir |-> d, name |-> NoName, kind |-> "dir"]
        /\ \A y \in DOMAIN place : y # t => w[y] = place[y]
    BY <1>1 DEF With
  <1>4. /\ DOMAIN q = DOMAIN w \cup made
        /\ \A y \in DOMAIN w : q[y] = w[y]
    BY <1>1, <1>2 DEF CopyInto
  <1>5. t.made = "tree"
    BY DEF Tree
  <1>6. ASSUME NEW y \in made
        PROVE  y.made = "copy" /\ y.path = op.to /\ y = Copied(y.of, op.to)
    <2>1. PICK z : y = Copied(z, op.to)
      BY <1>2, <1>6
    <2> QED
      BY <2>1 DEF Copied
  <1>7. ASSUME NEW y \in made
        PROVE  y \notin DOMAIN w
    BY <1>3, <1>5, <1>6, <1>7
  <1>8. ASSUME NEW y \in made
        PROVE  \/ y = Copied(x, op.to) /\ q[y].dir = t
               \/ \E b : q[y].dir = Copied(b, op.to)
    <2>1. q[y].dir = IF y.of = x THEN t
                     ELSE Copied(place[y.of].dir, op.to)
      BY <1>1, <1>2, <1>7 DEF CopyInto
    <2> QED
      BY <1>6, <2>1
  <1>9. \A b : Copied(b, op.to).made = "copy" /\ Copied(b, op.to).path = op.to
    BY DEF Copied
  <1>10. ASSUME NEW y \in made
         PROVE  /\ q[y].dir # Root /\ q[y].dir \notin DOMAIN place \ {t}
                /\ q[y].dir = t \/ q[y].dir.made = "copy"
    BY <1>5, <1>8, <1>9, NoSuchMade
  <1>11. q[t].name = NoName /\ q[t].name \notin Nat /\ q[t].dir = d
    BY <1>3, <1>4, NoSuchMade
  <1>12. \A y \in DOMAIN place : y # t => q[y] = place[y]
    BY <1>3, <1>4
  <1>13. Well(q)
    <2>1. \A y \in DOMAIN q : y.made \in {"original", "tree", "new", "copy"}
      BY <1>3, <1>4, <1>5, <1>6 DEF Well
    <2>2. \A y \in DOMAIN q : y.made = "tree" => q[y].name = NoName
      BY <1>3, <1>4, <1>6, <1>11, <1>12 DEF Well
    <2>3. ASSUME NEW y \in DOMAIN q, NEW z \in DOMAIN q,
                 q[y].dir = Root, q[z].dir = Root, q[y].name = q[z].name,
                 q[y].name \in Nat
          PROVE  y = z
      <3>1. y \in DOMAIN place /\ y # t /\ z \in DOMAIN place /\ z # t
        BY <1>3, <1>4, <1>10, <1>11, <2>3
      <3> QED
        BY <1>12, <2>3, <3>1 DEF Well
    <2> QED
      BY <2>1, <2>2, <2>3 DEF Well
  <1>14. ASSUME NEW path, NEW y, IsPath(path), OnPath(place, y, path)
         PROVE  OnPath(q, y, path)
    <2>1. PICK a : a = place[y].dir
      OBVIOUS
    <2>2. y \in DOMAIN place /\ place[y].name = Last(path) /\ Last(path) \in Nat
      BY <1>14 DEF OnPath, IsPath
    <2>3. y # t
      BY <1>5, <2>2, NoSuchMade DEF Well
    <2>4. y \in DOMAIN q /\ q[y] = place[y]
      BY <1>3, <1>4, <1>12, <2>2, <2>3
    <2>5. CASE Len(path) = 1
      BY <1>14, <2>2, <2>4, <2>5 DEF OnPath
    <2>6. CASE Len(path) = 2
      <3>1. /\ a \in DOMAIN place /\ place[a].dir = Root /\ place[a].kind = "dir"
            /\ place[a].name = path[1] /\ path[1] \in Nat
        BY <1>14, <2>1, <2>6 DEF OnPath, IsPath
      <3>2. a # t
        BY <1>5, <3>1, NoSuchMade DEF Well
      <3>3. a \in DOMAIN q /\ q[a] = place[a]
        BY <1>3, <1>4, <1>12, <3>1, <3>2
      <3> QED
        BY <2>1, <2>2, <2>4, <2>6, <3>1, <3>3 DEF OnPath
    <2> QED
      BY <1>14, <2>5, <2>6 DEF IsPath
  <1>15. ASSUME NEW path, NEW y, IsPath(path), OnPath(q, y, path)
         PROVE  OnPath(place, y, path)
    <2>1. PICK a : a = q[y].dir
      OBVIOUS
    <2>2. y \in DOMAIN q /\ q[y].name = Last(path) /\ Last(path) \in Nat /\ y # t
      BY <1>11, <1>15 DEF OnPath, IsPath
    <2>3. CASE Len(path) = 1
      <3>1. a = Root
        BY <1>15, <2>1, <2>3 DEF OnPath
      <3>2. y \in DOMAIN place /\ place[y] = q[y]
        BY <1>3, <1>4, <1>10, <1>12, <2>1, <2>2, <3>1
      <3> QED
        BY <1>15, <2>3, <3>2 DEF OnPath
    <2>4. CASE Len(path) = 2
      <3>1. /\ a \in DOMAIN q /\ q[a].dir = Root /\ q[a].kind = "dir"
            /\ q[a].name = path[1] /\ path[1] \in Nat
        BY <1>15, <2>1, <2>4 DEF OnPath, IsPath
      <3>2. a # t
        BY <1>11, <3>1
      <3>3. a \in DOMAIN place /\ place[a] = q[a]
        BY <1>3, <1>4, <1>10, <1>12, <3>1, <3>2
      <3>4. y \notin made
        BY <1>10, <2>1, <3>2, <3>3
      <3>5. y \in DOMAIN place /\ place[y] = q[y]
        BY <1>3, <1>4, <1>12, <2>2, <3>4
      <3> QED
        BY <2>1, <2>2, <2>4, <3>1, <3>3, <3>5 DEF OnPath
    <2> QED
      BY <1>15, <2>3, <2>4 DEF IsPath
  <1>16. SameOn(place, q)
    BY <1>14, <1>15 DEF SameOn, Leads
  <1>17. ASSUME NEW y \in DOMAIN q \ DOMAIN place, y # t
         PROVE  /\ y.made = "copy" /\ y.path = op.to
                /\ \/ y = Copied(x, op.to) /\ q[y].dir = t
                   \/ q[y].dir.made = "copy"
    <2>1. y \in made
      BY <1>3, <1>4, <1>17
    <2> QED
      BY <1>6, <1>8, <1>9, <2>1
  <1> QED
    BY <1>3, <1>4, <1>11, <1>12, <1>13, <1>16, <1>17

-----------------------------------------------------------------------------
(* Effects, and what was applied                                             *)

\* An operation of the plan by what it does.
LEMMA OperationsShaped ==
    ASSUME Shaped, NEW op \in Operations(plan)
    PROVE  \/ op.do = "create" /\ IsPath(op.to)
           \/ /\ op.do \in {"move", "copy"} /\ IsPath(op.to)
              /\ \E e \in Originals : op.of = {e}
           \/ op.do = "delete" /\ \E e \in Originals : op.of = {e}
  <1>1. CASE op \in ToSet(plan.moves)
    BY <1>1, ReportPaths DEF Shaped, MovesShaped
  <1>2. CASE op \in ToSet(plan.deletes)
    BY <1>2 DEF Shaped, DeletesShaped, Listed
  <1>3. CASE op \in ToSet(plan.creates)
    BY <1>3, ReportPaths DEF Shaped, CreatesShaped
  <1>4. CASE op \in ToSet(plan.copies)
    BY <1>4, ReportPaths DEF Shaped, CopiesShaped
  <1> QED
    BY <1>1, <1>2, <1>3, <1>4 DEF Operations

\* Effects in terms of paths.
LEMMA EffectOfCreate ==
    ASSUME NEW op, op.do = "create", IsPath(op.to)
    PROVE  /\ Effect(op) <=> Leads(place, op.to, New(op.to))
           /\ Effect(op)' <=> Leads(place', op.to, New(op.to))
  <1>1. /\ Effect(op) <=> At(op.to) = {New(op.to)}
        /\ Effect(op)' <=> At(op.to)' = {New(op.to)}
    BY DEF Effect
  <1> QED
    BY <1>1, AtLeads

\* The same for a move,
LEMMA EffectOfMove ==
    ASSUME NEW op, NEW e, op.do = "move", op.of = {e}, IsPath(op.to)
    PROVE  /\ Effect(op) <=> Leads(place, op.to, e)
           /\ Effect(op)' <=> Leads(place', op.to, e)
  <1>1. /\ Effect(op) <=> At(op.to) = {e}
        /\ Effect(op)' <=> At(op.to)' = {e}
    BY DEF Effect
  <1> QED
    BY <1>1, AtLeads

\* a copy,
LEMMA EffectOfCopy ==
    ASSUME NEW op, NEW e, op.do = "copy", op.of = {e}, IsPath(op.to)
    PROVE  /\ Effect(op) <=> Leads(place, op.to, Copied(e, op.to))
           /\ Effect(op)' <=> Leads(place', op.to, Copied(e, op.to))
  <1>1. {Copied(x, op.to) : x \in op.of} = {Copied(e, op.to)}
    OBVIOUS
  <1>2. /\ Effect(op) <=> At(op.to) = {Copied(e, op.to)}
        /\ Effect(op)' <=> At(op.to)' = {Copied(e, op.to)}
    BY <1>1 DEF Effect
  <1> QED
    BY <1>2, AtLeads

\* and a delete.
LEMMA EffectOfDelete ==
    ASSUME NEW op, NEW e, op.do = "delete", op.of = {e}
    PROVE  /\ Effect(op) <=> e \notin DOMAIN place
           /\ Effect(op)' <=> e \notin DOMAIN place'
  BY DEF Effect

\* What an operation did stays done while paths lead where they led and no
\* original comes back.
LEMMA EffectStays ==
    ASSUME Shaped, NEW op \in Operations(plan), Effect(op),
           SameOn(place, place'),
           DOMAIN place' \cap Originals \subseteq DOMAIN place
    PROVE  Effect(op)'
  <1>1. CASE op.do = "create" /\ IsPath(op.to)
    BY <1>1, EffectOfCreate DEF SameOn
  <1>2. CASE /\ op.do \in {"move", "copy"} /\ IsPath(op.to)
             /\ \E e \in Originals : op.of = {e}
    <2>1. PICK e : op.of = {e}
      BY <1>2
    <2>2. CASE op.do = "move"
      BY <1>2, <2>1, <2>2, EffectOfMove DEF SameOn
    <2>3. CASE op.do = "copy"
      BY <1>2, <2>1, <2>3, EffectOfCopy DEF SameOn
    <2> QED
      BY <1>2, <2>2, <2>3
  <1>3. CASE op.do = "delete" /\ \E e \in Originals : op.of = {e}
    BY <1>3, EffectOfDelete
  <1> QED
    BY <1>1, <1>2, <1>3, OperationsShaped

\* So do all that were applied.
LEMMA EffectsStay ==
    ASSUME Shaped, Accounted, Effects, SameOn(place, place'),
           DOMAIN place' \cap Originals \subseteq DOMAIN place
    PROVE  \A op \in applied : Effect(op)'
  BY EffectStays DEF Accounted, Effects

\* Two lists in a row have the elements of both.
LEMMA ConcatAll ==
    ASSUME NEW s, NEW t, IsSequence(s), IsSequence(t)
    PROVE  ToSet(s \o t) = ToSet(s) \cup ToSet(t)
  <1>1. PICK T : T = ToSet(s) \cup ToSet(t)
    OBVIOUS
  <1>2. s \in Seq(T) /\ t \in Seq(T)
    BY <1>1, SeqDef DEF IsSequence
  <1>3. PICK u : u = s \o t
    OBVIOUS
  <1>4. /\ u \in Seq(T) /\ Len(u) = Len(s) + Len(t)
        /\ \A i \in 1 .. Len(s) + Len(t) :
              u[i] = IF i <= Len(s) THEN s[i] ELSE t[i - Len(s)]
    BY <1>2, <1>3, ConcatProperties
  <1>5. /\ Len(s) \in Nat /\ Len(t) \in Nat
        /\ DOMAIN s = 1 .. Len(s) /\ DOMAIN t = 1 .. Len(t)
        /\ DOMAIN u = 1 .. Len(s) + Len(t)
    BY <1>2, <1>4
  <1>6. ToSet(u) \subseteq T
    <2>1. \A i \in DOMAIN u : u[i] \in T
      BY <1>4
    <2> QED
      BY <2>1 DEF ToSet
  <1>7. \A i \in 1 .. Len(s) : i \in DOMAIN u /\ u[i] = s[i]
    BY <1>4, <1>5
  <1>8. ToSet(s) \subseteq ToSet(u)
    BY <1>5, <1>7 DEF ToSet
  <1> QED
    BY <1>1, <1>3, <1>6, <1>8, ConcatElements

\* The classes of the plan are told apart by what they do.
LEMMA ClassesApart ==
    ASSUME Shaped
    PROVE  /\ ToSet(plan.deletes) \cap ToSet(plan.copies) = {}
           /\ ToSet(plan.creates) \cap ToSet(plan.copies) = {}
           /\ ToSet(plan.moves) \cap ToSet(plan.copies) = {}
  <1>1. /\ \A op \in ToSet(plan.copies) : op.do = "copy"
        /\ \A op \in ToSet(plan.deletes) : op.do = "delete"
        /\ \A op \in ToSet(plan.creates) : op.do = "create"
        /\ \A op \in ToSet(plan.moves) : op.do = "move"
    BY DEF Shaped, MovesShaped, DeletesShaped, CreatesShaped, CopiesShaped
  <1> QED
    BY <1>1

\* Steps that apply nothing and stay in their phase, or stop.
LEMMA AccountSame ==
    ASSUME Accounted, Shaped, UNCHANGED <<plan, applied>>,
           \/ UNCHANGED <<pc, todo, deferred, outcome>>
           \/ pc' = "rollback" /\ pc \in {"stage", "delete", "finish"}
           \/ pc' = "done" /\ outcome' = "failed"
    PROVE  Accounted'
  <1>1. Operations(plan)' = Operations(plan)
    BY DEF Operations
  <1>2. CASE UNCHANGED <<pc, todo, deferred, outcome>>
    BY <1>1, <1>2 DEF Accounted, Early
  <1>3. CASE pc' = "rollback" /\ pc \in {"stage", "delete", "finish"}
    <2>1. applied \cap ToSet(plan.copies) = {}
      BY <1>3, ClassesApart DEF Accounted
    <2> QED
      BY <1>1, <1>3, <2>1 DEF Accounted, Early
  <1>4. CASE pc' = "done" /\ outcome' = "failed"
    BY <1>1, <1>4 DEF Accounted, Early
  <1> QED
    BY <1>2, <1>3, <1>4

\* The phases one after the other.
LEMMA AccountPhases ==
    ASSUME LostInv, Accounted, Shaped,
           Verify \/ Staged \/ Deleted \/ Finalized \/ Complete \/ NextPass
    PROVE  Accounted'
  <1>1. plan' = plan /\ applied' = applied /\ Operations(plan)' = Operations(plan)
    BY DEF Verify, Staged, Deleted, Finalized, Complete, NextPass, Operations
  <1>2. applied \subseteq Operations(plan)
    BY DEF Accounted
  <1>3. CASE Verify
    BY <1>1, <1>3 DEF Accounted, Verify, Early
  <1>4. CASE Staged
    BY <1>1, <1>2, <1>4 DEF Accounted, Staged, Early
  <1>5. CASE Deleted
    <2>1. todo' = plan.creates \o plan.moves /\ pc = "delete" /\ pc' = "finish"
          /\ todo = <<>> /\ deferred' = deferred
      BY <1>5 DEF Deleted
    <2>2. ToSet(todo') = ToSet(plan.creates) \cup ToSet(plan.moves)
      BY <2>1, PlanLists, ConcatAll
    <2>3. ToSet(deferred') = {} /\ ToSet(todo) = {}
      BY <2>1, EmptyList DEF Accounted, Early
    <2>4. applied \cap ToSet(plan.copies) = {}
      BY <2>1, ClassesApart DEF Accounted
    <2> QED
      BY <1>1, <1>2, <2>1, <2>2, <2>3, <2>4 DEF Accounted, Early
  <1>6. CASE Finalized
    <2>1. /\ pc = "finish" /\ pc' = "copy" /\ todo' = plan.copies
          /\ ToSet(todo) = {} /\ ToSet(deferred) = {}
      BY <1>6, EmptyList DEF Finalized
    <2>2. IsInjective(plan.copies)
      BY DEF Shaped, CopiesApart
    <2> QED
      BY <1>1, <1>2, <2>1, <2>2 DEF Accounted, Early
  <1>7. CASE Complete
    <2>1. pc = "copy" /\ pc' = "done" /\ ToSet(todo) = {}
      BY <1>7, EmptyList DEF Complete, Stop
    <2>2. Operations(plan) \subseteq applied
      BY <2>1 DEF Accounted, Operations
    <2> QED
      BY <1>1, <1>2, <2>1, <2>2 DEF Accounted, Early
  <1>8. CASE NextPass
    <2>1. /\ pc = "finish" /\ pc' = "finish" /\ todo' = deferred
          /\ ToSet(deferred') = {} /\ ToSet(todo) = {}
      BY <1>8, EmptyList DEF NextPass
    <2> QED
      BY <1>1, <1>2, <2>1 DEF Accounted, Early
  <1> QED
    BY <1>3, <1>4, <1>5, <1>6, <1>7, <1>8

\* The steps that take the head of the list, and apply or defer it.
LEMMA AccountTaken ==
    ASSUME LostInv, StagingInv, Accounted, Shaped,
           Delete \/ Defer \/ Create \/ Publish \/ CopyPublish
    PROVE  Accounted'
  <1>1. plan' = plan /\ Operations(plan)' = Operations(plan)
    BY DEF Delete, Defer, Create, Publish, CopyPublish, Operations
  <1>2. applied \subseteq Operations(plan)
    BY DEF Accounted
  <1>3. PICK op : op = Head(todo)
    OBVIOUS
  <1>4. todo # <<>> /\ todo' = Tail(todo) /\ pc' = pc
    BY DEF Delete, Defer, Create, Publish, CopyPublish, Ready, Done, LostInv,
       TreesOwned
  <1>5. op \in ToSet(todo) /\ ToSet(todo) = ToSet(todo') \cup {op}
    BY <1>3, <1>4, PlanLists, ListSteps
  <1>6. CASE Delete
    <2>1. /\ pc = "delete" /\ applied' = applied \cup {op}
          /\ deferred' = deferred /\ outcome' = outcome
      BY <1>3, <1>6 DEF Delete
    <2>2. op \in ToSet(plan.deletes)
      BY <1>5, <2>1 DEF LostInv, StepsLeft
    <2>3. op \in Operations(plan)
      BY <2>2 DEF Operations
    <2> QED
      BY <1>1, <1>2, <1>4, <1>5, <2>1, <2>2, <2>3 DEF Accounted, Early
  <1>7. CASE Defer
    <2>1. /\ pc = "finish" /\ applied' = applied
          /\ deferred' = Append(deferred, op)
      BY <1>3, <1>7 DEF Defer
    <2>2. ToSet(deferred') = ToSet(deferred) \cup {op}
      BY <2>1, PlanLists, ListSteps
    <2> QED
      BY <1>1, <1>2, <1>4, <1>5, <2>1, <2>2 DEF Accounted, Early
  <1>8. CASE Create \/ Publish
    <2>1. /\ pc = "finish" /\ applied' = applied \cup {op}
          /\ deferred' = deferred
      BY <1>3, <1>8 DEF Create, Publish, Ready, Done
    <2>2. op \in ToSet(plan.creates) \cup ToSet(plan.moves)
      BY <1>5, <2>1 DEF Accounted
    <2>3. op \notin ToSet(plan.copies) /\ op \in Operations(plan)
      BY <2>2, ClassesApart DEF Operations
    <2> QED
      BY <1>1, <1>2, <1>4, <1>5, <2>1, <2>2, <2>3 DEF Accounted, Early
  <1>9. CASE CopyPublish
    <2>1. /\ pc = "copy" /\ applied' = applied \cup {op}
      BY <1>3, <1>9 DEF CopyPublish, LostInv, TreesOwned
    <2>2. IsInjective(todo') /\ op \notin ToSet(todo')
      BY <1>3, <1>4, <2>1, PlanLists, TailOnce DEF Accounted
    <2>3. op \in Operations(plan)
      BY <1>5, <2>1 DEF StagingInv, CopiesLeft, Operations
    <2> QED
      BY <1>1, <1>2, <1>4, <1>5, <2>1, <2>2, <2>3 DEF Accounted, Early
  <1> QED
    BY <1>6, <1>7, <1>8, <1>9

-----------------------------------------------------------------------------
(* Steps that leave the disk alone                                           *)

\* Steps that leave the disk, what is in use and what was applied alone.
LEMMA SameDisk ==
    ASSUME LostInv, CalmInv, UNCHANGED <<plan, place, using, applied, gone>>,
           ToSet(staged') \subseteq ToSet(staged),
           Early' => Early /\ staged' = staged,
           pc' = "stage" => pc = "stage" \/ using = NoTree,
           pc' = "copy" => pc = "copy" \/ using = NoTree,
           pc = "copy" => pc' \in {"copy", "done"},
           pc' # "done" => pc # "done",
           pc' \in {"finish", "copy"} =>
               pc \in {"finish", "copy"} \/ (KeptStill' /\ UntakenStill'),
           Accounted'
    PROVE  CalmInv'
  <1>1. Well(place)' /\ (gone \cap Originals = {})'
    BY DEF CalmInv
  <1>2. StagedOf'
    BY DEF CalmInv, StagedOf
  <1>3. TreeHolds'
    BY DEF CalmInv, TreeHolds, InTree
  <1>4. CopyOf'
    BY DEF CalmInv, CopyOf
  <1>5. CopyTrees'
    BY DEF CalmInv, CopyTrees
  <1>6. MadeBySteps'
    BY DEF CalmInv, MadeBySteps
  <1>7. KeptStill'
    BY DEF CalmInv, KeptStill, Kept
  <1>8. UntakenStill'
    <2>1. \A e : Untaken(e)' <=> Untaken(e)
      BY DEF Untaken, Operations
    <2> QED
      BY <2>1 DEF CalmInv, UntakenStill
  <1>9. Effects'
    <2>1. \A op : Effect(op)' <=> Effect(op)
      <3> SUFFICES ASSUME NEW op PROVE Effect(op)' <=> Effect(op)
        OBVIOUS
      <3>1. \A path : At(path)' = At(path)
        BY DEF At, Named, Parent
      <3> QED
        BY <3>1 DEF Effect
    <2> QED
      BY <2>1 DEF CalmInv, Effects
  <1> QED
    BY <1>1, <1>2, <1>3, <1>4, <1>5, <1>6, <1>7, <1>8, <1>9 DEF CalmInv

\* Until the deletes are done a path of the listing leads to its own original.
LEMMA EarlyFound ==
    ASSUME EarlyDisk, Early, Well(place), NEW e \in Originals,
           NEW x \in At(PathOf(e))
    PROVE  x = e /\ Unmoved(e)
  <1>1. /\ x \in DOMAIN place /\ place[x].name = Layout[e].name
        /\ place[x].name # NoName
    BY Looked, ListingFacts
  <1>2. \A f, g \in Originals :
           Layout[f].dir = Layout[g].dir /\ Layout[f].name = Layout[g].name
           => f = g
    BY PlanConstants, Zenon
  <1>3. ASSUME NEW y \in DOMAIN place, place[y].dir = Root, place[y].name # NoName
        PROVE  y \in Originals /\ place[y] = Layout[y]
    <2>1. y.made # "other"
      BY DEF Well
    <2> QED
      BY <1>3, <2>1, InRoot
  <1>4. CASE e \in Listed
    <2>1. place[x].dir = Root /\ Layout[e].dir = Root
      BY <1>4, Looked, ListingFacts
    <2>2. x \in Originals /\ place[x] = Layout[x]
      BY <1>1, <1>3, <2>1
    <2> QED
      BY <1>1, <1>2, <2>1, <2>2 DEF Unmoved
  <1>5. CASE e \notin Listed
    <2>1. PICK y : y = Layout[e].dir
      OBVIOUS
    <2>2. PICK d \in DOMAIN place :
            /\ place[d].dir = Root /\ place[d].kind = "dir"
            /\ place[d].name = Layout[y].name /\ place[x].dir = d
      BY <1>5, <2>1, Looked
    <2>3. y \in Originals /\ Layout[y].dir = Root
      BY <1>5, <2>1, ListingFacts DEF Listed
    <2>4. place[d].name # NoName
      BY <2>2, <2>3, ListingFacts
    <2>5. d \in Originals /\ place[d] = Layout[d]
      BY <1>3, <2>2, <2>4
    <2>6. d = y
      BY <1>2, <2>2, <2>3, <2>5
    <2>7. x \in Originals /\ place[x] = Layout[x]
      <3>1. d.made = "original" /\ d # Root
        BY <2>5, ListingFacts
      <3>2. ~InTree(x) /\ place[x].dir # Root /\ x.made # "other"
        BY <1>1, <2>2, <3>1 DEF InTree, Well
      <3> QED
        BY <1>1, <3>2 DEF EarlyDisk
    <2>8. x = e
      BY <1>1, <1>2, <2>1, <2>2, <2>6, <2>7
    <2> QED
      BY <1>1, <2>7, <2>8 DEF Unmoved
  <1> QED
    BY <1>4, <1>5

\* What holds a kept original is kept.
LEMMA KeptAbove ==
    ASSUME Shaped, NEW e \in Originals, e \notin Listed, Kept(e)
    PROVE  Layout[e].dir \in Originals /\ Kept(Layout[e].dir)
  <1>1. PICK y : y = Layout[e].dir
    OBVIOUS
  <1>2. PICK a, b : a = Layout[y].name /\ b = Layout[e].name
    OBVIOUS
  <1>3. y \in Listed /\ y \in Originals
    BY <1>1, ListingFacts DEF Listed
  <1>4. PathOf(y) = <<a>> /\ PathOf(e) = <<a, b>>
    BY <1>1, <1>2, <1>3, ListingFacts
  <1>5. ASSUME NEW op \in ToSet(plan.moves) \cup ToSet(plan.deletes)
        PROVE  ~StartsWith(PathOf(y), op.from)
    <2>1. PICK f \in Originals : op.from = PathOf(f)
      BY <1>5 DEF Shaped, MovesShaped, DeletesShaped, Listed
    <2>2. ~IsPrefix(op.from, <<a, b>>)
      BY <1>4 DEF Kept, StartsWith
    <2>3. CASE f \in Listed
      <3>1. PICK c : op.from = <<c>>
        BY <2>1, <2>3, ListingFacts
      <3>2. ~(IsPrefix(<<c>>, <<a>>) /\ ~IsPrefix(<<c>>, <<a, b>>))
        BY PathPrefixes
      <3> QED
        BY <1>4, <2>2, <3>1, <3>2 DEF StartsWith
    <2>4. CASE f \notin Listed
      <3>1. PICK c, g : op.from = <<c, g>>
        BY <2>1, <2>4, ListingFacts
      <3>2. ~IsPrefix(<<c, g>>, <<a>>)
        BY PathPrefixes
      <3> QED
        BY <1>4, <3>1, <3>2 DEF StartsWith
    <2> QED
      BY <2>3, <2>4
  <1> QED
    BY <1>1, <1>3, <1>5 DEF Kept

\* A path starts with itself.
LEMMA OwnStart ==
    ASSUME NEW e \in Originals
    PROVE  StartsWith(PathOf(e), PathOf(e))
  <1>1. CASE e \in Listed
    <2>1. PICK a : PathOf(e) = <<a>>
      BY <1>1, ListingFacts
    <2>2. IsPrefix(<<a>>, <<a>>)
      BY PathPrefixes
    <2> QED
      BY <2>1, <2>2 DEF StartsWith
  <1>2. CASE e \notin Listed
    <2>1. PICK a, b : PathOf(e) = <<a, b>>
      BY <1>2, ListingFacts
    <2>2. IsPrefix(<<a, b>>, <<a, b>>)
      BY PathPrefixes
    <2> QED
      BY <2>1, <2>2 DEF StartsWith
  <1> QED
    BY <1>1, <1>2

\* Until the deletes are done, what is kept is in its place.
LEMMA KeptUnmoved ==
    ASSUME LostInv, StagingInv, Shaped, CalmInv, Early,
           NEW e \in Originals, Kept(e)
    PROVE  Unmoved(e)
  <1>1. e \notin Doomed
    BY DEF Doomed, Kept
  <1>2. e \in DOMAIN place
    BY <1>1 DEF LostInv, NothingLost, CalmInv
  <1>3. place[e] = Layout[e] \/ InTree(e)
    BY <1>2, ListingFacts DEF LostInv, EarlyDisk
  <1>4. ASSUME InTree(e)
        PROVE  FALSE
    <2>1. PICK s \in ToSet(staged) : s.entry = e
      BY <1>2, <1>4 DEF CalmInv, TreeHolds
    <2>2. s.op \in ToSet(plan.moves) /\ s.op.of = {e}
      BY <2>1 DEF StagingInv, StagedOnce, CalmInv, StagedOf, TakenOf
    <2>3. s.op.from = PathOf(e)
      BY <2>2 DEF Shaped, MovesShaped
    <2> QED
      BY <2>2, <2>3, OwnStart DEF Kept
  <1> QED
    BY <1>2, <1>3, <1>4 DEF Unmoved

\* So it is when the deletes are done.
LEMMA DeletedKeeps ==
    ASSUME LostInv, StagingInv, Shaped, CalmInv, Early,
           UNCHANGED <<plan, place>>
    PROVE  KeptStill' /\ UntakenStill'
  <1>1. ASSUME NEW e \in Originals, Kept(e)
        PROVE  Leads(place, PathOf(e), e)
    <2>1. Unmoved(e) /\ IsPath(PathOf(e))
      BY <1>1, KeptUnmoved, ReportPaths
    <2>2. OnPath(place, e, PathOf(e))
      <3>1. CASE e \in Listed
        <4>1. PICK a : a = Layout[e].name
          OBVIOUS
        <4>2. PathOf(e) = <<a>> /\ Layout[e].dir = Root
          BY <3>1, <4>1, ListingFacts
        <4>3. Len(<<a>>) = 1 /\ Last(<<a>>) = a
          BY DEF Last
        <4> QED
          BY <2>1, <4>1, <4>2, <4>3 DEF OnPath, Unmoved
      <3>2. CASE e \notin Listed
        <4>1. PICK y : y = Layout[e].dir
          OBVIOUS
        <4>2. PICK a, b : a = Layout[y].name /\ b = Layout[e].name
          OBVIOUS
        <4>3. PathOf(e) = <<a, b>> /\ Layout[y].kind = "dir" /\ Layout[y].dir = Root
          BY <3>2, <4>1, <4>2, ListingFacts DEF Listed
        <4>4. Unmoved(y)
          BY <1>1, <3>2, <4>1, KeptAbove, KeptUnmoved
        <4>5. Len(<<a, b>>) = 2 /\ Last(<<a, b>>) = b /\ <<a, b>>[1] = a
          BY DEF Last
        <4> QED
          BY <2>1, <4>1, <4>2, <4>3, <4>4, <4>5 DEF OnPath, Unmoved
      <3> QED
        BY <3>1, <3>2
    <2>3. ASSUME NEW y, OnPath(place, y, PathOf(e))
          PROVE  y = e
      BY <2>1, <2>3, AtPath, EarlyFound DEF LostInv, CalmInv
    <2> QED
      BY <2>2, <2>3 DEF Leads
  <1>2. KeptStill'
    BY <1>1 DEF KeptStill, Kept
  <1>3. ASSUME NEW e \in Listed, NEW x \in DOMAIN place,
               place[x].dir = Root, place[x].name = Layout[e].name
        PROVE  x = e
    <2>1. e \in Originals /\ Layout[e].dir = Root
      BY DEF Listed
    <2>2. place[x].name # NoName /\ x.made # "other"
      BY <1>3, <2>1, ListingFacts DEF CalmInv, Well
    <2>3. x \in Originals /\ place[x] = Layout[x]
      BY <1>3, <2>2, InRoot DEF LostInv
    <2>4. \A f, g \in Originals :
             Layout[f].dir = Layout[g].dir /\ Layout[f].name = Layout[g].name
             => f = g
      BY PlanConstants, Zenon
    <2> QED
      BY <1>3, <2>1, <2>3, <2>4
  <1>4. UntakenStill'
    BY <1>3 DEF UntakenStill
  <1> QED
    BY <1>2, <1>4

\* Nothing is in use in the other phases.
LEMMA UsingWhere ==
    ASSUME LostInv, pc \notin {"stage", "copy"}
    PROVE  using = NoTree
  BY DEF LostInv, TreesOwned

\* A refusal, a failure that touches nothing, and a failed restore.
LEMMA StopsCalm ==
    ASSUME LostInv, Shaped, CalmInv,
           \/ Refuse \/ StageAllocateFails \/ CreateFails \/ PublishFails
           \/ NoParent \/ CopyEntryFails \/ RolledBack \/ RestoreFails
    PROVE  CalmInv'
  <1>1. /\ UNCHANGED <<plan, place, using, applied, gone>>
        /\ \/ pc' = "rollback" /\ pc \in {"stage", "finish"}
           \/ pc' = "done" /\ outcome' = "failed"
           \/ UNCHANGED <<pc, todo, deferred, outcome>> /\ pc = "rollback"
    BY DEF Refuse, StageAllocateFails, CreateFails, PublishFails, NoParent,
       CopyEntryFails, RolledBack, RestoreFails, Stop, Fail, Ready
  <1>2. ToSet(staged') \subseteq ToSet(staged)
    <2>1. CASE RestoreFails
      <3>1. staged # <<>> /\ staged' = RestRestored
        BY <2>1 DEF RestoreFails
      <3> QED
        BY <3>1, PlanLists, RestFormed
    <2>2. CASE ~RestoreFails
      <3>1. staged' = staged
        BY <2>2 DEF Refuse, StageAllocateFails, CreateFails, PublishFails,
           NoParent, CopyEntryFails, RolledBack
      <3> QED
        BY <3>1
    <2> QED
      BY <2>1, <2>2
  <1>3. Accounted'
    BY <1>1, AccountSame DEF CalmInv
  <1>4. /\ ~Early' /\ pc' \in {"rollback", "done"}
        /\ pc = "copy" => pc' = "done"
        /\ pc' # "done" => pc # "done"
    BY <1>1 DEF Early
  <1> QED
    BY <1>1, <1>2, <1>3, <1>4, SameDisk

\* One phase after the other.
LEMMA PhasesCalm ==
    ASSUME LostInv, StagingInv, Shaped, CalmInv,
           Verify \/ Staged \/ Deleted \/ Finalized \/ Complete \/ NextPass
    PROVE  CalmInv'
  <1>1. UNCHANGED <<plan, place, using, applied, gone, staged>>
    BY DEF Verify, Staged, Deleted, Finalized, Complete, NextPass
  <1>2. Accounted'
    BY AccountPhases DEF CalmInv
  <1>3. \/ pc = "built" /\ pc' = "stage"
        \/ pc = "stage" /\ pc' = "delete"
        \/ pc = "delete" /\ pc' = "finish"
        \/ pc = "finish" /\ pc' \in {"finish", "copy"}
        \/ pc = "copy" /\ pc' = "done"
    BY DEF Verify, Staged, Deleted, Finalized, Complete, NextPass, Stop
  <1>4. pc \notin {"stage", "copy"} => using = NoTree
    BY UsingWhere
  <1>5. pc = "delete" => KeptStill' /\ UntakenStill'
    BY <1>1, DeletedKeeps DEF Early
  <1> QED
    BY <1>1, <1>2, <1>3, <1>4, <1>5, SameDisk DEF Early

\* No step.
LEMMA StutterCalm ==
    ASSUME LostInv, Shaped, CalmInv, UNCHANGED vars
    PROVE  CalmInv'
  <1>1. UNCHANGED <<plan, place, pc, todo, deferred, staged, using, applied,
                    outcome, gone>>
    BY DEF vars
  <1>2. Accounted'
    BY <1>1, AccountSame DEF CalmInv
  <1>3. KeptStill' /\ UntakenStill'
    <2>1. \A e : Untaken(e)' <=> Untaken(e)
      BY <1>1 DEF Untaken, Operations
    <2> QED
      BY <1>1, <2>1 DEF CalmInv, KeptStill, UntakenStill, Kept
  <1> QED
    BY <1>1, <1>2, <1>3, SameDisk DEF Early

\* A pending step is deferred.
LEMMA DeferCalm ==
    ASSUME LostInv, StagingInv, Shaped, CalmInv, Defer
    PROVE  CalmInv'
  <1>1. /\ UNCHANGED <<plan, place, using, applied, gone, staged, pc>>
        /\ pc = "finish"
    BY DEF Defer
  <1>2. Accounted'
    BY AccountTaken DEF CalmInv
  <1> QED
    BY <1>1, <1>2, SameDisk DEF Early

-----------------------------------------------------------------------------
(* Steps until the deletes are done                                          *)

\* A disk with fewer entries, or with a staging directory more.
LEMMA FewerCalm ==
    ASSUME LostInv, Shaped, CalmInv, UNCHANGED plan, Well(place)',
           NEW t, t.made = "tree",
           DOMAIN place' \subseteq DOMAIN place \cup {t},
           \A x \in DOMAIN place' : x # t => place'[x] = place[x],
           t \in DOMAIN place' /\ pc' # "done" =>
               \/ t \in DOMAIN place /\ place'[t] = place[t]
               \/ place'[t].dir = Root,
           applied \subseteq applied',
           Early, pc' \notin {"finish", "copy"},
           staged' = staged, pc' = "stage" /\ using' # NoTree => TakenOf(using'),
           Accounted', Effects', gone' \cap Originals = {}
    PROVE  CalmInv'
  <1>1. pc' # "done" =>
           \A x \in DOMAIN place' : place'[x].dir.made = "tree" =>
              x \in DOMAIN place /\ place'[x] = place[x]
    BY NoSuchMade
  <1>2. StagedOf'
    BY DEF CalmInv, StagedOf, TakenOf
  <1>3. TreeHolds'
    BY <1>1 DEF CalmInv, TreeHolds, InTree, Early
  <1>4. CopyOf' /\ KeptStill' /\ UntakenStill'
    BY DEF CopyOf, KeptStill, UntakenStill
  <1>5. CopyTrees'
    BY <1>1 DEF CalmInv, CopyTrees, Early
  <1>6. MadeBySteps'
    <2>1. \A x \in DOMAIN place' : x.made \in {"new", "copy"} => x \in DOMAIN place
      OBVIOUS
    <2> QED
      BY <2>1 DEF CalmInv, MadeBySteps, Early
  <1> QED
    BY <1>2, <1>3, <1>4, <1>5, <1>6 DEF CalmInv

\* The disk of a plan under way in its early phases, and what has been applied.
LEMMA EarlyEffects ==
    ASSUME Shaped, CalmInv, Early, DOMAIN place' \cap Originals \subseteq DOMAIN place
    PROVE  \A op \in applied : Effect(op)'
  <1>1. ASSUME NEW op \in applied
        PROVE  Effect(op)'
    <2>1. op \in ToSet(plan.deletes) /\ Effect(op)
      BY <1>1 DEF CalmInv, Accounted, Effects, Early
    <2>2. PICK e \in Originals : op.do = "delete" /\ op.of = {e}
      BY <2>1 DEF Shaped, DeletesShaped, Listed
    <2> QED
      BY <2>1, <2>2, EffectOfDelete
  <1> QED
    BY <1>1

\* A probe stays in the root, or in a directory of the plan.
LEMMA ProbeCalm ==
    ASSUME LostInv, Shaped, CalmInv, ProbeRetained
    PROVE  CalmInv'
  <1>1. PICK t : t = Tree("probe", <<>>)
    OBVIOUS
  <1>2. PICK d : place' = With(t, d, NoName, "dir")
    BY <1>1 DEF ProbeRetained
  <1>3. /\ UNCHANGED <<plan, staged, using, applied, gone>>
        /\ pc = "built" /\ pc' = "done" /\ outcome' = "failed"
    BY DEF ProbeRetained, Stop
  <1>4. /\ DOMAIN place' = DOMAIN place \cup {t}
        /\ place'[t] = [dir |-> d, name |-> NoName, kind |-> "dir"]
        /\ \A x \in DOMAIN place : x # t => place'[x] = place[x]
    BY <1>2 DEF With
  <1>5. t.made = "tree"
    BY <1>1 DEF Tree
  <1>6. Well(place)'
    BY <1>4, <1>5, TreeWell DEF CalmInv
  <1>7. Accounted'
    BY <1>3, AccountSame DEF CalmInv
  <1>8. DOMAIN place' \cap Originals \subseteq DOMAIN place
    BY <1>4, <1>5, ListingFacts
  <1>9. Effects'
    BY <1>3, <1>8, EarlyEffects DEF Effects, Early
  <1> QED
    BY <1>3, <1>4, <1>5, <1>6, <1>7, <1>9, FewerCalm DEF Early, CalmInv

\* The directory in which an entry is about to be staged.
LEMMA AllocateCalm ==
    ASSUME LostInv, Shaped, CalmInv, StageAllocate
    PROVE  CalmInv'
  <1>1. PICK t, op : t = Tree("move", Head(todo).to) /\ op = Head(todo)
    OBVIOUS
  <1>2. PICK x \in At(op.from) : using' = [op |-> op, entry |-> x, tree |-> t]
    BY <1>1 DEF StageAllocate
  <1>3. /\ UNCHANGED <<plan, pc, staged, applied, gone, todo, deferred, outcome>>
        /\ pc = "stage" /\ todo # <<>> /\ place' = With(t, Root, NoName, "dir")
    BY <1>1 DEF StageAllocate
  <1>4. /\ DOMAIN place' = DOMAIN place \cup {t}
        /\ place'[t] = [dir |-> Root, name |-> NoName, kind |-> "dir"]
        /\ \A y \in DOMAIN place : y # t => place'[y] = place[y]
    BY <1>3 DEF With
  <1>5. t.made = "tree" /\ t.use = "move"
    BY <1>1 DEF Tree
  <1>6. Well(place)'
    BY <1>4, <1>5, TreeWell DEF CalmInv
  <1>7. Accounted'
    BY <1>3, AccountSame DEF CalmInv
  <1>8. DOMAIN place' \cap Originals \subseteq DOMAIN place
    BY <1>4, <1>5, ListingFacts
  <1>9. Effects'
    BY <1>3, <1>8, EarlyEffects DEF Effects, Early
  <1>10. TakenOf(using')
    <2>1. op \in ToSet(plan.moves)
      BY <1>1, <1>3, PlanLists, ListSteps DEF LostInv, StepsLeft
    <2>2. PICK e \in Originals : op.of = {e} /\ op.from = PathOf(e)
      BY <2>1 DEF Shaped, MovesShaped
    <2>3. x = e
      BY <1>2, <1>3, <2>2, EarlyFound DEF LostInv, CalmInv, Early
    <2> QED
      BY <1>2, <1>5, <2>2, <2>3 DEF TakenOf
  <1> QED
    BY <1>3, <1>4, <1>5, <1>6, <1>7, <1>9, <1>10, FewerCalm DEF Early, CalmInv

\* It is cleaned up when the entry cannot be taken.
LEMMA StageRenameFailsCalm ==
    ASSUME LostInv, Shaped, CalmInv, StageRenameFails
    PROVE  CalmInv'
  <1>1. PICK t : t = using.tree
    OBVIOUS
  <1>2. PICK c \in Cleanups(place, t, {}, "staging") : place' = c.place
    BY <1>1 DEF StageRenameFails
  <1>3. /\ UNCHANGED <<plan, staged, applied, gone>> /\ using' = NoTree
        /\ pc = "stage" /\ pc' = "rollback" /\ using # NoTree
    BY DEF StageRenameFails, Fail
  <1>4. t.made = "tree" /\ Formed(place)
    BY <1>1, <1>3 DEF LostInv, TreesOwned
  <1>5. /\ Well(place)' /\ DOMAIN place' \subseteq DOMAIN place
        /\ \A x \in DOMAIN place' : place'[x] = place[x]
    BY <1>2, <1>4, CleanupSame DEF CalmInv
  <1>6. Accounted'
    BY <1>3, AccountSame DEF CalmInv
  <1>7. Effects'
    BY <1>3, <1>5, EarlyEffects DEF Effects, Early
  <1> QED
    BY <1>3, <1>4, <1>5, <1>6, <1>7, FewerCalm DEF Early, CalmInv

\* What is staged is the entry the step is of.
LEMMA RenameCalm ==
    ASSUME LostInv, StagingInv, Shaped, CalmInv, StageRename
    PROVE  CalmInv'
  <1>1. PICK x, t : /\ x \in At(using.op.from) /\ t = using.tree
                    /\ place' \in RenameNoReplace(x, t, Payload)
    BY DEF StageRename
  <1>2. /\ UNCHANGED <<plan, pc, applied, gone, deferred, outcome>>
        /\ pc = "stage" /\ using # NoTree /\ using' = NoTree
        /\ staged' = Append(staged, using) /\ todo' = Tail(todo)
    BY DEF StageRename
  <1>3. /\ TakenOf(using) /\ t.made = "tree" /\ t.use = "move"
        /\ using.op = Head(todo) /\ todo # <<>>
    BY <1>1, <1>2 DEF CalmInv, StagedOf, TakenOf, LostInv, TreesOwned
  <1>4. using.op \in ToSet(plan.moves)
    BY <1>2, <1>3, PlanLists, ListSteps DEF LostInv, StepsLeft
  <1>5. using.entry \in Originals /\ using.op.from = PathOf(using.entry)
    BY <1>3, <1>4 DEF TakenOf, Shaped, MovesShaped
  <1>6. x = using.entry
    BY <1>1, <1>2, <1>5, EarlyFound DEF LostInv, CalmInv, Early
  <1>7. x \in DOMAIN place /\ x.made = "original"
    BY <1>1, <1>5, <1>6, ListingFacts DEF At, Named
  <1>8. place' = [place EXCEPT ![x] = [dir |-> t, name |-> Payload, kind |-> @.kind]]
    BY <1>1 DEF RenameNoReplace
  <1>9. /\ DOMAIN place' = DOMAIN place
        /\ place'[x] = [dir |-> t, name |-> Payload, kind |-> place[x].kind]
        /\ \A y \in DOMAIN place : y # x => place'[y] = place[y]
    BY <1>7, <1>8
  <1>10. t # Root
    BY <1>3, NoSuchMade
  <1>11. Well(place)'
    BY <1>7, <1>9, <1>10, TakenWell DEF CalmInv
  <1>12. ToSet(staged') = ToSet(staged) \cup {using}
    BY <1>2, PlanLists, ListSteps
  <1>13. Accounted'
    <2>1. Operations(plan)' = Operations(plan)
      BY <1>2 DEF Operations
    <2> QED
      BY <1>2, <2>1 DEF CalmInv, Accounted, Early
  <1>14. StagedOf'
    BY <1>2, <1>3, <1>12 DEF CalmInv, StagedOf, TakenOf
  <1>15. TreeHolds'
    BY <1>2, <1>6, <1>9, <1>12 DEF CalmInv, TreeHolds, InTree, Early
  <1>16. CopyOf' /\ KeptStill' /\ UntakenStill'
    BY <1>2 DEF CopyOf, KeptStill, UntakenStill
  <1>17. CopyTrees'
    BY <1>2, <1>3, <1>9 DEF CalmInv, CopyTrees
  <1>18. MadeBySteps'
    BY <1>2, <1>9 DEF CalmInv, MadeBySteps
  <1>19. Effects'
    BY <1>2, <1>9, EarlyEffects DEF Effects, Early
  <1> QED
    BY <1>2, <1>11, <1>13, <1>14, <1>15, <1>16, <1>17, <1>18, <1>19 DEF CalmInv

\* What is asked to be below something includes it.
LEMMA BelowItself ==
    ASSUME NEW p, NEW S, NEW x \in DOMAIN p, x \in S
    PROVE  x \in Below(p, S)
  <1>1. \A X : X \subseteq WithHolders(p, X)
    BY DEF WithHolders
  <1>2. ASSUME NEW X
        PROVE  X \subseteq ThreeUp(p, X)
    <2>1. PICK Y : Y = WithHolders(p, X)
      OBVIOUS
    <2>2. PICK Z : Z = WithHolders(p, Y)
      OBVIOUS
    <2>3. X \subseteq Y /\ Y \subseteq Z /\ Z \subseteq WithHolders(p, Z)
      BY <1>1, <2>1, <2>2
    <2> QED
      BY <2>1, <2>2, <2>3 DEF ThreeUp
  <1>3. PICK Y : Y = ThreeUp(p, {x})
    OBVIOUS
  <1>4. x \in Y /\ Y \subseteq ThreeUp(p, Y)
    BY <1>2, <1>3
  <1> QED
    BY <1>3, <1>4 DEF Below

\* A delete takes the original that the plan deletes.
LEMMA DeleteCalm ==
    ASSUME LostInv, StagingInv, Shaped, CalmInv, Delete
    PROVE  CalmInv'
  <1>1. PICK op : op = Head(todo)
    OBVIOUS
  <1>2. PICK lost : lost = Below(place, At(op.from))
    OBVIOUS
  <1>3. /\ UNCHANGED <<plan, pc, staged, using>> /\ pc = "delete" /\ todo # <<>>
        /\ At(op.from) # {} /\ place' = Without(place, lost)
        /\ gone' = gone \cup (lost \ Originals)
        /\ applied' = applied \cup {op}
    BY <1>1, <1>2 DEF Delete, Lose
  <1>4. /\ DOMAIN place' = DOMAIN place \ lost
        /\ \A x \in DOMAIN place' : place'[x] = place[x]
    BY <1>3 DEF Without
  <1>5. Well(place)'
    BY <1>4, FewerWell DEF CalmInv
  <1>6. Accounted'
    BY AccountTaken DEF CalmInv
  <1>7. op \in ToSet(plan.deletes)
    BY <1>1, <1>3, PlanLists, ListSteps DEF LostInv, StepsLeft
  <1>8. PICK e \in Originals : op.do = "delete" /\ op.of = {e} /\ op.from = PathOf(e)
    BY <1>7 DEF Shaped, DeletesShaped, Listed
  <1>9. Effect(op)'
    <2>1. PICK x : x \in At(op.from)
      BY <1>3
    <2>2. x = e /\ x \in DOMAIN place
      BY <1>3, <1>8, <2>1, EarlyFound DEF LostInv, CalmInv, Early, Unmoved
    <2>3. e \in lost
      BY <1>2, <2>1, <2>2, BelowItself
    <2> QED
      BY <1>4, <1>8, <2>3, EffectOfDelete
  <1>10. Effects'
    BY <1>3, <1>4, <1>9, EarlyEffects DEF Effects, Early
  <1>11. gone' \cap Originals = {}
    BY <1>3 DEF CalmInv
  <1>12. PICK t : t = Tree("probe", <<>>)
    OBVIOUS
  <1>13. t.made = "tree"
    BY <1>12 DEF Tree
  <1> QED
    BY <1>3, <1>4, <1>5, <1>6, <1>10, <1>11, <1>13, FewerCalm DEF Early

\* A delete that stops halfway is not applied.
LEMMA DeleteFailsCalm ==
    ASSUME LostInv, Shaped, CalmInv, DeleteFails
    PROVE  CalmInv'
  <1>1. PICK lost : place' = Without(place, lost) /\ Lose(lost)
    BY DEF DeleteFails
  <1>2. /\ UNCHANGED <<plan, staged, using, applied>>
        /\ pc = "delete" /\ pc' = "rollback"
        /\ gone' = gone \cup (lost \ Originals)
    BY <1>1 DEF DeleteFails, Fail, Lose
  <1>3. /\ DOMAIN place' \subseteq DOMAIN place
        /\ \A x \in DOMAIN place' : place'[x] = place[x]
    BY <1>1 DEF Without
  <1>4. Well(place)'
    BY <1>3, FewerWell DEF CalmInv
  <1>5. Accounted'
    BY <1>2, AccountSame DEF CalmInv
  <1>6. Effects'
    BY <1>2, <1>3, EarlyEffects DEF Effects, Early
  <1>7. gone' \cap Originals = {}
    BY <1>2 DEF CalmInv
  <1>8. PICK t : t = Tree("probe", <<>>)
    OBVIOUS
  <1>9. t.made = "tree"
    BY <1>8 DEF Tree
  <1> QED
    BY <1>2, <1>3, <1>4, <1>5, <1>6, <1>7, <1>9, FewerCalm DEF Early

-----------------------------------------------------------------------------
(* Steps after the deletes                                                   *)

\* What a path leads to and where it may end.
LEMMA OneName ==
    ASSUME NEW path \in Paths, Len(path) = 1
    PROVE  path = <<Last(path)>>
  <1>1. path \in Seq(Nat \ {Payload})
    BY PlanConstants
  <1> QED
    BY <1>1 DEF Last

\* A path ends in the root or in a directory of the user.
LEMMA ParentMade ==
    ASSUME NEW path, IsPath(path), NEW d \in Parent(path), Well(place)
    PROVE  /\ d.made # "tree"
           /\ d = Root => Len(path) = 1
  <1>1. CASE Len(path) = 1
    BY <1>1, PathParent, NoSuchMade
  <1>2. CASE Len(path) = 2
    <2>1. d \in DOMAIN place /\ place[d].name = path[1] /\ path[1] \in Nat
      BY <1>2, PathParent DEF IsPath
    <2>2. d.made \in {"original", "tree", "new", "copy"}
      BY <2>1 DEF Well
    <2>3. d.made # "tree"
      BY <2>1, NoSuchMade DEF Well
    <2> QED
      BY <2>2, <2>3, NoSuchMade
  <1> QED
    BY <1>1, <1>2 DEF IsPath

\* A disk on which paths lead where they led.
LEMMA LateCalm ==
    ASSUME LostInv, Shaped, CalmInv, UNCHANGED <<plan, gone>>,
           Well(place)', SameOn(place, place'),
           pc \in {"finish", "copy", "rollback"}, pc' \in {pc, "done"},
           DOMAIN place' \cap Originals \subseteq DOMAIN place,
           \A op \in applied' : op \in applied \/ Effect(op)',
           pc' \in {"finish", "copy"} =>
              \A x \in DOMAIN place' :
                 place'[x].dir = Root /\ place'[x].name \in Nat =>
                    \/ x \in DOMAIN place /\ place'[x] = place[x]
                    \/ \E op \in Operations(plan) :
                          /\ op.to \in Paths /\ Len(op.to) = 1
                          /\ Last(op.to) = place'[x].name,
           Accounted', StagedOf', CopyOf', CopyTrees', MadeBySteps'
    PROVE  CalmInv'
  <1>1. TreeHolds'
    BY DEF TreeHolds, Early
  <1>2. KeptStill'
    <2>1. ASSUME NEW e \in Originals, Kept(e), pc \in {"finish", "copy"}
          PROVE  Leads(place', PathOf(e), e)
      BY <2>1, ReportPaths DEF CalmInv, KeptStill, SameOn
    <2> QED
      BY <2>1 DEF KeptStill, Kept
  <1>3. UntakenStill'
    <2>1. ASSUME NEW e \in Listed, Untaken(e), pc' \in {"finish", "copy"},
                 NEW x \in DOMAIN place', place'[x].dir = Root,
                 place'[x].name = Layout[e].name
          PROVE  x = e
      <3>1. e \in Originals
        BY DEF Listed
      <3>2. PICK a : a = Layout[e].name
        OBVIOUS
      <3>3. a \in Nat /\ PathOf(e) = <<a>>
        BY <3>1, <3>2, ListingFacts
      <3>4. CASE x \in DOMAIN place /\ place'[x] = place[x]
        BY <2>1, <3>4 DEF CalmInv, UntakenStill
      <3>5. CASE \E op \in Operations(plan) :
                    /\ op.to \in Paths /\ Len(op.to) = 1
                    /\ Last(op.to) = place'[x].name
        <4>1. PICK op \in Operations(plan) :
                 /\ op.to \in Paths /\ Len(op.to) = 1
                 /\ Last(op.to) = place'[x].name
          BY <3>5
        <4>2. op.to = <<a>>
          BY <2>1, <3>2, <4>1, OneName
        <4> QED
          BY <2>1, <3>3, <4>2 DEF Untaken
      <3> QED
        BY <2>1, <3>2, <3>3, <3>4, <3>5
    <2>2. \A e : Untaken(e)' <=> Untaken(e)
      BY DEF Untaken, Operations
    <2> QED
      BY <2>1, <2>2 DEF UntakenStill
  <1>4. Effects'
    <2>1. \A op \in applied : Effect(op)'
      BY EffectsStay DEF CalmInv
    <2> QED
      BY <2>1 DEF Effects
  <1>5. (gone \cap Originals = {})'
    BY DEF CalmInv
  <1> QED
    BY <1>1, <1>2, <1>3, <1>4, <1>5 DEF CalmInv

\* What is made new was not there.
LEMMA CreateCalm ==
    ASSUME LostInv, StagingInv, Shaped, CalmInv, Create
    PROVE  CalmInv'
  <1>1. PICK op : op = Head(todo)
    OBVIOUS
  <1>2. PICK z, n, k, path : /\ z = New(path) /\ n = Last(path) /\ k = op.kind
                             /\ path = op.to
    OBVIOUS
  <1>3. PICK d \in Parent(path) : place' = With(z, d, n, k)
    BY <1>1, <1>2 DEF Create
  <1>4. /\ UNCHANGED <<plan, gone, pc, staged, using>> /\ pc = "finish"
        /\ todo # <<>> /\ op.do = "create" /\ At(path) = {}
        /\ applied' = applied \cup {op}
    BY <1>1, <1>2 DEF Create, Ready, Done
  <1>5. op \in ToSet(plan.creates)
    <2>1. op \in ToSet(todo)
      BY <1>1, <1>4, PlanLists, ListSteps
    <2> QED
      BY <1>4, <2>1 DEF CalmInv, Accounted, Shaped, MovesShaped
  <1>6. op \in Operations(plan) /\ path \in Paths /\ IsPath(path)
    BY <1>2, <1>5, ReportPaths DEF Shaped, CreatesShaped, Operations
  <1>7. z.made = "new" /\ z.path = path
    BY <1>2 DEF New
  <1>8. z \notin DOMAIN place
    <2>1. SUFFICES ASSUME z \in DOMAIN place PROVE FALSE
      OBVIOUS
    <2>2. PICK o \in applied : o.do = "create" /\ o.to = path
      BY <1>7, <2>1 DEF CalmInv, MadeBySteps
    <2>3. Effect(o)
      BY DEF CalmInv, Effects
    <2>4. At(path) = {New(path)}
      BY <2>2, <2>3 DEF Effect
    <2> QED
      BY <1>4, <2>4
  <1>9. \A x \in DOMAIN place : ~(place[x].dir = d /\ place[x].name = n)
    <2>1. \A x : x \notin Named(d, n)
      BY <1>2, <1>4, Zenon DEF At
    <2> QED
      BY <2>1 DEF Named
  <1>10. /\ DOMAIN place' = DOMAIN place \cup {z}
         /\ place'[z] = [dir |-> d, name |-> n, kind |-> k]
         /\ \A x \in DOMAIN place : x # z => place'[x] = place[x]
    BY <1>3 DEF With
  <1>11. Well(place)
    BY DEF CalmInv
  <1>12. Well(place') /\ SameOn(place, place')
    BY <1>7, <1>8, <1>9, <1>10, <1>11, Arrival
  <1>13. Leads(place', path, z)
    BY <1>2, <1>6, <1>8, <1>9, <1>10, <1>11, <1>12, ArrivesAt
  <1>14. Effect(op)'
    BY <1>2, <1>4, <1>6, <1>13, EffectOfCreate
  <1>15. Accounted'
    BY AccountTaken DEF CalmInv
  <1>16. DOMAIN place' \cap Originals \subseteq DOMAIN place
    BY <1>7, <1>10, ListingFacts
  <1>17. d.made # "tree" /\ (d = Root => Len(path) = 1)
    BY <1>6, <1>11, ParentMade
  <1>18. place'[z].dir = d /\ place'[z].name = n
    BY <1>10
  <1>19. StagedOf' /\ CopyOf'
    BY <1>4 DEF CalmInv, StagedOf, TakenOf, CopyOf
  <1>20. CopyTrees'
    <2>1. \A x \in DOMAIN place' : x = z \/ (x \in DOMAIN place /\ place'[x] = place[x])
      BY <1>10
    <2> QED
      BY <1>4, <1>17, <1>18, <2>1 DEF CalmInv, CopyTrees
  <1>21. MadeBySteps'
    <2>1. \A x \in DOMAIN place' : x = z \/ x \in DOMAIN place
      BY <1>10
    <2> QED
      BY <1>2, <1>4, <1>7, <2>1 DEF CalmInv, MadeBySteps
  <1>22. ASSUME NEW x \in DOMAIN place', place'[x].dir = Root
         PROVE  \/ x \in DOMAIN place /\ place'[x] = place[x]
                \/ \E o \in Operations(plan) :
                      /\ o.to \in Paths /\ Len(o.to) = 1
                      /\ Last(o.to) = place'[x].name
    <2>1. CASE x = z
      BY <1>2, <1>6, <1>17, <1>18, <1>22, <2>1
    <2>2. CASE x # z
      BY <1>10, <2>2
    <2> QED
      BY <2>1, <2>2
  <1> QED
    BY <1>4, <1>12, <1>14, <1>15, <1>16, <1>19, <1>20, <1>21, <1>22, LateCalm

\* An entry leaves a staging directory, which is cleaned up.
LEMMA OutOfTree ==
    ASSUME Formed(place), Well(place), NEW x \in DOMAIN place,
           x.made \in {"original", "new", "copy"}, place[x].dir.made = "tree",
           NEW d, NEW n, NEW q, q \in RenameNoReplace(x, d, n),
           NEW t, t.made = "tree", NEW kind,
           NEW c \in Cleanups(q, t, {}, kind), place' = c.place
    PROVE  /\ Well(place') /\ SameOn(place, place')
           /\ DOMAIN place' \subseteq DOMAIN place
           /\ \A y \in DOMAIN place' : y # x => place'[y] = place[y]
           /\ x \in DOMAIN place' => place'[x].dir = d /\ place'[x].name = n
           /\ \A path : IsPath(path) /\ d \in Parent(path) /\ n = Last(path)
                 => Leads(place', path, x)
  <1>1. PICK k : k = place[x].kind
    OBVIOUS
  <1>2. /\ Formed(q) /\ DOMAIN q = DOMAIN place
        /\ q[x] = [dir |-> d, name |-> n, kind |-> k]
        /\ \A y \in DOMAIN place : y # x => q[y] = place[y]
        /\ Named(d, n) = {}
    <2>1. q = [place EXCEPT ![x] = [dir |-> d, name |-> n, kind |-> @.kind]]
          /\ Named(d, n) = {}
      BY DEF RenameNoReplace
    <2>2. /\ DOMAIN q = DOMAIN place
          /\ q[x] = [dir |-> d, name |-> n, kind |-> k]
          /\ \A y \in DOMAIN place : y # x => q[y] = place[y]
      BY <1>1, <2>1
    <2>3. Formed(q)
      BY Renamed
    <2> QED
      BY <2>1, <2>2, <2>3
  <1>3. \A y \in DOMAIN place : ~(place[y].dir = d /\ place[y].name = n)
    BY <1>2 DEF Named
  <1>4. DOMAIN q = DOMAIN place \cup {x}
    BY <1>2
  <1>5. Well(q) /\ SameOn(place, q)
    BY <1>2, <1>3, <1>4, Arrival
  <1>6. /\ Well(c.place) /\ SameOn(q, c.place)
        /\ DOMAIN c.place \subseteq DOMAIN q
        /\ \A y \in DOMAIN c.place : c.place[y] = q[y]
    BY <1>2, <1>5, CleanupSame
  <1>7. SameOn(place, place')
    BY <1>5, <1>6, SameTwice
  <1>8. ASSUME NEW path, IsPath(path), d \in Parent(path), n = Last(path)
        PROVE  Leads(place', path, x)
    <2>1. Leads(q, path, x)
      BY <1>2, <1>3, <1>4, <1>5, <1>8, ArrivesAt
    <2> QED
      BY <1>6, <1>8, <2>1 DEF SameOn
  <1>9. q[x].dir = d /\ q[x].name = n
    BY <1>2
  <1> QED
    BY <1>2, <1>6, <1>7, <1>8, <1>9

\* Where a staged entry is.
LEMMA HeldIn ==
    ASSUME LostInv, StagingInv, Shaped, CalmInv, NEW s \in ToSet(staged), Holds(s)
    PROVE  /\ s.entry \in DOMAIN place /\ s.entry.made = "original"
           /\ s.entry \in Originals /\ s.op.of = {s.entry}
           /\ place[s.entry].dir = s.tree
           /\ s.tree.made = "tree" /\ s.tree.use = "move"
           /\ s.op \in ToSet(plan.moves) /\ s.op.do = "move"
           /\ s.op.to \in Paths /\ s.op.from = PathOf(s.entry)
  <1>1. s.entry \in Named(s.tree, Payload)
    BY DEF Holds
  <1>2. s.entry \in DOMAIN place /\ place[s.entry].dir = s.tree
    BY <1>1 DEF Named
  <1>3. s.entry \in Originals /\ s.op.of = {s.entry} /\ s.tree.use = "move"
    BY DEF CalmInv, StagedOf, TakenOf
  <1>4. s.tree.made = "tree" /\ s.op \in ToSet(plan.moves)
    BY DEF LostInv, TreesOwned, StagingInv, StagedOnce
  <1>5. s.op.do = "move" /\ s.op.to \in Paths /\ s.op.from = PathOf(s.entry)
    BY <1>3, <1>4 DEF Shaped, MovesShaped
  <1> QED
    BY <1>2, <1>3, <1>4, <1>5, ListingFacts

\* What is published is what the step is of.
LEMMA PublishCalm ==
    ASSUME LostInv, StagingInv, Shaped, CalmInv, Publish
    PROVE  CalmInv'
  <1>1. PICK op, path, n : op = Head(todo) /\ path = op.to /\ n = Last(path)
    OBVIOUS
  <1>2. PICK k \in DOMAIN staged, d \in Parent(path) :
          /\ staged[k].op = op /\ Holds(staged[k])
          /\ \E disk \in RenameNoReplace(staged[k].entry, d, n) :
             \E c \in Cleanups(disk, staged[k].tree, {}, "staging") :
                place' = c.place
          /\ staged' = Unfinalized(k)
    BY <1>1 DEF Publish
  <1>3. PICK s, x, t : s = staged[k] /\ x = s.entry /\ t = s.tree
    OBVIOUS
  <1>4. PICK disk : /\ disk \in RenameNoReplace(x, d, n)
                    /\ \E c \in Cleanups(disk, t, {}, "staging") :
                          place' = c.place
    BY <1>2, <1>3
  <1>5. PICK c \in Cleanups(disk, t, {}, "staging") : place' = c.place
    BY <1>4
  <1>6. s \in ToSet(staged) /\ Holds(s) /\ s.op = op
    BY <1>2, <1>3 DEF ToSet
  <1>7. /\ x \in DOMAIN place /\ x.made = "original" /\ x \in Originals
        /\ op.of = {x} /\ place[x].dir = t /\ t.made = "tree"
        /\ op \in ToSet(plan.moves) /\ op.do = "move" /\ op.to \in Paths
    BY <1>3, <1>6, HeldIn
  <1>8. /\ UNCHANGED <<plan, gone, pc, using>> /\ pc = "finish"
        /\ applied' = applied \cup {op}
    BY <1>1 DEF Publish, Ready, Done
  <1>9. op \in Operations(plan) /\ path \in Paths /\ IsPath(path)
    BY <1>1, <1>7, ReportPaths DEF Operations
  <1>10. Well(place) /\ Formed(place)
    BY DEF CalmInv, LostInv
  <1>11. /\ Well(place') /\ SameOn(place, place')
         /\ DOMAIN place' \subseteq DOMAIN place
         /\ \A y \in DOMAIN place' : y # x => place'[y] = place[y]
         /\ x \in DOMAIN place' => place'[x].dir = d /\ place'[x].name = n
    BY <1>4, <1>5, <1>7, <1>10, OutOfTree
  <1>12. Leads(place', path, x)
    BY <1>1, <1>4, <1>5, <1>7, <1>9, <1>10, OutOfTree
  <1>13. Effect(op)'
    BY <1>1, <1>7, <1>9, <1>12, EffectOfMove
  <1>14. Accounted'
    BY AccountTaken DEF CalmInv
  <1>15. d.made # "tree" /\ (d = Root => Len(path) = 1)
    BY <1>9, <1>10, ParentMade
  <1>16. ToSet(staged') \subseteq ToSet(staged)
    BY <1>2, PlanLists, ListRemove DEF Unfinalized
  <1>17. StagedOf' /\ CopyOf'
    BY <1>8, <1>16 DEF CalmInv, StagedOf, TakenOf, CopyOf
  <1>18. CopyTrees'
    BY <1>8, <1>11, <1>15 DEF CalmInv, CopyTrees
  <1>19. MadeBySteps'
    BY <1>8, <1>11 DEF CalmInv, MadeBySteps
  <1>20. ASSUME NEW y \in DOMAIN place', place'[y].dir = Root
         PROVE  \/ y \in DOMAIN place /\ place'[y] = place[y]
                \/ \E o \in Operations(plan) :
                      /\ o.to \in Paths /\ Len(o.to) = 1
                      /\ Last(o.to) = place'[y].name
    <2>1. CASE y = x
      BY <1>1, <1>9, <1>11, <1>15, <1>20, <2>1
    <2>2. CASE y # x
      BY <1>11, <2>2
    <2> QED
      BY <2>1, <2>2
  <1> QED
    BY <1>8, <1>11, <1>13, <1>14, <1>17, <1>18, <1>19, <1>20, LateCalm

\* A restore puts its entry at the end of a path that led nowhere.
LEMMA RestoreCalm ==
    ASSUME LostInv, StagingInv, Shaped, CalmInv, Restore
    PROVE  CalmInv'
  <1>1. PICK s, x, t, path, n : /\ s = NextRestored /\ x = s.entry /\ t = s.tree
                                /\ path = s.op.from /\ n = Last(path)
    OBVIOUS
  <1>2. PICK disk \in Restored(s) :
           \E c \in Cleanups(disk, t, {}, "staging") : place' = c.place
    BY <1>1 DEF Restore
  <1>3. PICK c \in Cleanups(disk, t, {}, "staging") : place' = c.place
    BY <1>2
  <1>4. Holds(s) /\ \E d \in Parent(path) : disk \in RenameNoReplace(x, d, n)
    BY <1>1, <1>2 DEF Restored
  <1>5. PICK d \in Parent(path) : disk \in RenameNoReplace(x, d, n)
    BY <1>4
  <1>6. s \in ToSet(staged) /\ staged # <<>> /\ pc = "rollback"
    BY <1>1, RestFormed, PlanLists DEF Restore
  <1>7. /\ x \in DOMAIN place /\ x.made = "original" /\ x \in Originals
        /\ place[x].dir = t /\ t.made = "tree" /\ path = PathOf(x)
    BY <1>1, <1>4, <1>6, HeldIn
  <1>8. UNCHANGED <<plan, gone, pc, using, applied, todo, deferred, outcome>>
    BY DEF Restore
  <1>9. IsPath(path) /\ Well(place) /\ Formed(place)
    BY <1>7, ReportPaths DEF CalmInv, LostInv
  <1>10. /\ Well(place') /\ SameOn(place, place')
         /\ DOMAIN place' \subseteq DOMAIN place
         /\ \A y \in DOMAIN place' : y # x => place'[y] = place[y]
         /\ x \in DOMAIN place' => place'[x].dir = d /\ place'[x].name = n
    BY <1>3, <1>5, <1>7, <1>9, OutOfTree
  <1>11. Accounted'
    BY <1>8, AccountSame DEF CalmInv
  <1>12. d.made # "tree"
    BY <1>9, ParentMade
  <1>13. ToSet(staged') \subseteq ToSet(staged)
    BY <1>6, PlanLists, RestFormed DEF Restore
  <1>14. StagedOf' /\ CopyOf'
    BY <1>6, <1>8, <1>13 DEF CalmInv, StagedOf, TakenOf, CopyOf
  <1>15. CopyTrees'
    BY <1>6, <1>8, <1>10, <1>12 DEF CalmInv, CopyTrees
  <1>16. MadeBySteps'
    BY <1>6, <1>8, <1>10 DEF CalmInv, MadeBySteps
  <1> QED
    BY <1>6, <1>8, <1>10, <1>11, <1>14, <1>15, <1>16, LateCalm

-----------------------------------------------------------------------------
(* Copies                                                                    *)

\* What a copy is made of is what the step is of.
LEMMA CopySource ==
    ASSUME Shaped, CalmInv, pc = "copy", NEW op \in ToSet(plan.copies),
           NEW x \in At(op.from), NEW e \in Originals, op.of = {e}
    PROVE  x = e
  <1>1. \/ \E m \in ToSet(plan.moves) : m.of = {e} /\ m.to = op.from
        \/ op.from = PathOf(e) /\ Kept(e)
        \/ op.from = PathOf(e) /\ e \in Listed /\ Untaken(e)
    <2>1. PICK f \in Originals : /\ op.of = {f}
              /\ \/ \E m \in ToSet(plan.moves) : m.of = {f} /\ m.to = op.from
                 \/ op.from = PathOf(f) /\ Kept(f)
                 \/ op.from = PathOf(f) /\ f \in Listed /\ Untaken(f)
      BY DEF Shaped, CopiesShaped
    <2>2. f = e
      BY <2>1
    <2> QED
      BY <2>1, <2>2
  <1>2. CASE \E m \in ToSet(plan.moves) : m.of = {e} /\ m.to = op.from
    <2>1. PICK m \in ToSet(plan.moves) : m.of = {e} /\ m.to = op.from
      BY <1>2
    <2>2. m \in applied /\ m.do = "move"
      BY <2>1 DEF CalmInv, Accounted, Shaped, MovesShaped
    <2>3. Effect(m)
      BY <2>2 DEF CalmInv, Effects
    <2>4. At(op.from) = {e}
      BY <2>1, <2>2, <2>3 DEF Effect
    <2> QED
      BY <2>4
  <1>3. CASE op.from = PathOf(e) /\ Kept(e)
    <2>1. Leads(place, PathOf(e), e) /\ IsPath(PathOf(e))
      BY <1>3, ReportPaths DEF CalmInv, KeptStill
    <2> QED
      BY <1>3, <2>1, AtPath DEF Leads
  <1>4. CASE op.from = PathOf(e) /\ e \in Listed /\ Untaken(e)
    <2>1. /\ x \in DOMAIN place /\ place[x].name = Layout[e].name
          /\ place[x].dir = Root
      BY <1>4, Looked
    <2> QED
      BY <1>4, <2>1 DEF CalmInv, UntakenStill
  <1> QED
    BY <1>1, <1>2, <1>3, <1>4

\* A copy is made in its staging directory.
LEMMA CopyEntryCalm ==
    ASSUME LostInv, StagingInv, Shaped, CalmInv, CopyEntry
    PROVE  CalmInv'
  <1>1. PICK op, t, path : op = Head(todo) /\ path = op.to /\ t = Tree("copy", path)
    OBVIOUS
  <1>2. PICK x \in At(op.from), d \in Parent(path) :
          /\ place' = CopyInto(x, op, d)
          /\ using' = [op |-> op, entry |-> Copied(x, path), tree |-> t,
                       owned |-> {Copied(y, path) : y \in Below(place, {x})}]
    BY <1>1 DEF CopyEntry
  <1>3. /\ UNCHANGED <<plan, gone, pc, staged, applied, todo, deferred, outcome>>
        /\ pc = "copy" /\ todo # <<>> /\ using = NoTree
    BY DEF CopyEntry
  <1>4. /\ using' # NoTree /\ using'.op = op /\ using'.tree = t
        /\ using'.entry = Copied(x, path)
    BY <1>2 DEF NoTree
  <1>5. op \in ToSet(todo) /\ op \in ToSet(plan.copies)
    BY <1>1, <1>3, PlanLists, ListSteps DEF StagingInv, CopiesLeft
  <1>6. op.to \in Paths /\ IsPath(path)
    BY <1>1, <1>5, ReportPaths DEF Shaped, CopiesShaped
  <1>7. PICK e \in Originals : op.of = {e}
    BY <1>5 DEF Shaped, CopiesShaped
  <1>8. x = e
    BY <1>3, <1>5, <1>7, CopySource
  <1>9. \A y \in DOMAIN place : y.made = "copy" => y.path # path
    <2>1. SUFFICES ASSUME NEW y \in DOMAIN place, y.made = "copy", y.path = path
                   PROVE  FALSE
      OBVIOUS
    <2>2. PICK o \in applied : o.do = "copy" /\ o.to = path
      BY <1>3, <2>1 DEF CalmInv, MadeBySteps
    <2>3. o \in ToSet(plan.copies)
      BY <2>2 DEF CalmInv, Accounted, Operations, Shaped, MovesShaped,
         DeletesShaped, CreatesShaped
    <2>4. o = op
      BY <1>1, <1>5, <2>2, <2>3 DEF Shaped, CopiesApart
    <2> QED
      BY <1>3, <1>5, <2>4 DEF CalmInv, Accounted
  <1>10. Well(place)
    BY DEF CalmInv
  <1>11. /\ Well(place') /\ SameOn(place, place')
         /\ t \in DOMAIN place' /\ place'[t].dir = d
         /\ \A y \in DOMAIN place : y # t => place'[y] = place[y]
         /\ \A y \in DOMAIN place' \ DOMAIN place : y # t =>
               /\ y.made = "copy" /\ y.path = path
               /\ \/ y = Copied(x, path) /\ place'[y].dir = t
                  \/ place'[y].dir.made = "copy"
    <2>1. PICK q : q = place'
      OBVIOUS
    <2>2. q = CopyInto(x, op, d) /\ t = Tree("copy", op.to)
      BY <1>1, <1>2, <2>1
    <2>3. \A y \in DOMAIN place : y.made = "copy" => y.path # op.to
      BY <1>1, <1>9
    <2>4. /\ Well(q) /\ SameOn(place, q)
          /\ t \in DOMAIN q /\ q[t].dir = d
          /\ \A y \in DOMAIN place : y # t => q[y] = place[y]
          /\ \A y \in DOMAIN q \ DOMAIN place : y # t =>
                /\ y.made = "copy" /\ y.path = op.to
                /\ \/ y = Copied(x, op.to) /\ q[y].dir = t
                   \/ q[y].dir.made = "copy"
      BY <1>10, <2>2, <2>3, CopyIn
    <2> QED
      BY <1>1, <2>1, <2>4
  <1>12. t.made = "tree" /\ place'[t].name \notin Nat
    <2>1. t.made = "tree"
      BY <1>1 DEF Tree
    <2> QED
      BY <1>11, <2>1, NoSuchMade DEF Well
  <1>13. d.made # "tree"
    BY <1>6, <1>10, ParentMade
  <1>14. Accounted'
    BY <1>3, AccountSame DEF CalmInv
  <1>15. DOMAIN place' \cap Originals \subseteq DOMAIN place
    BY <1>11, <1>12, ListingFacts
  <1>16. StagedOf'
    BY <1>3 DEF CalmInv, StagedOf, TakenOf
  <1>17. CopyOf'
    BY <1>1, <1>4, <1>7, <1>8 DEF CopyOf
  <1>18. CopyTrees'
    <2>1. ASSUME NEW y \in DOMAIN place', place'[y].dir.made = "tree",
                 place'[y].dir.use = "copy"
          PROVE  y = using'.entry
      <3>1. y # t
        BY <1>11, <1>13, <2>1
      <3>2. CASE y \in DOMAIN place
        BY <1>3, <1>11, <2>1, <3>1, <3>2 DEF CalmInv, CopyTrees
      <3>3. CASE y \notin DOMAIN place
        BY <1>4, <1>11, <2>1, <3>1, <3>3
      <3> QED
        BY <3>2, <3>3
    <2> QED
      BY <1>3, <1>4, <2>1 DEF CopyTrees
  <1>19. MadeBySteps'
    <2>1. \A y \in DOMAIN place' :
             \/ y \in DOMAIN place
             \/ y.made = "tree"
             \/ y.made = "copy" /\ y.path = path
      BY <1>11, <1>12
    <2> QED
      BY <1>1, <1>3, <1>4, <2>1 DEF CalmInv, MadeBySteps
  <1>20. ASSUME NEW y \in DOMAIN place', place'[y].dir = Root,
                place'[y].name \in Nat
         PROVE  y \in DOMAIN place /\ place'[y] = place[y]
    <2>1. y # t
      BY <1>12, <1>20
    <2>2. y \in DOMAIN place
      BY <1>11, <1>12, <1>20, <2>1, NoSuchMade
    <2> QED
      BY <1>11, <2>1, <2>2
  <1> QED
    BY <1>3, <1>11, <1>14, <1>15, <1>16, <1>17, <1>18, <1>19, <1>20, LateCalm

\* What is published is the copy.
LEMMA CopyPublishCalm ==
    ASSUME LostInv, StagingInv, Shaped, CalmInv, CopyPublish
    PROVE  CalmInv'
  <1>1. PICK op, t, path, n : /\ op = using.op /\ t = using.tree
                              /\ path = op.to /\ n = Last(path)
    OBVIOUS
  <1>2. PICK d \in Parent(path), x \in Named(t, Payload) :
           \E disk \in RenameNoReplace(x, d, n) :
           \E c \in Cleanups(disk, t, {}, "copy") : place' = c.place
    BY <1>1 DEF CopyPublish
  <1>3. PICK disk : /\ disk \in RenameNoReplace(x, d, n)
                    /\ \E c \in Cleanups(disk, t, {}, "copy") :
                          place' = c.place
    BY <1>2
  <1>4. PICK c \in Cleanups(disk, t, {}, "copy") : place' = c.place
    BY <1>3
  <1>5. /\ UNCHANGED <<plan, gone, pc, staged>> /\ pc = "copy"
        /\ using # NoTree /\ using' = NoTree /\ applied' = applied \cup {op}
    BY <1>1 DEF CopyPublish
  <1>6. x \in DOMAIN place /\ place[x].dir = t
    BY DEF Named
  <1>7. PICK e \in Originals : op.of = {e} /\ using.entry = Copied(e, path)
    BY <1>1, <1>5 DEF CalmInv, CopyOf
  <1>8. t.made = "tree" /\ t.use = "copy"
    BY <1>1, <1>5 DEF CalmInv, CopyOf, Tree
  <1>9. x = Copied(e, path) /\ x.made = "copy" /\ x.path = path
    <2>1. x = using.entry
      BY <1>5, <1>6, <1>8 DEF CalmInv, CopyTrees
    <2> QED
      BY <1>7, <2>1 DEF Copied
  <1>10. op \in ToSet(plan.copies)
    <2>1. todo # <<>> /\ op = Head(todo)
      BY <1>1, <1>5 DEF LostInv, TreesOwned
    <2> QED
      BY <1>5, <2>1, PlanLists, ListSteps DEF StagingInv, CopiesLeft
  <1>11. /\ op \in Operations(plan) /\ op.do = "copy"
         /\ path \in Paths /\ IsPath(path)
    BY <1>1, <1>10, ReportPaths DEF Operations, Shaped, CopiesShaped
  <1>12. Well(place) /\ Formed(place)
    BY DEF CalmInv, LostInv
  <1>13. /\ Well(place') /\ SameOn(place, place')
         /\ DOMAIN place' \subseteq DOMAIN place
         /\ \A y \in DOMAIN place' : y # x => place'[y] = place[y]
         /\ x \in DOMAIN place' => place'[x].dir = d /\ place'[x].name = n
    BY <1>3, <1>4, <1>6, <1>8, <1>9, <1>12, OutOfTree
  <1>14. Leads(place', path, x)
    BY <1>1, <1>3, <1>4, <1>6, <1>8, <1>9, <1>11, <1>12, OutOfTree
  <1>15. Effect(op)'
    BY <1>1, <1>7, <1>9, <1>11, <1>14, EffectOfCopy
  <1>16. Accounted'
    BY AccountTaken DEF CalmInv
  <1>17. d.made # "tree" /\ (d = Root => Len(path) = 1)
    BY <1>11, <1>12, ParentMade
  <1>18. StagedOf' /\ CopyOf'
    BY <1>5 DEF CalmInv, StagedOf, TakenOf, CopyOf
  <1>19. CopyTrees'
    <2>1. ASSUME NEW y \in DOMAIN place', place'[y].dir.made = "tree",
                 place'[y].dir.use = "copy"
          PROVE  FALSE
      <3>1. y # x
        BY <1>13, <1>17, <2>1
      <3>2. y \in DOMAIN place /\ place'[y] = place[y]
        BY <1>13, <3>1
      <3>3. x = using.entry /\ y = using.entry
        BY <1>5, <1>6, <1>8, <2>1, <3>2 DEF CalmInv, CopyTrees
      <3> QED
        BY <3>1, <3>3
    <2> QED
      BY <2>1 DEF CopyTrees
  <1>20. MadeBySteps'
    BY <1>1, <1>5, <1>11, <1>13 DEF CalmInv, MadeBySteps
  <1>21. ASSUME NEW y \in DOMAIN place', place'[y].dir = Root
         PROVE  \/ y \in DOMAIN place /\ place'[y] = place[y]
                \/ \E o \in Operations(plan) :
                      /\ o.to \in Paths /\ Len(o.to) = 1
                      /\ Last(o.to) = place'[y].name
    <2>1. CASE y = x
      BY <1>1, <1>11, <1>13, <1>17, <1>21, <2>1
    <2>2. CASE y # x
      BY <1>13, <2>2
    <2> QED
      BY <2>1, <2>2
  <1> QED
    BY <1>5, <1>13, <1>15, <1>16, <1>18, <1>19, <1>20, <1>21, LateCalm

\* A copy that cannot be published is cleaned up.
LEMMA CopyPublishFailsCalm ==
    ASSUME LostInv, StagingInv, Shaped, CalmInv, CopyPublishFails
    PROVE  CalmInv'
  <1>1. PICK t, o : t = using.tree /\ o = using.owned
    OBVIOUS
  <1>2. PICK c \in Cleanups(place, t, o, "copy") : place' = c.place
    BY <1>1 DEF CopyPublishFails
  <1>3. /\ UNCHANGED <<plan, gone, staged, applied>> /\ pc = "copy"
        /\ pc' = "done" /\ outcome' = "failed" /\ using # NoTree
    BY DEF CopyPublishFails, Stop
  <1>4. t.made = "tree" /\ Formed(place) /\ Well(place)
    BY <1>1, <1>3 DEF LostInv, TreesOwned, CalmInv
  <1>5. /\ Well(place') /\ SameOn(place, place')
        /\ DOMAIN place' \subseteq DOMAIN place
    BY <1>2, <1>4, CleanupSame
  <1>6. Accounted'
    BY <1>3, AccountSame DEF CalmInv
  <1>7. StagedOf' /\ CopyOf' /\ CopyTrees'
    BY <1>3 DEF CalmInv, StagedOf, TakenOf, CopyOf, CopyTrees
  <1>8. MadeBySteps'
    BY <1>3, <1>5 DEF CalmInv, MadeBySteps
  <1> QED
    BY <1>3, <1>5, <1>6, <1>7, <1>8, LateCalm

-----------------------------------------------------------------------------
(* The plan as it is built                                                   *)

\* The operations that a row or a transfer of e makes.
MoveOf(op, e, to) == op = Operation("move", PathOf(e), to, Layout[e].kind, {e})
CopyFor(op, e, from, to) == op = Operation("copy", from, to, Layout[e].kind, {e})
DeleteOf(op, e) == op = Operation("delete", PathOf(e), <<>>, Layout[e].kind, {e})
CreateFor(op, n) == op = Operation("create", <<>>, n.to, n.kind, {})

\* What they say.
LEMMA OperationOf ==
    /\ \A op, e, to : MoveOf(op, e, to) =>
          op.do = "move" /\ op.from = PathOf(e) /\ op.to = to /\ op.of = {e}
    /\ \A op, e, from, to : CopyFor(op, e, from, to) =>
          op.do = "copy" /\ op.from = from /\ op.to = to /\ op.of = {e}
    /\ \A op, e : DeleteOf(op, e) =>
          op.do = "delete" /\ op.from = PathOf(e) /\ op.to = <<>> /\ op.of = {e}
    /\ \A op, n : CreateFor(op, n) => op.do = "create" /\ op.to = n.to
  BY DEF Operation, MoveOf, CopyFor, DeleteOf, CreateFor

\* They say everything.
LEMMA OneOperation ==
    ASSUME NEW op, NEW o, NEW e, NEW from, NEW to,
           CopyFor(op, e, from, to), CopyFor(o, e, from, to)
    PROVE  op = o
  BY DEF CopyFor

\* The rows and the transfers that the operations come from.
LEMMA MovesFrom ==
    ASSUME NEW main, NEW transfers
    PROVE  \A op \in Moves(main, transfers) :
              \/ \E e \in Listed : /\ main[e] # <<>> /\ main[e] # PathOf(e)
                                   /\ MoveOf(op, e, main[e])
              \/ \E t \in transfers : MoveOf(op, t.of, t.to)
  BY Zenon DEF Moves, MoveOf

\* A row whose primary is elsewhere makes a move.
LEMMA MovesMade ==
    ASSUME NEW main, NEW transfers, NEW e \in Listed,
           main[e] # <<>>, main[e] # PathOf(e)
    PROVE  \E op \in Moves(main, transfers) : MoveOf(op, e, main[e])
  BY Zenon DEF Moves, MoveOf

\* The same for the copies,
LEMMA CopiesFrom ==
    ASSUME NEW rows, NEW main, NEW transfers
    PROVE  \A op \in Copies(rows, main, transfers) :
              \/ \E e \in Listed : \E path \in rows[e] :
                    path # main[e] /\ CopyFor(op, e, main[e], path)
              \/ \E t \in transfers :
                    t.mode = "copy" /\ CopyFor(op, t.of, PathOf(t.of), t.to)
  <1> SUFFICES ASSUME NEW op \in Copies(rows, main, transfers)
               PROVE  \/ \E e \in Listed : \E path \in rows[e] :
                            path # main[e] /\ CopyFor(op, e, main[e], path)
                      \/ \E t \in transfers :
                            t.mode = "copy" /\ CopyFor(op, t.of, PathOf(t.of), t.to)
    BY Zenon
  <1>1. \/ \E e \in Listed :
              op \in {Operation("copy", main[e], path, Layout[e].kind, {e}) :
                         path \in rows[e] \ {main[e]}}
        \/ \E t \in transfers :
              /\ t.mode = "copy"
              /\ op = Operation("copy", PathOf(t.of), t.to, Layout[t.of].kind, {t.of})
    BY Zenon DEF Copies
  <1> QED
    BY <1>1, Zenon DEF CopyFor

\* the deletes,
LEMMA DeletesFrom ==
    ASSUME NEW rows
    PROVE  \A op \in Deletes(rows) : \E e \in Listed : DeleteOf(op, e)
  BY Zenon DEF Deletes, DeleteOf

\* and the creates.
LEMMA CreatesFrom ==
    ASSUME NEW news
    PROVE  \A op \in Creates(news) : \E n \in news : CreateFor(op, n)
  BY Zenon DEF Creates, CreateFor

\* No path is empty.
LEMMA OriginalPath ==
    ASSUME NEW e \in Originals
    PROVE  PathOf(e) # <<>>
  <1>1. Len(PathOf(e)) \in 1..2
    BY ReportPaths DEF IsPath
  <1>2. Len(<<>>) = 0
    OBVIOUS
  <1> QED
    BY <1>1, <1>2

\* What build_with_limits lets through has the shape of a plan.
LEMMA BuiltShaped ==
    ASSUME NEW rows, NEW main, NEW transfers, NEW news,
           rows \in [Listed -> {S \in SUBSET Paths : Cardinality(S) <= 2}],
           transfers \in TransferSets, news \in NewSets,
           \A e \in Listed : Primary(e, rows[e], main[e]),
           Buildable(rows, main, transfers, news),
           ToSet(plan.moves) = Moves(main, transfers),
           ToSet(plan.deletes) = Deletes(rows),
           ToSet(plan.creates) = Creates(news),
           ToSet(plan.copies) = Copies(rows, main, transfers),
           IsInjective(plan.copies)
    PROVE  Shaped
  <1>1. /\ \A t \in transfers : t.of \in Originals /\ t.to \in Paths
        /\ \A t, u \in transfers : t = u
    BY DEF TransferSets
  <1>2. \A n \in news : n.to \in Paths
    BY DEF NewSets
  <1>3. \A e \in Listed : e \in Originals /\ rows[e] \subseteq Paths
    BY DEF Listed
  <1>4. \A e \in Listed :
           \/ rows[e] = {} /\ main[e] = <<>>
           \/ main[e] \in rows[e] /\ (PathOf(e) \in rows[e] => main[e] = PathOf(e))
    BY DEF Primary
  <1>5. /\ \A e, f \in Listed : e # f => rows[e] \cap rows[f] = {}
        /\ \A x \in transfers \cup news, e \in Listed : x.to \notin rows[e]
    BY DEF Buildable
  <1>6. \A t \in transfers : t.mode = "copy" =>
           ~ \E v \in Vacated(Moves(main, transfers), Deletes(rows)) :
                 StartsWith(PathOf(t.of), v)
    BY DEF Buildable
  <1>7. \A path \in Paths : path # <<>>
    <2>1. \A path \in Paths : Len(path) \in 1..2
      BY PlanConstants
    <2>2. Len(<<>>) = 0
      OBVIOUS
    <2> QED
      BY <2>1, <2>2
  <1>8. MovesShaped
    <2>1. ASSUME NEW op \in Moves(main, transfers)
          PROVE  /\ op.do = "move" /\ op.to \in Paths
                 /\ \E e \in Originals : op.of = {e} /\ op.from = PathOf(e)
      <3>1. CASE \E e \in Listed :
                    /\ main[e] # <<>> /\ main[e] # PathOf(e)
                    /\ MoveOf(op, e, main[e])
        BY <1>3, <1>4, <3>1, OperationOf
      <3>2. CASE \E t \in transfers :
                    MoveOf(op, t.of, t.to)
        BY <1>1, <3>2, OperationOf
      <3> QED
        BY <3>1, <3>2, MovesFrom
    <2> QED
      BY <2>1 DEF MovesShaped
  <1>9. DeletesShaped
    <2>1. ASSUME NEW op \in Deletes(rows)
          PROVE  /\ op.do = "delete"
                 /\ \E e \in Listed : op.of = {e} /\ op.from = PathOf(e)
      BY DeletesFrom, OperationOf
    <2> QED
      BY <2>1 DEF DeletesShaped
  <1>10. CreatesShaped
    <2>1. ASSUME NEW op \in Creates(news)
          PROVE  op.do = "create" /\ op.to \in Paths
      BY <1>2, CreatesFrom, OperationOf
    <2> QED
      BY <2>1 DEF CreatesShaped
  \* An original that kept its path: nothing else may be put there.
  <1>11. ASSUME NEW e \in Listed, main[e] = PathOf(e)
         PROVE  Untaken(e)
    <2>1. e \in Originals /\ PathOf(e) # <<>> /\ PathOf(e) \in rows[e]
      BY <1>3, <1>4, <1>11, OriginalPath
    <2>2. \A x \in transfers \cup news : x.to # PathOf(e)
      BY <1>5, <2>1
    <2>3. ASSUME NEW f \in Listed, PathOf(e) \in rows[f]
          PROVE  f = e
      BY <1>5, <2>1, <2>3
    <2>4. ASSUME NEW op \in Moves(main, transfers)
          PROVE  op.to # PathOf(e)
      <3>1. CASE \E f \in Listed :
                    /\ main[f] # <<>> /\ main[f] # PathOf(f)
                    /\ MoveOf(op, f, main[f])
        <4>1. PICK f \in Listed :
                 main[f] # <<>> /\ main[f] # PathOf(f) /\ op.to = main[f]
          BY <3>1, OperationOf
        <4>2. main[f] \in rows[f]
          BY <1>4, <4>1
        <4> QED
          BY <1>11, <2>3, <4>1, <4>2
      <3>2. CASE \E t \in transfers :
                    MoveOf(op, t.of, t.to)
        BY <2>2, <3>2, OperationOf
      <3> QED
        BY <3>1, <3>2, MovesFrom
    <2>5. ASSUME NEW op \in Copies(rows, main, transfers)
          PROVE  op.to # PathOf(e)
      <3>1. CASE \E f \in Listed : \E path \in rows[f] :
                    /\ path # main[f]
                    /\ CopyFor(op, f, main[f], path)
        BY <1>11, <2>3, <3>1, OperationOf
      <3>2. CASE \E t \in transfers :
                    /\ t.mode = "copy"
                    /\ CopyFor(op, t.of, PathOf(t.of), t.to)
        BY <2>2, <3>2, OperationOf
      <3> QED
        BY <3>1, <3>2, CopiesFrom
    <2>6. ASSUME NEW op \in Deletes(rows)
          PROVE  op.to # PathOf(e)
      BY <2>1, DeletesFrom, OperationOf
    <2>7. ASSUME NEW op \in Creates(news)
          PROVE  op.to # PathOf(e)
      BY <2>2, CreatesFrom, OperationOf
    <2> QED
      BY <2>4, <2>5, <2>6, <2>7 DEF Untaken, Operations
  <1>12. ASSUME NEW t \in transfers, t.mode = "copy"
         PROVE  Kept(t.of)
    <2>1. \A op \in Moves(main, transfers) \cup Deletes(rows) :
             ~StartsWith(PathOf(t.of), op.from)
      BY <1>6, <1>12 DEF Vacated
    <2> QED
      BY <2>1 DEF Kept
  <1>13. CopiesShaped
    <2>1. ASSUME NEW op \in Copies(rows, main, transfers)
          PROVE  /\ op.do = "copy" /\ op.to \in Paths
                 /\ \E e \in Originals : /\ op.of = {e}
                       /\ \/ \E m \in ToSet(plan.moves) :
                                m.of = {e} /\ m.to = op.from
                          \/ op.from = PathOf(e) /\ Kept(e)
                          \/ op.from = PathOf(e) /\ e \in Listed /\ Untaken(e)
      <3>1. CASE \E e \in Listed : \E path \in rows[e] :
                    /\ path # main[e]
                    /\ CopyFor(op, e, main[e], path)
        <4>1. PICK e \in Listed : \E path \in rows[e] :
                 CopyFor(op, e, main[e], path)
          BY <3>1
        <4>2. PICK path \in rows[e] :
                 CopyFor(op, e, main[e], path)
          BY <4>1
        <4>3. /\ op.do = "copy" /\ op.from = main[e] /\ op.to = path
              /\ op.of = {e} /\ path \in Paths /\ e \in Originals
              /\ main[e] \in rows[e] /\ main[e] # <<>>
          BY <1>3, <1>4, <1>7, <4>2, OperationOf
        <4>4. CASE main[e] = PathOf(e)
          BY <1>11, <4>3, <4>4
        <4>5. CASE main[e] # PathOf(e)
          <5>1. PICK m \in Moves(main, transfers) : MoveOf(m, e, main[e])
            BY <4>3, <4>5, MovesMade
          <5>2. m.of = {e} /\ m.to = op.from /\ m \in ToSet(plan.moves)
            BY <4>3, <5>1, OperationOf
          <5> QED
            BY <4>3, <5>2
        <4> QED
          BY <4>4, <4>5
      <3>2. CASE \E t \in transfers :
                    /\ t.mode = "copy"
                    /\ CopyFor(op, t.of, PathOf(t.of), t.to)
        <4>1. PICK t \in transfers :
                 /\ t.mode = "copy"
                 /\ CopyFor(op, t.of, PathOf(t.of), t.to)
          BY <3>2
        <4>2. /\ op.do = "copy" /\ op.from = PathOf(t.of) /\ op.to = t.to
              /\ op.of = {t.of} /\ Kept(t.of)
          BY <1>12, <4>1, OperationOf
        <4> QED
          BY <1>1, <4>2
      <3> QED
        BY <3>1, <3>2, CopiesFrom
    <2> QED
      BY <2>1 DEF CopiesShaped
  <1>14. CopiesApart
    <2>1. ASSUME NEW op \in Copies(rows, main, transfers),
                 NEW o \in Copies(rows, main, transfers), op.to = o.to
          PROVE  op = o
      <3>1. ASSUME NEW e \in Listed, NEW path \in rows[e],
                   CopyFor(op, e, main[e], path)
            PROVE  op = o
        <4>1. op.to = path
          BY <3>1, OperationOf
        <4>2. CASE \E f \in Listed : \E p \in rows[f] :
                      /\ p # main[f]
                      /\ CopyFor(o, f, main[f], p)
          <5>1. PICK f \in Listed : \E p \in rows[f] :
                   CopyFor(o, f, main[f], p)
            BY <4>2
          <5>2. PICK p \in rows[f] :
                   CopyFor(o, f, main[f], p)
            BY <5>1
          <5>3. p = path
            <6>1. o.to = p
              BY <5>2, OperationOf
            <6> QED
              BY <2>1, <4>1, <6>1
          <5>4. e = f
            BY <1>5, <5>3
          <5> QED
            BY <3>1, <5>2, <5>3, <5>4, OneOperation
        <4>3. CASE \E t \in transfers :
                      /\ t.mode = "copy"
                      /\ CopyFor(o, t.of, PathOf(t.of), t.to)
          <5>1. PICK t \in transfers : CopyFor(o, t.of, PathOf(t.of), t.to)
            BY <4>3
          <5>2. o.to = t.to
            BY <5>1, OperationOf
          <5> QED
            BY <1>5, <2>1, <4>1, <5>2
        <4> QED
          BY <4>2, <4>3, CopiesFrom
      <3>2. ASSUME NEW t \in transfers,
                   CopyFor(op, t.of, PathOf(t.of), t.to)
            PROVE  op = o
        <4>1. op.to = t.to
          BY <3>2, OperationOf
        <4>2. CASE \E f \in Listed : \E p \in rows[f] :
                      /\ p # main[f]
                      /\ CopyFor(o, f, main[f], p)
          <5>1. PICK f \in Listed : \E p \in rows[f] : CopyFor(o, f, main[f], p)
            BY <4>2
          <5>2. PICK p \in rows[f] : CopyFor(o, f, main[f], p)
            BY <5>1
          <5>3. o.to = p
            BY <5>2, OperationOf
          <5> QED
            BY <1>5, <2>1, <4>1, <5>3
        <4>3. CASE \E u \in transfers :
                      /\ u.mode = "copy"
                      /\ CopyFor(o, u.of, PathOf(u.of), u.to)
          BY <1>1, <3>2, <4>3, OneOperation
        <4> QED
          BY <4>2, <4>3, CopiesFrom
      <3> QED
        BY <3>1, <3>2, CopiesFrom
    <2> QED
      BY <2>1 DEF CopiesApart
  <1> QED
    BY <1>8, <1>9, <1>10, <1>13, <1>14 DEF Shaped

\* The plan is as it was built, and nothing has happened.
LEMMA InitReport == Init => ReportInv
  <1> SUFFICES ASSUME Init PROVE ReportInv
    OBVIOUS
  <1>1. PICK rows \in [Listed -> {S \in SUBSET Paths : Cardinality(S) <= 2}],
             main \in [Listed -> Paths \cup {<<>>}],
             transfers \in TransferSets, news \in NewSets :
           /\ \A e \in Listed : Primary(e, rows[e], main[e])
           /\ Buildable(rows, main, transfers, news)
           /\ plan \in [moves : InOrder(Moves(main, transfers)),
                        deletes : InReverse(Deletes(rows)),
                        creates : InOrder(Creates(news)),
                        copies : InOrder(Copies(rows, main, transfers))]
    BY Zenon DEF Init
  <1>2. /\ plan.moves \in Arrangements(Moves(main, transfers))
        /\ plan.deletes \in Arrangements(Deletes(rows))
        /\ plan.creates \in Arrangements(Creates(news))
        /\ plan.copies \in Arrangements(Copies(rows, main, transfers))
    BY <1>1 DEF InOrder, InReverse
  <1>3. /\ ToSet(plan.moves) = Moves(main, transfers)
        /\ ToSet(plan.deletes) = Deletes(rows)
        /\ ToSet(plan.creates) = Creates(news)
        /\ ToSet(plan.copies) = Copies(rows, main, transfers)
        /\ IsInjective(plan.copies)
    BY <1>2, ArrangedList, ArrangedOnce
  <1>4. Shaped
    BY <1>1, <1>3, BuiltShaped
  <1>5. /\ place = Layout /\ pc = "built" /\ staged = <<>> /\ deferred = <<>>
        /\ using = NoTree /\ applied = {} /\ gone = {}
    BY DEF Init
  <1>6. DOMAIN place = Originals
    BY <1>5, PlanConstants
  <1>7. Well(place)
    <2>1. \A e, f \in Originals :
             Layout[e].dir = Layout[f].dir /\ Layout[e].name = Layout[f].name
             => e = f
      BY PlanConstants, Zenon
    <2> QED
      BY <1>5, <1>6, <2>1, ListingFacts DEF Well
  <1>8. \A x \in DOMAIN place : place[x].dir.made # "tree"
    BY <1>5, <1>6, ListingFacts, NoSuchMade
  <1>9. Accounted
    BY <1>5 DEF Accounted, Early
  <1>10. StagedOf /\ CopyOf /\ KeptStill /\ UntakenStill /\ Effects
    BY <1>5, EmptyList DEF StagedOf, CopyOf, KeptStill, UntakenStill, Effects
  <1>11. TreeHolds /\ CopyTrees
    BY <1>8 DEF TreeHolds, CopyTrees, InTree
  <1>12. MadeBySteps
    BY <1>6, ListingFacts DEF MadeBySteps
  <1> QED
    BY <1>4, <1>5, <1>7, <1>9, <1>10, <1>11, <1>12 DEF ReportInv, CalmInv

-----------------------------------------------------------------------------
(* ReportIsTrue                                                              *)

\* Another process is at work: nothing is promised any more.
LEMMA DisturbedReport ==
    ASSUME Intrude \/ RemoveEntry
    PROVE  plan' = plan /\ ~Calm'
  <1>1. plan' = plan /\ \E x : disturbed' = disturbed \cup {x}
    BY DEF Intrude, RemoveEntry
  <1> QED
    BY <1>1 DEF Calm

\* The plan stays as it was built.
LEMMA ShapedStays ==
    ASSUME Shaped, UNCHANGED plan
    PROVE  Shaped'
  <1>1. Operations(plan)' = Operations(plan)
    BY DEF Operations
  <1>2. MovesShaped' /\ DeletesShaped' /\ CreatesShaped' /\ CopiesApart'
    BY DEF Shaped, MovesShaped, DeletesShaped, CreatesShaped, CopiesApart
  <1>3. \A e : (Kept(e)' <=> Kept(e)) /\ (Untaken(e)' <=> Untaken(e))
    BY <1>1 DEF Kept, Untaken
  <1>4. CopiesShaped'
    BY <1>3 DEF Shaped, CopiesShaped
  <1> QED
    BY <1>2, <1>4 DEF Shaped

\* No step breaks the invariant of the report.
LEMMA ReportStep ==
    LostInv /\ StagingInv /\ ReportInv /\ [Next]_vars => ReportInv'
  <1> SUFFICES ASSUME LostInv, StagingInv, ReportInv, [Next]_vars
               PROVE  ReportInv'
    OBVIOUS
  <1>1. Shaped /\ (Calm => CalmInv)
    BY DEF ReportInv
  <1>2. CASE Intrude \/ RemoveEntry
    BY <1>1, <1>2, DisturbedReport, ShapedStays DEF ReportInv
  <1>3. CASE Apply \/ Terminated \/ UNCHANGED vars
    <2>1. plan' = plan /\ disturbed' = disturbed
      BY <1>3 DEF Apply, Terminated, vars, Refuse, Verify, ProbeRetained,
         StageAllocate, StageAllocateFails, StageRename, StageRenameFails,
         Staged, Delete, DeleteFails, Deleted, Defer, Create, CreateFails,
         Publish, PublishFails, NextPass, NoParent, Finalized, CopyEntry,
         CopyEntryFails, CopyPublish, CopyPublishFails, Complete, Restore,
         RestoreFails, RolledBack
    <2>2. ASSUME CalmInv
          PROVE  CalmInv'
      BY <1>1, <1>3, <2>2, StopsCalm, PhasesCalm, StutterCalm, DeferCalm,
         ProbeCalm, AllocateCalm, StageRenameFailsCalm, RenameCalm, DeleteCalm,
         DeleteFailsCalm, CreateCalm, PublishCalm, RestoreCalm, CopyEntryCalm,
         CopyPublishCalm, CopyPublishFailsCalm
      DEF Apply, Terminated
    <2> QED
      BY <1>1, <2>1, <2>2, ShapedStays DEF ReportInv, Calm
  <1> QED
    BY <1>2, <1>3 DEF Next

\* The invariant of the report holds throughout.
LEMMA ReportAlways == Spec => []ReportInv
  <1> QED
    BY InitReport, ReportStep, LostAlways, StagingAlways, PTL DEF Spec

\* The report of a plan that nobody disturbed is the disk: what it lists as
\* applied is what the paths of the plan now lead to, and a success lists the
\* whole plan.
THEOREM ReportHolds == Spec => []ReportIsTrue
  <1>1. ReportInv => ReportIsTrue
    BY DEF ReportInv, Calm, CalmInv, Effects, Accounted, ReportIsTrue
  <1> QED
    BY <1>1, ReportAlways, PTL
=============================================================================
