--------------------------- MODULE LocalRunProofs ---------------------------
(***************************************************************************)
(* What Lookup and Upsert of package watermarks promise, for every file of *)
(* records: a lookup finds what the last upsert of the document wrote, and *)
(* an upsert changes nothing a lookup of another document finds.  Then:    *)
(* every git operation of a run, and everything the people around it do,   *)
(* leaves a well-formed repository.  Last: a run on it keeps its types and *)
(* its control invariant, never moves a branch but its own and the one     *)
(* HEAD names, and never touches a source file a developer has saved and   *)
(* not staged.  IInv is the type invariant with ControlOK: that a phase    *)
(* may index the manifest or the plan, that an entry of the plan it works  *)
(* on has a body, and that the branch it is about to create does not exist,*)
(* all hold only because no step of the environment can undo them while a  *)
(* run is under way.                                                       *)
(***************************************************************************)
EXTENDS LocalRun, WellFoundedInduction, SequenceTheorems, TLAPS

-----------------------------------------------------------------------------
(* The sidecar file.                                                       *)

(* A nonempty set of numbers has a least element.                          *)
LEMMA LeastPosition ==
    ASSUME NEW S, S \subseteq Nat, S # {}
    PROVE  \E m \in S : \A n \in S : m <= n
<1>. DEFINE less == OpToRel(<, Nat)
<1>1. IsWellFoundedOn(less, Nat)
  BY NatLessThanWellFounded
<1>2. \A x, y \in Nat : x < y => << x, y >> \in less
  BY DEF OpToRel
<1>. HIDE DEF less
<1>3. PICK m \in S : \A n \in S : ~ (<< n, m >> \in less)
  BY <1>1, WFMin
<1>4. \A n \in S : ~ (n < m)
  BY <1>2, <1>3, Zenon
<1>. QED
  BY <1>4

(* The parts of a record of a file have their types.                       *)
LEMMA RecordOfFile ==
    ASSUME NEW recs \in Records, NEW i \in DOMAIN recs
    PROVE  /\ i \in 1 .. Len(recs)
           /\ recs[i] \in Record
           /\ DOMAIN recs[i] = {"path", "mark"}
           /\ recs[i].path \in Doc /\ recs[i].mark \in Mark
<1>1. i \in 1 .. Len(recs) /\ recs[i] \in Record
  BY LenProperties, ElementOfSeq DEF Records
<1>. QED
  BY <1>1 DEF Record

(* When a document has a record, the loops of Lookup and Upsert stop at    *)
(* its first one.                                                          *)
LEMMA FirstRecordFound ==
    ASSUME NEW recs \in Records, NEW d, HasRecord(recs, d)
    PROVE  /\ FirstRecord(recs, d) \in DOMAIN recs
           /\ IsFirst(recs, d, FirstRecord(recs, d))
<1>. DEFINE S == {i \in DOMAIN recs : recs[i].path = d}
<1>1. S \subseteq Nat /\ S # {}
  BY DEF Records, HasRecord
<1>2. PICK m \in S : \A n \in S : m <= n
  BY <1>1, LeastPosition
<1>3. m \in DOMAIN recs /\ IsFirst(recs, d, m)
  BY <1>2 DEF IsFirst
<1>4. \A i \in DOMAIN recs : IsFirst(recs, d, i) => i = m
  BY <1>3 DEF IsFirst, Records
<1>. QED
  BY <1>3, <1>4 DEF FirstRecord, IsFirst

(* The first record of a document is where the loops stop.                 *)
LEMMA FirstRecordUnique ==
    ASSUME NEW recs \in Records, NEW d, NEW i \in DOMAIN recs, IsFirst(recs, d, i)
    PROVE  HasRecord(recs, d) /\ FirstRecord(recs, d) = i
<1>1. HasRecord(recs, d)
  BY DEF HasRecord, IsFirst
<1>2. \A j \in DOMAIN recs : IsFirst(recs, d, j) => j = i
  BY DEF IsFirst, Records
<1>. QED
  BY <1>1, <1>2, FirstRecordFound

(* Upsert leaves a well-formed file: what Save writes can be loaded again. *)
THEOREM UpsertType ==
    ASSUME NEW recs \in Records, NEW d \in Doc, NEW m \in Mark
    PROVE  Upsert(recs, d, m) \in Records
<1>1. CASE HasRecord(recs, d)
  <2>. DEFINE i == FirstRecord(recs, d)
  <2>1. i \in DOMAIN recs
    BY <1>1, FirstRecordFound
  <2>2. i \in 1 .. Len(recs) /\ [recs[i] EXCEPT !.mark = m] \in Record
    BY <2>1, RecordOfFile DEF Record
  <2>. QED
    BY <1>1, <2>1, <2>2, ExceptSeq DEF Records, Upsert
<1>2. CASE ~HasRecord(recs, d)
  BY <1>2 DEF Upsert, Records, Record
<1>. QED
  BY <1>1, <1>2

(* Lookup yields a watermark, NoMark for a document without a record.      *)
THEOREM LookupType ==
    ASSUME NEW recs \in Records, NEW d
    PROVE  Lookup(recs, d) \in Mark
<1>1. CASE HasRecord(recs, d)
  BY <1>1, FirstRecordFound, RecordOfFile DEF Lookup
<1>2. CASE ~HasRecord(recs, d)
  BY <1>2 DEF Lookup, Mark, NoMark
<1>. QED
  BY <1>1, <1>2

(* Lookup finds the watermark Upsert has just written, whether it replaced *)
(* a record or appended one, even in a file with several records of the    *)
(* document.                                                               *)
THEOREM LookupAfterUpsert ==
    ASSUME NEW recs \in Records, NEW d \in Doc, NEW m \in Mark
    PROVE  HasRecord(Upsert(recs, d, m), d) /\ Lookup(Upsert(recs, d, m), d) = m
<1>. DEFINE new == Upsert(recs, d, m)
<1>1. new \in Records
  BY UpsertType
<1>2. CASE HasRecord(recs, d)
  <2>. DEFINE i == FirstRecord(recs, d)
  <2>1. i \in DOMAIN recs /\ IsFirst(recs, d, i)
    BY <1>2, FirstRecordFound
  <2>2. /\ DOMAIN new = DOMAIN recs
        /\ \A j \in DOMAIN recs : new[j].path = recs[j].path
        /\ new[i].mark = m
    BY <1>2, <2>1, RecordOfFile DEF Upsert
  <2>3. i \in DOMAIN new /\ IsFirst(new, d, i)
    BY <2>1, <2>2 DEF IsFirst
  <2>4. HasRecord(new, d) /\ FirstRecord(new, d) = i
    BY <1>1, <2>3, FirstRecordUnique
  <2>. QED
    BY <2>2, <2>4 DEF Lookup
<1>3. CASE ~HasRecord(recs, d)
  <2>. DEFINE i == Len(recs) + 1
  <2>1. /\ DOMAIN new = 1 .. i /\ i \in DOMAIN new
        /\ new[i].path = d /\ new[i].mark = m
        /\ \A j \in DOMAIN recs : new[j] = recs[j]
    BY <1>3 DEF Upsert, Records
  <2>2. IsFirst(new, d, i)
    BY <1>3, <2>1 DEF IsFirst, HasRecord, Records
  <2>3. HasRecord(new, d) /\ FirstRecord(new, d) = i
    BY <1>1, <2>1, <2>2, FirstRecordUnique
  <2>. QED
    BY <2>1, <2>3 DEF Lookup
<1>. QED
  BY <1>2, <1>3

(* Upsert of one document leaves every other document's record as Lookup   *)
(* finds it: two entries of a manifest may share a sidecar.                *)
THEOREM UpsertKeepsOthers ==
    ASSUME NEW recs \in Records, NEW d \in Doc, NEW m \in Mark,
           NEW e \in Doc, e # d
    PROVE  /\ HasRecord(Upsert(recs, d, m), e) <=> HasRecord(recs, e)
           /\ Lookup(Upsert(recs, d, m), e) = Lookup(recs, e)
<1>. DEFINE new == Upsert(recs, d, m)
<1>1. new \in Records
  BY UpsertType
<1>2. /\ DOMAIN recs \subseteq DOMAIN new
      /\ \A j \in DOMAIN recs : new[j].path = recs[j].path
      /\ \A j \in DOMAIN recs : recs[j].path = e => new[j] = recs[j]
      /\ \A j \in DOMAIN new \ DOMAIN recs : new[j].path # e
  <2>1. CASE HasRecord(recs, d)
    <3>1. FirstRecord(recs, d) \in DOMAIN recs /\ recs[FirstRecord(recs, d)].path = d
      BY <2>1, FirstRecordFound DEF IsFirst
    <3>. QED
      BY <2>1, <3>1, RecordOfFile DEF Upsert
  <2>2. CASE ~HasRecord(recs, d)
    BY <2>2 DEF Upsert, Records
  <2>. QED
    BY <2>1, <2>2
<1>3. HasRecord(new, e) <=> HasRecord(recs, e)
  BY <1>2 DEF HasRecord
<1>4. CASE HasRecord(recs, e)
  <2>. DEFINE i == FirstRecord(recs, e)
  <2>1. i \in DOMAIN recs /\ IsFirst(recs, e, i)
    BY <1>4, FirstRecordFound
  <2>2. i \in DOMAIN new /\ IsFirst(new, e, i)
    BY <1>2, <2>1 DEF IsFirst
  <2>3. FirstRecord(new, e) = i /\ new[i] = recs[i]
    BY <1>1, <1>2, <2>1, <2>2, FirstRecordUnique DEF IsFirst
  <2>. QED
    BY <1>3, <1>4, <2>3 DEF Lookup
<1>5. CASE ~HasRecord(recs, e)
  BY <1>3, <1>5 DEF Lookup
<1>. QED
  BY <1>3, <1>4, <1>5

-----------------------------------------------------------------------------
(* The three kinds of files of a tree have their types.                    *)
LEMMA TreeParts ==
    ASSUME NEW tree \in Tree
    PROVE  /\ tree = [src |-> tree.src, doc |-> tree.doc, side |-> tree.side]
           /\ tree.src \in [Src -> Nat]
           /\ tree.doc \in [Doc -> Page \cup {Nil}]
           /\ tree.side \in [Sidecar -> Records \cup {Nil}]
BY DEF Tree

(* Every commit of the history has a tree.                                 *)
LEMMA CommittedTree ==
    ASSUME RepoTypeOK, NEW c \in Commit
    PROVE  TreeOf(c) \in Tree
<1>1. commits[c] \in [tree : Tree, parent : Nat]
  BY ElementOfSeq DEF RepoTypeOK, Commit
<1>. QED
  BY <1>1 DEF TreeOf

(* A branch that exists names a commit of the history.                     *)
LEMMA BranchCommit ==
    ASSUME RepoTypeOK, NEW b \in Branch, refs[b] # 0
    PROVE  refs[b] \in Commit /\ TreeOf(refs[b]) \in Tree
<1>1. refs[b] \in 1 .. Len(commits)
  BY DEF RepoTypeOK
<1>. QED
  BY <1>1, CommittedTree DEF Commit

(* HEAD names a commit: repo.Head() in Apply and in Assemble cannot find   *)
(* an empty repository.                                                    *)
LEMMA HeadIsCommit ==
    ASSUME RepoTypeOK
    PROVE  HeadCommit \in Commit /\ HeadCommit \in Nat /\ HeadTree \in Tree
<1>1. HeadCommit \in Commit /\ HeadTree \in Tree
  BY BranchCommit DEF RepoTypeOK, HeadCommit, HeadTree
<1>. QED
  BY <1>1 DEF Commit

(* Worktree.Add leaves a well-formed index.                                *)
LEMMA StagedType ==
    ASSUME NEW staged \in Tree, NEW disk \in Tree, NEW docs, NEW sides
    PROVE  Staged(staged, disk, docs, sides) \in Tree
BY DEF Staged, Tree

(* A merge makes a well-formed tree.                                       *)
LEMMA TakeChangesType ==
    ASSUME NEW fork, NEW theirs \in Tree, NEW ours \in Tree
    PROVE  TakeChanges(fork, theirs, ours) \in Tree
<1>1. TakeChanged(fork.src, theirs.src, ours.src) \in [Src -> Nat]
  BY DEF TakeChanged, Tree
<1>2. TakeChanged(fork.doc, theirs.doc, ours.doc) \in [Doc -> Page \cup {Nil}]
  BY DEF TakeChanged, Tree
<1>3. TakeChanged(fork.side, theirs.side, ours.side) \in [Sidecar -> Records \cup {Nil}]
  BY DEF TakeChanged, Tree
<1>. QED
  BY <1>1, <1>2, <1>3 DEF TakeChanges, Tree

(* resetWorktree leaves well-formed files.                                 *)
LEMMA RestoredTreeType ==
    ASSUME NEW files, NEW staged, NEW target \in Tree, NEW disk \in Tree
    PROVE  RestoredTree(files, staged, target, disk) \in Tree
<1>1. Restored(files.src, staged.src, target.src, disk.src) \in [Src -> Nat]
  BY DEF Restored, Tree
<1>2. Restored(files.doc, staged.doc, target.doc, disk.doc) \in [Doc -> Page \cup {Nil}]
  BY DEF Restored, Tree
<1>3. Restored(files.side, staged.side, target.side, disk.side)
        \in [Sidecar -> Records \cup {Nil}]
  BY DEF Restored, Tree
<1>. QED
  BY <1>1, <1>2, <1>3 DEF RestoredTree, Tree

(* What resetIndex remembers are files of the tree it resets to.           *)
LEMMA ChangesType ==
    ASSUME NEW old, NEW new \in Tree
    PROVE  Changes(old, new) \in [src : SUBSET Src, doc : SUBSET Doc, side : SUBSET Sidecar]
<1>1. Changed(old.src, new.src) \subseteq Src
  BY DEF Changed, Tree
<1>2. Changed(old.doc, new.doc) \subseteq Doc
  BY DEF Changed, Tree
<1>3. Changed(old.side, new.side) \subseteq Sidecar
  BY DEF Changed, Tree
<1>. QED
  BY <1>1, <1>2, <1>3 DEF Changes

LEMMA NoFilesType ==
    NoFiles \in [src : SUBSET Src, doc : SUBSET Doc, side : SUBSET Sidecar]
BY DEF NoFiles

(* The history with one more commit is a history within its bound.         *)
LEMMA NewCommit ==
    ASSUME RepoTypeOK, RoomForCommit, NEW tree \in Tree, NEW parent \in Nat,
           commits' = Append(commits, [tree |-> tree, parent |-> parent])
    PROVE  /\ commits' \in Seq([tree : Tree, parent : Nat])
           /\ Len(commits') = Len(commits) + 1
           /\ Len(commits') \in 1 .. MaxCommits
BY RepositoryAssumption DEF RepoTypeOK, RoomForCommit

(* A commit on HEAD makes the branch HEAD names advance and leaves every   *)
(* other branch where it was.                                              *)
LEMMA AppendCommitType ==
    ASSUME RepoTypeOK, RoomForCommit, NEW tree \in Tree, AppendCommit(tree)
    PROVE  /\ commits' \in Seq([tree : Tree, parent : Nat])
           /\ Len(commits') = Len(commits) + 1
           /\ Len(commits') \in 1 .. MaxCommits
           /\ refs' \in [Branch -> 0 .. Len(commits')]
           /\ refs'[head] # 0 /\ refs'[Main] # 0
           /\ \A b \in Branch : b # head => refs'[b] = refs[b]
<1>1. HeadCommit \in Nat
  BY HeadIsCommit
<1>2. /\ commits' \in Seq([tree : Tree, parent : Nat])
      /\ Len(commits') = Len(commits) + 1
      /\ Len(commits') \in 1 .. MaxCommits
  BY <1>1, NewCommit DEF AppendCommit
<1>3. /\ Len(commits) \in Nat /\ refs \in [Branch -> 0 .. Len(commits)]
      /\ head \in Branch /\ Main \in Branch /\ refs[Main] # 0
  BY RepositoryAssumption DEF RepoTypeOK
<1>. QED
  BY <1>2, <1>3 DEF AppendCommit

(* A tree with a new version of a source file is a tree.                   *)
LEMMA NewVersionType ==
    ASSUME NEW tree \in Tree, NEW s \in Src, NEW v \in Nat
    PROVE  [tree EXCEPT !.src[s] = v] \in Tree
BY DEF Tree

(* A developer's commit keeps the repository well-formed.                  *)
LEMMA DevCommitType ==
    ASSUME RepoTypeOK, NEW s \in Src, DevCommit(s)
    PROVE  RepoTypeOK' /\ Len(commits') = Len(commits) + 1
<1>1. edits + 2 \in Nat /\ edits' \in 0 .. MaxEdits
  BY RepositoryAssumption DEF RepoTypeOK, DevCommit
<1>2. HeadTree \in Tree /\ index \in Tree /\ worktree \in Tree
  BY HeadIsCommit DEF RepoTypeOK
<1>3. /\ [HeadTree EXCEPT !.src[s] = edits + 2] \in Tree
      /\ index' \in Tree /\ worktree' \in Tree
  BY <1>1, <1>2, NewVersionType DEF DevCommit
<1>4. head' = head /\ head \in Branch
  BY DEF DevCommit, RepoTypeOK
<1>. QED
  BY <1>1, <1>3, <1>4, AppendCommitType DEF DevCommit, RepoTypeOK

(* A developer's edit keeps the repository well-formed.                    *)
LEMMA DevEditType ==
    ASSUME RepoTypeOK, NEW s \in Src, DevEdit(s)
    PROVE  RepoTypeOK'
<1>1. edits + 2 \in Nat /\ edits' \in 0 .. MaxEdits
  BY RepositoryAssumption DEF RepoTypeOK, DevEdit
<1>2. worktree' \in Tree
  BY <1>1, NewVersionType DEF DevEdit, RepoTypeOK
<1>. QED
  BY <1>1, <1>2 DEF DevEdit, RepoTypeOK

(* A developer's git add keeps the repository well-formed.                 *)
LEMMA DevStageType ==
    ASSUME RepoTypeOK, NEW s \in Src, DevStage(s)
    PROVE  RepoTypeOK'
<1>1. worktree.src[s] \in Nat
  BY DEF RepoTypeOK, Tree
<1>2. index' \in Tree
  BY <1>1, NewVersionType DEF DevStage, RepoTypeOK
<1>. QED
  BY <1>2 DEF DevStage, RepoTypeOK

(* A forced checkout keeps the repository well-formed.                     *)
LEMMA ForceCheckoutType ==
    ASSUME RepoTypeOK, NEW b \in Branch, ForceCheckout(b)
    PROVE  RepoTypeOK'
<1>1. TreeOf(refs[b]) \in Tree
  BY BranchCommit DEF ForceCheckout
<1>. QED
  BY <1>1 DEF ForceCheckout, RepoTypeOK

(* A switch to another branch keeps the repository well-formed.            *)
LEMMA SwitchBranchType ==
    ASSUME RepoTypeOK, NEW b \in Branch, SwitchBranch(b)
    PROVE  RepoTypeOK'
<1>1. TreeOf(refs[b]) \in Tree
  BY BranchCommit DEF SwitchBranch
<1>2. worktree' \in Tree /\ index' \in Tree
  BY <1>1, StagedType DEF SwitchBranch, RepoTypeOK
<1>. QED
  BY <1>2 DEF SwitchBranch, RepoTypeOK

(* The deletion of a branch that is neither Main nor HEAD's keeps the      *)
(* repository well-formed.                                                 *)
LEMMA DeleteBranchType ==
    ASSUME RepoTypeOK, NEW b \in Branch, DeleteBranch(b)
    PROVE  RepoTypeOK'
BY DEF DeleteBranch, RepoTypeOK

(* The merge of a docs branch keeps the repository well-formed.            *)
LEMMA MergeBranchType ==
    ASSUME RepoTypeOK, NEW b \in Branch, MergeBranch(b)
    PROVE  RepoTypeOK'
<1>. DEFINE merged == Merged(refs[b], refs[Main])
<1>1. refs[Main] \in Nat /\ refs[Main] # 0 /\ TreeOf(refs[Main]) \in Tree
  BY RepositoryAssumption, BranchCommit DEF RepoTypeOK, Commit
<1>2. TreeOf(refs[b]) \in Tree
  BY BranchCommit DEF MergeBranch
<1>3. merged \in Tree
  BY <1>1, <1>2, TakeChangesType DEF Merged
<1>. HIDE DEF merged
<1>4. /\ commits' \in Seq([tree : Tree, parent : Nat])
      /\ Len(commits') = Len(commits) + 1
      /\ Len(commits') \in 1 .. MaxCommits
  BY <1>1, <1>3, NewCommit DEF MergeBranch, merged
<1>5. refs' = [refs EXCEPT ![Main] = Len(commits) + 1, ![b] = 0] /\ b # Main
  BY DEF MergeBranch
<1>6. /\ refs' \in [Branch -> 0 .. Len(commits')]
      /\ refs'[Main] # 0
  <2>1. /\ Len(commits) \in Nat /\ refs \in [Branch -> 0 .. Len(commits)]
        /\ Main \in Branch
    BY RepositoryAssumption DEF RepoTypeOK
  <2>. QED
    BY <1>4, <1>5, <2>1
<1>7. head' = Main /\ index' = merged /\ worktree' = merged /\ edits' = edits
  BY DEF MergeBranch, merged
<1>. QED
  BY <1>3, <1>4, <1>6, <1>7, RepositoryAssumption DEF RepoTypeOK

-----------------------------------------------------------------------------
(* Histories.                                                              *)

(* The history of a commit, in any list of commits.                        *)
AncestorsIn(h, c) ==
    LET upTo[n \in 0 .. c] == IF n = 0 THEN {} ELSE {n} \cup upTo[h[n].parent]
    IN  upTo[c]

(* The parent of a commit is an earlier one; only the first has none.      *)
Rooted(h) ==
    \A c \in 1 .. Len(h) : /\ h[c].parent \in 0 .. c - 1
                           /\ c # 1 => h[c].parent # 0

(* The walk along the parents is a function, defined for every commit.     *)
Walk(h, c, g) == g = [n \in 0 .. c |-> IF n = 0 THEN {} ELSE {n} \cup g[h[n].parent]]

(* Ancestors is about the history there is.                                *)
LEMMA AncestorsHere == \A c : Ancestors(c) = AncestorsIn(commits, c)
BY DEF Ancestors, AncestorsIn

(* Every commit of a rooted history has a walk, shown for the least that   *)
(* would have none.                                                        *)
LEMMA WalkExists ==
    ASSUME NEW h, Len(h) \in Nat, Rooted(h), NEW c \in 0 .. Len(h)
    PROVE  \E g : Walk(h, c, g)
<1>. DEFINE bad == {n \in 0 .. Len(h) : ~ \E g : Walk(h, n, g)}
<1>. SUFFICES ASSUME bad # {} PROVE FALSE
  OBVIOUS
<1>1. bad \subseteq Nat
  OBVIOUS
<1>2. PICK m \in bad : \A n \in bad : m <= n
  BY <1>1, LeastPosition
<1>3. m \in 0 .. Len(h) /\ ~ \E g : Walk(h, m, g)
  BY <1>2
<1>4. CASE m = 0
  <2>1. Walk(h, 0, [n \in 0 .. 0 |-> {}])
    BY DEF Walk
  <2>. QED
    BY <1>3, <1>4, <2>1
<1>5. CASE m # 0
  <2>1. m - 1 \in 0 .. Len(h) /\ m - 1 \notin bad
    BY <1>2, <1>3, <1>5
  <2>2. PICK g : Walk(h, m - 1, g)
    BY <2>1
  <2>3. \A n \in 1 .. m : h[n].parent \in 0 .. n - 1
    BY <1>3 DEF Rooted
  <2>. DEFINE f == [n \in 0 .. m |-> IF n = m THEN {m} \cup g[h[m].parent] ELSE g[n]]
  <2>4. ASSUME NEW n \in 0 .. m
        PROVE  f[n] = IF n = 0 THEN {} ELSE {n} \cup f[h[n].parent]
    <3>1. CASE n = m
      <4>1. h[m].parent \in 0 .. m - 1
        BY <1>3, <1>5, <2>3
      <4>2. f[h[m].parent] = g[h[m].parent]
        BY <1>3, <4>1
      <4>. QED
        BY <1>5, <3>1, <4>2
    <3>2. CASE n # m
      <4>1. n \in 0 .. m - 1 /\ f[n] = g[n]
        BY <1>3, <3>2
      <4>2. g[n] = IF n = 0 THEN {} ELSE {n} \cup g[h[n].parent]
        BY <2>2, <4>1 DEF Walk
      <4>3. n # 0 => h[n].parent \in 0 .. n - 1
        BY <2>3
      <4>4. n # 0 => f[h[n].parent] = g[h[n].parent]
        BY <1>3, <4>1, <4>3
      <4>. QED
        BY <4>1, <4>2, <4>4
    <3>. QED
      BY <3>1, <3>2
  <2>5. f = [n \in 0 .. m |-> IF n = 0 THEN {} ELSE {n} \cup f[h[n].parent]]
    BY <2>4
  <2>. QED
    BY <1>3, <2>5 DEF Walk
<1>. QED
  BY <1>4, <1>5

(* Ancestors(c) is where some walk ends.                                   *)
LEMMA AncestorsWalk ==
    ASSUME NEW h, Len(h) \in Nat, Rooted(h), NEW c \in 0 .. Len(h)
    PROVE  \E g : Walk(h, c, g) /\ AncestorsIn(h, c) = g[c]
<1>1. PICK g : Walk(h, c, g)
  BY WalkExists
<1>. QED
  BY <1>1 DEF AncestorsIn, Walk

(* No branch, no history.                                                  *)
LEMMA NoAncestors ==
    ASSUME NEW h, Len(h) \in Nat, Rooted(h)
    PROVE  AncestorsIn(h, 0) = {}
<1>1. PICK g : Walk(h, 0, g) /\ AncestorsIn(h, 0) = g[0]
  BY AncestorsWalk
<1>. QED
  BY <1>1 DEF Walk

(* Two histories in which the first commits have the same, earlier parents.*)
SameParents(h, j, m) ==
    \A n \in 1 .. m : h[n].parent \in 0 .. n - 1 /\ h[n].parent = j[n].parent

(* Two walks, in histories that share their first commits, agree there.    *)
LEMMA WalksAgree ==
    ASSUME NEW h, NEW j, NEW f, NEW g, NEW m \in Nat, NEW a \in Nat, NEW b \in Nat,
           Walk(h, a, f), Walk(j, b, g), m <= a, m <= b, SameParents(h, j, m)
    PROVE  f[m] = g[m]
<1>. DEFINE bad == {n \in 0 .. m : f[n] # g[n]}
<1>. SUFFICES ASSUME bad # {} PROVE FALSE
  OBVIOUS
<1>1. bad \subseteq Nat
  OBVIOUS
<1>2. PICK n \in bad : \A o \in bad : n <= o
  BY <1>1, LeastPosition
<1>3. n \in 0 .. m /\ n \in 0 .. a /\ n \in 0 .. b /\ f[n] # g[n]
  BY <1>2
<1>4. /\ f[n] = IF n = 0 THEN {} ELSE {n} \cup f[h[n].parent]
      /\ g[n] = IF n = 0 THEN {} ELSE {n} \cup g[j[n].parent]
  BY <1>3 DEF Walk
<1>5. n # 0 /\ h[n].parent \in 0 .. n - 1 /\ h[n].parent = j[n].parent
  BY <1>3, <1>4 DEF SameParents
<1>6. h[n].parent \notin bad /\ h[n].parent \in 0 .. m
  BY <1>2, <1>3, <1>5
<1>. QED
  BY <1>3, <1>4, <1>5, <1>6

(* So do two walks from one commit, at that commit.                        *)
LEMMA SameWalk ==
    ASSUME NEW h, NEW j, NEW f, NEW g, NEW c \in Nat, SameParents(h, j, c),
           Walk(h, c, f), Walk(j, c, g)
    PROVE  f[c] = g[c]
<1>1. c <= c
  OBVIOUS
<1>. QED
  BY <1>1, WalksAgree

(* Ancestors unfolds along the parents.                                    *)
LEMMA AncestorsUnfold ==
    ASSUME NEW h, Len(h) \in Nat, Rooted(h), NEW c \in 1 .. Len(h)
    PROVE  AncestorsIn(h, c) =
             {c} \cup (IF h[c].parent = 0 THEN {} ELSE AncestorsIn(h, h[c].parent))
<1>. DEFINE p == h[c].parent
<1>1. p \in 0 .. c - 1 /\ p \in Nat /\ c \in Nat /\ p <= c /\ p <= p
  BY DEF Rooted
<1>. HIDE DEF p
<1>2. PICK f : Walk(h, c, f) /\ AncestorsIn(h, c) = f[c]
  BY AncestorsWalk
<1>3. PICK g : Walk(h, p, g) /\ AncestorsIn(h, p) = g[p]
  BY <1>1, AncestorsWalk
<1>4. SameParents(h, h, p)
  BY <1>1 DEF Rooted, SameParents
<1>5. f[p] = g[p]
  BY <1>1, <1>2, <1>3, <1>4, WalksAgree
<1>6. f[c] = {c} \cup f[p]
  <2>1. c \in 0 .. c /\ c # 0
    BY <1>1
  <2>. QED
    BY <1>2, <2>1 DEF Walk, p
<1>7. p = 0 => f[p] = {}
  BY <1>1, <1>2 DEF Walk
<1>. QED
  BY <1>2, <1>3, <1>5, <1>6, <1>7 DEF p

(* The history of a commit starts at the first commit and ends at it.      *)
LEMMA AncestorsRange ==
    ASSUME NEW h, Len(h) \in Nat, Rooted(h), NEW c \in 1 .. Len(h)
    PROVE  /\ AncestorsIn(h, c) \subseteq 1 .. c
           /\ 1 \in AncestorsIn(h, c) /\ c \in AncestorsIn(h, c)
<1>. DEFINE good(n) == /\ AncestorsIn(h, n) \subseteq 1 .. n
                       /\ 1 \in AncestorsIn(h, n) /\ n \in AncestorsIn(h, n)
            bad == {n \in 1 .. Len(h) : ~good(n)}
<1>. SUFFICES ASSUME bad # {} PROVE FALSE
  OBVIOUS
<1>1. bad \subseteq Nat
  OBVIOUS
<1>2. PICK m \in bad : \A n \in bad : m <= n
  BY <1>1, LeastPosition
<1>3. m \in 1 .. Len(h) /\ ~good(m)
  BY <1>2
<1>4. AncestorsIn(h, m) =
        {m} \cup (IF h[m].parent = 0 THEN {} ELSE AncestorsIn(h, h[m].parent))
  BY <1>3, AncestorsUnfold
<1>5. h[m].parent \in 0 .. m - 1 /\ (m # 1 => h[m].parent # 0)
  BY <1>3 DEF Rooted
<1>6. h[m].parent # 0 => good(h[m].parent)
  BY <1>2, <1>3, <1>5
<1>. QED
  BY <1>3, <1>4, <1>5, <1>6

(* What is in the history of an ancestor is in the history.                *)
LEMMA AncestorsTransitive ==
    ASSUME NEW h, Len(h) \in Nat, Rooted(h), NEW c \in 1 .. Len(h), NEW a \in AncestorsIn(h, c)
    PROVE  AncestorsIn(h, a) \subseteq AncestorsIn(h, c)
<1>. DEFINE good(n) == \A b \in AncestorsIn(h, n) : AncestorsIn(h, b) \subseteq AncestorsIn(h, n)
            bad == {n \in 1 .. Len(h) : ~good(n)}
<1>. SUFFICES ASSUME bad # {} PROVE FALSE
  OBVIOUS
<1>1. bad \subseteq Nat
  OBVIOUS
<1>2. PICK m \in bad : \A n \in bad : m <= n
  BY <1>1, LeastPosition
<1>3. m \in 1 .. Len(h) /\ ~good(m)
  BY <1>2
<1>4. AncestorsIn(h, m) =
        {m} \cup (IF h[m].parent = 0 THEN {} ELSE AncestorsIn(h, h[m].parent))
  BY <1>3, AncestorsUnfold
<1>5. h[m].parent \in 0 .. m - 1
  BY <1>3 DEF Rooted
<1>6. h[m].parent # 0 => good(h[m].parent)
  BY <1>2, <1>3, <1>5
<1>. QED
  BY <1>3, <1>4, <1>6

(* A history does not change when commits are added to, or taken from, the *)
(* end of the list.                                                        *)
LEMMA AncestorsStable ==
    ASSUME NEW h, Len(h) \in Nat, Rooted(h), NEW j, Len(j) \in Nat, Rooted(j),
           NEW c \in 1 .. Len(h), c <= Len(j), \A n \in 1 .. c : h[n] = j[n]
    PROVE  AncestorsIn(h, c) = AncestorsIn(j, c)
<1>1. PICK f : Walk(h, c, f) /\ AncestorsIn(h, c) = f[c]
  BY AncestorsWalk
<1>2. PICK g : Walk(j, c, g) /\ AncestorsIn(j, c) = g[c]
  BY AncestorsWalk
<1>3. SameParents(h, j, c)
  BY DEF Rooted, SameParents
<1>4. c \in Nat /\ c <= c
  OBVIOUS
<1>5. f[c] = g[c]
  BY <1>1, <1>2, <1>3, <1>4, SameWalk
<1>. QED
  BY <1>1, <1>2, <1>5

(* A bounded nonempty set of numbers has a greatest element.               *)
LEMMA GreatestPosition ==
    ASSUME NEW n \in Nat, NEW S, S \subseteq 0 .. n, S # {}
    PROVE  \E m \in S : \A x \in S : x <= m
<1>. DEFINE distances == {n - x : x \in S}
<1>1. \A x \in S : x \in Nat /\ n - x \in Nat
  OBVIOUS
<1>2. distances \subseteq Nat /\ distances # {}
  BY <1>1
<1>3. PICK least \in distances : \A y \in distances : least <= y
  BY <1>2, LeastPosition
<1>4. PICK m \in S : least = n - m
  BY <1>3
<1>5. \A x \in S : n - m <= n - x
  BY <1>3, <1>4
<1>. QED
  BY <1>1, <1>4, <1>5

(* Two commits have a merge base, and it is a commit of both histories.    *)
LEMMA MergeBaseIsCommit ==
    ASSUME Len(commits) \in Nat, Rooted(commits), NEW a \in Commit, NEW b \in Commit
    PROVE  /\ MergeBase(a, b) \in Commit
           /\ MergeBase(a, b) \in Ancestors(a) /\ MergeBase(a, b) \in Ancestors(b)
<1>. DEFINE shared == Ancestors(a) \cap Ancestors(b)
<1>1. 1 \in shared /\ shared \subseteq Commit /\ shared \subseteq 0 .. Len(commits)
  BY AncestorsHere, AncestorsRange DEF Commit
<1>2. \E c \in shared : \A other \in shared : other <= c
  BY <1>1, GreatestPosition
<1>3. MergeBase(a, b) \in shared
  BY <1>2 DEF MergeBase
<1>. QED
  BY <1>1, <1>3

(* A commit added to the history leaves it rooted, leaves every other      *)
(* commit its ancestors, and has its parent's.                             *)
LEMMA AppendKeepsHistory ==
    ASSUME RepoTypeOK, Rooted(commits), NEW tree, NEW parent \in Commit,
           commits' = Append(commits, [tree |-> tree, parent |-> parent])
    PROVE  /\ Rooted(commits')
           /\ Len(commits) \in Nat /\ Len(commits') = Len(commits) + 1
           /\ \A c \in Commit : commits'[c] = commits[c] /\ Ancestors(c)' = Ancestors(c)
           /\ \A n : n = Len(commits') => Ancestors(n)' = {n} \cup Ancestors(parent)
           /\ commits'[Len(commits')] = [tree |-> tree, parent |-> parent]
<1>1. /\ Len(commits) \in Nat /\ Len(commits') = Len(commits) + 1
      /\ \A c \in Commit : commits'[c] = commits[c]
      /\ commits'[Len(commits')] = [tree |-> tree, parent |-> parent]
      /\ parent \in 1 .. Len(commits)
  BY DEF RepoTypeOK, Commit
<1>2. Rooted(commits')
  <2>. SUFFICES ASSUME NEW c \in 1 .. Len(commits')
                PROVE  commits'[c].parent \in 0 .. c - 1 /\ (c # 1 => commits'[c].parent # 0)
    BY DEF Rooted
  <2>1. CASE c \in Commit
    BY <1>1, <2>1 DEF Rooted, Commit
  <2>2. CASE c = Len(commits')
    BY <1>1, <2>2
  <2>. QED
    BY <1>1, <2>1, <2>2 DEF Commit
<1>3. \A c \in Commit : Ancestors(c)' = Ancestors(c)
  <2>. SUFFICES ASSUME NEW c \in Commit PROVE Ancestors(c)' = Ancestors(c)
    OBVIOUS
  <2>1. /\ c \in 1 .. Len(commits) /\ c <= Len(commits') /\ Len(commits') \in Nat
        /\ \A n \in 1 .. c : commits[n] = commits'[n]
    BY <1>1 DEF Commit
  <2>2. AncestorsIn(commits, c) = AncestorsIn(commits', c)
    BY <1>1, <1>2, <2>1, AncestorsStable
  <2>3. Ancestors(c) = AncestorsIn(commits, c) /\ Ancestors(c)' = AncestorsIn(commits', c)
    BY DEF Ancestors, AncestorsIn
  <2>. QED
    BY <2>2, <2>3
<1>4. ASSUME NEW n, n = Len(commits')
      PROVE  Ancestors(n)' = {n} \cup Ancestors(parent)
  <2>1. n \in 1 .. Len(commits') /\ Len(commits') \in Nat
        /\ commits'[n].parent = parent /\ parent # 0
    BY <1>1, <1>4
  <2>2. AncestorsIn(commits', n) =
          {n} \cup (IF commits'[n].parent = 0 THEN {} ELSE AncestorsIn(commits', commits'[n].parent))
    BY <1>2, <2>1, AncestorsUnfold
  <2>3. AncestorsIn(commits', n) = {n} \cup AncestorsIn(commits', parent)
    BY <2>1, <2>2
  <2>4. Ancestors(n)' = AncestorsIn(commits', n) /\ Ancestors(parent)' = AncestorsIn(commits', parent)
    BY DEF Ancestors, AncestorsIn
  <2>. QED
    BY <1>3, <2>3, <2>4
<1>. QED
  BY <1>1, <1>2, <1>3, <1>4

-----------------------------------------------------------------------------
(* The run.                                                                *)

(* The inductive invariant: types, and what each phase relies on.          *)
IInv == TypeOK /\ ControlOK

(* A step that leaves the repository alone leaves it well-formed.          *)
LEMMA RepoUnchanged ==
    ASSUME RepoTypeOK, UNCHANGED repoVars
    PROVE  RepoTypeOK'
BY DEF RepoTypeOK, repoVars

(* An empty DiffContext has its type.                                      *)
LEMMA NoContextType == NoContext \in [wm : Mark, text : Text, diff : SUBSET Src, seen : Text]
BY DEF NoContext, NoMark, Mark, NoText, Text

(* What the assumptions say of the constants, in the form the proofs need. *)
LEMMA Settings ==
    /\ Modes \subseteq [Doc -> Sidecar \cup {Nil}]
    /\ DryRuns \subseteq BOOLEAN
    /\ MaxRuns \in Nat /\ MaxModeChanges \in Nat
    /\ Manifest \in Seq(DocEntry) /\ Manifest # << >>
BY LocalRunAssumption

(* The two fixed names of branchName are names of branches.                *)
LEMMA SlugsAreBranches == "common" \in Branch /\ "multi" \in Branch
BY LocalRunAssumption

(* However a run ends, what it leaves in memory satisfies the invariant.   *)
LEMMA FinishKeeps ==
    ASSUME RunTypeOK, NEW result \in Outcomes, NEW docs \in SUBSET Doc,
           FinishSkipping(result, docs)
    PROVE  RunTypeOK' /\ ControlOK' /\ pc' = "idle"
<1>1. << >> \in Seq(Entry)
  BY EmptySeq
<1>2. RunTypeOK'
  BY <1>1, NoContextType, NoFilesType, SlugsAreBranches DEF RunTypeOK, FinishSkipping
<1>3. pc' = "idle"
  BY DEF FinishSkipping
<1>4. ControlOK'
  BY <1>3 DEF ControlOK, HasBodies, Phases
<1>. QED
  BY <1>2, <1>3, <1>4

(* The parts of an entry of the plan have their types.                     *)
LEMMA PlanEntry ==
    ASSUME RunTypeOK, NEW i \in DOMAIN plan
    PROVE  /\ i \in 1 .. Len(plan) /\ plan[i] \in Entry
           /\ plan[i].doc \in Doc /\ plan[i].sha \in Mark
           /\ plan[i].text \in Text \cup {Nil}
           /\ plan[i].audience \in (Branch \ {Main}) \cup {Nil}
           /\ plan[i].side \in Sidecar \cup {Nil}
<1>1. i \in 1 .. Len(plan) /\ plan[i] \in Entry
  BY LenProperties, ElementOfSeq DEF RunTypeOK
<1>. QED
  BY <1>1 DEF Entry

(* The invariant holds before the first run.                               *)
LEMMA InitInv == Init => IInv
<1>. SUFFICES ASSUME Init PROVE IInv
  OBVIOUS
<1>1. RepoTypeOK
  <2>1. PICK first \in FirstTrees :
            /\ commits = << [tree |-> first, parent |-> 0] >>
            /\ index = first /\ worktree = first
    BY DEF Init, RepoInit
  <2>2. first \in Tree
    BY DEF FirstTrees, Tree
  <2>. QED
    BY <2>1, <2>2, RepositoryAssumption DEF Init, RepoInit, RepoTypeOK
<1>2. RunTypeOK
  <2>1. plan \in Seq(Entry) /\ mode \in [Doc -> Sidecar \cup {Nil}]
    BY Settings, EmptySeq DEF Init
  <2>2. runs \in 0 .. MaxRuns /\ modeChanges \in 0 .. MaxModeChanges
    BY Settings DEF Init
  <2>. QED
    BY <2>1, <2>2, NoContextType, NoFilesType, SlugsAreBranches
    DEF Init, RunTypeOK, Outcomes
<1>3. ControlOK
  BY DEF Init, ControlOK, HasBodies, Phases
<1>. QED
  BY <1>1, <1>2, <1>3 DEF IInv, TypeOK

(* The start of a run keeps the invariant.                                 *)
LEMMA StartInv == IInv /\ Start => IInv'
<1>. SUFFICES ASSUME IInv, Start PROVE IInv'
  OBVIOUS
<1>1. RepoTypeOK'
  BY RepoUnchanged DEF IInv, TypeOK, Start
<1>2. HeadCommit \in Nat
  BY HeadIsCommit DEF IInv, TypeOK
<1>3. RunTypeOK'
  <2>1. dry' \in BOOLEAN
    BY Settings DEF Start
  <2>2. runs' \in 0 .. MaxRuns
    BY Settings DEF IInv, TypeOK, RunTypeOK, Start
  <2>3. pc' \in Phases /\ outcome' \in Outcomes /\ started' \in Nat /\ cur' \in Nat
    BY <1>2 DEF Start, Phases, Outcomes
  <2>. QED
    BY <2>1, <2>2, <2>3 DEF IInv, TypeOK, RunTypeOK, Start, applyVars
<1>4. ControlOK'
  <2>1. pc' = "read" /\ cur' = 1 /\ Len(commits') < MaxCommits
    BY DEF Start, repoVars, RoomForCommit
  <2>2. 1 \in DOMAIN Manifest
    BY Settings
  <2>. QED
    BY <2>1, <2>2 DEF ControlOK, HasBodies
<1>. QED
  BY <1>1, <1>3, <1>4 DEF IInv, TypeOK

(* The parts of a manifest entry have their types.                         *)
LEMMA ManifestEntry ==
    ASSUME NEW i \in DOMAIN Manifest
    PROVE  /\ Manifest[i].path \in Doc
           /\ Manifest[i].covers \subseteq Src
           /\ Manifest[i].audience \in (Branch \ {Main}) \cup {Nil}
<1>1. i \in 1 .. Len(Manifest) /\ Manifest[i] \in DocEntry
  BY Settings, LenProperties, ElementOfSeq
<1>. QED
  BY <1>1 DEF DocEntry

(* readWatermarkForDoc yields the frontmatter or the record of a sidecar.  *)
LEMMA ReadWatermarkSource ==
    ASSUME RunTypeOK, NEW disk \in Tree, NEW d \in Doc
    PROVE  \/ ReadWatermark(disk, d) = FrontmatterOf(disk.doc[d])
           \/ \E w \in Sidecar : ReadWatermark(disk, d) = Lookup(Load(disk.side[w]), d)
<1>1. mode[d] \in Sidecar \cup {Nil}
  BY DEF RunTypeOK
<1>. DEFINE known == {i \in DOMAIN SidecarOrder :
                        /\ SidecarOrder[i] \in Migration
                        /\ HasRecord(Load(disk.side[SidecarOrder[i]]), d)}
            first == CHOOSE i \in known : \A j \in known : i <= j
<1>2. ASSUME known # {}
      PROVE  SidecarOrder[first] \in Sidecar
  <2>1. SidecarOrder \in Seq(Sidecar)
    BY LocalRunAssumption
  <2>2. known \subseteq Nat
    BY <2>1
  <2>3. \E m \in known : \A n \in known : m <= n
    BY <1>2, <2>2, LeastPosition
  <2>4. first \in known
    BY <2>3
  <2>5. first \in 1 .. Len(SidecarOrder)
    BY <2>1, <2>4
  <2>. QED
    BY <2>1, <2>5, ElementOfSeq
<1>3. CASE mode[d] # Nil
  BY <1>1, <1>3 DEF ReadWatermark
<1>4. CASE mode[d] = Nil
  <2>1. ReadWatermark(disk, d) =
          IF FrontmatterOf(disk.doc[d]) # NoMark \/ known = {}
          THEN FrontmatterOf(disk.doc[d])
          ELSE Lookup(Load(disk.side[SidecarOrder[first]]), d)
    BY <1>4, Zenon DEF ReadWatermark
  <2>. HIDE DEF known, first
  <2>. QED
    BY <1>2, <2>1
<1>. QED
  BY <1>3, <1>4

(* Either way it is a watermark.                                           *)
LEMMA ReadWatermarkType ==
    ASSUME RunTypeOK, NEW disk \in Tree, NEW d \in Doc
    PROVE  ReadWatermark(disk, d) \in Mark
<1>1. FrontmatterOf(disk.doc[d]) \in Mark
  BY TreeParts DEF FrontmatterOf, Page, Mark, NoMark
<1>2. \A w \in Sidecar : Load(disk.side[w]) \in Records
  BY TreeParts, EmptySeq DEF Load, Records
<1>3. \A w \in Sidecar : Lookup(Load(disk.side[w]), d) \in Mark
  BY <1>2, LookupType
<1>. QED
  BY <1>1, <1>3, ReadWatermarkSource

(* readDocBody yields a text, of an absent document too.                   *)
LEMMA TextOfType ==
    ASSUME NEW disk \in Tree, NEW d \in Doc
    PROVE  TextOf(disk.doc[d]) \in Text
BY TreeParts DEF TextOf, Page, Text, NoText

(* Reading the document keeps the invariant.                               *)
LEMMA ReadDocInv == IInv /\ ReadDoc => IInv'
<1>. SUFFICES ASSUME IInv, ReadDoc PROVE IInv'
  OBVIOUS
<1>1. RepoTypeOK'
  BY RepoUnchanged DEF IInv, TypeOK, ReadDoc
<1>2. Manifest[cur].path \in Doc
  BY ManifestEntry DEF IInv, ControlOK, ReadDoc
<1>3. asm' \in [wm : Mark, text : Text, diff : SUBSET Src, seen : Text]
  <2>1. worktree \in Tree
    BY DEF IInv, TypeOK, RepoTypeOK
  <2>2. /\ ReadWatermark(worktree, Manifest[cur].path) \in Mark
        /\ TextOf(worktree.doc[Manifest[cur].path]) \in Text
    BY <1>2, <2>1, ReadWatermarkType, TextOfType DEF IInv, TypeOK
  <2>. QED
    BY <2>2, NoContextType DEF ReadDoc
<1>4. RunTypeOK'
  BY <1>3 DEF IInv, TypeOK, RunTypeOK, ReadDoc, Phases, settings, applyVars, resultVars
<1>5. ControlOK'
  BY DEF IInv, ControlOK, ReadDoc, HasBodies, Phases, repoVars
<1>. QED
  BY <1>1, <1>4, <1>5 DEF IInv, TypeOK

(* Computing the diff keeps the invariant.                                 *)
LEMMA ComputeDiffInv == IInv /\ ComputeDiff => IInv'
<1>. SUFFICES ASSUME IInv, ComputeDiff PROVE IInv'
  OBVIOUS
<1>1. RepoTypeOK'
  BY RepoUnchanged DEF IInv, TypeOK, ComputeDiff
<1>2. DiffSince(asm.wm, Manifest[cur].covers) \in SUBSET Src
  BY ManifestEntry DEF IInv, ControlOK, ComputeDiff, DiffSince
<1>3. HeadTree.src \in Text
  BY HeadIsCommit, TreeParts DEF IInv, TypeOK, Text
<1>4. RunTypeOK'
  BY <1>2, <1>3
  DEF IInv, TypeOK, RunTypeOK, ComputeDiff, Phases, settings, applyVars, resultVars
<1>5. ControlOK'
  BY DEF IInv, ControlOK, ComputeDiff, HasBodies, Phases, repoVars
<1>. QED
  BY <1>1, <1>4, <1>5 DEF IInv, TypeOK

(* The end of a run over its budget keeps the invariant.                   *)
LEMMA OverBudgetInv == IInv /\ OverBudget => IInv'
<1>. SUFFICES ASSUME IInv, OverBudget PROVE IInv'
  OBVIOUS
<1>1. RepoTypeOK'
  BY RepoUnchanged DEF IInv, TypeOK, OverBudget
<1>2. skipped \in SUBSET Doc /\ "budget" \in Outcomes
  BY DEF IInv, TypeOK, RunTypeOK, Outcomes
<1>. QED
  BY <1>1, <1>2, FinishKeeps DEF IInv, TypeOK, OverBudget, Finish

(* After an entry the loop goes on to an entry that exists, or ends.       *)
LEMMA NextEntry ==
    ASSUME RunTypeOK, cur \in DOMAIN Manifest
    PROVE  /\ cur + 1 \in Nat
           /\ AfterEntry \in {"read", "plan"}
           /\ AfterEntry = "read" => cur + 1 \in DOMAIN Manifest
BY Settings DEF RunTypeOK, AfterEntry

(* Skipping an entry with an empty diff keeps the invariant.               *)
LEMMA SkipEntryInv == IInv /\ SkipEntry => IInv'
<1>. SUFFICES ASSUME IInv, SkipEntry PROVE IInv'
  OBVIOUS
<1>1. RepoTypeOK'
  BY RepoUnchanged DEF IInv, TypeOK, SkipEntry
<1>2. /\ cur' \in Nat /\ pc' \in {"read", "plan"}
      /\ pc' = "read" => cur' \in DOMAIN Manifest
  BY NextEntry DEF IInv, TypeOK, ControlOK, SkipEntry
<1>3. RunTypeOK'
  BY <1>2, NoContextType
  DEF IInv, TypeOK, RunTypeOK, SkipEntry, Phases, settings, applyVars, resultVars
<1>4. ControlOK'
  BY <1>2 DEF IInv, ControlOK, SkipEntry, HasBodies, Phases, repoVars
<1>. QED
  BY <1>1, <1>3, <1>4 DEF IInv, TypeOK

(* Appending an entry, stamped with HEAD, keeps the invariant.             *)
LEMMA ResolveHEADInv == IInv /\ ResolveHEAD => IInv'
<1>. SUFFICES ASSUME IInv, ResolveHEAD PROVE IInv'
  OBVIOUS
<1>1. RepoTypeOK'
  BY RepoUnchanged DEF IInv, TypeOK, ResolveHEAD
<1>. DEFINE e == [doc |-> Manifest[cur].path, text |-> Nil, sha |-> HeadCommit,
                  audience |-> Manifest[cur].audience,
                  side |-> mode[Manifest[cur].path]]
<1>2. e \in Entry
  <2>1. Manifest[cur].path \in Doc /\ Manifest[cur].audience \in (Branch \ {Main}) \cup {Nil}
    BY ManifestEntry DEF IInv, ControlOK, ResolveHEAD
  <2>2. mode[Manifest[cur].path] \in Sidecar \cup {Nil}
    BY <2>1 DEF IInv, TypeOK, RunTypeOK
  <2>3. HeadCommit \in Mark
    BY HeadIsCommit DEF IInv, TypeOK, Mark
  <2>. QED
    BY <2>1, <2>2, <2>3 DEF Entry
<1>3. plan \in Seq(Entry) /\ plan' = Append(plan, e)
  BY DEF IInv, TypeOK, RunTypeOK, ResolveHEAD
<1>. HIDE DEF e
<1>4. plan' \in Seq(Entry) /\ plan' # << >>
  BY <1>2, <1>3
<1>5. RunTypeOK'
  BY <1>4
  DEF IInv, TypeOK, RunTypeOK, ResolveHEAD, Phases, settings, entryVars, applyVars, resultVars
<1>6. ControlOK'
  BY <1>4 DEF IInv, ControlOK, ResolveHEAD, HasBodies, Phases, repoVars, entryVars
<1>. QED
  BY <1>1, <1>5, <1>6 DEF IInv, TypeOK

(* The model's answer keeps the invariant.                                 *)
LEMMA GenerateInv == IInv /\ Generate => IInv'
<1>. SUFFICES ASSUME IInv, Generate PROVE IInv'
  OBVIOUS
<1>1. RepoTypeOK'
  BY RepoUnchanged DEF IInv, TypeOK, Generate
<1>2. /\ cur' \in Nat /\ pc' \in {"read", "plan"}
      /\ pc' = "read" => cur' \in DOMAIN Manifest
  BY NextEntry DEF IInv, TypeOK, ControlOK, Generate
<1>3. plan' \in Seq(Entry)
  <2>1. Rewritten \in Text
    BY DEF IInv, TypeOK, RunTypeOK, Rewritten, Text
  <2>2. PICK text \in Text \cup {Nil} : plan' = [plan EXCEPT ![Len(plan)].text = text]
    BY <2>1 DEF Generate
  <2>3. plan \in Seq(Entry) /\ Len(plan) \in 1 .. Len(plan)
    BY EmptySeq DEF IInv, TypeOK, RunTypeOK, ControlOK, Generate
  <2>4. plan[Len(plan)] \in Entry
    BY <2>3, ElementOfSeq
  <2>. DEFINE e == [plan[Len(plan)] EXCEPT !.text = text]
  <2>5. plan' = [plan EXCEPT ![Len(plan)] = e] /\ e \in Entry
    BY <2>2, <2>4 DEF Entry
  <2>. HIDE DEF e
  <2>. QED
    BY <2>3, <2>5, ExceptSeq
<1>4. RunTypeOK'
  BY <1>2, <1>3, NoContextType
  DEF IInv, TypeOK, RunTypeOK, Generate, Phases, settings, applyVars, resultVars
<1>5. ControlOK'
  BY <1>2 DEF IInv, ControlOK, Generate, HasBodies, Phases, repoVars
<1>. QED
  BY <1>1, <1>4, <1>5 DEF IInv, TypeOK

(* What is planned and what is skipped are documents.                      *)
LEMMA PlanDocs ==
    ASSUME RunTypeOK
    PROVE  PlannedDocs \in SUBSET Doc /\ SkippedDocs \in SUBSET Doc
BY PlanEntry DEF PlannedDocs, SkippedDocs, Bodies

(* The next entry of the write plan exists and has a body.                 *)
LEMMA NextBody ==
    ASSUME RunTypeOK, NEW after, NEW i, IsNext(i, after)
    PROVE  i \in Nat /\ i \in DOMAIN plan /\ plan[i].text # Nil
BY PlanEntry DEF IsNext, Bodies

(* branchName names a branch, whatever the audiences of the planned        *)
(* entries.                                                                *)
LEMMA BranchNameType ==
    ASSUME RunTypeOK
    PROVE  BranchName \in Branch
<1>. DEFINE slugs == {plan[i].audience : i \in Bodies} \ {Nil}
<1>1. slugs \subseteq Branch
  BY PlanEntry DEF Bodies
<1>2. CASE slugs = {}
  BY <1>2, SlugsAreBranches DEF BranchName
<1>3. CASE slugs # {} /\ \E b \in slugs : slugs = {b}
  BY <1>1, <1>3 DEF BranchName
<1>4. CASE slugs # {} /\ ~ \E b \in slugs : slugs = {b}
  BY <1>4, SlugsAreBranches DEF BranchName
<1>. QED
  BY <1>2, <1>3, <1>4

(* branchName never yields the branch documentation is merged into.        *)
LEMMA BranchNameIsNotMain ==
    ASSUME RunTypeOK
    PROVE  BranchName # Main
<1>. DEFINE slugs == {plan[i].audience : i \in Bodies} \ {Nil}
<1>1. slugs \subseteq Branch \ {Main}
  BY PlanEntry DEF Bodies
<1>2. CASE slugs = {}
  BY <1>2, LocalRunAssumption DEF BranchName
<1>3. CASE slugs # {} /\ \E b \in slugs : slugs = {b}
  BY <1>1, <1>3 DEF BranchName
<1>4. CASE slugs # {} /\ ~ \E b \in slugs : slugs = {b}
  BY <1>4, LocalRunAssumption DEF BranchName
<1>. QED
  BY <1>2, <1>3, <1>4

(* Apply without anything to write keeps the invariant.                    *)
LEMMA PlanNothingInv == IInv /\ PlanNothing => IInv'
<1>. SUFFICES ASSUME IInv, PlanNothing PROVE IInv'
  OBVIOUS
<1>1. RepoTypeOK'
  BY RepoUnchanged DEF IInv, TypeOK, PlanNothing
<1>2. (IF dry THEN "written" ELSE "nothing") \in Outcomes
  BY DEF Outcomes
<1>. QED
  BY <1>1, <1>2, PlanDocs, FinishKeeps DEF IInv, TypeOK, PlanNothing

(* The write plan of Apply keeps the invariant.                            *)
LEMMA PlanWritesInv == IInv /\ PlanWrites => IInv'
<1>. SUFFICES ASSUME IInv, PlanWrites PROVE IInv'
  OBVIOUS
<1>1. RepoTypeOK'
  BY RepoUnchanged DEF IInv, TypeOK, PlanWrites
<1>2. /\ k' \in Nat /\ k' \in DOMAIN plan /\ plan[k'].text # Nil
      /\ pc' \in {"write", "branch"}
      /\ plan' = plan
  BY NextBody DEF IInv, TypeOK, PlanWrites
<1>3. skipped' \subseteq Doc
  BY PlanDocs DEF IInv, TypeOK, PlanWrites
<1>4. RunTypeOK'
  BY <1>2, <1>3
  DEF IInv, TypeOK, RunTypeOK, PlanWrites, Phases, settings, entryVars
<1>5. ControlOK'
  BY <1>2 DEF IInv, ControlOK, PlanWrites, HasBodies, Phases, repoVars
<1>. QED
  BY <1>1, <1>4, <1>5 DEF IInv, TypeOK

(* Resolving HEAD and the branch keeps the invariant: the branch is free.  *)
LEMMA ResolveBranchInv == IInv /\ ResolveBranch => IInv'
<1>. SUFFICES ASSUME IInv, ResolveBranch PROVE IInv'
  OBVIOUS
<1>1. RepoTypeOK'
  BY RepoUnchanged DEF IInv, TypeOK, ResolveBranch
<1>2. branch' \in Branch /\ base' \in Nat /\ base' \in Commit
  BY BranchNameType, HeadIsCommit DEF IInv, TypeOK, ResolveBranch
<1>3. RunTypeOK'
  BY <1>2
  DEF IInv, TypeOK, RunTypeOK, ResolveBranch, Phases, settings, entryVars, resultVars
<1>4. ControlOK'
  BY <1>2 DEF IInv, ControlOK, ResolveBranch, HasBodies, Phases, repoVars, Commit
<1>. QED
  BY <1>1, <1>3, <1>4 DEF IInv, TypeOK

(* ErrBranchExists keeps the invariant.                                    *)
LEMMA BranchExistsInv == IInv /\ BranchExists => IInv'
<1>. SUFFICES ASSUME IInv, BranchExists PROVE IInv'
  OBVIOUS
<1>1. RepoTypeOK'
  BY RepoUnchanged DEF IInv, TypeOK, BranchExists
<1>2. skipped \in SUBSET Doc /\ "exists" \in Outcomes
  BY DEF IInv, TypeOK, RunTypeOK, Outcomes
<1>. QED
  BY <1>1, <1>2, FinishKeeps DEF IInv, TypeOK, BranchExists, Finish

(* SetReference keeps the invariant.                                       *)
LEMMA CreateRefInv == IInv /\ CreateRef => IInv'
<1>. SUFFICES ASSUME IInv, CreateRef PROVE IInv'
  OBVIOUS
<1>1. base \in 1 .. Len(commits) /\ branch \in Branch
  BY DEF IInv, TypeOK, RunTypeOK, ControlOK, CreateRef, Commit
<1>2. refs' \in [Branch -> 0 .. Len(commits)] /\ refs'[branch] # 0
      /\ \A b \in Branch : refs[b] # 0 => refs'[b] # 0
  BY <1>1 DEF IInv, TypeOK, RepoTypeOK, CreateRef
<1>3. RepoTypeOK'
  BY <1>2, RepositoryAssumption DEF IInv, TypeOK, RepoTypeOK, CreateRef
<1>4. RunTypeOK'
  BY DEF IInv, TypeOK, RunTypeOK, CreateRef, Phases, settings, entryVars, applyVars,
         resultVars
<1>5. refs'[branch] = base /\ head # branch
  BY <1>1 DEF IInv, TypeOK, RepoTypeOK, ControlOK, CreateRef
<1>6. ControlOK'
  BY <1>1, <1>5 DEF IInv, ControlOK, CreateRef, HasBodies, Phases, applyVars, Commit
<1>. QED
  BY <1>3, <1>4, <1>6 DEF IInv, TypeOK

(* A phase that has a base has a commit.                                   *)
LEMMA BaseIsCommit ==
    ASSUME IInv, pc \in {"ref", "checkout", "resetIndex", "resetFiles"}
    PROVE  base \in Commit /\ base \in 1 .. Len(commits) /\ base # 0 /\ branch \in Branch
<1>1. base \in Commit /\ branch \in Branch
  BY DEF IInv, TypeOK, RunTypeOK, ControlOK
<1>2. Len(commits) \in Nat
  BY DEF IInv, TypeOK, RepoTypeOK
<1>. QED
  BY <1>1, <1>2 DEF Commit

(* A checkout refused because of unstaged changes keeps the invariant,     *)
(* though HEAD has moved.                                                  *)
LEMMA CheckoutRefusedInv == IInv /\ CheckoutRefused => IInv'
<1>. SUFFICES ASSUME IInv, CheckoutRefused PROVE IInv'
  OBVIOUS
<1>1. RepoTypeOK'
  BY BaseIsCommit DEF IInv, TypeOK, RepoTypeOK, ControlOK, CheckoutRefused
<1>2. skipped \in SUBSET Doc /\ "unstaged" \in Outcomes
  BY DEF IInv, TypeOK, RunTypeOK, Outcomes
<1>. QED
  BY <1>1, <1>2, FinishKeeps DEF IInv, TypeOK, CheckoutRefused, Finish

(* HEAD on the new branch keeps the invariant.                             *)
LEMMA CheckoutHeadInv == IInv /\ CheckoutHead => IInv'
<1>. SUFFICES ASSUME IInv, CheckoutHead PROVE IInv'
  OBVIOUS
<1>1. base \in Commit /\ branch \in Branch /\ refs[branch] = base /\ base # 0
  BY BaseIsCommit DEF IInv, ControlOK, CheckoutHead
<1>2. RepoTypeOK'
  BY <1>1 DEF IInv, TypeOK, RepoTypeOK, CheckoutHead
<1>3. RunTypeOK'
  BY DEF IInv, TypeOK, RunTypeOK, CheckoutHead, Phases, settings, entryVars, applyVars,
         resultVars
<1>4. ControlOK'
  BY <1>1 DEF IInv, ControlOK, CheckoutHead, HasBodies, Phases, applyVars, Commit
<1>. QED
  BY <1>2, <1>3, <1>4 DEF IInv, TypeOK

(* setHEADCommit and resetIndex keep the invariant.                        *)
LEMMA ResetIndexInv == IInv /\ ResetIndex => IInv'
<1>. SUFFICES ASSUME IInv, ResetIndex PROVE IInv'
  OBVIOUS
<1>1. base \in Commit /\ base \in 1 .. Len(commits) /\ base # 0 /\ head = branch
  BY BaseIsCommit DEF IInv, ControlOK, ResetIndex
<1>2. TreeOf(base) \in Tree
  BY <1>1, CommittedTree DEF IInv, TypeOK
<1>3. refs' \in [Branch -> 0 .. Len(commits)] /\ refs'[head] # 0 /\ refs'[Main] # 0
  <2>1. refs \in [Branch -> 0 .. Len(commits)] /\ head \in Branch /\ refs[Main] # 0
        /\ base \in 0 .. Len(commits)
    BY <1>1 DEF IInv, TypeOK, RepoTypeOK
  <2>2. refs' = [refs EXCEPT ![head] = base] /\ head' = head
    BY DEF ResetIndex
  <2>. QED
    BY <1>1, <2>1, <2>2, RepositoryAssumption
<1>4. RepoTypeOK'
  BY <1>2, <1>3 DEF IInv, TypeOK, RepoTypeOK, ResetIndex
<1>5. removed' \in [src : SUBSET Src, doc : SUBSET Doc, side : SUBSET Sidecar]
  BY <1>2, ChangesType DEF ResetIndex
<1>6. RunTypeOK'
  BY <1>5 DEF IInv, TypeOK, RunTypeOK, ResetIndex, Phases, settings, entryVars, resultVars
<1>7. ControlOK'
  BY <1>1 DEF IInv, ControlOK, ResetIndex, HasBodies, Phases, Commit
<1>. QED
  BY <1>4, <1>6, <1>7 DEF IInv, TypeOK

(* resetWorktree keeps the invariant.                                      *)
LEMMA ResetFilesInv == IInv /\ ResetFiles => IInv'
<1>. SUFFICES ASSUME IInv, ResetFiles PROVE IInv'
  OBVIOUS
<1>1. TreeOf(base) \in Tree
  BY CommittedTree DEF IInv, TypeOK, ControlOK, ResetFiles
<1>2. worktree' \in Tree
  BY <1>1, RestoredTreeType DEF IInv, TypeOK, RepoTypeOK, ResetFiles
<1>3. RepoTypeOK'
  BY <1>2 DEF IInv, TypeOK, RepoTypeOK, ResetFiles
<1>4. RunTypeOK'
  BY NoFilesType
  DEF IInv, TypeOK, RunTypeOK, ResetFiles, Phases, settings, entryVars, resultVars
<1>5. ControlOK'
  BY DEF IInv, ControlOK, ResetFiles, HasBodies, Phases
<1>. QED
  BY <1>3, <1>4, <1>5 DEF IInv, TypeOK

(* A tree with a document rewritten is a tree.                             *)
LEMMA PageWritten ==
    ASSUME NEW tree \in Tree, NEW d \in Doc, NEW page \in Page
    PROVE  [tree EXCEPT !.doc[d] = page] \in Tree
BY DEF Tree

(* A tree with a sidecar rewritten is a tree.                              *)
LEMMA RecordsSaved ==
    ASSUME NEW tree \in Tree, NEW w \in Sidecar, NEW recs \in Records
    PROVE  [tree EXCEPT !.side[w] = recs] \in Tree
BY DEF Tree

(* The steps of phase 3 end in one of three ways: the next document, the   *)
(* staging, or the end of a dry run.                                       *)
LEMMA AfterWriteKeeps ==
    ASSUME IInv, pc \in {"write", "sidecar"}, AfterWrite,
           touched' \subseteq Sidecar, commits' = commits
    PROVE  RunTypeOK' /\ ControlOK'
<1>1. k \in Nat /\ k \in DOMAIN plan /\ plan[k].text # Nil
  BY DEF IInv, TypeOK, RunTypeOK, ControlOK, HasBodies
<1>2. /\ k' \in Nat /\ k' \in DOMAIN plan /\ plan[k'].text # Nil
      /\ pc' \in {"write", "stage"} /\ plan' = plan
  BY <1>1, NextBody DEF IInv, TypeOK, AfterWrite
<1>3. RunTypeOK'
  BY <1>2 DEF IInv, TypeOK, RunTypeOK, AfterWrite, Phases, settings, entryVars, resultVars
<1>4. ControlOK'
  BY <1>2 DEF IInv, ControlOK, HasBodies, Phases
<1>. QED
  BY <1>3, <1>4

(* The end of a dry run keeps the invariant.                               *)
LEMMA DryRunEnds ==
    ASSUME IInv, Finish("written")
    PROVE  RunTypeOK' /\ ControlOK'
<1>1. skipped \in SUBSET Doc /\ "written" \in Outcomes
  BY DEF IInv, TypeOK, RunTypeOK, Outcomes
<1>. QED
  BY <1>1, FinishKeeps DEF IInv, TypeOK, Finish

(* The entry being written has a body, and a sidecar when one is written.  *)
LEMMA PlannedEntry ==
    ASSUME IInv, pc \in {"write", "sidecar"}
    PROVE  /\ plan[k].doc \in Doc /\ plan[k].sha \in Mark /\ plan[k].text \in Text
           /\ plan[k].side \in Sidecar \cup {Nil}
           /\ pc = "sidecar" => plan[k].side \in Sidecar
<1>1. k \in DOMAIN plan /\ plan[k].text # Nil
  BY DEF IInv, ControlOK, HasBodies
<1>2. pc = "sidecar" => plan[k].side # Nil
  BY DEF IInv, ControlOK
<1>. QED
  BY <1>1, <1>2, PlanEntry DEF IInv, TypeOK

(* A step that only writes files keeps the repository well-formed.         *)
LEMMA WorktreeWritten ==
    ASSUME RepoTypeOK, worktree' \in Tree, UNCHANGED << commits, refs, head, index, edits >>
    PROVE  RepoTypeOK'
BY DEF RepoTypeOK

(* WriteFile keeps the invariant.                                          *)
LEMMA WriteFileInv == IInv /\ WriteFile => IInv'
<1>. SUFFICES ASSUME IInv, WriteFile PROVE IInv'
  OBVIOUS
<1>1. [mark |-> plan[k].sha, shows |-> plan[k].text] \in Page
  BY PlannedEntry DEF WriteFile, Page
<1>2. worktree' \in Tree
  BY <1>1, PlannedEntry, PageWritten DEF IInv, TypeOK, RepoTypeOK, WriteFile
<1>3. RepoTypeOK'
  BY <1>2, WorktreeWritten DEF IInv, TypeOK, WriteFile
<1>4. CASE AfterWrite /\ UNCHANGED touched
  <2>1. pc = "write" /\ commits' = commits /\ touched' \subseteq Sidecar
    BY <1>4 DEF IInv, TypeOK, RunTypeOK, WriteFile
  <2>. QED
    BY <1>3, <1>4, <2>1, AfterWriteKeeps DEF IInv, TypeOK
<1>5. CASE Finish("written")
  BY <1>3, <1>5, DryRunEnds DEF IInv, TypeOK
<1>. QED
  BY <1>4, <1>5 DEF WriteFile

(* WriteFileNoFrontmatter keeps the invariant.                             *)
LEMMA WriteFileNoFrontmatterInv == IInv /\ WriteFileNoFrontmatter => IInv'
<1>. SUFFICES ASSUME IInv, WriteFileNoFrontmatter PROVE IInv'
  OBVIOUS
<1>1. [mark |-> NoMark, shows |-> plan[k].text] \in Page
  BY PlannedEntry DEF WriteFileNoFrontmatter, Page, Mark, NoMark
<1>2. worktree' \in Tree
  BY <1>1, PlannedEntry, PageWritten
  DEF IInv, TypeOK, RepoTypeOK, WriteFileNoFrontmatter
<1>3. RepoTypeOK'
  BY <1>2, WorktreeWritten DEF IInv, TypeOK, WriteFileNoFrontmatter
<1>4. RunTypeOK'
  BY DEF IInv, TypeOK, RunTypeOK, WriteFileNoFrontmatter, Phases, settings, entryVars,
         applyVars, resultVars
<1>5. ControlOK'
  BY DEF IInv, ControlOK, WriteFileNoFrontmatter, HasBodies, Phases, applyVars
<1>. QED
  BY <1>3, <1>4, <1>5 DEF IInv, TypeOK

(* Load, Upsert and Save of a sidecar keep the invariant.                  *)
LEMMA SaveSidecarInv == IInv /\ SaveSidecar => IInv'
<1>. SUFFICES ASSUME IInv, SaveSidecar PROVE IInv'
  OBVIOUS
<1>. DEFINE recs == Load(worktree.side[plan[k].side])
<1>1. /\ plan[k].doc \in Doc /\ plan[k].sha \in Mark /\ plan[k].side \in Sidecar
      /\ worktree \in Tree
  BY PlannedEntry DEF IInv, TypeOK, RepoTypeOK, SaveSidecar
<1>2. recs \in Records
  <2>1. << >> \in Records
    BY EmptySeq DEF Records
  <2>. QED
    BY <1>1, <2>1, TreeParts DEF Load
<1>3. Upsert(recs, plan[k].doc, plan[k].sha) \in Records
  BY <1>1, <1>2, UpsertType
<1>4. worktree' \in Tree
  BY <1>1, <1>3, RecordsSaved DEF SaveSidecar
<1>5. RepoTypeOK'
  BY <1>4, WorktreeWritten DEF IInv, TypeOK, SaveSidecar
<1>6. CASE AfterWrite /\ touched' = touched \cup {plan[k].side}
  <2>1. pc = "sidecar" /\ commits' = commits /\ touched' \subseteq Sidecar
    BY <1>1, <1>6 DEF IInv, TypeOK, RunTypeOK, SaveSidecar
  <2>. QED
    BY <1>5, <1>6, <2>1, AfterWriteKeeps DEF IInv, TypeOK
<1>7. CASE Finish("written")
  BY <1>5, <1>7, DryRunEnds DEF IInv, TypeOK
<1>. QED
  BY <1>6, <1>7 DEF SaveSidecar

(* Staging keeps the invariant.                                            *)
LEMMA StageFilesInv == IInv /\ StageFiles => IInv'
<1>. SUFFICES ASSUME IInv, StageFiles PROVE IInv'
  OBVIOUS
<1>1. index' \in Tree
  BY StagedType DEF IInv, TypeOK, RepoTypeOK, StageFiles
<1>2. RepoTypeOK'
  BY <1>1 DEF IInv, TypeOK, RepoTypeOK, StageFiles
<1>3. RunTypeOK'
  BY DEF IInv, TypeOK, RunTypeOK, StageFiles, Phases, settings, entryVars, applyVars,
         resultVars
<1>4. ControlOK'
  BY DEF IInv, ControlOK, StageFiles, HasBodies, Phases, applyVars
<1>. QED
  BY <1>2, <1>3, <1>4 DEF IInv, TypeOK

(* The commit, and the refusal of an empty one, keep the invariant.        *)
LEMMA CommitIndexInv == IInv /\ CommitIndex => IInv'
<1>. SUFFICES ASSUME IInv, CommitIndex PROVE IInv'
  OBVIOUS
<1>1. CASE index = HeadTree
  <2>1. RepoTypeOK'
    BY <1>1, RepoUnchanged DEF IInv, TypeOK, CommitIndex, repoVars
  <2>2. skipped \in SUBSET Doc /\ "empty commit" \in Outcomes
    BY DEF IInv, TypeOK, RunTypeOK, Outcomes
  <2>. QED
    BY <1>1, <2>1, <2>2, FinishKeeps DEF IInv, TypeOK, CommitIndex, Finish
<1>2. CASE index # HeadTree
  <2>1. RoomForCommit
    BY DEF IInv, ControlOK, CommitIndex, Phases, RoomForCommit
  <2>2. index \in Tree /\ AppendCommit(index)
    BY <1>2 DEF IInv, TypeOK, RepoTypeOK, CommitIndex
  <2>3. RepoTypeOK'
    BY <2>1, <2>2, AppendCommitType DEF IInv, TypeOK, RepoTypeOK, CommitIndex
  <2>4. RunTypeOK'
    BY <1>2 DEF IInv, TypeOK, RunTypeOK, CommitIndex, Phases, settings, entryVars,
                applyVars, resultVars
  <2>5. ControlOK'
    BY <1>2 DEF IInv, ControlOK, CommitIndex, HasBodies, Phases, applyVars
  <2>. QED
    BY <2>3, <2>4, <2>5 DEF IInv, TypeOK
<1>. QED
  BY <1>1, <1>2

(* The end of a run after its commit keeps the invariant.                  *)
LEMMA DoneInv == IInv /\ Done => IInv'
<1>. SUFFICES ASSUME IInv, Done PROVE IInv'
  OBVIOUS
<1>1. RepoTypeOK'
  BY RepoUnchanged DEF IInv, TypeOK, Done
<1>2. skipped \in SUBSET Doc /\ "committed" \in Outcomes
  BY DEF IInv, TypeOK, RunTypeOK, Outcomes
<1>. QED
  BY <1>1, <1>2, FinishKeeps DEF IInv, TypeOK, Done, Finish

(* A failure at any point, half-written files included, keeps the          *)
(* invariant.                                                              *)
LEMMA FailureInv == IInv /\ Failure => IInv'
<1>. SUFFICES ASSUME IInv, Failure PROVE IInv'
  OBVIOUS
<1>1. ASSUME Finish("failed") PROVE RunTypeOK' /\ ControlOK'
  <2>1. skipped \in SUBSET Doc /\ "failed" \in Outcomes
    BY DEF IInv, TypeOK, RunTypeOK, Outcomes
  <2>. QED
    BY <1>1, <2>1, FinishKeeps DEF IInv, TypeOK, Finish
<1>2. CASE FailCleanly
  BY <1>1, <1>2, RepoUnchanged DEF IInv, TypeOK, FailCleanly
<1>3. CASE FailTorn
  <2>1. worktree \in Tree
    BY DEF IInv, TypeOK, RepoTypeOK
  <2>2. EmptyPage \in Page
    BY DEF EmptyPage, Page, Mark, NoMark, NoText, Text
  <2>3. << >> \in Records
    BY EmptySeq DEF Records
  <2>4. CASE pc = "write" /\ worktree' = [worktree EXCEPT !.doc[plan[k].doc] = EmptyPage]
    <3>1. worktree' \in Tree
      BY <2>1, <2>2, <2>4, PlannedEntry, PageWritten
    <3>. QED
      BY <1>1, <1>3, <3>1, WorktreeWritten DEF IInv, TypeOK, FailTorn
  <2>5. CASE pc = "sidecar" /\ worktree' = [worktree EXCEPT !.side[plan[k].side] = << >>]
    <3>1. worktree' \in Tree
      BY <2>1, <2>3, <2>5, PlannedEntry, RecordsSaved
    <3>. QED
      BY <1>1, <1>3, <3>1, WorktreeWritten DEF IInv, TypeOK, FailTorn
  <2>. QED
    BY <1>3, <2>4, <2>5 DEF FailTorn
<1>4. CASE FailStaging
  <2>1. PICK n \in 0 .. Len(plan), sides \in SUBSET touched :
            index' = Staged(index, worktree,
                            {plan[i].doc : i \in {j \in Bodies : j <= n}}, sides)
    BY <1>4 DEF FailStaging
  <2>2. index' \in Tree
    BY <2>1, StagedType DEF IInv, TypeOK, RepoTypeOK
  <2>3. RepoTypeOK'
    BY <1>4, <2>2 DEF IInv, TypeOK, RepoTypeOK, FailStaging
  <2>. QED
    BY <1>1, <1>4, <2>3 DEF IInv, TypeOK, FailStaging
<1>. QED
  BY <1>2, <1>3, <1>4 DEF Failure

(* A step that leaves the run alone leaves its types.                      *)
LEMMA RunUnchanged ==
    ASSUME RunTypeOK, UNCHANGED runVars
    PROVE  RunTypeOK'
BY DEF RunTypeOK, runVars, settings, entryVars, applyVars, resultVars

(* What developers do during a run keeps the invariant: a commit of theirs *)
(* moves only the branch HEAD names, which is never the one about to be    *)
(* created.                                                                *)
LEMMA DeveloperInv == IInv /\ Developer => IInv'
<1>. SUFFICES ASSUME IInv, Developer PROVE IInv'
  OBVIOUS
<1>1. RunTypeOK' /\ UNCHANGED << pc, cur, plan, k, branch, base >>
  BY RunUnchanged
  DEF IInv, TypeOK, Developer, runVars, settings, entryVars, applyVars, resultVars
<1>2. PICK s \in Src :
        \/ (pc # "idle" => Len(commits) + 1 < MaxCommits) /\ DevCommit(s)
        \/ DevEdit(s)
        \/ DevStage(s)
  BY DEF Developer
<1>3. RepoTypeOK'
  BY <1>2, DevCommitType, DevEditType, DevStageType DEF IInv, TypeOK
<1>4. CASE DevEdit(s) \/ DevStage(s)
  <2>1. UNCHANGED << commits, refs, head >>
    BY <1>4 DEF DevEdit, DevStage
  <2>2. ControlOK'
    BY <1>1, <2>1 DEF IInv, ControlOK, HasBodies, Phases, Commit
  <2>. QED
    BY <1>1, <1>3, <2>2 DEF IInv, TypeOK
<1>5. CASE (pc # "idle" => Len(commits) + 1 < MaxCommits) /\ DevCommit(s)
  <2>1. /\ Len(commits') = Len(commits) + 1 /\ Len(commits) \in Nat
        /\ refs' = [refs EXCEPT ![head] = Len(commits) + 1] /\ head' = head
    BY <1>5 DEF IInv, TypeOK, RepoTypeOK, DevCommit, AppendCommit
  <2>2. refs \in [Branch -> 0 .. Len(commits)] /\ refs[head] # 0 /\ head \in Branch
    BY DEF IInv, TypeOK, RepoTypeOK
  <2>3. \A b \in Branch : /\ refs[b] # 0 => refs'[b] # 0
                          /\ refs[b] = 0 => refs'[b] = 0
                          /\ b # head => refs'[b] = refs[b]
    BY <2>1, <2>2
  <2>4. branch \in Branch
    BY DEF IInv, TypeOK, RunTypeOK
  <2>5. base \in Commit => base \in Commit'
    BY <2>1 DEF Commit
  <2>6. pc # "idle" => Len(commits') < MaxCommits
    BY <1>5, <2>1
  <2>7. "idle" \notin Phases
    BY DEF Phases
  <2>8. ControlOK'
    BY <1>1, <2>1, <2>3, <2>4, <2>5, <2>6, <2>7 DEF IInv, ControlOK, HasBodies
  <2>. QED
    BY <1>1, <1>3, <2>8 DEF IInv, TypeOK
<1>. QED
  BY <1>2, <1>4, <1>5

(* Between runs there is nothing to control.                               *)
LEMMA IdleControl == pc' = "idle" => ControlOK'
BY DEF ControlOK, HasBodies, Phases

(* Editing the manifest between runs keeps the invariant.                  *)
LEMMA ChangeModeInv == IInv /\ ChangeMode => IInv'
<1>. SUFFICES ASSUME IInv, ChangeMode PROVE IInv'
  OBVIOUS
<1>1. RepoTypeOK'
  BY RepoUnchanged DEF IInv, TypeOK, ChangeMode
<1>2. mode' \in [Doc -> Sidecar \cup {Nil}]
  BY Settings DEF ChangeMode
<1>3. modeChanges' \in 0 .. MaxModeChanges
  BY Settings DEF IInv, TypeOK, RunTypeOK, ChangeMode
<1>4. RunTypeOK'
  BY <1>2, <1>3
  DEF IInv, TypeOK, RunTypeOK, ChangeMode, entryVars, applyVars, resultVars
<1>5. ControlOK'
  BY IdleControl DEF ChangeMode
<1>. QED
  BY <1>1, <1>4, <1>5 DEF IInv, TypeOK

(* What the operator does between runs keeps the invariant.                *)
LEMMA OperatorInv == IInv /\ Operator => IInv'
<1>. SUFFICES ASSUME IInv, Operator PROVE IInv'
  OBVIOUS
<1>1. PICK b \in Branch : \/ ForceCheckout(b) \/ SwitchBranch(b)
                          \/ DeleteBranch(b) \/ MergeBranch(b)
  BY DEF Operator
<1>2. RepoTypeOK'
  BY <1>1, ForceCheckoutType, SwitchBranchType, DeleteBranchType, MergeBranchType
  DEF IInv, TypeOK
<1>3. RunTypeOK' /\ pc' = "idle"
  BY RunUnchanged DEF IInv, TypeOK, Operator, runVars
<1>. QED
  BY <1>2, <1>3, IdleControl DEF IInv, TypeOK

(* Every step keeps the invariant.                                         *)
LEMMA NextInv == IInv /\ [Next]_vars => IInv'
<1>. SUFFICES ASSUME IInv, [Next]_vars PROVE IInv'
  OBVIOUS
<1>1. CASE LocalStep
  <2>1. CASE AssembleStep
    BY <2>1, ReadDocInv, ComputeDiffInv, OverBudgetInv, SkipEntryInv, ResolveHEADInv,
       GenerateInv DEF AssembleStep
  <2>2. CASE ApplyStep
    BY <2>2, PlanNothingInv, PlanWritesInv, ResolveBranchInv, BranchExistsInv, CreateRefInv,
       CheckoutRefusedInv, CheckoutHeadInv, ResetIndexInv, ResetFilesInv, WriteFileInv,
       WriteFileNoFrontmatterInv, SaveSidecarInv, StageFilesInv, CommitIndexInv DEF ApplyStep
  <2>. QED
    BY <1>1, <2>1, <2>2, StartInv, FailureInv DEF LocalStep
<1>2. CASE Done
  BY <1>2, DoneInv
<1>3. CASE Environment
  BY <1>3, DeveloperInv, ChangeModeInv, OperatorInv DEF Environment
<1>4. CASE UNCHANGED vars
  BY <1>4, RepoUnchanged, RunUnchanged
  DEF IInv, TypeOK, ControlOK, vars, repoVars, runVars, settings, entryVars, applyVars,
      resultVars, Commit
<1>. QED
  BY <1>1, <1>2, <1>3, <1>4 DEF Next

(* Every variable of every run has its type: every commit is a well-formed *)
(* tree, every watermark a commit number, every plan a sequence of         *)
(* entries.                                                                *)
THEOREM TypeCorrect == Spec => []TypeOK
<1>1. IInv => TypeOK
  BY DEF IInv
<1>. QED
  BY <1>1, InitInv, NextInv, PTL DEF Spec

(* Every phase finds what it relies on: the loop of main.run never indexes *)
(* past the manifest, Apply never writes or stages an entry without a      *)
(* body, and SetReference never overwrites a branch, whatever developers   *)
(* commit, edit or stage meanwhile and however earlier runs ended.         *)
THEOREM ControlCorrect == Spec => []ControlOK
<1>1. IInv => ControlOK
  BY DEF IInv
<1>. QED
  BY <1>1, InitInv, NextInv, PTL DEF Spec


(* No step of a run moves a branch that HEAD does not name; the one it     *)
(* creates did not exist.                                                  *)
LEMMA BranchesStep ==
    ASSUME IInv, [Next]_vars, pc # "idle", NEW b \in Branch, refs[b] # 0, b # head
    PROVE  refs'[b] = refs[b]
<1>1. ASSUME NEW tree, AppendCommit(tree) PROVE refs'[b] = refs[b]
  BY <1>1 DEF AppendCommit, IInv, TypeOK, RepoTypeOK
<1>2. CASE CreateRef
  <2>1. refs[branch] = 0 /\ refs' = [refs EXCEPT ![branch] = base]
    BY <1>2 DEF CreateRef, IInv, ControlOK
  <2>. QED
    BY <2>1 DEF IInv, TypeOK, RepoTypeOK
<1>3. CASE CommitIndex
  BY <1>1, <1>3 DEF CommitIndex
<1>9. CASE ResetIndex
  BY <1>9 DEF ResetIndex, IInv, TypeOK, RepoTypeOK
<1>4. CASE Developer
  BY <1>1, <1>4 DEF Developer, DevCommit, DevEdit, DevStage
<1>5. CASE AssembleStep
  BY <1>5 DEF AssembleStep, ReadDoc, ComputeDiff, OverBudget, SkipEntry, ResolveHEAD, Generate,
              repoVars
<1>6. CASE ApplyStep /\ ~CreateRef /\ ~CommitIndex /\ ~ResetIndex
  BY <1>6 DEF ApplyStep, PlanNothing, PlanWrites, ResolveBranch, BranchExists, CheckoutRefused,
              CheckoutHead, ResetFiles, WriteFile, WriteFileNoFrontmatter, SaveSidecar, StageFiles, repoVars
<1>7. CASE Failure
  BY <1>7 DEF Failure, FailCleanly, FailTorn, FailStaging, repoVars
<1>8. CASE Done \/ UNCHANGED vars
  BY <1>8 DEF Done, vars, repoVars
<1>. QED
  BY <1>2, <1>3, <1>4, <1>5, <1>6, <1>7, <1>8, <1>9
  DEF Next, LocalStep, Environment, Start, ChangeMode, Operator

(* Within a run the only branches that move are the one it creates and the *)
(* one HEAD names: the ErrBranchExists test and SetReference of            *)
(* output.Apply never rewrite a docs branch that waits for its merge.      *)
THEOREM BranchesAreKept == Spec => BranchesKept
<1>1. IInv /\ [Next]_vars =>
        (pc # "idle" => \A b \in Branch : refs[b] # 0 /\ b # head => refs'[b] = refs[b])
  BY BranchesStep
<1>. QED
  BY <1>1, InitInv, NextInv, PTL DEF Spec, BranchesKept

(* A step of a run that leaves the sources of the index, of the disk and of *)
(* every branch alone exposes no file.                                     *)
LEMMA QuietStep ==
    ASSUME IInv, UNCHANGED << commits, base >>, worktree'.src = worktree.src,
           index'.src = index.src, pc # "resetFiles", pc' # "resetFiles",
           \/ /\ {pc, pc'} \cap {"ref", "checkout", "resetIndex"} = {}
              /\ UNCHANGED << refs, head >>
           \/ {pc, pc'} \subseteq {"ref", "checkout", "resetIndex"}
    PROVE  worktree'.src = worktree.src /\ Exposed' = Exposed
<1>1. CASE {pc, pc'} \cap {"ref", "checkout", "resetIndex"} = {} /\ UNCHANGED << refs, head >>
  BY <1>1 DEF Exposed, HeadTree, HeadCommit, TreeOf
<1>2. CASE {pc, pc'} \subseteq {"ref", "checkout", "resetIndex"}
  BY <1>2 DEF Exposed, TreeOf
<1>. QED
  BY <1>1, <1>2

(* resetIndex leaves exposed what was, and remembers all of it: a file it  *)
(* has not remembered had no staged change when it looked.                 *)
LEMMA ResetIndexExposes ==
    ASSUME IInv, ResetIndex
    PROVE  worktree' = worktree /\ Exposed' \subseteq Exposed
<1>1. base \in Commit /\ pc = "resetIndex" /\ pc' = "resetFiles"
  BY DEF IInv, ControlOK, ResetIndex
<1>2. TreeOf(base) \in Tree /\ index \in Tree
  BY <1>1, CommittedTree DEF IInv, TypeOK, RepoTypeOK
<1>3. HeadTree' = TreeOf(base) /\ index' = TreeOf(base)
  BY DEF IInv, TypeOK, RepoTypeOK, ResetIndex, HeadTree, HeadCommit, TreeOf
<1>4. Changed(HeadTree.src, index.src)' = {}
  BY <1>3 DEF Changed
<1>5. removed'.src = Changed(index.src, TreeOf(base).src)
  BY DEF ResetIndex, Changes
<1>6. DOMAIN index.src = Src /\ DOMAIN TreeOf(base).src = Src
  BY <1>2 DEF Tree
<1>7. Changed(index.src, TreeOf(base).src) = Changed(TreeOf(base).src, index.src)
  BY <1>6 DEF Changed
<1>8. Exposed' = removed'.src
  BY <1>1, <1>4 DEF Exposed
<1>9. Exposed = Changed(TreeOf(base).src, index.src)
  BY <1>1 DEF Exposed
<1>. QED
  BY <1>5, <1>7, <1>8, <1>9 DEF ResetIndex

(* resetWorktree writes remembered files only.                             *)
LEMMA ResetFilesExposes ==
    ASSUME IInv, ResetFiles
    PROVE  /\ \A s \in Src : s \notin Exposed => worktree'.src[s] = worktree.src[s]
           /\ Exposed' \subseteq Exposed
<1>1. TreeOf(base) \in Tree /\ pc = "resetFiles" /\ pc' = "write"
  BY CommittedTree DEF IInv, TypeOK, ControlOK, ResetFiles
<1>2. DOMAIN TreeOf(base).src = Src
  BY <1>1 DEF Tree
<1>3. worktree'.src = Restored(removed.src, index.src, TreeOf(base).src, worktree.src)
  BY DEF ResetFiles, RestoredTree
<1>4. \A s \in Src : s \notin removed.src => worktree'.src[s] = worktree.src[s]
  BY <1>2, <1>3 DEF Restored
<1>5. Exposed = Changed(HeadTree.src, index.src) \cup removed.src
  BY <1>1 DEF Exposed
<1>6. Exposed' = Changed(HeadTree.src, index.src)
  BY <1>1 DEF Exposed, ResetFiles, HeadTree, HeadCommit, TreeOf
<1>. QED
  BY <1>4, <1>5, <1>6

(* The commit of a run leaves nothing staged.                              *)
LEMMA CommitExposes ==
    ASSUME IInv, CommitIndex, pc' # "idle"
    PROVE  worktree' = worktree /\ Exposed' = {}
<1>1. pc = "commit" /\ pc' = "committed" /\ AppendCommit(index) /\ UNCHANGED << head, index, worktree >>
  BY DEF CommitIndex, Finish, FinishSkipping
<1>2. HeadCommit' = Len(commits) + 1
  BY <1>1 DEF AppendCommit, HeadCommit, IInv, TypeOK, RepoTypeOK
<1>3. commits'[Len(commits) + 1].tree = index
  BY <1>1, NewCommit DEF AppendCommit, IInv, TypeOK, RepoTypeOK
<1>4. HeadTree' = index
  BY <1>2, <1>3 DEF HeadTree, TreeOf
<1>. QED
  BY <1>1, <1>4 DEF Exposed, Changed

(* No step of a run changes a source file without a staged change, or      *)
(* stages one: the resets go over what was staged, and the writes go to    *)
(* documents and sidecars.                                                 *)
LEMMA EditsStep ==
    ASSUME IInv, [Next]_vars, pc # "idle", runVars' # runVars,
           NEW s \in Src, s \notin Exposed
    PROVE  worktree'.src[s] = worktree.src[s] /\ (pc' # "idle" => s \notin Exposed')
<1>1. worktree \in Tree /\ index \in Tree
  BY DEF IInv, TypeOK, RepoTypeOK
<1>2. CASE WriteFile \/ WriteFileNoFrontmatter \/ SaveSidecar
  <2>1. /\ UNCHANGED << commits, refs, head, index >> /\ worktree'.src = worktree.src
        /\ pc \in {"write", "sidecar"}
    BY <1>1, <1>2 DEF WriteFile, WriteFileNoFrontmatter, SaveSidecar, Tree
  <2>2. pc' = "idle" \/ (pc' \in {"write", "sidecar", "stage"} /\ base' = base)
    BY <1>2
    DEF WriteFile, WriteFileNoFrontmatter, SaveSidecar, AfterWrite, Finish, FinishSkipping,
        applyVars
  <2>. QED
    BY <2>1, <2>2, QuietStep
<1>3. CASE FailTorn
  BY <1>1, <1>3 DEF FailTorn, Finish, FinishSkipping, Tree
<1>4. CASE AssembleStep
  <2>1. UNCHANGED repoVars /\ pc \in {"read", "diff", "resolve", "generate"}
    BY <1>4 DEF AssembleStep, ReadDoc, ComputeDiff, OverBudget, SkipEntry, ResolveHEAD, Generate
  <2>2. pc' = "idle" \/ (pc' \in {"read", "diff", "resolve", "generate", "plan"} /\ base' = base)
    BY <1>4
    DEF AssembleStep, ReadDoc, ComputeDiff, OverBudget, SkipEntry, ResolveHEAD, Generate,
        AfterEntry, Finish, FinishSkipping, applyVars
  <2>. QED
    BY <2>1, <2>2, QuietStep DEF repoVars
<1>5. CASE PlanNothing \/ PlanWrites \/ BranchExists
  <2>1. UNCHANGED repoVars /\ pc \in {"plan", "branch"}
    BY <1>5 DEF PlanNothing, PlanWrites, BranchExists
  <2>2. pc' = "idle" \/ (pc' \in {"branch", "write"} /\ base' = base)
    BY <1>5 DEF PlanNothing, PlanWrites, BranchExists, Finish, FinishSkipping
  <2>. QED
    BY <2>1, <2>2, QuietStep DEF repoVars
<1>6. CASE ResolveBranch
  BY <1>6 DEF ResolveBranch, Exposed, HeadTree, HeadCommit, TreeOf, repoVars
<1>7. CASE CreateRef \/ CheckoutHead
  <2>1. /\ UNCHANGED << commits, index, worktree, base >>
        /\ pc \in {"ref", "checkout"} /\ pc' \in {"checkout", "resetIndex"}
    BY <1>7 DEF CreateRef, CheckoutHead, applyVars
  <2>. QED
    BY <2>1, QuietStep
<1>8. CASE CheckoutRefused
  BY <1>8 DEF CheckoutRefused, Finish, FinishSkipping
<1>9. CASE ResetIndex
  BY <1>9, ResetIndexExposes
<1>10. CASE ResetFiles
  BY <1>10, ResetFilesExposes
<1>11. CASE StageFiles
  <2>1. index'.src = index.src
    BY <1>1, <1>11 DEF StageFiles, Staged, Tree
  <2>2. /\ UNCHANGED << commits, refs, head, worktree, base >>
        /\ pc = "stage" /\ pc' = "commit"
    BY <1>11 DEF StageFiles, applyVars
  <2>. QED
    BY <2>1, <2>2, QuietStep
<1>12. CASE CommitIndex
  <2>1. CASE pc' = "idle"
    BY <1>12, <2>1 DEF CommitIndex
  <2>2. CASE pc' # "idle"
    BY <1>12, <2>2, CommitExposes
  <2>. QED
    BY <2>1, <2>2
<1>13. CASE FailCleanly \/ FailStaging \/ Done
  BY <1>13 DEF FailCleanly, FailStaging, Done, Finish, FinishSkipping, repoVars
<1>14. CASE Developer \/ Operator \/ UNCHANGED vars
  BY <1>14 DEF Developer, Operator, vars
<1>. QED
  BY <1>2, <1>3, <1>4, <1>5, <1>6, <1>7, <1>8, <1>9, <1>10, <1>11, <1>12, <1>13, <1>14
  DEF Next, LocalStep, ApplyStep, Failure, Environment, Start, ChangeMode

(* No run changes or removes a source file a developer has saved and not   *)
(* staged, at whatever point of output.Apply and of go-git's checkout it   *)
(* was saved: only what was staged, or committed elsewhere, when the index *)
(* was reset.                                                              *)
THEOREM EditsAreKept == Spec => EditsSurvive
<1>1. IInv /\ [Next]_vars =>
        \A s \in Src : pc # "idle" /\ runVars' # runVars /\ s \notin Exposed =>
            worktree'.src[s] = worktree.src[s] /\ (pc' # "idle" => s \notin Exposed')
  BY EditsStep
<1>. QED
  BY <1>1, InitInv, NextInv, PTL DEF Spec, EditsSurvive

=============================================================================
