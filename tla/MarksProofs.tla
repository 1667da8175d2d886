---------------------------- MODULE MarksProofs ----------------------------
(***************************************************************************)
(* What the watermarks mean, for every manifest, mode and history.  First  *)
(* their age: a watermark in a commit names an earlier one, and the stamp  *)
(* of a run is not older than the commit the run started from, so that a   *)
(* run with something to write always has something to commit.  Then their *)
(* truth: a document says, of the files it covers, exactly what the commit *)
(* its watermark names has.                                                *)
(***************************************************************************)
EXTENDS LocalRunProofs

(* What the sidecar of a tree records for a document.                      *)
SidecarMark(tree, w, d) == Lookup(Load(tree.side[w]), d)

(* Every watermark in the tree names a commit before the n-th, and every   *)
(* record has one.                                                         *)
MarksBefore(tree, n) ==
    /\ \A d \in Doc : FrontmatterOf(tree.doc[d]) < n
    /\ \A w \in Sidecar, d \in Doc :
         /\ SidecarMark(tree, w, d) < n
         /\ HasRecord(Load(tree.side[w]), d) => SidecarMark(tree, w, d) # NoMark

HistoryOK == Rooted(commits) /\ \A c \in Commit : MarksBefore(TreeOf(c), c)

FilesOK ==
    /\ MarksBefore(index, Len(commits) + 1)
    /\ MarksBefore(worktree, Len(commits) + 1)

SameDocs(t, u) == t.doc = u.doc /\ t.side = u.side

BeforeCommit == Phases \ {"committed", "request"}

(* Nothing but source files changed since the commit the run started from. *)
FromStart(c) == started <= c /\ SameDocs(TreeOf(c), TreeOf(started))

(* The phases from the reading of HEAD in Apply until the branch is set to *)
(* what it was.                                                            *)
HasBase == {"ref", "checkout", "resetIndex"}

StartOK ==
    pc \in BeforeCommit =>
        /\ started \in Commit
        /\ FromStart(HeadCommit)
        /\ pc \in HasBase => FromStart(base)

(* What a run holds in memory names commits of the history, and its stamps *)
(* are not older than its start.                                           *)
MemoryOK ==
    /\ pc = "idle" => plan = << >> /\ asm = NoContext
    /\ asm.wm <= Len(commits)
    /\ \A i \in DOMAIN plan : /\ plan[i].sha \in Commit
                              /\ pc \in BeforeCommit => started <= plan[i].sha

Written(tree, e) ==
    IF e.side = Nil
    THEN FrontmatterOf(tree.doc[e.doc]) = e.sha
    ELSE SidecarMark(tree, e.side, e.doc) = e.sha

(* What is staged, and then committed, has the stamp of the last entry     *)
(* written.                                                                *)
WrittenOK ==
    /\ pc = "stage" => Written(worktree, plan[k]) /\ plan[k].side \in touched \cup {Nil}
    /\ pc = "commit" => Written(index, plan[k])

(* The inductive invariant on the age of watermarks.                       *)
AgeInv ==
    /\ HistoryOK /\ FilesOK /\ StartOK /\ MemoryOK /\ WrittenOK
    /\ NeverEmptyCommit

-----------------------------------------------------------------------------
(* Watermarks are numbers.                                                 *)
LEMMA MarkTypes ==
    ASSUME NEW tree \in Tree, NEW d \in Doc
    PROVE  /\ FrontmatterOf(tree.doc[d]) \in Nat
           /\ \A w \in Sidecar : /\ Load(tree.side[w]) \in Records
                                 /\ SidecarMark(tree, w, d) \in Nat
<1>1. FrontmatterOf(tree.doc[d]) \in Nat
  BY TreeParts DEF FrontmatterOf, Page, Mark, NoMark
<1>2. \A w \in Sidecar : Load(tree.side[w]) \in Records
  BY TreeParts, EmptySeq DEF Load, Records
<1>3. \A w \in Sidecar : SidecarMark(tree, w, d) \in Nat
  BY <1>2, LookupType DEF SidecarMark, Mark
<1>. QED
  BY <1>1, <1>2, <1>3

(* What is before a commit is before any later one.                        *)
LEMMA MarksBeforeLater ==
    ASSUME NEW tree \in Tree, NEW n \in Nat, NEW m \in Nat, n <= m, MarksBefore(tree, n)
    PROVE  MarksBefore(tree, m)
<1>1. ASSUME NEW d \in Doc PROVE FrontmatterOf(tree.doc[d]) < m
  <2>1. FrontmatterOf(tree.doc[d]) \in Nat /\ FrontmatterOf(tree.doc[d]) < n
    BY MarkTypes DEF MarksBefore
  <2>. QED
    BY <2>1
<1>2. ASSUME NEW w \in Sidecar, NEW d \in Doc PROVE SidecarMark(tree, w, d) < m
  <2>1. SidecarMark(tree, w, d) \in Nat /\ SidecarMark(tree, w, d) < n
    BY MarkTypes DEF MarksBefore
  <2>. QED
    BY <2>1
<1>. QED
  BY <1>1, <1>2 DEF MarksBefore

(* A tree every page and sidecar of which is taken from one of two trees.  *)
Mixes(tree, t, u) ==
    /\ \A d \in Doc : tree.doc[d] \in {t.doc[d], u.doc[d]}
    /\ \A w \in Sidecar : tree.side[w] \in {t.side[w], u.side[w]}

(* Such a tree has no watermark that neither of the two has.               *)
LEMMA MarksBeforeMixes ==
    ASSUME NEW tree, NEW t, NEW u, NEW n, Mixes(tree, t, u),
           MarksBefore(t, n), MarksBefore(u, n)
    PROVE  MarksBefore(tree, n)
<1>1. ASSUME NEW d \in Doc PROVE FrontmatterOf(tree.doc[d]) < n
  BY DEF Mixes, MarksBefore
<1>2. ASSUME NEW w \in Sidecar, NEW d \in Doc
      PROVE  /\ SidecarMark(tree, w, d) < n
             /\ HasRecord(Load(tree.side[w]), d) => SidecarMark(tree, w, d) # NoMark
  BY DEF Mixes, MarksBefore, SidecarMark
<1>. QED
  BY <1>1, <1>2 DEF MarksBefore

(* Staging takes each file from the index or from the disk.                *)
LEMMA StagedMixes ==
    ASSUME NEW staged \in Tree, NEW disk \in Tree, NEW docs, NEW sides
    PROVE  Mixes(Staged(staged, disk, docs, sides), staged, disk)
BY DEF Staged, Mixes, Tree

(* resetWorktree takes each file from the target or from the disk, and a   *)
(* merge from one of its sides.                                            *)
LEMMA RestoredMixes ==
    ASSUME NEW files, NEW staged, NEW target \in Tree, NEW disk \in Tree
    PROVE  Mixes(RestoredTree(files, staged, target, disk), target, disk)
BY DEF RestoredTree, Restored, Mixes, Tree

LEMMA TakeChangesMixes ==
    ASSUME NEW fork, NEW theirs \in Tree, NEW ours \in Tree
    PROVE  Mixes(TakeChanges(fork, theirs, ours), theirs, ours)
BY DEF TakeChanges, TakeChanged, Mixes, Tree

(* A new version of a source file leaves the documentation alone.          *)
LEMMA NewVersionDocs ==
    ASSUME NEW tree \in Tree, NEW s, NEW v
    PROVE  SameDocs([tree EXCEPT !.src[s] = v], tree)
BY DEF SameDocs, Tree

(* Trees with the same documentation have the same watermarks.             *)
LEMMA MarksBeforeSame ==
    ASSUME NEW t, NEW u, NEW n, SameDocs(t, u), MarksBefore(u, n)
    PROVE  MarksBefore(t, n)
BY DEF SameDocs, MarksBefore, SidecarMark

(* A commit added to the history is no older than the watermarks in its    *)
(* tree, and leaves the other commits as they are.                         *)
LEMMA AppendAge ==
    ASSUME RepoTypeOK, HistoryOK, NEW tree \in Tree, NEW parent \in Commit,
           MarksBefore(tree, Len(commits) + 1),
           commits' = Append(commits, [tree |-> tree, parent |-> parent])
    PROVE  /\ HistoryOK'
           /\ Len(commits) \in Nat /\ Len(commits') = Len(commits) + 1
           /\ Commit \subseteq Commit'
           /\ \A c \in Commit : TreeOf(c)' = TreeOf(c)
           /\ \A c : c = Len(commits') => c \in Commit' /\ TreeOf(c)' = tree
<1>1. /\ Rooted(commits')
      /\ Len(commits) \in Nat /\ Len(commits') = Len(commits) + 1
      /\ \A c \in Commit : commits'[c] = commits[c]
      /\ commits'[Len(commits')] = [tree |-> tree, parent |-> parent]
  BY AppendKeepsHistory DEF HistoryOK
<1>2. /\ Commit \subseteq Commit'
      /\ \A c \in Commit : TreeOf(c)' = TreeOf(c)
      /\ \A c : c = Len(commits') => c \in Commit' /\ TreeOf(c)' = tree
      /\ \A c \in Commit' : c \in Commit \/ c = Len(commits')
  BY <1>1 DEF Commit, TreeOf
<1>3. \A c \in Commit' : MarksBefore(TreeOf(c)', c)
  BY <1>1, <1>2 DEF HistoryOK
<1>4. HistoryOK'
  BY <1>1, <1>3 DEF HistoryOK
<1>. QED
  BY <1>1, <1>2, <1>4

(* The tree of a commit is no younger than the whole history.              *)
LEMMA CommitMarks ==
    ASSUME RepoTypeOK, HistoryOK, NEW c \in Commit
    PROVE  MarksBefore(TreeOf(c), Len(commits) + 1) /\ TreeOf(c) \in Tree
<1>1. TreeOf(c) \in Tree
  BY CommittedTree
<1>2. c \in Nat /\ Len(commits) + 1 \in Nat /\ c <= Len(commits) + 1
  BY DEF RepoTypeOK, Commit
<1>. QED
  BY <1>1, <1>2, MarksBeforeLater DEF HistoryOK

(* So is the tree of a squash merge.                                       *)
LEMMA MergedMarks ==
    ASSUME RepoTypeOK, HistoryOK, NEW a \in Commit, NEW b \in Commit
    PROVE  MarksBefore(Merged(a, b), Len(commits) + 1) /\ Merged(a, b) \in Tree
<1>1. /\ MarksBefore(TreeOf(a), Len(commits) + 1) /\ TreeOf(a) \in Tree
      /\ MarksBefore(TreeOf(b), Len(commits) + 1) /\ TreeOf(b) \in Tree
  BY CommitMarks
<1>2. Merged(a, b) \in Tree /\ Mixes(Merged(a, b), TreeOf(a), TreeOf(b))
  BY <1>1, TakeChangesType, TakeChangesMixes DEF Merged
<1>. QED
  BY <1>1, <1>2, MarksBeforeMixes
-----------------------------------------------------------------------------
(* The part of the invariant that is about the repository.                 *)
RepoAge == HistoryOK /\ FilesOK

(* A developer's commit: HEAD advances to a commit with its documentation. *)
LEMMA DevCommitAge ==
    ASSUME RepoTypeOK, RepoAge, NEW s \in Src, DevCommit(s)
    PROVE  /\ RepoAge'
           /\ Len(commits) \in Nat /\ Len(commits') = Len(commits) + 1
           /\ Commit \subseteq Commit'
           /\ \A c \in Commit : TreeOf(c)' = TreeOf(c)
           /\ refs' = [refs EXCEPT ![head] = Len(commits')] /\ head' = head
           /\ HeadCommit' = Len(commits') /\ SameDocs(HeadTree', HeadTree)
           /\ HeadTree' = [HeadTree EXCEPT !.src[s] = edits + 2]
<1>. DEFINE tree == [HeadTree EXCEPT !.src[s] = edits + 2]
<1>1. HeadCommit \in Commit /\ HeadTree \in Tree /\ HeadTree = TreeOf(HeadCommit)
  BY HeadIsCommit DEF HeadTree
<1>2. edits + 2 \in Nat
  BY RepositoryAssumption DEF RepoTypeOK
<1>3. tree \in Tree /\ SameDocs(tree, HeadTree)
  BY <1>1, <1>2, NewVersionType, NewVersionDocs
<1>4. MarksBefore(tree, Len(commits) + 1)
  BY <1>1, <1>3, CommitMarks, MarksBeforeSame DEF RepoAge
<1>5. /\ commits' = Append(commits, [tree |-> tree, parent |-> HeadCommit])
      /\ refs' = [refs EXCEPT ![head] = Len(commits) + 1] /\ head' = head
      /\ index' = [index EXCEPT !.src[s] = edits + 2]
      /\ worktree' = [worktree EXCEPT !.src[s] = edits + 2]
  BY DEF DevCommit, AppendCommit
<1>. HIDE DEF tree
<1>6. /\ HistoryOK'
      /\ Len(commits) \in Nat /\ Len(commits') = Len(commits) + 1
      /\ Commit \subseteq Commit'
      /\ \A c \in Commit : TreeOf(c)' = TreeOf(c)
      /\ \A c : c = Len(commits') => c \in Commit' /\ TreeOf(c)' = tree
  BY <1>1, <1>3, <1>4, <1>5, AppendAge DEF RepoAge
<1>7. HeadCommit' = Len(commits')
  BY <1>5, <1>6 DEF HeadCommit, RepoTypeOK
<1>8. HeadTree' = tree
  BY <1>6, <1>7 DEF HeadTree
<1>9. FilesOK'
  <2>1. index \in Tree /\ worktree \in Tree
    BY DEF RepoTypeOK
  <2>2. /\ index' \in Tree /\ SameDocs(index', index)
        /\ worktree' \in Tree /\ SameDocs(worktree', worktree)
    BY <1>2, <1>5, <2>1, NewVersionType, NewVersionDocs
  <2>3. MarksBefore(index', Len(commits) + 1) /\ MarksBefore(worktree', Len(commits) + 1)
    BY <2>2, MarksBeforeSame DEF RepoAge, FilesOK
  <2>. QED
    BY <1>6, <2>2, <2>3, MarksBeforeLater DEF FilesOK
<1>. QED
  BY <1>3, <1>5, <1>6, <1>7, <1>8, <1>9 DEF RepoAge, tree

(* An edit, or git add of one.                                             *)
LEMMA DevEditAge ==
    ASSUME RepoTypeOK, RepoAge, NEW s \in Src, DevEdit(s) \/ DevStage(s)
    PROVE  RepoAge' /\ UNCHANGED << commits, refs, head >>
           /\ SameDocs(index', index) /\ SameDocs(worktree', worktree)
<1>1. UNCHANGED << commits, refs, head >>
  BY DEF DevEdit, DevStage
<1>2. SameDocs(index', index) /\ SameDocs(worktree', worktree)
  <2>1. index \in Tree /\ worktree \in Tree
    BY DEF RepoTypeOK
  <2>2. SameDocs(index, index) /\ SameDocs(worktree, worktree)
    BY DEF SameDocs
  <2>3. CASE DevEdit(s)
    BY <2>1, <2>2, <2>3, NewVersionDocs DEF DevEdit
  <2>4. CASE DevStage(s)
    BY <2>1, <2>2, <2>4, NewVersionDocs DEF DevStage
  <2>. QED
    BY <2>3, <2>4
<1>3. HistoryOK'
  BY <1>1 DEF RepoAge, HistoryOK, Commit, TreeOf
<1>4. FilesOK'
  BY <1>1, <1>2, MarksBeforeSame DEF RepoAge, FilesOK
<1>. QED
  BY <1>1, <1>2, <1>3, <1>4 DEF RepoAge

(* A checkout of a commit, the only change of which is that files come from*)
(* its tree.                                                               *)
LEMMA TakenFromCommit ==
    ASSUME RepoTypeOK, RepoAge, NEW c \in Commit, commits' = commits,
           Mixes(index', TreeOf(c), index), Mixes(worktree', TreeOf(c), worktree)
    PROVE  RepoAge'
<1>1. HistoryOK'
  BY DEF RepoAge, HistoryOK, Commit, TreeOf
<1>2. MarksBefore(TreeOf(c), Len(commits) + 1)
  BY CommitMarks DEF RepoAge
<1>3. FilesOK'
  BY <1>2, MarksBeforeMixes DEF RepoAge, FilesOK
<1>. QED
  BY <1>1, <1>3 DEF RepoAge

(* The local merge of a docs branch adds a commit older than none of its   *)
(* watermarks.                                                             *)
LEMMA MergeBranchAge ==
    ASSUME RepoTypeOK, RepoAge, NEW b \in Branch, MergeBranch(b)
    PROVE  RepoAge'
<1>. DEFINE tree == Merged(refs[b], refs[Main])
<1>1. refs[b] \in Commit /\ refs[Main] \in Commit
  BY RepositoryAssumption, BranchCommit DEF MergeBranch, RepoTypeOK
<1>2. MarksBefore(tree, Len(commits) + 1) /\ tree \in Tree
  BY <1>1, MergedMarks DEF RepoAge
<1>3. commits' = Append(commits, [tree |-> tree, parent |-> refs[Main]])
      /\ index' = tree /\ worktree' = tree
  BY DEF MergeBranch
<1>. HIDE DEF tree
<1>4. HistoryOK' /\ Len(commits) \in Nat /\ Len(commits') = Len(commits) + 1
  BY <1>1, <1>2, <1>3, AppendAge DEF RepoAge
<1>5. FilesOK'
  BY <1>2, <1>3, <1>4, MarksBeforeLater DEF FilesOK
<1>. QED
  BY <1>4, <1>5 DEF RepoAge

(* What the operator does between runs.                                    *)
LEMMA OperatorAge ==
    ASSUME RepoTypeOK, RepoAge, Operator
    PROVE  RepoAge'
<1>1. PICK b \in Branch : \/ ForceCheckout(b) \/ SwitchBranch(b)
                          \/ DeleteBranch(b) \/ MergeBranch(b)
  BY DEF Operator
<1>2. CASE ForceCheckout(b)
  <2>1. refs[b] \in Commit
    BY <1>2, BranchCommit DEF ForceCheckout
  <2>2. Mixes(index', TreeOf(refs[b]), index) /\ Mixes(worktree', TreeOf(refs[b]), worktree)
        /\ commits' = commits
    BY <1>2 DEF ForceCheckout, Mixes
  <2>. QED
    BY <2>1, <2>2, TakenFromCommit
<1>3. CASE SwitchBranch(b)
  <2>1. refs[b] \in Commit /\ TreeOf(refs[b]) \in Tree
    BY <1>3, BranchCommit DEF SwitchBranch
  <2>2. Mixes(index', TreeOf(refs[b]), index) /\ commits' = commits
    BY <1>3 DEF SwitchBranch, Mixes
  <2>3. Mixes(worktree', TreeOf(refs[b]), worktree)
    BY <1>3, <2>1, StagedMixes DEF SwitchBranch, RepoTypeOK
  <2>. QED
    BY <2>1, <2>2, <2>3, TakenFromCommit
<1>4. CASE DeleteBranch(b)
  BY <1>4 DEF DeleteBranch, RepoAge, HistoryOK, FilesOK, Commit, TreeOf
<1>5. CASE MergeBranch(b)
  BY <1>5, MergeBranchAge
<1>. QED
  BY <1>1, <1>2, <1>3, <1>4, <1>5

-----------------------------------------------------------------------------
(* The steps of a run.  Those of Assemble and the decisions of Apply leave *)
(* the repository alone.                                                   *)
LEMMA SameRepoAge ==
    ASSUME RepoAge, UNCHANGED repoVars
    PROVE  RepoAge'
BY DEF RepoAge, HistoryOK, FilesOK, Commit, TreeOf, repoVars

(* The end of a run leaves nothing in memory to be wrong about.            *)
LEMMA FinishAge ==
    ASSUME TypeOK, RepoTypeOK', NEW result, NEW docs, FinishSkipping(result, docs)
    PROVE  StartOK' /\ MemoryOK' /\ WrittenOK' /\ (NeverEmptyCommit' <=> result # "empty commit")
<1>1. pc' = "idle" /\ plan' = << >> /\ asm' = NoContext /\ outcome' = result
  BY DEF FinishSkipping
<1>2. NoContext.wm = 0 /\ Len(commits') \in Nat
  BY DEF NoContext, NoMark, RepoTypeOK
<1>3. MemoryOK'
  BY <1>1, <1>2 DEF MemoryOK
<1>4. StartOK' /\ WrittenOK'
  BY <1>1 DEF StartOK, WrittenOK, BeforeCommit, Phases
<1>. QED
  BY <1>1, <1>3, <1>4 DEF NeverEmptyCommit

(* As long as the history and HEAD stay, so does what the run knows of the *)
(* commit it started from.                                                 *)
LEMMA SameStart ==
    ASSUME StartOK, pc \in BeforeCommit, UNCHANGED << commits, refs, head, started >>,
           pc' \in HasBase => base' = HeadCommit \/ (pc \in HasBase /\ base' = base)
    PROVE  StartOK'
BY DEF StartOK, FromStart, HeadCommit, TreeOf, Commit

(* A step of a run that leaves the plan alone leaves its stamps right.     *)
LEMMA SamePlan ==
    ASSUME MemoryOK, pc \in BeforeCommit, pc' # "idle",
           UNCHANGED << commits, started, plan >>, asm' \in {asm, NoContext},
           Len(commits) \in Nat
    PROVE  MemoryOK'
<1>1. asm'.wm <= Len(commits')
  BY DEF MemoryOK, NoContext, NoMark
<1>2. \A i \in DOMAIN plan' : /\ plan'[i].sha \in Commit'
                              /\ pc' \in BeforeCommit => started' <= plan'[i].sha
  BY DEF MemoryOK, Commit
<1>. QED
  BY <1>1, <1>2 DEF MemoryOK

(* The start of a run.                                                     *)
LEMMA StartAge == IInv /\ AgeInv /\ Start => AgeInv'
<1>. SUFFICES ASSUME IInv, AgeInv, Start PROVE AgeInv'
  OBVIOUS
<1>1. RepoAge'
  BY SameRepoAge DEF AgeInv, RepoAge, Start
<1>2. HeadCommit \in Commit /\ HeadCommit \in Nat
  BY HeadIsCommit DEF IInv, TypeOK
<1>3. UNCHANGED << commits, refs, head, plan, asm >> /\ pc' = "read" /\ started' = HeadCommit
      /\ outcome' = "none"
  BY DEF Start, repoVars
<1>4. StartOK'
  BY <1>2, <1>3 DEF StartOK, FromStart, SameDocs, HeadCommit, TreeOf, Commit, HasBase
<1>5. MemoryOK'
  BY <1>2, <1>3, EmptySeq DEF AgeInv, MemoryOK, Start
<1>6. WrittenOK' /\ NeverEmptyCommit'
  BY <1>3 DEF WrittenOK, NeverEmptyCommit
<1>. QED
  BY <1>1, <1>4, <1>5, <1>6 DEF AgeInv, RepoAge

(* The step that reads a document finds a watermark of the history.        *)
LEMMA ReadDocAge == IInv /\ AgeInv /\ ReadDoc => AgeInv'
<1>. SUFFICES ASSUME IInv, AgeInv, ReadDoc PROVE AgeInv'
  OBVIOUS
<1>. DEFINE d == Manifest[cur].path
<1>1. RepoAge'
  BY SameRepoAge DEF AgeInv, RepoAge, ReadDoc
<1>2. d \in Doc /\ worktree \in Tree /\ RunTypeOK /\ Len(commits) \in Nat
  BY ManifestEntry DEF IInv, TypeOK, RepoTypeOK, ControlOK, ReadDoc
<1>3. ReadWatermark(worktree, d) <= Len(commits)
  <2>1. ReadWatermark(worktree, d) < Len(commits) + 1
    BY <1>2, ReadWatermarkSource DEF AgeInv, FilesOK, MarksBefore, SidecarMark
  <2>2. ReadWatermark(worktree, d) \in Nat
    BY <1>2, ReadWatermarkType DEF Mark
  <2>. QED
    BY <1>2, <2>1, <2>2
<1>4. /\ UNCHANGED << commits, refs, head, started, plan, base, branch, outcome >>
      /\ pc = "read" /\ pc' = "diff" /\ asm'.wm = ReadWatermark(worktree, d)
  BY DEF ReadDoc, repoVars, settings, applyVars, resultVars, NoContext
<1>5. StartOK'
  BY <1>4, SameStart DEF AgeInv, BeforeCommit, HasBase, Phases
<1>6. MemoryOK'
  BY <1>3, <1>4 DEF AgeInv, MemoryOK, Commit, BeforeCommit, Phases
<1>7. WrittenOK' /\ NeverEmptyCommit'
  BY <1>4 DEF AgeInv, WrittenOK, NeverEmptyCommit
<1>. QED
  BY <1>1, <1>5, <1>6, <1>7 DEF AgeInv, RepoAge

(* The diff, the entries without one, and the decisions of Apply.          *)
LEMMA QuietAge ==
    ASSUME IInv, AgeInv, ComputeDiff \/ SkipEntry \/ PlanWrites \/ ResolveBranch
    PROVE  AgeInv'
<1>1. /\ UNCHANGED << repoVars, plan, started, outcome >>
      /\ pc \in BeforeCommit /\ pc' \in {"resolve", "read", "plan", "write", "branch", "ref"}
      /\ pc' = "ref" => base' = HeadCommit
  BY DEF ComputeDiff, SkipEntry, PlanWrites, ResolveBranch, AfterEntry, settings, entryVars,
         applyVars, resultVars, BeforeCommit, Phases
<1>2. RepoAge'
  BY <1>1, SameRepoAge DEF AgeInv, RepoAge
<1>3. StartOK'
  <2>1. /\ UNCHANGED << commits, refs, head, started >> /\ StartOK
        /\ pc' \in HasBase => base' = HeadCommit
    BY <1>1 DEF AgeInv, repoVars, HasBase
  <2>. QED
    BY <1>1, <2>1, SameStart
<1>4. MemoryOK'
  <2>1. asm'.wm \in {asm.wm, NoMark}
    <3>1. CASE ComputeDiff
      BY <3>1 DEF ComputeDiff, IInv, TypeOK, RunTypeOK
    <3>2. CASE SkipEntry \/ PlanWrites \/ ResolveBranch
      BY <3>2 DEF SkipEntry, PlanWrites, ResolveBranch, NoContext, entryVars
    <3>. QED
      BY <3>1, <3>2
  <2>2. asm'.wm <= Len(commits)
    BY <2>1 DEF AgeInv, MemoryOK, NoMark, IInv, TypeOK, RepoTypeOK
  <2>. QED
    BY <1>1, <2>2 DEF AgeInv, MemoryOK, Commit, repoVars
<1>5. WrittenOK' /\ NeverEmptyCommit'
  BY <1>1 DEF AgeInv, WrittenOK, NeverEmptyCommit
<1>. QED
  BY <1>2, <1>3, <1>4, <1>5 DEF AgeInv, RepoAge

(* The new entry is stamped with HEAD.                                     *)
LEMMA ResolveHEADAge == IInv /\ AgeInv /\ ResolveHEAD => AgeInv'
<1>. SUFFICES ASSUME IInv, AgeInv, ResolveHEAD PROVE AgeInv'
  OBVIOUS
<1>1. RepoAge'
  BY SameRepoAge DEF AgeInv, RepoAge, ResolveHEAD
<1>. DEFINE e == [doc |-> Manifest[cur].path, text |-> Nil, sha |-> HeadCommit,
                  audience |-> Manifest[cur].audience,
                  side |-> mode[Manifest[cur].path]]
<1>2. /\ UNCHANGED << repoVars, started, outcome, asm >>
      /\ pc = "resolve" /\ pc' = "generate" /\ plan' = Append(plan, e)
  BY DEF ResolveHEAD, settings, entryVars, resultVars
<1>3. e.sha \in Commit /\ started <= e.sha
  BY <1>2, HeadIsCommit DEF IInv, TypeOK, AgeInv, StartOK, FromStart, BeforeCommit, Phases
<1>4. plan \in Seq(Entry)
  BY DEF IInv, TypeOK, RunTypeOK
<1>. HIDE DEF e
<1>5. StartOK'
  BY <1>2, SameStart DEF AgeInv, BeforeCommit, HasBase, Phases, repoVars
<1>6. MemoryOK'
  <2>1. \A i \in DOMAIN plan' : plan'[i].sha \in Commit /\ started <= plan'[i].sha
    <3>1. \A i \in DOMAIN plan' : (i \in DOMAIN plan /\ plan'[i] = plan[i]) \/ plan'[i] = e
      BY <1>2, <1>4
    <3>. QED
      BY <1>2, <1>3, <3>1 DEF AgeInv, MemoryOK, BeforeCommit, Phases
  <2>. QED
    BY <1>2, <2>1 DEF AgeInv, MemoryOK, Commit, repoVars
<1>7. WrittenOK' /\ NeverEmptyCommit'
  BY <1>2 DEF AgeInv, WrittenOK, NeverEmptyCommit
<1>. QED
  BY <1>1, <1>5, <1>6, <1>7 DEF AgeInv, RepoAge

(* The answer fills in the text of the last entry.                         *)
LEMMA GenerateAge == IInv /\ AgeInv /\ Generate => AgeInv'
<1>. SUFFICES ASSUME IInv, AgeInv, Generate PROVE AgeInv'
  OBVIOUS
<1>1. RepoAge'
  BY SameRepoAge DEF AgeInv, RepoAge, Generate
<1>2. PICK text : plan' = [plan EXCEPT ![Len(plan)].text = text]
  BY DEF Generate
<1>3. /\ UNCHANGED << repoVars, started, outcome >> /\ asm' = NoContext
      /\ pc = "generate" /\ pc' \in {"read", "plan"}
  BY DEF Generate, AfterEntry, settings, resultVars
<1>4. DOMAIN plan' = DOMAIN plan /\ \A i \in DOMAIN plan : plan'[i].sha = plan[i].sha
  BY <1>2, PlanEntry DEF IInv, TypeOK, Entry
<1>5. StartOK'
  BY <1>3, SameStart DEF AgeInv, BeforeCommit, HasBase, Phases, repoVars
<1>6. MemoryOK'
  BY <1>3, <1>4 DEF AgeInv, MemoryOK, Commit, repoVars, BeforeCommit, Phases, NoContext, NoMark,
                    IInv, TypeOK, RepoTypeOK
<1>7. WrittenOK' /\ NeverEmptyCommit'
  BY <1>3 DEF AgeInv, WrittenOK, NeverEmptyCommit
<1>. QED
  BY <1>1, <1>5, <1>6, <1>7 DEF AgeInv, RepoAge

(* A tree with one page, or one sidecar, replaced.                         *)
WithPage(new, tree, d, page) ==
    /\ new.doc[d] = page /\ new.side = tree.side
    /\ \A e \in Doc : e # d => new.doc[e] = tree.doc[e]

WithFile(new, tree, w, recs) ==
    /\ new.side[w] = recs /\ new.doc = tree.doc
    /\ \A v \in Sidecar : v # w => new.side[v] = tree.side[v]

(* A page brings its own watermark and no other.                           *)
LEMMA PageMarks ==
    ASSUME NEW tree, NEW d \in Doc, NEW page, NEW new, WithPage(new, tree, d, page),
           NEW n, MarksBefore(tree, n), FrontmatterOf(page) < n
    PROVE  MarksBefore(new, n)
BY DEF WithPage, MarksBefore, SidecarMark

(* A sidecar has the records saved in it, and leaves the other sidecars'.  *)
LEMMA FileRecords ==
    ASSUME NEW tree, NEW w \in Sidecar, NEW recs, recs # Nil,
           NEW new, WithFile(new, tree, w, recs), NEW d
    PROVE  /\ SidecarMark(new, w, d) = Lookup(recs, d)
           /\ \A v \in Sidecar : v # w => SidecarMark(new, v, d) = SidecarMark(tree, v, d)
BY DEF WithFile, SidecarMark, Load

(* It brings its own watermarks and no others.                             *)
LEMMA FileMarks ==
    ASSUME NEW tree, NEW w \in Sidecar, NEW recs, recs # Nil,
           NEW new, WithFile(new, tree, w, recs),
           NEW n, MarksBefore(tree, n),
           \A d \in Doc : /\ Lookup(recs, d) < n
                          /\ HasRecord(recs, d) => Lookup(recs, d) # NoMark
    PROVE  MarksBefore(new, n)
<1>1. ASSUME NEW d \in Doc, NEW v \in Sidecar
      PROVE  /\ SidecarMark(new, v, d) < n
             /\ HasRecord(Load(new.side[v]), d) => SidecarMark(new, v, d) # NoMark
  <2>1. CASE v = w
    <3>1. Load(new.side[v]) = recs
      BY <2>1 DEF WithFile, Load
    <3>. QED
      BY <2>1, <3>1 DEF SidecarMark
  <2>2. CASE v # w
    BY <2>2 DEF WithFile, SidecarMark, MarksBefore
  <2>. QED
    BY <2>1, <2>2
<1>. QED
  BY <1>1 DEF WithFile, MarksBefore

(* A file of records is not the absence of one, and an empty one has no    *)
(* watermarks.                                                             *)
LEMMA EmptyFile ==
    /\ Nil \notin Records /\ << >> \in Records
    /\ \A d : Lookup(<< >>, d) = NoMark /\ ~HasRecord(<< >>, d)
BY RepositoryAssumption, EmptySeq DEF Records, Lookup, HasRecord

(* A page is not the absence of one.                                       *)
LEMMA PageParts ==
    ASSUME NEW m \in Mark, NEW text \in Text
    PROVE  /\ FrontmatterOf([mark |-> m, shows |-> text]) = m
           /\ TextOf([mark |-> m, shows |-> text]) = text
<1>1. [mark |-> m, shows |-> text] \in [mark : Mark, shows : [Src -> Nat]]
  BY DEF Text
<1>2. [mark |-> m, shows |-> text] # Nil
  BY <1>1, RepositoryAssumption
<1>. QED
  BY <1>2 DEF FrontmatterOf, TextOf

(* A step that only writes files keeps the ages when the worktree's are    *)
(* right.                                                                  *)
LEMMA WorktreeAge ==
    ASSUME RepoAge, UNCHANGED << commits, index >>, MarksBefore(worktree', Len(commits) + 1)
    PROVE  RepoAge'
BY DEF RepoAge, HistoryOK, FilesOK, Commit, TreeOf

(* The end of a run, once the files are known to be right.                 *)
LEMMA EndAge ==
    ASSUME IInv, IInv', RepoAge', NEW result, NEW docs, result # "empty commit",
           FinishSkipping(result, docs)
    PROVE  AgeInv'
<1>1. StartOK' /\ MemoryOK' /\ WrittenOK' /\ NeverEmptyCommit'
  BY FinishAge DEF IInv, TypeOK
<1>. QED
  BY <1>1 DEF AgeInv, RepoAge

(* The parts of the entry that is written.                                 *)
LEMMA EntryAge ==
    ASSUME IInv, AgeInv, pc \in {"write", "sidecar"}
    PROVE  /\ plan[k].sha \in Commit /\ plan[k].sha < Len(commits) + 1 /\ Len(commits) \in Nat
           /\ plan[k].sha \in Mark /\ plan[k].sha # NoMark
           /\ plan[k].doc \in Doc /\ plan[k].text \in Text
           /\ plan[k].side \in Sidecar \cup {Nil}
           /\ pc = "sidecar" => plan[k].side \in Sidecar
<1>1. k \in DOMAIN plan
  BY DEF IInv, ControlOK, HasBodies
<1>2. plan[k].sha \in Commit /\ Len(commits) \in Nat
  BY <1>1 DEF AgeInv, MemoryOK, IInv, TypeOK, RepoTypeOK
<1>. QED
  BY <1>2, PlannedEntry DEF Commit, NoMark

(* The steps of writePlanned, in what they share.                          *)
LEMMA WriteAge ==
    ASSUME IInv, IInv', AgeInv, pc \in {"write", "sidecar"},
           UNCHANGED << commits, refs, head, index >>,
           MarksBefore(worktree', Len(commits) + 1),
           \/ Finish("written") \/ Finish("failed")
           \/ /\ UNCHANGED << plan, started, outcome, asm >>
              /\ pc' \in {"write", "sidecar", "stage"}
              /\ pc' = "stage" => /\ k' = k /\ Written(worktree', plan[k])
                                  /\ plan[k].side \in touched' \cup {Nil}
    PROVE  AgeInv'
<1>1. RepoAge'
  BY WorktreeAge DEF AgeInv, RepoAge
<1>2. CASE Finish("written") \/ Finish("failed")
  BY <1>1, <1>2, EndAge DEF Finish
<1>3. CASE /\ UNCHANGED << plan, started, outcome, asm >>
           /\ pc' \in {"write", "sidecar", "stage"}
           /\ pc' = "stage" => /\ k' = k /\ Written(worktree', plan[k])
                               /\ plan[k].side \in touched' \cup {Nil}
  <2>1. pc \in BeforeCommit /\ pc' # "idle" /\ pc' \notin HasBase /\ pc' # "commit"
        /\ Len(commits) \in Nat
    BY <1>3 DEF BeforeCommit, HasBase, Phases, IInv, TypeOK, RepoTypeOK
  <2>2. StartOK'
    BY <1>3, <2>1, SameStart DEF AgeInv
  <2>3. MemoryOK'
    BY <1>3, <2>1, SamePlan DEF AgeInv
  <2>4. WrittenOK' /\ NeverEmptyCommit'
    BY <1>3, <2>1 DEF AgeInv, WrittenOK, Written, SidecarMark, NeverEmptyCommit
  <2>. QED
    BY <1>1, <2>2, <2>3, <2>4 DEF AgeInv, RepoAge
<1>. QED
  BY <1>2, <1>3

(* A page written with its stamp.                                          *)
LEMMA WriteFileAge == IInv /\ IInv' /\ AgeInv /\ WriteFile => AgeInv'
<1>. SUFFICES ASSUME IInv, IInv', AgeInv, WriteFile PROVE AgeInv'
  OBVIOUS
<1>. DEFINE page == [mark |-> plan[k].sha, shows |-> plan[k].text]
<1>1. /\ WithPage(worktree', worktree, plan[k].doc, page)
      /\ pc = "write" /\ plan[k].side = Nil /\ UNCHANGED << commits, refs, head, index >>
      /\ worktree \in Tree
  BY EntryAge DEF WriteFile, IInv, TypeOK, RepoTypeOK, Tree, WithPage
<1>2. FrontmatterOf(page) = plan[k].sha
  BY <1>1, EntryAge, PageParts
<1>. HIDE DEF page
<1>3. MarksBefore(worktree', Len(commits) + 1) /\ worktree'.doc[plan[k].doc] = page
  <2>1. /\ MarksBefore(worktree, Len(commits) + 1) /\ plan[k].doc \in Doc
        /\ FrontmatterOf(page) < Len(commits) + 1
    BY <1>1, <1>2, EntryAge DEF AgeInv, FilesOK
  <2>2. MarksBefore(worktree', Len(commits) + 1)
    BY <1>1, <2>1, PageMarks
  <2>. QED
    BY <1>1, <2>2 DEF WithPage
<1>4. Written(worktree', plan[k])
  BY <1>1, <1>2, <1>3 DEF Written
<1>5. CASE AfterWrite /\ UNCHANGED touched
  <2>1. /\ UNCHANGED << plan, started, outcome, asm >> /\ pc' \in {"write", "stage"}
        /\ pc' = "stage" => k' = k
    BY <1>5 DEF AfterWrite, settings, entryVars, resultVars
  <2>. QED
    BY <1>1, <1>3, <1>4, <2>1, WriteAge
<1>6. CASE Finish("written")
  BY <1>1, <1>3, <1>6, WriteAge
<1>. QED
  BY <1>5, <1>6 DEF WriteFile

(* A page written without one: its stamp goes to the sidecar next.         *)
LEMMA WriteFileNoFrontmatterAge ==
    IInv /\ IInv' /\ AgeInv /\ WriteFileNoFrontmatter => AgeInv'
<1>. SUFFICES ASSUME IInv, IInv', AgeInv, WriteFileNoFrontmatter PROVE AgeInv'
  OBVIOUS
<1>. DEFINE page == [mark |-> NoMark, shows |-> plan[k].text]
<1>1. /\ WithPage(worktree', worktree, plan[k].doc, page)
      /\ pc = "write" /\ pc' = "sidecar" /\ UNCHANGED << commits, refs, head, index >>
      /\ UNCHANGED << plan, started, outcome, asm >>
      /\ worktree \in Tree
  BY EntryAge DEF WriteFileNoFrontmatter, settings, entryVars, resultVars, IInv, TypeOK,
                  RepoTypeOK, Tree, WithPage
<1>2. FrontmatterOf(page) = NoMark /\ NoMark < Len(commits) + 1
  BY <1>1, EntryAge, PageParts DEF NoMark, Mark
<1>. HIDE DEF page
<1>3. MarksBefore(worktree', Len(commits) + 1)
  BY <1>1, <1>2, EntryAge, PageMarks DEF AgeInv, FilesOK
<1>. QED
  BY <1>1, <1>3, WriteAge

(* The stamp saved in the sidecar.                                         *)
LEMMA SaveSidecarAge == IInv /\ IInv' /\ AgeInv /\ SaveSidecar => AgeInv'
<1>. SUFFICES ASSUME IInv, IInv', AgeInv, SaveSidecar PROVE AgeInv'
  OBVIOUS
<1>. DEFINE w == plan[k].side
            recs == Load(worktree.side[w])
            saved == Upsert(recs, plan[k].doc, plan[k].sha)
<1>1. /\ WithFile(worktree', worktree, w, saved)
      /\ pc = "sidecar" /\ UNCHANGED << commits, refs, head, index >>
      /\ worktree \in Tree
  BY EntryAge DEF SaveSidecar, IInv, TypeOK, RepoTypeOK, Tree, WithFile
<1>2. /\ w \in Sidecar /\ plan[k].doc \in Doc /\ plan[k].sha \in Mark
      /\ plan[k].sha < Len(commits) + 1
  BY <1>1, EntryAge
<1>3. recs \in Records
  BY <1>1, <1>2, MarkTypes
<1>4. saved \in Records /\ saved # Nil
  BY <1>2, <1>3, UpsertType, EmptyFile
<1>5. \A d \in Doc : /\ Lookup(saved, d) < Len(commits) + 1
                     /\ HasRecord(saved, d) => Lookup(saved, d) # NoMark
  <2>. SUFFICES ASSUME NEW d \in Doc
                PROVE  /\ Lookup(saved, d) < Len(commits) + 1
                       /\ HasRecord(saved, d) => Lookup(saved, d) # NoMark
    OBVIOUS
  <2>1. CASE d = plan[k].doc
    BY <1>1, <1>2, <1>3, <2>1, LookupAfterUpsert, EntryAge
  <2>2. CASE d # plan[k].doc
    <3>1. Lookup(saved, d) = Lookup(recs, d) /\ (HasRecord(saved, d) <=> HasRecord(recs, d))
      BY <1>2, <1>3, <2>2, UpsertKeepsOthers
    <3>. QED
      BY <1>2, <3>1 DEF AgeInv, FilesOK, MarksBefore, SidecarMark
  <2>. QED
    BY <2>1, <2>2
<1>6. Lookup(saved, plan[k].doc) = plan[k].sha
  BY <1>2, <1>3, LookupAfterUpsert
<1>. HIDE DEF saved, recs
<1>7. /\ MarksBefore(worktree', Len(commits) + 1)
      /\ SidecarMark(worktree', w, plan[k].doc) = plan[k].sha
  <2>1. MarksBefore(worktree, Len(commits) + 1)
    BY DEF AgeInv, FilesOK
  <2>2. MarksBefore(worktree', Len(commits) + 1)
    BY <1>1, <1>2, <1>4, <1>5, <2>1, FileMarks
  <2>3. SidecarMark(worktree', w, plan[k].doc) = Lookup(saved, plan[k].doc)
    BY <1>1, <1>2, <1>4, FileRecords
  <2>. QED
    BY <1>6, <2>2, <2>3
<1>8. w # Nil
  BY <1>1 DEF IInv, ControlOK
<1>9. Written(worktree', plan[k])
  BY <1>7, <1>8 DEF Written
<1>10. CASE AfterWrite /\ touched' = touched \cup {w}
  <2>1. /\ UNCHANGED << plan, started, outcome, asm >> /\ pc' \in {"write", "stage"}
        /\ pc' = "stage" => k' = k
        /\ w \in touched'
    BY <1>10 DEF AfterWrite, settings, entryVars, resultVars
  <2>. QED
    BY <1>1, <1>7, <1>9, <2>1, WriteAge
<1>11. CASE Finish("written")
  BY <1>1, <1>7, <1>11, WriteAge
<1>. QED
  BY <1>10, <1>11 DEF SaveSidecar

(* A torn write leaves a file without watermarks.                          *)
LEMMA FailTornAge == IInv /\ IInv' /\ AgeInv /\ FailTorn => AgeInv'
<1>. SUFFICES ASSUME IInv, IInv', AgeInv, FailTorn PROVE AgeInv'
  OBVIOUS
<1>1. /\ pc \in {"write", "sidecar"} /\ UNCHANGED << commits, refs, head, index >>
      /\ Finish("failed") /\ worktree \in Tree
  BY DEF FailTorn, IInv, TypeOK, RepoTypeOK
<1>2. 0 < Len(commits) + 1
  BY <1>1, EntryAge
<1>3. MarksBefore(worktree', Len(commits) + 1)
  <2>1. CASE pc = "write" /\ worktree' = [worktree EXCEPT !.doc[plan[k].doc] = EmptyPage]
    <3>1. NoMark \in Mark /\ NoText \in Text
      BY DEF NoMark, Mark, NoText, Text
    <3>2. FrontmatterOf(EmptyPage) < Len(commits) + 1
      BY <1>2, <3>1, PageParts DEF EmptyPage, NoMark
    <3>3. plan[k].doc \in Doc /\ WithPage(worktree', worktree, plan[k].doc, EmptyPage)
      BY <1>1, <2>1, EntryAge DEF WithPage, Tree
    <3>. QED
      BY <3>2, <3>3, PageMarks DEF AgeInv, FilesOK
  <2>2. CASE pc = "sidecar" /\ worktree' = [worktree EXCEPT !.side[plan[k].side] = << >>]
    <3>1. /\ << >> # Nil
          /\ \A d \in Doc : Lookup(<< >>, d) < Len(commits) + 1 /\ ~HasRecord(<< >>, d)
      BY <1>2, EmptyFile DEF NoMark
    <3>2. plan[k].side \in Sidecar /\ WithFile(worktree', worktree, plan[k].side, << >>)
      BY <1>1, <2>2, EntryAge DEF WithFile, Tree
    <3>. QED
      BY <3>1, <3>2, FileMarks DEF AgeInv, FilesOK
  <2>. QED
    BY <2>1, <2>2 DEF FailTorn
<1>. QED
  BY <1>1, <1>3, WriteAge

(* Staging brings the watermarks of the written files into the index.      *)
LEMMA StagingAge ==
    ASSUME IInv, AgeInv, NEW docs, NEW sides, index' = Staged(index, worktree, docs, sides),
           UNCHANGED << commits, worktree >>
    PROVE  RepoAge'
<1>1. Mixes(index', index, worktree)
  BY StagedMixes DEF IInv, TypeOK, RepoTypeOK
<1>2. FilesOK'
  BY <1>1, MarksBeforeMixes DEF AgeInv, FilesOK
<1>. QED
  BY <1>2 DEF AgeInv, RepoAge, HistoryOK, Commit, TreeOf

(* Staging brings the last stamp written into the index.                   *)
LEMMA StageFilesAge == IInv /\ AgeInv /\ StageFiles => AgeInv'
<1>. SUFFICES ASSUME IInv, AgeInv, StageFiles PROVE AgeInv'
  OBVIOUS
<1>1. /\ index' = Staged(index, worktree, PlannedDocs, touched)
      /\ pc = "stage" /\ pc' = "commit"
      /\ UNCHANGED << commits, refs, head, worktree, started, plan, asm, k, outcome >>
  BY DEF StageFiles, settings, entryVars, applyVars, resultVars
<1>2. RepoAge'
  BY <1>1, StagingAge
<1>3. StartOK'
  BY <1>1, SameStart DEF AgeInv, BeforeCommit, HasBase, Phases
<1>4. MemoryOK'
  BY <1>1, SamePlan DEF AgeInv, BeforeCommit, Phases, IInv, TypeOK, RepoTypeOK
<1>5. Written(index', plan[k])
  <2>1. k \in DOMAIN plan /\ plan[k].text # Nil
    BY <1>1 DEF IInv, ControlOK, HasBodies
  <2>2. plan[k].doc \in Doc /\ plan[k].doc \in PlannedDocs /\ plan[k].side \in Sidecar \cup {Nil}
    BY <2>1, PlanEntry DEF PlannedDocs, Bodies, IInv, TypeOK
  <2>3. /\ index'.doc = [d \in Doc |-> IF d \in PlannedDocs THEN worktree.doc[d] ELSE index.doc[d]]
        /\ index'.side = [w \in Sidecar |-> IF w \in touched THEN worktree.side[w]
                                                             ELSE index.side[w]]
    BY <1>1 DEF Staged, IInv, TypeOK, RepoTypeOK, Tree
  <2>4. Written(worktree, plan[k]) /\ plan[k].side \in touched \cup {Nil}
    BY <1>1 DEF AgeInv, WrittenOK
  <2>. QED
    BY <2>2, <2>3, <2>4 DEF Written, SidecarMark
<1>6. WrittenOK' /\ NeverEmptyCommit'
  BY <1>1, <1>5 DEF AgeInv, WrittenOK, Written, SidecarMark, NeverEmptyCommit
<1>. QED
  BY <1>2, <1>3, <1>4, <1>6 DEF AgeInv, RepoAge

(* A failure while staging.                                                *)
LEMMA FailStagingAge == IInv /\ IInv' /\ AgeInv /\ FailStaging => AgeInv'
<1>. SUFFICES ASSUME IInv, IInv', AgeInv, FailStaging PROVE AgeInv'
  OBVIOUS
<1>1. PICK docs, sides : index' = Staged(index, worktree, docs, sides)
  BY DEF FailStaging
<1>2. RepoAge'
  BY <1>1, StagingAge DEF FailStaging
<1>. QED
  BY <1>2, EndAge DEF FailStaging, Finish

(* SetReference names the commit the branch was resolved to.               *)
LEMMA CreateRefAge == IInv /\ AgeInv /\ CreateRef => AgeInv'
<1>. SUFFICES ASSUME IInv, AgeInv, CreateRef PROVE AgeInv'
  OBVIOUS
<1>1. /\ pc = "ref" /\ pc' = "checkout" /\ refs' = [refs EXCEPT ![branch] = base]
      /\ UNCHANGED << commits, head, index, worktree, started, plan, asm, branch, base, outcome >>
      /\ branch \in Branch /\ head \in Branch /\ refs \in [Branch -> 0 .. Len(commits)]
      /\ Len(commits) \in Nat
  BY DEF CreateRef, settings, entryVars, applyVars, resultVars, IInv, TypeOK, RepoTypeOK, RunTypeOK
<1>2. refs'[branch] = base /\ refs'[head] \in {refs[head], base}
  BY <1>1
<1>3. StartOK'
  BY <1>1, <1>2
  DEF AgeInv, StartOK, FromStart, HeadCommit, TreeOf, Commit, BeforeCommit, HasBase, Phases
<1>4. MemoryOK'
  BY <1>1, SamePlan DEF AgeInv, BeforeCommit, Phases
<1>5. HistoryOK' /\ FilesOK' /\ WrittenOK' /\ NeverEmptyCommit'
  BY <1>1 DEF AgeInv, HistoryOK, FilesOK, Commit, TreeOf, WrittenOK, NeverEmptyCommit
<1>. QED
  BY <1>3, <1>4, <1>5 DEF AgeInv

(* HEAD moves to the new branch, which is where HEAD was.                  *)
LEMMA CheckoutHeadAge == IInv /\ AgeInv /\ CheckoutHead => AgeInv'
<1>. SUFFICES ASSUME IInv, AgeInv, CheckoutHead PROVE AgeInv'
  OBVIOUS
<1>1. /\ pc = "checkout" /\ pc' = "resetIndex" /\ head' = branch
      /\ UNCHANGED << commits, refs, index, worktree, started, plan, asm, base, outcome >>
  BY DEF CheckoutHead, settings, entryVars, applyVars, resultVars
<1>2. refs[branch] = base /\ Len(commits) \in Nat
  BY <1>1 DEF IInv, ControlOK, TypeOK, RepoTypeOK
<1>3. StartOK'
  BY <1>1, <1>2
  DEF AgeInv, StartOK, FromStart, HeadCommit, TreeOf, Commit, BeforeCommit, HasBase, Phases
<1>4. MemoryOK'
  BY <1>1, <1>2, SamePlan DEF AgeInv, BeforeCommit, Phases
<1>5. HistoryOK' /\ FilesOK' /\ WrittenOK' /\ NeverEmptyCommit'
  BY <1>1 DEF AgeInv, HistoryOK, FilesOK, Commit, TreeOf, WrittenOK, NeverEmptyCommit
<1>. QED
  BY <1>3, <1>4, <1>5 DEF AgeInv

(* The branch, and with it HEAD, is set to the commit it was created at.   *)
LEMMA ResetIndexAge == IInv /\ AgeInv /\ ResetIndex => AgeInv'
<1>. SUFFICES ASSUME IInv, AgeInv, ResetIndex PROVE AgeInv'
  OBVIOUS
<1>1. /\ pc = "resetIndex" /\ pc' = "resetFiles" /\ refs' = [refs EXCEPT ![head] = base]
      /\ UNCHANGED << commits, head, worktree, started, plan, asm, outcome >>
      /\ index' = TreeOf(base)
  BY DEF ResetIndex, settings, entryVars, resultVars
<1>2. base \in Commit /\ RepoTypeOK /\ Len(commits) \in Nat
  BY <1>1, BaseIsCommit DEF IInv, TypeOK, RepoTypeOK
<1>3. HeadCommit' = base
  BY <1>1 DEF HeadCommit, IInv, TypeOK, RepoTypeOK
<1>4. RepoAge'
  BY <1>1, <1>2, TakenFromCommit DEF AgeInv, RepoAge, Mixes
<1>5. StartOK'
  <2>1. started \in Commit /\ FromStart(base)
    BY <1>1 DEF AgeInv, StartOK, BeforeCommit, HasBase, Phases
  <2>. QED
    BY <1>1, <1>3, <2>1 DEF StartOK, FromStart, TreeOf, Commit, HasBase
<1>6. MemoryOK'
  BY <1>1, <1>2, SamePlan DEF AgeInv, BeforeCommit, Phases
<1>7. WrittenOK' /\ NeverEmptyCommit'
  BY <1>1 DEF AgeInv, WrittenOK, NeverEmptyCommit
<1>. QED
  BY <1>4, <1>5, <1>6, <1>7 DEF AgeInv, RepoAge

(* The files the index had changed are taken from that commit.             *)
LEMMA ResetFilesAge == IInv /\ AgeInv /\ ResetFiles => AgeInv'
<1>. SUFFICES ASSUME IInv, AgeInv, ResetFiles PROVE AgeInv'
  OBVIOUS
<1>1. /\ pc = "resetFiles" /\ pc' = "write"
      /\ UNCHANGED << commits, refs, head, index, started, plan, asm, outcome >>
      /\ worktree' = RestoredTree(removed, index, TreeOf(base), worktree)
  BY DEF ResetFiles, settings, entryVars, resultVars
<1>2. /\ base \in Commit /\ RepoTypeOK /\ worktree \in Tree /\ TreeOf(base) \in Tree
      /\ Len(commits) \in Nat
  BY <1>1, BaseIsCommit, CommittedTree DEF IInv, TypeOK, RepoTypeOK
<1>3. RepoAge'
  <2>1. Mixes(index', TreeOf(base), index)
    BY <1>1 DEF Mixes
  <2>2. Mixes(worktree', TreeOf(base), worktree)
    BY <1>1, <1>2, RestoredMixes
  <2>. QED
    BY <1>1, <1>2, <2>1, <2>2, TakenFromCommit DEF AgeInv, RepoAge
<1>4. StartOK'
  BY <1>1, SameStart DEF AgeInv, BeforeCommit, HasBase, Phases
<1>5. MemoryOK'
  BY <1>1, <1>2, SamePlan DEF AgeInv, BeforeCommit, Phases
<1>6. WrittenOK' /\ NeverEmptyCommit'
  BY <1>1 DEF AgeInv, WrittenOK, NeverEmptyCommit
<1>. QED
  BY <1>3, <1>4, <1>5, <1>6 DEF AgeInv, RepoAge

(* The ways a run ends without writing.                                    *)
LEMMA EndsAge ==
    ASSUME IInv, IInv', AgeInv,
           OverBudget \/ PlanNothing \/ BranchExists \/ CheckoutRefused \/ FailCleanly \/ Done
    PROVE  AgeInv'
<1>1. UNCHANGED << commits, index, worktree >>
  BY DEF OverBudget, PlanNothing, BranchExists, CheckoutRefused, FailCleanly, Done, repoVars
<1>2. RepoAge'
  BY <1>1 DEF AgeInv, RepoAge, HistoryOK, FilesOK, Commit, TreeOf
<1>3. \E result, docs : result # "empty commit" /\ FinishSkipping(result, docs)
  BY DEF OverBudget, PlanNothing, BranchExists, CheckoutRefused, FailCleanly, Done, Finish
<1>. QED
  BY <1>2, <1>3, EndAge

(* The index always differs from the tree HEAD names: it has a stamp no    *)
(* older than the start of the run, and the tree's watermarks are older.   *)
LEMMA SomethingToCommit ==
    ASSUME IInv, AgeInv, pc = "commit"
    PROVE  index # HeadTree
<1>1. k \in DOMAIN plan /\ plan[k].text # Nil
  BY DEF IInv, ControlOK, HasBodies
<1>2. /\ plan[k].sha \in Nat /\ started <= plan[k].sha /\ started \in Nat /\ started \in Commit
      /\ SameDocs(HeadTree, TreeOf(started)) /\ Written(index, plan[k])
  BY <1>1 DEF AgeInv, StartOK, FromStart, HeadTree, MemoryOK, WrittenOK, Commit, BeforeCommit,
              Phases
<1>3. MarksBefore(HeadTree, started)
  BY <1>2, MarksBeforeSame DEF AgeInv, HistoryOK
<1>4. plan[k].doc \in Doc /\ plan[k].side \in Sidecar \cup {Nil}
  BY <1>1, PlanEntry DEF IInv, TypeOK
<1>5. ~Written(HeadTree, plan[k])
  <2>1. CASE plan[k].side = Nil
    BY <1>2, <1>3, <1>4, <2>1 DEF Written, MarksBefore
  <2>2. CASE plan[k].side # Nil
    BY <1>2, <1>3, <1>4, <2>2 DEF Written, MarksBefore
  <2>. QED
    BY <2>1, <2>2
<1>. QED
  BY <1>2, <1>5

(* The index becomes a commit.                                             *)
LEMMA CommitIndexAge == IInv /\ AgeInv /\ CommitIndex => AgeInv'
<1>. SUFFICES ASSUME IInv, AgeInv, CommitIndex PROVE AgeInv'
  OBVIOUS
<1>1. /\ commits' = Append(commits, [tree |-> index, parent |-> HeadCommit])
      /\ pc = "commit" /\ pc' = "committed"
      /\ UNCHANGED << index, worktree, plan, asm, outcome >>
  BY SomethingToCommit
  DEF CommitIndex, AppendCommit, settings, entryVars, resultVars
<1>2. RepoTypeOK /\ index \in Tree /\ worktree \in Tree /\ HeadCommit \in Commit
  BY HeadIsCommit DEF IInv, TypeOK, RepoTypeOK
<1>3. /\ HistoryOK' /\ Commit \subseteq Commit'
      /\ Len(commits) \in Nat /\ Len(commits') = Len(commits) + 1
  BY <1>1, <1>2, AppendAge DEF AgeInv, FilesOK
<1>4. FilesOK'
  <2>1. /\ MarksBefore(index, Len(commits) + 1) /\ MarksBefore(worktree, Len(commits) + 1)
        /\ Len(commits) + 1 \in Nat /\ Len(commits') + 1 \in Nat
        /\ Len(commits) + 1 <= Len(commits') + 1
    BY <1>3 DEF AgeInv, FilesOK
  <2>2. MarksBefore(index, Len(commits') + 1) /\ MarksBefore(worktree, Len(commits') + 1)
    BY <1>2, <2>1, MarksBeforeLater
  <2>. QED
    BY <1>1, <2>2 DEF FilesOK
<1>5. MemoryOK'
  <2>1. asm.wm \in Nat /\ asm.wm <= Len(commits)
    BY DEF AgeInv, MemoryOK, IInv, TypeOK, RunTypeOK, Mark
  <2>. QED
    BY <1>1, <1>3, <2>1 DEF AgeInv, MemoryOK, BeforeCommit
<1>6. StartOK' /\ WrittenOK' /\ NeverEmptyCommit'
  BY <1>1 DEF AgeInv, StartOK, BeforeCommit, WrittenOK, NeverEmptyCommit
<1>. QED
  BY <1>3, <1>4, <1>5, <1>6 DEF AgeInv

-----------------------------------------------------------------------------
(* What happens beside a run disturbs nothing it relies on, as long as the *)
(* history only grows and no documentation is touched.                     *)
LEMMA BesideAge ==
    ASSUME IInv, IInv', AgeInv, RepoAge', UNCHANGED runVars,
           Len(commits) <= Len(commits'), \A c \in Commit : TreeOf(c)' = TreeOf(c),
           SameDocs(index', index), SameDocs(worktree', worktree),
           HeadCommit <= HeadCommit', SameDocs(HeadTree', HeadTree)
    PROVE  AgeInv'
<1>1. UNCHANGED << pc, started, base, branch, plan, asm, k, touched, outcome >>
  BY DEF runVars, settings, entryVars, applyVars, resultVars
<1>2. Len(commits) \in Nat /\ Len(commits') \in Nat /\ Commit \subseteq Commit'
  BY DEF IInv, TypeOK, RepoTypeOK, Commit
<1>3. HeadCommit \in Commit /\ HeadCommit' \in Nat /\ HeadCommit \in Nat
  BY HeadIsCommit DEF IInv, TypeOK, RepoTypeOK, HeadCommit, Commit
<1>4. StartOK'
  <2>. SUFFICES ASSUME pc \in BeforeCommit
                PROVE  /\ started \in Commit'
                       /\ FromStart(HeadCommit)'
                       /\ pc \in HasBase => FromStart(base)'
    BY <1>1 DEF StartOK
  <2>1. /\ started \in Commit /\ started \in Nat /\ TreeOf(started)' = TreeOf(started)
        /\ started <= HeadCommit /\ SameDocs(HeadTree, TreeOf(started))
    BY <1>1 DEF AgeInv, StartOK, FromStart, Commit, HeadTree
  <2>2. FromStart(HeadCommit)'
    BY <1>1, <1>3, <2>1 DEF FromStart, SameDocs, HeadTree
  <2>3. pc \in HasBase => FromStart(base)'
    <3>1. pc \in HasBase => base \in Commit /\ FromStart(base)
      BY BaseIsCommit DEF HasBase, AgeInv, StartOK
    <3>2. pc \in HasBase => TreeOf(base)' = TreeOf(base)
      BY <1>1, <3>1 DEF TreeOf
    <3>. QED
      BY <1>1, <2>1, <3>1, <3>2 DEF FromStart, SameDocs
  <2>. QED
    BY <1>2, <2>1, <2>2, <2>3
<1>5. MemoryOK'
  <2>1. asm.wm \in Nat
    BY DEF IInv, TypeOK, RunTypeOK, Mark
  <2>. QED
    BY <1>1, <1>2, <2>1 DEF AgeInv, MemoryOK
<1>6. WrittenOK' /\ NeverEmptyCommit'
  BY <1>1 DEF AgeInv, WrittenOK, Written, SidecarMark, SameDocs, NeverEmptyCommit
<1>. QED
  BY <1>4, <1>5, <1>6 DEF AgeInv, RepoAge

(* Developers, during a run and between runs.                              *)
LEMMA DeveloperAge == IInv /\ IInv' /\ AgeInv /\ Developer => AgeInv'
<1>. SUFFICES ASSUME IInv, IInv', AgeInv, Developer PROVE AgeInv'
  OBVIOUS
<1>1. PICK s \in Src : DevCommit(s) \/ DevEdit(s) \/ DevStage(s)
  BY DEF Developer
<1>2. UNCHANGED runVars /\ RepoTypeOK /\ RepoAge /\ branch \in Branch /\ head \in Branch
  BY DEF Developer, IInv, TypeOK, RepoTypeOK, RunTypeOK, AgeInv, RepoAge
<1>3. HeadCommit \in 1 .. Len(commits) /\ Len(commits) \in Nat
  BY <1>2, HeadIsCommit DEF Commit, RepoTypeOK
<1>4. CASE DevCommit(s)
  <2>1. /\ RepoAge' /\ Len(commits') = Len(commits) + 1
        /\ \A c \in Commit : TreeOf(c)' = TreeOf(c)
        /\ refs' = [refs EXCEPT ![head] = Len(commits')]
        /\ HeadCommit' = Len(commits') /\ SameDocs(HeadTree', HeadTree)
    BY <1>2, <1>4, DevCommitAge
  <2>2. SameDocs(index', index) /\ SameDocs(worktree', worktree)
    BY <1>2, <1>4, NewVersionDocs DEF DevCommit, RepoTypeOK
  <2>. QED
    BY <1>2, <1>3, <2>1, <2>2, BesideAge
<1>5. CASE DevEdit(s) \/ DevStage(s)
  <2>1. /\ RepoAge' /\ UNCHANGED << commits, refs, head >>
        /\ SameDocs(index', index) /\ SameDocs(worktree', worktree)
    BY <1>2, <1>5, DevEditAge
  <2>2. /\ \A c \in Commit : TreeOf(c)' = TreeOf(c)
        /\ HeadCommit' = HeadCommit /\ SameDocs(HeadTree', HeadTree)
    BY <1>2, <2>1 DEF TreeOf, HeadTree, HeadCommit, SameDocs, runVars, applyVars
  <2>3. Len(commits) <= Len(commits') /\ HeadCommit <= HeadCommit'
    BY <1>3, <2>1, <2>2
  <2>. QED
    BY <1>2, <2>1, <2>2, <2>3, BesideAge
<1>. QED
  BY <1>1, <1>4, <1>5

(* Between runs there is no start to hold on to, and nothing in memory.    *)
LEMMA IdleAge ==
    ASSUME IInv, IInv', AgeInv, RepoAge', pc = "idle",
           UNCHANGED << pc, plan, asm, outcome >>
    PROVE  AgeInv'
<1>1. plan = << >> /\ asm = NoContext /\ Len(commits') \in Nat
  BY DEF AgeInv, MemoryOK, IInv, TypeOK, RepoTypeOK
<1>2. MemoryOK'
  BY <1>1 DEF MemoryOK, NoContext, NoMark
<1>3. StartOK' /\ WrittenOK' /\ NeverEmptyCommit'
  BY DEF AgeInv, StartOK, BeforeCommit, Phases, WrittenOK, NeverEmptyCommit
<1>. QED
  BY <1>2, <1>3 DEF AgeInv, RepoAge

(* Every step of a run.                                                    *)
LEMMA LocalStepAge == IInv /\ IInv' /\ AgeInv /\ LocalStep => AgeInv'
<1>. SUFFICES ASSUME IInv, IInv', AgeInv, LocalStep PROVE AgeInv'
  OBVIOUS
<1>1. CASE AssembleStep
  BY <1>1, ReadDocAge, QuietAge, EndsAge, ResolveHEADAge, GenerateAge DEF AssembleStep
<1>2. CASE ApplyStep
  BY <1>2, EndsAge, QuietAge, CreateRefAge, CheckoutHeadAge, ResetIndexAge, ResetFilesAge,
     WriteFileAge, WriteFileNoFrontmatterAge, SaveSidecarAge, StageFilesAge, CommitIndexAge DEF ApplyStep
<1>3. CASE Failure
  BY <1>3, EndsAge, FailTornAge, FailStagingAge DEF Failure
<1>. QED
  BY <1>1, <1>2, <1>3, StartAge DEF LocalStep

(* The first commit has no documentation, hence no watermark.              *)
LEMMA InitAge == Init => AgeInv
<1>. SUFFICES ASSUME Init PROVE AgeInv
  OBVIOUS
<1>1. PICK first \in FirstTrees :
          /\ commits = << [tree |-> first, parent |-> 0] >>
          /\ index = first /\ worktree = first
  BY DEF Init, RepoInit
<1>2. \A n \in Nat : n > 0 => MarksBefore(first, n)
  BY <1>1, EmptyFile
  DEF FirstTrees, MarksBefore, FrontmatterOf, SidecarMark, Load, NoMark
<1>3. Len(commits) = 1 /\ Commit = {1} /\ TreeOf(1) = first /\ commits[1].parent = 0
  BY <1>1 DEF Commit, TreeOf
<1>4. HistoryOK /\ FilesOK
  BY <1>1, <1>2, <1>3 DEF HistoryOK, FilesOK, Rooted, Commit
<1>5. StartOK /\ MemoryOK /\ WrittenOK /\ NeverEmptyCommit
  BY <1>3 DEF Init, StartOK, BeforeCommit, Phases, MemoryOK, WrittenOK, NeverEmptyCommit,
              NoContext, NoMark
<1>. QED
  BY <1>4, <1>5 DEF AgeInv

(* Every step.                                                             *)
LEMMA NextAge == IInv /\ IInv' /\ AgeInv /\ [Next]_vars => AgeInv'
<1>. SUFFICES ASSUME IInv, IInv', AgeInv, [Next]_vars PROVE AgeInv'
  OBVIOUS
<1>1. CASE ChangeMode
  <2>1. RepoAge'
    BY <1>1, SameRepoAge DEF ChangeMode, AgeInv, RepoAge
  <2>. QED
    BY <1>1, <2>1, IdleAge DEF ChangeMode, entryVars, resultVars
<1>2. CASE Operator
  <2>1. RepoAge'
    BY <1>2, OperatorAge DEF IInv, TypeOK, AgeInv, RepoAge
  <2>2. pc = "idle" /\ UNCHANGED runVars
    BY <1>2 DEF Operator
  <2>. QED
    BY <2>1, <2>2, IdleAge DEF runVars, entryVars, resultVars
<1>3. CASE UNCHANGED vars
  <2>1. UNCHANGED repoVars /\ UNCHANGED runVars
    BY <1>3 DEF vars
  <2>. QED
    BY <2>1
    DEF AgeInv, HistoryOK, FilesOK, StartOK, FromStart, MemoryOK, WrittenOK, NeverEmptyCommit,
        HeadCommit, TreeOf, Commit, repoVars, runVars, settings, entryVars, applyVars, resultVars
<1>. QED
  BY <1>1, <1>2, <1>3, LocalStepAge, EndsAge, DeveloperAge DEF Next, Environment

(* No run ends in go-git's "empty commit": whatever it documents, whatever *)
(* people do meanwhile and whatever earlier runs left behind, the stamp of *)
(* the last file it staged is newer than every watermark HEAD's tree has.  *)
THEOREM AlwaysSomethingToCommit == Spec => []NeverEmptyCommit
<1>1. AgeInv => NeverEmptyCommit
  BY DEF AgeInv
<1>. QED
  BY <1>1, InitInv, NextInv, InitAge, NextAge, PTL DEF Spec

-----------------------------------------------------------------------------
(* What a document should say when its watermark is m: the files of that   *)
(* commit, or, without a watermark, nothing.  A history h and the modes md *)
(* are parameters: the proofs compare those before and after a step.       *)
Shown(h, m) == IF m = NoMark THEN NoText ELSE h[m].tree.src

Tells(h, text, m, d) == \A s \in CoversOf(d) : text[s] = Shown(h, m)[s]

(* The watermark where the manifest says it is, and nowhere else.          *)
OwnMark(md, tree, d) ==
    IF md[d] = Nil THEN FrontmatterOf(tree.doc[d]) ELSE SidecarMark(tree, md[d], d)

NoOtherMark(md, tree, d) ==
    /\ md[d] # Nil => FrontmatterOf(tree.doc[d]) = NoMark
    /\ \A w \in Sidecar : w # md[d] => SidecarMark(tree, w, d) = NoMark

(* The document says exactly what its only watermark promises.             *)
Exact(h, md, tree, d) ==
    /\ NoOtherMark(md, tree, d)
    /\ Tells(h, TextOf(tree.doc[d]), OwnMark(md, tree, d), d)

ExactTree(h, md, tree) == \A d \in Doc : Exact(h, md, tree, d)

CommitsExact == \A c \in Commit : ExactTree(commits, mode, TreeOf(c))

FrontmatterOnly == \A m \in Modes, d \in Doc : m[d] = Nil

(* With frontmatter alone every file is exact at all times: a page carries *)
(* its own watermark, so nothing that mixes files can part them.           *)
FilesExact == ExactTree(commits, mode, index) /\ ExactTree(commits, mode, worktree)

(* With sidecars a file is exact only together with another, and only runs *)
(* from a clean checkout keep them together: up to the checkout the files  *)
(* are those of HEAD, then every document but the one half written is      *)
(* exact on disk, and what is staged is what is on disk.                   *)
CleanPhases ==
    {"read", "diff", "resolve", "generate", "plan", "branch", "ref", "checkout"}

Untouched ==
    /\ \A d \in Doc \ PlannedDocs : worktree.doc[d] = index.doc[d]
    /\ \A w \in Sidecar \ touched : worktree.side[w] = index.side[w]

(* Between the two halves of the checkout, the files that are not those of *)
(* the branch are remembered.                                              *)
ToRestore ==
    /\ SameDocs(index, TreeOf(base))
    /\ \A d \in Doc \ removed.doc : worktree.doc[d] = index.doc[d]
    /\ \A w \in Sidecar \ removed.side : worktree.side[w] = index.side[w]

HalfWritten(d, text) ==
    /\ \A other \in Doc \ {d} : Exact(commits, mode, worktree, other)
    /\ NoOtherMark(mode, worktree, d)
    /\ TextOf(worktree.doc[d]) = text

TidyFiles ==
    /\ pc \in CleanPhases => IsClean
    /\ pc = "resetIndex" => SameDocs(worktree, index)
    /\ pc = "resetFiles" => ToRestore
    /\ pc \in {"write", "sidecar", "stage"} => Untouched
    /\ pc \in {"write", "stage"} => ExactTree(commits, mode, worktree)
    /\ pc = "sidecar" => HalfWritten(plan[k].doc, plan[k].text)
    /\ pc = "commit" => ExactTree(commits, mode, index)

FilesTrue == IF FrontmatterOnly THEN FilesExact ELSE TidyFiles

(* The entry being assembled: its body says what its watermark promises,   *)
(* its diff is all the body lacks, and its stamp is the commit the diff    *)
(* was taken at.                                                           *)
BodyExact ==
    pc \in {"diff", "resolve", "generate"} =>
        Tells(commits, asm.text, asm.wm, Manifest[cur].path)

DiffExact ==
    pc \in {"resolve", "generate"} =>
        asm.diff = {s \in Manifest[cur].covers : Shown(commits, asm.wm)[s] # asm.seen[s]}

StampExact ==
    /\ pc = "resolve" => asm.seen = HeadTree.src
    /\ pc = "generate" => /\ asm.diff # {}
                          /\ plan[Len(plan)].doc = Manifest[cur].path
                          /\ asm.seen = Shown(commits, plan[Len(plan)].sha)

AsmExact == BodyExact /\ DiffExact /\ StampExact

EntryExact(h, md, e) ==
    /\ e.side = md[e.doc]
    /\ e.text # Nil => Tells(h, e.text, e.sha, e.doc)

PlanExact == \A i \in DOMAIN plan : EntryExact(commits, mode, plan[i])

(* What a run has in memory is exact.                                      *)
RunExact == AsmExact /\ PlanExact

(* The inductive invariant on the truth of watermarks.                     *)
ExactInv == mode \in Modes /\ CommitsExact /\ FilesTrue /\ RunExact

-----------------------------------------------------------------------------
(* A document whose watermark is in its frontmatter and one whose watermark*)
(* is in a sidecar: what OwnMark reads is a number, and bounded like all.  *)
LEMMA OwnMarkBefore ==
    ASSUME NEW md \in [Doc -> Sidecar \cup {Nil}], NEW tree \in Tree, NEW d \in Doc, NEW n
    PROVE  /\ OwnMark(md, tree, d) \in Nat
           /\ MarksBefore(tree, n) => OwnMark(md, tree, d) < n
<1>1. CASE md[d] = Nil
  BY <1>1, MarkTypes DEF OwnMark, MarksBefore
<1>2. CASE md[d] # Nil
  <2>1. md[d] \in Sidecar
    BY <1>2
  <2>. QED
    BY <1>2, <2>1, MarkTypes DEF OwnMark, MarksBefore
<1>. QED
  BY <1>1, <1>2

(* Documents and sidecars decide, not source files.                        *)
LEMMA ExactSame ==
    ASSUME NEW h, NEW md, NEW t, NEW u, SameDocs(t, u), ExactTree(h, md, u)
    PROVE  ExactTree(h, md, t)
BY DEF SameDocs, ExactTree, Exact, NoOtherMark, OwnMark, SidecarMark

(* Two histories with the same trees up to the n-th commit.                *)
SameTrees(h, g, n) == \A c \in 1 .. n : g[c].tree = h[c].tree

(* What a commit of both has is the same in both.                          *)
LEMMA ShownLater ==
    ASSUME NEW h, NEW g, NEW n \in Nat, SameTrees(h, g, n), NEW m \in Nat, m <= n
    PROVE  Shown(g, m) = Shown(h, m)
<1>1. CASE m = NoMark
  BY <1>1 DEF Shown
<1>2. CASE m # NoMark
  BY <1>2 DEF Shown, SameTrees, NoMark
<1>. QED
  BY <1>1, <1>2

(* So is what a text tells of it.                                          *)
LEMMA TellsLater ==
    ASSUME NEW h, NEW g, NEW n \in Nat, SameTrees(h, g, n),
           NEW m \in Nat, m <= n, NEW text, NEW d, Tells(h, text, m, d)
    PROVE  Tells(g, text, m, d)
BY ShownLater DEF Tells

(* A tree stays exact when the history changes after its watermarks only.  *)
LEMMA ExactLater ==
    ASSUME NEW h, NEW g, NEW n \in Nat, SameTrees(h, g, n),
           NEW md \in [Doc -> Sidecar \cup {Nil}],
           NEW tree \in Tree, MarksBefore(tree, n + 1), NEW d \in Doc, Exact(h, md, tree, d)
    PROVE  Exact(g, md, tree, d)
<1>1. OwnMark(md, tree, d) \in Nat /\ OwnMark(md, tree, d) < n + 1
  BY OwnMarkBefore
<1>2. Tells(h, TextOf(tree.doc[d]), OwnMark(md, tree, d), d) /\ NoOtherMark(md, tree, d)
  BY DEF Exact
<1>3. Tells(g, TextOf(tree.doc[d]), OwnMark(md, tree, d), d)
  BY <1>1, <1>2, TellsLater
<1>. QED
  BY <1>2, <1>3 DEF Exact

(* With frontmatter alone, mixing the files of two exact trees is exact.   *)
LEMMA ExactMixes ==
    ASSUME NEW h, NEW md, NEW d \in Doc, md[d] = Nil,
           NEW tree, NEW t, NEW u,
           Mixes(tree, t, u), Exact(h, md, t, d), Exact(h, md, u, d)
    PROVE  Exact(h, md, tree, d)
<1>1. tree.doc[d] \in {t.doc[d], u.doc[d]}
  BY DEF Mixes
<1>2. NoOtherMark(md, tree, d)
  BY DEF Mixes, Exact, NoOtherMark, SidecarMark
<1>3. Tells(h, TextOf(tree.doc[d]), OwnMark(md, tree, d), d)
  BY <1>1 DEF Exact, OwnMark
<1>. QED
  BY <1>2, <1>3 DEF Exact

(* One entry of the manifest for each path.                                *)
OneEntryEach ==
    \A i, j \in DOMAIN Manifest : Manifest[i].path = Manifest[j].path => i = j

(* What the document of such an entry covers is what the entry covers.     *)
LEMMA CoversOfEntry ==
    ASSUME OneEntryEach, NEW i \in DOMAIN Manifest
    PROVE  CoversOf(Manifest[i].path) = Manifest[i].covers
<1>1. {j \in DOMAIN Manifest : Manifest[j].path = Manifest[i].path} = {i}
  BY DEF OneEntryEach
<1>. QED
  BY <1>1 DEF CoversOf

(* Of a file that only one side changed since the fork, a merge has that   *)
(* side's copy, and the other side still has the fork's.                   *)
OneSided(m, t, u, f) == (m = t /\ u = f) \/ (m = u /\ t = f)

(* Every file of a merge without a conflict is of that kind.               *)
LEMMA MergedSides ==
    ASSUME NEW t \in Tree, NEW u \in Tree, NEW f \in Tree,
           ~BothChanged(f.src, t.src, u.src),
           ~BothChanged(f.doc, t.doc, u.doc), ~BothChanged(f.side, t.side, u.side)
    PROVE  LET m == TakeChanges(f, t, u)
           IN  /\ \A s \in Src : OneSided(m.src[s], t.src[s], u.src[s], f.src[s])
               /\ \A d \in Doc : OneSided(m.doc[d], t.doc[d], u.doc[d], f.doc[d])
               /\ \A w \in Sidecar : OneSided(m.side[w], t.side[w], u.side[w], f.side[w])
<1>. DEFINE m == TakeChanges(f, t, u)
<1>1. /\ m.src = TakeChanged(f.src, t.src, u.src)
      /\ m.doc = TakeChanged(f.doc, t.doc, u.doc)
      /\ m.side = TakeChanged(f.side, t.side, u.side)
  BY DEF TakeChanges
<1>2. \A x \in {t, u, f} : DOMAIN x.src = Src /\ DOMAIN x.doc = Doc /\ DOMAIN x.side = Sidecar
  BY DEF Tree
<1>. HIDE DEF m
<1>3. ASSUME NEW s \in Src PROVE OneSided(m.src[s], t.src[s], u.src[s], f.src[s])
  BY <1>1, <1>2 DEF TakeChanged, BothChanged, Changed, OneSided
<1>4. ASSUME NEW d \in Doc PROVE OneSided(m.doc[d], t.doc[d], u.doc[d], f.doc[d])
  BY <1>1, <1>2 DEF TakeChanged, BothChanged, Changed, OneSided
<1>5. ASSUME NEW w \in Sidecar PROVE OneSided(m.side[w], t.side[w], u.side[w], f.side[w])
  BY <1>1, <1>2 DEF TakeChanged, BothChanged, Changed, OneSided
<1>. QED
  BY <1>3, <1>4, <1>5 DEF m

(* So is every file of the tree a squash merge commits.                    *)
LEMMA MergedCommitSides ==
    ASSUME RepoTypeOK, HistoryOK, NEW a \in Commit, NEW b \in Commit, ~Conflict(a, b)
    PROVE  LET f == TreeOf(MergeBase(a, b))
               m == Merged(a, b)
           IN  /\ MergeBase(a, b) \in Commit
               /\ \A s \in Src : OneSided(m.src[s], TreeOf(a).src[s], TreeOf(b).src[s], f.src[s])
               /\ \A d \in Doc : OneSided(m.doc[d], TreeOf(a).doc[d], TreeOf(b).doc[d], f.doc[d])
               /\ \A w \in Sidecar :
                    OneSided(m.side[w], TreeOf(a).side[w], TreeOf(b).side[w], f.side[w])
<1>1. MergeBase(a, b) \in Commit
  BY MergeBaseIsCommit DEF HistoryOK
<1>2. TreeOf(a) \in Tree /\ TreeOf(b) \in Tree /\ TreeOf(MergeBase(a, b)) \in Tree
  BY <1>1, CommittedTree
<1>. QED
  BY <1>1, <1>2, MergedSides DEF Merged, Conflict

(* A squash merge without a conflict is exact: where it takes the document *)
(* from one side and the sidecar from the other, the two sides agree on    *)
(* the record or on the text, and so on both.                              *)
LEMMA MergedExact ==
    ASSUME NEW h, NEW md \in [Doc -> Sidecar \cup {Nil}], NEW d \in Doc,
           NEW t, NEW u, NEW f, NEW m,
           OneSided(m.doc[d], t.doc[d], u.doc[d], f.doc[d]),
           \A w \in Sidecar : OneSided(m.side[w], t.side[w], u.side[w], f.side[w]),
           Exact(h, md, t, d), Exact(h, md, u, d), Exact(h, md, f, d)
    PROVE  Exact(h, md, m, d)
<1>1. m.doc[d] \in {t.doc[d], u.doc[d]}
      /\ \A w \in Sidecar : m.side[w] \in {t.side[w], u.side[w]}
  BY DEF OneSided
<1>2. NoOtherMark(md, m, d)
  BY <1>1 DEF Exact, NoOtherMark, SidecarMark
<1>3. CASE md[d] = Nil
  BY <1>1, <1>2, <1>3 DEF Exact, OwnMark
<1>4. CASE md[d] # Nil
  <2>. DEFINE w == md[d]
  <2>1. /\ w \in Sidecar
        /\ Tells(h, TextOf(t.doc[d]), SidecarMark(t, w, d), d)
        /\ Tells(h, TextOf(u.doc[d]), SidecarMark(u, w, d), d)
        /\ Tells(h, TextOf(f.doc[d]), SidecarMark(f, w, d), d)
    BY <1>4 DEF Exact, OwnMark
  <2>2. OneSided(m.side[w], t.side[w], u.side[w], f.side[w])
    BY <2>1
  <2>3. Tells(h, TextOf(m.doc[d]), SidecarMark(m, w, d), d)
    <3>1. CASE (m.doc[d] = t.doc[d] /\ m.side[w] = t.side[w])
               \/ (m.doc[d] = u.doc[d] /\ m.side[w] = u.side[w])
      BY <2>1, <3>1 DEF SidecarMark
    <3>2. CASE /\ m.doc[d] = t.doc[d] /\ u.doc[d] = f.doc[d]
               /\ m.side[w] = u.side[w] /\ t.side[w] = f.side[w]
      BY <2>1, <3>2 DEF SidecarMark, Tells
    <3>3. CASE /\ m.doc[d] = u.doc[d] /\ t.doc[d] = f.doc[d]
               /\ m.side[w] = t.side[w] /\ u.side[w] = f.side[w]
      BY <2>1, <3>3 DEF SidecarMark, Tells
    <3>. QED
      BY <2>2, <3>1, <3>2, <3>3 DEF OneSided
  <2>. QED
    BY <1>2, <1>4, <2>3 DEF Exact, OwnMark
<1>. QED
  BY <1>3, <1>4

(* Merged, of two commits of an exact history.                             *)
LEMMA MergedCommitExact ==
    ASSUME RepoTypeOK, HistoryOK, CommitsExact, mode \in [Doc -> Sidecar \cup {Nil}],
           NEW a \in Commit, NEW b \in Commit, ~Conflict(a, b)
    PROVE  ExactTree(commits, mode, Merged(a, b))
<1>. DEFINE f == TreeOf(MergeBase(a, b))
<1>1. /\ MergeBase(a, b) \in Commit
      /\ \A d \in Doc :
           OneSided(Merged(a, b).doc[d], TreeOf(a).doc[d], TreeOf(b).doc[d], f.doc[d])
      /\ \A w \in Sidecar :
           OneSided(Merged(a, b).side[w], TreeOf(a).side[w], TreeOf(b).side[w], f.side[w])
  BY MergedCommitSides
<1>2. ExactTree(commits, mode, f) /\ ExactTree(commits, mode, TreeOf(a))
      /\ ExactTree(commits, mode, TreeOf(b))
  BY <1>1 DEF CommitsExact
<1>. HIDE DEF f
<1>3. ASSUME NEW d \in Doc PROVE Exact(commits, mode, Merged(a, b), d)
  <2>1. /\ Exact(commits, mode, TreeOf(a), d) /\ Exact(commits, mode, TreeOf(b), d)
        /\ Exact(commits, mode, f, d)
    BY <1>2 DEF ExactTree
  <2>. QED
    BY <1>1, <2>1, MergedExact
<1>. QED
  BY <1>3 DEF ExactTree

(* A history that only grows keeps the trees of its commits.               *)
LEMMA GrownTrees ==
    ASSUME \A c \in Commit : TreeOf(c)' = TreeOf(c)
    PROVE  SameTrees(commits, commits', Len(commits))
BY DEF SameTrees, Commit, TreeOf

(* A commit whose tree is exact keeps the history exact.                   *)
LEMMA AppendExact ==
    ASSUME RepoTypeOK, HistoryOK, CommitsExact,
           mode \in [Doc -> Sidecar \cup {Nil}], mode' = mode,
           NEW tree \in Tree, NEW parent \in Commit,
           MarksBefore(tree, Len(commits) + 1), ExactTree(commits, mode, tree),
           commits' = Append(commits, [tree |-> tree, parent |-> parent])
    PROVE  CommitsExact' /\ SameTrees(commits, commits', Len(commits))
<1>1. /\ Len(commits) \in Nat /\ Len(commits') = Len(commits) + 1
      /\ \A c \in Commit : TreeOf(c)' = TreeOf(c)
      /\ \A c : c = Len(commits') => c \in Commit' /\ TreeOf(c)' = tree
  BY AppendAge
<1>2. SameTrees(commits, commits', Len(commits))
  BY <1>1, GrownTrees
<1>3. ASSUME NEW t \in Tree, MarksBefore(t, Len(commits) + 1), ExactTree(commits, mode, t)
      PROVE  ExactTree(commits', mode', t)
  <2>1. ASSUME NEW d \in Doc PROVE Exact(commits', mode, t, d)
    <3>1. Exact(commits, mode, t, d)
      BY <1>3 DEF ExactTree
    <3>. QED
      BY <1>1, <1>2, <1>3, <3>1, ExactLater
  <2>. QED
    BY <2>1 DEF ExactTree
<1>4. ASSUME NEW c \in Commit PROVE ExactTree(commits', mode', TreeOf(c)')
  <2>1. TreeOf(c) \in Tree /\ MarksBefore(TreeOf(c), Len(commits) + 1)
    BY CommitMarks
  <2>2. ExactTree(commits, mode, TreeOf(c))
    BY DEF CommitsExact
  <2>3. ExactTree(commits', mode', TreeOf(c))
    BY <1>3, <2>1, <2>2
  <2>. QED
    BY <1>1, <2>3
<1>5. ASSUME NEW c \in Commit', c \notin Commit PROVE ExactTree(commits', mode', TreeOf(c)')
  <2>1. c = Len(commits')
    BY <1>1, <1>5 DEF Commit
  <2>. QED
    BY <1>1, <1>3, <2>1
<1>. QED
  BY <1>2, <1>4, <1>5 DEF CommitsExact

-----------------------------------------------------------------------------
(* What a run has in memory.  These steps need nothing of the other trees: *)
(* it is enough that what a run reads of a document is exact.              *)

(* Without a plan or an entry under assembly nothing can be wrong.         *)
LEMMA EndRun ==
    ASSUME pc' = "idle", plan' = << >>
    PROVE  RunExact'
BY DEF RunExact, AsmExact, BodyExact, DiffExact, StampExact, PlanExact

LEMMA InitRun == Init => RunExact
BY DEF Init, RunExact, AsmExact, BodyExact, DiffExact, StampExact, PlanExact

(* The steps that make no commit and leave the plan alone.                 *)
LEMMA QuietRun ==
    ASSUME RunExact, UNCHANGED << commits, mode, plan >>,
           pc' \notin {"diff", "resolve", "generate"}
    PROVE  RunExact'
BY DEF RunExact, AsmExact, BodyExact, DiffExact, StampExact, PlanExact

(* The body and its watermark are read.                                    *)
LEMMA ReadDocRun ==
    ASSUME RunExact, ReadDoc, NEW d, d = Manifest[cur].path,
           Tells(commits, TextOf(worktree.doc[d]), ReadWatermark(worktree, d), d)
    PROVE  RunExact'
<1>1. /\ UNCHANGED << mode, plan, cur, commits >> /\ pc' = "diff"
      /\ asm'.wm = ReadWatermark(worktree, d) /\ asm'.text = TextOf(worktree.doc[d])
  BY DEF ReadDoc, repoVars, settings, NoContext
<1>2. AsmExact'
  BY <1>1 DEF AsmExact, BodyExact, DiffExact, StampExact
<1>3. PlanExact'
  BY <1>1 DEF RunExact, PlanExact
<1>. QED
  BY <1>2, <1>3 DEF RunExact

(* The diff is what the body lacks.                                        *)
LEMMA ComputeDiffRun == IInv /\ RunExact /\ ComputeDiff => RunExact'
<1>. SUFFICES ASSUME IInv, RunExact, ComputeDiff PROVE RunExact'
  OBVIOUS
<1>1. /\ UNCHANGED << mode, plan, cur, commits, refs, head >>
      /\ pc = "diff" /\ pc' = "resolve"
      /\ asm' = [asm EXCEPT !.diff = DiffSince(asm.wm, Manifest[cur].covers),
                            !.seen = HeadTree.src]
  BY DEF ComputeDiff, repoVars, settings
<1>2. asm'.wm = asm.wm /\ asm'.text = asm.text /\ asm'.seen = HeadTree.src
      /\ asm'.diff = {s \in Manifest[cur].covers : Shown(commits, asm.wm)[s] # HeadTree.src[s]}
  BY <1>1 DEF DiffSince, Shown, TreeOf, IInv, TypeOK, RunTypeOK
<1>3. AsmExact'
  BY <1>1, <1>2
  DEF RunExact, AsmExact, BodyExact, DiffExact, StampExact, HeadTree, HeadCommit, TreeOf
<1>4. PlanExact'
  BY <1>1 DEF RunExact, PlanExact
<1>. QED
  BY <1>3, <1>4 DEF RunExact

(* The new entry is stamped with the commit its diff was taken at.         *)
LEMMA ResolveHEADRun == IInv /\ RunExact /\ ResolveHEAD => RunExact'
<1>. SUFFICES ASSUME IInv, RunExact, ResolveHEAD PROVE RunExact'
  OBVIOUS
<1>. DEFINE e == [doc |-> Manifest[cur].path, text |-> Nil, sha |-> HeadCommit,
                  audience |-> Manifest[cur].audience,
                  side |-> mode[Manifest[cur].path]]
<1>1. /\ UNCHANGED << mode, asm, cur, commits, refs, head >>
      /\ pc = "resolve" /\ pc' = "generate" /\ plan' = Append(plan, e) /\ asm.diff # {}
  BY DEF ResolveHEAD, settings, entryVars, repoVars
<1>2. plan \in Seq(Entry) /\ HeadCommit # NoMark
  BY HeadIsCommit DEF IInv, TypeOK, RunTypeOK, Commit, NoMark
<1>3. /\ e.doc = Manifest[cur].path /\ e.text = Nil /\ e.sha = HeadCommit
      /\ e.side = mode[Manifest[cur].path]
  OBVIOUS
<1>. HIDE DEF e
<1>4. /\ plan'[Len(plan')] = e
      /\ \A i \in DOMAIN plan' : (i \in DOMAIN plan /\ plan'[i] = plan[i]) \/ plan'[i] = e
  BY <1>1, <1>2
<1>5. PlanExact'
  BY <1>1, <1>3, <1>4 DEF RunExact, PlanExact, EntryExact
<1>6. AsmExact'
  <2>1. Shown(commits, HeadCommit) = HeadTree.src
    BY <1>2 DEF Shown, HeadTree, TreeOf
  <2>. QED
    BY <1>1, <1>3, <1>4, <2>1 DEF RunExact, AsmExact, BodyExact, DiffExact, StampExact
<1>. QED
  BY <1>5, <1>6 DEF RunExact

(* The answer describes the commit of the stamp: the diff was all the body *)
(* lacked.                                                                 *)
LEMMA RewrittenTells ==
    ASSUME OneEntryEach, IInv, RunExact, pc = "generate"
    PROVE  Tells(commits, Rewritten, plan[Len(plan)].sha, plan[Len(plan)].doc)
<1>. DEFINE d == Manifest[cur].path
<1>1. CoversOf(d) = Manifest[cur].covers /\ Manifest[cur].covers \subseteq Src
  BY CoversOfEntry, ManifestEntry DEF IInv, ControlOK
<1>2. /\ \A s \in CoversOf(d) : asm.text[s] = Shown(commits, asm.wm)[s]
      /\ asm.diff = {s \in CoversOf(d) : Shown(commits, asm.wm)[s] # asm.seen[s]}
      /\ asm.seen = Shown(commits, plan[Len(plan)].sha)
      /\ plan[Len(plan)].doc = d
  BY <1>1 DEF RunExact, AsmExact, BodyExact, DiffExact, StampExact, Tells
<1>3. \A s \in CoversOf(d) : Rewritten[s] = asm.seen[s]
  BY <1>1, <1>2 DEF Rewritten
<1>. QED
  BY <1>2, <1>3 DEF Tells

(* The answer, or none, goes into the last entry of the plan.              *)
LEMMA GenerateRun == OneEntryEach /\ IInv /\ RunExact /\ Generate => RunExact'
<1>. SUFFICES ASSUME OneEntryEach, IInv, RunExact, Generate PROVE RunExact'
  OBVIOUS
<1>1. /\ UNCHANGED << mode, commits >> /\ pc = "generate" /\ pc' \in {"read", "plan"}
  BY DEF Generate, settings, AfterEntry, repoVars
<1>2. PICK text \in {Rewritten, Nil} : plan' = [plan EXCEPT ![Len(plan)].text = text]
  BY DEF Generate
<1>3. Tells(commits, Rewritten, plan[Len(plan)].sha, plan[Len(plan)].doc)
  BY <1>1, RewrittenTells
<1>4. PlanExact'
  <2>1. \A i \in DOMAIN plan : plan[i] \in Entry
    BY PlanEntry DEF IInv, TypeOK
  <2>2. /\ DOMAIN plan' = DOMAIN plan
        /\ \A i \in DOMAIN plan : /\ plan'[i].doc = plan[i].doc /\ plan'[i].sha = plan[i].sha
                                  /\ plan'[i].side = plan[i].side
                                  /\ i # Len(plan) => plan'[i].text = plan[i].text
                                  /\ i = Len(plan) => plan'[i].text = text
    BY <1>2, <2>1 DEF Entry
  <2>3. ASSUME NEW i \in DOMAIN plan' PROVE EntryExact(commits', mode', plan'[i])
    <3>1. EntryExact(commits, mode, plan[i]) /\ i \in DOMAIN plan
      BY <2>2 DEF RunExact, PlanExact
    <3>2. CASE i # Len(plan)
      BY <1>1, <2>2, <3>1, <3>2 DEF EntryExact
    <3>3. CASE i = Len(plan)
      <4>1. /\ plan'[i].doc = plan[i].doc /\ plan'[i].sha = plan[i].sha
            /\ plan'[i].side = plan[i].side /\ plan'[i].text = text
        BY <2>2, <3>1, <3>3
      <4>2. text # Nil => Tells(commits, text, plan[i].sha, plan[i].doc)
        BY <1>2, <1>3, <3>3
      <4>3. commits' = commits /\ mode' = mode
        BY <1>1
      <4>. QED
        BY <3>1, <4>1, <4>2, <4>3 DEF EntryExact
    <3>. QED
      BY <3>2, <3>3
  <2>. QED
    BY <2>3 DEF PlanExact
<1>5. AsmExact'
  BY <1>1 DEF AsmExact, BodyExact, DiffExact, StampExact
<1>. QED
  BY <1>4, <1>5 DEF RunExact

(* The texts of the plan stay true as the history grows.                   *)
LEMMA PlanLater ==
    ASSUME IInv, MemoryOK, PlanExact, UNCHANGED << plan, mode >>,
           SameTrees(commits, commits', Len(commits))
    PROVE  PlanExact'
<1>1. Len(commits) \in Nat
  BY DEF IInv, TypeOK, RepoTypeOK
<1>2. ASSUME NEW i \in DOMAIN plan PROVE EntryExact(commits', mode, plan[i])
  <2>1. plan[i].sha \in Nat /\ plan[i].sha <= Len(commits) /\ EntryExact(commits, mode, plan[i])
    BY DEF MemoryOK, Commit, PlanExact
  <2>. QED
    BY <1>1, <2>1, TellsLater DEF EntryExact
<1>. QED
  BY <1>2 DEF PlanExact

(* A commit added while the run is elsewhere: the versions it holds stay,  *)
(* and while HEAD is read for the stamp, so does HEAD.                     *)
LEMMA BesideRun ==
    ASSUME IInv, MemoryOK, RunExact, UNCHANGED << pc, mode, plan, asm, cur >>,
           SameTrees(commits, commits', Len(commits)),
           pc = "resolve" => HeadTree'.src = HeadTree.src
    PROVE  RunExact'
<1>1. Len(commits) \in Nat
  BY DEF IInv, TypeOK, RepoTypeOK
<1>2. Shown(commits', asm.wm) = Shown(commits, asm.wm)
  <2>1. asm.wm \in Nat /\ asm.wm <= Len(commits)
    BY DEF IInv, TypeOK, RunTypeOK, Mark, MemoryOK
  <2>. QED
    BY <1>1, <2>1, ShownLater
<1>3. pc = "generate" =>
        Shown(commits', plan[Len(plan)].sha) = Shown(commits, plan[Len(plan)].sha)
  <2>1. pc = "generate" => Len(plan) \in DOMAIN plan
    BY EmptySeq DEF IInv, TypeOK, RunTypeOK, ControlOK
  <2>2. pc = "generate" => plan[Len(plan)].sha \in Nat /\ plan[Len(plan)].sha <= Len(commits)
    BY <2>1 DEF MemoryOK, Commit
  <2>. QED
    BY <1>1, <2>2, ShownLater
<1>4. AsmExact'
  BY <1>2, <1>3 DEF RunExact, AsmExact, BodyExact, DiffExact, StampExact, Tells
<1>5. PlanExact'
  BY PlanLater DEF RunExact
<1>. QED
  BY <1>4, <1>5 DEF RunExact

(* The commit of the run.                                                  *)
LEMMA CommitRun ==
    ASSUME IInv, MemoryOK, RunExact, UNCHANGED << mode, plan >>, pc' = "committed",
           SameTrees(commits, commits', Len(commits))
    PROVE  RunExact'
<1>1. AsmExact'
  BY DEF AsmExact, BodyExact, DiffExact, StampExact
<1>2. PlanExact'
  BY PlanLater DEF RunExact
<1>. QED
  BY <1>1, <1>2 DEF RunExact

-----------------------------------------------------------------------------
(* The setting: a path has one entry, and where a sidecar is used every run*)
(* starts from a clean checkout.                                           *)
Settled == OneEntryEach /\ (FrontmatterOnly \/ Tidy)

(* The files a run reads before it changes any are exact.                  *)
LEMMA CleanExact ==
    ASSUME IInv, ExactInv, pc \in CleanPhases
    PROVE  ExactTree(commits, mode, worktree)
<1>1. CASE FrontmatterOnly
  BY <1>1 DEF ExactInv, FilesTrue, FilesExact
<1>2. CASE ~FrontmatterOnly
  <2>1. worktree = TreeOf(HeadCommit)
    BY <1>2 DEF ExactInv, FilesTrue, TidyFiles, IsClean, HeadTree
  <2>2. HeadCommit \in Commit
    BY HeadIsCommit DEF IInv, TypeOK
  <2>. QED
    BY <2>1, <2>2 DEF ExactInv, CommitsExact
<1>. QED
  BY <1>1, <1>2

(* As long as no commit is made, the history stays exact.                  *)
LEMMA SameCommitsExact ==
    ASSUME CommitsExact, UNCHANGED << commits, mode >>
    PROVE  CommitsExact'
BY DEF CommitsExact, Commit, TreeOf

(* The end of a run, once the files are known to be exact where they must. *)
LEMMA EndExact ==
    ASSUME ExactInv, NEW result, NEW docs, FinishSkipping(result, docs), commits' = commits,
           FrontmatterOnly => FilesExact'
    PROVE  ExactInv'
<1>1. pc' = "idle" /\ plan' = << >> /\ mode' = mode
  BY DEF FinishSkipping
<1>2. CommitsExact'
  BY <1>1, SameCommitsExact DEF ExactInv
<1>3. FilesTrue'
  BY <1>1 DEF FilesTrue, TidyFiles, CleanPhases
<1>. QED
  BY <1>1, <1>2, <1>3, EndRun DEF ExactInv

(* The ways a run ends without writing.                                    *)
LEMMA EndsExact ==
    ASSUME ExactInv,
           OverBudget \/ PlanNothing \/ BranchExists \/ CheckoutRefused \/ FailCleanly \/ Done
    PROVE  ExactInv'
<1>1. UNCHANGED << commits, index, worktree >>
  BY DEF OverBudget, PlanNothing, BranchExists, CheckoutRefused, FailCleanly, Done, repoVars
<1>2. PICK result, docs : FinishSkipping(result, docs)
  BY DEF OverBudget, PlanNothing, BranchExists, CheckoutRefused, FailCleanly, Done, Finish
<1>3. FrontmatterOnly => FilesExact'
  BY <1>1, <1>2 DEF FinishSkipping, ExactInv, FilesTrue, FilesExact
<1>. QED
  BY <1>1, <1>2, <1>3, EndExact

(* Steps that leave the repository alone leave its files as true as they   *)
(* were, as far as the first write.                                        *)
LEMMA QuietFiles ==
    ASSUME IInv, ExactInv, UNCHANGED << repoVars, mode >>,
           pc \in CleanPhases, pc' \in CleanPhases \cup {"write"}
    PROVE  CommitsExact' /\ FilesTrue'
<1>1. CommitsExact' /\ UNCHANGED << commits, refs, head, index, worktree, mode >>
  BY SameCommitsExact DEF ExactInv, repoVars
<1>2. CASE FrontmatterOnly
  BY <1>1, <1>2 DEF ExactInv, FilesTrue, FilesExact
<1>3. CASE ~FrontmatterOnly
  <2>1. IsClean /\ IsClean' /\ ExactTree(commits', mode', worktree')
    BY <1>1, <1>3, CleanExact
    DEF ExactInv, FilesTrue, TidyFiles, IsClean, HeadTree, HeadCommit, TreeOf
  <2>2. Untouched'
    BY <1>1, <2>1 DEF Untouched, IsClean
  <2>. QED
    BY <1>1, <1>3, <2>1, <2>2 DEF FilesTrue, TidyFiles, CleanPhases
<1>. QED
  BY <1>1, <1>2, <1>3

(* The start of a run.                                                     *)
LEMMA StartExact == Settled /\ IInv /\ ExactInv /\ Start => ExactInv'
<1>. SUFFICES ASSUME Settled, IInv, ExactInv, Start PROVE ExactInv'
  OBVIOUS
<1>1. /\ UNCHANGED << commits, refs, head, index, worktree, mode, plan >>
      /\ pc' = "read" /\ (Tidy => IsClean)
  BY DEF Start, repoVars
<1>2. CommitsExact'
  BY <1>1, SameCommitsExact DEF ExactInv
<1>3. FilesTrue'
  <2>1. CASE FrontmatterOnly
    BY <1>1, <2>1 DEF ExactInv, FilesTrue, FilesExact
  <2>2. CASE ~FrontmatterOnly
    BY <1>1, <2>2
    DEF Settled, FilesTrue, TidyFiles, CleanPhases, IsClean, HeadTree, HeadCommit, TreeOf
  <2>. QED
    BY <2>1, <2>2
<1>. QED
  BY <1>1, <1>2, <1>3, QuietRun DEF ExactInv

(* In an exact tree readWatermarkForDoc finds the watermark where the      *)
(* manifest says it is: no fallback finds another.                         *)
LEMMA ReadsOwnMark ==
    ASSUME RunTypeOK, NEW disk \in Tree, NEW d \in Doc, NoOtherMark(mode, disk, d)
    PROVE  ReadWatermark(disk, d) = OwnMark(mode, disk, d)
<1>1. CASE mode[d] # Nil
  <2>1. FrontmatterOf(disk.doc[d]) = NoMark
    BY <1>1 DEF NoOtherMark
  <2>2. ~HasRecord(Load(disk.side[mode[d]]), d) => Lookup(Load(disk.side[mode[d]]), d) = NoMark
    BY DEF Lookup
  <2>. QED
    BY <1>1, <2>1, <2>2 DEF ReadWatermark, OwnMark, SidecarMark
<1>2. CASE mode[d] = Nil
  <2>1. \A w \in Sidecar : Lookup(Load(disk.side[w]), d) = NoMark
    BY <1>2, RepositoryAssumption DEF NoOtherMark, SidecarMark
  <2>2. CASE FrontmatterOf(disk.doc[d]) # NoMark
    BY <1>2, <2>2 DEF ReadWatermark, OwnMark
  <2>3. CASE FrontmatterOf(disk.doc[d]) = NoMark
    BY <1>2, <2>1, <2>3, ReadWatermarkSource DEF OwnMark
  <2>. QED
    BY <2>2, <2>3
<1>. QED
  BY <1>1, <1>2

(* The entry's body and watermark are read from an exact tree.             *)
LEMMA ReadDocExact == IInv /\ ExactInv /\ ReadDoc => ExactInv'
<1>. SUFFICES ASSUME IInv, ExactInv, ReadDoc PROVE ExactInv'
  OBVIOUS
<1>. DEFINE d == Manifest[cur].path
<1>1. UNCHANGED << repoVars, mode >> /\ pc = "read" /\ pc' = "diff"
  BY DEF ReadDoc, repoVars, settings
<1>2. CommitsExact' /\ FilesTrue'
  BY <1>1, QuietFiles DEF CleanPhases
<1>3. d \in Doc /\ worktree \in Tree /\ RunTypeOK
  BY <1>1, ManifestEntry DEF IInv, TypeOK, RepoTypeOK, ControlOK
<1>4. Exact(commits, mode, worktree, d)
  BY <1>1, <1>3, CleanExact DEF CleanPhases, ExactTree
<1>5. ReadWatermark(worktree, d) = OwnMark(mode, worktree, d)
  BY <1>3, <1>4, ReadsOwnMark DEF Exact
<1>6. RunExact'
  BY <1>4, <1>5, ReadDocRun DEF Exact, ExactInv
<1>. QED
  BY <1>1, <1>2, <1>6 DEF ExactInv

LEMMA ComputeDiffExact == IInv /\ ExactInv /\ ComputeDiff => ExactInv'
<1>. SUFFICES ASSUME IInv, ExactInv, ComputeDiff PROVE ExactInv'
  OBVIOUS
<1>1. UNCHANGED << repoVars, mode >> /\ pc = "diff" /\ pc' = "resolve"
  BY DEF ComputeDiff, settings
<1>2. CommitsExact' /\ FilesTrue'
  BY <1>1, QuietFiles DEF CleanPhases
<1>. QED
  BY <1>1, <1>2, ComputeDiffRun DEF ExactInv

(* The entries without a diff, and the decisions of Apply.                 *)
LEMMA QuietExact ==
    ASSUME IInv, ExactInv, SkipEntry \/ PlanWrites \/ ResolveBranch
    PROVE  ExactInv'
<1>1. /\ UNCHANGED << repoVars, mode, plan, commits >>
      /\ pc \in CleanPhases /\ pc' \in {"read", "plan", "write", "branch", "ref"}
  BY DEF SkipEntry, PlanWrites, ResolveBranch, AfterEntry, settings, repoVars, CleanPhases
<1>2. CommitsExact' /\ FilesTrue'
  BY <1>1, QuietFiles DEF CleanPhases
<1>. QED
  BY <1>1, <1>2, QuietRun DEF ExactInv

LEMMA ResolveHEADExact == IInv /\ ExactInv /\ ResolveHEAD => ExactInv'
<1>. SUFFICES ASSUME IInv, ExactInv, ResolveHEAD PROVE ExactInv'
  OBVIOUS
<1>1. UNCHANGED << repoVars, mode >> /\ pc = "resolve" /\ pc' = "generate"
  BY DEF ResolveHEAD, settings
<1>2. CommitsExact' /\ FilesTrue'
  BY <1>1, QuietFiles DEF CleanPhases
<1>. QED
  BY <1>1, <1>2, ResolveHEADRun DEF ExactInv

LEMMA GenerateExact == Settled /\ IInv /\ ExactInv /\ Generate => ExactInv'
<1>. SUFFICES ASSUME Settled, IInv, ExactInv, Generate PROVE ExactInv'
  OBVIOUS
<1>1. UNCHANGED << repoVars, mode >> /\ pc = "generate" /\ pc' \in {"read", "plan"}
  BY DEF Generate, settings, AfterEntry
<1>2. CommitsExact' /\ FilesTrue'
  BY <1>1, QuietFiles DEF CleanPhases
<1>. QED
  BY <1>1, <1>2, GenerateRun DEF ExactInv, Settled

-----------------------------------------------------------------------------
(* The steps of Apply.  What they share: no entry is under assembly, and   *)
(* the plan stays.                                                         *)
LEMMA ApplyExact ==
    ASSUME ExactInv, UNCHANGED << commits, mode, plan >>, FilesTrue',
           pc' \in {"checkout", "resetIndex", "resetFiles", "write", "sidecar", "stage",
                   "commit"}
    PROVE  ExactInv'
<1>1. CommitsExact'
  BY SameCommitsExact DEF ExactInv
<1>. QED
  BY <1>1, QuietRun DEF ExactInv

(* SetReference leaves HEAD where it is.                                   *)
LEMMA CreateRefExact == IInv /\ ExactInv /\ CreateRef => ExactInv'
<1>. SUFFICES ASSUME IInv, ExactInv, CreateRef PROVE ExactInv'
  OBVIOUS
<1>1. /\ pc = "ref" /\ pc' = "checkout" /\ refs' = [refs EXCEPT ![branch] = base]
      /\ UNCHANGED << commits, head, index, worktree, mode, plan >>
  BY DEF CreateRef, settings
<1>2. HeadCommit' = HeadCommit
  <2>1. refs[branch] = 0 /\ refs[head] # 0 /\ refs \in [Branch -> 0 .. Len(commits)]
        /\ head \in Branch
    BY <1>1 DEF IInv, ControlOK, TypeOK, RepoTypeOK
  <2>. QED
    BY <1>1, <2>1 DEF HeadCommit
<1>3. FilesTrue'
  <2>1. CASE FrontmatterOnly
    BY <1>1, <2>1 DEF ExactInv, FilesTrue, FilesExact
  <2>2. CASE ~FrontmatterOnly
    <3>1. IsClean
      BY <1>1, <2>2 DEF ExactInv, FilesTrue, TidyFiles, CleanPhases
    <3>2. IsClean'
      BY <1>1, <1>2, <3>1 DEF IsClean, HeadTree, TreeOf
    <3>. QED
      BY <1>1, <2>2, <3>2 DEF FilesTrue, TidyFiles
  <2>. QED
    BY <2>1, <2>2
<1>. QED
  BY <1>1, <1>3, ApplyExact

(* With frontmatter alone, a mixture of exact trees is an exact tree.      *)
LEMMA MixedTree ==
    ASSUME NEW h, NEW md \in Modes, FrontmatterOnly, NEW tree, NEW t, NEW u,
           Mixes(tree, t, u), ExactTree(h, md, t), ExactTree(h, md, u)
    PROVE  ExactTree(h, md, tree)
<1>1. ASSUME NEW d \in Doc PROVE Exact(h, md, tree, d)
  <2>1. md[d] = Nil /\ Exact(h, md, t, d) /\ Exact(h, md, u, d)
    BY DEF FrontmatterOnly, ExactTree
  <2>. QED
    BY <2>1, ExactMixes
<1>. QED
  BY <1>1 DEF ExactTree

(* HEAD moves, the files stay.                                             *)
LEMMA CheckoutHeadExact == IInv /\ ExactInv /\ CheckoutHead => ExactInv'
<1>. SUFFICES ASSUME IInv, ExactInv, CheckoutHead PROVE ExactInv'
  OBVIOUS
<1>1. /\ pc = "checkout" /\ pc' = "resetIndex"
      /\ UNCHANGED << commits, index, worktree, mode, plan >>
  BY DEF CheckoutHead, settings
<1>2. FilesTrue'
  <2>1. CASE FrontmatterOnly
    BY <1>1, <2>1 DEF ExactInv, FilesTrue, FilesExact
  <2>2. CASE ~FrontmatterOnly
    <3>1. worktree = index
      BY <1>1, <2>2 DEF ExactInv, FilesTrue, TidyFiles, CleanPhases, IsClean
    <3>. QED
      BY <1>1, <2>2, <3>1 DEF FilesTrue, TidyFiles, CleanPhases, SameDocs
  <2>. QED
    BY <2>1, <2>2
<1>. QED
  BY <1>1, <1>2, ApplyExact

(* The index becomes an exact tree, and what it had of others is           *)
(* remembered.                                                             *)
LEMMA ResetIndexExact == IInv /\ ExactInv /\ ResetIndex => ExactInv'
<1>. SUFFICES ASSUME IInv, ExactInv, ResetIndex PROVE ExactInv'
  OBVIOUS
<1>. DEFINE target == TreeOf(base)
<1>1. /\ pc = "resetIndex" /\ pc' = "resetFiles"
      /\ UNCHANGED << commits, worktree, mode, plan, base >>
      /\ index' = target /\ removed' = Changes(index, target)
  BY DEF ResetIndex, settings
<1>2. base \in Commit /\ target \in Tree /\ target' = target
  BY <1>1, BaseIsCommit, CommittedTree DEF IInv, TypeOK, TreeOf
<1>3. ExactTree(commits, mode, target)
  BY <1>2 DEF ExactInv, CommitsExact
<1>4. CASE FrontmatterOnly
  <2>1. FilesTrue'
    BY <1>1, <1>3, <1>4 DEF ExactInv, FilesTrue, FilesExact
  <2>. QED
    BY <1>1, <2>1, ApplyExact
<1>5. CASE ~FrontmatterOnly
  <2>1. SameDocs(worktree, index)
    BY <1>1, <1>5 DEF ExactInv, FilesTrue, TidyFiles
  <2>2. \A d \in Doc : d \notin removed'.doc => target.doc[d] = index.doc[d]
    BY <1>1, <1>2 DEF Changes, Changed, Tree
  <2>3. \A w \in Sidecar : w \notin removed'.side => target.side[w] = index.side[w]
    BY <1>1, <1>2 DEF Changes, Changed, Tree
  <2>4. ToRestore'
    BY <1>1, <1>2, <2>1, <2>2, <2>3 DEF ToRestore, SameDocs
  <2>5. FilesTrue'
    BY <1>1, <1>5, <2>4 DEF FilesTrue, TidyFiles, CleanPhases
  <2>. QED
    BY <1>1, <2>5, ApplyExact
<1>. QED
  BY <1>4, <1>5

(* After the checkout the files are those of the new branch, or a mixture  *)
(* of two exact trees.                                                     *)
LEMMA ResetFilesExact == IInv /\ ExactInv /\ ResetFiles => ExactInv'
<1>. SUFFICES ASSUME IInv, ExactInv, ResetFiles PROVE ExactInv'
  OBVIOUS
<1>. DEFINE target == TreeOf(base)
<1>1. /\ pc = "resetFiles" /\ pc' = "write"
      /\ UNCHANGED << commits, index, mode, plan >>
      /\ worktree' = RestoredTree(removed, index, target, worktree)
  BY DEF ResetFiles, settings
<1>2. base \in Commit /\ target \in Tree /\ worktree \in Tree /\ mode \in Modes
  BY <1>1, BaseIsCommit, CommittedTree DEF IInv, TypeOK, RepoTypeOK, ExactInv
<1>3. ExactTree(commits, mode, target)
  BY <1>2 DEF ExactInv, CommitsExact
<1>4. CASE FrontmatterOnly
  <2>1. ExactTree(commits, mode, worktree) /\ Mixes(worktree', target, worktree)
    BY <1>1, <1>2, <1>4, RestoredMixes DEF ExactInv, FilesTrue, FilesExact
  <2>2. ExactTree(commits, mode, worktree')
    BY <1>2, <1>3, <1>4, <2>1, MixedTree
  <2>3. FilesTrue'
    BY <1>1, <1>4, <2>2 DEF ExactInv, FilesTrue, FilesExact
  <2>. QED
    BY <1>1, <2>3, ApplyExact
<1>5. CASE ~FrontmatterOnly
  <2>1. ToRestore
    BY <1>1, <1>5 DEF ExactInv, FilesTrue, TidyFiles
  <2>2. /\ worktree'.doc = Restored(removed.doc, index.doc, target.doc, worktree.doc)
        /\ worktree'.side = Restored(removed.side, index.side, target.side, worktree.side)
    BY <1>1 DEF RestoredTree
  <2>3. worktree'.doc = target.doc
    BY <1>2, <2>1, <2>2, TreeParts DEF ToRestore, SameDocs, Restored
  <2>4. worktree'.side = target.side
    BY <1>2, <2>1, <2>2, TreeParts DEF ToRestore, SameDocs, Restored
  <2>5. ExactTree(commits, mode, worktree')
    BY <1>3, <2>3, <2>4, ExactSame DEF SameDocs
  <2>6. Untouched'
    BY <1>1, <2>1, <2>3, <2>4 DEF Untouched, ToRestore, SameDocs
  <2>7. FilesTrue'
    BY <1>1, <1>5, <2>5, <2>6 DEF FilesTrue, TidyFiles, CleanPhases
  <2>. QED
    BY <1>1, <2>7, ApplyExact
<1>. QED
  BY <1>4, <1>5

-----------------------------------------------------------------------------
(* Phase 3.  A page leaves every other document alone.                     *)
LEMMA OtherPages ==
    ASSUME NEW h, NEW md, NEW tree, NEW d, NEW page, NEW new, WithPage(new, tree, d, page),
           NEW e \in Doc, e # d, Exact(h, md, tree, e)
    PROVE  Exact(h, md, new, e)
BY DEF WithPage, Exact, NoOtherMark, OwnMark, SidecarMark

(* A document whose page carries its watermark is as exact as the page.    *)
LEMMA OwnPage ==
    ASSUME NEW h, NEW md, NEW tree, NEW d \in Doc, NEW page, NEW new,
           WithPage(new, tree, d, page), md[d] = Nil, NoOtherMark(md, tree, d),
           Tells(h, TextOf(page), FrontmatterOf(page), d)
    PROVE  Exact(h, md, new, d)
BY DEF WithPage, Exact, NoOtherMark, OwnMark, SidecarMark

(* The entry being written.                                                *)
LEMMA EntryIsExact ==
    ASSUME IInv, ExactInv, pc \in {"write", "sidecar"}
    PROVE  /\ plan[k].side = mode[plan[k].doc]
           /\ Tells(commits, plan[k].text, plan[k].sha, plan[k].doc)
           /\ plan[k].doc \in PlannedDocs
<1>1. k \in DOMAIN plan /\ plan[k].text # Nil
  BY DEF IInv, ControlOK, HasBodies
<1>. QED
  BY <1>1 DEF ExactInv, RunExact, PlanExact, EntryExact, PlannedDocs, Bodies

(* With frontmatter alone, no entry has a sidecar.                         *)
LEMMA NoSidecarEntry ==
    ASSUME IInv, ExactInv, FrontmatterOnly, pc \in {"write", "sidecar"}
    PROVE  plan[k].side = Nil /\ pc # "sidecar"
<1>1. plan[k].doc \in Doc
  BY PlannedEntry
<1>2. plan[k].side = Nil
  BY <1>1, EntryIsExact DEF ExactInv, FrontmatterOnly
<1>. QED
  BY <1>2 DEF IInv, ControlOK

(* A page written with its stamp is exact on its own.                      *)
LEMMA WriteFileExact == IInv /\ AgeInv /\ ExactInv /\ WriteFile => ExactInv'
<1>. SUFFICES ASSUME IInv, AgeInv, ExactInv, WriteFile PROVE ExactInv'
  OBVIOUS
<1>. DEFINE d == plan[k].doc
            page == [mark |-> plan[k].sha, shows |-> plan[k].text]
<1>1. /\ WithPage(worktree', worktree, d, page)
      /\ pc = "write" /\ plan[k].side = Nil /\ UNCHANGED << commits, refs, head, index >>
      /\ d \in Doc
  BY EntryAge DEF WriteFile, IInv, TypeOK, RepoTypeOK, Tree, WithPage
<1>2. FrontmatterOf(page) = plan[k].sha /\ TextOf(page) = plan[k].text
  BY <1>1, EntryAge, PageParts
<1>3. mode[d] = Nil /\ d \in PlannedDocs /\ Tells(commits, TextOf(page), FrontmatterOf(page), d)
  BY <1>1, <1>2, EntryIsExact
<1>. HIDE DEF page
<1>4. ExactTree(commits, mode, worktree)
  BY <1>1 DEF ExactInv, FilesTrue, FilesExact, TidyFiles
<1>5. ExactTree(commits, mode, worktree')
  <2>1. Exact(commits, mode, worktree', d)
    BY <1>1, <1>3, <1>4, OwnPage DEF ExactTree, Exact
  <2>2. \A e \in Doc : e # d => Exact(commits, mode, worktree', e)
    BY <1>1, <1>4, OtherPages DEF ExactTree
  <2>. QED
    BY <2>1, <2>2 DEF ExactTree
<1>6. CASE AfterWrite /\ UNCHANGED touched
  <2>1. UNCHANGED << plan, mode, touched >> /\ pc' \in {"write", "stage"}
    BY <1>6 DEF AfterWrite, settings
  <2>2. CASE FrontmatterOnly
    <3>1. FilesTrue'
      BY <1>1, <1>5, <2>1, <2>2 DEF ExactInv, FilesTrue, FilesExact
    <3>. QED
      BY <1>1, <2>1, <3>1, ApplyExact
  <2>3. CASE ~FrontmatterOnly
    <3>1. Untouched
      BY <1>1, <2>3 DEF ExactInv, FilesTrue, TidyFiles
    <3>2. Untouched'
      BY <1>1, <1>3, <2>1, <3>1 DEF Untouched, WithPage, PlannedDocs, Bodies
    <3>3. FilesTrue'
      BY <1>1, <1>5, <2>1, <2>3, <3>2 DEF FilesTrue, TidyFiles, CleanPhases
    <3>. QED
      BY <1>1, <2>1, <3>3, ApplyExact
  <2>. QED
    BY <2>2, <2>3
<1>7. CASE Finish("written")
  <2>1. mode' = mode
    BY <1>7 DEF Finish, FinishSkipping
  <2>2. FrontmatterOnly => FilesExact'
    BY <1>1, <1>5, <2>1 DEF ExactInv, FilesTrue, FilesExact
  <2>. QED
    BY <1>1, <1>7, <2>2, EndExact DEF Finish
<1>. QED
  BY <1>6, <1>7 DEF WriteFile

(* Between the document and its sidecar the document is half written.      *)
LEMMA WriteFileNoFrontmatterExact ==
    IInv /\ AgeInv /\ ExactInv /\ WriteFileNoFrontmatter => ExactInv'
<1>. SUFFICES ASSUME IInv, AgeInv, ExactInv, WriteFileNoFrontmatter PROVE ExactInv'
  OBVIOUS
<1>. DEFINE d == plan[k].doc
            page == [mark |-> NoMark, shows |-> plan[k].text]
<1>1. /\ WithPage(worktree', worktree, d, page)
      /\ pc = "write" /\ pc' = "sidecar" /\ plan[k].side # Nil
      /\ UNCHANGED << commits, index, plan, mode, k, touched >>
      /\ d \in Doc
  BY EntryAge
  DEF WriteFileNoFrontmatter, settings, applyVars, IInv, TypeOK, RepoTypeOK, Tree, WithPage
<1>2. FrontmatterOf(page) = NoMark /\ TextOf(page) = plan[k].text
  BY <1>1, EntryAge, PageParts DEF NoMark, Mark
<1>3. d \in PlannedDocs /\ ~FrontmatterOnly
  BY <1>1, EntryIsExact, NoSidecarEntry
<1>. HIDE DEF page
<1>4. ExactTree(commits, mode, worktree) /\ Untouched
  BY <1>1, <1>3 DEF ExactInv, FilesTrue, TidyFiles
<1>5. HalfWritten(plan[k].doc, plan[k].text)'
  <2>1. \A e \in Doc \ {d} : Exact(commits, mode, worktree', e)
    BY <1>1, <1>4, OtherPages DEF ExactTree
  <2>2. NoOtherMark(mode, worktree', d) /\ TextOf(worktree'.doc[d]) = plan[k].text
    BY <1>1, <1>2, <1>4 DEF ExactTree, Exact, NoOtherMark, WithPage, SidecarMark
  <2>. QED
    BY <1>1, <2>1, <2>2 DEF HalfWritten
<1>6. Untouched'
  BY <1>1, <1>3, <1>4 DEF Untouched, WithPage, PlannedDocs, Bodies
<1>7. FilesTrue'
  BY <1>1, <1>3, <1>5, <1>6 DEF FilesTrue, TidyFiles, CleanPhases
<1>. QED
  BY <1>1, <1>7, ApplyExact

(* The record completes it.                                                *)
LEMMA SaveSidecarExact == IInv /\ AgeInv /\ ExactInv /\ SaveSidecar => ExactInv'
<1>. SUFFICES ASSUME IInv, AgeInv, ExactInv, SaveSidecar PROVE ExactInv'
  OBVIOUS
<1>. DEFINE d == plan[k].doc
            w == plan[k].side
            recs == Load(worktree.side[w])
            saved == Upsert(recs, d, plan[k].sha)
<1>1. /\ WithFile(worktree', worktree, w, saved)
      /\ pc = "sidecar" /\ UNCHANGED << commits, index >>
      /\ worktree \in Tree
  BY EntryAge DEF SaveSidecar, IInv, TypeOK, RepoTypeOK, Tree, WithFile
<1>2. w \in Sidecar /\ d \in Doc /\ plan[k].sha \in Mark
  BY <1>1, EntryAge
<1>3. /\ w = mode[d] /\ w # Nil /\ d \in PlannedDocs /\ ~FrontmatterOnly
      /\ Tells(commits, plan[k].text, plan[k].sha, d)
  BY <1>1, EntryIsExact, NoSidecarEntry DEF IInv, ControlOK
<1>4. HalfWritten(d, plan[k].text) /\ Untouched
  BY <1>1, <1>3 DEF ExactInv, FilesTrue, TidyFiles
<1>5. recs \in Records /\ saved # Nil
  BY <1>1, <1>2, MarkTypes, UpsertType, EmptyFile
<1>6. /\ Lookup(saved, d) = plan[k].sha
      /\ \A e \in Doc : e # d => Lookup(saved, e) = Lookup(recs, e)
  BY <1>2, <1>5, LookupAfterUpsert, UpsertKeepsOthers
<1>. HIDE DEF saved
<1>7. /\ SidecarMark(worktree', w, d) = plan[k].sha
      /\ \A v \in Sidecar : v # w => SidecarMark(worktree', v, d) = SidecarMark(worktree, v, d)
  BY <1>1, <1>2, <1>5, <1>6, FileRecords
<1>8. ASSUME NEW e \in Doc, e # d, NEW v \in Sidecar
      PROVE  SidecarMark(worktree', v, e) = SidecarMark(worktree, v, e)
  <2>1. SidecarMark(worktree', w, e) = SidecarMark(worktree, w, e)
    <3>1. SidecarMark(worktree', w, e) = Lookup(saved, e)
      BY <1>1, <1>2, <1>5, FileRecords
    <3>2. Lookup(saved, e) = Lookup(recs, e)
      BY <1>6, <1>8
    <3>. QED
      BY <3>1, <3>2 DEF SidecarMark
  <2>. QED
    BY <1>1, <1>2, <1>5, <2>1, FileRecords
<1>. HIDE DEF recs
<1>9. Exact(commits, mode, worktree', d)
  BY <1>1, <1>3, <1>4, <1>7 DEF Exact, NoOtherMark, OwnMark, HalfWritten, WithFile
<1>10. ASSUME NEW e \in Doc, e # d PROVE Exact(commits, mode, worktree', e)
  <2>1. Exact(commits, mode, worktree, e)
    BY <1>4, <1>10 DEF HalfWritten
  <2>2. NoOtherMark(mode, worktree', e)
    BY <1>1, <1>8, <1>10, <2>1 DEF Exact, NoOtherMark, WithFile
  <2>3. OwnMark(mode, worktree', e) = OwnMark(mode, worktree, e)
    <3>1. mode[e] \in Sidecar \cup {Nil}
      BY DEF IInv, TypeOK, RunTypeOK
    <3>. QED
      BY <1>1, <1>8, <1>10, <3>1 DEF OwnMark, WithFile
  <2>. QED
    BY <1>1, <2>1, <2>2, <2>3 DEF Exact, WithFile
<1>11. ExactTree(commits, mode, worktree')
  BY <1>9, <1>10 DEF ExactTree
<1>12. CASE AfterWrite /\ touched' = touched \cup {w}
  <2>1. UNCHANGED << plan, mode >> /\ pc' \in {"write", "stage"}
    BY <1>12 DEF AfterWrite, settings
  <2>2. Untouched'
    BY <1>1, <1>3, <1>4, <1>12, <2>1 DEF Untouched, WithFile, PlannedDocs, Bodies
  <2>3. FilesTrue'
    BY <1>1, <1>3, <1>11, <2>1, <2>2 DEF FilesTrue, TidyFiles, CleanPhases
  <2>. QED
    BY <1>1, <2>1, <2>3, ApplyExact
<1>13. CASE Finish("written")
  BY <1>1, <1>3, <1>13, EndExact DEF Finish
<1>. QED
  BY <1>12, <1>13 DEF SaveSidecar

(* A torn page is an empty one, which promises nothing.                    *)
LEMMA FailTornExact == IInv /\ AgeInv /\ ExactInv /\ FailTorn => ExactInv'
<1>. SUFFICES ASSUME IInv, AgeInv, ExactInv, FailTorn PROVE ExactInv'
  OBVIOUS
<1>1. /\ pc \in {"write", "sidecar"} /\ UNCHANGED << commits, index, mode >>
      /\ FinishSkipping("failed", skipped) /\ worktree \in Tree
  BY DEF FailTorn, Finish, FinishSkipping, IInv, TypeOK, RepoTypeOK
<1>2. FrontmatterOnly => FilesExact'
  <2>. SUFFICES ASSUME FrontmatterOnly PROVE FilesExact'
    OBVIOUS
  <2>. DEFINE d == plan[k].doc
  <2>1. d \in Doc /\ plan[k].side = Nil /\ pc = "write"
    BY <1>1, NoSidecarEntry, PlannedEntry
  <2>2. WithPage(worktree', worktree, d, EmptyPage) /\ ExactTree(commits, mode, worktree)
        /\ ExactTree(commits, mode, index)
    BY <1>1, <2>1 DEF FailTorn, WithPage, Tree, ExactInv, FilesTrue, FilesExact
  <2>3. FrontmatterOf(EmptyPage) = NoMark /\ TextOf(EmptyPage) = NoText
    BY PageParts DEF EmptyPage, NoMark, Mark, NoText, Text
  <2>4. mode[d] = Nil /\ Tells(commits, TextOf(EmptyPage), FrontmatterOf(EmptyPage), d)
    BY <1>1, <2>1, <2>3, EntryIsExact DEF Tells, Shown
  <2>5. Exact(commits, mode, worktree', d)
    BY <2>1, <2>2, <2>4, OwnPage DEF ExactTree, Exact
  <2>6. \A e \in Doc : e # d => Exact(commits, mode, worktree', e)
    BY <2>1, <2>2, OtherPages DEF ExactTree
  <2>7. ExactTree(commits, mode, worktree')
    BY <2>5, <2>6 DEF ExactTree
  <2>. QED
    BY <1>1, <2>2, <2>7 DEF FilesExact
<1>. QED
  BY <1>1, <1>2, EndExact

(* Phase 4: what is staged is what is on disk.                             *)
LEMMA StageFilesExact == IInv /\ ExactInv /\ StageFiles => ExactInv'
<1>. SUFFICES ASSUME IInv, ExactInv, StageFiles PROVE ExactInv'
  OBVIOUS
<1>1. /\ index' = Staged(index, worktree, PlannedDocs, touched)
      /\ pc = "stage" /\ pc' = "commit"
      /\ UNCHANGED << commits, worktree, mode, plan >>
      /\ index \in Tree /\ worktree \in Tree
  BY DEF StageFiles, settings, IInv, TypeOK, RepoTypeOK
<1>2. CASE FrontmatterOnly
  <2>1. Mixes(index', index, worktree) /\ mode \in Modes
        /\ ExactTree(commits, mode, index) /\ ExactTree(commits, mode, worktree)
    BY <1>1, <1>2, StagedMixes DEF ExactInv, FilesTrue, FilesExact
  <2>2. ExactTree(commits, mode, index')
    BY <1>2, <2>1, MixedTree
  <2>3. FilesTrue'
    BY <1>1, <1>2, <2>1, <2>2 DEF FilesTrue, FilesExact
  <2>. QED
    BY <1>1, <2>3, ApplyExact
<1>3. CASE ~FrontmatterOnly
  <2>1. Untouched /\ ExactTree(commits, mode, worktree)
    BY <1>1, <1>3 DEF ExactInv, FilesTrue, TidyFiles
  <2>2. SameDocs(index', worktree)
    <3>1. /\ index'.doc = [d \in Doc |-> IF d \in PlannedDocs THEN worktree.doc[d]
                                                              ELSE index.doc[d]]
          /\ index'.side = [w \in Sidecar |-> IF w \in touched THEN worktree.side[w]
                                                              ELSE index.side[w]]
      BY <1>1 DEF Staged, Tree
    <3>2. index'.doc = worktree.doc
      BY <1>1, <2>1, <3>1, TreeParts DEF Untouched
    <3>3. index'.side = worktree.side
      BY <1>1, <2>1, <3>1, TreeParts DEF Untouched
    <3>. QED
      BY <3>2, <3>3 DEF SameDocs
  <2>3. ExactTree(commits, mode, index')
    BY <2>1, <2>2, ExactSame
  <2>4. FilesTrue'
    BY <1>1, <1>3, <2>3 DEF FilesTrue, TidyFiles, CleanPhases
  <2>. QED
    BY <1>1, <2>4, ApplyExact
<1>. QED
  BY <1>2, <1>3

(* Staging that stops anywhere leaves a mixture of two trees in the index. *)
LEMMA FailStagingExact == IInv /\ ExactInv /\ FailStaging => ExactInv'
<1>. SUFFICES ASSUME IInv, ExactInv, FailStaging PROVE ExactInv'
  OBVIOUS
<1>1. PICK docs, sides : index' = Staged(index, worktree, docs, sides)
  BY DEF FailStaging
<1>2. UNCHANGED << commits, worktree, mode >> /\ FinishSkipping("failed", skipped)
      /\ index \in Tree /\ worktree \in Tree
  BY DEF FailStaging, Finish, FinishSkipping, IInv, TypeOK, RepoTypeOK
<1>3. FrontmatterOnly => FilesExact'
  <2>1. Mixes(index', index, worktree)
    BY <1>1, <1>2, StagedMixes
  <2>. QED
    BY <1>2, <2>1, MixedTree DEF ExactInv, FilesTrue, FilesExact
<1>. QED
  BY <1>2, <1>3, EndExact

(* A tree, and the plan, stay exact when commits are added, or taken away  *)
(* after every commit they name.                                           *)
LEMMA TreeLater ==
    ASSUME NEW h, NEW g, NEW n \in Nat, SameTrees(h, g, n),
           NEW md \in [Doc -> Sidecar \cup {Nil}],
           NEW tree \in Tree, MarksBefore(tree, n + 1), ExactTree(h, md, tree)
    PROVE  ExactTree(g, md, tree)
<1>1. ASSUME NEW d \in Doc PROVE Exact(g, md, tree, d)
  BY ExactLater DEF ExactTree
<1>. QED
  BY <1>1 DEF ExactTree

(* The commit of a run is exact.                                           *)
LEMMA CommitIndexExact == IInv /\ AgeInv /\ ExactInv /\ CommitIndex => ExactInv'
<1>. SUFFICES ASSUME IInv, AgeInv, ExactInv, CommitIndex PROVE ExactInv'
  OBVIOUS
<1>1. /\ commits' = Append(commits, [tree |-> index, parent |-> HeadCommit])
      /\ pc = "commit" /\ pc' = "committed"
      /\ UNCHANGED << index, worktree, plan, mode >>
  BY SomethingToCommit DEF CommitIndex, AppendCommit, settings
<1>2. RepoTypeOK /\ index \in Tree /\ worktree \in Tree /\ HeadCommit \in Commit
      /\ mode \in [Doc -> Sidecar \cup {Nil}] /\ Len(commits) \in Nat
  BY HeadIsCommit DEF IInv, TypeOK, RepoTypeOK, RunTypeOK
<1>3. ExactTree(commits, mode, index)
  BY <1>1 DEF ExactInv, FilesTrue, FilesExact, TidyFiles
<1>4. MarksBefore(index, Len(commits) + 1) /\ MarksBefore(worktree, Len(commits) + 1)
  BY DEF AgeInv, FilesOK
<1>5. CommitsExact' /\ SameTrees(commits, commits', Len(commits))
  BY <1>1, <1>2, <1>3, <1>4, AppendExact DEF AgeInv, ExactInv
<1>6. FilesTrue'
  <2>1. CASE FrontmatterOnly
    <3>1. ExactTree(commits, mode, worktree)
      BY <2>1 DEF ExactInv, FilesTrue, FilesExact
    <3>2. ExactTree(commits', mode, index) /\ ExactTree(commits', mode, worktree)
      BY <1>2, <1>3, <1>4, <1>5, <3>1, TreeLater
    <3>. QED
      BY <1>1, <2>1, <3>2 DEF FilesTrue, FilesExact
  <2>2. CASE ~FrontmatterOnly
    BY <1>1, <2>2 DEF FilesTrue, TidyFiles, CleanPhases
  <2>. QED
    BY <2>1, <2>2
<1>7. RunExact'
  BY <1>1, <1>5, CommitRun DEF AgeInv, ExactInv
<1>. QED
  BY <1>1, <1>5, <1>6, <1>7 DEF ExactInv

(* Every step of a run.                                                    *)
LEMMA LocalStepExact == Settled /\ IInv /\ AgeInv /\ ExactInv /\ LocalStep => ExactInv'
<1>. SUFFICES ASSUME Settled, IInv, AgeInv, ExactInv, LocalStep PROVE ExactInv'
  OBVIOUS
<1>1. CASE AssembleStep
  BY <1>1, ReadDocExact, ComputeDiffExact, QuietExact, EndsExact, ResolveHEADExact, GenerateExact
  DEF AssembleStep
<1>2. CASE ApplyStep
  BY <1>2, EndsExact, QuietExact, CreateRefExact, CheckoutHeadExact, ResetIndexExact,
     ResetFilesExact, WriteFileExact, WriteFileNoFrontmatterExact, SaveSidecarExact,
     StageFilesExact, CommitIndexExact
  DEF ApplyStep
<1>3. CASE Failure
  BY <1>3, EndsExact, FailTornExact, FailStagingExact DEF Failure
<1>. QED
  BY <1>1, <1>2, <1>3, StartExact DEF LocalStep

-----------------------------------------------------------------------------
(* What happens beside a run adds exact commits and touches no             *)
(* documentation; while HEAD is read for the stamp, it stays.              *)
LEMMA BesideExact ==
    ASSUME IInv, IInv', AgeInv, ExactInv, UNCHANGED runVars, CommitsExact',
           SameTrees(commits, commits', Len(commits)),
           SameDocs(index', index), SameDocs(worktree', worktree),
           pc = "resolve" => HeadTree'.src = HeadTree.src,
           ~FrontmatterOnly /\ IsClean => IsClean'
    PROVE  ExactInv'
<1>1. UNCHANGED << pc, mode, plan, asm, cur, k, touched, base, removed >>
  BY DEF runVars, settings, entryVars, applyVars
<1>2. /\ Len(commits) \in Nat /\ mode \in [Doc -> Sidecar \cup {Nil}]
      /\ index \in Tree /\ worktree \in Tree
      /\ MarksBefore(index, Len(commits) + 1) /\ MarksBefore(worktree, Len(commits) + 1)
  <2>1. Len(commits) \in Nat /\ index \in Tree /\ worktree \in Tree
    BY DEF IInv, TypeOK, RepoTypeOK
  <2>2. mode \in [Doc -> Sidecar \cup {Nil}]
    BY DEF IInv, TypeOK, RunTypeOK
  <2>. QED
    BY <2>1, <2>2 DEF AgeInv, FilesOK
<1>3. /\ ExactTree(commits, mode, index) => ExactTree(commits', mode, index')
      /\ ExactTree(commits, mode, worktree) => ExactTree(commits', mode, worktree')
  BY <1>2, TreeLater, ExactSame
<1>4. FilesTrue'
  <2>1. CASE FrontmatterOnly
    BY <1>1, <1>3, <2>1 DEF ExactInv, FilesTrue, FilesExact
  <2>2. CASE ~FrontmatterOnly
    <3>1. TidyFiles
      BY <2>2 DEF ExactInv, FilesTrue
    <3>2. Untouched => Untouched'
      BY <1>1 DEF Untouched, SameDocs, PlannedDocs, Bodies
    <3>4. SameDocs(worktree, index) => SameDocs(worktree', index')
      BY DEF SameDocs
    <3>5. ASSUME pc = "resetFiles" PROVE ToRestore'
      <4>1. base \in Commit /\ base \in 1 .. Len(commits) /\ ToRestore
        BY <3>1, <3>5, BaseIsCommit DEF TidyFiles
      <4>2. TreeOf(base)' = TreeOf(base)
        BY <1>1, <4>1 DEF SameTrees, TreeOf
      <4>. QED
        BY <1>1, <4>1, <4>2 DEF ToRestore, SameDocs
    <3>3. ASSUME pc = "sidecar" PROVE HalfWritten(plan[k].doc, plan[k].text)'
      <4>1. HalfWritten(plan[k].doc, plan[k].text)
        BY <3>1, <3>3 DEF TidyFiles
      <4>2. ASSUME NEW d \in Doc \ {plan[k].doc} PROVE Exact(commits', mode, worktree', d)
        <5>1. Exact(commits', mode, worktree, d)
          BY <1>2, <4>1, ExactLater DEF HalfWritten
        <5>. QED
          BY <5>1 DEF SameDocs, Exact, NoOtherMark, OwnMark, SidecarMark
      <4>. QED
        BY <1>1, <4>1, <4>2 DEF HalfWritten, SameDocs, NoOtherMark, SidecarMark
    <3>. QED
      BY <1>1, <1>3, <2>2, <3>1, <3>2, <3>3, <3>4, <3>5 DEF FilesTrue, TidyFiles
  <2>. QED
    BY <2>1, <2>2
<1>5. RunExact'
  BY <1>1, BesideRun DEF AgeInv, ExactInv
<1>. QED
  BY <1>1, <1>4, <1>5 DEF ExactInv

(* Between runs only the history and the files can be wrong.               *)
LEMMA IdleExact ==
    ASSUME AgeInv, ExactInv, pc = "idle", UNCHANGED << pc, mode, plan >>, CommitsExact',
           FrontmatterOnly => FilesExact'
    PROVE  ExactInv'
<1>1. plan' = << >>
  BY DEF AgeInv, MemoryOK
<1>2. FilesTrue'
  BY DEF FilesTrue, TidyFiles, CleanPhases
<1>. QED
  BY <1>1, <1>2, EndRun DEF ExactInv

(* A developer's commit, of source files, is as exact as its parent.       *)
LEMMA DevCommitExact ==
    ASSUME IInv, IInv', AgeInv, ExactInv, UNCHANGED runVars, pc # "resolve",
           NEW s \in Src, DevCommit(s)
    PROVE  ExactInv'
<1>. DEFINE tree == [HeadTree EXCEPT !.src[s] = edits + 2]
<1>1. /\ RepoTypeOK /\ HeadCommit \in Commit /\ HeadTree \in Tree /\ HeadTree = TreeOf(HeadCommit)
      /\ mode' = mode /\ mode \in [Doc -> Sidecar \cup {Nil}] /\ edits + 2 \in Nat
  <2>1. RepoTypeOK /\ mode' = mode /\ mode \in [Doc -> Sidecar \cup {Nil}]
    BY DEF IInv, TypeOK, RunTypeOK, runVars, settings
  <2>2. HeadCommit \in Commit /\ HeadTree \in Tree
    BY <2>1, HeadIsCommit
  <2>3. edits + 2 \in Nat
    BY <2>1, RepositoryAssumption DEF RepoTypeOK
  <2>. QED
    BY <2>1, <2>2, <2>3 DEF HeadTree
<1>2. tree \in Tree /\ SameDocs(tree, HeadTree)
  BY <1>1, NewVersionType, NewVersionDocs
<1>3. /\ commits' = Append(commits, [tree |-> tree, parent |-> HeadCommit])
      /\ index' = [index EXCEPT !.src[s] = edits + 2]
      /\ worktree' = [worktree EXCEPT !.src[s] = edits + 2]
  BY DEF DevCommit, AppendCommit
<1>4. HeadTree' = tree
  BY <1>1, DevCommitAge DEF AgeInv, RepoAge
<1>5. IsClean => IsClean'
  BY <1>3, <1>4 DEF IsClean
<1>6. SameDocs(index', index) /\ SameDocs(worktree', worktree)
  BY <1>3, NewVersionDocs DEF IInv, TypeOK, RepoTypeOK
<1>. HIDE DEF tree
<1>7. ExactTree(commits, mode, tree) /\ MarksBefore(tree, Len(commits) + 1)
  <2>1. ExactTree(commits, mode, HeadTree)
    BY <1>1 DEF ExactInv, CommitsExact
  <2>2. MarksBefore(HeadTree, Len(commits) + 1)
    BY <1>1, CommitMarks DEF AgeInv
  <2>. QED
    BY <1>2, <2>1, <2>2, ExactSame, MarksBeforeSame
<1>8. CommitsExact' /\ SameTrees(commits, commits', Len(commits))
  BY <1>1, <1>2, <1>3, <1>7, AppendExact DEF AgeInv, ExactInv
<1>. QED
  BY <1>5, <1>6, <1>8, BesideExact

(* Developers, during a run and between runs.                              *)
LEMMA DeveloperExact ==
    ASSUME Settled, "resolve" \in CommitFree, IInv, IInv', AgeInv, ExactInv, Developer
    PROVE  ExactInv'
<1>1. PICK s \in Src : \/ pc \notin CommitFree /\ DevCommit(s)
                       \/ ~Tidy /\ (DevEdit(s) \/ DevStage(s))
  BY DEF Developer
<1>2. UNCHANGED runVars /\ RepoTypeOK
  BY DEF Developer, IInv, TypeOK
<1>3. CASE pc \notin CommitFree /\ DevCommit(s)
  BY <1>2, <1>3, DevCommitExact
<1>4. CASE ~Tidy /\ (DevEdit(s) \/ DevStage(s))
  <2>1. /\ UNCHANGED << commits, refs, head >>
        /\ SameDocs(index', index) /\ SameDocs(worktree', worktree)
    BY <1>2, <1>4, DevEditAge DEF AgeInv, RepoAge
  <2>2. CommitsExact' /\ SameTrees(commits, commits', Len(commits))
    BY <1>2, <2>1, SameCommitsExact
    DEF ExactInv, SameTrees, runVars, settings
  <2>3. HeadTree'.src = HeadTree.src /\ FrontmatterOnly
    BY <1>4, <2>1 DEF HeadTree, HeadCommit, TreeOf, Settled
  <2>. QED
    BY <1>2, <2>1, <2>2, <2>3, BesideExact
<1>. QED
  BY <1>1, <1>3, <1>4

(* The local merge of a docs branch.                                       *)
LEMMA MergeBranchExact ==
    ASSUME IInv, IInv', AgeInv, ExactInv, UNCHANGED runVars, pc = "idle",
           NEW b \in Branch, MergeBranch(b)
    PROVE  ExactInv'
<1>. DEFINE tree == Merged(refs[b], refs[Main])
<1>1. /\ refs[b] \in Commit /\ refs[Main] \in Commit /\ RepoTypeOK
      /\ mode \in [Doc -> Sidecar \cup {Nil}] /\ Len(commits) \in Nat
      /\ UNCHANGED << pc, mode, plan >>
  BY RepositoryAssumption, BranchCommit
  DEF MergeBranch, IInv, TypeOK, RepoTypeOK, RunTypeOK, runVars, settings
<1>2. MarksBefore(tree, Len(commits) + 1) /\ tree \in Tree
  BY <1>1, MergedMarks DEF AgeInv
<1>3. ExactTree(commits, mode, tree)
  BY <1>1, MergedCommitExact DEF MergeBranch, AgeInv, ExactInv
<1>4. commits' = Append(commits, [tree |-> tree, parent |-> refs[Main]])
      /\ index' = tree /\ worktree' = tree
  BY DEF MergeBranch
<1>. HIDE DEF tree
<1>5. CommitsExact' /\ SameTrees(commits, commits', Len(commits))
  BY <1>1, <1>2, <1>3, <1>4, AppendExact DEF AgeInv, ExactInv
<1>6. ExactTree(commits', mode, tree)
  BY <1>1, <1>2, <1>3, <1>5, TreeLater
<1>7. FilesExact'
  BY <1>1, <1>4, <1>6 DEF FilesExact
<1>. QED
  BY <1>1, <1>5, <1>7, IdleExact

(* A checkout of an exact commit, the only change of which is that files   *)
(* come from its tree.                                                     *)
LEMMA TakenExact ==
    ASSUME IInv, AgeInv, ExactInv, pc = "idle", UNCHANGED << pc, mode, plan, commits >>,
           NEW c \in Commit, Mixes(index', TreeOf(c), index), Mixes(worktree', TreeOf(c), worktree)
    PROVE  ExactInv'
<1>1. CommitsExact' /\ ExactTree(commits, mode, TreeOf(c)) /\ mode \in Modes
  BY SameCommitsExact DEF ExactInv, CommitsExact
<1>2. FrontmatterOnly => FilesExact'
  BY <1>1, MixedTree DEF ExactInv, FilesTrue, FilesExact
<1>. QED
  BY <1>1, <1>2, IdleExact

(* The operator, between runs.                                             *)
LEMMA OperatorExact ==
    ASSUME IInv, IInv', AgeInv, ExactInv, Operator
    PROVE  ExactInv'
<1>1. PICK b \in Branch : \/ ForceCheckout(b) \/ SwitchBranch(b)
                          \/ DeleteBranch(b) \/ MergeBranch(b)
  BY DEF Operator
<1>2. /\ pc = "idle" /\ UNCHANGED runVars /\ UNCHANGED << pc, mode, plan >>
      /\ RepoTypeOK /\ worktree \in Tree
  BY DEF Operator, runVars, settings, IInv, TypeOK, RepoTypeOK
<1>3. CASE ForceCheckout(b)
  <2>1. refs[b] \in Commit
    BY <1>2, <1>3, BranchCommit DEF ForceCheckout
  <2>2. Mixes(index', TreeOf(refs[b]), index) /\ Mixes(worktree', TreeOf(refs[b]), worktree)
        /\ commits' = commits
    BY <1>3 DEF ForceCheckout, Mixes
  <2>. QED
    BY <1>2, <2>1, <2>2, TakenExact
<1>4. CASE SwitchBranch(b)
  <2>1. refs[b] \in Commit /\ TreeOf(refs[b]) \in Tree
    BY <1>2, <1>4, BranchCommit DEF SwitchBranch
  <2>2. Mixes(index', TreeOf(refs[b]), index) /\ commits' = commits
    BY <1>4 DEF SwitchBranch, Mixes
  <2>3. Mixes(worktree', TreeOf(refs[b]), worktree)
    BY <1>2, <1>4, <2>1, StagedMixes DEF SwitchBranch
  <2>. QED
    BY <1>2, <2>1, <2>2, <2>3, TakenExact
<1>5. CASE DeleteBranch(b)
  <2>1. UNCHANGED << commits, index, worktree >>
    BY <1>5 DEF DeleteBranch
  <2>2. CommitsExact' /\ (FrontmatterOnly => FilesExact')
    BY <1>2, <2>1, SameCommitsExact DEF ExactInv, FilesTrue, FilesExact
  <2>. QED
    BY <1>2, <2>2, IdleExact
<1>6. CASE MergeBranch(b)
  BY <1>2, <1>6, MergeBranchExact
<1>. QED
  BY <1>1, <1>3, <1>4, <1>5, <1>6

(* At first there is no documentation, and no watermark to be wrong.       *)
LEMMA InitExact == Init => ExactInv
<1>. SUFFICES ASSUME Init PROVE ExactInv
  OBVIOUS
<1>1. PICK first \in FirstTrees :
          /\ commits = << [tree |-> first, parent |-> 0] >>
          /\ index = first /\ worktree = first
  BY DEF Init, RepoInit
<1>2. /\ \A d \in Doc : first.doc[d] = Nil
      /\ \A w \in Sidecar : first.side[w] = Nil
  BY DEF FirstTrees
<1>3. ASSUME NEW d \in Doc PROVE Exact(commits, mode, first, d)
  <2>1. FrontmatterOf(first.doc[d]) = NoMark /\ TextOf(first.doc[d]) = NoText
    BY <1>2 DEF FrontmatterOf, TextOf
  <2>2. \A w \in Sidecar : SidecarMark(first, w, d) = NoMark
    BY <1>2, EmptyFile DEF SidecarMark, Load
  <2>3. mode[d] \in Sidecar \cup {Nil}
    BY Settings DEF Init
  <2>. QED
    BY <2>1, <2>2, <2>3 DEF Exact, NoOtherMark, OwnMark, Tells, Shown
<1>4. ExactTree(commits, mode, first)
  BY <1>3 DEF ExactTree
<1>5. CommitsExact
  BY <1>1, <1>4 DEF CommitsExact, Commit, TreeOf
<1>6. FilesTrue
  BY <1>1, <1>4 DEF Init, FilesTrue, FilesExact, TidyFiles, CleanPhases
<1>. QED
  BY <1>5, <1>6, InitRun DEF Init, ExactInv

(* The setting of a run on its own: HEAD stays while it is read for the    *)
(* stamp, and nobody edits watermarks_file.                                *)
SettledRun == Settled /\ "resolve" \in CommitFree /\ MaxModeChanges = 0

(* Every step.                                                             *)
LEMMA NextExact ==
    ASSUME SettledRun, IInv, IInv', AgeInv, ExactInv, [Next]_vars
    PROVE  ExactInv'
<1>1. ~ChangeMode
  BY DEF SettledRun, ChangeMode, IInv, TypeOK, RunTypeOK
<1>2. CASE UNCHANGED vars
  <2>1. UNCHANGED repoVars /\ UNCHANGED runVars /\ UNCHANGED << commits, index, worktree, mode >>
    BY <1>2 DEF vars, repoVars, runVars, settings
  <2>2. CommitsExact' /\ SameTrees(commits, commits', Len(commits))
        /\ SameDocs(index', index) /\ SameDocs(worktree', worktree)
    BY <2>1, SameCommitsExact DEF ExactInv, SameTrees, SameDocs
  <2>3. HeadTree' = HeadTree /\ (IsClean => IsClean')
    BY <2>1 DEF repoVars, HeadTree, HeadCommit, TreeOf, IsClean
  <2>. QED
    BY <2>1, <2>2, <2>3, BesideExact
<1>. QED
  BY <1>1, <1>2, LocalStepExact, EndsExact, DeveloperExact, OperatorExact
  DEF Next, Environment, SettledRun

(* An exact tree has no watermark but the one its text fulfils.            *)
LEMMA ExactIsTruthful ==
    ASSUME NEW md \in [Doc -> Sidecar \cup {Nil}], NEW tree \in Tree, NEW d \in Doc,
           Exact(commits, md, tree, d), NEW m \in MarksOf(tree, d), NEW s \in CoversOf(d)
    PROVE  TreeOf(m).src[s] <= TextOf(tree.doc[d])[s]
<1>1. m = OwnMark(md, tree, d) /\ m # NoMark
  <2>1. /\ md[d] # Nil => FrontmatterOf(tree.doc[d]) = NoMark
        /\ \A w \in Sidecar : w # md[d] => Lookup(Load(tree.side[w]), d) = NoMark
    BY DEF Exact, NoOtherMark, SidecarMark
  <2>2. /\ m # NoMark
        /\ \/ m = FrontmatterOf(tree.doc[d])
           \/ \E w \in Sidecar : m = Lookup(Load(tree.side[w]), d)
    BY DEF MarksOf
  <2>3. CASE m = FrontmatterOf(tree.doc[d])
    BY <2>1, <2>2, <2>3 DEF OwnMark
  <2>4. CASE \E w \in Sidecar : m = Lookup(Load(tree.side[w]), d)
    <3>1. PICK w \in Sidecar : m = Lookup(Load(tree.side[w]), d)
      BY <2>4
    <3>2. md[d] = w /\ w # Nil
      BY <2>1, <2>2, <3>1, RepositoryAssumption
    <3>. QED
      BY <2>2, <3>1, <3>2 DEF OwnMark, SidecarMark
  <2>. QED
    BY <2>2, <2>3, <2>4
<1>2. TreeOf(m).src[s] = TextOf(tree.doc[d])[s]
  BY <1>1 DEF Exact, Tells, Shown, TreeOf
<1>3. s \in Src
  BY ManifestEntry DEF CoversOf
<1>4. TextOf(tree.doc[d])[s] \in Nat
  BY <1>3, TextOfType DEF Text
<1>. QED
  BY <1>2, <1>4

(* Where every tree a run can start from is exact, every watermark is      *)
(* truthful.                                                               *)
LEMMA ExactMarksTruthful == IInv /\ Settled /\ ExactInv => MarksTruthful
<1>. SUFFICES ASSUME IInv, Settled, ExactInv, NEW tree \in Trees, NEW d \in Doc,
                     NEW m \in MarksOf(tree, d), NEW s \in CoversOf(d)
              PROVE  TreeOf(m).src[s] <= TextOf(tree.doc[d])[s]
  BY DEF MarksTruthful
<1>1. \A c \in Commit : TreeOf(c) \in Tree /\ ExactTree(commits, mode, TreeOf(c))
  BY CommittedTree DEF IInv, TypeOK, ExactInv, CommitsExact
<1>2. tree \in Tree /\ ExactTree(commits, mode, tree)
  <2>1. CASE \E c \in Commit : tree = TreeOf(c)
    BY <1>1, <2>1
  <2>2. CASE tree = worktree /\ IsClean
    <3>1. HeadCommit \in Commit /\ tree = TreeOf(HeadCommit)
      BY <2>2, HeadIsCommit DEF IsClean, HeadTree, IInv, TypeOK
    <3>. QED
      BY <1>1, <3>1
  <2>3. CASE tree = worktree /\ ~Tidy
    BY <2>3 DEF Settled, ExactInv, FilesTrue, FilesExact, IInv, TypeOK, RepoTypeOK
  <2>. QED
    BY <2>1, <2>2, <2>3 DEF Trees
<1>. QED
  BY <1>2, ExactIsTruthful DEF ExactTree, IInv, TypeOK, RunTypeOK

(* A file of the diff is one whose version the body does not describe.     *)
LEMMA ExactOnlyWhenBehind == IInv /\ RunExact => OnlyWhenBehind
<1>. SUFFICES ASSUME IInv, RunExact, pc = "generate"
              PROVE  \E s \in asm.diff : asm.seen[s] # asm.text[s]
  BY DEF OnlyWhenBehind
<1>1. PICK s \in Manifest[cur].covers : Shown(commits, asm.wm)[s] # asm.seen[s] /\ s \in asm.diff
  BY DEF RunExact, AsmExact, DiffExact, StampExact
<1>2. s \in CoversOf(Manifest[cur].path)
  BY <1>1 DEF CoversOf, IInv, ControlOK
<1>3. asm.text[s] = Shown(commits, asm.wm)[s]
  BY <1>2 DEF RunExact, AsmExact, BodyExact, Tells
<1>. QED
  BY <1>1, <1>3

(* Every watermark a later run can start from tells the truth about the    *)
(* text of its document, for every manifest with one entry to a path,      *)
(* every history and every failure: with frontmatter alone in any          *)
(* worktree, with sidecars when every run starts from a clean checkout.    *)
(* HEAD must stay while it is read for the stamp (run head_race shows what *)
(* happens otherwise), and watermarks_file as it is.                       *)
THEOREM WatermarksAreTruthful ==
    ASSUME SettledRun PROVE Spec => []MarksTruthful
<1>1. IInv /\ ExactInv => MarksTruthful
  BY ExactMarksTruthful DEF SettledRun
<1>2. IInv /\ IInv' /\ AgeInv /\ ExactInv /\ [Next]_vars => ExactInv'
  BY NextExact
<1>. QED
  BY <1>1, <1>2, InitInv, NextInv, InitAge, NextAge, InitExact, PTL DEF Spec

(* In the same setting the model is called only for a document some of     *)
(* whose covered files have a version its text does not describe: no run   *)
(* pays for an answer that is not needed.                                  *)
THEOREM ModelOnlyWhenBehind ==
    ASSUME SettledRun PROVE Spec => []OnlyWhenBehind
<1>1. IInv /\ ExactInv => OnlyWhenBehind
  BY ExactOnlyWhenBehind DEF ExactInv
<1>2. IInv /\ IInv' /\ AgeInv /\ ExactInv /\ [Next]_vars => ExactInv'
  BY NextExact
<1>. QED
  BY <1>1, <1>2, InitInv, NextInv, InitAge, NextAge, InitExact, PTL DEF Spec
=============================================================================
