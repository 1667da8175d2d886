---------------------------- MODULE CommitsProofs ----------------------------
(***************************************************************************)
(* What a run leaves in the history: its commit holds its plan and nothing *)
(* else, a run that ends well missed nothing, and seen from the history    *)
(* the runs do what module Documentation promises.                         *)
(*                                                                         *)
(* CommitInv follows the plan through the disk and the index into the      *)
(* commit, SourceInv the sources through the diffs into the texts, and     *)
(* ProgressOK the entries through the manifest into the plan.              *)
(*                                                                         *)
(* MovedInv, at the end, adds what is true of every commit while a         *)
(* document's watermark moves between its frontmatter and a sidecar.       *)
(***************************************************************************)
EXTENDS MarksProofs

(* The setting: where a run may find somebody's files in its way, every run*)
(* starts from a clean checkout or leaves sidecars alone, and nobody stages*)
(* from the moment its index is reset until it is committed.               *)
Undisturbed ==
    /\ FrontmatterOnly \/ Tidy
    /\ Tidy \/ {"resetFiles", "write", "stage", "commit"} \subseteq StageFree

(* Apply names, creates and checks out its branch, and then writes.        *)
Branching == {"branch", "ref", "checkout", "resetIndex", "resetFiles"}

Applying == {"write", "sidecar", "stage"}

(* What a run decided holds until it ends: a real run works on its own     *)
(* branch, and what it skips is known when it plans.                       *)
Decided ==
    /\ pc # "idle" => started \in Commit /\ outcome = "none"
    /\ pc \in Branching \cup {"stage", "commit", "committed"} => ~dry
    /\ (pc \in {"write", "sidecar"} /\ ~dry) \/ pc \in {"stage", "commit"} => head = branch
    /\ branch # Main
    /\ pc \in HasBodies => skipped = SkippedDocs
    /\ mode \in Modes
    /\ \A i \in DOMAIN plan : plan[i].side = mode[plan[i].doc]
    /\ FrontmatterOnly \/ pc \in CleanPhases \cup Branching \cup {"idle"} => touched = {}
    /\ pc = "resetIndex" /\ "resetIndex" \in CommitFree => HeadCommit = base

(* What is staged is HEAD's tree, then with the files of the plan.         *)
IndexOK ==
    /\ pc = "resetFiles" => index = HeadTree
    /\ pc \in Applying /\ (Tidy \/ ~dry) => index = HeadTree
    /\ pc = "commit" => index = Staged(HeadTree, worktree, PlannedDocs, touched)

(* The entry that counts for its document, of those in a set.              *)
Latest(i, S) == i \in S /\ \A j \in S : plan[j].doc = plan[i].doc => j <= i

Before(n) == {i \in Bodies : i < n}

PageOf(e) == [mark |-> IF e.side = Nil THEN e.sha ELSE NoMark, shows |-> e.text]

Complete(disk, saved, e) ==
    /\ disk.doc[e.doc] = PageOf(e)
    /\ e.side # Nil => e.side \in saved /\ SidecarMark(disk, e.side, e.doc) = e.sha

(* What the plan says is on disk, as far as the run has written: at the    *)
(* sidecar of an entry, its page, and all of the entries of other documents*)
(* before it.                                                              *)
OnDisk(disk, saved, S) == \A i \in Bodies : Latest(i, S) => Complete(disk, saved, plan[i])

OthersOnDisk(disk, saved) ==
    \A i \in Bodies : Latest(i, Before(k)) /\ plan[i].doc # plan[k].doc =>
        Complete(disk, saved, plan[i])

DiskOK ==
    /\ pc \in Branching => Before(k) = {}
    /\ pc = "write" => OnDisk(worktree, touched, Before(k))
    /\ pc = "sidecar" => /\ worktree.doc[plan[k].doc] = PageOf(plan[k])
                         /\ OthersOnDisk(worktree, touched)
    /\ pc \in {"stage", "commit", "committed"} => OnDisk(worktree, touched, Bodies)

(* A sidecar has no other new record than those of the plan.               *)
Planned(w, d) == \E i \in Bodies : plan[i].doc = d /\ plan[i].side = w

SameRecords(saved, t, u) ==
    \A w \in saved, d \in Doc : Planned(w, d) \/ SidecarMark(t, w, d) = SidecarMark(u, w, d)

RecordsOK ==
    /\ pc \in Applying => SameRecords(touched, worktree, index)
    /\ pc = "commit" => SameRecords(touched, worktree, HeadTree)

(* From a clean checkout, nothing changes on disk but what is planned.     *)
KeptOK ==
    Tidy => /\ pc \in CleanPhases => IsClean
            /\ pc = "resetIndex" => SameDocs(worktree, index)
            /\ pc = "resetFiles" => ToRestore
            /\ pc \in Applying => \A w \in Sidecar \ touched : worktree.side[w] = index.side[w]
            /\ pc \in Applying \cup {"commit", "committed"} =>
                 \A d \in Doc \ PlannedDocs : worktree.doc[d] = TreeOf(started).doc[d]

CommitInv == Decided /\ IndexOK /\ DiskOK /\ RecordsOK /\ KeptOK

-----------------------------------------------------------------------------
(* However a run ends, what it leaves in memory satisfies the invariant.   *)
LEMMA EndCommit ==
    ASSUME CommitInv, NEW result, NEW docs, FinishSkipping(result, docs)
    PROVE  CommitInv'
<1>1. /\ pc' = "idle" /\ plan' = << >> /\ touched' = {} /\ branch' = "common" /\ mode' = mode
  BY DEF FinishSkipping
<1>2. "common" # Main
  BY LocalRunAssumption
<1>3. Decided'
  BY <1>1, <1>2 DEF CommitInv, Decided, HasBodies, Branching
<1>. QED
  BY <1>1, <1>3 DEF CommitInv, IndexOK, DiskOK, RecordsOK, KeptOK, Applying, CleanPhases, Branching

(* The ways a run ends before it commits, or after.                        *)
LEMMA EndsCommit ==
    ASSUME CommitInv,
           \/ OverBudget \/ PlanNothing \/ BranchExists \/ CheckoutRefused
           \/ Failure \/ Done
    PROVE  CommitInv'
BY EndCommit
DEF OverBudget, PlanNothing, BranchExists, CheckoutRefused, Failure, FailCleanly, FailTorn,
    FailStaging, Done, Finish

(* Between runs there is nothing to keep.                                  *)
LEMMA IdleCommit ==
    ASSUME AgeInv, CommitInv, pc = "idle", UNCHANGED << pc, plan, branch, touched >>,
           mode' \in Modes
    PROVE  CommitInv'
BY DEF AgeInv, MemoryOK, CommitInv, Decided, IndexOK, DiskOK, RecordsOK, KeptOK, Applying,
       CleanPhases, HasBodies, Branching

(* The start of a run.                                                     *)
LEMMA StartCommit == IInv /\ AgeInv /\ CommitInv /\ Start => CommitInv'
<1>. SUFFICES ASSUME IInv, AgeInv, CommitInv, Start PROVE CommitInv'
  OBVIOUS
<1>1. /\ pc = "idle" /\ pc' = "read" /\ started' = HeadCommit /\ outcome' = "none"
      /\ UNCHANGED << commits, refs, head, index, worktree, plan, branch, touched, mode >>
      /\ Tidy => IsClean
  BY DEF Start, repoVars, applyVars
<1>2. HeadCommit \in Commit
  BY HeadIsCommit DEF IInv, TypeOK
<1>3. Decided'
  BY <1>1, <1>2 DEF CommitInv, Decided, Commit, HasBodies, CleanPhases, Branching
<1>4. KeptOK'
  BY <1>1 DEF KeptOK, Applying, IsClean, HeadTree, HeadCommit, TreeOf
<1>. QED
  BY <1>1, <1>3, <1>4 DEF CommitInv, IndexOK, DiskOK, RecordsOK, Applying, Branching

(* The steps of Assemble, and of Apply before it changes anything.         *)
LEMMA QuietCommit ==
    ASSUME IInv, CommitInv, UNCHANGED repoVars, pc \in CleanPhases,
           pc' \in {"read", "diff", "resolve", "generate", "plan"},
           UNCHANGED << mode, started, outcome, branch, touched >>,
           \A i \in DOMAIN plan' : plan'[i].side = mode[plan'[i].doc]
    PROVE  CommitInv'
<1>1. Decided'
  BY DEF CommitInv, Decided, Commit, HasBodies, CleanPhases, Branching, repoVars
<1>2. KeptOK'
  BY DEF CommitInv, KeptOK, Applying, IsClean, HeadTree, HeadCommit, TreeOf, repoVars
<1>. QED
  BY <1>1, <1>2 DEF CommitInv, IndexOK, DiskOK, RecordsOK, Applying, Branching

(* Assemble's entries have the sidecar of the manifest.                    *)
LEMMA AssembleCommit == IInv /\ CommitInv /\ AssembleStep => CommitInv'
<1>. SUFFICES ASSUME IInv, CommitInv, AssembleStep PROVE CommitInv'
  OBVIOUS
<1>1. CASE ReadDoc \/ ComputeDiff \/ SkipEntry
  BY <1>1, QuietCommit
  DEF ReadDoc, ComputeDiff, SkipEntry, AfterEntry, CleanPhases, settings, applyVars, resultVars,
      CommitInv, Decided
<1>2. CASE OverBudget
  BY <1>2, EndsCommit
<1>3. CASE ResolveHEAD
  <2>. DEFINE e == [doc |-> Manifest[cur].path, text |-> Nil, sha |-> HeadCommit,
                    audience |-> Manifest[cur].audience,
                    side |-> mode[Manifest[cur].path]]
  <2>1. /\ UNCHANGED << repoVars, mode, started, outcome, branch, touched >>
        /\ pc = "resolve" /\ pc' = "generate" /\ plan' = Append(plan, e)
    BY <1>3 DEF ResolveHEAD, settings, applyVars, resultVars
  <2>2. plan \in Seq(Entry) /\ e.side = mode[e.doc]
    BY <2>1, ManifestEntry DEF IInv, TypeOK, RunTypeOK, ControlOK
  <2>. HIDE DEF e
  <2>3. \A i \in DOMAIN plan' : plan'[i].side = mode[plan'[i].doc]
    BY <2>1, <2>2 DEF CommitInv, Decided
  <2>. QED
    BY <2>1, <2>3, QuietCommit DEF CleanPhases
<1>4. CASE Generate
  <2>1. /\ UNCHANGED << repoVars, mode, started, outcome, branch, touched >>
        /\ pc = "generate" /\ pc' \in {"read", "plan"}
    BY <1>4 DEF Generate, settings, applyVars, resultVars, AfterEntry
  <2>2. PICK text : plan' = [plan EXCEPT ![Len(plan)].text = text]
    BY <1>4 DEF Generate
  <2>3. plan \in Seq(Entry)
    BY DEF IInv, TypeOK, RunTypeOK
  <2>4. \A i \in DOMAIN plan' : plan'[i].side = mode[plan'[i].doc]
    BY <2>2, <2>3 DEF CommitInv, Decided, Entry
  <2>. QED
    BY <2>1, <2>4, QuietCommit DEF CleanPhases
<1>. QED
  BY <1>1, <1>2, <1>3, <1>4 DEF AssembleStep

(* A clean checkout has the documents of the commit the run started from.  *)
LEMMA CleanDocs ==
    ASSUME AgeInv, CommitInv, Tidy, pc \in CleanPhases
    PROVE  /\ index = HeadTree /\ worktree = HeadTree
           /\ HeadTree.doc = TreeOf(started).doc
BY DEF CommitInv, KeptOK, IsClean, AgeInv, StartOK, FromStart, SameDocs, BeforeCommit,
       CleanPhases, Phases, HeadTree

(* Nothing is on disk before the first entry of the write plan.            *)
LEMMA NothingBefore ==
    ASSUME RunTypeOK, NEW i, IsNext(i, 0)
    PROVE  Before(i) = {}
BY PlanEntry DEF IsNext, Before, Bodies

(* The write plan.                                                         *)
LEMMA PlanWritesCommit == IInv /\ AgeInv /\ CommitInv /\ PlanWrites => CommitInv'
<1>. SUFFICES ASSUME IInv, AgeInv, CommitInv, PlanWrites PROVE CommitInv'
  OBVIOUS
<1>1. /\ UNCHANGED << commits, refs, head, index, worktree, mode, started, outcome, branch,
                      touched, plan, dry >>
      /\ pc = "plan" /\ pc' = (IF dry THEN "write" ELSE "branch") /\ skipped' = SkippedDocs
      /\ IsNext(k', 0) /\ dry \in BOOLEAN
  BY DEF PlanWrites, repoVars, settings, IInv, TypeOK, RunTypeOK
<1>2. Before(k')= {}
  BY <1>1, NothingBefore DEF IInv, TypeOK
<1>3. Decided'
  BY <1>1 DEF CommitInv, Decided, Commit, HasBodies, CleanPhases, Branching, SkippedDocs, Bodies
<1>4. DiskOK'
  BY <1>1, <1>2 DEF DiskOK, OnDisk, Latest, Before, Bodies, Branching
<1>5. touched = {}
  BY <1>1 DEF CommitInv, Decided, CleanPhases
<1>6. RecordsOK'
  BY <1>1, <1>5 DEF RecordsOK, SameRecords
<1>7. Tidy => index = HeadTree /\ worktree = HeadTree /\ HeadTree.doc = TreeOf(started).doc
  BY <1>1, CleanDocs DEF CleanPhases
<1>8. HeadTree' = HeadTree /\ TreeOf(started)' = TreeOf(started)
  BY <1>1 DEF HeadTree, HeadCommit, TreeOf
<1>9. IndexOK'
  BY <1>1, <1>7, <1>8 DEF IndexOK, Applying
<1>10. KeptOK'
  BY <1>1, <1>7, <1>8 DEF KeptOK, IsClean
<1>. QED
  BY <1>3, <1>4, <1>6, <1>9, <1>10 DEF CommitInv

(* The branch is named, and created.                                       *)
LEMMA BranchCommitInv ==
    ASSUME IInv, CommitInv, ResolveBranch \/ CreateRef
    PROVE  CommitInv'
<1>1. /\ UNCHANGED << commits, head, index, worktree, mode, started, outcome, touched, plan,
                      dry, k, skipped >>
      /\ pc \in {"branch", "ref"} /\ pc' \in {"ref", "checkout"}
      /\ branch' \in {branch, BranchName}
  BY DEF ResolveBranch, CreateRef, repoVars, settings, applyVars, resultVars
<1>2. branch' # Main
  BY <1>1, BranchNameIsNotMain DEF IInv, TypeOK, CommitInv, Decided
<1>3. HeadTree' = HeadTree
  <2>1. CASE ResolveBranch
    BY <2>1 DEF ResolveBranch, repoVars, HeadTree, HeadCommit, TreeOf
  <2>2. CASE CreateRef
    <3>1. refs' = [refs EXCEPT ![branch] = base] /\ pc = "ref"
      BY <2>2 DEF CreateRef
    <3>2. refs[branch] = 0 /\ refs[head] # 0 /\ refs \in [Branch -> 0 .. Len(commits)]
          /\ head \in Branch
      BY <3>1 DEF IInv, ControlOK, TypeOK, RepoTypeOK
    <3>. QED
      BY <1>1, <3>1, <3>2 DEF HeadTree, HeadCommit, TreeOf
  <2>. QED
    BY <2>1, <2>2
<1>4. Decided'
  BY <1>1, <1>2 DEF CommitInv, Decided, Commit, HasBodies, CleanPhases, Branching, SkippedDocs,
                    Bodies
<1>5. DiskOK'
  BY <1>1 DEF CommitInv, DiskOK, Before, Bodies, Branching
<1>6. KeptOK'
  BY <1>1, <1>3 DEF CommitInv, KeptOK, IsClean, CleanPhases, Applying
<1>. QED
  BY <1>1, <1>4, <1>5, <1>6 DEF CommitInv, IndexOK, RecordsOK, Applying

(* HEAD names the new branch, which is where it was created.               *)
LEMMA CheckoutHeadCommit == IInv /\ AgeInv /\ CommitInv /\ CheckoutHead => CommitInv'
<1>. SUFFICES ASSUME IInv, AgeInv, CommitInv, CheckoutHead PROVE CommitInv'
  OBVIOUS
<1>1. /\ UNCHANGED << commits, refs, index, worktree, mode, started, outcome, touched, plan,
                      dry, k, skipped, branch, base >>
      /\ pc = "checkout" /\ pc' = "resetIndex" /\ head' = branch
  BY DEF CheckoutHead, settings, applyVars, resultVars
<1>2. HeadCommit' = base'
  BY <1>1 DEF HeadCommit, IInv, ControlOK
<1>3. Decided'
  BY <1>1, <1>2
  DEF CommitInv, Decided, Commit, HasBodies, CleanPhases, Branching, SkippedDocs, Bodies
<1>4. DiskOK'
  BY <1>1 DEF CommitInv, DiskOK, Before, Bodies, Branching
<1>5. KeptOK'
  BY <1>1, CleanDocs DEF KeptOK, CleanPhases, Applying, SameDocs
<1>. QED
  BY <1>1, <1>3, <1>4, <1>5 DEF CommitInv, IndexOK, RecordsOK, Applying

(* The index becomes the tree of the new branch.                           *)
LEMMA ResetIndexCommit == IInv /\ AgeInv /\ CommitInv /\ ResetIndex => CommitInv'
<1>. SUFFICES ASSUME IInv, AgeInv, CommitInv, ResetIndex PROVE CommitInv'
  OBVIOUS
<1>. DEFINE target == TreeOf(base)
<1>1. /\ UNCHANGED << commits, head, worktree, mode, started, outcome, touched, plan, dry, k,
                      skipped, branch, base >>
      /\ pc = "resetIndex" /\ pc' = "resetFiles"
      /\ refs' = [refs EXCEPT ![head] = base]
      /\ index' = target /\ removed' = Changes(index, target)
  BY DEF ResetIndex, settings, resultVars
<1>2. /\ refs \in [Branch -> 0 .. Len(commits)] /\ head \in Branch
      /\ index \in Tree /\ target \in Tree /\ target' = target
  BY <1>1, BaseIsCommit, CommittedTree DEF IInv, TypeOK, RepoTypeOK, TreeOf
<1>3. HeadTree' = target
  BY <1>1, <1>2 DEF HeadTree, HeadCommit, TreeOf
<1>4. Decided'
  BY <1>1
  DEF CommitInv, Decided, Commit, HasBodies, CleanPhases, Branching, SkippedDocs, Bodies
<1>5. DiskOK'
  BY <1>1 DEF CommitInv, DiskOK, Before, Bodies, Branching
<1>6. KeptOK'
  <2>. SUFFICES ASSUME Tidy PROVE KeptOK'
    BY DEF KeptOK
  <2>1. SameDocs(worktree, index)
    BY <1>1 DEF CommitInv, KeptOK
  <2>2. \A d \in Doc : d \notin removed'.doc => target.doc[d] = index.doc[d]
    BY <1>1, <1>2 DEF Changes, Changed, Tree
  <2>3. \A w \in Sidecar : w \notin removed'.side => target.side[w] = index.side[w]
    BY <1>1, <1>2 DEF Changes, Changed, Tree
  <2>4. ToRestore'
    BY <1>1, <1>2, <2>1, <2>2, <2>3 DEF ToRestore, SameDocs
  <2>. QED
    BY <1>1, <2>4 DEF KeptOK, CleanPhases, Applying
<1>. QED
  BY <1>1, <1>3, <1>4, <1>5, <1>6 DEF CommitInv, IndexOK, RecordsOK, Applying

(* So do the files on disk, where nobody's files are in the way.           *)
LEMMA ResetFilesCommit == IInv /\ AgeInv /\ CommitInv /\ ResetFiles => CommitInv'
<1>. SUFFICES ASSUME IInv, AgeInv, CommitInv, ResetFiles PROVE CommitInv'
  OBVIOUS
<1>. DEFINE target == TreeOf(base)
<1>1. /\ UNCHANGED << commits, refs, head, index, mode, started, outcome, touched, plan, dry,
                      k, skipped, branch >>
      /\ pc = "resetFiles" /\ pc' = "write" /\ head = branch
      /\ worktree' = RestoredTree(removed, index, target, worktree)
  BY DEF ResetFiles, settings, resultVars, IInv, ControlOK
<1>2. /\ HeadTree' = HeadTree /\ TreeOf(started)' = TreeOf(started) /\ index = HeadTree
      /\ touched = {} /\ Before(k) = {} /\ target \in Tree /\ worktree \in Tree
  BY <1>1, BaseIsCommit, CommittedTree
  DEF HeadTree, HeadCommit, TreeOf, CommitInv, IndexOK, Decided, DiskOK, Branching, IInv, TypeOK,
      RepoTypeOK
<1>3. Decided'
  BY <1>1
  DEF CommitInv, Decided, Commit, HasBodies, CleanPhases, Branching, SkippedDocs, Bodies
<1>4. DiskOK'
  BY <1>1, <1>2 DEF DiskOK, Before, Bodies, OnDisk, Latest, Branching
<1>5. RecordsOK'
  BY <1>1, <1>2 DEF RecordsOK, SameRecords
<1>6. KeptOK'
  <2>. SUFFICES ASSUME Tidy PROVE KeptOK'
    BY DEF KeptOK
  <2>1. ToRestore /\ SameDocs(HeadTree, TreeOf(started))
    BY <1>1
    DEF CommitInv, KeptOK, AgeInv, StartOK, FromStart, BeforeCommit, Phases, HeadTree
  <2>2. /\ worktree'.doc = Restored(removed.doc, index.doc, target.doc, worktree.doc)
        /\ worktree'.side = Restored(removed.side, index.side, target.side, worktree.side)
    BY <1>1 DEF RestoredTree
  <2>3. worktree'.doc = target.doc
    BY <1>2, <2>1, <2>2, TreeParts DEF ToRestore, SameDocs, Restored
  <2>4. worktree'.side = target.side
    BY <1>2, <2>1, <2>2, TreeParts DEF ToRestore, SameDocs, Restored
  <2>. QED
    BY <1>1, <1>2, <2>1, <2>3, <2>4 DEF KeptOK, CleanPhases, Applying, ToRestore, SameDocs
<1>. QED
  BY <1>1, <1>2, <1>3, <1>4, <1>5, <1>6 DEF CommitInv, IndexOK

-----------------------------------------------------------------------------
(* Phase 3.  What the steps that write share.                              *)
LEMMA WritingCommit ==
    ASSUME IInv, CommitInv, pc \in {"write", "sidecar"},
           UNCHANGED << commits, refs, head, index, mode, started, outcome, plan, dry, skipped,
                        branch >>,
           pc' \in Applying, pc' = "stage" => ~dry, FrontmatterOnly => touched' = touched
    PROVE  Decided' /\ IndexOK' /\ HeadTree' = HeadTree /\ TreeOf(started)' = TreeOf(started)
<1>1. HeadTree' = HeadTree /\ TreeOf(started)' = TreeOf(started)
  BY DEF HeadTree, HeadCommit, TreeOf
<1>2. Decided'
  BY DEF CommitInv, Decided, Commit, HasBodies, CleanPhases, Branching, SkippedDocs, Bodies,
         Applying
<1>3. IndexOK'
  BY <1>1 DEF CommitInv, IndexOK, Applying
<1>. QED
  BY <1>1, <1>2, <1>3

(* The entry that is written is one of the write plan.                     *)
LEMMA WrittenEntry ==
    ASSUME IInv, pc \in {"write", "sidecar"}
    PROVE  k \in Bodies /\ k \in Nat /\ Bodies \subseteq Nat /\ plan[k].doc \in PlannedDocs
BY PlanEntry DEF IInv, TypeOK, RunTypeOK, ControlOK, HasBodies, Bodies, PlannedDocs

UpTo(n) == {i \in Bodies : i <= n}

(* AfterWrite goes on to the entry after, or to the staging after the last.*)
LEMMA AfterWriteDisk ==
    ASSUME IInv, pc \in {"write", "sidecar"}, AfterWrite, OnDisk(worktree', touched', UpTo(k))
    PROVE  DiskOK'
<1>1. Bodies \subseteq Nat /\ k \in Nat /\ plan' = plan /\ Bodies' = Bodies
  BY WrittenEntry DEF AfterWrite, Bodies
<1>2. CASE pc' = "write" /\ IsNext(k', k)
  <2>1. UpTo(k) = Before(k')
    <3>1. k' \in Nat /\ k' > k /\ \A j \in Bodies : j > k => k' <= j
      BY <1>1, <1>2 DEF IsNext
    <3>2. \A j \in Bodies : j <= k <=> j < k'
      BY <1>1, <3>1
    <3>. QED
      BY <3>2 DEF UpTo, Before
  <2>2. OnDisk(worktree', touched', Before(k'))
    BY <2>1
  <2>. QED
    BY <1>1, <1>2, <2>2 DEF DiskOK, OnDisk, Latest, Complete, PageOf, SidecarMark, Before, Branching
<1>3. CASE pc' = "stage" /\ IsLast
  <2>1. UpTo(k) = Bodies
    BY <1>3 DEF IsLast, UpTo
  <2>2. OnDisk(worktree', touched', Bodies)
    BY <2>1
  <2>. QED
    BY <1>1, <1>3, <2>2 DEF DiskOK, OnDisk, Latest, Complete, PageOf, SidecarMark, Branching
<1>. QED
  BY <1>2, <1>3 DEF AfterWrite

(* A page with its stamp.                                                  *)
LEMMA WriteFileCommit == IInv /\ AgeInv /\ CommitInv /\ WriteFile => CommitInv'
<1>. SUFFICES ASSUME IInv, AgeInv, CommitInv, WriteFile PROVE CommitInv'
  OBVIOUS
<1>. DEFINE d == plan[k].doc
            page == [mark |-> plan[k].sha, shows |-> plan[k].text]
<1>1. /\ WithPage(worktree', worktree, d, page)
      /\ pc = "write" /\ plan[k].side = Nil /\ UNCHANGED << commits, refs, head, index >>
      /\ d \in Doc
  BY EntryAge DEF WriteFile, IInv, TypeOK, RepoTypeOK, Tree, WithPage
<1>2. page = PageOf(plan[k])
  BY <1>1 DEF PageOf
<1>3. CASE Finish("written")
  BY <1>3, EndCommit DEF Finish
<1>4. CASE AfterWrite /\ UNCHANGED touched
  <2>1. /\ UNCHANGED << mode, started, outcome, plan, dry, skipped, branch, touched >>
        /\ pc' \in Applying /\ (pc' = "stage" => ~dry) /\ pc' # "sidecar"
    BY <1>4 DEF AfterWrite, settings, resultVars, Applying
  <2>2. Decided' /\ IndexOK' /\ HeadTree' = HeadTree /\ TreeOf(started)' = TreeOf(started)
    BY <1>1, <2>1, WritingCommit
  <2>3. k \in Bodies /\ k \in Nat /\ Bodies \subseteq Nat /\ d \in PlannedDocs
    BY <1>1, WrittenEntry
  <2>4. OnDisk(worktree', touched', UpTo(k))
    <3>. SUFFICES ASSUME NEW i \in Bodies, Latest(i, UpTo(k))
                  PROVE  Complete(worktree', touched, plan[i])
      BY <2>1 DEF OnDisk
    <3>1. CASE i = k
      BY <1>1, <1>2, <3>1 DEF Complete, WithPage
    <3>2. CASE i # k
      <4>1. i < k /\ plan[i].doc # d /\ Latest(i, Before(k))
        BY <2>3, <3>2 DEF Latest, UpTo, Before
      <4>2. Complete(worktree, touched, plan[i])
        BY <1>1, <4>1 DEF CommitInv, DiskOK, OnDisk
      <4>3. plan[i].doc \in Doc
        BY PlanEntry DEF Bodies, IInv, TypeOK
      <4>. QED
        BY <1>1, <4>1, <4>2, <4>3 DEF Complete, WithPage, SidecarMark
    <3>. QED
      BY <3>1, <3>2
  <2>5. DiskOK'
    BY <1>1, <1>4, <2>4, AfterWriteDisk
  <2>6. RecordsOK'
    BY <1>1, <2>1
    DEF CommitInv, RecordsOK, SameRecords, Planned, Bodies, SidecarMark, WithPage, Applying
  <2>7. KeptOK'
    BY <1>1, <2>1, <2>2, <2>3
    DEF CommitInv, KeptOK, WithPage, Applying, CleanPhases, PlannedDocs, Bodies
  <2>. QED
    BY <2>2, <2>5, <2>6, <2>7 DEF CommitInv
<1>. QED
  BY <1>3, <1>4 DEF WriteFile

(* A page without its stamp.                                               *)
LEMMA WriteFileNoFrontmatterCommit ==
    IInv /\ AgeInv /\ CommitInv /\ WriteFileNoFrontmatter => CommitInv'
<1>. SUFFICES ASSUME IInv, AgeInv, CommitInv, WriteFileNoFrontmatter PROVE CommitInv'
  OBVIOUS
<1>. DEFINE d == plan[k].doc
            page == [mark |-> NoMark, shows |-> plan[k].text]
<1>1. /\ WithPage(worktree', worktree, d, page)
      /\ pc = "write" /\ pc' = "sidecar" /\ plan[k].side # Nil
      /\ UNCHANGED << commits, refs, head, index, mode, started, outcome, plan, dry, skipped,
                      branch, touched, k >>
      /\ d \in Doc
  BY EntryAge
  DEF WriteFileNoFrontmatter, settings, applyVars, resultVars, IInv, TypeOK, RepoTypeOK, Tree,
      WithPage
<1>2. page = PageOf(plan[k])
  BY <1>1 DEF PageOf
<1>3. Decided' /\ IndexOK' /\ HeadTree' = HeadTree /\ TreeOf(started)' = TreeOf(started)
  BY <1>1, WritingCommit DEF Applying
<1>4. OthersOnDisk(worktree', touched)
  <2>. SUFFICES ASSUME NEW i \in Bodies, Latest(i, Before(k)), plan[i].doc # d
                PROVE  Complete(worktree', touched, plan[i])
    BY DEF OthersOnDisk
  <2>1. Complete(worktree, touched, plan[i])
    BY <1>1 DEF CommitInv, DiskOK, OnDisk
  <2>2. plan[i].doc \in Doc
    BY PlanEntry DEF Bodies, IInv, TypeOK
  <2>. QED
    BY <1>1, <2>1, <2>2 DEF Complete, WithPage, SidecarMark
<1>5. worktree'.doc[d] = PageOf(plan[k])
  BY <1>1, <1>2 DEF WithPage
<1>6. DiskOK'
  BY <1>1, <1>4, <1>5
  DEF DiskOK, OthersOnDisk, Before, Latest, Bodies, Complete, PageOf, SidecarMark, Branching
<1>7. RecordsOK'
  BY <1>1
  DEF CommitInv, RecordsOK, SameRecords, Planned, Bodies, SidecarMark, WithPage, Applying
<1>8. d \in PlannedDocs
  BY <1>1, WrittenEntry
<1>9. KeptOK'
  BY <1>1, <1>3, <1>8
  DEF CommitInv, KeptOK, WithPage, Applying, CleanPhases, PlannedDocs, Bodies
<1>. QED
  BY <1>3, <1>6, <1>7, <1>9 DEF CommitInv

(* Its stamp, in the sidecar.                                              *)
LEMMA SaveSidecarCommit ==
    Undisturbed /\ IInv /\ AgeInv /\ CommitInv /\ SaveSidecar => CommitInv'
<1>. SUFFICES ASSUME Undisturbed, IInv, AgeInv, CommitInv, SaveSidecar PROVE CommitInv'
  OBVIOUS
<1>. DEFINE d == plan[k].doc
            w == plan[k].side
            recs == Load(worktree.side[w])
            saved == Upsert(recs, d, plan[k].sha)
<1>1. /\ WithFile(worktree', worktree, w, saved)
      /\ pc = "sidecar" /\ UNCHANGED << commits, refs, head, index >>
      /\ worktree \in Tree
  BY EntryAge DEF SaveSidecar, IInv, TypeOK, RepoTypeOK, Tree, WithFile
<1>2. w \in Sidecar /\ d \in Doc /\ plan[k].sha \in Mark /\ w # Nil
  BY <1>1, EntryAge DEF IInv, ControlOK
<1>3. k \in Bodies /\ k \in Nat /\ Bodies \subseteq Nat /\ d \in PlannedDocs
  BY <1>1, WrittenEntry
<1>4. recs \in Records /\ saved # Nil
  BY <1>1, <1>2, MarkTypes, UpsertType, EmptyFile
<1>5. /\ Lookup(saved, d) = plan[k].sha
      /\ \A e \in Doc : e # d => Lookup(saved, e) = Lookup(recs, e)
  BY <1>2, <1>4, LookupAfterUpsert, UpsertKeepsOthers
<1>. HIDE DEF saved
<1>6. ASSUME NEW e \in Doc
      PROVE  /\ SidecarMark(worktree', w, e) = Lookup(saved, e)
             /\ \A v \in Sidecar : v # w =>
                  SidecarMark(worktree', v, e) = SidecarMark(worktree, v, e)
  <2>1. w \in Sidecar /\ saved # Nil /\ WithFile(worktree', worktree, w, saved)
    BY <1>1, <1>2, <1>4
  <2>. HIDE DEF w
  <2>. QED
    BY <2>1, FileRecords
<1>7. /\ SidecarMark(worktree', w, d) = plan[k].sha
      /\ \A e \in Doc : e # d => SidecarMark(worktree', w, e) = SidecarMark(worktree, w, e)
  BY <1>2, <1>5, <1>6 DEF SidecarMark
<1>. HIDE DEF recs
<1>8. CASE Finish("written")
  BY <1>8, EndCommit DEF Finish
<1>9. CASE AfterWrite /\ touched' = touched \cup {w}
  <2>1. Tidy /\ ~FrontmatterOnly
    BY <1>2, <1>3 DEF Undisturbed, CommitInv, Decided, Bodies, FrontmatterOnly
  <2>2. /\ UNCHANGED << mode, started, outcome, plan, dry, skipped, branch >>
        /\ pc' \in Applying /\ (pc' = "stage" => ~dry) /\ pc' # "sidecar"
    BY <1>9 DEF AfterWrite, settings, resultVars, Applying
  <2>4. Decided' /\ IndexOK' /\ HeadTree' = HeadTree /\ TreeOf(started)' = TreeOf(started)
    BY <1>1, <2>1, <2>2, WritingCommit
  <2>5. OnDisk(worktree', touched', UpTo(k))
    <3>. SUFFICES ASSUME NEW i \in Bodies, Latest(i, UpTo(k))
                  PROVE  Complete(worktree', touched', plan[i])
      BY DEF OnDisk
    <3>1. CASE i = k
      <4>1. worktree'.doc[d] = PageOf(plan[k])
        BY <1>1 DEF WithFile, CommitInv, DiskOK
      <4>. QED
        BY <1>7, <1>9, <3>1, <4>1 DEF Complete
    <3>2. CASE i # k
      <4>1. i < k /\ plan[i].doc # d /\ Latest(i, Before(k))
        BY <1>3, <3>2 DEF Latest, UpTo, Before
      <4>2. Complete(worktree, touched, plan[i])
        BY <1>1, <4>1 DEF CommitInv, DiskOK, OthersOnDisk
      <4>3. plan[i].doc \in Doc /\ plan[i].side \in Sidecar \cup {Nil}
        BY PlanEntry DEF Bodies, IInv, TypeOK
      <4>4. plan[i].side # Nil =>
              SidecarMark(worktree', plan[i].side, plan[i].doc)
                = SidecarMark(worktree, plan[i].side, plan[i].doc)
        BY <1>6, <1>7, <4>1, <4>3
      <4>. QED
        BY <1>1, <1>9, <4>2, <4>4 DEF Complete, WithFile
    <3>. QED
      BY <3>1, <3>2
  <2>6. DiskOK'
    BY <1>1, <1>9, <2>5, AfterWriteDisk
  <2>7. SameRecords(touched', worktree', index)
    <3>. SUFFICES ASSUME NEW v \in touched', NEW e \in Doc, ~Planned(v, e)
                  PROVE  SidecarMark(worktree', v, e) = SidecarMark(index, v, e)
      BY DEF SameRecords
    <3>1. v = w => e # d
      BY <1>3 DEF Planned
    <3>2. v \in Sidecar
      BY <1>2, <1>9 DEF IInv, TypeOK, RunTypeOK
    <3>3. SidecarMark(worktree', v, e) = SidecarMark(worktree, v, e)
      BY <1>6, <1>7, <3>1, <3>2
    <3>4. CASE v \in touched
      BY <1>1, <3>3, <3>4 DEF CommitInv, RecordsOK, SameRecords, Applying
    <3>5. CASE v \notin touched
      BY <1>1, <2>1, <3>2, <3>3, <3>5 DEF CommitInv, KeptOK, Applying, SidecarMark
    <3>. QED
      BY <3>4, <3>5
  <2>8. RecordsOK'
    BY <1>1, <2>2, <2>7 DEF RecordsOK, SameRecords, Planned, Bodies, SidecarMark, Applying
  <2>9. KeptOK'
    BY <1>1, <1>9, <2>2, <2>4
    DEF CommitInv, KeptOK, WithFile, Applying, CleanPhases, PlannedDocs, Bodies
  <2>. QED
    BY <2>4, <2>6, <2>8, <2>9 DEF CommitInv
<1>. QED
  BY <1>8, <1>9 DEF SaveSidecar

-----------------------------------------------------------------------------
(* Phase 4.                                                                *)
LEMMA StageFilesCommit == IInv /\ CommitInv /\ StageFiles => CommitInv'
<1>. SUFFICES ASSUME IInv, CommitInv, StageFiles PROVE CommitInv'
  OBVIOUS
<1>1. /\ UNCHANGED << commits, refs, head, worktree, mode, started, outcome, branch, touched,
                      plan, dry, k, skipped >>
      /\ pc = "stage" /\ pc' = "commit"
      /\ index' = Staged(index, worktree, PlannedDocs, touched)
  BY DEF StageFiles, settings, applyVars, resultVars
<1>2. HeadTree' = HeadTree /\ TreeOf(started)' = TreeOf(started)
  BY <1>1 DEF HeadTree, HeadCommit, TreeOf
<1>3. index = HeadTree
  BY <1>1 DEF CommitInv, Decided, IndexOK, Applying
<1>4. Decided'
  BY <1>1 DEF CommitInv, Decided, Commit, HasBodies, CleanPhases, Branching, SkippedDocs, Bodies
<1>5. IndexOK'
  BY <1>1, <1>2, <1>3 DEF IndexOK, Applying, PlannedDocs, Bodies
<1>6. DiskOK'
  BY <1>1 DEF CommitInv, DiskOK, OnDisk, Latest, Complete, PageOf, SidecarMark, Bodies, Branching
<1>7. RecordsOK'
  BY <1>1, <1>2, <1>3
  DEF CommitInv, RecordsOK, SameRecords, Planned, Bodies, SidecarMark, Applying
<1>8. KeptOK'
  BY <1>1, <1>2 DEF CommitInv, KeptOK, Applying, CleanPhases, PlannedDocs, Bodies
<1>. QED
  BY <1>4, <1>5, <1>6, <1>7, <1>8 DEF CommitInv

(* A commit moves HEAD's branch, and no other commit changes.              *)
LEMMA RunCommits ==
    ASSUME IInv, AgeInv, CommitIndex, index # HeadTree
    PROVE  /\ UNCHANGED << head, index, worktree, edits, mode, started, outcome, branch,
                           touched, plan, dry, k, skipped >>
           /\ pc = "commit" /\ pc' = "committed"
           /\ commits' = Append(commits, [tree |-> index, parent |-> HeadCommit])
           /\ refs' = [refs EXCEPT ![head] = Len(commits')]
           /\ Len(commits) \in Nat /\ Len(commits') = Len(commits) + 1
           /\ Commit \subseteq Commit'
           /\ \A c \in Commit : TreeOf(c)' = TreeOf(c)
           /\ HeadCommit \in Commit
           /\ HeadCommit' = Len(commits') /\ HeadTree' = index
           /\ commits'[Len(commits')].tree = index
<1>1. /\ UNCHANGED << head, index, worktree, edits, mode, started, outcome, branch, touched,
                      plan, dry, k, skipped >>
      /\ pc = "commit" /\ pc' = "committed"
      /\ commits' = Append(commits, [tree |-> index, parent |-> HeadCommit])
      /\ refs' = [refs EXCEPT ![head] = Len(commits) + 1]
  BY DEF CommitIndex, AppendCommit, settings, applyVars, resultVars
<1>2. HeadCommit \in Commit
  BY HeadIsCommit DEF IInv, TypeOK
<1>3. /\ Len(commits) \in Nat /\ Len(commits') = Len(commits) + 1
      /\ Commit \subseteq Commit'
      /\ \A c \in Commit : TreeOf(c)' = TreeOf(c)
      /\ \A c : c = Len(commits') => c \in Commit' /\ TreeOf(c)' = index
  BY <1>1, <1>2, AppendAge DEF IInv, TypeOK, RepoTypeOK, AgeInv, FilesOK
<1>4. HeadCommit' = Len(commits')
  BY <1>1, <1>3 DEF HeadCommit, IInv, TypeOK, RepoTypeOK
<1>5. HeadTree' = index /\ commits'[Len(commits')].tree = index
  BY <1>3, <1>4 DEF HeadTree, TreeOf
<1>. QED
  BY <1>1, <1>2, <1>3, <1>4, <1>5

LEMMA CommitIndexCommit == IInv /\ AgeInv /\ CommitInv /\ CommitIndex => CommitInv'
<1>. SUFFICES ASSUME IInv, AgeInv, CommitInv, CommitIndex PROVE CommitInv'
  OBVIOUS
<1>1. CASE index = HeadTree
  BY <1>1, EndCommit DEF CommitIndex, Finish
<1>2. CASE index # HeadTree
  <2>1. /\ UNCHANGED << worktree, mode, started, outcome, branch, touched, plan, dry, k,
                        skipped >>
        /\ pc = "commit" /\ pc' = "committed"
        /\ Commit \subseteq Commit' /\ \A c \in Commit : TreeOf(c)' = TreeOf(c)
    BY <1>2, RunCommits
  <2>2. started \in Commit /\ TreeOf(started)' = TreeOf(started)
    BY <2>1 DEF CommitInv, Decided, TreeOf
  <2>3. Decided'
    BY <2>1, <2>2 DEF CommitInv, Decided, HasBodies, CleanPhases, Branching, SkippedDocs, Bodies
  <2>4. DiskOK'
    BY <2>1 DEF CommitInv, DiskOK, OnDisk, Latest, Complete, PageOf, SidecarMark, Bodies, Branching
  <2>5. KeptOK'
    BY <2>1, <2>2 DEF CommitInv, KeptOK, Applying, CleanPhases, PlannedDocs, Bodies
  <2>. QED
    BY <2>1, <2>3, <2>4, <2>5 DEF CommitInv, IndexOK, RecordsOK, Applying
<1>. QED
  BY <1>1, <1>2

-----------------------------------------------------------------------------
(* Developers.                                                             *)
LEMMA StagedNewVersion ==
    ASSUME NEW t \in Tree, NEW u \in Tree, NEW v \in Nat, NEW s \in Src, NEW docs, NEW sides
    PROVE  Staged([t EXCEPT !.src[s] = v], [u EXCEPT !.src[s] = v], docs, sides)
             = [Staged(t, u, docs, sides) EXCEPT !.src[s] = v]
BY DEF Staged, Tree

(* A commit beside the run leaves all it relies on as it was.              *)
LEMMA DevCommitCommit ==
    ASSUME IInv, AgeInv, CommitInv, NEW s \in Src, DevCommit(s), pc \notin CommitFree,
           UNCHANGED runVars
    PROVE  CommitInv'
<1>. DEFINE New(t) == [t EXCEPT !.src[s] = edits + 2]
<1>1. /\ UNCHANGED << pc, mode, started, outcome, branch, touched, plan, dry, k, skipped, head,
                      base, removed >>
      /\ index' = New(index) /\ worktree' = New(worktree)
  BY DEF runVars, settings, applyVars, resultVars, DevCommit
<1>2. /\ Commit \subseteq Commit' /\ \A c \in Commit : TreeOf(c)' = TreeOf(c)
      /\ HeadTree' = New(HeadTree)
  BY DevCommitAge DEF IInv, TypeOK, AgeInv, RepoAge
<1>3. pc # "idle" => started \in Commit /\ TreeOf(started)' = TreeOf(started)
  BY <1>1, <1>2 DEF CommitInv, Decided, TreeOf
<1>4. /\ index \in Tree /\ worktree \in Tree /\ HeadTree \in Tree /\ edits + 2 \in Nat
      /\ SameDocs(index', index) /\ SameDocs(worktree', worktree) /\ SameDocs(HeadTree', HeadTree)
  <2>1. index \in Tree /\ worktree \in Tree /\ HeadTree \in Tree /\ edits + 2 \in Nat
    BY HeadIsCommit, RepositoryAssumption DEF IInv, TypeOK, RepoTypeOK, HeadTree
  <2>. QED
    BY <1>1, <1>2, <2>1, NewVersionDocs
<1>5. Decided'
  BY <1>1, <1>2, <1>3 DEF CommitInv, Decided, SkippedDocs, Bodies
<1>6. IndexOK'
  <2>1. /\ pc \in Applying /\ (Tidy \/ ~dry) => index' = HeadTree'
        /\ pc = "resetFiles" => index' = HeadTree'
    BY <1>1, <1>2 DEF CommitInv, IndexOK
  <2>2. pc = "commit" => index' = Staged(HeadTree', worktree', PlannedDocs, touched)
    <3>1. Staged(New(HeadTree), New(worktree), PlannedDocs, touched)
            = New(Staged(HeadTree, worktree, PlannedDocs, touched))
      BY <1>4, StagedNewVersion
    <3>2. pc = "commit" => index = Staged(HeadTree, worktree, PlannedDocs, touched)
      BY DEF CommitInv, IndexOK
    <3>. HIDE DEF New
    <3>. QED
      BY <1>1, <1>2, <3>1, <3>2
  <2>. QED
    BY <1>1, <2>1, <2>2 DEF IndexOK, PlannedDocs, Bodies
<1>. HIDE DEF New
<1>7. DiskOK'
  BY <1>1, <1>4
  DEF CommitInv, DiskOK, OnDisk, OthersOnDisk, Latest, Complete, PageOf, SidecarMark, Bodies,
      Before, SameDocs
<1>8. RecordsOK'
  BY <1>1, <1>4 DEF CommitInv, RecordsOK, SameRecords, Planned, Bodies, SidecarMark, SameDocs
<1>9. pc = "resetFiles" /\ ToRestore => ToRestore'
  BY <1>1, <1>2, <1>4, BaseIsCommit DEF ToRestore, SameDocs, IInv, TypeOK
<1>10. KeptOK'
  BY <1>1, <1>2, <1>3, <1>4, <1>9
  DEF CommitInv, KeptOK, IsClean, Applying, CleanPhases, PlannedDocs, Bodies, SameDocs
<1>. QED
  BY <1>5, <1>6, <1>7, <1>8, <1>10 DEF CommitInv

(* An edit changes no documentation, and is staged only while no index is  *)
(* prepared.                                                               *)
LEMMA DevEditCommit ==
    ASSUME Undisturbed, IInv, AgeInv, CommitInv, NEW s \in Src, ~Tidy, UNCHANGED runVars,
           DevEdit(s) \/ (pc \notin StageFree /\ DevStage(s))
    PROVE  CommitInv'
<1>1. /\ UNCHANGED << pc, mode, started, outcome, branch, touched, plan, dry, k, skipped, head,
                      commits, refs, base >>
      /\ SameDocs(worktree', worktree) /\ SameDocs(index', index)
      /\ HeadTree' = HeadTree
      /\ pc \in {"resetFiles", "write", "stage", "commit"} => index' = index
  BY DevEditAge
  DEF runVars, settings, applyVars, resultVars, DevEdit, DevStage, IInv, TypeOK, AgeInv, RepoAge,
      Undisturbed, HeadTree, HeadCommit, TreeOf
<1>2. pc # "sidecar"
  <2>1. pc = "sidecar" => plan[k].doc \in Doc /\ k \in DOMAIN plan /\ plan[k].side # Nil
    BY PlanEntry DEF IInv, TypeOK, ControlOK, HasBodies
  <2>. QED
    BY <2>1 DEF Undisturbed, CommitInv, Decided, FrontmatterOnly
<1>3. Decided'
  BY <1>1 DEF CommitInv, Decided, SkippedDocs, Bodies, Commit, HeadCommit
<1>4. Staged(HeadTree, worktree', PlannedDocs, touched)
        = Staged(HeadTree, worktree, PlannedDocs, touched)
  BY <1>1 DEF Staged, SameDocs
<1>5. IndexOK'
  BY <1>1, <1>2, <1>4 DEF CommitInv, IndexOK, Applying, PlannedDocs, Bodies
<1>6. DiskOK'
  BY <1>1
  DEF CommitInv, DiskOK, OnDisk, OthersOnDisk, Latest, Complete, PageOf, SidecarMark, Bodies,
      Before, SameDocs
<1>7. RecordsOK'
  BY <1>1 DEF CommitInv, RecordsOK, SameRecords, Planned, Bodies, SidecarMark, SameDocs
<1>. QED
  BY <1>3, <1>5, <1>6, <1>7 DEF CommitInv, KeptOK

LEMMA DeveloperCommit ==
    Undisturbed /\ IInv /\ AgeInv /\ CommitInv /\ Developer => CommitInv'
BY DevCommitCommit, DevEditCommit DEF Developer

-----------------------------------------------------------------------------
LEMMA InitCommit == Init => CommitInv
<1>. SUFFICES ASSUME Init PROVE CommitInv
  OBVIOUS
<1>1. pc = "idle" /\ plan = << >> /\ touched = {} /\ branch = "common" /\ mode \in Modes
  BY DEF Init
<1>2. "common" # Main
  BY LocalRunAssumption
<1>. QED
  BY <1>1, <1>2
  DEF CommitInv, Decided, IndexOK, DiskOK, RecordsOK, KeptOK, Applying, CleanPhases, HasBodies,
      Branching

LEMMA NextCommit ==
    ASSUME Undisturbed, IInv, AgeInv, CommitInv, [Next]_vars
    PROVE  CommitInv'
<1>1. CASE ApplyStep
  BY <1>1, EndsCommit, PlanWritesCommit, BranchCommitInv, CheckoutHeadCommit, ResetIndexCommit,
     ResetFilesCommit, WriteFileCommit, WriteFileNoFrontmatterCommit, SaveSidecarCommit, StageFilesCommit,
     CommitIndexCommit
  DEF ApplyStep
<1>2. CASE LocalStep \/ Done
  BY <1>1, <1>2, StartCommit, AssembleCommit, EndsCommit DEF LocalStep
<1>3. CASE ChangeMode
  BY <1>3, IdleCommit DEF ChangeMode, applyVars
<1>4. CASE Operator
  BY <1>4, IdleCommit DEF Operator, runVars, applyVars, settings, CommitInv, Decided
<1>5. CASE UNCHANGED vars
  <2>1. UNCHANGED << commits, refs, head, index, worktree, pc, mode, started, outcome, branch,
                     touched, plan, dry, k, skipped, base, removed >>
    BY <1>5 DEF vars, repoVars, runVars, settings, applyVars, resultVars
  <2>2. Decided' /\ IndexOK'
    BY <2>1
    DEF CommitInv, Decided, IndexOK, HeadTree, HeadCommit, TreeOf, Commit, PlannedDocs,
        SkippedDocs, Bodies
  <2>3. DiskOK'
    BY <2>1
    DEF CommitInv, DiskOK, OnDisk, OthersOnDisk, Latest, Complete, PageOf, SidecarMark, Bodies,
        Before
  <2>4. RecordsOK' /\ KeptOK'
    BY <2>1
    DEF CommitInv, RecordsOK, KeptOK, SameRecords, Planned, SidecarMark, HeadTree, HeadCommit,
        TreeOf, IsClean, PlannedDocs, Bodies, ToRestore, SameDocs
  <2>. QED
    BY <2>2, <2>3, <2>4 DEF CommitInv
<1>. QED
  BY <1>2, <1>3, <1>4, <1>5, DeveloperCommit DEF Next, Environment

-----------------------------------------------------------------------------
(* Every planned document has an entry that counts.                        *)
LEMMA LatestEntry ==
    ASSUME RunTypeOK, NEW d \in PlannedDocs
    PROVE  \E i \in Bodies : plan[i].doc = d /\ Latest(i, Bodies)
<1>. DEFINE S == {i \in Bodies : plan[i].doc = d}
<1>1. S # {} /\ S \subseteq 0 .. Len(plan) /\ Len(plan) \in Nat
  BY DEF PlannedDocs, Bodies, RunTypeOK
<1>2. PICK m \in S : \A x \in S : x <= m
  BY <1>1, GreatestPosition
<1>. QED
  BY <1>2 DEF Latest

LEMMA LatestIsOne ==
    ASSUME RunTypeOK, NEW i, NEW j, Latest(i, Bodies), Latest(j, Bodies),
           plan[i].doc = plan[j].doc
    PROVE  i = j
<1>1. i <= j /\ j <= i /\ i \in Nat /\ j \in Nat
  BY DEF Latest, Bodies, RunTypeOK
<1>. QED
  BY <1>1

(* What is staged before the commit is what the plan says, and no more.    *)
LEMMA StagedHoldsPlan ==
    ASSUME IInv, CommitInv, pc = "commit"
    PROVE  CommitHoldsPlan(index, HeadTree)
<1>. DEFINE last(d) == CHOOSE i \in Bodies :
                           plan[i].doc = d /\ \A j \in Bodies : plan[j].doc = d => j <= i
<1>1. /\ index = Staged(HeadTree, worktree, PlannedDocs, touched) /\ HeadTree \in Tree
      /\ OnDisk(worktree, touched, Bodies) /\ SameRecords(touched, worktree, HeadTree)
      /\ \A i \in DOMAIN plan : plan[i].side = mode[plan[i].doc]
      /\ touched \subseteq Sidecar
  BY HeadIsCommit
  DEF CommitInv, Decided, IndexOK, DiskOK, RecordsOK, IInv, TypeOK, RepoTypeOK, RunTypeOK,
      HeadTree
<1>2. /\ index.src = HeadTree.src
      /\ \A d \in Doc : index.doc[d] = IF d \in PlannedDocs THEN worktree.doc[d]
                                                            ELSE HeadTree.doc[d]
      /\ \A w \in Sidecar : index.side[w] = IF w \in touched THEN worktree.side[w]
                                                             ELSE HeadTree.side[w]
  BY <1>1 DEF Staged, Tree
<1>3. ASSUME NEW w \in Sidecar, NEW d \in Doc, ~Planned(w, d)
      PROVE  SidecarMark(index, w, d) = SidecarMark(HeadTree, w, d)
  BY <1>1, <1>2, <1>3 DEF SameRecords, SidecarMark
<1>4. ASSUME NEW d \in Doc \ PlannedDocs
      PROVE  /\ index.doc[d] = HeadTree.doc[d]
             /\ \A w \in Sidecar : SidecarMark(index, w, d) = SidecarMark(HeadTree, w, d)
  BY <1>2, <1>3, <1>4 DEF Planned, PlannedDocs
<1>5. ASSUME NEW d \in PlannedDocs
      PROVE  /\ index.doc[d] = PageOf(plan[last(d)])
             /\ \A w \in Sidecar :
                  SidecarMark(index, w, d) =
                      IF w = plan[last(d)].side THEN plan[last(d)].sha
                                                ELSE SidecarMark(HeadTree, w, d)
  <2>. DEFINE i == last(d)
  <2>1. \E j \in Bodies : plan[j].doc = d /\ \A n \in Bodies : plan[n].doc = d => n <= j
    BY <1>5, LatestEntry DEF Latest, IInv, TypeOK
  <2>2. i \in Bodies /\ plan[i].doc = d /\ \A n \in Bodies : plan[n].doc = d => n <= i
    BY <2>1
  <2>. HIDE DEF i
  <2>3. Latest(i, Bodies)
    BY <2>2 DEF Latest
  <2>4. Complete(worktree, touched, plan[i])
    BY <1>1, <2>2, <2>3 DEF OnDisk
  <2>5. d \in Doc /\ plan[i].side = mode[d] /\ mode[d] \in Sidecar \cup {Nil} /\ Nil \notin Sidecar
    BY <1>1, <2>2, PlanEntry, RepositoryAssumption DEF Bodies, IInv, TypeOK, RunTypeOK
  <2>6. ASSUME NEW w \in Sidecar, w # plan[i].side
        PROVE  SidecarMark(index, w, d) = SidecarMark(HeadTree, w, d)
    <3>1. ~Planned(w, d)
      BY <1>1, <2>5, <2>6 DEF Planned, Bodies
    <3>. QED
      BY <1>3, <2>5, <3>1
  <2>7. index.doc[d] = PageOf(plan[i])
    BY <1>2, <1>5, <2>2, <2>4, <2>5 DEF Complete
  <2>8. plan[i].side # Nil => SidecarMark(index, plan[i].side, d) = plan[i].sha
    BY <1>1, <1>2, <2>2, <2>4, <2>5 DEF Complete, SidecarMark
  <2>9. ASSUME NEW w \in Sidecar
        PROVE  SidecarMark(index, w, d) =
                   IF w = plan[i].side THEN plan[i].sha ELSE SidecarMark(HeadTree, w, d)
    BY <2>5, <2>6, <2>8
  <2>. QED
    BY <2>7, <2>9 DEF i
<1>. HIDE DEF last
<1>6. CommitHoldsPlan(index, HeadTree) <=>
        /\ index.src = HeadTree.src
        /\ \A d \in Doc \ PlannedDocs :
             /\ index.doc[d] = HeadTree.doc[d]
             /\ \A w \in Sidecar : SidecarMark(index, w, d) = SidecarMark(HeadTree, w, d)
        /\ \A d \in PlannedDocs :
             /\ index.doc[d] = PageOf(plan[last(d)])
             /\ \A w \in Sidecar :
                  SidecarMark(index, w, d) =
                      IF w = plan[last(d)].side THEN plan[last(d)].sha
                                                ELSE SidecarMark(HeadTree, w, d)
  BY DEF CommitHoldsPlan, last, PageOf, SidecarMark
<1>. QED
  BY <1>2, <1>4, <1>5, <1>6

(* Only CommitIndex commits.                                               *)
LEMMA OnlyCommitIndex ==
    ASSUME Next, pc = "commit", pc' = "committed"
    PROVE  CommitIndex
<1>1. ~Start /\ ~AssembleStep /\ ~Done /\ ~ChangeMode /\ ~Operator
  BY DEF Start, AssembleStep, ReadDoc, ComputeDiff, OverBudget, SkipEntry, ResolveHEAD, Generate,
         Done, ChangeMode, Operator
<1>2. ~Developer
  BY DEF Developer, runVars
<1>3. ~Failure
  BY DEF Failure, FailCleanly, FailTorn, FailStaging, Finish, FinishSkipping
<1>4. ApplyStep => CommitIndex
  BY DEF ApplyStep, PlanNothing, PlanWrites, ResolveBranch, BranchExists, CreateRef,
         CheckoutRefused, CheckoutHead, ResetIndex, ResetFiles, WriteFile, WriteFileNoFrontmatter,
         SaveSidecar, StageFiles
<1>. QED
  BY <1>1, <1>2, <1>3, <1>4 DEF Next, LocalStep, Environment

(* A run's commit is its parent with the planned documents rewritten and   *)
(* stamped, and nothing else, although what is committed is the index: what*)
(* the steps of the run put there, one by one, is the plan.                *)
THEOREM RunsCommitTheirPlan ==
    ASSUME Undisturbed
    PROVE  Spec => CommitExact
<1>1. IInv /\ AgeInv /\ CommitInv /\ [Next]_vars =>
        [pc = "commit" /\ pc' = "committed" =>
            CommitHoldsPlan(commits'[Len(commits')].tree, HeadTree)]_vars
  <2>. SUFFICES ASSUME IInv, AgeInv, CommitInv, [Next]_vars, pc = "commit", pc' = "committed"
                PROVE  CommitHoldsPlan(commits'[Len(commits')].tree, HeadTree)
    OBVIOUS
  <2>1. CommitIndex
    BY OnlyCommitIndex DEF vars, runVars
  <2>2. index # HeadTree
    BY <2>1 DEF CommitIndex, Finish, FinishSkipping
  <2>3. commits'[Len(commits')].tree = index
    BY <2>1, <2>2, RunCommits
  <2>. QED
    BY <2>3, StagedHoldsPlan
<1>2. IInv /\ AgeInv /\ CommitInv /\ [Next]_vars => CommitInv'
  BY NextCommit
<1>. QED
  BY <1>1, <1>2, InitInv, NextInv, InitAge, NextAge, InitCommit, PTL DEF Spec, CommitExact

-----------------------------------------------------------------------------
(* Versions of the source files only grow, along the commits a run sees.   *)
NotOlder(a, b) == \A s \in Src : TreeOf(a).src[s] <= TreeOf(b).src[s]

(* No file has a version nobody has written yet.                           *)
VersionsOK ==
    /\ \A c \in Commit, s \in Src : TreeOf(c).src[s] <= edits + 1
    /\ \A s \in Src : index.src[s] <= edits + 1 /\ worktree.src[s] <= edits + 1

(* No source is older than at the start, or than where an entry is stamped.*)
After(c) == NotOlder(started, c) /\ \A i \in DOMAIN plan : NotOlder(plan[i].sha, c)

SourcesOK ==
    /\ pc # "idle" => \A i \in DOMAIN plan : NotOlder(started, plan[i].sha)
    /\ pc \in BeforeCommit => After(HeadCommit)
    /\ pc \in HasBase => After(base)

SourceInv == VersionsOK /\ SourcesOK

(* The entries of the manifest a run has passed: it planned to rewrite the *)
(* document, or found it tells what the commit it started from has.        *)
UpToDate(d) ==
    \A s \in CoversOf(d) : TreeOf(started).src[s] <= TextOf(TreeOf(started).doc[d])[s]

Passed(d) == (\E i \in DOMAIN plan : plan[i].doc = d) \/ UpToDate(d)

ProgressOK ==
    /\ pc # "idle" => \A n \in DOMAIN Manifest : n < cur => Passed(Manifest[n].path)
    /\ pc \in HasBodies \cup {"plan"} => cur > Len(Manifest)
    /\ pc \in {"diff", "resolve"} =>
         asm.text = TextOf(TreeOf(started).doc[Manifest[cur].path])

-----------------------------------------------------------------------------
(* A version is a number; what files of the repository have, it has seen.  *)
Taken(tree) ==
    \A s \in Src : \/ tree.src[s] \in {index.src[s], worktree.src[s]}
                   \/ \E c \in Commit : tree.src[s] = TreeOf(c).src[s]

LEMMA TakenVersions ==
    ASSUME VersionsOK, UNCHANGED << commits, edits >>, Taken(index'), Taken(worktree')
    PROVE  VersionsOK'
<1>1. ASSUME NEW tree, Taken(tree) PROVE \A s \in Src : tree.src[s] <= edits + 1
  BY <1>1 DEF Taken, VersionsOK
<1>2. \A c \in Commit', s \in Src : TreeOf(c)'.src[s] <= edits' + 1
  BY DEF VersionsOK, Commit, TreeOf
<1>. QED
  BY <1>1, <1>2 DEF VersionsOK

(* A commit of sources that were there.                                    *)
LEMMA CommittedVersions ==
    ASSUME VersionsOK, edits' = edits,
           Commit' = Commit \cup {Len(commits')}, \A c \in Commit : TreeOf(c)' = TreeOf(c),
           NEW tree, \A c : c = Len(commits') => TreeOf(c)' = tree,
           Taken(tree), Taken(index'), Taken(worktree')
    PROVE  VersionsOK'
<1>1. ASSUME NEW t, Taken(t) PROVE \A s \in Src : t.src[s] <= edits + 1
  BY <1>1 DEF Taken, VersionsOK
<1>2. ASSUME NEW c \in Commit' PROVE \A s \in Src : TreeOf(c)'.src[s] <= edits' + 1
  <2>1. CASE c \in Commit
    BY <2>1 DEF VersionsOK
  <2>2. CASE c = Len(commits')
    BY <1>1, <2>2
  <2>. QED
    BY <2>1, <2>2
<1>. QED
  BY <1>1, <1>2 DEF VersionsOK

(* What a commit does to the history, whoever makes it.                    *)
LEMMA GrownHistory ==
    ASSUME RepoTypeOK, NEW tree, NEW parent,
           commits' = Append(commits, [tree |-> tree, parent |-> parent])
    PROVE  /\ Len(commits) \in Nat /\ Len(commits') = Len(commits) + 1
           /\ Commit' = Commit \cup {Len(commits')} /\ Len(commits') \notin Commit
           /\ \A c \in Commit : commits'[c] = commits[c] /\ TreeOf(c)' = TreeOf(c)
           /\ \A c : c = Len(commits') => TreeOf(c)' = tree
           /\ commits'[Len(commits')].parent = parent
<1>. DEFINE new == [tree |-> tree, parent |-> parent]
<1>1. commits \in Seq([tree : Tree, parent : Nat]) /\ Len(commits) \in Nat
  BY DEF RepoTypeOK
<1>. HIDE DEF new
<1>2. /\ Len(commits') = Len(commits) + 1
      /\ \A c \in 1 .. Len(commits) : commits'[c] = commits[c]
      /\ commits'[Len(commits) + 1] = new
  BY <1>1 DEF new
<1>3. new.tree = tree /\ new.parent = parent
  BY DEF new
<1>. QED
  BY <1>1, <1>2, <1>3 DEF Commit, TreeOf

(* Developers write a version nobody has written before.                   *)
LEMMA DeveloperVersions ==
    ASSUME RepoTypeOK, VersionsOK, NEW s \in Src, DevCommit(s) \/ DevEdit(s) \/ DevStage(s)
    PROVE  VersionsOK'
<1>1. /\ HeadCommit \in Commit /\ HeadTree \in Tree /\ index \in Tree /\ worktree \in Tree
      /\ edits \in Nat
  BY HeadIsCommit, RepositoryAssumption DEF RepoTypeOK, HeadTree
<1>. DEFINE New(t) == [t EXCEPT !.src[s] = edits + 2]
<1>2. ASSUME NEW t \in Tree, \A f \in Src : t.src[f] <= edits + 1
      PROVE  \A f \in Src : New(t).src[f] <= (edits + 1) + 1
  <2>1. \A f \in Src : t.src[f] \in Nat /\ New(t).src[f] = IF f = s THEN edits + 2 ELSE t.src[f]
    BY DEF Tree
  <2>. HIDE DEF New
  <2>. QED
    BY <1>1, <1>2, <2>1
<1>3. \A c \in Commit, f \in Src : TreeOf(c).src[f] \in Nat
  BY CommittedTree DEF Tree
<1>4. CASE DevCommit(s)
  <2>1. /\ commits' = Append(commits, [tree |-> New(HeadTree), parent |-> HeadCommit])
        /\ index' = New(index) /\ worktree' = New(worktree) /\ edits' = edits + 1
    BY <1>4 DEF DevCommit, AppendCommit
  <2>. HIDE DEF New
  <2>2. /\ Commit' = Commit \cup {Len(commits')}
        /\ \A c \in Commit : TreeOf(c)' = TreeOf(c)
        /\ \A c : c = Len(commits') => TreeOf(c)' = New(HeadTree)
    BY <2>1, GrownHistory
  <2>3. \A f \in Src : HeadTree.src[f] <= edits + 1
    BY <1>1 DEF VersionsOK, HeadTree
  <2>4. \A c \in Commit, f \in Src : TreeOf(c).src[f] <= (edits + 1) + 1
    BY <1>1, <1>3 DEF VersionsOK
  <2>5. ASSUME NEW c \in Commit' PROVE \A f \in Src : TreeOf(c)'.src[f] <= edits' + 1
    <3>1. CASE c \in Commit
      BY <2>1, <2>2, <2>4, <3>1
    <3>2. CASE c = Len(commits')
      BY <1>1, <1>2, <2>1, <2>2, <2>3, <3>2
    <3>. QED
      BY <2>2, <3>1, <3>2
  <2>. QED
    BY <1>1, <1>2, <2>1, <2>5 DEF VersionsOK
<1>5. CASE DevEdit(s)
  <2>1. /\ UNCHANGED << commits, index >> /\ worktree' = New(worktree) /\ edits' = edits + 1
    BY <1>5 DEF DevEdit
  <2>. HIDE DEF New
  <2>2. \A c \in Commit', f \in Src : TreeOf(c)'.src[f] <= edits' + 1
    BY <1>1, <1>3, <2>1 DEF VersionsOK, Commit, TreeOf
  <2>3. \A f \in Src : index'.src[f] <= edits' + 1
    BY <1>1, <2>1 DEF VersionsOK, Tree
  <2>. QED
    BY <1>1, <1>2, <2>1, <2>2, <2>3 DEF VersionsOK
<1>6. CASE DevStage(s)
  <2>1. /\ UNCHANGED << commits, edits, worktree >>
        /\ \A f \in Src : index'.src[f] \in {index.src[f], worktree.src[f]}
    BY <1>1, <1>6 DEF DevStage, Tree
  <2>. QED
    BY <2>1, TakenVersions DEF Taken
<1>. QED
  BY <1>4, <1>5, <1>6

(* The operator's commands take what is there.                             *)
LEMMA OperatorVersions ==
    ASSUME RepoTypeOK, VersionsOK, Operator
    PROVE  VersionsOK'
<1>1. PICK b \in Branch : \/ ForceCheckout(b) \/ SwitchBranch(b)
                          \/ DeleteBranch(b) \/ MergeBranch(b)
  BY DEF Operator
<1>2. CASE ForceCheckout(b) \/ SwitchBranch(b)
  <2>1. refs[b] \in Commit /\ TreeOf(refs[b]) \in Tree
    BY <1>2, BranchCommit DEF ForceCheckout, SwitchBranch
  <2>2. /\ UNCHANGED << commits, edits >>
        /\ index'.src = TreeOf(refs[b]).src /\ worktree'.src = TreeOf(refs[b]).src
    BY <1>2, <2>1 DEF ForceCheckout, SwitchBranch, Staged, Tree
  <2>. QED
    BY <2>1, <2>2, TakenVersions DEF Taken
<1>3. CASE DeleteBranch(b)
  BY <1>3, TakenVersions DEF DeleteBranch, Taken
<1>4. CASE MergeBranch(b)
  <2>. DEFINE merged == Merged(refs[b], refs[Main])
  <2>1. /\ commits' = Append(commits, [tree |-> merged, parent |-> refs[Main]])
        /\ index' = merged /\ worktree' = merged /\ edits' = edits
    BY <1>4 DEF MergeBranch
  <2>2. refs[Main] \in Commit /\ TreeOf(refs[Main]) \in Tree
    BY BranchCommit, RepositoryAssumption DEF RepoTypeOK
  <2>3. refs[b] \in Commit
        /\ \A s \in Src : merged.src[s] \in {TreeOf(refs[b]).src[s], TreeOf(refs[Main]).src[s]}
    <3>1. refs[b] \in Commit /\ TreeOf(refs[b]) \in Tree
      BY <1>4, BranchCommit DEF MergeBranch
    <3>. QED
      BY <2>2, <3>1 DEF Merged, TakeChanges, TakeChanged, Tree
  <2>. HIDE DEF merged
  <2>4. /\ Commit' = Commit \cup {Len(commits')}
        /\ \A c \in Commit : TreeOf(c)' = TreeOf(c)
        /\ \A c : c = Len(commits') => TreeOf(c)' = merged
    BY <2>1, GrownHistory
  <2>. QED
    BY <2>1, <2>2, <2>3, <2>4, CommittedVersions DEF Taken
<1>. QED
  BY <1>1, <1>2, <1>3, <1>4

(* So do the steps of a run.                                               *)
LEMMA RunVersions ==
    ASSUME IInv, AgeInv, VersionsOK, LocalStep \/ Done
    PROVE  VersionsOK'
<1>1. CASE CommitIndex
  <2>1. CASE index = HeadTree
    BY <1>1, <2>1, TakenVersions DEF CommitIndex, Taken
  <2>2. CASE index # HeadTree
    <3>1. /\ commits' = Append(commits, [tree |-> index, parent |-> HeadCommit])
          /\ UNCHANGED << index, worktree, edits >>
      BY <1>1, <2>2, RunCommits
    <3>2. /\ Commit' = Commit \cup {Len(commits')}
          /\ \A c \in Commit : TreeOf(c)' = TreeOf(c)
          /\ \A c : c = Len(commits') => TreeOf(c)' = index
      BY <3>1, GrownHistory DEF IInv, TypeOK
    <3>. QED
      BY <3>1, <3>2, CommittedVersions DEF Taken
  <2>. QED
    BY <2>1, <2>2
<1>2. CASE ResetIndex \/ ResetFiles
  <2>1. /\ UNCHANGED << commits, edits >> /\ base \in Commit /\ TreeOf(base) \in Tree
        /\ worktree \in Tree /\ index \in Tree
    BY <1>2, BaseIsCommit, CommittedTree
    DEF ResetIndex, ResetFiles, IInv, TypeOK, RepoTypeOK
  <2>2. \A s \in Src : index'.src[s] \in {TreeOf(base).src[s], index.src[s]}
    BY <1>2 DEF ResetIndex, ResetFiles
  <2>3. \A s \in Src : worktree'.src[s] \in {TreeOf(base).src[s], worktree.src[s]}
    <3>1. CASE ResetIndex
      BY <3>1 DEF ResetIndex
    <3>2. CASE ResetFiles
      <4>1. worktree'.src = Restored(removed.src, index.src, TreeOf(base).src, worktree.src)
        BY <3>2 DEF ResetFiles, RestoredTree
      <4>. QED
        BY <2>1, <4>1, TreeParts DEF Restored
    <3>. QED
      BY <1>2, <3>1, <3>2
  <2>4. Taken(index') /\ Taken(worktree')
    BY <2>1, <2>2, <2>3 DEF Taken
  <2>. QED
    BY <2>1, <2>4, TakenVersions
<1>3. CASE ~CommitIndex /\ ~(ResetIndex \/ ResetFiles)
  <2>1. UNCHANGED << commits, edits >> /\ index'.src = index.src /\ worktree'.src = worktree.src
    <3>1. CASE Start \/ AssembleStep \/ Done \/ FailCleanly
      BY <3>1
      DEF Start, AssembleStep, ReadDoc, ComputeDiff, OverBudget, SkipEntry, ResolveHEAD, Generate,
          Done, FailCleanly, repoVars
    <3>2. CASE PlanNothing \/ PlanWrites \/ ResolveBranch \/ BranchExists \/ CreateRef
                 \/ CheckoutRefused \/ CheckoutHead
      BY <3>2
      DEF PlanNothing, PlanWrites, ResolveBranch, BranchExists, CreateRef, CheckoutRefused,
          CheckoutHead, repoVars
    <3>3. CASE WriteFile \/ WriteFileNoFrontmatter \/ SaveSidecar \/ FailTorn
      BY <3>3
      DEF WriteFile, WriteFileNoFrontmatter, SaveSidecar, FailTorn, IInv, TypeOK, RepoTypeOK, Tree
    <3>4. CASE StageFiles \/ FailStaging
      BY <3>4 DEF StageFiles, FailStaging, Staged, IInv, TypeOK, RepoTypeOK, Tree
    <3>. QED
      BY <1>3, <3>1, <3>2, <3>3, <3>4 DEF LocalStep, ApplyStep, Failure
  <2>. QED
    BY <2>1, TakenVersions DEF Taken
<1>. QED
  BY <1>1, <1>2, <1>3

LEMMA NextVersions ==
    ASSUME IInv, AgeInv, VersionsOK, [Next]_vars
    PROVE  VersionsOK'
<1>1. CASE Developer
  BY <1>1, DeveloperVersions DEF Developer, IInv, TypeOK
<1>2. CASE ChangeMode \/ UNCHANGED vars
  BY <1>2, TakenVersions DEF ChangeMode, vars, repoVars, Taken
<1>. QED
  BY <1>1, <1>2, RunVersions, OperatorVersions DEF Next, Environment, IInv, TypeOK

-----------------------------------------------------------------------------
(* Commits are compared file by file.                                      *)
LEMMA OlderOrder ==
    ASSUME RepoTypeOK, NEW a \in Commit, NEW b \in Commit, NEW c \in Commit
    PROVE  /\ NotOlder(a, a)
           /\ NotOlder(a, b) /\ NotOlder(b, c) => NotOlder(a, c)
<1>1. \A n \in {a, b, c}, s \in Src : TreeOf(n).src[s] \in Nat
  BY CommittedTree DEF Tree
<1>. QED
  BY <1>1 DEF NotOlder

(* What a run has in memory names commits.                                 *)
LEMMA RunCommitsKnown ==
    ASSUME IInv, AgeInv, CommitInv, pc # "idle"
    PROVE  /\ started \in Commit /\ HeadCommit \in Commit /\ RepoTypeOK
           /\ \A i \in DOMAIN plan : plan[i].sha \in Commit
           /\ pc \in HasBase => base \in Commit
BY HeadIsCommit, BaseIsCommit
DEF HasBase, IInv, TypeOK, AgeInv, MemoryOK, CommitInv, Decided

(* The steps of a run that leave the history and HEAD alone, and add at    *)
(* most an entry stamped with HEAD.                                        *)
LEMMA QuietSources ==
    ASSUME IInv, AgeInv, CommitInv, SourcesOK, pc \in BeforeCommit,
           UNCHANGED << commits, refs, head, started >>,
           \A i \in DOMAIN plan' : \/ i \in DOMAIN plan /\ plan'[i].sha = plan[i].sha
                                   \/ plan'[i].sha = HeadCommit,
           pc' \in HasBase => pc' = "ref" /\ base' = HeadCommit
    PROVE  SourcesOK'
<1>1. pc # "idle"
  BY DEF BeforeCommit, Phases
<1>2. /\ started \in Commit /\ HeadCommit \in Commit /\ RepoTypeOK
      /\ \A i \in DOMAIN plan : plan[i].sha \in Commit
  BY <1>1, RunCommitsKnown
<1>3. HeadCommit' = HeadCommit /\ \A a, b : NotOlder(a, b)' = NotOlder(a, b)
  BY DEF HeadCommit, NotOlder, TreeOf
<1>4. NotOlder(started, HeadCommit) /\ \A i \in DOMAIN plan : NotOlder(plan[i].sha, HeadCommit)
  BY DEF SourcesOK, After
<1>5. \A i \in DOMAIN plan' : /\ NotOlder(started, plan'[i].sha)
                              /\ NotOlder(plan'[i].sha, HeadCommit)
  BY <1>1, <1>2, <1>4, OlderOrder DEF SourcesOK
<1>6. ASSUME NEW c, c = HeadCommit PROVE After(c)'
  BY <1>3, <1>4, <1>5, <1>6 DEF After, NotOlder, TreeOf
<1>7. \A i \in DOMAIN plan' : NotOlder(started, plan[i].sha)'
  BY <1>5 DEF NotOlder, TreeOf
<1>. QED
  BY <1>3, <1>6, <1>7 DEF SourcesOK, After

(* Between runs there is nothing to compare.                               *)
LEMMA IdleSources == pc' = "idle" => SourcesOK'
BY DEF SourcesOK, HasBase, BeforeCommit, Phases

LEMMA StartSources == IInv /\ AgeInv /\ Start => SourcesOK'
<1>. SUFFICES ASSUME IInv, AgeInv, Start PROVE SourcesOK'
  OBVIOUS
<1>1. /\ pc' = "read" /\ started' = HeadCommit /\ plan' = << >>
      /\ UNCHANGED << commits, refs, head >>
  BY DEF Start, repoVars, AgeInv, MemoryOK
<1>2. NotOlder(HeadCommit, HeadCommit)
  BY HeadIsCommit, OlderOrder DEF IInv, TypeOK
<1>3. After(HeadCommit)'
  BY <1>1, <1>2 DEF After, NotOlder, TreeOf, HeadCommit
<1>. QED
  BY <1>1, <1>3 DEF SourcesOK, HasBase

(* The branch is created at a commit read before, and checked out.         *)
LEMMA BranchSources ==
    ASSUME IInv, AgeInv, CommitInv, SourcesOK, CreateRef \/ CheckoutHead \/ ResetIndex
    PROVE  SourcesOK'
<1>1. /\ UNCHANGED << commits, started, plan, branch, base >> /\ pc \in BeforeCommit
      /\ pc \in HasBase /\ pc # "idle" /\ base \in Commit
  BY BaseIsCommit
  DEF CreateRef, CheckoutHead, ResetIndex, settings, applyVars, BeforeCommit, Phases, HasBase,
      IInv, TypeOK
<1>2. /\ refs[head] # 0 /\ refs \in [Branch -> 0 .. Len(commits)] /\ head \in Branch
      /\ branch \in Branch
  BY DEF IInv, TypeOK, RepoTypeOK, RunTypeOK
<1>3. \A a, b : NotOlder(a, b)' = NotOlder(a, b)
  BY <1>1 DEF NotOlder, TreeOf
<1>4. \A i \in DOMAIN plan' : NotOlder(started, plan[i].sha)'
  BY <1>1 DEF SourcesOK, NotOlder, TreeOf
<1>5. After(HeadCommit) /\ After(base)
  BY <1>1 DEF SourcesOK
<1>6. HeadCommit' \in {HeadCommit, base}
  <2>1. CASE CreateRef
    <3>1. refs' = [refs EXCEPT ![branch] = base] /\ head' = head /\ refs[branch] = 0
      BY <2>1 DEF CreateRef, IInv, ControlOK
    <3>. QED
      BY <1>2, <3>1 DEF HeadCommit
  <2>2. CASE CheckoutHead
    BY <2>2 DEF CheckoutHead, HeadCommit, IInv, ControlOK
  <2>3. CASE ResetIndex
    BY <1>2, <2>3 DEF ResetIndex, HeadCommit
  <2>. QED
    BY <2>1, <2>2, <2>3
<1>7. ASSUME NEW c, After(c) PROVE After(c)'
  BY <1>1, <1>7 DEF After, NotOlder, TreeOf
<1>8. \A c : c = HeadCommit' \/ c = base' => After(c)'
  BY <1>1, <1>5, <1>6, <1>7
<1>. QED
  BY <1>1, <1>4, <1>8 DEF SourcesOK, After, NotOlder, TreeOf

LEMMA RunSources ==
    ASSUME IInv, AgeInv, CommitInv, SourcesOK, LocalStep \/ Done
    PROVE  SourcesOK'
<1>1. CASE CommitIndex
  <2>1. CASE index = HeadTree
    BY <1>1, <2>1, IdleSources DEF CommitIndex, Finish, FinishSkipping
  <2>2. CASE index # HeadTree
    <3>1. /\ pc = "commit" /\ pc' = "committed" /\ UNCHANGED << started, plan >>
          /\ \A c \in Commit : TreeOf(c)' = TreeOf(c)
      BY <1>1, <2>2, RunCommits
    <3>2. started \in Commit /\ \A i \in DOMAIN plan : plan[i].sha \in Commit
      BY <3>1, RunCommitsKnown
    <3>. QED
      BY <3>1, <3>2 DEF SourcesOK, HasBase, NotOlder, BeforeCommit
  <2>. QED
    BY <2>1, <2>2
<1>2. CASE PlanNothing \/ OverBudget \/ BranchExists \/ CheckoutRefused \/ Failure \/ Done
  BY <1>2, IdleSources
  DEF PlanNothing, OverBudget, BranchExists, CheckoutRefused, Failure, FailCleanly, FailTorn,
      FailStaging, Done, Finish, FinishSkipping
<1>3. CASE ReadDoc \/ ComputeDiff \/ SkipEntry \/ PlanWrites \/ ResolveBranch
  <2>1. /\ pc \in BeforeCommit /\ UNCHANGED << commits, refs, head, started, plan >>
        /\ pc' \in HasBase => pc' = "ref" /\ base' = HeadCommit
    BY <1>3
    DEF ReadDoc, ComputeDiff, SkipEntry, PlanWrites, ResolveBranch, AfterEntry, settings, repoVars,
        BeforeCommit, Phases, HasBase
  <2>. QED
    BY <2>1, QuietSources
<1>4. CASE ResolveHEAD
  <2>. DEFINE e == [doc |-> Manifest[cur].path, text |-> Nil, sha |-> HeadCommit,
                    audience |-> Manifest[cur].audience,
                    side |-> mode[Manifest[cur].path]]
  <2>1. /\ UNCHANGED << commits, refs, head, started >>
        /\ pc = "resolve" /\ pc' = "generate" /\ plan' = Append(plan, e)
    BY <1>4 DEF ResolveHEAD, settings, repoVars
  <2>2. plan \in Seq(Entry) /\ e.sha = HeadCommit
    BY DEF IInv, TypeOK, RunTypeOK
  <2>. HIDE DEF e
  <2>3. \A i \in DOMAIN plan' : \/ i \in DOMAIN plan /\ plan'[i].sha = plan[i].sha
                                \/ plan'[i].sha = HeadCommit
    BY <2>1, <2>2
  <2>. QED
    BY <2>1, <2>3, QuietSources DEF BeforeCommit, Phases, HasBase
<1>5. CASE Generate
  <2>1. /\ UNCHANGED << commits, refs, head, started >>
        /\ pc = "generate" /\ pc' \in {"read", "plan"}
    BY <1>5 DEF Generate, settings, repoVars, AfterEntry
  <2>2. PICK text : plan' = [plan EXCEPT ![Len(plan)].text = text]
    BY <1>5 DEF Generate
  <2>3. plan \in Seq(Entry)
    BY DEF IInv, TypeOK, RunTypeOK
  <2>4. \A i \in DOMAIN plan' : i \in DOMAIN plan /\ plan'[i].sha = plan[i].sha
    BY <2>2, <2>3 DEF Entry
  <2>. QED
    BY <2>1, <2>4, QuietSources DEF BeforeCommit, Phases, HasBase
<1>6. CASE ResetFiles \/ WriteFile \/ WriteFileNoFrontmatter \/ SaveSidecar \/ StageFiles
  <2>1. \/ pc' = "idle"
        \/ pc' \in {"write", "sidecar", "stage", "commit"} /\ UNCHANGED << plan, started >>
    BY <1>6
    DEF ResetFiles, WriteFile, WriteFileNoFrontmatter, SaveSidecar, StageFiles, AfterWrite, Finish,
        FinishSkipping, settings
  <2>2. pc \in BeforeCommit /\ UNCHANGED << commits, refs, head >>
    BY <1>6
    DEF ResetFiles, WriteFile, WriteFileNoFrontmatter, SaveSidecar, StageFiles, BeforeCommit,
        Phases
  <2>. QED
    BY <2>1, <2>2, IdleSources, QuietSources DEF HasBase
<1>. QED
  BY <1>1, <1>2, <1>3, <1>4, <1>5, <1>6, StartSources, BranchSources
  DEF LocalStep, AssembleStep, ApplyStep

(* A commit beside the run makes HEAD newer, and no other commit.          *)
LEMMA BesideSources ==
    ASSUME IInv, IInv', AgeInv, CommitInv, SourcesOK, UNCHANGED runVars,
           \A c \in Commit : TreeOf(c)' = TreeOf(c),
           \A s \in Src : HeadTree.src[s] <= HeadTree'.src[s]
    PROVE  SourcesOK'
<1>. SUFFICES ASSUME pc # "idle" PROVE SourcesOK'
  BY IdleSources DEF runVars
<1>1. UNCHANGED << pc, plan, started, base, branch >>
  BY DEF runVars, settings, applyVars
<1>2. /\ started \in Commit /\ HeadCommit \in Commit /\ RepoTypeOK
      /\ \A i \in DOMAIN plan : plan[i].sha \in Commit
      /\ pc \in HasBase => base \in Commit
  BY RunCommitsKnown
<1>3. \A a, b \in Commit : NotOlder(a, b)' = NotOlder(a, b)
  BY DEF NotOlder
<1>4. ASSUME NEW c \in Commit, After(c) PROVE After(c)'
  BY <1>1, <1>2, <1>3, <1>4 DEF After, NotOlder
<1>5. ASSUME NEW c, c = HeadCommit', After(HeadCommit) PROVE After(c)'
  <2>1. TreeOf(c)' = HeadTree'
    BY <1>5 DEF HeadTree
  <2>2. ASSUME NEW a \in Commit, NotOlder(a, HeadCommit)
        PROVE  \A s \in Src : TreeOf(a).src[s] <= HeadTree'.src[s]
    <3>1. \A s \in Src : TreeOf(a).src[s] <= HeadTree.src[s] /\ HeadTree.src[s] <= HeadTree'.src[s]
      BY <2>2 DEF NotOlder, HeadTree
    <3>2. TreeOf(a) \in Tree /\ HeadTree \in Tree /\ HeadTree' \in Tree
      <4>1. TreeOf(a) \in Tree /\ HeadTree \in Tree
        BY <1>2, CommittedTree DEF HeadTree
      <4>2. HeadTree' \in Tree
        <5>1. /\ commits' \in Seq([tree : Tree, parent : Nat])
              /\ refs'[head'] \in 1 .. Len(commits')
          BY DEF IInv, TypeOK, RepoTypeOK
        <5>2. \A n \in 1 .. Len(commits') : commits'[n] \in [tree : Tree, parent : Nat]
          BY <5>1, ElementOfSeq
        <5>. QED
          BY <5>1, <5>2 DEF HeadTree, HeadCommit, TreeOf
      <4>. QED
        BY <4>1, <4>2
    <3>. QED
      BY <3>1, <3>2 DEF Tree
  <2>. QED
    BY <1>1, <1>2, <1>5, <2>1, <2>2 DEF After, NotOlder
<1>7. pc \in BeforeCommit => After(HeadCommit)'
  BY <1>5 DEF SourcesOK, After, NotOlder, TreeOf, HeadCommit
<1>8. pc \in HasBase => After(base)'
  BY <1>1, <1>2, <1>4 DEF SourcesOK, After, NotOlder, TreeOf
<1>9. \A i \in DOMAIN plan : NotOlder(started, plan[i].sha)'
  BY <1>1, <1>2, <1>3 DEF SourcesOK, NotOlder
<1>. QED
  BY <1>1, <1>7, <1>8, <1>9 DEF SourcesOK, After, NotOlder, TreeOf

LEMMA DeveloperSources ==
    ASSUME IInv, IInv', AgeInv, CommitInv, SourceInv, Developer
    PROVE  SourcesOK'
<1>1. PICK s \in Src : DevCommit(s) \/ DevEdit(s) \/ DevStage(s)
  BY DEF Developer
<1>2. /\ UNCHANGED runVars /\ RepoTypeOK /\ RepoAge /\ branch \in Branch /\ head \in Branch
      /\ HeadCommit \in Commit /\ HeadTree \in Tree /\ edits \in Nat
  <2>1. RepoTypeOK /\ RunTypeOK /\ RepoAge /\ UNCHANGED runVars
    BY DEF Developer, IInv, TypeOK, AgeInv, RepoAge
  <2>2. HeadCommit \in Commit /\ HeadTree \in Tree
    BY <2>1, HeadIsCommit DEF HeadTree
  <2>3. branch \in Branch /\ head \in Branch /\ edits \in Nat
    BY <2>1, RepositoryAssumption DEF RepoTypeOK, RunTypeOK
  <2>. QED
    BY <2>1, <2>2, <2>3
<1>3. CASE DevCommit(s)
  <2>1. /\ \A c \in Commit : TreeOf(c)' = TreeOf(c)
        /\ refs' = [refs EXCEPT ![head] = Len(commits')]
        /\ HeadCommit' = Len(commits')
        /\ HeadTree' = [HeadTree EXCEPT !.src[s] = edits + 2]
    BY <1>2, <1>3, DevCommitAge
  <2>3. \A f \in Src : HeadTree.src[f] <= edits + 1 /\ HeadTree.src[f] \in Nat
    BY <1>2 DEF SourceInv, VersionsOK, HeadTree, Tree
  <2>4. \A f \in Src : HeadTree.src[f] <= HeadTree'.src[f]
    BY <1>2, <2>1, <2>3 DEF Tree
  <2>. QED
    BY <1>2, <2>1, <2>4, BesideSources DEF SourceInv
<1>4. CASE DevEdit(s) \/ DevStage(s)
  <2>1. UNCHANGED << commits, refs, head, pc, plan, started, base, branch >>
    BY <1>2, <1>4 DEF DevEdit, DevStage, runVars, settings, applyVars
  <2>. QED
    BY <2>1 DEF SourceInv, SourcesOK, After, NotOlder, TreeOf, HeadCommit
<1>. QED
  BY <1>1, <1>3, <1>4

LEMMA NextSources ==
    ASSUME IInv, IInv', AgeInv, CommitInv, SourceInv, [Next]_vars
    PROVE  SourceInv'
<1>1. VersionsOK'
  BY NextVersions DEF SourceInv
<1>2. ChangeMode \/ Operator => SourcesOK'
  BY IdleSources DEF ChangeMode, Operator, runVars
<1>3. UNCHANGED vars => SourcesOK'
  BY DEF SourceInv, SourcesOK, After, NotOlder, TreeOf, HeadCommit, vars, repoVars, runVars,
         settings, applyVars
<1>4. SourcesOK'
  BY <1>2, <1>3, RunSources, DeveloperSources DEF SourceInv, Next, Environment
<1>. QED
  BY <1>1, <1>4 DEF SourceInv

LEMMA InitSources == Init => SourceInv
<1>. SUFFICES ASSUME Init PROVE SourceInv
  OBVIOUS
<1>1. PICK first \in FirstTrees :
        /\ commits = << [tree |-> first, parent |-> 0] >> /\ index = first /\ worktree = first
        /\ edits = 0
  BY DEF Init, RepoInit
<1>2. \A s \in Src : first.src[s] <= 1
  BY DEF FirstTrees
<1>3. \A c \in Commit : TreeOf(c) = first
  BY <1>1 DEF Commit, TreeOf
<1>4. VersionsOK
  BY <1>1, <1>2, <1>3 DEF VersionsOK
<1>5. SourcesOK
  BY DEF Init, SourcesOK, HasBase, BeforeCommit, Phases
<1>. QED
  BY <1>4, <1>5 DEF SourceInv

-----------------------------------------------------------------------------
(* The sources of a commit are no older than those of its history.         *)
AncestryOK == \A c \in Commit : \A a \in Ancestors(c) : NotOlder(a, c)

(* Three steps add to the history: a developer's commit, the operator's    *)
(* merge and the commit of a run.                                          *)
LEMMA WhoCommits ==
    ASSUME Next \/ UNCHANGED vars
    PROVE  \/ UNCHANGED commits
           \/ \E s \in Src : DevCommit(s) /\ UNCHANGED runVars
           \/ \E b \in Branch : MergeBranch(b) /\ UNCHANGED runVars
           \/ CommitIndex /\ index # HeadTree
<1>1. Start \/ AssembleStep \/ Failure \/ Done \/ ChangeMode => UNCHANGED commits
  BY DEF Start, AssembleStep, ReadDoc, ComputeDiff, OverBudget, SkipEntry, ResolveHEAD, Generate,
         Failure, FailCleanly, FailTorn, FailStaging, Done, ChangeMode, repoVars
<1>2. ApplyStep => UNCHANGED commits \/ (CommitIndex /\ index # HeadTree)
  BY DEF ApplyStep, PlanNothing, PlanWrites, ResolveBranch, BranchExists, CreateRef,
         CheckoutRefused, CheckoutHead, ResetIndex, ResetFiles, WriteFile, WriteFileNoFrontmatter,
         SaveSidecar, StageFiles,
         CommitIndex, repoVars
<1>3. Developer => UNCHANGED commits \/ \E s \in Src : DevCommit(s) /\ UNCHANGED runVars
  BY DEF Developer, DevEdit, DevStage
<1>4. Operator => \/ UNCHANGED commits
                  \/ \E b \in Branch : MergeBranch(b) /\ UNCHANGED runVars
  BY DEF Operator, ForceCheckout, SwitchBranch, DeleteBranch
<1>5. UNCHANGED vars => UNCHANGED commits
  BY DEF vars, repoVars
<1>. QED
  BY <1>1, <1>2, <1>3, <1>4, <1>5 DEF Next, LocalStep, Environment

(* A commit whose sources are not older than its parent's.                 *)
LEMMA GrownAncestry ==
    ASSUME RepoTypeOK, HistoryOK, AncestryOK, NEW tree \in Tree, NEW parent \in Commit,
           \A s \in Src : TreeOf(parent).src[s] <= tree.src[s],
           commits' = Append(commits, [tree |-> tree, parent |-> parent])
    PROVE  AncestryOK'
<1>1. /\ Len(commits) \in Nat
      /\ \A c \in Commit : Ancestors(c)' = Ancestors(c)
      /\ \A n : n = Len(commits') => Ancestors(n)' = {n} \cup Ancestors(parent)
  BY AppendKeepsHistory DEF HistoryOK
<1>2. /\ Commit' = Commit \cup {Len(commits')}
      /\ \A c \in Commit : TreeOf(c)' = TreeOf(c)
      /\ \A c : c = Len(commits') => TreeOf(c)' = tree
  BY GrownHistory
<1>3. \A c \in Commit : Ancestors(c) \subseteq Commit
  BY <1>1, AncestorsHere, AncestorsRange DEF HistoryOK, Commit
<1>4. \A s \in Src : tree.src[s] \in Nat /\ \A c \in Commit : TreeOf(c).src[s] \in Nat
  BY CommittedTree DEF Tree
<1>5. ASSUME NEW c \in Commit', NEW a \in Ancestors(c)' PROVE NotOlder(a, c)'
  <2>1. CASE c \in Commit
    <3>1. a \in Ancestors(c) /\ a \in Commit /\ NotOlder(a, c)
      BY <1>1, <1>3, <1>5, <2>1 DEF AncestryOK
    <3>. QED
      BY <1>2, <2>1, <3>1 DEF NotOlder
  <2>2. CASE c = Len(commits')
    <3>1. TreeOf(c)' = tree
      BY <1>2, <2>2
    <3>2. a = c \/ a \in Ancestors(parent)
      BY <1>1, <1>5, <2>2
    <3>3. CASE a = c
      BY <1>4, <3>1, <3>3 DEF NotOlder
    <3>4. CASE a \in Ancestors(parent)
      <4>1. a \in Commit /\ TreeOf(a)' = TreeOf(a)
        BY <1>2, <1>3, <3>4
      <4>2. \A s \in Src : TreeOf(a).src[s] <= TreeOf(parent).src[s]
        BY <3>4 DEF AncestryOK, NotOlder
      <4>3. \A s \in Src : TreeOf(a).src[s] <= tree.src[s]
        BY <1>4, <4>1, <4>2
      <4>. QED
        BY <3>1, <4>1, <4>3 DEF NotOlder
    <3>. QED
      BY <3>2, <3>3, <3>4
  <2>. QED
    BY <1>2, <2>1, <2>2
<1>. QED
  BY <1>5 DEF AncestryOK

(* A merge takes each source file from the side that has the newer version.*)
LEMMA MergedSources ==
    ASSUME RepoTypeOK, HistoryOK, AncestryOK, NEW a \in Commit, NEW b \in Commit,
           ~Conflict(a, b), NEW s \in Src
    PROVE  /\ Merged(a, b).src[s] \in {TreeOf(a).src[s], TreeOf(b).src[s]}
           /\ TreeOf(a).src[s] <= Merged(a, b).src[s]
           /\ TreeOf(b).src[s] <= Merged(a, b).src[s]
<1>. DEFINE c == MergeBase(a, b)
<1>1. c \in Commit /\ c \in Ancestors(a) /\ c \in Ancestors(b)
  BY MergeBaseIsCommit DEF HistoryOK, RepoTypeOK
<1>2. OneSided(Merged(a, b).src[s], TreeOf(a).src[s], TreeOf(b).src[s], TreeOf(c).src[s])
  BY MergedCommitSides
<1>. HIDE DEF c
<1>3. TreeOf(c).src[s] <= TreeOf(a).src[s] /\ TreeOf(c).src[s] <= TreeOf(b).src[s]
  BY <1>1 DEF AncestryOK, NotOlder
<1>4. TreeOf(a).src[s] \in Nat /\ TreeOf(b).src[s] \in Nat
  BY CommittedTree DEF Tree
<1>. QED
  BY <1>2, <1>3, <1>4 DEF OneSided

(* A run commits the sources of HEAD.                                      *)
LEMMA CommittedSources ==
    ASSUME IInv, CommitInv, pc = "commit"
    PROVE  index.src = HeadTree.src /\ index \in Tree /\ HeadTree \in Tree
<1>1. index = Staged(HeadTree, worktree, PlannedDocs, touched) /\ HeadTree \in Tree
      /\ index \in Tree
  BY HeadIsCommit DEF CommitInv, IndexOK, IInv, TypeOK, RepoTypeOK, HeadTree
<1>. QED
  BY <1>1 DEF Staged, Tree

(* A developer commits a version newer than HEAD's.                        *)
LEMMA DevelopedSources ==
    ASSUME RepoTypeOK, VersionsOK, NEW s \in Src, NEW tree,
           tree = [HeadTree EXCEPT !.src[s] = edits + 2]
    PROVE  tree \in Tree /\ \A f \in Src : HeadTree.src[f] <= tree.src[f]
<1>1. HeadCommit \in Commit /\ HeadTree \in Tree /\ edits \in Nat
  BY HeadIsCommit, RepositoryAssumption DEF RepoTypeOK
<1>2. tree \in Tree
  BY <1>1, NewVersionType
<1>3. \A f \in Src : HeadTree.src[f] <= edits + 1 /\ HeadTree.src[f] \in Nat
  BY <1>1 DEF VersionsOK, HeadTree, Tree
<1>4. \A f \in Src : tree.src[f] = IF f = s THEN edits + 2 ELSE HeadTree.src[f]
  BY <1>1 DEF Tree
<1>. QED
  BY <1>1, <1>2, <1>3, <1>4

LEMMA NextAncestry ==
    ASSUME IInv, AgeInv, CommitInv, SourceInv,
           AncestryOK, [Next]_vars
    PROVE  AncestryOK'
<1>1. RepoTypeOK /\ HistoryOK /\ HeadCommit \in Commit /\ HeadTree = TreeOf(HeadCommit)
  BY HeadIsCommit DEF IInv, TypeOK, AgeInv, HeadTree
<1>2. CASE UNCHANGED commits
  <2>1. \A c : Ancestors(c)' = Ancestors(c)
    BY <1>2 DEF Ancestors
  <2>2. Commit' = Commit /\ \A a, c : NotOlder(a, c)' <=> NotOlder(a, c)
    BY <1>2 DEF Commit, NotOlder, TreeOf
  <2>. QED
    BY <2>1, <2>2 DEF AncestryOK
<1>3. ASSUME NEW s \in Src, DevCommit(s) PROVE AncestryOK'
  <2>. DEFINE tree == [HeadTree EXCEPT !.src[s] = edits + 2]
  <2>1. commits' = Append(commits, [tree |-> tree, parent |-> HeadCommit])
    BY <1>3 DEF DevCommit, AppendCommit
  <2>2. tree \in Tree /\ \A f \in Src : HeadTree.src[f] <= tree.src[f]
    BY <1>1, DevelopedSources DEF SourceInv
  <2>. HIDE DEF tree
  <2>. QED
    BY <1>1, <2>1, <2>2, GrownAncestry
<1>4. ASSUME NEW b \in Branch, MergeBranch(b) PROVE AncestryOK'
  <2>1. /\ refs[b] \in Commit /\ refs[Main] \in Commit /\ ~Conflict(refs[b], refs[Main])
        /\ commits' = Append(commits, [tree |-> Merged(refs[b], refs[Main]),
                                       parent |-> refs[Main]])
    BY <1>1, <1>4, BranchCommit, RepositoryAssumption DEF MergeBranch, RepoTypeOK
  <2>2. Merged(refs[b], refs[Main]) \in Tree
    BY <1>1, <2>1, MergedMarks
  <2>3. \A s \in Src : TreeOf(refs[Main]).src[s] <= Merged(refs[b], refs[Main]).src[s]
    BY <1>1, <2>1, MergedSources
  <2>. QED
    BY <1>1, <2>1, <2>2, <2>3, GrownAncestry
<1>5. CASE CommitIndex /\ index # HeadTree
  <2>1. pc = "commit" /\ commits' = Append(commits, [tree |-> index, parent |-> HeadCommit])
    BY <1>5, RunCommits
  <2>2. index.src = HeadTree.src /\ index \in Tree /\ HeadTree \in Tree
    BY <2>1, CommittedSources
  <2>3. \A s \in Src : HeadTree.src[s] <= index.src[s]
    BY <2>2 DEF Tree
  <2>. QED
    BY <1>1, <2>1, <2>2, <2>3, GrownAncestry
<1>. QED
  BY <1>2, <1>3, <1>4, <1>5, WhoCommits

LEMMA InitAncestry == Init => AncestryOK
<1>. SUFFICES ASSUME Init PROVE AncestryOK
  OBVIOUS
<1>1. IInv /\ HistoryOK
  BY InitInv, InitAge DEF AgeInv
<1>2. Commit = {1} /\ Len(commits) = 1
  BY DEF Init, RepoInit, Commit
<1>3. Ancestors(1) \subseteq {1}
  <2>1. 1 \in 1 .. Len(commits) /\ 1 .. 1 = {1} /\ Len(commits) \in Nat
    BY <1>2
  <2>. QED
    BY <1>1, <2>1, AncestorsHere, AncestorsRange DEF HistoryOK
<1>4. NotOlder(1, 1)
  BY <1>1, <1>2, OlderOrder DEF IInv, TypeOK
<1>. QED
  BY <1>2, <1>3, <1>4 DEF AncestryOK

-----------------------------------------------------------------------------
(* What a run has passed stays passed.                                     *)
LEMMA StillPassed ==
    ASSUME started \in Commit, \A c \in Commit : TreeOf(c)' = TreeOf(c), started' = started,
           \A i \in DOMAIN plan : i \in DOMAIN plan' /\ plan'[i].doc = plan[i].doc
    PROVE  \A d : Passed(d) => Passed(d)'
<1>1. TreeOf(started)' = TreeOf(started)
  BY DEF TreeOf
<1>. QED
  BY <1>1 DEF Passed, UpToDate

(* The steps that stay at their entry, or are past them all.               *)
LEMMA SameProgress ==
    ASSUME CommitInv, ProgressOK, pc # "idle", UNCHANGED << started, cur >>,
           \A c \in Commit : TreeOf(c)' = TreeOf(c),
           \A i \in DOMAIN plan : i \in DOMAIN plan' /\ plan'[i].doc = plan[i].doc,
           pc' \in HasBodies \cup {"plan"} => pc \in HasBodies \cup {"plan"},
           pc' \in {"diff", "resolve"} => pc \in {"diff", "resolve"} /\ asm'.text = asm.text
    PROVE  ProgressOK'
<1>1. started \in Commit
  BY DEF CommitInv, Decided
<1>2. \A d : Passed(d) => Passed(d)'
  BY <1>1, StillPassed
<1>3. TreeOf(started)' = TreeOf(started)
  BY <1>1 DEF TreeOf
<1>4. \A n \in DOMAIN Manifest : n < cur' => Passed(Manifest[n].path)'
  BY <1>2 DEF ProgressOK
<1>. QED
  BY <1>3, <1>4 DEF ProgressOK

(* The next entry, or the plan after the last.                             *)
LEMMA NextProgress ==
    ASSUME IInv, CommitInv, ProgressOK, pc # "idle", cur \in DOMAIN Manifest,
           pc' = AfterEntry, cur' = cur + 1, UNCHANGED << started, commits >>,
           \A i \in DOMAIN plan : i \in DOMAIN plan' /\ plan'[i].doc = plan[i].doc,
           NEW d, d = Manifest[cur].path, Passed(d)'
    PROVE  ProgressOK'
<1>1. started \in Commit /\ \A c \in Commit : TreeOf(c)' = TreeOf(c)
  BY DEF CommitInv, Decided, TreeOf
<1>2. \A e : Passed(e) => Passed(e)'
  BY <1>1, StillPassed
<1>3. cur \in Nat /\ DOMAIN Manifest = 1 .. Len(Manifest) /\ Len(Manifest) \in Nat
  BY LocalRunAssumption DEF IInv, TypeOK, RunTypeOK
<1>4. \A n \in DOMAIN Manifest : n < cur' => Passed(Manifest[n].path)'
  <2>. SUFFICES ASSUME NEW n \in DOMAIN Manifest, n < cur + 1
                PROVE  Passed(Manifest[n].path)'
    OBVIOUS
  <2>1. n < cur \/ n = cur
    BY <1>3
  <2>2. n < cur => Passed(Manifest[n].path)
    BY DEF ProgressOK
  <2>3. Passed(Manifest[n].path) \/ Manifest[n].path = d
    BY <2>1, <2>2
  <2>. QED
    BY <1>2, <2>3 DEF Passed, UpToDate
<1>5. pc' = "plan" => cur' > Len(Manifest)
  BY <1>3 DEF AfterEntry
<1>6. pc' \in {"read", "plan"}
  BY DEF AfterEntry
<1>. QED
  BY <1>4, <1>5, <1>6 DEF ProgressOK, HasBodies

LEMMA ReadProgress ==
    ASSUME Tidy, IInv, AgeInv, CommitInv, ProgressOK, ReadDoc
    PROVE  ProgressOK'
<1>1. /\ pc = "read" /\ pc' = "diff" /\ UNCHANGED << cur, started, commits, plan >>
      /\ asm'.text = TextOf(worktree.doc[Manifest[cur].path])
  BY DEF ReadDoc, settings, repoVars, NoContext
<1>2. worktree.doc = TreeOf(started).doc
  BY <1>1, CleanDocs DEF CleanPhases
<1>3. started \in Commit /\ TreeOf(started)' = TreeOf(started)
      /\ \A c \in Commit : TreeOf(c)' = TreeOf(c)
  BY <1>1 DEF CommitInv, Decided, TreeOf
<1>4. \A d : Passed(d) => Passed(d)'
  BY <1>1, <1>3, StillPassed
<1>. QED
  BY <1>1, <1>2, <1>3, <1>4 DEF ProgressOK, HasBodies

(* A document whose diff is empty tells what its commit has.               *)
LEMMA SkipProgress ==
    ASSUME OneEntryEach, IInv, AgeInv, RunExact, CommitInv, SourceInv, ProgressOK, SkipEntry
    PROVE  ProgressOK'
<1>. SUFFICES ASSUME NEW d, d = Manifest[cur].path PROVE ProgressOK'
  OBVIOUS
<1>1. /\ pc = "resolve" /\ asm.diff = {} /\ pc' = AfterEntry /\ cur' = cur + 1
      /\ UNCHANGED << started, commits, plan >>
  BY DEF SkipEntry, settings, repoVars
<1>2. cur \in DOMAIN Manifest
  BY <1>1 DEF IInv, ControlOK
<1>3. CoversOf(d) = Manifest[cur].covers
  BY <1>2, CoversOfEntry
<1>4. UpToDate(d)
  <2>. SUFFICES ASSUME NEW s \in CoversOf(d)
                PROVE  TreeOf(started).src[s] <= TextOf(TreeOf(started).doc[d])[s]
    BY DEF UpToDate
  <2>1. asm.text[s] = Shown(commits, asm.wm)[s]
    BY <1>1 DEF RunExact, AsmExact, BodyExact, Tells
  <2>2. Shown(commits, asm.wm)[s] = asm.seen[s]
    BY <1>1, <1>3 DEF RunExact, AsmExact, DiffExact
  <2>3. asm.seen[s] = HeadTree.src[s]
    BY <1>1 DEF RunExact, AsmExact, StampExact
  <2>4. s \in Src
    BY <1>2, <1>3, ManifestEntry
  <2>5. TreeOf(started).src[s] <= HeadTree.src[s]
    BY <1>1, <2>4 DEF SourceInv, SourcesOK, After, NotOlder, HeadTree, BeforeCommit, Phases
  <2>6. asm.text = TextOf(TreeOf(started).doc[d])
    BY <1>1 DEF ProgressOK
  <2>. QED
    BY <2>1, <2>2, <2>3, <2>5, <2>6
<1>5. Passed(d)'
  BY <1>1, <1>4 DEF Passed, UpToDate, TreeOf
<1>. QED
  BY <1>1, <1>2, <1>5, NextProgress

LEMMA GenerateProgress ==
    ASSUME IInv, AgeInv, RunExact, CommitInv, ProgressOK, Generate
    PROVE  ProgressOK'
<1>1. /\ pc = "generate" /\ pc' = AfterEntry /\ cur' = cur + 1
      /\ UNCHANGED << started, commits >>
  BY DEF Generate, settings, repoVars
<1>2. PICK text : plan' = [plan EXCEPT ![Len(plan)].text = text]
  BY DEF Generate
<1>3. plan \in Seq(Entry) /\ plan # << >> /\ cur \in DOMAIN Manifest
  BY <1>1 DEF IInv, TypeOK, RunTypeOK, ControlOK
<1>4. \A i \in DOMAIN plan : i \in DOMAIN plan' /\ plan'[i].doc = plan[i].doc
  BY <1>2, <1>3 DEF Entry
<1>. SUFFICES ASSUME NEW d, d = Manifest[cur].path PROVE ProgressOK'
  OBVIOUS
<1>5. Len(plan) \in DOMAIN plan /\ plan[Len(plan)].doc = d
  BY <1>1, <1>3 DEF RunExact, AsmExact, StampExact
<1>6. Passed(d)'
  BY <1>4, <1>5 DEF Passed
<1>. QED
  BY <1>1, <1>3, <1>4, <1>6, NextProgress

LEMMA NextProgressOK ==
    ASSUME OneEntryEach, Tidy, IInv, AgeInv, RunExact, CommitInv, SourceInv, ProgressOK,
           [Next]_vars
    PROVE  ProgressOK'
<1>1. CASE pc' = "idle"
  BY <1>1 DEF ProgressOK, HasBodies
<1>2. CASE Start
  BY <1>2, LocalRunAssumption DEF Start, ProgressOK, HasBodies
<1>3. CASE ComputeDiff \/ PlanWrites \/ ResolveBranch \/ CreateRef \/ CheckoutHead \/ ResetIndex
           \/ ResetFiles \/ WriteFile \/ WriteFileNoFrontmatter \/ SaveSidecar \/ StageFiles
  <2>1. \/ pc' = "idle"
        \/ /\ UNCHANGED << commits, started, cur, plan >>
           /\ pc # "idle"
           /\ pc' \in HasBodies \cup {"plan"} => pc \in HasBodies \cup {"plan"}
           /\ pc' \in {"diff", "resolve"} => pc \in {"diff", "resolve"} /\ asm'.text = asm.text
    <3>1. CASE ComputeDiff
      BY <3>1 DEF ComputeDiff, settings, repoVars, HasBodies, IInv, TypeOK, RunTypeOK
    <3>2. CASE PlanWrites \/ ResolveBranch \/ CreateRef \/ CheckoutHead \/ ResetIndex
               \/ ResetFiles \/ StageFiles
      BY <3>2 DEF PlanWrites, ResolveBranch, CreateRef, CheckoutHead, ResetIndex, ResetFiles,
                  StageFiles, settings, entryVars, repoVars, HasBodies
    <3>3. CASE WriteFile \/ WriteFileNoFrontmatter \/ SaveSidecar
      BY <3>3 DEF WriteFile, WriteFileNoFrontmatter, SaveSidecar, AfterWrite, Finish,
                  FinishSkipping, settings, entryVars, HasBodies
    <3>. QED
      BY <1>3, <3>1, <3>2, <3>3
  <2>2. UNCHANGED commits => \A c \in Commit : TreeOf(c)' = TreeOf(c)
    BY DEF TreeOf
  <2>. QED
    BY <1>1, <2>1, <2>2, SameProgress
<1>4. CASE ResolveHEAD
  <2>1. /\ UNCHANGED << commits, started, cur >> /\ pc = "resolve" /\ pc' = "generate"
        /\ \E e : plan' = Append(plan, e)
    BY <1>4 DEF ResolveHEAD, settings, entryVars, repoVars
  <2>2. \A i \in DOMAIN plan : i \in DOMAIN plan' /\ plan'[i].doc = plan[i].doc
    BY <2>1 DEF IInv, TypeOK, RunTypeOK
  <2>3. \A c \in Commit : TreeOf(c)' = TreeOf(c)
    BY <2>1 DEF TreeOf
  <2>. QED
    BY <2>1, <2>2, <2>3, SameProgress DEF HasBodies
<1>5. CASE CommitIndex /\ pc' # "idle"
  <2>1. CommitIndex /\ index # HeadTree
    BY <1>5 DEF CommitIndex, Finish, FinishSkipping
  <2>2. /\ \A c \in Commit : TreeOf(c)' = TreeOf(c)
        /\ UNCHANGED << started, plan >> /\ pc = "commit" /\ pc' = "committed"
    BY <2>1, RunCommits
  <2>3. UNCHANGED cur
    BY <2>1 DEF CommitIndex, entryVars
  <2>. QED
    BY <2>2, <2>3, SameProgress DEF HasBodies
<1>6. CASE Developer /\ pc # "idle"
  <2>1. PICK s \in Src : DevCommit(s) \/ DevEdit(s) \/ DevStage(s)
    BY <1>6 DEF Developer
  <2>2. \A c \in Commit : TreeOf(c)' = TreeOf(c)
    <3>1. CASE DevCommit(s)
      BY <3>1, DevCommitAge DEF IInv, TypeOK, AgeInv, RepoAge
    <3>2. CASE DevEdit(s) \/ DevStage(s)
      BY <3>2 DEF DevEdit, DevStage, TreeOf
    <3>. QED
      BY <2>1, <3>1, <3>2
  <2>3. UNCHANGED << pc, started, cur, plan, asm >>
    BY <1>6 DEF Developer, runVars, settings, entryVars
  <2>. QED
    BY <1>6, <2>2, <2>3, SameProgress
<1>7. CASE (PlanNothing \/ OverBudget \/ BranchExists \/ CheckoutRefused \/ Failure \/ Done)
  <2>1. pc' = "idle"
    BY <1>7
    DEF PlanNothing, OverBudget, BranchExists, CheckoutRefused, Failure, FailCleanly, FailTorn,
        FailStaging, Done, Finish, FinishSkipping
  <2>. QED
    BY <1>1, <2>1
<1>8. CASE ChangeMode \/ Operator \/ (Developer /\ pc = "idle")
  <2>1. pc' = "idle"
    BY <1>8 DEF ChangeMode, Operator, Developer, runVars
  <2>. QED
    BY <1>1, <2>1
<1>9. CASE UNCHANGED vars
  BY <1>9
  DEF vars, repoVars, runVars, settings, entryVars, ProgressOK, Passed, UpToDate, TreeOf
<1>. QED
  BY <1>1, <1>2, <1>3, <1>4, <1>5, <1>6, <1>7, <1>8, <1>9, ReadProgress, SkipProgress,
     GenerateProgress
  DEF Next, LocalStep, AssembleStep, ApplyStep, Environment

-----------------------------------------------------------------------------
(* The page of an entry has its text.                                      *)
LEMMA PlannedText ==
    ASSUME RunTypeOK, NEW i \in Bodies
    PROVE  TextOf(PageOf(plan[i])) = plan[i].text
<1>1. plan[i] \in Entry
  BY PlanEntry DEF Bodies
<1>2. PageOf(plan[i]) \in Page
  BY <1>1 DEF PageOf, Page, Entry, Bodies, Mark, NoMark
<1>3. PageOf(plan[i]) # Nil
  BY <1>2, RepositoryAssumption DEF Page, Text
<1>. QED
  BY <1>3 DEF TextOf, PageOf

(* What a run writes tells at least what its first commit has, and nothing *)
(* HEAD has not when it commits.                                           *)
LEMMA PlannedTells ==
    ASSUME IInv, AgeInv, RunExact, SourceInv, pc # "idle",
           NEW i \in Bodies, NEW s \in CoversOf(plan[i].doc), s \in Src
    PROVE  /\ TreeOf(started).src[s] <= plan[i].text[s]
           /\ pc \in BeforeCommit => plan[i].text[s] <= HeadTree.src[s]
<1>1. plan[i].text[s] = Shown(commits, plan[i].sha)[s]
  BY DEF RunExact, PlanExact, EntryExact, Tells, Bodies
<1>2. plan[i].sha # NoMark
  BY DEF AgeInv, MemoryOK, Bodies, Commit, NoMark
<1>3. NotOlder(started, plan[i].sha)
  BY DEF SourceInv, SourcesOK, Bodies
<1>4. pc \in BeforeCommit => NotOlder(plan[i].sha, HeadCommit)
  BY DEF SourceInv, SourcesOK, After, Bodies
<1>. QED
  BY <1>1, <1>2, <1>3, <1>4 DEF Shown, NotOlder, TreeOf, HeadTree

(* With every entry passed, the pages of the plan written and the others   *)
(* as they were, every document but those skipped is up to date.           *)
LEMMA NothingIsLeft ==
    ASSUME IInv, AgeInv, RunExact, SourceInv, ProgressOK, pc \in HasBodies \cup {"plan"},
           NEW disk,
           \A i \in Bodies : Latest(i, Bodies) => disk.doc[plan[i].doc] = PageOf(plan[i]),
           \A d \in Doc \ PlannedDocs : disk.doc[d] = TreeOf(started).doc[d]
    PROVE  \A d \in Doc \ SkippedDocs : \A s \in CoversOf(d) :
               TreeOf(started).src[s] <= TextOf(disk.doc[d])[s]
<1>. SUFFICES ASSUME NEW d \in Doc \ SkippedDocs, NEW s \in CoversOf(d)
              PROVE  TreeOf(started).src[s] <= TextOf(disk.doc[d])[s]
  OBVIOUS
<1>1. pc # "idle"
  BY DEF HasBodies
<1>2. PICK n \in DOMAIN Manifest : Manifest[n].path = d /\ s \in Manifest[n].covers
  BY DEF CoversOf
<1>3. s \in Src /\ n < cur
  <2>1. n \in Nat /\ n <= Len(Manifest) /\ Len(Manifest) \in Nat /\ cur \in Nat
    BY <1>2, LocalRunAssumption DEF IInv, TypeOK, RunTypeOK
  <2>2. cur > Len(Manifest)
    BY DEF ProgressOK
  <2>. QED
    BY <1>2, <2>1, <2>2, ManifestEntry
<1>4. Passed(d)
  BY <1>1, <1>2, <1>3 DEF ProgressOK
<1>5. CASE d \in PlannedDocs
  <2>1. PICK i \in Bodies : plan[i].doc = d /\ Latest(i, Bodies)
    BY <1>5, LatestEntry DEF IInv, TypeOK
  <2>2. disk.doc[d] = PageOf(plan[i])
    BY <2>1
  <2>3. TextOf(disk.doc[d]) = plan[i].text
    BY <2>1, <2>2, PlannedText DEF IInv, TypeOK
  <2>4. TreeOf(started).src[s] <= plan[i].text[s]
    BY <1>1, <1>3, <2>1, PlannedTells
  <2>. QED
    BY <2>3, <2>4
<1>6. CASE d \notin PlannedDocs
  <2>1. UpToDate(d)
    BY <1>4, <1>6 DEF Passed, PlannedDocs, SkippedDocs, Bodies
  <2>. QED
    BY <1>6, <2>1 DEF UpToDate
<1>. QED
  BY <1>5, <1>6

(* The last file of a dry run.                                             *)
LEMMA DryRunWrites ==
    ASSUME Tidy, IInv, AgeInv, CommitInv, WriteFile \/ SaveSidecar, IsLast
    PROVE  /\ \A i \in Bodies : Latest(i, Bodies) => worktree'.doc[plan[i].doc] = PageOf(plan[i])
           /\ \A d \in Doc \ PlannedDocs : worktree'.doc[d] = TreeOf(started).doc[d]
<1>1. pc \in {"write", "sidecar"}
  BY DEF WriteFile, SaveSidecar
<1>2. k \in Bodies /\ k \in Nat /\ Bodies \subseteq Nat /\ plan[k].doc \in PlannedDocs
  BY <1>1, WrittenEntry
<1>3. /\ worktree'.doc[plan[k].doc] = PageOf(plan[k])
      /\ \A d \in Doc : d # plan[k].doc => worktree'.doc[d] = worktree.doc[d]
  <2>1. plan[k].doc \in Doc /\ worktree \in Tree
    BY <1>1, EntryAge DEF IInv, TypeOK, RepoTypeOK
  <2>2. CASE WriteFile
    BY <2>1, <2>2 DEF WriteFile, PageOf, Tree
  <2>3. CASE SaveSidecar
    <3>1. worktree'.doc = worktree.doc
      BY <2>1, <2>3 DEF SaveSidecar, Tree
    <3>2. worktree.doc[plan[k].doc] = PageOf(plan[k])
      BY <2>3 DEF SaveSidecar, CommitInv, DiskOK
    <3>. QED
      BY <3>1, <3>2
  <2>. QED
    BY <2>2, <2>3
<1>4. ASSUME NEW i \in Bodies, Latest(i, Bodies)
      PROVE  worktree'.doc[plan[i].doc] = PageOf(plan[i])
  <2>1. i <= k /\ i \in Nat
    BY <1>2 DEF IsLast
  <2>2. CASE i = k
    BY <1>3, <2>2
  <2>3. CASE i # k
    <3>1. plan[i].doc # plan[k].doc /\ i < k
      BY <1>2, <1>4, <2>1, <2>3 DEF Latest
    <3>2. Latest(i, Before(k))
      BY <1>4, <3>1 DEF Latest, Before
    <3>3. Complete(worktree, touched, plan[i])
      BY <1>1, <3>1, <3>2 DEF CommitInv, DiskOK, OnDisk, OthersOnDisk
    <3>4. plan[i].doc \in Doc
      BY PlanEntry DEF Bodies, IInv, TypeOK
    <3>. QED
      BY <1>3, <3>1, <3>3, <3>4 DEF Complete
  <2>. QED
    BY <2>2, <2>3
<1>5. \A d \in Doc \ PlannedDocs : worktree.doc[d] = TreeOf(started).doc[d]
  BY <1>1 DEF CommitInv, KeptOK, Applying
<1>. QED
  BY <1>2, <1>3, <1>4, <1>5

(* Only three steps end a run without an error.                            *)
Succeeding == {"nothing", "written", "committed"}

LEMMA OnlySuccesses ==
    ASSUME CommitInv, Next, pc # "idle", outcome' \in Succeeding
    PROVE  \/ PlanNothing
           \/ Done
           \/ IsLast /\ Finish("written") /\ (WriteFile \/ SaveSidecar)
<1>1. outcome = "none"
  BY DEF CommitInv, Decided
<1>2. ~AssembleStep
  BY <1>1 DEF AssembleStep, ReadDoc, ComputeDiff, OverBudget, SkipEntry, ResolveHEAD, Generate,
              resultVars, Finish, FinishSkipping, Succeeding
<1>3. ~Start /\ ~Developer /\ ~ChangeMode /\ ~Operator
  BY <1>1 DEF Start, Developer, ChangeMode, Operator, runVars, resultVars, Succeeding
<1>4. ~Failure
  BY DEF Failure, FailCleanly, FailTorn, FailStaging, Finish, FinishSkipping, Succeeding
<1>5. ~(PlanWrites \/ ResolveBranch \/ BranchExists \/ CreateRef \/ CheckoutRefused)
      /\ ~(CheckoutHead \/ ResetIndex \/ ResetFiles)
  BY <1>1 DEF PlanWrites, ResolveBranch, BranchExists, CreateRef, CheckoutRefused, CheckoutHead,
              ResetIndex, ResetFiles, resultVars, Finish, FinishSkipping, Succeeding
<1>6. ~(WriteFileNoFrontmatter \/ StageFiles \/ CommitIndex)
  BY <1>1 DEF WriteFileNoFrontmatter, StageFiles, CommitIndex, resultVars, Finish, FinishSkipping,
              Succeeding
<1>7. WriteFile \/ SaveSidecar => IsLast /\ Finish("written")
  BY <1>1 DEF WriteFile, SaveSidecar, AfterWrite, resultVars, Succeeding
<1>. QED
  BY <1>2, <1>3, <1>4, <1>5, <1>6, <1>7 DEF Next, LocalStep, ApplyStep, Environment

(* Each of them leaves every document up to date but those skipped.        *)
LEMMA SuccessMissesNothing ==
    ASSUME Tidy, IInv, AgeInv, RunExact, CommitInv, SourceInv, ProgressOK, Next,
           pc # "idle", outcome' \in Succeeding
    PROVE  \A d \in Doc \ skipped' : \A s \in CoversOf(d) :
               TreeOf(started).src[s] <= TextOf(worktree'.doc[d])[s]
<1>1. CASE PlanNothing
  <2>1. /\ pc = "plan" /\ skipped' = SkippedDocs /\ worktree' = worktree /\ Bodies = {}
    BY <1>1 DEF PlanNothing, FinishSkipping, repoVars
  <2>2. worktree.doc = TreeOf(started).doc
    BY <2>1, CleanDocs DEF CleanPhases
  <2>. QED
    BY <2>1, <2>2, NothingIsLeft
<1>2. CASE Done
  <2>1. pc = "committed" /\ skipped' = skipped /\ worktree' = worktree
    BY <1>2 DEF Done, Finish, FinishSkipping, repoVars
  <2>2. /\ skipped = SkippedDocs /\ OnDisk(worktree, touched, Bodies)
        /\ \A d \in Doc \ PlannedDocs : worktree.doc[d] = TreeOf(started).doc[d]
    BY <2>1 DEF CommitInv, Decided, DiskOK, KeptOK, HasBodies, Applying
  <2>3. \A i \in Bodies : Latest(i, Bodies) => worktree.doc[plan[i].doc] = PageOf(plan[i])
    BY <2>2 DEF OnDisk, Complete
  <2>4. \A d \in Doc \ SkippedDocs : \A s \in CoversOf(d) :
          TreeOf(started).src[s] <= TextOf(worktree.doc[d])[s]
    BY <2>1, <2>2, <2>3, NothingIsLeft DEF HasBodies
  <2>. QED
    BY <2>1, <2>2, <2>4
<1>3. CASE IsLast /\ Finish("written") /\ (WriteFile \/ SaveSidecar)
  <2>1. pc \in {"write", "sidecar"} /\ skipped' = skipped
    BY <1>3 DEF WriteFile, SaveSidecar, Finish, FinishSkipping
  <2>2. skipped = SkippedDocs
    BY <2>1 DEF CommitInv, Decided, HasBodies
  <2>3. \A d \in Doc \ SkippedDocs : \A s \in CoversOf(d) :
          TreeOf(started).src[s] <= TextOf(worktree'.doc[d])[s]
    BY <1>3, <2>1, DryRunWrites, NothingIsLeft DEF HasBodies
  <2>. QED
    BY <2>1, <2>2, <2>3
<1>. QED
  BY <1>1, <1>2, <1>3, OnlySuccesses

(* A run that ends without an error leaves no covered change behind: what  *)
(* the stamps, the empty diffs and the files on disk say of each document, *)
(* taken together, is that it is up to date with the commit the run started*)
(* from.                                                                   *)
THEOREM NothingIsMissed ==
    ASSUME SettledRun, Tidy
    PROVE  Spec => NothingMissed
<1>. DEFINE Inv == IInv /\ AgeInv /\ ExactInv /\ CommitInv /\ SourceInv /\ ProgressOK
            Kept == pc # "idle" /\ outcome' \in {"nothing", "written", "committed"} =>
                        \A d \in Doc \ skipped' : \A s \in CoversOf(d) :
                            TreeOf(started).src[s] <= TextOf(worktree'.doc[d])[s]
<1>1. Inv /\ [Next]_vars => [Kept]_vars
  BY SuccessMissesNothing DEF Succeeding, ExactInv
<1>2. Undisturbed
  BY DEF Undisturbed
<1>3. Init => Inv
  <2>1. Init => ProgressOK
    BY DEF Init, ProgressOK, HasBodies
  <2>. QED
    BY <2>1, InitInv, InitAge, InitExact, InitCommit, InitSources
<1>4. Inv /\ [Next]_vars => Inv'
  <2>. SUFFICES ASSUME Inv, [Next]_vars PROVE Inv'
    OBVIOUS
  <2>1. IInv'
    BY NextInv
  <2>2. AgeInv' /\ CommitInv'
    BY <1>2, <2>1, NextAge, NextCommit
  <2>3. ExactInv' /\ SourceInv'
    BY <2>1, NextExact, NextSources
  <2>4. ProgressOK'
    BY NextProgressOK DEF ExactInv, SettledRun, Settled
  <2>. QED
    BY <2>1, <2>2, <2>3, <2>4
<1>. QED
  BY <1>1, <1>3, <1>4, PTL DEF Spec, NothingMissed

-----------------------------------------------------------------------------
(* What the history shows of a commit: its sources, what its documents     *)
(* tell, and its parent.                                                   *)
Shows(entry) ==
    [src |-> entry.tree.src, told |-> [d \in Doc |-> TextOf(entry.tree.doc[d])],
     parent |-> entry.parent]

HistoryIn(h) == [c \in 1 .. Len(h) |-> Shows(h[c])]

History ==
    [c \in Commit |-> [src |-> TreeOf(c).src,
                       told |-> [d \in Doc |-> TextOf(TreeOf(c).doc[d])],
                       parent |-> commits[c].parent]]

ShownCommit == [src : [Src -> Nat], told : [Doc -> Text], parent : Nat]

LEMMA HistoryHere == History = HistoryIn(commits)
BY DEF History, HistoryIn, Shows, TreeOf, Commit

LEMMA ShownType ==
    ASSUME NEW tree \in Tree, NEW parent \in Nat
    PROVE  Shows([tree |-> tree, parent |-> parent]) \in ShownCommit
<1>1. \A d \in Doc : TextOf(tree.doc[d]) \in Text
  BY TextOfType
<1>. QED
  BY <1>1 DEF Shows, ShownCommit, Tree

LEMMA HistoryType ==
    ASSUME NEW h \in Seq([tree : Tree, parent : Nat])
    PROVE  /\ HistoryIn(h) \in Seq(ShownCommit)
           /\ Len(HistoryIn(h)) = Len(h)
           /\ \A c \in 1 .. Len(h) : HistoryIn(h)[c] = Shows(h[c])
<1>1. Len(h) \in Nat
  BY LenProperties
<1>2. ASSUME NEW c \in 1 .. Len(h) PROVE Shows(h[c]) \in ShownCommit
  <2>1. h[c] \in [tree : Tree, parent : Nat]
    BY ElementOfSeq
  <2>2. /\ h[c] = [tree |-> h[c].tree, parent |-> h[c].parent]
        /\ h[c].tree \in Tree /\ h[c].parent \in Nat
    BY <2>1
  <2>. QED
    BY <2>2, ShownType
<1>. DEFINE g == HistoryIn(h)
<1>3. g \in [1 .. Len(h) -> ShownCommit] /\ \A c \in 1 .. Len(h) : g[c] = Shows(h[c])
  BY <1>2 DEF HistoryIn
<1>. HIDE DEF g
<1>4. g \in Seq(ShownCommit) /\ Len(g) = Len(h)
  BY <1>1, <1>3
<1>. QED
  BY <1>3, <1>4 DEF g

(* A commit adds to the history what it shows.                             *)
LEMMA HistoryGrows ==
    ASSUME NEW h \in Seq([tree : Tree, parent : Nat]), NEW new \in [tree : Tree, parent : Nat],
           NEW g, g = Append(h, new)
    PROVE  /\ Len(HistoryIn(g)) = Len(HistoryIn(h)) + 1 /\ Len(HistoryIn(h)) = Len(h)
           /\ HistoryIn(g)[Len(HistoryIn(h)) + 1] = Shows(new)
           /\ HistoryIn(g) = Append(HistoryIn(h), Shows(new))
<1>. DEFINE x == Shows(new)
            H == HistoryIn(h)
            G == HistoryIn(g)
<1>1. x \in ShownCommit
  <2>1. new = [tree |-> new.tree, parent |-> new.parent] /\ new.tree \in Tree /\ new.parent \in Nat
    OBVIOUS
  <2>. QED
    BY <2>1, ShownType
<1>2. /\ g \in Seq([tree : Tree, parent : Nat]) /\ Len(g) = Len(h) + 1 /\ Len(h) \in Nat
      /\ \A c \in 1 .. Len(h) : g[c] = h[c]
      /\ g[Len(h) + 1] = new
  OBVIOUS
<1>3. /\ H \in Seq(ShownCommit) /\ Len(H) = Len(h)
      /\ \A c \in 1 .. Len(h) : H[c] = Shows(h[c])
  BY HistoryType
<1>4. /\ G \in Seq(ShownCommit) /\ Len(G) = Len(h) + 1
      /\ \A c \in 1 .. Len(h) + 1 : G[c] = Shows(g[c])
  BY <1>2, HistoryType
<1>. HIDE DEF H, G
<1>5. G[Len(H) + 1] = x /\ \A c \in 1 .. Len(H) : H[c] = G[c]
  <2>1. Len(h) + 1 \in 1 .. Len(h) + 1
    BY <1>2
  <2>2. G[Len(h) + 1] = Shows(g[Len(h) + 1])
    BY <1>4, <2>1
  <2>3. \A c \in 1 .. Len(h) : H[c] = G[c]
    BY <1>2, <1>3, <1>4
  <2>. QED
    BY <1>2, <1>3, <2>2, <2>3
<1>. HIDE DEF x
<1>6. G = Append(H, x)
  BY <1>1, <1>2, <1>3, <1>4, <1>5
<1>. QED
  BY <1>2, <1>3, <1>4, <1>5, <1>6 DEF G, H, x

-----------------------------------------------------------------------------
(* The steps the history shows, and those it does not.                     *)
LEMMA UnseenStep ==
    ASSUME UNCHANGED << commits, refs, started >>
    PROVE  UNCHANGED Promise!promiseVars
BY DEF Promise!promiseVars, Commit, TreeOf

NewEntry == History'[Len(History) + 1]

(* A commit on a branch, as the history shows it.                          *)
LEMMA SeenCommit ==
    ASSUME RepoTypeOK, NEW b \in Branch, refs[b] # 0, NEW tree \in Tree,
           commits' = Append(commits, [tree |-> tree, parent |-> refs[b]])
    PROVE  /\ Promise!CommitOn(b)
           /\ NewEntry = Shows([tree |-> tree, parent |-> refs[b]])
           /\ Len(History) = Len(commits)
           /\ \A c \in Commit : History[c].src = TreeOf(c).src
                                /\ \A d \in Doc : History[c].told[d] = TextOf(TreeOf(c).doc[d])
<1>1. /\ commits \in Seq([tree : Tree, parent : Nat]) /\ refs[b] \in Nat
  BY BranchCommit DEF RepoTypeOK, Commit
<1>. DEFINE new == [tree |-> tree, parent |-> refs[b]]
            e == Shows(new)
<1>6. History = HistoryIn(commits) /\ History' = HistoryIn(commits')
  BY DEF History, HistoryIn, Shows, TreeOf, Commit
<1>7. /\ Len(HistoryIn(commits')) = Len(HistoryIn(commits)) + 1
      /\ Len(HistoryIn(commits)) = Len(commits)
      /\ HistoryIn(commits')[Len(HistoryIn(commits)) + 1] = e
      /\ HistoryIn(commits') = Append(HistoryIn(commits), e)
  <2>1. new \in [tree : Tree, parent : Nat] /\ commits' = Append(commits, new)
    BY <1>1
  <2>2. ASSUME NEW n \in [tree : Tree, parent : Nat], commits' = Append(commits, n)
        PROVE  /\ Len(HistoryIn(commits')) = Len(HistoryIn(commits)) + 1
               /\ Len(HistoryIn(commits)) = Len(commits)
               /\ HistoryIn(commits')[Len(HistoryIn(commits)) + 1] = Shows(n)
               /\ HistoryIn(commits') = Append(HistoryIn(commits), Shows(n))
    <3>. PICK g : g = commits'
      OBVIOUS
    <3>1. g = Append(commits, n) /\ commits \in Seq([tree : Tree, parent : Nat])
      BY <1>1, <2>2
    <3>2. /\ Len(HistoryIn(g)) = Len(HistoryIn(commits)) + 1
          /\ Len(HistoryIn(commits)) = Len(commits)
          /\ HistoryIn(g)[Len(HistoryIn(commits)) + 1] = Shows(n)
          /\ HistoryIn(g) = Append(HistoryIn(commits), Shows(n))
      BY <3>1, HistoryGrows, Zenon
    <3>. QED
      BY <3>2
  <2>. HIDE DEF new
  <2>. QED
    BY <2>1, <2>2
<1>2. /\ Len(History') = Len(History) + 1 /\ Len(History) = Len(commits)
      /\ NewEntry = e
      /\ History' = Append(History, e)
  BY <1>6, <1>7 DEF NewEntry
<1>3. e.parent = refs[b]
  BY DEF Shows
<1>. HIDE DEF e
<1>4. Promise!CommitOn(b)
  BY <1>2, <1>3 DEF Promise!CommitOn, Promise!NewCommit, History, NewEntry
<1>5. \A c \in Commit : History[c].src = TreeOf(c).src
                        /\ \A d \in Doc : History[c].told[d] = TextOf(TreeOf(c).doc[d])
  BY DEF History
<1>. QED
  BY <1>2, <1>4, <1>5 DEF e

(* Start begins a run at HEAD.                                             *)
LEMMA StartBegins == IInv /\ Start => Promise!Next
<1>. SUFFICES ASSUME IInv, Start PROVE Promise!Next
  OBVIOUS
<1>1. /\ UNCHANGED << commits, refs >> /\ started' = refs[head] /\ head \in Branch
      /\ refs[head] # 0
  BY DEF Start, repoVars, HeadCommit, IInv, TypeOK, RepoTypeOK
<1>2. Promise!Begin(head)
  BY <1>1 DEF Promise!Begin, Commit, TreeOf
<1>. QED
  BY <1>1, <1>2 DEF Promise!Next

(* Developers do not write documentation.                                  *)
LEMMA DevelopersDevelop ==
    ASSUME IInv, AgeInv, VersionsOK, NEW s \in Src, DevCommit(s), UNCHANGED runVars
    PROVE  Promise!Next
<1>. PICK b \in Branch : b = head
  BY DEF IInv, TypeOK, RepoTypeOK
<1>. DEFINE tree == [HeadTree EXCEPT !.src[s] = edits + 2]
<1>1. /\ RepoTypeOK /\ HeadCommit \in Commit /\ HeadTree \in Tree /\ edits \in Nat
      /\ refs[b] # 0 /\ HeadCommit = refs[b]
  BY HeadIsCommit, RepositoryAssumption DEF IInv, TypeOK, RepoTypeOK, HeadCommit
<1>2. /\ commits' = Append(commits, [tree |-> tree, parent |-> refs[b]])
      /\ refs' = [refs EXCEPT ![b] = Len(commits) + 1] /\ started' = started
  BY DEF DevCommit, AppendCommit, runVars, settings, HeadCommit
<1>3. /\ tree \in Tree /\ tree.doc = HeadTree.doc
      /\ \A f \in Src : tree.src[f] >= HeadTree.src[f]
  <2>1. tree \in Tree /\ tree.doc = HeadTree.doc
    BY <1>1, NewVersionType, NewVersionDocs DEF SameDocs
  <2>2. \A f \in Src : HeadTree.src[f] <= edits + 1 /\ HeadTree.src[f] \in Nat
    BY <1>1 DEF VersionsOK, HeadTree, Tree
  <2>. QED
    BY <1>1, <2>1, <2>2 DEF Tree
<1>. HIDE DEF tree
<1>4. /\ Promise!CommitOn(b)
      /\ NewEntry = Shows([tree |-> tree, parent |-> refs[b]])
      /\ Len(History) = Len(commits)
  BY <1>1, <1>2, <1>3, SeenCommit
<1>5. /\ NewEntry.told = History[refs[b]].told
      /\ \A f \in Src : NewEntry.src[f] >= History[refs[b]].src[f]
  BY <1>1, <1>3, <1>4 DEF Shows, History, HeadTree
<1>6. Promise!Advance(b)
  BY <1>2, <1>4 DEF Promise!Advance, History
<1>7. Promise!Develop(b)
  BY <1>5, <1>6 DEF Promise!Develop, Promise!NewCommit, History, NewEntry
<1>. QED
  BY <1>1, <1>7 DEF Promise!Next

(* The branch of a run.                                                    *)
LEMMA CreateRefCreates == IInv /\ CreateRef => Promise!Next
<1>. SUFFICES ASSUME IInv, CreateRef PROVE Promise!Next
  OBVIOUS
<1>1. /\ UNCHANGED << commits, started >> /\ refs' = [refs EXCEPT ![branch] = base]
      /\ branch \in Branch /\ refs[branch] = 0 /\ base \in 1 .. Len(commits)
  BY DEF CreateRef, settings, IInv, TypeOK, RunTypeOK, ControlOK, Commit
<1>2. Len(History) = Len(commits)
  BY HistoryHere, HistoryType DEF IInv, TypeOK, RepoTypeOK
<1>3. \E c \in 1 .. Len(History) : refs' = [refs EXCEPT ![branch] = c]
  BY <1>1, <1>2
<1>4. Promise!CreateBranch(branch)
  BY <1>1, <1>3 DEF Promise!CreateBranch, History, Commit, TreeOf
<1>. QED
  BY <1>1, <1>4 DEF Promise!Next

(* The commit of a run: the pages of the plan tell what the sources are.   *)
LEMMA CommitDocuments ==
    ASSUME IInv, AgeInv, RunExact, CommitInv, SourceInv, CommitIndex, index # HeadTree
    PROVE  Promise!Next
<1>. PICK b \in Branch : b = head
  BY DEF IInv, TypeOK, RepoTypeOK
<1>1. /\ pc = "commit" /\ UNCHANGED started
      /\ commits' = Append(commits, [tree |-> index, parent |-> refs[b]])
      /\ refs' = [refs EXCEPT ![b] = Len(commits) + 1]
  BY RunCommits DEF HeadCommit
<1>2. /\ RepoTypeOK /\ RunTypeOK /\ HeadCommit \in Commit /\ HeadTree \in Tree /\ index \in Tree
      /\ refs[b] # 0 /\ HeadCommit = refs[b] /\ b # Main
      /\ started \in Commit
  BY <1>1, HeadIsCommit
  DEF IInv, TypeOK, RepoTypeOK, HeadCommit, CommitInv, Decided
<1>3. /\ Promise!CommitOn(b)
      /\ NewEntry = Shows([tree |-> index, parent |-> refs[b]])
      /\ Len(History) = Len(commits)
  BY <1>1, <1>2, SeenCommit
<1>4. /\ NewEntry.src = index.src
      /\ \A d \in Doc : NewEntry.told[d] = TextOf(index.doc[d])
  BY <1>3 DEF Shows
<1>5. /\ History[refs[b]].src = HeadTree.src
      /\ \A d \in Doc : History[refs[b]].told[d] = TextOf(HeadTree.doc[d])
      /\ History[started].src = TreeOf(started).src
  BY <1>2 DEF History, HeadTree
<1>6. /\ index.src = HeadTree.src
      /\ \A d \in Doc : index.doc[d] = IF d \in PlannedDocs THEN worktree.doc[d]
                                                            ELSE HeadTree.doc[d]
  BY <1>1, <1>2 DEF CommitInv, IndexOK, Staged, Tree
<1>7. ASSUME NEW d \in Doc, TextOf(index.doc[d]) # TextOf(HeadTree.doc[d]), NEW s \in CoversOf(d)
      PROVE  /\ TextOf(index.doc[d])[s] >= TreeOf(started).src[s]
             /\ TextOf(index.doc[d])[s] <= index.src[s]
  <2>1. d \in PlannedDocs
    BY <1>6, <1>7
  <2>2. PICK i \in Bodies : plan[i].doc = d /\ Latest(i, Bodies)
    BY <1>2, <2>1, LatestEntry
  <2>3. worktree.doc[d] = PageOf(plan[i])
    BY <1>1, <2>2 DEF CommitInv, DiskOK, OnDisk, Complete
  <2>4. TextOf(index.doc[d]) = plan[i].text
    BY <1>2, <1>6, <2>1, <2>3, PlannedText
  <2>5. s \in Src
    BY ManifestEntry DEF CoversOf
  <2>6. TreeOf(started).src[s] <= plan[i].text[s] /\ plan[i].text[s] <= HeadTree.src[s]
    BY <1>1, <2>2, <2>5, PlannedTells DEF BeforeCommit, Phases
  <2>7. plan[i].text[s] \in Nat /\ TreeOf(started).src[s] \in Nat
    <3>1. plan[i] \in Entry /\ plan[i].text # Nil
      BY <1>2, PlanEntry DEF Bodies
    <3>2. TreeOf(started) \in Tree
      BY <1>2, CommittedTree
    <3>. QED
      BY <2>5, <3>1, <3>2 DEF Entry, Text, Tree
  <2>. QED
    BY <1>6, <2>4, <2>6, <2>7
<1>8. \A d \in Doc : NewEntry.told[d] # History[refs[b]].told[d] =>
        \A s \in CoversOf(d) : /\ NewEntry.told[d][s] >= History[started].src[s]
                               /\ NewEntry.told[d][s] <= NewEntry.src[s]
  BY <1>4, <1>5, <1>7
<1>9. Promise!Advance(b)
  BY <1>1, <1>3 DEF Promise!Advance, History
<1>10. NewEntry.src = History[refs[b]].src
  BY <1>4, <1>5, <1>6
<1>11. Promise!Document(b)
  BY <1>2, <1>8, <1>9, <1>10 DEF Promise!Document, Promise!NewCommit, History, NewEntry
<1>. QED
  BY <1>2, <1>11 DEF Promise!Next

(* The operator deletes branches and merges them.                          *)
LEMMA OperatorDeletesAndMerges ==
    ASSUME IInv, HistoryOK, AncestryOK, Operator
    PROVE  Promise!Next \/ UNCHANGED Promise!promiseVars
<1>1. PICK b \in Branch : \/ ForceCheckout(b) \/ SwitchBranch(b)
                          \/ DeleteBranch(b) \/ MergeBranch(b)
  BY DEF Operator
<1>2. started' = started /\ RepoTypeOK
  BY DEF Operator, runVars, settings, IInv, TypeOK
<1>3. CASE ForceCheckout(b) \/ SwitchBranch(b)
  BY <1>2, <1>3, UnseenStep DEF ForceCheckout, SwitchBranch
<1>4. CASE DeleteBranch(b)
  <2>1. /\ UNCHANGED commits /\ b # Main /\ refs' = [refs EXCEPT ![b] = 0]
    BY <1>4 DEF DeleteBranch
  <2>2. Promise!DeleteBranch(b)
    BY <1>2, <2>1 DEF Promise!DeleteBranch, Commit, TreeOf
  <2>. QED
    BY <2>2 DEF Promise!Next
<1>5. CASE MergeBranch(b)
  <2>. DEFINE merged == Merged(refs[b], refs[Main])
  <2>1. /\ commits' = Append(commits, [tree |-> merged, parent |-> refs[Main]])
        /\ refs' = [refs EXCEPT ![Main] = Len(commits) + 1, ![b] = 0]
        /\ b # Main /\ refs[b] # 0 /\ ~Conflict(refs[b], refs[Main])
    BY <1>5 DEF MergeBranch
  <2>2. /\ Main \in Branch /\ refs[Main] # 0
        /\ refs[Main] \in Commit /\ TreeOf(refs[Main]) \in Tree
        /\ refs[b] \in Commit /\ TreeOf(refs[b]) \in Tree
    BY <1>2, <2>1, BranchCommit, RepositoryAssumption DEF RepoTypeOK
  <2>3. /\ merged \in Tree /\ Mixes(merged, TreeOf(refs[b]), TreeOf(refs[Main]))
        /\ \A s \in Src : /\ merged.src[s] \in {TreeOf(refs[x]).src[s] : x \in {b, Main}}
                           /\ \A x \in {b, Main} : TreeOf(refs[x]).src[s] <= merged.src[s]
    <3>1. merged \in Tree
      BY <2>2, TakeChangesType DEF Merged
    <3>2. Mixes(merged, TreeOf(refs[b]), TreeOf(refs[Main]))
      BY <2>2, TakeChangesMixes DEF Merged
    <3>3. ASSUME NEW s \in Src
          PROVE  /\ merged.src[s] \in {TreeOf(refs[b]).src[s], TreeOf(refs[Main]).src[s]}
                 /\ TreeOf(refs[b]).src[s] <= merged.src[s]
                 /\ TreeOf(refs[Main]).src[s] <= merged.src[s]
      BY <1>2, <2>1, <2>2, MergedSources
    <3>. QED
      BY <3>1, <3>2, <3>3
  <2>. HIDE DEF merged
  <2>4. /\ Promise!CommitOn(Main)
        /\ NewEntry = Shows([tree |-> merged, parent |-> refs[Main]])
        /\ Len(History) = Len(commits)
    BY <1>2, <2>1, <2>2, <2>3, SeenCommit
  <2>5. /\ \A s \in Src :
             /\ NewEntry.src[s] \in {History[refs[x]].src[s] : x \in {b, Main}}
             /\ \A x \in {b, Main} : NewEntry.src[s] >= History[refs[x]].src[s]
        /\ \A d \in Doc : NewEntry.told[d] \in {History[refs[x]].told[d] : x \in {b, Main}}
    <3>1. /\ NewEntry.src = merged.src
          /\ \A d \in Doc : NewEntry.told[d] = TextOf(merged.doc[d])
      BY <2>4 DEF Shows
    <3>2. /\ \A x \in {b, Main} : History[refs[x]].src = TreeOf(refs[x]).src
          /\ \A d \in Doc : /\ History[refs[Main]].told[d] = TextOf(TreeOf(refs[Main]).doc[d])
                            /\ History[refs[b]].told[d] = TextOf(TreeOf(refs[b]).doc[d])
      BY <2>2 DEF History
    <3>3. \A d \in Doc : merged.doc[d] \in {TreeOf(refs[Main]).doc[d], TreeOf(refs[b]).doc[d]}
      BY <2>3 DEF Mixes
    <3>4. \A s \in Src, x \in {b, Main} : /\ merged.src[s] \in Nat
                                           /\ TreeOf(refs[x]).src[s] \in Nat
      BY <2>2, <2>3 DEF Tree
    <3>5. \A s \in Src :
            /\ NewEntry.src[s] \in {History[refs[x]].src[s] : x \in {b, Main}}
            /\ \A x \in {b, Main} : NewEntry.src[s] >= History[refs[x]].src[s]
      BY <2>3, <3>1, <3>2, <3>4
    <3>. QED
      BY <3>1, <3>2, <3>3, <3>5
  <2>6. refs' = [refs EXCEPT ![Main] = Len(History) + 1, ![b] = 0]
    BY <2>1, <2>4
  <2>7. Promise!Merge(b)
    BY <1>2, <2>1, <2>4, <2>5, <2>6 DEF Promise!Merge, Promise!NewCommit, History, NewEntry
  <2>. QED
    BY <2>7 DEF Promise!Next
<1>. QED
  BY <1>1, <1>3, <1>4, <1>5

(* The branch is at the commit it was created at, where nobody has put     *)
(* another one on top of it.                                               *)
LEMMA ResetIndexUnseen ==
    ASSUME "resetIndex" \in CommitFree, IInv, CommitInv, ResetIndex
    PROVE  UNCHANGED Promise!promiseVars
<1>1. /\ UNCHANGED << commits, started >> /\ refs' = [refs EXCEPT ![head] = base]
      /\ refs[head] = base
  BY DEF ResetIndex, settings, CommitInv, Decided, HeadCommit
<1>2. refs \in [Branch -> 0 .. Len(commits)]
  BY DEF IInv, TypeOK, RepoTypeOK
<1>3. refs' = refs
  BY <1>1, <1>2
<1>. QED
  BY <1>1, <1>3, UnseenStep

(* Every other step of a run leaves the history and the branches alone.    *)
LEMMA OtherStepsUnseen ==
    ASSUME Next \/ UNCHANGED vars, ~Start, ~CreateRef, ~ResetIndex,
           ~(CommitIndex /\ index # HeadTree),
           ~(\E s \in Src : DevCommit(s) /\ UNCHANGED runVars), ~Operator
    PROVE  UNCHANGED Promise!promiseVars
<1>1. CASE AssembleStep \/ Done \/ ChangeMode \/ UNCHANGED vars
  BY <1>1, UnseenStep
  DEF AssembleStep, ReadDoc, ComputeDiff, OverBudget, SkipEntry, ResolveHEAD, Generate, Done,
      ChangeMode, vars, runVars, repoVars, settings, Finish, FinishSkipping
<1>2. CASE Failure
  BY <1>2, UnseenStep DEF Failure, FailCleanly, FailTorn, FailStaging, repoVars, Finish,
                          FinishSkipping
<1>3. CASE Developer
  BY <1>3, UnseenStep DEF Developer, DevEdit, DevStage, runVars, settings
<1>4. CASE PlanNothing \/ PlanWrites \/ ResolveBranch \/ BranchExists \/ CheckoutRefused
             \/ CheckoutHead \/ ResetFiles
  BY <1>4, UnseenStep
  DEF PlanNothing, PlanWrites, ResolveBranch, BranchExists, CheckoutRefused, CheckoutHead,
      ResetFiles, repoVars, settings, Finish, FinishSkipping
<1>5. CASE WriteFile \/ WriteFileNoFrontmatter \/ SaveSidecar \/ StageFiles \/ CommitIndex
  BY <1>5, UnseenStep
  DEF WriteFile, WriteFileNoFrontmatter, SaveSidecar, StageFiles, CommitIndex, AfterWrite,
      settings, Finish, FinishSkipping
<1>. QED
  BY <1>1, <1>2, <1>3, <1>4, <1>5 DEF Next, LocalStep, ApplyStep, Environment

LEMMA InitPromise == Init => Promise!Init
<1>. SUFFICES ASSUME Init PROVE Promise!Init
  OBVIOUS
<1>1. PICK first \in FirstTrees : commits = << [tree |-> first, parent |-> 0] >>
  BY DEF Init, RepoInit
<1>2. /\ first.src \in [Src -> {0, 1}]
      /\ \A d \in Doc : TextOf(first.doc[d]) = [s \in Src |-> 0]
  BY <1>1 DEF FirstTrees, TextOf, NoText
<1>. DEFINE x == [src |-> first.src, told |-> [d \in Doc |-> [s \in Src |-> 0]], parent |-> 0]
<1>3. Len(commits) = 1 /\ commits[1] = [tree |-> first, parent |-> 0]
  BY <1>1
<1>4. [src |-> TreeOf(1).src, told |-> [d \in Doc |-> TextOf(TreeOf(1).doc[d])],
       parent |-> commits[1].parent] = x
  BY <1>2, <1>3 DEF TreeOf
<1>. HIDE DEF x
<1>5. History = [c \in 1 .. 1 |-> x]
  <2>1. Commit = {1} /\ 1 .. 1 = {1}
    BY <1>3 DEF Commit
  <2>. QED
    BY <1>4, <2>1 DEF History
<1>6. << x >> = [c \in 1 .. 1 |-> x]
  OBVIOUS
<1>7. History = << x >>
  BY <1>5, <1>6
<1>8. refs = [b \in Branch |-> IF b = Main THEN 1 ELSE 0] /\ started = 0
  BY DEF Init, RepoInit
<1>. QED
  BY <1>2, <1>7, <1>8 DEF Promise!Init, History, x

(* What every step shows.                                                  *)
LEMMA StepsImplement ==
    ASSUME "resetIndex" \in CommitFree, IInv, AgeInv, RunExact, CommitInv, SourceInv,
           AncestryOK, [Next]_vars
    PROVE  [Promise!Next]_Promise!promiseVars
<1>1. CASE \E s \in Src : DevCommit(s) /\ UNCHANGED runVars
  BY <1>1, DevelopersDevelop DEF SourceInv
<1>2. HistoryOK
  BY DEF AgeInv
<1>. QED
  BY <1>1, <1>2, StartBegins, CreateRefCreates, CommitDocuments, OperatorDeletesAndMerges,
     ResetIndexUnseen, OtherStepsUnseen

(* Seen from the history, runs document whole snapshots in whole commits on*)
(* branches that were free: given that nobody commits to the new branch    *)
(* before the checkout has set it to where it was created.                 *)
THEOREM RunsImplementTheDocumentation ==
    ASSUME SettledRun, Undisturbed, "resetIndex" \in CommitFree
    PROVE  Spec => ImplementsDocumentation
<1>. DEFINE Inv == IInv /\ AgeInv /\ ExactInv /\ CommitInv /\ SourceInv /\ AncestryOK
<1>1. Init => Inv
  BY InitInv, InitAge, InitExact, InitCommit, InitSources, InitAncestry
<1>2. Inv /\ [Next]_vars => Inv'
  <2>. SUFFICES ASSUME Inv, [Next]_vars PROVE Inv'
    OBVIOUS
  <2>1. IInv'
    BY NextInv
  <2>2. AgeInv' /\ CommitInv'
    BY <2>1, NextAge, NextCommit
  <2>3. ExactInv' /\ SourceInv' /\ AncestryOK'
    BY <2>1, NextExact, NextSources, NextAncestry
  <2>. QED
    BY <2>1, <2>2, <2>3
<1>3. Inv /\ [Next]_vars => [Promise!Next]_Promise!promiseVars
  BY StepsImplement DEF ExactInv
<1>. QED
  BY <1>1, <1>2, <1>3, InitPromise, PTL DEF Spec, ImplementsDocumentation, Promise!Spec

-----------------------------------------------------------------------------
(* The setting of a migration: the manifest moves the watermark of a       *)
(* document once at most, between its frontmatter and the one sidecar it is*)
(* ever given, which a run without a sidecar knows to look into.           *)
OneMigration ==
    /\ OneEntryEach /\ Tidy /\ "resolve" \in CommitFree /\ MaxModeChanges <= 1
    /\ \A m, n \in Modes, d \in Doc : m[d] # Nil /\ n[d] # Nil => m[d] = n[d]
    /\ \A m \in Modes, d \in Doc : m[d] # Nil =>
         /\ m[d] \in MigrationSidecars
         /\ \E i \in DOMAIN SidecarOrder : SidecarOrder[i] = m[d]

(* The newest watermark a tree holds for a document, NoMark if there is    *)
(* none.                                                                   *)
Newest(tree, d, m) ==
    /\ m = NoMark => MarksOf(tree, d) = {}
    /\ m # NoMark => m \in MarksOf(tree, d) /\ \A n \in MarksOf(tree, d) : n <= m

(* Where the watermarks are while a document migrates.  What stayed behind *)
(* in the sidecar is older than the frontmatter that replaced it; what     *)
(* stayed behind in the frontmatter is gone when the sidecar has a record. *)
Placed(md, tree, d) ==
    /\ \A w \in Sidecar : SidecarMark(tree, w, d) # NoMark => \E m \in Modes : m[d] = w
    /\ md[d] = Nil /\ FrontmatterOf(tree.doc[d]) # NoMark =>
         \A w \in Sidecar : SidecarMark(tree, w, d) <= FrontmatterOf(tree.doc[d])
    /\ md[d] # Nil =>
         FrontmatterOf(tree.doc[d]) = NoMark \/ SidecarMark(tree, md[d], d) = NoMark

(* The document says exactly what its newest watermark promises, and no    *)
(* less than what any of the others does.                                  *)
Told(h, tree, d) ==
    /\ \E m \in Nat : Newest(tree, d, m) /\ Tells(h, TextOf(tree.doc[d]), m, d)
    /\ \A n \in MarksOf(tree, d), s \in CoversOf(d) :
         Shown(h, n)[s] <= TextOf(tree.doc[d])[s]

DocOK(h, md, n, tree, d) ==
    /\ Placed(md, tree, d)
    /\ n = 0 => NoOtherMark(md, tree, d)
    /\ Told(h, tree, d)

DocsOK == \A c \in Commit, d \in Doc : DocOK(commits, mode, modeChanges, TreeOf(c), d)

(* Along the history a text only grows, and it grows with every new        *)
(* watermark: two commits of one history whose texts agree have the same   *)
(* watermarks.                                                             *)
SameDocument(t, u, d) ==
    /\ t.doc[d] = u.doc[d]
    /\ \A w \in Sidecar : SidecarMark(t, w, d) = SidecarMark(u, w, d)

Follows(t, u, d) ==
    LET old == TextOf(t.doc[d])
        new == TextOf(u.doc[d])
    IN  /\ \A s \in CoversOf(d) : old[s] <= new[s]
        /\ (\A s \in CoversOf(d) : old[s] = new[s]) => SameDocument(t, u, d)

AlongOK ==
    \A c \in Commit : \A a \in Ancestors(c) : \A d \in Doc : Follows(TreeOf(a), TreeOf(c), d)

(* No text is ahead of the sources of its commit.                          *)
Within(tree, d) == \A s \in CoversOf(d) : TextOf(tree.doc[d])[s] <= tree.src[s]

InSourcesOK == \A c \in Commit, d \in Doc : Within(TreeOf(c), d)

(* What the run read is what the commit it started from has, and what it   *)
(* plans to write differs from that.                                       *)
ReadOK ==
    pc \in {"diff", "resolve", "generate"} =>
        LET d == Manifest[cur].path
        IN  /\ asm.text = TextOf(TreeOf(started).doc[d])
            /\ Newest(TreeOf(started), d, asm.wm)

PlanNewer ==
    pc # "idle" => \A i \in Bodies : \E s \in CoversOf(plan[i].doc) :
        TextOf(TreeOf(started).doc[plan[i].doc])[s] # plan[i].text[s]

(* The inductive invariant of a migration.                                 *)
MovedInv ==
    /\ IInv /\ AgeInv /\ RunExact /\ CommitInv /\ SourceInv /\ AncestryOK /\ ProgressOK
    /\ DocsOK /\ AlongOK /\ InSourcesOK /\ ReadOK /\ PlanNewer

-----------------------------------------------------------------------------
(* The watermarks of a document: its frontmatter and its records.          *)
LEMMA MarksHere ==
    ASSUME NEW tree, NEW d
    PROVE  MarksOf(tree, d) = ({FrontmatterOf(tree.doc[d])} \cup
                                 {SidecarMark(tree, w, d) : w \in Sidecar}) \ {NoMark}
BY DEF MarksOf, SidecarMark

(* There is one newest watermark.                                          *)
LEMMA NewestIsOne ==
    ASSUME NEW tree, NEW d, NEW m \in Nat, NEW n \in Nat, Newest(tree, d, m), Newest(tree, d, n)
    PROVE  m = n
BY DEF Newest

(* Watermarks are numbers, and none of them is NoMark.                     *)
LEMMA MarkIsNumber ==
    ASSUME NEW tree \in Tree, NEW d \in Doc, NEW m \in MarksOf(tree, d)
    PROVE  m \in Nat /\ m # NoMark
BY MarkTypes, MarksHere

(* A document of two trees is as good in the one as in the other.          *)
LEMMA SameDocOK ==
    ASSUME NEW h, NEW md, NEW n, NEW t, NEW u, NEW d, SameDocument(t, u, d),
           md[d] \in Sidecar \cup {Nil}, DocOK(h, md, n, u, d)
    PROVE  DocOK(h, md, n, t, d)
<1>1. /\ t.doc[d] = u.doc[d]
      /\ \A w \in Sidecar : SidecarMark(t, w, d) = SidecarMark(u, w, d)
  BY DEF SameDocument
<1>2. MarksOf(t, d) = MarksOf(u, d)
  BY <1>1, MarksHere
<1>3. Placed(md, t, d)
  BY <1>1 DEF DocOK, Placed
<1>4. n = 0 => NoOtherMark(md, t, d)
  BY <1>1 DEF DocOK, NoOtherMark
<1>5. Told(h, t, d)
  BY <1>1, <1>2 DEF DocOK, Told, Newest
<1>. QED
  BY <1>3, <1>4, <1>5 DEF DocOK

(* Trees with the same documentation have the same documents.              *)
LEMMA SameDocsDocument ==
    ASSUME NEW t, NEW u, SameDocs(t, u), NEW d
    PROVE  SameDocument(t, u, d)
BY DEF SameDocs, SameDocument, SidecarMark

(* A document stays as good as it is while the history grows.              *)
LEMMA DocLater ==
    ASSUME NEW h, NEW g, NEW n \in Nat, SameTrees(h, g, n), NEW md, NEW k0,
           NEW tree \in Tree, MarksBefore(tree, n + 1), NEW d \in Doc,
           DocOK(h, md, k0, tree, d)
    PROVE  DocOK(g, md, k0, tree, d)
<1>1. \A m \in MarksOf(tree, d) : m \in Nat /\ m <= n
  BY MarkTypes, MarksHere DEF MarksBefore
<1>2. PICK m \in Nat : Newest(tree, d, m) /\ Tells(h, TextOf(tree.doc[d]), m, d)
  BY DEF DocOK, Told
<1>3. m <= n
  BY <1>1, <1>2 DEF Newest, NoMark
<1>4. Tells(g, TextOf(tree.doc[d]), m, d)
  BY <1>2, <1>3, TellsLater
<1>5. ASSUME NEW j \in MarksOf(tree, d), NEW s \in CoversOf(d)
      PROVE  Shown(g, j)[s] <= TextOf(tree.doc[d])[s]
  <2>1. Shown(g, j) = Shown(h, j)
    BY <1>1, ShownLater
  <2>. QED
    BY <2>1 DEF DocOK, Told
<1>. QED
  BY <1>2, <1>4, <1>5 DEF DocOK, Told

(* What a document covers are source files.                                *)
LEMMA CoversAreSources == \A d : CoversOf(d) \subseteq Src
BY ManifestEntry DEF CoversOf

(* What a document covers has a version, in its text and in the tree.      *)
LEMMA TextNumber ==
    ASSUME NEW tree \in Tree, NEW d \in Doc, NEW s \in CoversOf(d)
    PROVE  TextOf(tree.doc[d])[s] \in Nat /\ s \in Src /\ tree.src[s] \in Nat
BY TextOfType, CoversAreSources DEF Text, Tree

(* Trees with the same document tell the same.                             *)
LEMMA FollowsSame ==
    ASSUME NEW t \in Tree, NEW u \in Tree, NEW d \in Doc, SameDocument(t, u, d)
    PROVE  Follows(t, u, d)
BY TextNumber DEF Follows, SameDocument

(* A text that is ahead of a second one is ahead of what that is ahead of. *)
LEMMA FollowsTransitive ==
    ASSUME NEW t \in Tree, NEW u \in Tree, NEW v \in Tree, NEW d \in Doc,
           Follows(t, u, d), Follows(u, v, d)
    PROVE  Follows(t, v, d)
<1>1. \A s \in CoversOf(d) : /\ TextOf(t.doc[d])[s] \in Nat /\ TextOf(u.doc[d])[s] \in Nat
                             /\ TextOf(v.doc[d])[s] \in Nat
  BY TextNumber
<1>2. \A s \in CoversOf(d) : TextOf(t.doc[d])[s] <= TextOf(u.doc[d])[s]
                             /\ TextOf(u.doc[d])[s] <= TextOf(v.doc[d])[s]
  BY DEF Follows
<1>3. ASSUME \A s \in CoversOf(d) : TextOf(t.doc[d])[s] = TextOf(v.doc[d])[s]
      PROVE  SameDocument(t, v, d)
  <2>1. \A s \in CoversOf(d) : TextOf(t.doc[d])[s] = TextOf(u.doc[d])[s]
                               /\ TextOf(u.doc[d])[s] = TextOf(v.doc[d])[s]
    BY <1>1, <1>2, <1>3
  <2>2. SameDocument(t, u, d) /\ SameDocument(u, v, d)
    BY <2>1 DEF Follows
  <2>. QED
    BY <2>2 DEF SameDocument
<1>4. \A s \in CoversOf(d) : TextOf(t.doc[d])[s] <= TextOf(v.doc[d])[s]
  BY <1>1, <1>2
<1>. QED
  BY <1>3, <1>4 DEF Follows

-----------------------------------------------------------------------------
(* readWatermarkForDoc, in either mode, finds the newest watermark.        *)
LEMMA ReadsNewest ==
    ASSUME OneMigration, RunTypeOK, mode \in Modes, NEW disk \in Tree, NEW d \in Doc,
           NEW n, MarksBefore(disk, n), Placed(mode, disk, d)
    PROVE  Newest(disk, d, ReadWatermark(disk, d))
<1>. DEFINE front == FrontmatterOf(disk.doc[d])
            mark(w) == SidecarMark(disk, w, d)
<1>1. /\ front \in Nat /\ \A w \in Sidecar : mark(w) \in Nat
      /\ \A w \in Sidecar : HasRecord(Load(disk.side[w]), d) <=> mark(w) # NoMark
      /\ \A w \in Sidecar : mark(w) = Lookup(Load(disk.side[w]), d)
  BY MarkTypes DEF MarksBefore, SidecarMark, Lookup
<1>2. MarksOf(disk, d) = ({front} \cup {mark(w) : w \in Sidecar}) \ {NoMark}
  BY MarksHere
<1>3. \A v, w \in Sidecar : mark(v) # NoMark /\ mark(w) # NoMark => v = w
  BY RepositoryAssumption DEF OneMigration, Placed
<1>4. \A w \in Sidecar : mark(w) # NoMark /\ mode[d] # Nil => mode[d] = w
  BY RepositoryAssumption DEF OneMigration, Placed
<1>5. CASE mode[d] # Nil
  <2>1. mode[d] \in Sidecar
    BY <1>5 DEF RunTypeOK
  <2>2. CASE mark(mode[d]) # NoMark
    <3>1. front = NoMark /\ ReadWatermark(disk, d) = mark(mode[d])
      BY <1>1, <1>5, <2>1, <2>2 DEF Placed, ReadWatermark
    <3>2. MarksOf(disk, d) = {mark(mode[d])}
      BY <1>2, <1>4, <1>5, <2>1, <2>2, <3>1
    <3>. QED
      BY <1>1, <2>1, <2>2, <3>1, <3>2 DEF Newest
  <2>3. CASE mark(mode[d]) = NoMark
    <3>1. ReadWatermark(disk, d) = front
      BY <1>1, <1>5, <2>1, <2>3 DEF ReadWatermark
    <3>2. MarksOf(disk, d) = {front} \ {NoMark}
      BY <1>2, <1>4, <1>5, <2>1, <2>3
    <3>. QED
      BY <1>1, <3>1, <3>2 DEF Newest
  <2>. QED
    BY <2>2, <2>3
<1>6. CASE mode[d] = Nil
  <2>. DEFINE known == {i \in DOMAIN SidecarOrder :
                          /\ SidecarOrder[i] \in Migration
                          /\ HasRecord(Load(disk.side[SidecarOrder[i]]), d)}
              first == CHOOSE i \in known : \A j \in known : i <= j
  <2>1. ReadWatermark(disk, d) =
          IF front # NoMark \/ known = {}
          THEN front
          ELSE Lookup(Load(disk.side[SidecarOrder[first]]), d)
    BY <1>6, Zenon DEF ReadWatermark
  <2>2. CASE front # NoMark
    <3>1. \A w \in Sidecar : mark(w) <= front
      BY <1>6, <2>2 DEF Placed
    <3>2. front \in MarksOf(disk, d) /\ \A m \in MarksOf(disk, d) : m <= front
      BY <1>1, <1>2, <2>2, <3>1
    <3>. QED
      BY <2>1, <2>2, <3>2 DEF Newest
  <2>3. CASE front = NoMark /\ known = {}
    <3>1. ASSUME NEW w \in Sidecar, mark(w) # NoMark PROVE FALSE
      <4>1. PICK m \in Modes : m[d] = w
        BY <3>1 DEF Placed
      <4>2. w \in MigrationSidecars /\ \E i \in DOMAIN SidecarOrder : SidecarOrder[i] = w
        BY <4>1, RepositoryAssumption DEF OneMigration
      <4>3. w \in Migration
        BY <4>2 DEF Migration
      <4>4. HasRecord(Load(disk.side[w]), d)
        BY <1>1, <3>1
      <4>. QED
        BY <2>3, <4>2, <4>3, <4>4
    <3>2. MarksOf(disk, d) = {}
      BY <1>2, <2>3, <3>1
    <3>. QED
      BY <2>1, <2>3, <3>2 DEF Newest
  <2>4. CASE front = NoMark /\ known # {}
    <3>1. SidecarOrder \in Seq(Sidecar)
      BY LocalRunAssumption
    <3>2. known \subseteq Nat
      BY <3>1
    <3>3. \E m \in known : \A j \in known : m <= j
      BY <2>4, <3>2, LeastPosition
    <3>4. first \in known
      BY <3>3
    <3>5. PICK w \in Sidecar : w = SidecarOrder[first]
      <4>1. first \in 1 .. Len(SidecarOrder)
        BY <3>1, <3>4
      <4>. QED
        BY <3>1, <4>1, ElementOfSeq
    <3>6. mark(w) # NoMark /\ ReadWatermark(disk, d) = mark(w)
      <4>1. HasRecord(Load(disk.side[w]), d)
        BY <3>4, <3>5
      <4>. HIDE DEF known, first
      <4>. QED
        BY <1>1, <2>1, <2>4, <3>5, <4>1
    <3>7. MarksOf(disk, d) = {mark(w)}
      BY <1>2, <1>3, <2>4, <3>6
    <3>. QED
      BY <1>1, <3>6, <3>7 DEF Newest
  <2>. QED
    BY <2>2, <2>3, <2>4
<1>. QED
  BY <1>5, <1>6

-----------------------------------------------------------------------------
(* A commit of good documents that follow those of its parent.             *)
LEMMA GrownDocs ==
    ASSUME RepoTypeOK, HistoryOK, DocsOK, AlongOK, InSourcesOK,
           UNCHANGED << mode, modeChanges >>, NEW tree \in Tree, NEW parent \in Commit,
           MarksBefore(tree, Len(commits) + 1),
           commits' = Append(commits, [tree |-> tree, parent |-> parent]),
           \A d \in Doc : /\ DocOK(commits, mode, modeChanges, tree, d)
                          /\ Within(tree, d)
                          /\ Follows(TreeOf(parent), tree, d)
    PROVE  DocsOK' /\ AlongOK' /\ InSourcesOK'
<1>1. /\ Len(commits) \in Nat
      /\ \A c \in Commit : Ancestors(c)' = Ancestors(c)
      /\ \A n : n = Len(commits') => Ancestors(n)' = {n} \cup Ancestors(parent)
  BY AppendKeepsHistory DEF HistoryOK
<1>2. /\ Commit' = Commit \cup {Len(commits')}
      /\ \A c \in Commit : TreeOf(c)' = TreeOf(c)
      /\ \A c : c = Len(commits') => TreeOf(c)' = tree
  BY GrownHistory
<1>3. \A c \in Commit : Ancestors(c) \subseteq Commit
  BY <1>1, AncestorsHere, AncestorsRange DEF HistoryOK, Commit
<1>4. SameTrees(commits, commits', Len(commits))
  BY <1>2, GrownTrees
<1>5. ASSUME NEW t \in Tree, MarksBefore(t, Len(commits) + 1), NEW d \in Doc,
             DocOK(commits, mode, modeChanges, t, d)
      PROVE  DocOK(commits', mode', modeChanges', t, d)
  BY <1>1, <1>4, <1>5, DocLater
<1>6. ASSUME NEW c \in Commit', NEW d \in Doc
      PROVE  /\ DocOK(commits', mode', modeChanges', TreeOf(c)', d)
             /\ Within(TreeOf(c)', d)
  <2>1. CASE c \in Commit
    <3>1. TreeOf(c) \in Tree /\ MarksBefore(TreeOf(c), Len(commits) + 1)
      BY <2>1, CommitMarks
    <3>2. DocOK(commits, mode, modeChanges, TreeOf(c), d) /\ Within(TreeOf(c), d)
      BY <2>1 DEF DocsOK, InSourcesOK
    <3>3. DocOK(commits', mode', modeChanges', TreeOf(c), d)
      BY <1>5, <3>1, <3>2
    <3>. QED
      BY <1>2, <2>1, <3>2, <3>3
  <2>2. CASE c = Len(commits')
    <3>1. DocOK(commits', mode', modeChanges', tree, d) /\ Within(tree, d)
      BY <1>5
    <3>. QED
      BY <1>2, <2>2, <3>1
  <2>. QED
    BY <1>2, <2>1, <2>2
<1>7. ASSUME NEW c \in Commit', NEW a \in Ancestors(c)', NEW d \in Doc
      PROVE  Follows(TreeOf(a)', TreeOf(c)', d)
  <2>1. CASE c \in Commit
    <3>1. a \in Ancestors(c) /\ a \in Commit
      BY <1>1, <1>3, <1>7, <2>1
    <3>2. Follows(TreeOf(a), TreeOf(c), d)
      BY <2>1, <3>1 DEF AlongOK
    <3>. QED
      BY <1>2, <2>1, <3>1, <3>2
  <2>2. CASE c = Len(commits')
    <3>1. TreeOf(c)' = tree
      BY <1>2, <2>2
    <3>2. a = c \/ a \in Ancestors(parent)
      BY <1>1, <1>7, <2>2
    <3>3. CASE a = c
      <4>1. SameDocument(tree, tree, d)
        BY DEF SameDocument
      <4>. QED
        BY <3>1, <3>3, <4>1, FollowsSame
    <3>4. CASE a \in Ancestors(parent)
      <4>1. a \in Commit /\ TreeOf(a)' = TreeOf(a) /\ TreeOf(a) \in Tree /\ TreeOf(parent) \in Tree
        BY <1>2, <1>3, <3>4, CommittedTree
      <4>2. Follows(TreeOf(a), TreeOf(parent), d)
        BY <3>4 DEF AlongOK
      <4>3. Follows(TreeOf(a), tree, d)
        BY <4>1, <4>2, FollowsTransitive
      <4>. QED
        BY <3>1, <4>1, <4>3
    <3>. QED
      BY <3>2, <3>3, <3>4
  <2>. QED
    BY <1>2, <2>1, <2>2
<1>8. DocsOK'
  BY <1>6 DEF DocsOK
<1>9. InSourcesOK'
  BY <1>6 DEF InSourcesOK
<1>10. AlongOK'
  BY <1>7 DEF AlongOK
<1>. QED
  BY <1>8, <1>9, <1>10

(* Without a commit, the history is as it was.                             *)
LEMMA SameHistoryDocs ==
    ASSUME DocsOK, AlongOK, InSourcesOK, UNCHANGED << commits, mode, modeChanges >>
    PROVE  DocsOK' /\ AlongOK' /\ InSourcesOK'
<1>1. Commit' = Commit /\ \A c : TreeOf(c)' = TreeOf(c)
  BY DEF Commit, TreeOf
<1>2. \A c : Ancestors(c)' = Ancestors(c)
  BY DEF Ancestors
<1>3. DocsOK'
  BY <1>1 DEF DocsOK
<1>4. AlongOK'
  BY <1>1, <1>2 DEF AlongOK
<1>5. InSourcesOK'
  BY <1>1 DEF InSourcesOK
<1>. QED
  BY <1>3, <1>4, <1>5

-----------------------------------------------------------------------------
(* A merge takes all of a document from one side: where it takes the page  *)
(* of one and the sidecar of the other, the other's text is that of the    *)
(* merge base, and so are its watermarks.                                  *)
LEMMA OneSideDocument ==
    ASSUME NEW d \in Doc, NEW t, NEW u, NEW f, NEW m,
           m.doc[d] = t.doc[d], SameDocument(f, u, d),
           \A w \in Sidecar : OneSided(m.side[w], t.side[w], u.side[w], f.side[w])
    PROVE  SameDocument(m, t, d)
<1>1. ASSUME NEW w \in Sidecar PROVE SidecarMark(m, w, d) = SidecarMark(t, w, d)
  <2>1. SidecarMark(f, w, d) = SidecarMark(u, w, d)
    BY DEF SameDocument
  <2>2. m.side[w] = t.side[w] \/ (m.side[w] = u.side[w] /\ t.side[w] = f.side[w])
    BY DEF OneSided
  <2>. QED
    BY <2>1, <2>2 DEF SidecarMark
<1>. QED
  BY <1>1 DEF SameDocument

(* The text of the merge base is not ahead of either side's.               *)
LEMMA BaseFollowed ==
    ASSUME NEW t \in Tree, NEW u \in Tree, NEW f \in Tree, NEW d \in Doc,
           Follows(f, t, d), Follows(f, u, d),
           u.doc[d] = f.doc[d], SameDocument(f, u, d), NEW m \in Tree, SameDocument(m, t, d)
    PROVE  Follows(u, m, d)
<1>1. SameDocument(u, f, d) /\ SameDocument(t, m, d)
  BY DEF SameDocument
<1>2. Follows(u, f, d) /\ Follows(t, m, d)
  BY <1>1, FollowsSame
<1>3. Follows(u, t, d)
  BY <1>2, FollowsTransitive
<1>. QED
  BY <1>2, <1>3, FollowsTransitive

(* A merge of good documents is good, and ahead of both its parents.       *)
LEMMA MergedDocument ==
    ASSUME RepoTypeOK, HistoryOK, DocsOK, AlongOK, mode \in [Doc -> Sidecar \cup {Nil}],
           NEW a \in Commit, NEW b \in Commit, ~Conflict(a, b), NEW d \in Doc
    PROVE  /\ \E c \in {a, b} : SameDocument(Merged(a, b), TreeOf(c), d)
           /\ DocOK(commits, mode, modeChanges, Merged(a, b), d)
           /\ Follows(TreeOf(b), Merged(a, b), d)
<1>. DEFINE c == MergeBase(a, b)
            m == Merged(a, b)
<1>1. c \in Commit /\ c \in Ancestors(a) /\ c \in Ancestors(b)
  BY MergeBaseIsCommit DEF HistoryOK, RepoTypeOK
<1>2. /\ OneSided(m.doc[d], TreeOf(a).doc[d], TreeOf(b).doc[d], TreeOf(c).doc[d])
      /\ \A w \in Sidecar :
           OneSided(m.side[w], TreeOf(a).side[w], TreeOf(b).side[w], TreeOf(c).side[w])
  BY MergedCommitSides
<1>3. TreeOf(a) \in Tree /\ TreeOf(b) \in Tree /\ TreeOf(c) \in Tree /\ m \in Tree
  BY <1>1, CommittedTree, MergedMarks
<1>. HIDE DEF c, m
<1>4. Follows(TreeOf(c), TreeOf(a), d) /\ Follows(TreeOf(c), TreeOf(b), d)
  BY <1>1 DEF AlongOK
<1>5. ASSUME m.doc[d] = TreeOf(a).doc[d], TreeOf(b).doc[d] = TreeOf(c).doc[d]
      PROVE  SameDocument(m, TreeOf(a), d) /\ Follows(TreeOf(b), m, d)
  <2>1. SameDocument(TreeOf(c), TreeOf(b), d)
    BY <1>4, <1>5 DEF Follows
  <2>2. SameDocument(m, TreeOf(a), d)
    BY <1>2, <1>5, <2>1, OneSideDocument
  <2>3. Follows(TreeOf(b), m, d)
    BY <1>3, <1>4, <1>5, <2>1, <2>2, BaseFollowed
  <2>. QED
    BY <2>2, <2>3
<1>6. ASSUME m.doc[d] = TreeOf(b).doc[d], TreeOf(a).doc[d] = TreeOf(c).doc[d]
      PROVE  SameDocument(m, TreeOf(b), d) /\ Follows(TreeOf(b), m, d)
  <2>1. SameDocument(TreeOf(c), TreeOf(a), d)
    BY <1>4, <1>6 DEF Follows
  <2>2. \A w \in Sidecar :
           OneSided(m.side[w], TreeOf(b).side[w], TreeOf(a).side[w], TreeOf(c).side[w])
    BY <1>2 DEF OneSided
  <2>3. SameDocument(m, TreeOf(b), d)
    BY <1>6, <2>1, <2>2, OneSideDocument
  <2>4. SameDocument(TreeOf(b), m, d)
    BY <2>3 DEF SameDocument
  <2>5. Follows(TreeOf(b), m, d)
    BY <1>3, <2>4, FollowsSame
  <2>. QED
    BY <2>3, <2>5
<1>7. /\ \E x \in {a, b} : SameDocument(m, TreeOf(x), d)
      /\ Follows(TreeOf(b), m, d)
  BY <1>2, <1>5, <1>6 DEF OneSided
<1>8. DocOK(commits, mode, modeChanges, m, d)
  <2>1. PICK x \in {a, b} : SameDocument(m, TreeOf(x), d)
    BY <1>7
  <2>2. DocOK(commits, mode, modeChanges, TreeOf(x), d)
    BY <2>1 DEF DocsOK
  <2>. QED
    BY <2>1, <2>2, SameDocOK
<1>. QED
  BY <1>7, <1>8 DEF m

(* MergeBranch: a merge commit, or a squash commit with the same tree.     *)
LEMMA MergeBranchDocs ==
    ASSUME IInv, AgeInv, AncestryOK, DocsOK, AlongOK, InSourcesOK,
           NEW b \in Branch, MergeBranch(b), UNCHANGED runVars
    PROVE  DocsOK' /\ AlongOK' /\ InSourcesOK'
<1>1. RepoTypeOK /\ HistoryOK /\ mode \in [Doc -> Sidecar \cup {Nil}]
  BY DEF IInv, TypeOK, RunTypeOK, AgeInv
<1>. DEFINE m == Merged(refs[b], refs[Main])
<1>2. /\ refs[b] \in Commit /\ refs[Main] \in Commit /\ ~Conflict(refs[b], refs[Main])
      /\ commits' = Append(commits, [tree |-> m, parent |-> refs[Main]])
  BY <1>1, BranchCommit, RepositoryAssumption DEF MergeBranch, RepoTypeOK
<1>3. m \in Tree /\ MarksBefore(m, Len(commits) + 1)
  BY <1>1, <1>2, MergedMarks
<1>4. /\ \A d \in Doc : \E c \in {refs[b], refs[Main]} : SameDocument(m, TreeOf(c), d)
      /\ \A d \in Doc : DocOK(commits, mode, modeChanges, m, d)
      /\ \A d \in Doc : Follows(TreeOf(refs[Main]), m, d)
  BY <1>1, <1>2, MergedDocument
<1>5. \A s \in Src : /\ TreeOf(refs[b]).src[s] <= m.src[s]
                     /\ TreeOf(refs[Main]).src[s] <= m.src[s]
  BY <1>1, <1>2, MergedSources
<1>6. UNCHANGED << mode, modeChanges >>
  BY DEF runVars, settings
<1>. HIDE DEF m
<1>7. ASSUME NEW d \in Doc PROVE Within(m, d)
  <2>1. PICK c \in {refs[b], refs[Main]} : SameDocument(m, TreeOf(c), d)
    BY <1>4
  <2>2. Within(TreeOf(c), d) /\ TreeOf(c) \in Tree /\ m.doc[d] = TreeOf(c).doc[d]
    BY <1>1, <1>2, <2>1, CommittedTree DEF InSourcesOK, SameDocument
  <2>3. ASSUME NEW s \in CoversOf(d) PROVE TextOf(m.doc[d])[s] <= m.src[s]
    <3>1. /\ TextOf(m.doc[d])[s] \in Nat /\ m.src[s] \in Nat /\ TreeOf(c).src[s] \in Nat
          /\ s \in Src
      BY <1>3, <2>2, TextNumber
    <3>2. TextOf(m.doc[d])[s] <= TreeOf(c).src[s] /\ TreeOf(c).src[s] <= m.src[s]
      BY <1>5, <2>1, <2>2, <3>1 DEF Within
    <3>. QED
      BY <3>1, <3>2
  <2>. QED
    BY <2>3 DEF Within
<1>. QED
  BY <1>1, <1>2, <1>3, <1>4, <1>6, <1>7, GrownDocs

(* DevCommit: the documents of the commit are those of its parent.         *)
LEMMA DevCommitDocs ==
    ASSUME IInv, AgeInv, SourceInv, DocsOK, AlongOK, InSourcesOK,
           NEW s \in Src, DevCommit(s), UNCHANGED runVars
    PROVE  DocsOK' /\ AlongOK' /\ InSourcesOK'
<1>1. /\ RepoTypeOK /\ HistoryOK /\ mode \in [Doc -> Sidecar \cup {Nil}]
      /\ HeadCommit \in Commit /\ HeadTree = TreeOf(HeadCommit) /\ HeadTree \in Tree
  BY HeadIsCommit DEF IInv, TypeOK, RunTypeOK, AgeInv, HeadTree
<1>. DEFINE tree == [HeadTree EXCEPT !.src[s] = edits + 2]
<1>2. commits' = Append(commits, [tree |-> tree, parent |-> HeadCommit])
  BY DEF DevCommit, AppendCommit
<1>3. tree \in Tree /\ \A f \in Src : HeadTree.src[f] <= tree.src[f]
  BY <1>1, DevelopedSources DEF SourceInv
<1>4. SameDocs(tree, HeadTree)
  BY <1>1, NewVersionDocs
<1>. HIDE DEF tree
<1>5. MarksBefore(tree, Len(commits) + 1)
  BY <1>1, <1>4, CommitMarks, MarksBeforeSame
<1>6. UNCHANGED << mode, modeChanges >>
  BY DEF runVars, settings
<1>7. ASSUME NEW d \in Doc
      PROVE  /\ DocOK(commits, mode, modeChanges, tree, d)
             /\ Within(tree, d)
             /\ Follows(TreeOf(HeadCommit), tree, d)
  <2>1. SameDocument(tree, HeadTree, d) /\ SameDocument(HeadTree, tree, d)
    BY <1>4, SameDocsDocument DEF SameDocument
  <2>2. DocOK(commits, mode, modeChanges, HeadTree, d) /\ Within(HeadTree, d)
    BY <1>1 DEF DocsOK, InSourcesOK
  <2>3. DocOK(commits, mode, modeChanges, tree, d)
    BY <1>1, <2>1, <2>2, SameDocOK
  <2>4. Follows(HeadTree, tree, d)
    BY <1>1, <1>3, <2>1, FollowsSame
  <2>5. ASSUME NEW f \in CoversOf(d) PROVE TextOf(tree.doc[d])[f] <= tree.src[f]
    <3>1. /\ TextOf(tree.doc[d])[f] \in Nat /\ tree.src[f] \in Nat /\ HeadTree.src[f] \in Nat
          /\ f \in Src
      BY <1>1, <1>3, TextNumber
    <3>2. TextOf(tree.doc[d])[f] <= HeadTree.src[f] /\ HeadTree.src[f] <= tree.src[f]
      BY <1>3, <2>1, <2>2, <3>1 DEF Within, SameDocument
    <3>. QED
      BY <3>1, <3>2
  <2>. QED
    BY <1>1, <2>3, <2>4, <2>5 DEF Within
<1>. QED
  BY <1>1, <1>2, <1>3, <1>5, <1>6, <1>7, GrownDocs

-----------------------------------------------------------------------------
(* Each document of a run's commit is that of HEAD or the one planned.     *)
LEMMA CommittedDocument ==
    ASSUME IInv, CommitInv, pc = "commit", NEW d \in Doc
    PROVE  \/ SameDocument(index, HeadTree, d)
           \/ \E i \in Bodies :
                /\ plan[i].doc = d /\ index.doc[d] = PageOf(plan[i])
                /\ \A w \in Sidecar :
                     SidecarMark(index, w, d) =
                         IF w = plan[i].side THEN plan[i].sha ELSE SidecarMark(HeadTree, w, d)
<1>. DEFINE last == CHOOSE i \in Bodies :
                        plan[i].doc = d /\ \A j \in Bodies : plan[j].doc = d => j <= i
<1>1. CommitHoldsPlan(index, HeadTree)
  BY StagedHoldsPlan
<1>2. CASE d \notin PlannedDocs
  <2>1. /\ index.doc[d] = HeadTree.doc[d]
        /\ \A w \in Sidecar : SidecarMark(index, w, d) = SidecarMark(HeadTree, w, d)
    BY <1>1, <1>2 DEF CommitHoldsPlan, SidecarMark
  <2>. QED
    BY <2>1 DEF SameDocument
<1>3. CASE d \in PlannedDocs
  <2>1. \E j \in Bodies : plan[j].doc = d /\ \A n \in Bodies : plan[n].doc = d => n <= j
    BY <1>3, LatestEntry DEF Latest, IInv, TypeOK
  <2>2. last \in Bodies /\ plan[last].doc = d
    BY <2>1
  <2>3. /\ index.doc[d] = PageOf(plan[last])
        /\ \A w \in Sidecar :
             SidecarMark(index, w, d) =
                 IF w = plan[last].side THEN plan[last].sha ELSE SidecarMark(HeadTree, w, d)
    BY <1>1, <1>3 DEF CommitHoldsPlan, SidecarMark, PageOf
  <2>. HIDE DEF last
  <2>. QED
    BY <2>2, <2>3
<1>. QED
  BY <1>2, <1>3

(* The one planned is good and follows HEAD's: its stamp is newer than any *)
(* watermark there was, its text tells more, and it is where the mode says.*)
LEMMA PlannedDocument ==
    ASSUME OneMigration, IInv, AgeInv, RunExact, CommitInv, SourceInv, pc \in BeforeCommit,
           DocsOK, InSourcesOK, PlanNewer,
           NEW i \in Bodies, NEW d \in Doc, plan[i].doc = d, NEW tree \in Tree,
           tree.src = HeadTree.src, tree.doc[d] = PageOf(plan[i]),
           \A w \in Sidecar :
             SidecarMark(tree, w, d) =
                 IF w = plan[i].side THEN plan[i].sha ELSE SidecarMark(HeadTree, w, d)
    PROVE  /\ DocOK(commits, mode, modeChanges, tree, d)
           /\ Within(tree, d)
           /\ Follows(HeadTree, tree, d)
<1>. DEFINE sha == plan[i].sha
            text == plan[i].text
            side == plan[i].side
<1>1. pc # "idle" /\ i \in DOMAIN plan /\ text # Nil
  BY DEF BeforeCommit, Phases, Bodies
<1>2. /\ plan[i] \in Entry /\ side = mode[d] /\ mode \in Modes
      /\ mode[d] \in Sidecar \cup {Nil} /\ Nil \notin Sidecar
      /\ sha \in Commit /\ started \in Commit /\ started <= sha
  BY <1>1, PlanEntry, RepositoryAssumption
  DEF IInv, TypeOK, RunTypeOK, CommitInv, Decided, AgeInv, MemoryOK
<1>3. sha \in Nat /\ sha # NoMark /\ started \in Nat
  BY <1>2 DEF Commit, NoMark
<1>4. /\ HeadCommit \in Commit /\ HeadTree = TreeOf(HeadCommit) /\ HeadTree \in Tree
      /\ SameDocs(HeadTree, TreeOf(started)) /\ TreeOf(started) \in Tree
  BY <1>2, HeadIsCommit, CommittedTree
  DEF IInv, TypeOK, AgeInv, StartOK, FromStart, HeadTree
<1>5. MarksBefore(HeadTree, started)
  BY <1>2, <1>4, MarksBeforeSame DEF AgeInv, HistoryOK
<1>6. DocOK(commits, mode, modeChanges, HeadTree, d)
  BY <1>4 DEF DocsOK
<1>. DEFINE old == TextOf(HeadTree.doc[d])
<1>7. old = TextOf(TreeOf(started).doc[d])
  BY <1>4 DEF SameDocs
<1>8. TextOf(tree.doc[d]) = text
  BY PlannedText DEF IInv, TypeOK
<1>9. ASSUME NEW s \in CoversOf(d)
      PROVE  /\ old[s] <= text[s] /\ text[s] <= tree.src[s]
             /\ old[s] \in Nat /\ text[s] \in Nat
  <2>1. /\ s \in Src /\ old[s] \in Nat /\ text[s] \in Nat
        /\ TreeOf(started).src[s] \in Nat
    BY <1>4, <1>8, TextNumber
  <2>2. TreeOf(started).src[s] <= text[s] /\ text[s] <= HeadTree.src[s]
    BY <1>1, <2>1, PlannedTells
  <2>3. old[s] <= TreeOf(started).src[s]
    BY <1>2, <1>7 DEF InSourcesOK, Within
  <2>. QED
    BY <2>1, <2>2, <2>3
<1>10. \E s \in CoversOf(d) : old[s] # text[s]
  BY <1>1, <1>7 DEF PlanNewer
<1>11. Within(tree, d)
  BY <1>8, <1>9 DEF Within
<1>12. Follows(HeadTree, tree, d)
  BY <1>8, <1>9, <1>10 DEF Follows
<1>13. /\ FrontmatterOf(HeadTree.doc[d]) \in Nat /\ FrontmatterOf(HeadTree.doc[d]) < started
       /\ \A w \in Sidecar : /\ SidecarMark(HeadTree, w, d) \in Nat
                             /\ SidecarMark(HeadTree, w, d) < started
  BY <1>4, <1>5, MarkTypes DEF MarksBefore
<1>14. FrontmatterOf(tree.doc[d]) = IF side = Nil THEN sha ELSE NoMark
  <2>1. PageOf(plan[i]) \in Page
    BY <1>1, <1>2 DEF PageOf, Page, Entry, Mark, NoMark
  <2>2. PageOf(plan[i]) # Nil
    BY <2>1, RepositoryAssumption DEF Page, Text
  <2>. QED
    BY <2>2 DEF FrontmatterOf, PageOf
<1>. HIDE DEF sha, text, side, old
<1>15. \A w \in Sidecar :
         SidecarMark(tree, w, d) = IF w = side THEN sha ELSE SidecarMark(HeadTree, w, d)
  BY DEF side, sha
<1>16. Placed(mode, HeadTree, d)
  BY <1>6 DEF DocOK
<1>17. Placed(mode, tree, d)
  <2>1. ASSUME NEW w \in Sidecar, SidecarMark(tree, w, d) # NoMark PROVE \E m \in Modes : m[d] = w
    BY <1>2, <1>15, <1>16, <2>1 DEF Placed
  <2>2. ASSUME mode[d] = Nil, NEW w \in Sidecar
        PROVE  SidecarMark(tree, w, d) <= FrontmatterOf(tree.doc[d])
    <3>1. SidecarMark(tree, w, d) = SidecarMark(HeadTree, w, d) /\ FrontmatterOf(tree.doc[d]) = sha
      BY <1>2, <1>14, <1>15, <2>2
    <3>. QED
      BY <1>2, <1>3, <1>13, <3>1
  <2>3. mode[d] # Nil => FrontmatterOf(tree.doc[d]) = NoMark
    BY <1>2, <1>14
  <2>. QED
    BY <2>1, <2>2, <2>3 DEF Placed
<1>18. modeChanges = 0 => NoOtherMark(mode, tree, d)
  BY <1>2, <1>6, <1>14, <1>15 DEF DocOK, NoOtherMark
<1>19. \A m \in MarksOf(tree, d) : m = sha \/ (m \in MarksOf(HeadTree, d) /\ m < started)
  <2>1. ASSUME NEW m \in MarksOf(tree, d)
        PROVE  m = sha \/ \E w \in Sidecar : m = SidecarMark(HeadTree, w, d)
    BY <1>14, <1>15, <2>1, MarksHere
  <2>2. \A w \in Sidecar, m \in MarksOf(tree, d) :
          m = SidecarMark(HeadTree, w, d) => m \in MarksOf(HeadTree, d)
    BY MarksHere
  <2>. QED
    BY <1>13, <2>1, <2>2
<1>20. sha \in MarksOf(tree, d)
  BY <1>2, <1>3, <1>14, <1>15, MarksHere
<1>21. Newest(tree, d, sha)
  <2>1. \A m \in MarksOf(tree, d) : m <= sha
    BY <1>2, <1>3, <1>19, <1>4, MarkIsNumber
  <2>. QED
    BY <1>3, <1>20, <2>1 DEF Newest
<1>22. Tells(commits, text, sha, d)
  BY <1>1 DEF RunExact, PlanExact, EntryExact, text, sha
<1>23. ASSUME NEW m \in MarksOf(tree, d), NEW s \in CoversOf(d)
       PROVE  Shown(commits, m)[s] <= text[s]
  <2>1. CASE m = sha
    BY <1>9, <1>22, <2>1 DEF Tells
  <2>2. CASE m \in MarksOf(HeadTree, d)
    <3>1. Shown(commits, m)[s] <= old[s]
      BY <1>6, <2>2 DEF DocOK, Told, old
    <3>2. Shown(commits, m)[s] \in Nat
      <4>1. m \in Nat /\ m # NoMark /\ m < started
        BY <1>4, <1>13, <2>2, MarkIsNumber, MarksHere
      <4>2. m \in Commit
        BY <1>2, <4>1 DEF Commit, NoMark, IInv, TypeOK, RepoTypeOK
      <4>3. TreeOf(m) \in Tree
        BY <4>2, CommittedTree DEF IInv, TypeOK
      <4>. QED
        BY <4>1, <4>3, TextNumber DEF Shown, TreeOf, Tree
    <3>. QED
      BY <1>9, <3>1, <3>2
  <2>. QED
    BY <1>19, <2>1, <2>2
<1>24. Told(commits, tree, d)
  BY <1>3, <1>8, <1>21, <1>22, <1>23 DEF Told
<1>. QED
  BY <1>11, <1>12, <1>17, <1>18, <1>24 DEF DocOK

(* commitGoGit and commitNative: the run's own commit.                     *)
LEMMA CommitIndexDocs ==
    ASSUME OneMigration, IInv, AgeInv, RunExact, CommitInv, SourceInv,
           DocsOK, AlongOK, InSourcesOK, PlanNewer, CommitIndex, index # HeadTree
    PROVE  DocsOK' /\ AlongOK' /\ InSourcesOK'
<1>1. /\ RepoTypeOK /\ HistoryOK /\ mode \in [Doc -> Sidecar \cup {Nil}]
      /\ HeadCommit \in Commit /\ HeadTree = TreeOf(HeadCommit)
  BY HeadIsCommit DEF IInv, TypeOK, RunTypeOK, AgeInv, HeadTree
<1>2. /\ pc = "commit" /\ commits' = Append(commits, [tree |-> index, parent |-> HeadCommit])
      /\ UNCHANGED << mode, modeChanges >>
  BY RunCommits DEF CommitIndex, settings
<1>3. index.src = HeadTree.src /\ index \in Tree /\ HeadTree \in Tree
  BY <1>2, CommittedSources
<1>4. MarksBefore(index, Len(commits) + 1)
  BY DEF AgeInv, FilesOK
<1>5. ASSUME NEW d \in Doc
      PROVE  /\ DocOK(commits, mode, modeChanges, index, d)
             /\ Within(index, d)
             /\ Follows(TreeOf(HeadCommit), index, d)
  <2>1. CASE SameDocument(index, HeadTree, d)
    <3>1. DocOK(commits, mode, modeChanges, HeadTree, d) /\ Within(HeadTree, d)
      BY <1>1 DEF DocsOK, InSourcesOK
    <3>2. DocOK(commits, mode, modeChanges, index, d)
      BY <1>1, <2>1, <3>1, SameDocOK
    <3>3. SameDocument(HeadTree, index, d)
      BY <2>1 DEF SameDocument
    <3>4. Follows(HeadTree, index, d)
      BY <1>3, <3>3, FollowsSame
    <3>5. Within(index, d)
      BY <1>3, <2>1, <3>1 DEF Within, SameDocument
    <3>. QED
      BY <1>1, <3>2, <3>4, <3>5
  <2>2. CASE \E i \in Bodies :
               /\ plan[i].doc = d /\ index.doc[d] = PageOf(plan[i])
               /\ \A w \in Sidecar :
                    SidecarMark(index, w, d) =
                        IF w = plan[i].side THEN plan[i].sha ELSE SidecarMark(HeadTree, w, d)
    <3>1. PICK i \in Bodies :
            /\ plan[i].doc = d /\ index.doc[d] = PageOf(plan[i])
            /\ \A w \in Sidecar :
                 SidecarMark(index, w, d) =
                     IF w = plan[i].side THEN plan[i].sha ELSE SidecarMark(HeadTree, w, d)
      BY <2>2
    <3>2. pc \in BeforeCommit
      BY <1>2 DEF BeforeCommit, Phases
    <3>. QED
      BY <1>1, <1>3, <3>1, <3>2, PlannedDocument
  <2>. QED
    BY <1>2, <2>1, <2>2, CommittedDocument
<1>. QED
  BY <1>1, <1>2, <1>3, <1>4, <1>5, GrownDocs

-----------------------------------------------------------------------------
(* The mode changes: until now every document had its watermark where the  *)
(* old mode says, and nowhere else.                                        *)
LEMMA ChangeModeDocs ==
    ASSUME OneMigration, IInv, DocsOK, AlongOK, InSourcesOK, ChangeMode
    PROVE  DocsOK' /\ AlongOK' /\ InSourcesOK'
<1>1. /\ modeChanges = 0 /\ modeChanges' = 1 /\ UNCHANGED commits /\ mode' \in Modes
  <2>1. modeChanges \in Nat /\ modeChanges < MaxModeChanges /\ MaxModeChanges <= 1
        /\ MaxModeChanges \in Nat
    BY LocalRunAssumption DEF ChangeMode, OneMigration, IInv, TypeOK, RunTypeOK
  <2>2. modeChanges = 0
    BY <2>1
  <2>. QED
    BY <2>2 DEF ChangeMode, repoVars
<1>2. mode' \in [Doc -> Sidecar \cup {Nil}] /\ mode \in [Doc -> Sidecar \cup {Nil}]
  BY <1>1, Settings DEF IInv, TypeOK, RunTypeOK
<1>3. Commit' = Commit /\ \A c : TreeOf(c)' = TreeOf(c) /\ Ancestors(c)' = Ancestors(c)
  <2>1. \A c : Ancestors(c)' = Ancestors(c)
    BY <1>1 DEF Ancestors
  <2>. QED
    BY <1>1, <2>1 DEF Commit, TreeOf
<1>4. ASSUME NEW c \in Commit, NEW d \in Doc
      PROVE  DocOK(commits, mode', 1, TreeOf(c), d)
  <2>. DEFINE tree == TreeOf(c)
  <2>1. DocOK(commits, mode, modeChanges, tree, d)
    BY DEF DocsOK
  <2>. HIDE DEF tree
  <2>2. NoOtherMark(mode, tree, d)
    BY <1>1, <2>1 DEF DocOK
  <2>3. tree \in Tree
    BY CommittedTree DEF tree, IInv, TypeOK
  <2>4. /\ FrontmatterOf(tree.doc[d]) \in Nat
        /\ mode[d] \in Sidecar \cup {Nil} /\ mode'[d] \in Sidecar \cup {Nil} /\ Nil \notin Sidecar
    BY <1>2, <2>3, MarkTypes, RepositoryAssumption
  <2>5. FrontmatterOf(tree.doc[d]) # NoMark =>
          \A w \in Sidecar : SidecarMark(tree, w, d) = NoMark
    BY <2>2, <2>4 DEF NoOtherMark
  <2>6. Placed(mode', tree, d)
    <3>1. \A w \in Sidecar : SidecarMark(tree, w, d) # NoMark => \E m \in Modes : m[d] = w
      BY <2>1 DEF DocOK, Placed
    <3>2. FrontmatterOf(tree.doc[d]) # NoMark =>
            \A w \in Sidecar : SidecarMark(tree, w, d) <= FrontmatterOf(tree.doc[d])
      BY <2>4, <2>5 DEF NoMark
    <3>3. mode'[d] # Nil =>
            FrontmatterOf(tree.doc[d]) = NoMark \/ SidecarMark(tree, mode'[d], d) = NoMark
      BY <2>4, <2>5
    <3>. QED
      BY <3>1, <3>2, <3>3 DEF Placed
  <2>7. Told(commits, tree, d)
    BY <2>1 DEF DocOK
  <2>. QED
    BY <2>6, <2>7 DEF DocOK, tree
<1>5. DocsOK'
  BY <1>1, <1>3, <1>4 DEF DocsOK
<1>6. AlongOK'
  BY <1>3 DEF AlongOK
<1>7. InSourcesOK'
  BY <1>3 DEF InSourcesOK
<1>. QED
  BY <1>5, <1>6, <1>7

(* Who changes the mode, and who may commit while HEAD is read.            *)
LEMMA ModeKept ==
    ASSUME Next \/ UNCHANGED vars, ~ChangeMode
    PROVE  UNCHANGED << mode, modeChanges >>
<1>1. Start \/ AssembleStep \/ Failure \/ Done => UNCHANGED << mode, modeChanges >>
  BY DEF Start, AssembleStep, ReadDoc, ComputeDiff, OverBudget, SkipEntry, ResolveHEAD, Generate,
         Failure, FailCleanly, FailTorn, FailStaging, Done, Finish, FinishSkipping, settings
<1>2. ApplyStep => UNCHANGED << mode, modeChanges >>
  <2>1. PlanNothing \/ BranchExists \/ CheckoutRefused => UNCHANGED << mode, modeChanges >>
    BY DEF PlanNothing, BranchExists, CheckoutRefused, Finish, FinishSkipping
  <2>2. PlanWrites \/ ResolveBranch \/ CreateRef \/ CheckoutHead \/ ResetIndex \/ ResetFiles
          \/ StageFiles =>
          UNCHANGED << mode, modeChanges >>
    BY DEF PlanWrites, ResolveBranch, CreateRef, CheckoutHead, ResetIndex, ResetFiles, StageFiles,
           settings
  <2>3. WriteFile \/ WriteFileNoFrontmatter \/ SaveSidecar => UNCHANGED << mode, modeChanges >>
    BY DEF WriteFile, WriteFileNoFrontmatter, SaveSidecar, AfterWrite, Finish, FinishSkipping,
           settings
  <2>4. CommitIndex => UNCHANGED << mode, modeChanges >>
    BY DEF CommitIndex, Finish, FinishSkipping, settings
  <2>. QED
    BY <2>1, <2>2, <2>3, <2>4 DEF ApplyStep
<1>3. Developer \/ Operator \/ UNCHANGED vars => UNCHANGED << mode, modeChanges >>
  BY DEF Developer, Operator, vars, runVars, settings
<1>. QED
  BY <1>1, <1>2, <1>3 DEF Next, LocalStep, Environment

(* Every commit a step adds is good, and follows its parent.               *)
LEMMA NextDocs ==
    ASSUME OneMigration, IInv, AgeInv, RunExact, CommitInv, SourceInv, AncestryOK,
           DocsOK, AlongOK, InSourcesOK, PlanNewer, [Next]_vars
    PROVE  DocsOK' /\ AlongOK' /\ InSourcesOK'
<1>1. CASE ChangeMode
  BY <1>1, ChangeModeDocs
<1>2. CASE ~ChangeMode /\ UNCHANGED commits
  BY <1>2, ModeKept, SameHistoryDocs
<1>3. CASE \E s \in Src : DevCommit(s) /\ UNCHANGED runVars
  BY <1>3, DevCommitDocs
<1>4. CASE \E b \in Branch : MergeBranch(b) /\ UNCHANGED runVars
  BY <1>4, MergeBranchDocs
<1>5. CASE CommitIndex /\ index # HeadTree
  BY <1>5, CommitIndexDocs
<1>. QED
  BY <1>1, <1>2, <1>3, <1>4, <1>5, WhoCommits

(* The first commit is as good as the bootstrap made it.                   *)
LEMMA InitDocs == Init => DocsOK /\ AlongOK /\ InSourcesOK
<1>. SUFFICES ASSUME Init PROVE DocsOK /\ AlongOK /\ InSourcesOK
  OBVIOUS
<1>1. PICK first \in FirstTrees : commits = << [tree |-> first, parent |-> 0] >>
  BY DEF Init, RepoInit
<1>2. /\ \A d \in Doc : first.doc[d] = Nil
      /\ \A w \in Sidecar : first.side[w] = Nil
  BY DEF FirstTrees
<1>3. Commit = {1} /\ Len(commits) = 1 /\ TreeOf(1) = first
  BY <1>1 DEF Commit, TreeOf
<1>4. IInv /\ HistoryOK /\ first \in Tree
  BY <1>3, InitInv, InitAge, CommittedTree DEF AgeInv, IInv, TypeOK
<1>5. ASSUME NEW d \in Doc
      PROVE  DocOK(commits, mode, modeChanges, first, d) /\ Within(first, d)
  <2>1. FrontmatterOf(first.doc[d]) = NoMark /\ TextOf(first.doc[d]) = NoText
    BY <1>2 DEF FrontmatterOf, TextOf
  <2>2. \A w \in Sidecar : SidecarMark(first, w, d) = NoMark
    BY <1>2, EmptyFile DEF SidecarMark, Load
  <2>3. MarksOf(first, d) = {}
    BY <2>1, <2>2, MarksHere
  <2>4. Placed(mode, first, d) /\ NoOtherMark(mode, first, d)
    BY <2>1, <2>2 DEF Placed, NoOtherMark
  <2>5. Newest(first, d, NoMark) /\ Tells(commits, TextOf(first.doc[d]), NoMark, d)
    BY <2>1, <2>3 DEF Newest, Tells, Shown
  <2>6. Told(commits, first, d)
    BY <2>3, <2>5 DEF Told, NoMark
  <2>7. Within(first, d)
    <3>1. \A s \in CoversOf(d) : TextOf(first.doc[d])[s] = 0 /\ first.src[s] \in Nat
      BY <1>4, <2>1, TextNumber, CoversAreSources DEF NoText
    <3>. QED
      BY <3>1 DEF Within
  <2>. QED
    BY <2>4, <2>6, <2>7 DEF DocOK
<1>6. DocsOK /\ InSourcesOK
  BY <1>3, <1>5 DEF DocsOK, InSourcesOK
<1>7. Ancestors(1) \subseteq {1}
  <2>1. 1 \in 1 .. Len(commits) /\ 1 .. 1 = {1} /\ Len(commits) \in Nat
    BY <1>3
  <2>. QED
    BY <1>4, <2>1, AncestorsHere, AncestorsRange DEF HistoryOK
<1>8. \A d \in Doc : Follows(first, first, d)
  BY <1>4, FollowsSame DEF SameDocument
<1>. QED
  BY <1>3, <1>6, <1>7, <1>8 DEF AlongOK

-----------------------------------------------------------------------------
(* No commit of the history ever changes.                                  *)
LEMMA CommitsKept ==
    ASSUME IInv, AgeInv, [Next]_vars
    PROVE  Len(commits) \in Nat /\ \A c \in Commit : TreeOf(c)' = TreeOf(c)
<1>1. RepoTypeOK /\ Len(commits) \in Nat
  BY DEF IInv, TypeOK, RepoTypeOK
<1>2. CASE UNCHANGED commits
  BY <1>1, <1>2 DEF TreeOf
<1>3. CASE \E tree, parent : commits' = Append(commits, [tree |-> tree, parent |-> parent])
  BY <1>1, <1>3, GrownHistory
<1>4. CASE \E s \in Src : DevCommit(s) /\ UNCHANGED runVars
  BY <1>3, <1>4 DEF DevCommit, AppendCommit
<1>5. CASE \E b \in Branch : MergeBranch(b) /\ UNCHANGED runVars
  BY <1>3, <1>5 DEF MergeBranch
<1>6. CASE CommitIndex /\ index # HeadTree
  BY <1>3, <1>6 DEF CommitIndex, AppendCommit
<1>. QED
  BY <1>2, <1>4, <1>5, <1>6, WhoCommits

(* The steps of a run, by what they do to what it has in memory.           *)
Remembers ==
    /\ pc # "idle" /\ pc' \notin {"diff", "resolve", "generate"}
    /\ UNCHANGED << mode, plan, started >>

Forgets == pc' = "idle" /\ plan' = << >>

(* Every step that is not one of five leaves alone what the run remembers, *)
(* or is where it forgets; only a developer commits meanwhile.             *)
LEMMA StepKinds ==
    ASSUME AgeInv, Next
    PROVE  \/ Start \/ ReadDoc \/ ComputeDiff \/ ResolveHEAD \/ Generate \/ Forgets
           \/ Developer /\ pc # "idle"
           \/ Remembers /\ UNCHANGED commits
           \/ Remembers /\ pc' = "committed" /\ CommitIndex /\ index # HeadTree
<1>1. OverBudget \/ PlanNothing \/ BranchExists \/ CheckoutRefused \/ Failure \/ Done => Forgets
  BY DEF OverBudget, PlanNothing, BranchExists, CheckoutRefused, Failure, FailCleanly, FailTorn,
         FailStaging, Done, Finish, FinishSkipping, Forgets
<1>2. ChangeMode \/ Operator \/ (Developer /\ pc = "idle") => Forgets
  BY DEF ChangeMode, Operator, Developer, runVars, AgeInv, MemoryOK, Forgets
<1>3. SkipEntry => Remembers /\ UNCHANGED commits
  BY DEF SkipEntry, AfterEntry, settings, repoVars, Remembers
<1>4. PlanWrites \/ ResolveBranch \/ CreateRef \/ CheckoutHead \/ ResetIndex \/ ResetFiles
        \/ StageFiles =>
        Remembers /\ UNCHANGED commits
  BY DEF PlanWrites, ResolveBranch, CreateRef, CheckoutHead, ResetIndex, ResetFiles, StageFiles,
         settings, repoVars, Remembers
<1>5. WriteFile \/ WriteFileNoFrontmatter \/ SaveSidecar =>
        Forgets \/ (Remembers /\ UNCHANGED commits)
  BY DEF WriteFile, WriteFileNoFrontmatter, SaveSidecar, AfterWrite, Finish, FinishSkipping,
         settings, Remembers, Forgets
<1>6. CommitIndex => \/ Forgets
                     \/ Remembers /\ pc' = "committed" /\ CommitIndex /\ index # HeadTree
  BY DEF CommitIndex, Finish, FinishSkipping, settings, Remembers, Forgets
<1>. QED
  BY <1>1, <1>2, <1>3, <1>4, <1>5, <1>6
  DEF Next, LocalStep, AssembleStep, ApplyStep, Environment

(* From a clean checkout, developers only commit.                          *)
LEMMA DevelopersCommit ==
    ASSUME OneMigration, IInv, AgeInv, Developer
    PROVE  /\ UNCHANGED << pc, mode, plan, asm, cur, started >> /\ pc # "resolve"
           /\ SameTrees(commits, commits', Len(commits))
<1>1. PICK s \in Src : pc \notin CommitFree /\ DevCommit(s)
  BY DEF Developer, OneMigration
<1>2. \A c \in Commit : TreeOf(c)' = TreeOf(c)
  BY <1>1, DevCommitAge DEF IInv, TypeOK, AgeInv, RepoAge
<1>. QED
  BY <1>1, <1>2, GrownTrees DEF Developer, OneMigration, runVars, settings, entryVars

(* A run at work has the documents of the commit it started from on disk.  *)
LEMMA DiskOfStart ==
    ASSUME OneMigration, IInv, AgeInv, CommitInv, pc \in CleanPhases
    PROVE  /\ worktree = TreeOf(HeadCommit) /\ HeadCommit \in Commit /\ worktree \in Tree
           /\ SameDocs(worktree, TreeOf(started))
           /\ started \in Commit /\ TreeOf(started) \in Tree
<1>1. worktree = HeadTree
  BY CleanDocs DEF OneMigration
<1>2. HeadCommit \in Commit /\ HeadTree = TreeOf(HeadCommit) /\ worktree \in Tree /\ RepoTypeOK
  BY HeadIsCommit DEF IInv, TypeOK, RepoTypeOK, HeadTree
<1>3. started \in Commit /\ SameDocs(TreeOf(HeadCommit), TreeOf(started))
  BY DEF AgeInv, StartOK, FromStart, CleanPhases, BeforeCommit, Phases
<1>. QED
  BY <1>1, <1>2, <1>3, CommittedTree

(* The watermark an entry starts at, and what its body tells.              *)
LEMMA ReadsTheNewest ==
    ASSUME OneMigration, IInv, AgeInv, CommitInv, DocsOK, pc = "read",
           NEW d, d = Manifest[cur].path
    PROVE  /\ d \in Doc
           /\ Newest(worktree, d, ReadWatermark(worktree, d))
           /\ Newest(TreeOf(started), d, ReadWatermark(worktree, d))
           /\ TextOf(worktree.doc[d]) = TextOf(TreeOf(started).doc[d])
           /\ Tells(commits, TextOf(worktree.doc[d]), ReadWatermark(worktree, d), d)
<1>1. /\ worktree = TreeOf(HeadCommit) /\ HeadCommit \in Commit /\ worktree \in Tree
      /\ SameDocs(worktree, TreeOf(started))
  BY DiskOfStart DEF CleanPhases
<1>2. d \in Doc /\ RunTypeOK /\ mode \in Modes
  BY ManifestEntry DEF IInv, TypeOK, ControlOK, CommitInv, Decided
<1>3. DocOK(commits, mode, modeChanges, worktree, d)
  BY <1>1, <1>2 DEF DocsOK
<1>4. MarksBefore(worktree, HeadCommit)
  BY <1>1 DEF AgeInv, HistoryOK
<1>5. Newest(worktree, d, ReadWatermark(worktree, d))
  BY <1>1, <1>2, <1>3, <1>4, ReadsNewest DEF DocOK
<1>6. ReadWatermark(worktree, d) \in Nat
  BY <1>1, <1>2, ReadWatermarkType DEF Mark
<1>7. PICK m \in Nat : Newest(worktree, d, m) /\ Tells(commits, TextOf(worktree.doc[d]), m, d)
  BY <1>3 DEF DocOK, Told
<1>8. m = ReadWatermark(worktree, d)
  BY <1>5, <1>6, <1>7, NewestIsOne
<1>9. MarksOf(worktree, d) = MarksOf(TreeOf(started), d)
      /\ worktree.doc[d] = TreeOf(started).doc[d]
  BY <1>1, MarksHere DEF SameDocs, SidecarMark
<1>. QED
  BY <1>2, <1>5, <1>7, <1>8, <1>9 DEF Newest

(* What the run has in memory stays exact while a document migrates.       *)
LEMMA NextRun ==
    ASSUME OneMigration, IInv, AgeInv, RunExact, CommitInv, DocsOK, [Next]_vars
    PROVE  RunExact'
<1>1. CASE Start
  <2>1. UNCHANGED << commits, mode, plan >> /\ pc' = "read"
    BY <1>1 DEF Start, repoVars
  <2>. QED
    BY <2>1, QuietRun
<1>2. CASE ReadDoc
  <2>1. pc = "read"
    BY <1>2 DEF ReadDoc
  <2>. QED
    BY <1>2, <2>1, ReadsTheNewest, ReadDocRun
<1>3. CASE ComputeDiff \/ ResolveHEAD \/ Generate
  BY <1>3, ComputeDiffRun, ResolveHEADRun, GenerateRun DEF OneMigration
<1>4. CASE Forgets
  BY <1>4, EndRun DEF Forgets
<1>5. CASE Developer
  BY <1>5, DevelopersCommit, BesideRun DEF AgeInv
<1>6. CASE Remembers /\ UNCHANGED commits
  BY <1>6, QuietRun DEF Remembers
<1>7. CASE Remembers /\ pc' = "committed" /\ CommitIndex /\ index # HeadTree
  <2>1. SameTrees(commits, commits', Len(commits))
    BY CommitsKept, GrownTrees
  <2>. QED
    BY <1>7, <2>1, CommitRun DEF Remembers, AgeInv
<1>8. CASE UNCHANGED vars
  <2>1. UNCHANGED << commits, refs, head, pc, mode, plan, asm, cur >>
    BY <1>8 DEF vars, repoVars, runVars, settings, entryVars
  <2>2. HeadTree' = HeadTree /\ SameTrees(commits, commits', Len(commits))
    BY <2>1 DEF HeadTree, HeadCommit, TreeOf, SameTrees
  <2>. QED
    BY <2>1, <2>2, BesideRun DEF AgeInv
<1>. QED
  BY <1>1, <1>2, <1>3, <1>4, <1>5, <1>6, <1>7, <1>8, StepKinds

(* What was read stays what the commit the run started from has.           *)
LEMMA SameRead ==
    ASSUME CommitInv, pc # "idle", UNCHANGED started, \A c \in Commit : TreeOf(c)' = TreeOf(c)
    PROVE  TreeOf(started)' = TreeOf(started)
BY DEF CommitInv, Decided, TreeOf

(* readWatermarkForDoc: what Assemble read stays what the start has.       *)
LEMMA NextReadOK ==
    ASSUME OneMigration, IInv, AgeInv, CommitInv, DocsOK, ReadOK, [Next]_vars
    PROVE  ReadOK'
<1>1. CASE ReadDoc
  <2>1. /\ pc = "read" /\ UNCHANGED << cur, started, commits >>
        /\ asm'.wm = ReadWatermark(worktree, Manifest[cur].path)
        /\ asm'.text = TextOf(worktree.doc[Manifest[cur].path])
    BY <1>1 DEF ReadDoc, settings, repoVars, NoContext
  <2>2. TreeOf(started)' = TreeOf(started)
    BY <2>1 DEF TreeOf
  <2>3. \A d : d = Manifest[cur].path =>
          /\ Newest(TreeOf(started), d, ReadWatermark(worktree, d))
          /\ TextOf(worktree.doc[d]) = TextOf(TreeOf(started).doc[d])
    BY <2>1, ReadsTheNewest
  <2>. QED
    BY <2>1, <2>2, <2>3 DEF ReadOK, Newest, MarksOf
<1>2. ASSUME UNCHANGED << cur, started >>, asm'.text = asm.text, asm'.wm = asm.wm,
             pc' \in {"diff", "resolve", "generate"} => pc \in {"diff", "resolve", "generate"}
      PROVE  ReadOK'
  <2>. SUFFICES ASSUME pc' \in {"diff", "resolve", "generate"} PROVE ReadOK'
    BY DEF ReadOK
  <2>1. pc # "idle" /\ pc \in {"diff", "resolve", "generate"}
    BY <1>2
  <2>2. TreeOf(started)' = TreeOf(started)
    BY <1>2, <2>1, CommitsKept, SameRead
  <2>. QED
    BY <1>2, <2>1, <2>2 DEF ReadOK, Newest, MarksOf
<1>3. CASE ComputeDiff \/ ResolveHEAD
  <2>1. /\ UNCHANGED << cur, started >> /\ asm'.text = asm.text /\ asm'.wm = asm.wm
        /\ pc \in {"diff", "resolve"}
    BY <1>3 DEF ComputeDiff, ResolveHEAD, settings, entryVars, IInv, TypeOK, RunTypeOK
  <2>. QED
    BY <1>2, <2>1
<1>4. CASE Start \/ Generate
  <2>1. pc' \in {"read", "plan"}
    BY <1>4 DEF Start, Generate, AfterEntry
  <2>. QED
    BY <2>1 DEF ReadOK
<1>5. CASE Forgets \/ Remembers
  BY <1>5 DEF Forgets, Remembers, ReadOK
<1>6. CASE Developer
  BY <1>2, <1>6, DevelopersCommit
<1>7. CASE UNCHANGED vars
  BY <1>2, <1>7 DEF vars, runVars, settings, entryVars
<1>. QED
  BY <1>1, <1>3, <1>4, <1>5, <1>6, <1>7, StepKinds

(* What is planned, with a text, differs from what there was.              *)
LEMMA GenerateNewer ==
    ASSUME OneMigration, IInv, RunExact, ReadOK, PlanNewer, Generate
    PROVE  PlanNewer'
<1>1. /\ pc = "generate" /\ UNCHANGED << started, commits >>
  BY DEF Generate, settings, repoVars
<1>2. PICK text \in {Rewritten, Nil} : plan' = [plan EXCEPT ![Len(plan)].text = text]
  BY DEF Generate
<1>3. \A i \in DOMAIN plan : plan[i] \in Entry
  BY PlanEntry DEF IInv, TypeOK
<1>4. /\ DOMAIN plan' = DOMAIN plan
      /\ \A i \in DOMAIN plan : /\ plan'[i].doc = plan[i].doc
                                /\ i # Len(plan) => plan'[i].text = plan[i].text
                                /\ i = Len(plan) => plan'[i].text = text
  BY <1>2, <1>3 DEF Entry
<1>. DEFINE d == Manifest[cur].path
            old == TextOf(TreeOf(started).doc[d])
<1>5. \E s \in CoversOf(d) : old[s] # Rewritten[s]
  <2>1. CoversOf(d) = Manifest[cur].covers /\ Manifest[cur].covers \subseteq Src
    BY <1>1, CoversOfEntry, ManifestEntry DEF IInv, ControlOK, OneMigration
  <2>2. PICK s \in asm.diff : TRUE
    BY <1>1 DEF RunExact, AsmExact, StampExact
  <2>3. /\ s \in CoversOf(d) /\ s \in Src
        /\ Shown(commits, asm.wm)[s] # asm.seen[s]
        /\ asm.text[s] = Shown(commits, asm.wm)[s]
    BY <1>1, <2>1, <2>2 DEF RunExact, AsmExact, DiffExact, BodyExact, Tells
  <2>4. Rewritten[s] = asm.seen[s]
    BY <2>2, <2>3 DEF Rewritten
  <2>5. asm.text = old
    BY <1>1 DEF ReadOK
  <2>. QED
    BY <2>3, <2>4, <2>5
<1>6. plan[Len(plan)].doc = d
  BY <1>1 DEF RunExact, AsmExact, StampExact
<1>. HIDE DEF d, old
<1>7. TreeOf(started)' = TreeOf(started) /\ Bodies' = {i \in DOMAIN plan : plan'[i].text # Nil}
  BY <1>1, <1>4 DEF TreeOf, Bodies
<1>8. ASSUME NEW i \in DOMAIN plan, plan'[i].text # Nil
      PROVE  \E s \in CoversOf(plan'[i].doc) :
               TextOf(TreeOf(started).doc[plan'[i].doc])[s] # plan'[i].text[s]
  <2>1. CASE i = Len(plan)
    <3>1. plan'[i].doc = d /\ plan'[i].text = text /\ text = Rewritten
      BY <1>2, <1>4, <1>6, <1>8, <2>1
    <3>. QED
      BY <1>5, <3>1 DEF old
  <2>2. CASE i # Len(plan)
    <3>1. /\ plan'[i].doc = plan[i].doc /\ plan'[i].text = plan[i].text /\ i \in Bodies
      BY <1>4, <1>8, <2>2 DEF Bodies
    <3>. QED
      BY <1>1, <3>1 DEF PlanNewer
  <2>. QED
    BY <2>1, <2>2
<1>. QED
  BY <1>7, <1>8 DEF PlanNewer

(* The plan stays ahead of the commit the run started from.                *)
LEMMA NextPlanNewer ==
    ASSUME OneMigration, IInv, AgeInv, RunExact, CommitInv, ReadOK, PlanNewer, [Next]_vars
    PROVE  PlanNewer'
<1>1. ASSUME UNCHANGED << started, plan >>, pc # "idle" PROVE PlanNewer'
  <2>1. TreeOf(started)' = TreeOf(started)
    BY <1>1, CommitsKept, SameRead
  <2>. QED
    BY <1>1, <2>1 DEF PlanNewer, Bodies
<1>2. CASE Start
  <2>1. plan' = << >>
    BY <1>2 DEF Start, AgeInv, MemoryOK
  <2>. QED
    BY <2>1 DEF PlanNewer, Bodies
<1>3. CASE ReadDoc \/ ComputeDiff
  BY <1>1, <1>3 DEF ReadDoc, ComputeDiff, settings
<1>4. CASE ResolveHEAD
  <2>1. pc = "resolve" /\ UNCHANGED << started, commits >>
    BY <1>4 DEF ResolveHEAD, settings, repoVars
  <2>2. PICK e : e.text = Nil /\ plan' = Append(plan, e)
    BY <1>4 DEF ResolveHEAD
  <2>3. \A i \in DOMAIN plan' : (i \in DOMAIN plan /\ plan'[i] = plan[i]) \/ plan'[i] = e
    BY <2>2 DEF IInv, TypeOK, RunTypeOK
  <2>4. \A i \in Bodies' : i \in Bodies /\ plan'[i] = plan[i]
    BY <2>2, <2>3 DEF Bodies
  <2>5. TreeOf(started)' = TreeOf(started)
    BY <2>1 DEF TreeOf
  <2>. QED
    BY <2>1, <2>4, <2>5 DEF PlanNewer
<1>5. CASE Forgets
  BY <1>5 DEF Forgets, PlanNewer
<1>6. CASE Remembers
  BY <1>1, <1>6 DEF Remembers
<1>7. CASE Developer /\ pc # "idle"
  BY <1>1, <1>7, DevelopersCommit
<1>8. CASE UNCHANGED vars
  <2>1. UNCHANGED << pc, started, plan, commits >>
    BY <1>8 DEF vars, repoVars, runVars, settings
  <2>. QED
    BY <2>1 DEF PlanNewer, Bodies, TreeOf
<1>. QED
  BY <1>2, <1>3, <1>4, <1>5, <1>6, <1>7, <1>8, GenerateNewer, StepKinds

-----------------------------------------------------------------------------
(* The inductive invariant of a migration holds in the beginning,          *)
LEMMA InitMoved == Init => MovedInv
<1>. SUFFICES ASSUME Init PROVE MovedInv
  OBVIOUS
<1>1. pc = "idle"
  BY DEF Init
<1>2. ReadOK /\ PlanNewer /\ ProgressOK
  BY <1>1 DEF ReadOK, PlanNewer, ProgressOK, HasBodies
<1>. QED
  BY <1>2, InitInv, InitAge, InitRun, InitCommit, InitSources, InitAncestry, InitDocs DEF MovedInv

(* and every step keeps it.                                                *)
LEMMA NextMoved == OneMigration /\ MovedInv /\ [Next]_vars => MovedInv'
<1>. SUFFICES ASSUME OneMigration, MovedInv, [Next]_vars PROVE MovedInv'
  OBVIOUS
<1>1. /\ IInv /\ AgeInv /\ RunExact /\ CommitInv /\ SourceInv /\ AncestryOK /\ ProgressOK
      /\ DocsOK /\ AlongOK /\ InSourcesOK /\ ReadOK /\ PlanNewer
  BY DEF MovedInv
<1>2. OneEntryEach /\ Tidy /\ Undisturbed
  BY DEF OneMigration, Undisturbed
<1>3. IInv' /\ AgeInv'
  BY <1>1, NextInv, NextAge
<1>4. CommitInv' /\ SourceInv' /\ AncestryOK'
  BY <1>1, <1>2, <1>3, NextCommit, NextSources, NextAncestry
<1>5. ProgressOK'
  BY <1>1, <1>2, NextProgressOK
<1>6. RunExact' /\ ReadOK' /\ PlanNewer'
  BY <1>1, NextRun, NextReadOK, NextPlanNewer
<1>7. DocsOK' /\ AlongOK' /\ InSourcesOK'
  BY <1>1, NextDocs
<1>. QED
  BY <1>3, <1>4, <1>5, <1>6, <1>7 DEF MovedInv

(* Assemble starts every diff at the newest watermark the repository holds *)
(* for the document, before, during and after a migration, in either       *)
(* direction and whatever was merged, deleted or committed meanwhile.      *)
THEOREM MigrationReadsFreshWatermark ==
    ASSUME OneMigration
    PROVE  Spec => []FreshWatermark
<1>1. MovedInv => FreshWatermark
  <2>. SUFFICES ASSUME MovedInv, pc = "diff", NEW d, d = Manifest[cur].path
                PROVE  LET marks == MarksOf(worktree, d)
                       IN  /\ marks = {} => asm.wm = NoMark
                           /\ marks # {} => asm.wm \in marks /\ \A m \in marks : m <= asm.wm
    BY DEF FreshWatermark
  <2>1. IInv /\ AgeInv /\ CommitInv /\ ReadOK
    BY DEF MovedInv
  <2>2. SameDocs(worktree, TreeOf(started))
    BY <2>1, DiskOfStart DEF CleanPhases
  <2>3. MarksOf(worktree, d) = MarksOf(TreeOf(started), d)
    BY <2>2, MarksHere DEF SameDocs, SidecarMark
  <2>4. Newest(TreeOf(started), d, asm.wm)
    BY <2>1 DEF ReadOK
  <2>. QED
    BY <2>3, <2>4 DEF Newest
<1>2. MovedInv /\ [Next]_vars => MovedInv'
  BY NextMoved
<1>. QED
  BY <1>1, <1>2, InitMoved, PTL DEF Spec

(* Through a migration too, every watermark promises what its document     *)
(* tells: also the older one that stayed behind.                           *)
THEOREM MigrationKeepsWatermarksTruthful ==
    ASSUME OneMigration
    PROVE  Spec => []MarksTruthful
<1>1. MovedInv => MarksTruthful
  <2>. SUFFICES ASSUME MovedInv, NEW tree \in Trees, NEW d \in Doc, NEW m \in MarksOf(tree, d),
                       NEW s \in CoversOf(d)
                PROVE  TreeOf(m).src[s] <= TextOf(tree.doc[d])[s]
    BY DEF MarksTruthful
  <2>1. IInv /\ DocsOK
    BY DEF MovedInv
  <2>2. \E c \in Commit : tree = TreeOf(c)
    <3>1. HeadCommit \in Commit /\ HeadTree = TreeOf(HeadCommit)
      BY <2>1, HeadIsCommit DEF IInv, TypeOK, HeadTree
    <3>. QED
      BY <3>1 DEF Trees, OneMigration, IsClean
  <2>3. Told(commits, tree, d)
    BY <2>1, <2>2 DEF DocsOK, DocOK
  <2>4. m # NoMark
    BY DEF MarksOf
  <2>. QED
    BY <2>3, <2>4 DEF Told, Shown, TreeOf
<1>2. MovedInv /\ [Next]_vars => MovedInv'
  BY NextMoved
<1>. QED
  BY <1>1, <1>2, InitMoved, PTL DEF Spec

(* The model is not called for a document that is up to date, whichever    *)
(* side of its migration it is on.                                         *)
THEOREM MigrationCallsOnlyWhenBehind ==
    ASSUME OneMigration
    PROVE  Spec => []OnlyWhenBehind
<1>1. MovedInv => OnlyWhenBehind
  BY ExactOnlyWhenBehind DEF MovedInv
<1>2. MovedInv /\ [Next]_vars => MovedInv'
  BY NextMoved
<1>. QED
  BY <1>1, <1>2, InitMoved, PTL DEF Spec

(* No run that ends well misses a change because the watermark moved.      *)
THEOREM MigrationMissesNothing ==
    ASSUME OneMigration
    PROVE  Spec => NothingMissed
<1>. DEFINE Kept == pc # "idle" /\ outcome' \in {"nothing", "written", "committed"} =>
                        \A d \in Doc \ skipped' : \A s \in CoversOf(d) :
                            TreeOf(started).src[s] <= TextOf(worktree'.doc[d])[s]
<1>1. MovedInv /\ [Next]_vars => [Kept]_vars
  <2>. SUFFICES ASSUME MovedInv, Next, pc # "idle", outcome' \in Succeeding
                PROVE  \A d \in Doc \ skipped' : \A s \in CoversOf(d) :
                           TreeOf(started).src[s] <= TextOf(worktree'.doc[d])[s]
    BY DEF Succeeding
  <2>1. IInv /\ AgeInv /\ RunExact /\ CommitInv /\ SourceInv /\ ProgressOK /\ Tidy
    BY DEF MovedInv, OneMigration
  <2>. QED
    BY <2>1, SuccessMissesNothing
<1>2. MovedInv /\ [Next]_vars => MovedInv'
  BY NextMoved
<1>. QED
  BY <1>1, <1>2, InitMoved, PTL DEF Spec, NothingMissed

(* And seen from the history a migration makes no difference at all.       *)
THEOREM MigrationImplementsTheDocumentation ==
    ASSUME OneMigration, "resetIndex" \in CommitFree
    PROVE  Spec => ImplementsDocumentation
<1>1. MovedInv /\ [Next]_vars => [Promise!Next]_Promise!promiseVars
  BY StepsImplement DEF MovedInv
<1>2. MovedInv /\ [Next]_vars => MovedInv'
  BY NextMoved
<1>. QED
  BY <1>1, <1>2, InitMoved, InitPromise, PTL DEF Spec, ImplementsDocumentation, Promise!Spec

-----------------------------------------------------------------------------
(* Where nothing migrates, a document has one watermark, and the run has   *)
(* read it.                                                                *)
OwnRead == pc = "diff" => asm.wm = OwnMark(mode, worktree, Manifest[cur].path)

(* Developers change source files, not the documentation.                  *)
LEMMA DevelopersLeaveDocs ==
    ASSUME IInv, AgeInv, Developer
    PROVE  SameDocs(worktree', worktree) /\ UNCHANGED runVars
<1>1. PICK s \in Src : DevCommit(s) \/ DevEdit(s) \/ DevStage(s)
  BY DEF Developer
<1>2. worktree \in Tree /\ SameDocs(worktree, worktree)
  BY DEF IInv, TypeOK, RepoTypeOK, SameDocs
<1>3. SameDocs(worktree', worktree)
  <2>1. CASE DevCommit(s)
    BY <1>2, <2>1, NewVersionDocs DEF DevCommit
  <2>2. CASE DevEdit(s)
    BY <1>2, <2>2, NewVersionDocs DEF DevEdit
  <2>3. CASE DevStage(s)
    BY <1>2, <2>3 DEF DevStage
  <2>. QED
    BY <1>1, <2>1, <2>2, <2>3
<1>. QED
  BY <1>3 DEF Developer

(* readWatermarkForDoc finds the only watermark of its document.           *)
LEMMA NextOwnRead ==
    ASSUME SettledRun, IInv, AgeInv, ExactInv, OwnRead, [Next]_vars
    PROVE  OwnRead'
<1>1. CASE ReadDoc
  <2>1. /\ pc = "read" /\ UNCHANGED << cur, mode, worktree >>
        /\ asm'.wm = ReadWatermark(worktree, Manifest[cur].path)
    BY <1>1 DEF ReadDoc, settings, repoVars, NoContext
  <2>2. Manifest[cur].path \in Doc /\ worktree \in Tree /\ RunTypeOK
    BY <2>1, ManifestEntry DEF IInv, TypeOK, RepoTypeOK, ControlOK
  <2>3. NoOtherMark(mode, worktree, Manifest[cur].path)
    BY <2>1, <2>2, CleanExact DEF CleanPhases, ExactTree, Exact
  <2>4. ReadWatermark(worktree, Manifest[cur].path) = OwnMark(mode, worktree, Manifest[cur].path)
    BY <2>2, <2>3, ReadsOwnMark
  <2>. QED
    BY <2>1, <2>4 DEF OwnRead, OwnMark, SidecarMark
<1>2. ASSUME SameDocs(worktree', worktree), UNCHANGED << pc, asm, mode, cur >> PROVE OwnRead'
  BY <1>2 DEF SameDocs, OwnRead, OwnMark, SidecarMark
<1>3. CASE Developer
  BY <1>2, <1>3, DevelopersLeaveDocs DEF runVars, settings, entryVars
<1>4. CASE UNCHANGED vars
  BY <1>2, <1>4 DEF vars, repoVars, runVars, settings, entryVars, SameDocs
<1>5. CASE pc' # "diff"
  BY <1>5 DEF OwnRead
<1>6. Start \/ ComputeDiff \/ ResolveHEAD \/ Generate \/ Forgets \/ Remembers => pc' # "diff"
  BY DEF Start, ComputeDiff, ResolveHEAD, Generate, AfterEntry, Forgets, Remembers
<1>. QED
  BY <1>1, <1>3, <1>4, <1>5, <1>6, StepKinds

(* While watermarks_file of the manifest stays as it is, Assemble starts   *)
(* every diff at the one watermark of the document, also in a checkout that*)
(* is not clean when frontmatter is all there is.                          *)
THEOREM SettledRunsReadTheirWatermark ==
    ASSUME SettledRun
    PROVE  Spec => []FreshWatermark
<1>. DEFINE Inv == IInv /\ AgeInv /\ ExactInv /\ OwnRead
<1>1. Inv => FreshWatermark
  <2>. SUFFICES ASSUME Inv, pc = "diff", NEW d, d = Manifest[cur].path
                PROVE  LET marks == MarksOf(worktree, d)
                       IN  /\ marks = {} => asm.wm = NoMark
                           /\ marks # {} => asm.wm \in marks /\ \A m \in marks : m <= asm.wm
    BY DEF FreshWatermark
  <2>1. d \in Doc /\ worktree \in Tree /\ mode[d] \in Sidecar \cup {Nil} /\ Nil \notin Sidecar
    BY ManifestEntry, RepositoryAssumption
    DEF IInv, TypeOK, RepoTypeOK, RunTypeOK, ControlOK
  <2>2. NoOtherMark(mode, worktree, d) /\ asm.wm = OwnMark(mode, worktree, d)
    BY <2>1, CleanExact DEF CleanPhases, ExactTree, Exact, OwnRead
  <2>3. MarksOf(worktree, d) = {asm.wm} \ {NoMark}
    BY <2>1, <2>2, MarksHere DEF NoOtherMark, OwnMark
  <2>4. asm.wm \in Nat
    BY DEF IInv, TypeOK, RunTypeOK, Mark
  <2>. QED
    BY <2>3, <2>4
<1>2. Init => Inv
  BY InitInv, InitAge, InitExact DEF Init, OwnRead
<1>3. Inv /\ [Next]_vars => Inv'
  <2>. SUFFICES ASSUME Inv, [Next]_vars PROVE Inv'
    OBVIOUS
  <2>1. IInv' /\ AgeInv'
    BY NextInv, NextAge
  <2>. QED
    BY <2>1, NextExact, NextOwnRead
<1>. QED
  BY <1>1, <1>2, <1>3, PTL DEF Spec
=============================================================================
