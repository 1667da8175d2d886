----------------------------- MODULE Repository -----------------------------
(***************************************************************************)
(* The local git repository a run works in: the history, the branches,     *)
(* HEAD, the index and the worktree, the go-git calls memorialiste makes   *)
(* on them, and what the people who share the repository do to it.         *)
(*                                                                         *)
(* A commit is its position in the history.  The text of a document is     *)
(* abstracted to "shows": the version of every source file it describes.   *)
(* Version 0 of a source file is its absence: nothing to describe.  A page *)
(* is the text with the watermark of its frontmatter (NoMark: none).       *)
(***************************************************************************)
EXTENDS Watermarks, FiniteSets

CONSTANTS
    Src,            \* source files a document may cover
    Sidecar,        \* watermark sidecar files
    Branch,         \* branch names
    Main,           \* the branch documentation is merged into
    MaxCommits,     \* bound on the length of the history
    MaxEdits,       \* bound on the developer's edits
    Tidy            \* TRUE: every run starts from a clean checkout, as in CI

ASSUME RepositoryAssumption ==
    /\ Main \in Branch
    /\ MaxCommits \in Nat \ {0} /\ MaxEdits \in Nat
    /\ Tidy \in BOOLEAN
    /\ Nil \notin Sidecar
    /\ Nil \notin Records /\ Nil \notin [Src -> Nat]
    /\ Nil \notin [mark : Mark, shows : [Src -> Nat]]

VARIABLES
    commits,        \* the history: each commit's tree and its parent
    refs,           \* local branches; 0: the branch does not exist
    head,           \* the branch HEAD names
    index,          \* the staged tree
    worktree,       \* the files on disk
    edits           \* how many edits developers have made

repoVars == << commits, refs, head, index, worktree, edits >>

Text == [Src -> Nat]
Page == [mark : Mark, shows : Text]
Tree == [src : [Src -> Nat],
         doc : [Doc -> Page \cup {Nil}],
         side : [Sidecar -> Records \cup {Nil}]]
Commit == 1 .. Len(commits)

NoText == [s \in Src |-> 0]
EmptyPage == [mark |-> NoMark, shows |-> NoText]

(* What readDocBody and readFrontmatter make of a file that may be absent. *)
TextOf(page) == IF page = Nil THEN NoText ELSE page.shows
FrontmatterOf(page) == IF page = Nil THEN NoMark ELSE page.mark

HeadCommit == refs[head]
TreeOf(c) == commits[c].tree
HeadTree == TreeOf(HeadCommit)

RepoTypeOK ==
    /\ commits \in Seq([tree : Tree, parent : Nat])
    /\ Len(commits) \in 1 .. MaxCommits
    /\ refs \in [Branch -> 0 .. Len(commits)]
    /\ head \in Branch
    /\ refs[head] # 0 /\ refs[Main] # 0
    /\ index \in Tree
    /\ worktree \in Tree
    /\ edits \in 0 .. MaxEdits

(* The first commit has some of the source files and no documentation.     *)
FirstTrees == [src : [Src -> {0, 1}], doc : [Doc -> {Nil}], side : [Sidecar -> {Nil}]]

RepoInit ==
    /\ \E first \in FirstTrees : /\ commits = << [tree |-> first, parent |-> 0] >>
                                /\ index = first
                                /\ worktree = first
    /\ refs = [b \in Branch |-> IF b = Main THEN 1 ELSE 0]
    /\ head = Main
    /\ edits = 0

-----------------------------------------------------------------------------
(* go-git.                                                                 *)

(* Files of the index whose copy on disk is changed or deleted.  A file    *)
(* that is only on disk (untracked) does not count.                        *)
Unstaged(staged, disk) ==
    \/ \E s \in Src : disk.src[s] # staged.src[s]
    \/ \E d \in Doc : staged.doc[d] # Nil /\ disk.doc[d] # staged.doc[d]
    \/ \E w \in Sidecar : staged.side[w] # Nil /\ disk.side[w] # staged.side[w]

(* The files two trees differ in.                                          *)
Changed(old, new) == {f \in DOMAIN new : new[f] # old[f]}

Changes(old, new) ==
    [src |-> Changed(old.src, new.src),
     doc |-> Changed(old.doc, new.doc),
     side |-> Changed(old.side, new.side)]

NoFiles == [src |-> {}, doc |-> {}, side |-> {}]

(* Worktree.resetWorktree: of the files it is given, those whose copy on   *)
(* disk is not the index's are taken from the target tree; every other file*)
(* keeps its copy on disk.                                                 *)
Restored(files, staged, target, disk) ==
    [f \in DOMAIN target |-> IF f \in files /\ disk[f] # staged[f] THEN target[f] ELSE disk[f]]

RestoredTree(files, staged, target, disk) ==
    [src |-> Restored(files.src, staged.src, target.src, disk.src),
     doc |-> Restored(files.doc, staged.doc, target.doc, disk.doc),
     side |-> Restored(files.side, staged.side, target.side, disk.side)]

(* Worktree.Add of some documents and sidecars: the index takes their copy *)
(* on disk.                                                                *)
Staged(staged, disk, docs, sides) ==
    [staged EXCEPT
        !.doc = [d \in Doc |-> IF d \in docs THEN disk.doc[d] ELSE staged.doc[d]],
        !.side = [w \in Sidecar |-> IF w \in sides THEN disk.side[w] ELSE staged.side[w]]]

(* The branch HEAD names advances to a new commit of the given tree.       *)
AppendCommit(tree) ==
    /\ commits' = Append(commits, [tree |-> tree, parent |-> HeadCommit])
    /\ refs' = [refs EXCEPT ![head] = Len(commits) + 1]

-----------------------------------------------------------------------------
(* The people who work in the repository.  They are not memorialiste: these*)
(* actions are the environment every run must live with.                   *)

RoomForCommit == Len(commits) < MaxCommits

(* git commit <s> of a new version of a clean source file.                 *)
DevCommit(s) ==
    /\ RoomForCommit /\ edits < MaxEdits
    /\ worktree.src[s] = HeadTree.src[s] /\ index.src[s] = HeadTree.src[s]
    /\ AppendCommit([HeadTree EXCEPT !.src[s] = edits + 2])
    /\ index' = [index EXCEPT !.src[s] = edits + 2]
    /\ worktree' = [worktree EXCEPT !.src[s] = edits + 2]
    /\ edits' = edits + 1
    /\ UNCHANGED head

(* An editor saves a source file, and git add stages it.                   *)
DevEdit(s) ==
    /\ edits < MaxEdits
    /\ worktree' = [worktree EXCEPT !.src[s] = edits + 2]
    /\ edits' = edits + 1
    /\ UNCHANGED << commits, refs, head, index >>

DevStage(s) ==
    /\ index.src[s] # worktree.src[s]
    /\ index' = [index EXCEPT !.src[s] = worktree.src[s]]
    /\ UNCHANGED << commits, refs, head, worktree, edits >>

IsClean == index = HeadTree /\ worktree = HeadTree

(* git checkout -f b && git clean -fd: everything not committed is gone.   *)
ForceCheckout(b) ==
    /\ refs[b] # 0
    /\ head' = b
    /\ index' = TreeOf(refs[b])
    /\ worktree' = TreeOf(refs[b])
    /\ UNCHANGED << commits, refs, edits >>

(* git checkout b with no tracked file modified: untracked files stay on   *)
(* disk, and git refuses when one of them would be overwritten.            *)
SwitchBranch(b) ==
    LET target == TreeOf(refs[b])
        Untracked(staged, disk) == {f \in DOMAIN disk : staged[f] = Nil /\ disk[f] # Nil}
        docs == Untracked(index.doc, worktree.doc)
        sides == Untracked(index.side, worktree.side)
    IN  /\ refs[b] # 0 /\ b # head
        /\ index = HeadTree /\ ~Unstaged(index, worktree)
        /\ \A d \in docs : target.doc[d] = Nil
        /\ \A w \in sides : target.side[w] = Nil
        /\ head' = b
        /\ index' = target
        /\ worktree' = Staged(target, worktree, docs, sides)
        /\ UNCHANGED << commits, refs, edits >>

DeleteBranch(b) ==
    /\ b \notin {Main, head} /\ refs[b] # 0
    /\ refs' = [refs EXCEPT ![b] = 0]
    /\ UNCHANGED << commits, head, index, worktree, edits >>

(* The history of a commit, and the last commit two of them share.         *)
Ancestors(c) ==
    LET upTo[n \in 0 .. c] == IF n = 0 THEN {} ELSE {n} \cup upTo[commits[n].parent]
    IN  upTo[c]

MergeBase(a, b) ==
    CHOOSE c \in Ancestors(a) \cap Ancestors(b) :
        \A other \in Ancestors(a) \cap Ancestors(b) : other <= c

(* A squash merge takes from one side the files it changed since the merge *)
(* base, and the others from the other side; git refuses when both changed *)
(* a file.                                                                 *)
TakeChanged(fork, theirs, ours) ==
    [f \in DOMAIN theirs |-> IF fork[f] # theirs[f] THEN theirs[f] ELSE ours[f]]

TakeChanges(fork, theirs, ours) ==
    [src |-> TakeChanged(fork.src, theirs.src, ours.src),
     doc |-> TakeChanged(fork.doc, theirs.doc, ours.doc),
     side |-> TakeChanged(fork.side, theirs.side, ours.side)]

BothChanged(old, theirs, ours) == Changed(old, theirs) \cap Changed(old, ours) # {}

Conflict(theirs, ours) ==
    LET fork == TreeOf(MergeBase(theirs, ours))
    IN  \/ BothChanged(fork.src, TreeOf(theirs).src, TreeOf(ours).src)
        \/ BothChanged(fork.doc, TreeOf(theirs).doc, TreeOf(ours).doc)
        \/ BothChanged(fork.side, TreeOf(theirs).side, TreeOf(ours).side)

Merged(theirs, ours) ==
    TakeChanges(TreeOf(MergeBase(theirs, ours)), TreeOf(theirs), TreeOf(ours))

(* A local docs branch is merged, Main checked out and the branch deleted. *)
MergeBranch(b) ==
    LET merged == Merged(refs[b], refs[Main])
    IN  /\ RoomForCommit /\ IsClean
        /\ b # Main /\ refs[b] # 0
        /\ ~Conflict(refs[b], refs[Main])
        /\ merged # TreeOf(refs[Main])
        /\ commits' = Append(commits, [tree |-> merged, parent |-> refs[Main]])
        /\ refs' = [refs EXCEPT ![Main] = Len(commits) + 1, ![b] = 0]
        /\ head' = Main
        /\ index' = merged
        /\ worktree' = merged
        /\ UNCHANGED edits
=============================================================================
