------------------------------ MODULE LocalRun ------------------------------
(***************************************************************************)
(* One run of memorialiste up to its commit: the entry loop of main.run    *)
(* (watermark, diff, HEAD, generation), then output.Apply (branch, files,  *)
(* sidecars, commit), in a repository developers work in, run after run,   *)
(* with the watermark mode of each document changing between runs.         *)
(*                                                                         *)
(* Nothing undoes a step: an error, an exit and a kill leave the           *)
(* repository as the last completed step left it, so all are Fail.         *)
(***************************************************************************)
EXTENDS Repository

CONSTANTS
    Manifest,           \* the docs of the manifest: path, covered files, audience slug
    SidecarOrder,       \* every sidecar, in the order of slices.Sort
    MigrationSidecars,  \* the sidecars of --migration-sidecars and of the defaults
    Modes,              \* the assignments of a sidecar, or Nil, to each document
    DryRuns,            \* the values --dry-run is given
    Budget,             \* how many changed files fit the token budget
    MaxRuns,            \* bound on the number of runs; 0: none
    MaxModeChanges,     \* bound on the edits of watermarks_file in the manifest
    Faults,             \* subset of {"io", "torn", "empty"}
    CommitFree,         \* phases of a run during which no developer commits
    StageFree           \* phases of a run during which no developer stages

VARIABLES
    pc,         \* the next step of the run; "idle" between runs
    mode,       \* watermarks_file of each document, or Nil: frontmatter
    dry,        \* --dry-run of the run
    cur,        \* the position in the manifest
    asm,        \* the DiffContext being assembled
    plan,       \* the entries for Apply, then its write plan
    base,       \* the HEAD the branch is created at
    branch,     \* the name of the branch of the run
    removed,    \* removedFiles of the checkout: the files it took out of the index
    k,          \* the position in the plan
    touched,    \* touchedSidecars
    skipped,    \* SkippedEntries: the documents the model had no text for
    outcome,    \* how the last run ended
    started,    \* the commit the run started from (history only)
    runs,       \* how many runs were started
    modeChanges

settings == << mode, dry, started, runs, modeChanges >>      \* fixed during a run
entryVars == << cur, asm >>
applyVars == << base, branch, removed, k, touched >>
resultVars == << skipped, outcome >>
runVars == << pc, plan, settings, entryVars, applyVars, resultVars >>
vars == << repoVars, runVars >>

(* The last phase, and the last three outcomes, belong to module Delivery. *)
Phases == {"read", "diff", "resolve", "generate", "plan", "branch", "ref", "checkout",
           "resetIndex", "resetFiles", "write", "sidecar", "stage", "commit", "committed",
           "request"}
Outcomes == {"none", "nothing", "written", "committed", "exists", "unstaged", "budget",
             "empty commit", "failed", "opened", "push failed", "request failed"}

NoContext == [wm |-> NoMark, text |-> NoText, diff |-> {}, seen |-> NoText]

DocEntry == [path : Doc, covers : SUBSET Src, audience : (Branch \ {Main}) \cup {Nil}]

Entry == [doc : Doc, text : Text \cup {Nil}, sha : Mark,
          audience : (Branch \ {Main}) \cup {Nil}, side : Sidecar \cup {Nil}]

ASSUME LocalRunAssumption ==
    /\ Manifest \in Seq(DocEntry) /\ Manifest # << >>
    /\ {"common", "multi"} \subseteq Branch \ {Main}
    /\ SidecarOrder \in Seq(Sidecar)
    /\ MigrationSidecars \subseteq Sidecar
    /\ Modes \subseteq [Doc -> Sidecar \cup {Nil}]
    /\ DryRuns \subseteq BOOLEAN
    /\ Budget \in Nat /\ MaxRuns \in Nat /\ MaxModeChanges \in Nat
    /\ CommitFree \cup StageFree \subseteq Phases \cup {"idle"}

RunTypeOK ==
    /\ pc \in Phases \cup {"idle"}
    /\ mode \in [Doc -> Sidecar \cup {Nil}]
    /\ dry \in BOOLEAN
    /\ cur \in Nat
    /\ asm \in [wm : Mark, text : Text, diff : SUBSET Src, seen : Text]
    /\ plan \in Seq(Entry)
    /\ base \in Nat
    /\ branch \in Branch
    /\ removed \in [src : SUBSET Src, doc : SUBSET Doc, side : SUBSET Sidecar]
    /\ k \in Nat
    /\ touched \subseteq Sidecar
    /\ skipped \subseteq Doc
    /\ outcome \in Outcomes
    /\ started \in Nat
    /\ runs \in 0 .. MaxRuns
    /\ modeChanges \in 0 .. MaxModeChanges

TypeOK == RepoTypeOK /\ RunTypeOK

(* What a phase may rely on: the steps before it have done their part, and *)
(* nothing that happened since has undone it.                              *)
HasBodies == {"branch", "ref", "checkout", "resetIndex", "resetFiles", "write",
              "sidecar", "stage", "commit", "committed"}

ControlOK ==
    /\ pc \in {"read", "diff", "resolve", "generate"} => cur \in DOMAIN Manifest
    /\ pc = "generate" => plan # << >>
    /\ pc \in HasBodies => k \in DOMAIN plan /\ plan[k].text # Nil
    /\ pc = "sidecar" => plan[k].side # Nil
    /\ pc = "ref" => base \in Commit /\ refs[branch] = 0
    /\ pc = "checkout" => base \in Commit /\ refs[branch] = base /\ head # branch
    /\ pc \in {"resetIndex", "resetFiles"} => base \in Commit /\ head = branch
    /\ pc \in Phases \ {"committed", "request"} => Len(commits) < MaxCommits

Init ==
    /\ RepoInit
    /\ pc = "idle"
    /\ mode \in Modes
    /\ dry = FALSE
    /\ cur = 0
    /\ asm = NoContext
    /\ plan = << >>
    /\ base = 0
    /\ branch = "common"
    /\ removed = NoFiles
    /\ k = 0
    /\ touched = {}
    /\ skipped = {}
    /\ outcome = "none"
    /\ started = 0
    /\ runs = 0
    /\ modeChanges = 0

-----------------------------------------------------------------------------
(* The run ends; what it held in memory is gone.                           *)
FinishSkipping(result, docs) ==
    /\ pc' = "idle"
    /\ outcome' = result /\ skipped' = docs
    /\ cur' = 0 /\ asm' = NoContext /\ plan' = << >> /\ base' = 0 /\ k' = 0
    /\ touched' = {} /\ dry' = FALSE /\ branch' = "common" /\ removed' = NoFiles
    /\ UNCHANGED << mode, started, runs, modeChanges >>

Finish(result) == FinishSkipping(result, skipped)

Start ==
    /\ pc = "idle" /\ RoomForCommit
    /\ MaxRuns = 0 \/ runs < MaxRuns
    /\ Tidy => IsClean
    /\ dry' \in DryRuns
    /\ pc' = "read"
    /\ cur' = 1
    /\ runs' = IF MaxRuns = 0 THEN 0 ELSE runs + 1
    /\ outcome' = "none" /\ skipped' = {}
    /\ started' = HeadCommit
    /\ UNCHANGED << repoVars, mode, modeChanges, asm, applyVars, plan >>

-----------------------------------------------------------------------------
(* context.Assemble, for the entry at position cur.                        *)

(* migrationSidecars of main.run.                                          *)
Migration ==
    MigrationSidecars \cup ({mode[Manifest[i].path] : i \in DOMAIN Manifest} \ {Nil})

(* Mutant: only the place the manifest names is read.                      *)
ReadWatermarkInPlace(disk, d) ==
    IF mode[d] # Nil
    THEN Lookup(Load(disk.side[mode[d]]), d)
    ELSE FrontmatterOf(disk.doc[d])

(* readWatermarkForDoc.  With a sidecar: its record, else the frontmatter. *)
(* Without one: the frontmatter, else the first migration sidecar, in name *)
(* order, that has a record.                                               *)
ReadWatermark(disk, d) ==
    LET front == FrontmatterOf(disk.doc[d])
        recs(w) == Load(disk.side[w])
        own == recs(mode[d])
        known == {i \in DOMAIN SidecarOrder :
                    /\ SidecarOrder[i] \in Migration
                    /\ HasRecord(recs(SidecarOrder[i]), d)}
        first == CHOOSE i \in known : \A j \in known : i <= j
    IN  IF mode[d] # Nil
        THEN IF HasRecord(own, d) THEN Lookup(own, d) ELSE front
        ELSE IF front # NoMark \/ known = {}
             THEN front
             ELSE Lookup(recs(SidecarOrder[first]), d)

(* The watermark and the body, both read from the disk.                    *)
ReadDoc ==
    LET d == Manifest[cur].path
    IN  /\ pc = "read"
        /\ asm' = [NoContext EXCEPT !.wm = ReadWatermark(worktree, d),
                                    !.text = TextOf(worktree.doc[d])]
        /\ pc' = "diff"
        /\ UNCHANGED << repoVars, settings, cur, applyVars, resultVars, plan >>

(* Mutant: every diff starts at the empty tree.                            *)
DiffSinceEmptyTree(wm, covers) == {s \in covers : HeadTree.src[s] # 0}

(* Mutant: a document without a watermark starts at HEAD.                  *)
DiffSinceHEAD(wm, covers) ==
    {s \in covers : wm # NoMark /\ TreeOf(wm).src[s] # HeadTree.src[s]}

(* computeDiff: the covered files that differ between the watermark's      *)
(* commit, or the empty tree, and the commit HEAD names now.               *)
DiffSince(wm, covers) ==
    LET from == IF wm = NoMark THEN NoText ELSE TreeOf(wm).src
    IN  {s \in covers : from[s] # HeadTree.src[s]}

(* Mutant: the two sides of the diff are swapped.                          *)
ComputeDiffReversed ==
    /\ pc = "diff"
    /\ asm' = [asm EXCEPT !.diff = DiffSince(asm.wm, Manifest[cur].covers),
                          !.seen = IF asm.wm = NoMark THEN NoText ELSE TreeOf(asm.wm).src]
    /\ pc' = "resolve"
    /\ UNCHANGED << repoVars, settings, cur, applyVars, resultVars, plan >>

ComputeDiff ==
    /\ pc = "diff"
    /\ asm' = [asm EXCEPT !.diff = DiffSince(asm.wm, Manifest[cur].covers),
                          !.seen = HeadTree.src]
    /\ pc' = "resolve"
    /\ UNCHANGED << repoVars, settings, cur, applyVars, resultVars, plan >>

AfterEntry == IF cur < Len(Manifest) THEN "read" ELSE "plan"

(* The rest of Assemble and the test for an empty diff: HEAD is read       *)
(* again, for the stamp; the budget is enforced, and main passes no        *)
(* Summariser, so a diff over it is an error that ends the run.            *)
OverBudget ==
    /\ pc = "resolve" /\ Cardinality(asm.diff) > Budget
    /\ Finish("budget")
    /\ UNCHANGED repoVars

(* Mutant: an empty diff ends the loop.                                    *)
SkipEntryAndRest ==
    /\ pc = "resolve" /\ asm.diff = {}
    /\ pc' = "plan"
    /\ asm' = NoContext
    /\ UNCHANGED << repoVars, settings, cur, applyVars, resultVars, plan >>

SkipEntry ==
    /\ pc = "resolve" /\ asm.diff = {}
    /\ pc' = AfterEntry
    /\ cur' = cur + 1
    /\ asm' = NoContext
    /\ UNCHANGED << repoVars, settings, applyVars, resultVars, plan >>

(* Mutant: the newest commit of the repository is taken for HEAD.          *)
ResolveNewest ==
    /\ pc = "resolve" /\ asm.diff # {} /\ Cardinality(asm.diff) <= Budget
    /\ plan' = Append(plan, [doc |-> Manifest[cur].path, text |-> Nil, sha |-> Len(commits),
                             audience |-> Manifest[cur].audience,
                             side |-> mode[Manifest[cur].path]])
    /\ pc' = "generate"
    /\ UNCHANGED << repoVars, settings, entryVars, applyVars, resultVars >>

(* The new entry is stamped with the HEAD of this second reading; its text *)
(* is still to come.                                                       *)
ResolveHEAD ==
    /\ pc = "resolve" /\ asm.diff # {} /\ Cardinality(asm.diff) <= Budget
    /\ plan' = Append(plan, [doc |-> Manifest[cur].path, text |-> Nil, sha |-> HeadCommit,
                             audience |-> Manifest[cur].audience,
                             side |-> mode[Manifest[cur].path]])
    /\ pc' = "generate"
    /\ UNCHANGED << repoVars, settings, entryVars, applyVars, resultVars >>

(* The model answers with a text that describes what the diff shows and    *)
(* keeps the rest of the document, or with nothing.                        *)
Rewritten == [s \in Src |-> IF s \in asm.diff THEN asm.seen[s] ELSE asm.text[s]]

Generate ==
    /\ pc = "generate"
    /\ \E text \in {Rewritten} \cup (IF "empty" \in Faults THEN {Nil} ELSE {}) :
         plan' = [plan EXCEPT ![Len(plan)].text = text]
    /\ pc' = AfterEntry
    /\ cur' = cur + 1
    /\ asm' = NoContext
    /\ UNCHANGED << repoVars, settings, applyVars, resultVars >>

-----------------------------------------------------------------------------
(* output.Apply.                                                           *)

(* Mutant: an empty answer is written like any other.                      *)
EmptyBodiesToo == DOMAIN plan

(* Phase 1: the entries with a body are the write plan, the others are     *)
(* skipped.                                                                *)
Bodies == {i \in DOMAIN plan : plan[i].text # Nil}
PlannedDocs == {plan[i].doc : i \in Bodies}
SkippedDocs == {plan[i].doc : i \in DOMAIN plan \ Bodies}

PlanNothing ==
    /\ pc = "plan" /\ Bodies = {}
    /\ FinishSkipping(IF dry THEN "written" ELSE "nothing", SkippedDocs)
    /\ UNCHANGED repoVars

(* The next entry of the write plan after a position.                      *)
IsNext(i, after) ==
    /\ i \in Bodies /\ i > after
    /\ \A j \in Bodies : j > after => i <= j

(* A dry run goes straight to the files.                                   *)
PlanWrites ==
    /\ pc = "plan"
    /\ \E i \in Bodies : IsNext(i, 0) /\ k' = i
    /\ skipped' = SkippedDocs
    /\ pc' = IF dry THEN "write" ELSE "branch"
    /\ UNCHANGED << repoVars, settings, entryVars, base, branch, removed, touched >>
    /\ UNCHANGED << plan, outcome >>

(* branchName, without the constant prefix.                                *)
BranchName ==
    LET slugs == {plan[i].audience : i \in Bodies} \ {Nil}
    IN  CASE slugs = {} -> "common"
          [] \E b \in slugs : slugs = {b} -> CHOOSE b \in slugs : TRUE
          [] OTHER -> "multi"

(* Mutant: nobody looks whether the branch is there.                       *)
ResolveBranchUnchecked ==
    /\ pc = "branch"
    /\ branch' = BranchName
    /\ base' = HeadCommit
    /\ pc' = "ref"
    /\ UNCHANGED << repoVars, settings, entryVars, removed, k, touched, resultVars, plan >>

(* Phase 2: HEAD is read, the branch named and looked up.                  *)
ResolveBranch ==
    /\ pc = "branch" /\ refs[BranchName] = 0
    /\ branch' = BranchName
    /\ base' = HeadCommit
    /\ pc' = "ref"
    /\ UNCHANGED << repoVars, settings, entryVars, removed, k, touched, resultVars, plan >>

BranchExists ==
    /\ pc = "branch" /\ refs[BranchName] # 0
    /\ Finish("exists")
    /\ UNCHANGED repoVars

CreateRef ==
    /\ pc = "ref"
    /\ refs' = [refs EXCEPT ![branch] = base]
    /\ pc' = "checkout"
    /\ UNCHANGED << commits, head, index, worktree, edits >>
    /\ UNCHANGED << settings, entryVars, applyVars, resultVars, plan >>

(* Worktree.Checkout, and the Worktree.Reset it ends in.  The commit the   *)
(* branch is at has been read (base); HEAD names the branch before anybody *)
(* looks for unstaged changes.                                             *)
CheckoutRefused ==
    /\ pc = "checkout" /\ Unstaged(index, worktree)
    /\ head' = branch
    /\ Finish("unstaged")
    /\ UNCHANGED << commits, refs, index, worktree, edits >>

CheckoutHead ==
    /\ pc = "checkout" /\ ~Unstaged(index, worktree)
    /\ head' = branch
    /\ pc' = "resetIndex"
    /\ UNCHANGED << commits, refs, index, worktree, edits >>
    /\ UNCHANGED << settings, entryVars, applyVars, resultVars, plan >>

(* Mutant: the index stays as it is (the Keep of CheckoutOptions).         *)
ResetIndexKeeping ==
    /\ pc = "resetIndex"
    /\ refs' = [refs EXCEPT ![head] = base]
    /\ pc' = "resetFiles"
    /\ UNCHANGED << commits, head, index, worktree, edits >>
    /\ UNCHANGED << settings, entryVars, applyVars, resultVars, plan >>

(* The branch HEAD names is set to the commit read before (setHEADCommit), *)
(* whatever came on top of it since; then the index becomes that commit's  *)
(* tree (resetIndex), and the entries that changes are remembered.         *)
ResetIndex ==
    /\ pc = "resetIndex"
    /\ refs' = [refs EXCEPT ![head] = base]
    /\ index' = TreeOf(base)
    /\ removed' = Changes(index, TreeOf(base))
    /\ pc' = "resetFiles"
    /\ UNCHANGED << commits, head, worktree, edits >>
    /\ UNCHANGED << settings, entryVars, base, branch, k, touched, resultVars, plan >>

(* Mutant: all the files are reset (the Force of CheckoutOptions).         *)
ResetFilesForced ==
    /\ pc = "resetFiles"
    /\ worktree' = TreeOf(base)
    /\ removed' = NoFiles
    /\ pc' = "write"
    /\ UNCHANGED << commits, refs, head, index, edits >>
    /\ UNCHANGED << settings, entryVars, base, branch, k, touched, resultVars, plan >>

(* resetWorktree, for the remembered files.                                *)
ResetFiles ==
    /\ pc = "resetFiles"
    /\ worktree' = RestoredTree(removed, index, TreeOf(base), worktree)
    /\ removed' = NoFiles
    /\ pc' = "write"
    /\ UNCHANGED << commits, refs, head, index, edits >>
    /\ UNCHANGED << settings, entryVars, base, branch, k, touched, resultVars, plan >>

(* Phase 3: writePlanned, one planned document after the other.            *)
IsLast == \A i \in Bodies : i <= k

AfterWrite ==
    /\ \/ pc' = "write" /\ \E i \in Bodies : IsNext(i, k) /\ k' = i
       \/ pc' = "stage" /\ IsLast /\ ~dry /\ k' = k
    /\ UNCHANGED << plan, settings, entryVars, base, branch, removed, resultVars >>

(* Mutant: the stamp is the HEAD of Apply, not the one of the diff.        *)
WriteFileStampingHEAD ==
    LET e == plan[k]
    IN  /\ pc = "write" /\ e.side = Nil
        /\ worktree' = [worktree EXCEPT !.doc[e.doc] =
                            [mark |-> HeadCommit, shows |-> e.text]]
        /\ \/ AfterWrite /\ UNCHANGED touched
           \/ IsLast /\ dry /\ Finish("written")
        /\ UNCHANGED << commits, refs, head, index, edits >>

WriteFile ==
    LET e == plan[k]
    IN  /\ pc = "write" /\ e.side = Nil
        /\ worktree' = [worktree EXCEPT !.doc[e.doc] = [mark |-> e.sha, shows |-> e.text]]
        /\ \/ AfterWrite /\ UNCHANGED touched
           \/ IsLast /\ dry /\ Finish("written")
        /\ UNCHANGED << commits, refs, head, index, edits >>

WriteFileNoFrontmatter ==
    LET e == plan[k]
    IN  /\ pc = "write" /\ e.side # Nil
        /\ worktree' = [worktree EXCEPT !.doc[e.doc] =
                            [mark |-> NoMark, shows |-> e.text]]
        /\ pc' = "sidecar"
        /\ UNCHANGED << commits, refs, head, index, edits >>
        /\ UNCHANGED << settings, entryVars, applyVars, resultVars, plan >>

(* Mutant: the same in a sidecar.                                          *)
SaveSidecarStampingHEAD ==
    LET e == plan[k]
        recs == Load(worktree.side[e.side])
    IN  /\ pc = "sidecar"
        /\ worktree' = [worktree EXCEPT !.side[e.side] = Upsert(recs, e.doc, HeadCommit)]
        /\ \/ AfterWrite /\ touched' = touched \cup {e.side}
           \/ IsLast /\ dry /\ Finish("written")
        /\ UNCHANGED << commits, refs, head, index, edits >>

(* Load, Upsert and Save of the entry's sidecar.                           *)
SaveSidecar ==
    LET e == plan[k]
        recs == Load(worktree.side[e.side])
    IN  /\ pc = "sidecar"
        /\ worktree' = [worktree EXCEPT !.side[e.side] = Upsert(recs, e.doc, e.sha)]
        /\ \/ AfterWrite /\ touched' = touched \cup {e.side}
           \/ IsLast /\ dry /\ Finish("written")
        /\ UNCHANGED << commits, refs, head, index, edits >>

(* Mutants: the documents, or the sidecars, are not staged.                *)
StageSidecarsOnly ==
    /\ pc = "stage"
    /\ index' = Staged(index, worktree, {}, touched)
    /\ pc' = "commit"
    /\ UNCHANGED << commits, refs, head, worktree, edits >>
    /\ UNCHANGED << settings, entryVars, applyVars, resultVars, plan >>

StageDocsOnly ==
    /\ pc = "stage"
    /\ index' = Staged(index, worktree, PlannedDocs, {})
    /\ pc' = "commit"
    /\ UNCHANGED << commits, refs, head, worktree, edits >>
    /\ UNCHANGED << settings, entryVars, applyVars, resultVars, plan >>

(* Phase 4: the written files and the touched sidecars are staged.         *)
StageFiles ==
    /\ pc = "stage"
    /\ index' = Staged(index, worktree, PlannedDocs, touched)
    /\ pc' = "commit"
    /\ UNCHANGED << commits, refs, head, worktree, edits >>
    /\ UNCHANGED << settings, entryVars, applyVars, resultVars, plan >>

(* Worktree.Commit: the index becomes a commit on the branch HEAD names;   *)
(* go-git refuses a commit that changes nothing.                           *)
CommitIndex ==
    /\ pc = "commit"
    /\ IF index = HeadTree
       THEN Finish("empty commit") /\ UNCHANGED << commits, refs >>
       ELSE /\ AppendCommit(index)
            /\ pc' = "committed"
            /\ UNCHANGED << plan, settings, entryVars, applyVars, resultVars >>
    /\ UNCHANGED << head, index, worktree, edits >>

(* The push and the request that follow the commit, whatever becomes of    *)
(* them, leave the local repository with the branch, and HEAD on it.       *)
(* Module Delivery has them; here the run just ends.                       *)
Done ==
    /\ pc = "committed"
    /\ Finish("committed")
    /\ UNCHANGED repoVars

-----------------------------------------------------------------------------
(* An I/O error, an error of the provider, or the death of the process.    *)
(* os.WriteFile truncates before it writes ("torn"), and staging may stop  *)
(* anywhere: the documents are staged in the order of the plan, then the   *)
(* sidecars in no order.                                                   *)
FailCleanly ==
    /\ pc # "idle" /\ "io" \in Faults
    /\ Finish("failed")
    /\ UNCHANGED repoVars

FailTorn ==
    /\ "torn" \in Faults
    /\ \/ /\ pc = "write"
          /\ worktree' = [worktree EXCEPT !.doc[plan[k].doc] = EmptyPage]
       \/ /\ pc = "sidecar"
          /\ worktree' = [worktree EXCEPT !.side[plan[k].side] = << >>]
    /\ Finish("failed")
    /\ UNCHANGED << commits, refs, head, index, edits >>

FailStaging ==
    /\ pc = "stage" /\ "io" \in Faults
    /\ \E n \in 0 .. Len(plan), sides \in SUBSET touched :
         /\ sides # {} => n = Len(plan)
         /\ index' = Staged(index, worktree, {plan[i].doc : i \in {j \in Bodies : j <= n}}, sides)
    /\ Finish("failed")
    /\ UNCHANGED << commits, refs, head, worktree, edits >>

-----------------------------------------------------------------------------
(* The environment: developers save files at any time, and commit and stage*)
(* them but for the phases excluded; the operator acts between runs.       *)
Developer ==
    /\ \E s \in Src :
         \/ /\ pc \notin CommitFree
            /\ pc # "idle" => Len(commits) + 1 < MaxCommits    \* room for the run's own
            /\ DevCommit(s)
         \/ ~Tidy /\ DevEdit(s)
         \/ ~Tidy /\ pc \notin StageFree /\ DevStage(s)
    /\ UNCHANGED runVars

ChangeMode ==
    /\ pc = "idle" /\ modeChanges < MaxModeChanges
    /\ \E m \in Modes \ {mode} : mode' = m
    /\ modeChanges' = modeChanges + 1
    /\ UNCHANGED << repoVars, dry, started, runs >>
    /\ UNCHANGED << entryVars, applyVars, resultVars, pc, plan >>

Operator ==
    /\ pc = "idle"
    /\ \E b \in Branch : \/ ForceCheckout(b)
                         \/ ~Tidy /\ SwitchBranch(b)
                         \/ DeleteBranch(b)
                         \/ MergeBranch(b)
    /\ UNCHANGED runVars

AssembleStep ==
    ReadDoc \/ ComputeDiff \/ OverBudget \/ SkipEntry \/ ResolveHEAD \/ Generate

ApplyStep ==
    \/ PlanNothing \/ PlanWrites
    \/ ResolveBranch \/ BranchExists \/ CreateRef
    \/ CheckoutRefused \/ CheckoutHead \/ ResetIndex \/ ResetFiles
    \/ WriteFile \/ WriteFileNoFrontmatter \/ SaveSidecar
    \/ StageFiles \/ CommitIndex

Failure == FailCleanly \/ FailTorn \/ FailStaging

LocalStep == Start \/ AssembleStep \/ ApplyStep \/ Failure

Environment == Developer \/ ChangeMode \/ Operator

Next == LocalStep \/ Done \/ Environment

Spec == Init /\ [][Next]_vars
-----------------------------------------------------------------------------
(* Properties.                                                             *)

(* Every watermark recorded for a document in a tree, wherever it is kept. *)
MarksOf(tree, d) ==
    ({FrontmatterOf(tree.doc[d])} \cup {Lookup(Load(tree.side[w]), d) : w \in Sidecar})
    \ {NoMark}

(* The trees a later run can start from.                                   *)
Trees == {TreeOf(c) : c \in Commit} \cup (IF Tidy /\ ~IsClean THEN {} ELSE {worktree})

CoversOf(d) ==
    UNION {Manifest[i].covers : i \in {j \in DOMAIN Manifest : Manifest[j].path = d}}

(* A watermark says which changes the document already tells: no source    *)
(* file the document covers changed, up to the watermarked commit, without *)
(* the text describing that version or a later one.  Every later diff      *)
(* starts at the watermark (computeDiff), so a change this misses is never *)
(* documented.                                                             *)
MarksTruthful ==
    \A tree \in Trees, d \in Doc : \A m \in MarksOf(tree, d), s \in CoversOf(d) :
        TreeOf(m).src[s] <= TextOf(tree.doc[d])[s]

(* The model is called for a document only when it is behind: some covered *)
(* file has a version its text does not describe (the empty-diff skip of   *)
(* main.run).                                                              *)
OnlyWhenBehind ==
    pc = "generate" => \E s \in asm.diff : asm.seen[s] # asm.text[s]

(* The commit of a run is its parent with the planned documents rewritten  *)
(* and their watermarks stamped where the manifest keeps them, and nothing *)
(* else: no source file, no other document, no other document's record.    *)
CommitHoldsPlan(new, old) ==
    LET last(d) == CHOOSE i \in Bodies :
                       plan[i].doc = d /\ \A j \in Bodies : plan[j].doc = d => j <= i
        records(tree, w, d) == Lookup(Load(tree.side[w]), d)
    IN  /\ new.src = old.src
        /\ \A d \in Doc \ PlannedDocs :
             /\ new.doc[d] = old.doc[d]
             /\ \A w \in Sidecar : records(new, w, d) = records(old, w, d)
        /\ \A d \in PlannedDocs :
             LET e == plan[last(d)]
             IN  /\ new.doc[d] = [mark |-> IF e.side = Nil THEN e.sha ELSE NoMark,
                                  shows |-> e.text]
                 /\ \A w \in Sidecar :
                      records(new, w, d) =
                          IF w = e.side THEN e.sha ELSE records(old, w, d)

CommitExact ==
    [][pc = "commit" /\ pc' = "committed" =>
        CommitHoldsPlan(commits'[Len(commits')].tree, HeadTree)]_vars
(* A run that ends without an error leaves no covered change behind: every *)
(* document it did not skip for an empty answer describes the sources of   *)
(* the commit the run started from, whether the run wrote it or found its  *)
(* diff empty.                                                             *)
NothingMissed ==
    [][pc # "idle" /\ outcome' \in {"nothing", "written", "committed"} =>
        \A d \in Doc \ skipped' : \A s \in CoversOf(d) :
            TreeOf(started).src[s] <= TextOf(worktree'.doc[d])[s]]_vars

(* Assemble starts the diff at the newest watermark the repository holds   *)
(* for the document, through every change of its mode.                     *)
FreshWatermark ==
    pc = "diff" =>
        LET marks == MarksOf(worktree, Manifest[cur].path)
        IN  /\ marks = {} => asm.wm = NoMark
            /\ marks # {} => asm.wm \in marks /\ \A m \in marks : m <= asm.wm

(* The source files a run may still overwrite: those whose staged version  *)
(* is not the one the run's branch starts from.  Once resetIndex has gone  *)
(* over the index, the files it has remembered.                            *)
Exposed ==
    LET tree == IF pc \in {"ref", "checkout", "resetIndex"} THEN TreeOf(base) ELSE HeadTree
    IN  Changed(tree.src, index.src) \cup (IF pc = "resetFiles" THEN removed.src ELSE {})

(* No step of a run changes or removes a source file a developer has saved *)
(* and not staged, whenever the file was saved: the unstaged changes are   *)
(* looked for before the index is reset, and the files on disk only after  *)
(* it.  And no step of a run exposes a file to a later one.  What is saved *)
(* on top of a staged version, between that look and the reset, is lost:   *)
(* such files are Exposed.                                                 *)
EditsSurvive ==
    [][\A s \in Src : pc # "idle" /\ runVars' # runVars /\ s \notin Exposed =>
        worktree'.src[s] = worktree.src[s] /\ (pc' # "idle" => s \notin Exposed')]_vars

(* Within a run the only branches that move are the one it creates and the *)
(* one HEAD names: a docs branch waiting for its merge is never rewritten. *)
BranchesKept ==
    [][pc # "idle" =>
        \A b \in Branch : refs[b] # 0 /\ b # head => refs'[b] = refs[b]]_vars

(* A run that has something to write always has something to commit: the   *)
(* stamp it writes is the commit it started from, which no tree it can     *)
(* start from already carries.                                             *)
NeverEmptyCommit == outcome # "empty commit"

(* Checking out the branch just created at HEAD changes no file on disk    *)
(* (the comment in Apply: "a no-op for the worktree contents").            *)
CheckoutKeepsFiles ==
    [][pc = "resetFiles" /\ pc' = "write" => worktree' = worktree]_vars

(* Seen from the history, runs document whole snapshots in whole commits,  *)
(* on branches that were free: the watermarks, the incremental diffs and   *)
(* everything a run leaves behind when it fails make no difference.        *)
Promise == INSTANCE Documentation WITH
    Covers <- [d \in Doc |-> CoversOf(d)],
    history <- [c \in Commit |->
                  [src |-> TreeOf(c).src,
                   told |-> [d \in Doc |-> TextOf(TreeOf(c).doc[d])],
                   parent |-> commits[c].parent]],
    tips <- refs,
    snapshot <- started

ImplementsDocumentation == Promise!Spec
=============================================================================
