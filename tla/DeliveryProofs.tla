--------------------------- MODULE DeliveryProofs ---------------------------
(***************************************************************************)
(* Whole runs, in any clones, beside a team and other jobs: what LocalRun  *)
(* relies on still holds when commits appear and clones are thrown away    *)
(* around it, a run that reports a request has one for its commit, and     *)
(* what the platform holds is truthful, reachable and never taken back.    *)
(***************************************************************************)
EXTENDS Delivery, MarksProofs

RemoteOK ==
    /\ remote \in [Branch -> 0 .. Len(commits)]
    /\ remote[Main] # 0
    /\ mr \in [Branch -> MRStates]

(* What was pushed is still there when the request is made, or nothing is. *)
JustPushed ==
    "request" \notin Rivals /\ pc = "request" => remote[branch] \in {0, refs[branch]}

(* The inductive invariant: that of a local run, the platform's types, that*)
(* no run works on Main, and what holds between a push and its request.    *)
DInv == IInv /\ RemoteOK /\ branch # Main /\ JustPushed

(* The invariant holds at the start.                                       *)
LEMMA DeliveryInitInv == DeliveryInit => DInv
<1>. SUFFICES ASSUME DeliveryInit PROVE DInv
  OBVIOUS
<1>1. IInv
  BY InitInv DEF DeliveryInit
<1>2. RemoteOK
  BY <1>1 DEF DeliveryInit, RemoteOK, MRStates, IInv, TypeOK, RepoTypeOK
<1>3. branch # Main /\ JustPushed
  BY LocalRunAssumption DEF DeliveryInit, Init, JustPushed
<1>. QED
  BY <1>1, <1>2, <1>3 DEF DInv

(* Both clones of the platform start from a new directory.                 *)
LEMMA DeliverySteps ==
    ASSUME [DeliveryNext]_deliveryVars
    PROVE  \/ LocalWork \/ UnknownWatermark \/ DeliveryStep
           \/ Team
           \/ NewDirectory \/ Pull \/ DeleteLocalBranch
           \/ UNCHANGED deliveryVars
BY DEF DeliveryNext, Clone, ShallowClone

-----------------------------------------------------------------------------
(* What the steps up to the commit leave to the push: they do not shorten  *)
(* the history, choose Main, or report a request.                          *)
Leaves ==
    /\ commits' = commits \/ \E tree : AppendCommit(tree)
    /\ branch' \in {branch, "common", BranchName}
    /\ pc' # "request"
    /\ outcome' = outcome \/ outcome' # "opened"

(* The end of a run leaves them too.                                       *)
LEMMA FinishLeaves ==
    ASSUME NEW result, result # "opened", NEW docs, FinishSkipping(result, docs),
           commits' = commits
    PROVE  Leaves
BY DEF FinishSkipping, Leaves

(* The steps of Assemble and Generate leave them.                          *)
LEMMA AssembleLeaves == AssembleStep => Leaves
<1>1. AfterEntry # "request"
  BY DEF AfterEntry
<1>2. OverBudget => Leaves
  BY FinishLeaves DEF OverBudget, Finish, repoVars
<1>3. ReadDoc \/ ComputeDiff \/ SkipEntry \/ ResolveHEAD \/ Generate => Leaves
  BY <1>1 DEF ReadDoc, ComputeDiff, SkipEntry, ResolveHEAD, Generate, Leaves, repoVars,
              settings, entryVars, applyVars, resultVars
<1>. QED
  BY <1>2, <1>3 DEF AssembleStep

(* The steps of Apply leave them.                                          *)
LEMMA ApplyLeaves == ApplyStep => Leaves
<1>1. PlanNothing => Leaves
  BY FinishLeaves DEF PlanNothing, repoVars
<1>2. BranchExists \/ CheckoutRefused => Leaves
  BY FinishLeaves DEF BranchExists, CheckoutRefused, Finish, repoVars
<1>3. PlanWrites \/ ResolveBranch \/ CreateRef \/ CheckoutHead \/ ResetIndex \/ ResetFiles
        \/ StageFiles \/ WriteFileNoFrontmatter => Leaves
  BY DEF PlanWrites, ResolveBranch, CreateRef, CheckoutHead, ResetIndex, ResetFiles, StageFiles,
         WriteFileNoFrontmatter, Leaves, repoVars, settings, entryVars, applyVars, resultVars
<1>4. AfterWrite /\ commits' = commits => Leaves
  BY DEF AfterWrite, Leaves, resultVars
<1>5. Finish("written") /\ commits' = commits => Leaves
  BY FinishLeaves DEF Finish
<1>6. WriteFile \/ SaveSidecar => Leaves
  BY <1>4, <1>5 DEF WriteFile, SaveSidecar
<1>7. CommitIndex => Leaves
  <2>1. CommitIndex /\ index = HeadTree => Leaves
    BY FinishLeaves DEF CommitIndex, Finish
  <2>2. CommitIndex /\ index # HeadTree => Leaves
    BY DEF CommitIndex, Leaves, applyVars, resultVars
  <2>. QED
    BY <2>1, <2>2
<1>. QED
  BY <1>1, <1>2, <1>3, <1>6, <1>7 DEF ApplyStep

(* Every step of LocalRun that Delivery takes over leaves them.            *)
LEMMA LocalStepLeaves == LocalStep => Leaves
<1>1. Start => Leaves
  BY DEF Start, Leaves, repoVars, applyVars
<1>2. Failure => Leaves
  BY FinishLeaves DEF Failure, FailCleanly, FailTorn, FailStaging, Finish, repoVars
<1>. QED
  BY <1>1, <1>2, AssembleLeaves, ApplyLeaves DEF LocalStep

(* A step up to the commit keeps the invariant.                            *)
LEMMA LocalWorkInv == DInv /\ LocalWork => DInv'
<1>. SUFFICES ASSUME DInv, LocalWork PROVE DInv'
  OBVIOUS
<1>1. IInv'
  BY NextInv DEF DInv, LocalWork, Next
<1>2. Leaves
  BY LocalStepLeaves DEF LocalWork
<1>3. Len(commits') >= Len(commits) /\ Len(commits) \in Nat /\ Len(commits') \in Nat
  <2>1. /\ commits \in Seq([tree : Tree, parent : Nat])
        /\ commits' \in Seq([tree : Tree, parent : Nat])
    BY <1>1 DEF DInv, IInv, TypeOK, RepoTypeOK
  <2>2. CASE commits' = commits
    BY <2>1, <2>2
  <2>3. ASSUME NEW tree, AppendCommit(tree) PROVE Len(commits') = Len(commits) + 1
    BY <2>1, <2>3 DEF AppendCommit
  <2>. QED
    BY <1>2, <2>1, <2>2, <2>3 DEF Leaves
<1>4. RemoteOK'
  BY <1>3 DEF DInv, RemoteOK, LocalWork, remoteVars
<1>5. branch' # Main
  BY <1>2, BranchNameIsNotMain, LocalRunAssumption DEF DInv, Leaves, IInv, TypeOK
<1>6. JustPushed'
  BY <1>2 DEF Leaves, JustPushed
<1>. QED
  BY <1>1, <1>4, <1>5, <1>6 DEF DInv

-----------------------------------------------------------------------------
(* However a run ends, what it leaves satisfies the invariant.             *)
LEMMA RunEnds ==
    ASSUME DInv, RepoTypeOK', RemoteOK', NEW result \in Outcomes, Finish(result)
    PROVE  DInv'
<1>1. RunTypeOK' /\ ControlOK' /\ pc' = "idle"
  BY FinishKeeps DEF Finish, DInv, IInv, TypeOK, RunTypeOK
<1>2. branch' # Main
  BY LocalRunAssumption DEF Finish, FinishSkipping
<1>. QED
  BY <1>1, <1>2 DEF DInv, IInv, TypeOK, JustPushed

(* A push, whatever becomes of it, keeps the invariant.                    *)
LEMMA PushInv == DInv /\ Push => DInv'
<1>. SUFFICES ASSUME DInv, Push PROVE DInv'
  OBVIOUS
<1>1. RepoTypeOK' /\ commits' = commits /\ refs' = refs
  BY RepoUnchanged DEF DInv, IInv, TypeOK, Push, repoVars
<1>2. RemoteOK'
  <2>1. /\ remote' = [remote EXCEPT ![branch] = refs[branch]] /\ mr' = mr
        /\ refs[branch] \in 0 .. Len(commits)
    BY DEF DInv, IInv, TypeOK, RepoTypeOK, RunTypeOK, Push, repoVars
  <2>2. remote' \in [Branch -> 0 .. Len(commits)] /\ remote'[Main] # 0
    BY <2>1, RepositoryAssumption DEF DInv, RemoteOK
  <2>. QED
    BY <1>1, <2>1, <2>2 DEF DInv, RemoteOK
<1>3. CASE pc' = "request" /\ UNCHANGED << plan, settings, entryVars, applyVars, resultVars >>
  <2>1. RunTypeOK' /\ branch' # Main
    BY <1>3 DEF DInv, IInv, TypeOK, RunTypeOK, Phases, settings, entryVars, applyVars, resultVars
  <2>2. ControlOK'
    BY <1>3 DEF ControlOK, HasBodies, Phases
  <2>3. remote'[branch'] = refs'[branch']
    BY <1>1, <1>3 DEF DInv, IInv, TypeOK, RunTypeOK, RemoteOK, Push, applyVars
  <2>. QED
    BY <1>1, <1>2, <2>1, <2>2, <2>3 DEF DInv, IInv, TypeOK, JustPushed
<1>4. CASE Finish("push failed")
  BY <1>1, <1>2, <1>4, RunEnds DEF Outcomes
<1>. QED
  BY <1>3, <1>4 DEF Push

(* A refused push keeps the invariant, and so does the end of a run that    *)
(* does not find a watermark.                                              *)
LEMMA PushRefusedInv == DInv /\ (PushRefused \/ UnknownWatermark) => DInv'
<1>. SUFFICES ASSUME DInv, PushRefused \/ UnknownWatermark PROVE DInv'
  OBVIOUS
<1>1. RepoTypeOK' /\ RemoteOK'
  BY RepoUnchanged DEF DInv, IInv, TypeOK, RemoteOK, PushRefused, UnknownWatermark, repoVars,
                       remoteVars
<1>. QED
  BY <1>1, RunEnds DEF PushRefused, UnknownWatermark, Outcomes

(* The request, granted or not, keeps the invariant.                       *)
LEMMA RequestInv == DInv /\ (OpenChangeRequest \/ ChangeRequestRefused) => DInv'
<1>. SUFFICES ASSUME DInv, OpenChangeRequest \/ ChangeRequestRefused PROVE DInv'
  OBVIOUS
<1>1. RepoTypeOK' /\ commits' = commits
  BY RepoUnchanged DEF DInv, IInv, TypeOK, OpenChangeRequest, ChangeRequestRefused, repoVars
<1>2. RemoteOK'
  BY <1>1
  DEF DInv, RemoteOK, OpenChangeRequest, ChangeRequestRefused, remoteVars, MRStates
<1>. QED
  BY <1>1, <1>2, RunEnds DEF OpenChangeRequest, ChangeRequestRefused, Outcomes

-----------------------------------------------------------------------------
(* A commit somebody adds to the history keeps what the run relies on,     *)
(* since room is left for its own.                                         *)
LEMMA CommitBesideRun ==
    ASSUME DInv, RoomBesideRun, NEW tree \in Tree, NEW parent \in Nat,
           commits' = Append(commits, [tree |-> tree, parent |-> parent]),
           UNCHANGED << refs, head, index, worktree >>, edits' \in 0 .. MaxEdits,
           UNCHANGED runVars
    PROVE  IInv' /\ Len(commits') = Len(commits) + 1
<1>1. Len(commits) \in Nat /\ RoomForCommit /\ (pc # "idle" => Len(commits) + 1 < MaxCommits)
  BY RepositoryAssumption
  DEF DInv, IInv, TypeOK, RepoTypeOK, RoomBesideRun, RoomForCommit
<1>2. /\ commits' \in Seq([tree : Tree, parent : Nat])
      /\ Len(commits') = Len(commits) + 1 /\ Len(commits') \in 1 .. MaxCommits
  BY <1>1, NewCommit DEF DInv, IInv, TypeOK
<1>3. RepoTypeOK'
  BY <1>1, <1>2 DEF DInv, IInv, TypeOK, RepoTypeOK
<1>4. RunTypeOK' /\ UNCHANGED << pc, cur, plan, k, branch, base >>
  BY RunUnchanged
  DEF DInv, IInv, TypeOK, runVars, settings, entryVars, applyVars, resultVars
<1>5. (base \in Commit => base \in Commit') /\ (pc # "idle" => Len(commits') < MaxCommits)
  BY <1>1, <1>2 DEF Commit
<1>6. "idle" \notin Phases
  BY DEF Phases
<1>7. ControlOK'
  BY <1>4, <1>5, <1>6 DEF DInv, IInv, ControlOK, HasBodies
<1>. QED
  BY <1>2, <1>3, <1>4, <1>7 DEF IInv, TypeOK

(* A branch of the platform names a commit.                                *)
LEMMA RemoteCommitType ==
    ASSUME DInv, NEW b \in Branch, remote[b] # 0
    PROVE  remote[b] \in Commit /\ remote[b] \in Nat /\ TreeOf(remote[b]) \in Tree
<1>1. remote[b] \in 1 .. Len(commits)
  BY DEF DInv, RemoteOK
<1>. QED
  BY <1>1, CommittedTree DEF Commit, DInv, IInv, TypeOK

(* A change of the platform that keeps the branch of a pushed commit, or   *)
(* removes it, keeps the rest of the invariant.                            *)
LEMMA RemoteChanges ==
    ASSUME DInv, IInv', RemoteOK', UNCHANGED runVars, refs' = refs,
           "request" \notin Rivals /\ pc = "request" => remote'[branch] \in {0, remote[branch]}
    PROVE  DInv'
BY DEF DInv, JustPushed, runVars, applyVars

(* What the team and other jobs do keeps the invariant.                    *)
LEMMA TeamCommitInv ==
    ASSUME DInv, NEW s \in Src, TeamCommit(s), UNCHANGED runVars
    PROVE  DInv'
<1>. DEFINE tree == [TreeOf(remote[Main]) EXCEPT !.src[s] = edits + 2]
<1>1. remote[Main] \in Nat /\ TreeOf(remote[Main]) \in Tree /\ edits \in 0 .. MaxEdits
  BY RemoteCommitType, RepositoryAssumption DEF DInv, RemoteOK, IInv, TypeOK, RepoTypeOK
<1>2. edits' \in 0 .. MaxEdits /\ edits + 2 \in Nat
  BY <1>1, RepositoryAssumption DEF TeamCommit
<1>3. tree \in Tree
  BY <1>1, <1>2, NewVersionType
<1>4. /\ RoomBesideRun /\ UNCHANGED << refs, head, index, worktree, mr >>
      /\ commits' = Append(commits, [tree |-> tree, parent |-> remote[Main]])
      /\ remote' = [remote EXCEPT ![Main] = Len(commits) + 1]
  BY DEF TeamCommit, RemoteCommit
<1>. HIDE DEF tree
<1>5. IInv' /\ Len(commits') = Len(commits) + 1
  BY <1>1, <1>2, <1>3, <1>4, CommitBesideRun
<1>6. RemoteOK'
  BY <1>4, <1>5, RepositoryAssumption DEF DInv, RemoteOK, IInv, TypeOK, RepoTypeOK
<1>7. remote'[branch] = remote[branch] /\ refs' = refs
  BY <1>4 DEF DInv, RemoteOK, IInv, TypeOK, RunTypeOK
<1>. QED
  BY <1>5, <1>6, <1>7, RemoteChanges DEF DInv, JustPushed

(* Another job's commit on a branch the platform does not have.            *)
LEMMA RivalJobInv ==
    ASSUME DInv, NEW b \in Branch, RivalJob(b), UNCHANGED runVars
    PROVE  DInv'
<1>. DEFINE main == remote[Main]
            text(d) == [s \in Src |-> IF s \in CoversOf(d) THEN TreeOf(main).src[s] ELSE 0]
            page(d) == [mark |-> main, shows |-> text(d)]
            tree == [TreeOf(main) EXCEPT !.doc = [d \in Doc |-> page(d)]]
<1>1. main \in Nat /\ TreeOf(main) \in Tree
  BY RemoteCommitType, RepositoryAssumption DEF DInv, RemoteOK
<1>2. \A d \in Doc : page(d) \in Page
  BY <1>1, TreeParts DEF Page, Mark, Text
<1>3. tree \in Tree
  BY <1>1, <1>2 DEF Tree
<1>4. /\ pc \in Rivals /\ b # Main /\ RoomBesideRun
      /\ UNCHANGED << refs, head, index, worktree, edits >>
      /\ commits' = Append(commits, [tree |-> tree, parent |-> main])
      /\ remote' = [remote EXCEPT ![b] = Len(commits) + 1]
      /\ mr' = [mr EXCEPT ![b] = "open"]
  BY DEF RivalJob, RemoteCommit
<1>5. edits' \in 0 .. MaxEdits
  BY <1>4 DEF DInv, IInv, TypeOK, RepoTypeOK
<1>. HIDE DEF tree, main
<1>6. IInv' /\ Len(commits') = Len(commits) + 1
  BY <1>1, <1>3, <1>4, <1>5, CommitBesideRun
<1>7. RemoteOK'
  <2>1. Len(commits) \in Nat
    BY DEF DInv, IInv, TypeOK, RepoTypeOK
  <2>. QED
    BY <1>4, <1>6, <2>1, RepositoryAssumption DEF DInv, RemoteOK, MRStates
<1>. QED
  BY <1>4, <1>6, <1>7, RemoteChanges

(* A request that ends takes its branch with it, or leaves it as it is.    *)
LEMMA EndRequestKeeps ==
    ASSUME NEW n \in Nat, NEW b \in Branch, NEW state \in MRStates,
           NEW branches \in [Branch -> 0 .. n], branches[Main] # 0,
           mr \in [Branch -> MRStates], EndRequest(b, state, branches)
    PROVE  /\ remote' \in [Branch -> 0 .. n] /\ remote'[Main] # 0
           /\ mr' \in [Branch -> MRStates]
           /\ \A c \in Branch : remote'[c] \in {0, branches[c]}
           /\ UNCHANGED << refs, head, index, worktree, edits >>
BY RepositoryAssumption DEF EndRequest, MRStates

(* A merge adds a commit to Main.                                          *)
LEMMA MergeRequestInv ==
    ASSUME DInv, NEW b \in Branch, remote[b] # 0, MergeRequest(b), UNCHANGED runVars
    PROVE  DInv'
<1>. DEFINE tree == Merged(remote[b], remote[Main])
            branches == [remote EXCEPT ![Main] = Len(commits) + 1]
<1>1. /\ TreeOf(remote[b]) \in Tree /\ TreeOf(remote[Main]) \in Tree /\ remote[Main] \in Nat
  BY RemoteCommitType, RepositoryAssumption DEF DInv, RemoteOK
<1>2. tree \in Tree
  BY <1>1, TakeChangesType DEF Merged
<1>3. Len(commits) \in Nat /\ Len(commits) + 1 \in Nat
  BY DEF DInv, IInv, TypeOK, RepoTypeOK
<1>4. /\ branches \in [Branch -> 0 .. Len(commits) + 1] /\ branches[Main] # 0
      /\ branches[branch] = remote[branch]
  BY <1>3, RepositoryAssumption DEF DInv, RemoteOK, IInv, TypeOK, RunTypeOK
<1>5. /\ RoomBesideRun /\ EndRequest(b, "merged", branches)
      /\ commits' = Append(commits, [tree |-> tree, parent |-> remote[Main]])
  BY DEF MergeRequest
<1>. HIDE DEF tree, branches
<1>6. /\ remote' \in [Branch -> 0 .. Len(commits) + 1] /\ remote'[Main] # 0
      /\ mr' \in [Branch -> MRStates]
      /\ \A c \in Branch : remote'[c] \in {0, branches[c]}
      /\ UNCHANGED << refs, head, index, worktree, edits >>
  BY <1>3, <1>4, <1>5, EndRequestKeeps DEF DInv, RemoteOK, MRStates
<1>7. IInv' /\ Len(commits') = Len(commits) + 1
  BY <1>1, <1>2, <1>5, <1>6, CommitBesideRun DEF DInv, IInv, TypeOK, RepoTypeOK
<1>8. RemoteOK'
  BY <1>6, <1>7 DEF RemoteOK
<1>. QED
  BY <1>4, <1>6, <1>7, <1>8, RemoteChanges DEF DInv, IInv, TypeOK, RunTypeOK

(* A step that leaves the local repository and the run alone leaves their  *)
(* invariant.                                                              *)
LEMMA LocalUnchanged ==
    ASSUME IInv, UNCHANGED << repoVars, runVars >>
    PROVE  IInv'
BY RepoUnchanged, RunUnchanged
DEF IInv, TypeOK, ControlOK, repoVars, runVars, settings, entryVars, applyVars, resultVars,
    Commit

(* A request closed, or a branch removed.                                  *)
LEMMA CloseRequestInv ==
    ASSUME DInv, NEW b \in Branch, remote[b] # 0, UNCHANGED runVars,
           CloseRequest(b) \/ DeleteRemoteBranch(b)
    PROVE  DInv'
<1>1. Len(commits) \in Nat /\ branch \in Branch
  BY DEF DInv, IInv, TypeOK, RepoTypeOK, RunTypeOK
<1>2. /\ remote' \in [Branch -> 0 .. Len(commits)] /\ remote'[Main] # 0
      /\ mr' \in [Branch -> MRStates]
      /\ \A c \in Branch : remote'[c] \in {0, remote[c]}
      /\ UNCHANGED << refs, head, index, worktree, edits, commits >>
  <2>1. CASE CloseRequest(b)
    <3>1. EndRequest(b, "closed", remote) /\ commits' = commits /\ "closed" \in MRStates
      BY <2>1 DEF CloseRequest, MRStates
    <3>. QED
      BY <1>1, <3>1, EndRequestKeeps DEF DInv, RemoteOK
  <2>2. CASE DeleteRemoteBranch(b)
    BY <2>2, RepositoryAssumption DEF DeleteRemoteBranch, DInv, RemoteOK, MRStates, repoVars
  <2>. QED
    BY <2>1, <2>2
<1>3. IInv'
  BY <1>2, LocalUnchanged DEF DInv, repoVars
<1>4. RemoteOK'
  BY <1>2 DEF RemoteOK
<1>. QED
  BY <1>1, <1>2, <1>3, <1>4, RemoteChanges

(* Whatever the team and other jobs do keeps the invariant.                *)
LEMMA TeamInv == DInv /\ Team => DInv'
BY TeamCommitInv, RivalJobInv, MergeRequestInv, CloseRequestInv DEF Team

-----------------------------------------------------------------------------
(* Between runs there is nothing the clone could undo.                     *)
LEMMA IdleKeeps ==
    ASSUME DInv, RepoTypeOK', RemoteOK', pc = "idle", UNCHANGED runVars
    PROVE  DInv'
<1>1. RunTypeOK' /\ pc' = "idle" /\ branch' = branch
  BY RunUnchanged DEF DInv, IInv, TypeOK, runVars, applyVars
<1>. QED
  BY <1>1, IdleControl DEF DInv, IInv, TypeOK, JustPushed

(* Some branch of the platform has its last commit.                        *)
LEMMA LastPublishedCommit ==
    ASSUME DInv
    PROVE  LastPublished \in Commit /\ \A b \in Branch : remote[b] <= LastPublished
<1>. DEFINE published == {c \in Commit : \E b \in Branch : remote[b] = c}
            distances == {Len(commits) - c : c \in published}
<1>1. Len(commits) \in Nat /\ remote \in [Branch -> 0 .. Len(commits)]
  BY DEF DInv, RemoteOK, IInv, TypeOK, RepoTypeOK
<1>2. published # {}
  BY RemoteCommitType, RepositoryAssumption DEF DInv, RemoteOK
<1>3. distances \subseteq Nat /\ distances # {}
  BY <1>1, <1>2 DEF Commit
<1>4. PICK m \in distances : \A n \in distances : m <= n
  BY <1>3, LeastPosition
<1>5. PICK last \in published : m = Len(commits) - last
  BY <1>4
<1>6. \A c \in published : c <= last
  <2>. SUFFICES ASSUME NEW c \in published PROVE c <= last
    OBVIOUS
  <2>1. m <= Len(commits) - c
    BY <1>4
  <2>2. c \in 1 .. Len(commits) /\ last \in 1 .. Len(commits)
    BY DEF Commit
  <2>. QED
    BY <1>1, <1>5, <2>1, <2>2
<1>7. \A b \in Branch : remote[b] <= last
  BY <1>1, <1>5, <1>6 DEF Commit
<1>8. last \in Commit /\ \E b \in Branch : remote[b] = last
  BY <1>5
<1>. QED
  BY <1>7, <1>8 DEF LastPublished

(* A new clone has Main's head and all that was published.                 *)
LEMMA CloneInv == DInv /\ NewDirectory => DInv'
<1>. SUFFICES ASSUME DInv, NewDirectory PROVE DInv'
  OBVIOUS
<1>. DEFINE last == LastPublished
<1>1. last \in 1 .. Len(commits) /\ \A b \in Branch : remote[b] <= last
  BY LastPublishedCommit DEF Commit
<1>2. /\ commits \in Seq([tree : Tree, parent : Nat]) /\ Len(commits) \in 1 .. MaxCommits
      /\ remote \in [Branch -> 0 .. Len(commits)] /\ remote[Main] # 0
      /\ mr \in [Branch -> MRStates] /\ edits \in 0 .. MaxEdits
  BY DEF DInv, RemoteOK, IInv, TypeOK, RepoTypeOK
<1>3. commits' = SubSeq(commits, 1, last)
  BY DEF NewDirectory
<1>. HIDE DEF last
<1>4. commits' \in Seq([tree : Tree, parent : Nat]) /\ Len(commits') = last
  <2>. DEFINE S == [tree : Tree, parent : Nat]
  <2>1. commits \in Seq(S) /\ 1 \in 1 .. Len(commits) + 1 /\ last \in 1 - 1 .. Len(commits)
    BY <1>1, <1>2
  <2>. HIDE DEF S
  <2>2. commits' \in Seq(S) /\ Len(commits') = IF 1 <= last THEN last - 1 + 1 ELSE 0
    BY <1>3, <2>1, SubSeqProperties
  <2>. QED
    BY <1>1, <2>2 DEF S
<1>5. remote \in [Branch -> 0 .. last]
  BY <1>1, <1>2
<1>6. TreeOf(remote[Main]) \in Tree
  BY <1>2, RemoteCommitType, RepositoryAssumption
<1>7. RepoTypeOK'
  BY <1>1, <1>2, <1>4, <1>5, <1>6, RepositoryAssumption
  DEF NewDirectory, CheckoutMain, RepoTypeOK
<1>8. RemoteOK'
  BY <1>2, <1>4, <1>5 DEF NewDirectory, RemoteOK, remoteVars
<1>. QED
  BY <1>7, <1>8, IdleKeeps DEF NewDirectory

(* A kept clone takes Main's new head.                                     *)
LEMMA PullInv == DInv /\ Pull => DInv'
<1>. SUFFICES ASSUME DInv, Pull PROVE DInv'
  OBVIOUS
<1>1. TreeOf(remote[Main]) \in Tree /\ RemoteOK
  BY RemoteCommitType, RepositoryAssumption DEF DInv, RemoteOK
<1>2. RepoTypeOK'
  BY <1>1, RepositoryAssumption
  DEF Pull, CheckoutMain, DInv, IInv, TypeOK, RepoTypeOK, RemoteOK
<1>3. RemoteOK'
  BY <1>1 DEF Pull, RemoteOK, remoteVars
<1>. QED
  BY <1>2, <1>3, IdleKeeps DEF Pull

(* Somebody removes a local branch.                                        *)
LEMMA DeleteLocalBranchInv == DInv /\ DeleteLocalBranch => DInv'
<1>. SUFFICES ASSUME DInv, DeleteLocalBranch PROVE DInv'
  OBVIOUS
<1>1. RepoTypeOK' /\ commits' = commits
  BY DeleteBranchType DEF DeleteLocalBranch, DeleteBranch, DInv, IInv, TypeOK
<1>2. RemoteOK'
  BY <1>1 DEF DInv, RemoteOK, DeleteLocalBranch, remoteVars
<1>. QED
  BY <1>1, <1>2, IdleKeeps DEF DeleteLocalBranch

(* Every step of the whole keeps the invariant.                            *)
LEMMA DeliveryNextInv == DInv /\ [DeliveryNext]_deliveryVars => DInv'
<1>1. DInv /\ UNCHANGED deliveryVars => DInv'
  BY LocalUnchanged
  DEF DInv, RemoteOK, JustPushed, deliveryVars, vars, repoVars, runVars, remoteVars, applyVars
<1>. QED
  BY <1>1, LocalWorkInv, PushInv, PushRefusedInv, RequestInv, TeamInv, CloneInv, PullInv,
     DeleteLocalBranchInv, DeliverySteps
  DEF DeliveryStep

-----------------------------------------------------------------------------
(* What every phase of a run relies on (ControlOK of LocalRun) also holds  *)
(* where clones are thrown away between runs and others commit during them.*)
THEOREM DeliveryControlCorrect == DeliverySpec => []ControlOK
<1>1. DInv => ControlOK
  BY DEF DInv, IInv
<1>. QED
  BY <1>1, DeliveryInitInv, DeliveryNextInv, PTL DEF DeliverySpec

(* A step that comes to report a request has opened it, on the branch that *)
(* was pushed.                                                             *)
LEMMA ReportedRequest ==
    ASSUME DInv, "request" \notin Rivals, [DeliveryNext]_deliveryVars,
           outcome' = "opened", outcome # "opened"
    PROVE  mr'[branch] = "open" /\ remote'[branch] = refs[branch]
<1>1. CASE OpenChangeRequest
  BY <1>1 DEF OpenChangeRequest, DInv, RemoteOK, JustPushed, IInv, TypeOK, RunTypeOK
<1>2. CASE LocalWork
  BY <1>2, LocalStepLeaves DEF LocalWork, Leaves
<1>3. CASE Push \/ PushRefused \/ UnknownWatermark \/ ChangeRequestRefused
  BY <1>3 DEF Push, PushRefused, UnknownWatermark, ChangeRequestRefused, Finish, FinishSkipping,
              resultVars
<1>4. CASE Team \/ NewDirectory \/ Pull \/ DeleteLocalBranch \/ UNCHANGED deliveryVars
  BY <1>4 DEF Team, NewDirectory, Pull, CheckoutMain, DeleteLocalBranch, deliveryVars, vars,
              runVars, resultVars
<1>. QED
  BY <1>1, <1>2, <1>3, <1>4, DeliverySteps DEF DeliveryStep

(* Unless another job publishes between a run's push and its request, a    *)
(* run that reports a merge request (OpenChangeRequest after doPush) leaves*)
(* one open, on a branch that has the commit it made.                      *)
THEOREM ReportedIsOpen ==
    ASSUME "request" \notin Rivals
    PROVE  DeliverySpec => OpenedMeansOpen
<1>1. DInv /\ [DeliveryNext]_deliveryVars =>
        (outcome' = "opened" /\ outcome # "opened" =>
            mr'[branch] = "open" /\ remote'[branch] = refs[branch])
  BY ReportedRequest
<1>. QED
  BY <1>1, DeliveryInitInv, DeliveryNextInv, PTL DEF DeliverySpec, OpenedMeansOpen

(* What the team and other jobs commit.                                    *)
TeamTree(s) == [TreeOf(remote[Main]) EXCEPT !.src[s] = edits + 2]

RivalPage(d) ==
    [mark |-> remote[Main],
     shows |-> [s \in Src |-> IF s \in CoversOf(d) THEN TreeOf(remote[Main]).src[s] ELSE 0]]

RivalTree == [TreeOf(remote[Main]) EXCEPT !.doc = [d \in Doc |-> RivalPage(d)]]

(* A commit on top of Main, which the run does not see.                    *)
OntoMain(tree) ==
    /\ commits' = Append(commits, [tree |-> tree, parent |-> remote[Main]])
    /\ UNCHANGED << refs, head, index, worktree, runVars >>

(* A change of the platform alone.                                         *)
NothingPublished == UNCHANGED << commits, refs, head, index, worktree, runVars >>

(* The team adds one commit to the history, or none.                       *)
LEMMA TeamPublishes ==
    ASSUME Team
    PROVE  \/ NothingPublished
           \/ \E s \in Src : OntoMain(TeamTree(s))
           \/ Rivals # {} /\ OntoMain(RivalTree)
           \/ \E b \in Branch : /\ remote[b] # 0 /\ ~Conflict(remote[b], remote[Main])
                                /\ OntoMain(Merged(remote[b], remote[Main]))
<1>1. ASSUME NEW s \in Src, TeamCommit(s), UNCHANGED runVars PROVE OntoMain(TeamTree(s))
  BY <1>1 DEF TeamCommit, RemoteCommit, TeamTree, OntoMain
<1>2. ASSUME NEW b \in Branch, RivalJob(b), UNCHANGED runVars
      PROVE  Rivals # {} /\ OntoMain(RivalTree)
  BY <1>2 DEF RivalJob, RemoteCommit, RivalTree, RivalPage, OntoMain
<1>3. ASSUME NEW b \in Branch, MergeRequest(b), UNCHANGED runVars
      PROVE  ~Conflict(remote[b], remote[Main]) /\ OntoMain(Merged(remote[b], remote[Main]))
  BY <1>3 DEF MergeRequest, EndRequest, OntoMain
<1>4. ASSUME NEW b \in Branch, CloseRequest(b) \/ DeleteRemoteBranch(b), UNCHANGED runVars
      PROVE  NothingPublished
  BY <1>4 DEF CloseRequest, EndRequest, DeleteRemoteBranch, repoVars, NothingPublished
<1>. QED
  BY <1>1, <1>2, <1>3, <1>4 DEF Team

(* A team's commit has the documentation of Main, a rival's Main's sources *)
(* and sidecars.                                                           *)
LEMMA PublishedTrees ==
    ASSUME DInv
    PROVE  /\ remote[Main] \in Commit /\ remote[Main] \in Nat /\ remote[Main] <= Len(commits)
           /\ TreeOf(remote[Main]) \in Tree
           /\ \A s \in Src : TeamTree(s) \in Tree /\ SameDocs(TeamTree(s), TreeOf(remote[Main]))
           /\ RivalTree \in Tree /\ RivalTree.side = TreeOf(remote[Main]).side
           /\ \A d \in Doc : RivalTree.doc[d] = RivalPage(d) /\ RivalPage(d) \in Page
           /\ \A d \in Doc : RivalPage(d) # Nil
<1>. DEFINE main == TreeOf(remote[Main])
<1>1. /\ remote[Main] \in Commit /\ remote[Main] \in Nat /\ main \in Tree
      /\ edits \in 0 .. MaxEdits /\ Len(commits) \in Nat
  BY RemoteCommitType, RepositoryAssumption DEF DInv, RemoteOK, IInv, TypeOK, RepoTypeOK
<1>2. edits + 2 \in Nat /\ remote[Main] <= Len(commits)
  BY <1>1, RepositoryAssumption DEF Commit
<1>. HIDE DEF main
<1>3. ASSUME NEW s \in Src PROVE TeamTree(s) \in Tree /\ SameDocs(TeamTree(s), main)
  BY <1>1, <1>2, NewVersionType, NewVersionDocs DEF TeamTree, main
<1>4. \A d \in Doc : RivalPage(d) \in Page
  BY <1>1, TreeParts DEF Page, Mark, Text, RivalPage, main
<1>5. RivalTree = [main EXCEPT !.doc = [d \in Doc |-> RivalPage(d)]]
  BY DEF RivalTree, main
<1>6. RivalTree \in Tree /\ RivalTree.side = main.side
      /\ \A d \in Doc : RivalTree.doc[d] = RivalPage(d)
  BY <1>1, <1>4, <1>5 DEF Tree
<1>7. Nil \notin Page
  BY RepositoryAssumption DEF Page, Text
<1>. QED
  BY <1>1, <1>2, <1>3, <1>4, <1>6, <1>7 DEF main

(* None of them is younger than the watermarks in it.                      *)
LEMMA PublishedMarks ==
    ASSUME DInv, HistoryOK
    PROVE  /\ \A s \in Src : MarksBefore(TeamTree(s), Len(commits) + 1)
           /\ MarksBefore(RivalTree, Len(commits) + 1)
           /\ \A b \in Branch : remote[b] # 0 =>
                /\ MarksBefore(Merged(remote[b], remote[Main]), Len(commits) + 1)
                /\ Merged(remote[b], remote[Main]) \in Tree
<1>1. RepoTypeOK /\ Len(commits) \in Nat
  BY DEF DInv, IInv, TypeOK, RepoTypeOK
<1>2. /\ remote[Main] \in Commit /\ remote[Main] \in Nat /\ remote[Main] <= Len(commits)
      /\ MarksBefore(TreeOf(remote[Main]), Len(commits) + 1)
  BY <1>1, PublishedTrees, CommitMarks
<1>3. ASSUME NEW s \in Src PROVE MarksBefore(TeamTree(s), Len(commits) + 1)
  BY <1>2, PublishedTrees, MarksBeforeSame
<1>4. MarksBefore(RivalTree, Len(commits) + 1)
  <2>1. ASSUME NEW d \in Doc PROVE FrontmatterOf(RivalTree.doc[d]) < Len(commits) + 1
    <3>1. RivalTree.doc[d] = RivalPage(d) /\ RivalPage(d) # Nil
      BY PublishedTrees
    <3>2. RivalPage(d).mark = remote[Main]
      BY DEF RivalPage
    <3>3. FrontmatterOf(RivalTree.doc[d]) = remote[Main]
      BY <3>1, <3>2 DEF FrontmatterOf
    <3>. QED
      BY <1>1, <1>2, <3>3
  <2>2. ASSUME NEW w \in Sidecar, NEW d \in Doc
        PROVE  /\ SidecarMark(RivalTree, w, d) < Len(commits) + 1
               /\ HasRecord(Load(RivalTree.side[w]), d) => SidecarMark(RivalTree, w, d) # NoMark
    BY <1>2, PublishedTrees DEF SidecarMark, MarksBefore
  <2>. QED
    BY <2>1, <2>2 DEF MarksBefore
<1>5. ASSUME NEW b \in Branch, remote[b] # 0
      PROVE  /\ MarksBefore(Merged(remote[b], remote[Main]), Len(commits) + 1)
             /\ Merged(remote[b], remote[Main]) \in Tree
  BY <1>1, <1>2, <1>5, RemoteCommitType, MergedMarks
<1>. QED
  BY <1>3, <1>4, <1>5

(* A commit that appears beside the run leaves the ages right.             *)
LEMMA PublishedAge ==
    ASSUME DInv, DInv', AgeInv, NEW tree \in Tree, MarksBefore(tree, Len(commits) + 1),
           OntoMain(tree)
    PROVE  AgeInv'
<1>1. IInv /\ IInv' /\ RepoTypeOK /\ HistoryOK /\ remote[Main] \in Commit
  BY PublishedTrees DEF DInv, IInv, TypeOK, AgeInv
<1>2. /\ HistoryOK' /\ Len(commits) \in Nat /\ Len(commits') = Len(commits) + 1
      /\ \A c \in Commit : TreeOf(c)' = TreeOf(c)
  BY <1>1, AppendAge DEF OntoMain
<1>3. UNCHANGED << refs, head, index, worktree, runVars, branch >>
  BY DEF OntoMain, runVars, applyVars
<1>4. FilesOK'
  <2>1. index \in Tree /\ worktree \in Tree /\ Len(commits) + 1 <= Len(commits') + 1
        /\ Len(commits') + 1 \in Nat /\ Len(commits) + 1 \in Nat
    BY <1>1, <1>2 DEF RepoTypeOK
  <2>2. MarksBefore(index, Len(commits') + 1) /\ MarksBefore(worktree, Len(commits') + 1)
    BY <2>1, MarksBeforeLater DEF AgeInv, FilesOK
  <2>. QED
    BY <1>3, <2>2 DEF FilesOK
<1>5. HeadCommit \in Commit /\ HeadCommit \in Nat
  BY <1>1, HeadIsCommit DEF Commit
<1>6. /\ HeadCommit' = HeadCommit /\ HeadTree' = HeadTree /\ HeadCommit <= HeadCommit'
      /\ SameDocs(HeadTree', HeadTree)
      /\ SameDocs(index', index) /\ SameDocs(worktree', worktree)
      /\ refs'[branch] \in {refs[branch], HeadCommit'} /\ Len(commits) <= Len(commits')
  BY <1>2, <1>3, <1>5 DEF HeadCommit, HeadTree, SameDocs
<1>. QED
  BY <1>1, <1>2, <1>3, <1>4, <1>6, BesideAge DEF RepoAge

(* So does a change of the platform alone.                                 *)
LEMMA NothingPublishedAge ==
    ASSUME AgeInv, NothingPublished
    PROVE  AgeInv'
<1>. UNCHANGED << commits, refs, head, index, worktree, runVars >>
  BY DEF NothingPublished
<1>. QED
  BY DEF AgeInv, HistoryOK, FilesOK, StartOK, FromStart, MemoryOK, WrittenOK, NeverEmptyCommit,
         HeadCommit, TreeOf, Commit, runVars, settings, entryVars, applyVars, resultVars

(* The push and the request leave the repository alone.                    *)
LEMMA DeliveryStepAge == DInv /\ DInv' /\ AgeInv /\ (DeliveryStep \/ UnknownWatermark) => AgeInv'
<1>. SUFFICES ASSUME DInv, DInv', AgeInv, DeliveryStep \/ UnknownWatermark
              PROVE  AgeInv'
  OBVIOUS
<1>1. IInv /\ IInv' /\ UNCHANGED repoVars
  BY DEF DInv, DeliveryStep, Push, PushRefused, UnknownWatermark, OpenChangeRequest,
         ChangeRequestRefused, repoVars
<1>2. RepoAge'
  BY <1>1, SameRepoAge DEF AgeInv, RepoAge
<1>3. CASE \E result \in {"push failed", "opened", "request failed", "failed"} : Finish(result)
  BY <1>1, <1>2, <1>3, EndAge DEF Finish
<1>4. CASE pc = "committed" /\ pc' = "request"
             /\ UNCHANGED << plan, settings, entryVars, applyVars, resultVars >>
  <2>1. MemoryOK'
    BY <1>1, <1>4 DEF AgeInv, MemoryOK, BeforeCommit, entryVars, repoVars, Commit
  <2>2. StartOK' /\ WrittenOK' /\ NeverEmptyCommit'
    BY <1>4 DEF AgeInv, StartOK, BeforeCommit, WrittenOK, NeverEmptyCommit, resultVars
  <2>. QED
    BY <1>2, <2>1, <2>2 DEF AgeInv, RepoAge
<1>. QED
  BY <1>3, <1>4 DEF DeliveryStep, Push, PushRefused, UnknownWatermark, OpenChangeRequest,
                    ChangeRequestRefused

(* What a clone, a pull or the removal of a local branch does to the       *)
(* history: nothing, or it loses the commits that were never published.    *)
Shortened(n) ==
    /\ n \in Commit
    /\ Len(commits') = n
    /\ \A c \in 1 .. n : commits'[c] = commits[c]

(* A new clone is such a history.                                          *)
LEMMA CloneShortens ==
    ASSUME DInv, NewDirectory
    PROVE  Shortened(LastPublished) /\ \A b \in Branch : remote[b] <= LastPublished
<1>. DEFINE last == LastPublished
            S == [tree : Tree, parent : Nat]
<1>1. last \in Commit /\ \A b \in Branch : remote[b] <= last
  BY LastPublishedCommit
<1>2. commits \in Seq(S) /\ commits' = SubSeq(commits, 1, last)
  BY DEF DInv, IInv, TypeOK, RepoTypeOK, NewDirectory
<1>. HIDE DEF last, S
<1>3. /\ commits \in Seq(S) /\ Len(commits) \in Nat /\ last \in 1 .. Len(commits)
      /\ 1 \in 1 .. Len(commits) + 1 /\ last \in 1 - 1 .. Len(commits)
  BY <1>1, <1>2 DEF Commit
<1>4. /\ Len(commits') = IF 1 <= last THEN last - 1 + 1 ELSE 0
      /\ \A i \in 1 .. last - 1 + 1 : commits'[i] = commits[1 + i - 1]
  BY <1>2, <1>3, SubSeqProperties
<1>5. Len(commits') = last /\ \A i \in 1 .. last : commits'[i] = commits[i]
  BY <1>3, <1>4
<1>. QED
  BY <1>1, <1>5 DEF Shortened, last

(* A shorter history is as good.                                           *)
LEMMA ShortenedAge ==
    ASSUME Len(commits) \in Nat, HistoryOK, NEW n, Shortened(n)
    PROVE  HistoryOK' /\ Len(commits') = n /\ \A c \in Commit' : c \in Commit /\ TreeOf(c)' = TreeOf(c)
<1>1. /\ n \in 1 .. Len(commits) /\ n \in Nat /\ Len(commits') = n
      /\ \A c \in 1 .. n : c \in 1 .. Len(commits) /\ commits'[c] = commits[c]
  BY DEF Shortened, Commit
<1>2. Rooted(commits')
  BY <1>1 DEF HistoryOK, Rooted
<1>3. \A c \in Commit' : c \in Commit /\ TreeOf(c)' = TreeOf(c)
  BY <1>1 DEF Commit, TreeOf
<1>. QED
  BY <1>1, <1>2, <1>3 DEF HistoryOK

(* The files of a fresh clone, or of a kept one brought up to date.        *)
LEMMA FilesFromMain ==
    ASSUME RepoTypeOK', HistoryOK', NEW c \in Commit', index' = TreeOf(c)', worktree' = TreeOf(c)'
    PROVE  FilesOK'
<1>1. c \in Nat /\ c <= Len(commits') /\ Len(commits') + 1 \in Nat /\ c <= Len(commits') + 1
  BY DEF RepoTypeOK, Commit
<1>2. MarksBefore(TreeOf(c)', c)
  BY DEF HistoryOK
<1>3. index' \in Tree
  BY DEF RepoTypeOK
<1>4. MarksBefore(TreeOf(c)', Len(commits') + 1)
  BY <1>1, <1>2, <1>3, MarksBeforeLater
<1>. QED
  BY <1>4 DEF FilesOK

(* The clone, between runs.                                                *)
LEMMA CloneAge ==
    ASSUME DInv, DInv', AgeInv, NewDirectory \/ Pull \/ DeleteLocalBranch
    PROVE  AgeInv'
<1>1. IInv /\ IInv' /\ RepoTypeOK' /\ HistoryOK /\ Len(commits) \in Nat /\ remote[Main] \in Commit
  BY PublishedTrees DEF DInv, IInv, TypeOK, RepoTypeOK, AgeInv
<1>2. pc = "idle" /\ UNCHANGED << pc, plan, asm, outcome >>
  BY DEF NewDirectory, Pull, CheckoutMain, DeleteLocalBranch, runVars, entryVars, resultVars
<1>3. CASE NewDirectory
  <2>1. HistoryOK' /\ Len(commits') = LastPublished
        /\ \A c \in Commit' : c \in Commit /\ TreeOf(c)' = TreeOf(c)
    BY <1>1, <1>3, CloneShortens, ShortenedAge
  <2>2. remote[Main] <= LastPublished
    BY <1>3, CloneShortens, RepositoryAssumption
  <2>3. remote[Main] \in Commit'
    BY <1>1, <2>1, <2>2 DEF Commit
  <2>4. index' = TreeOf(remote[Main])' /\ worktree' = TreeOf(remote[Main])'
    BY <1>3, <2>1, <2>3 DEF NewDirectory, CheckoutMain, remoteVars, TreeOf
  <2>5. \A c : c = remote[Main] => index' = TreeOf(c)' /\ worktree' = TreeOf(c)' /\ c \in Commit'
    BY <1>3, <2>3, <2>4 DEF NewDirectory, CheckoutMain, remoteVars, TreeOf
  <2>6. FilesOK'
    BY <1>1, <2>1, <2>5, FilesFromMain
  <2>. QED
    BY <1>1, <1>2, <2>1, <2>6, IdleAge DEF RepoAge
<1>4. CASE Pull
  <2>1. HistoryOK' /\ commits' = commits
    BY <1>4 DEF Pull, AgeInv, HistoryOK, Commit, TreeOf
  <2>2. \A c : c = remote[Main] => index' = TreeOf(c)' /\ worktree' = TreeOf(c)' /\ c \in Commit'
    BY <1>1, <1>4 DEF Pull, CheckoutMain, TreeOf, Commit
  <2>3. FilesOK'
    BY <1>1, <2>1, <2>2, FilesFromMain
  <2>. QED
    BY <1>1, <1>2, <2>1, <2>3, IdleAge DEF RepoAge
<1>5. CASE DeleteLocalBranch
  <2>1. RepoAge'
    BY <1>5 DEF DeleteLocalBranch, DeleteBranch, AgeInv, RepoAge, HistoryOK, FilesOK, Commit, TreeOf
  <2>. QED
    BY <1>1, <1>2, <2>1, IdleAge
<1>. QED
  BY <1>3, <1>4, <1>5

(* Whatever happens, the ages of the watermarks stay right.                *)
LEMMA DeliveryNextAge == DInv /\ DInv' /\ AgeInv /\ [DeliveryNext]_deliveryVars => AgeInv'
<1>. SUFFICES ASSUME DInv, DInv', AgeInv, [DeliveryNext]_deliveryVars PROVE AgeInv'
  OBVIOUS
<1>1. CASE LocalWork
  BY <1>1, LocalStepAge DEF LocalWork, DInv
<1>2. CASE DeliveryStep \/ UnknownWatermark
  BY <1>2, DeliveryStepAge
<1>3. CASE Team
  BY <1>3, TeamPublishes, PublishedTrees, PublishedMarks, PublishedAge, NothingPublishedAge
  DEF AgeInv
<1>4. CASE NewDirectory \/ Pull \/ DeleteLocalBranch
  BY <1>4, CloneAge
<1>5. CASE UNCHANGED deliveryVars
  BY <1>5, NothingPublishedAge DEF deliveryVars, vars, repoVars, NothingPublished
<1>. QED
  BY <1>1, <1>2, <1>3, <1>4, <1>5, DeliverySteps

(* No run ends in an empty commit, in any clone and beside any team.       *)
THEOREM DeliverySomethingToCommit == DeliverySpec => []NeverEmptyCommit
<1>1. AgeInv => NeverEmptyCommit
  BY DEF AgeInv
<1>2. DeliveryInit => AgeInv
  BY InitAge DEF DeliveryInit
<1>. QED
  BY <1>1, <1>2, DeliveryInitInv, DeliveryNextInv, DeliveryNextAge, PTL DEF DeliverySpec

-----------------------------------------------------------------------------
(* The history of what is published.                                       *)

(* A step adds a commit to the history, or a new clone forgets some.       *)
LEMMA HistoryMoves ==
    ASSUME DInv, [DeliveryNext]_deliveryVars
    PROVE  \/ commits' = commits
           \/ \E tree : \E parent \in Commit :
                commits' = Append(commits, [tree |-> tree, parent |-> parent])
           \/ NewDirectory
<1>. DEFINE appended == \E tree : \E parent \in Commit :
                           commits' = Append(commits, [tree |-> tree, parent |-> parent])
<1>1. ASSUME NEW tree, AppendCommit(tree) \/ OntoMain(tree) PROVE appended
  <2>1. HeadCommit \in Commit /\ remote[Main] \in Commit
    BY HeadIsCommit, PublishedTrees DEF DInv, IInv, TypeOK
  <2>2. CASE AppendCommit(tree)
    BY <2>1, <2>2 DEF AppendCommit
  <2>3. CASE OntoMain(tree)
    BY <2>1, <2>3 DEF OntoMain
  <2>. QED
    BY <1>1, <2>2, <2>3
<1>. HIDE DEF appended
<1>2. CASE LocalWork
  <2>1. commits' = commits \/ \E tree : AppendCommit(tree)
    BY <1>2, LocalStepLeaves DEF LocalWork, Leaves
  <2>. QED
    BY <1>1, <2>1 DEF appended
<1>3. CASE Team
  <2>1. commits' = commits \/ \E tree : OntoMain(tree)
    BY <1>3, TeamPublishes DEF NothingPublished
  <2>. QED
    BY <1>1, <2>1 DEF appended
<1>4. DeliveryStep \/ UnknownWatermark \/ Pull \/ DeleteLocalBranch \/ UNCHANGED deliveryVars
        => commits' = commits
  BY DEF DeliveryStep, Push, PushRefused, UnknownWatermark, OpenChangeRequest,
         ChangeRequestRefused, Pull, DeleteLocalBranch, DeleteBranch, deliveryVars, vars,
         repoVars
<1>. QED
  BY <1>2, <1>3, <1>4, DeliverySteps

(* What a branch of the platform has keeps its history.                    *)
LEMMA PastStays ==
    ASSUME DInv, HistoryOK, HistoryOK', [DeliveryNext]_deliveryVars,
           NEW b \in Branch, NEW c \in Commit, c <= remote[b]
    PROVE  c \in Commit' /\ Ancestors(c)' = Ancestors(c) /\ TreeOf(c)' = TreeOf(c)
<1>1. RepoTypeOK /\ Rooted(commits) /\ Rooted(commits') /\ Len(commits) \in Nat
  BY DEF DInv, IInv, TypeOK, RepoTypeOK, HistoryOK
<1>2. CASE commits' = commits
  BY <1>2 DEF Commit, Ancestors, TreeOf
<1>3. ASSUME NEW tree, NEW parent \in Commit,
             commits' = Append(commits, [tree |-> tree, parent |-> parent])
      PROVE  c \in Commit' /\ Ancestors(c)' = Ancestors(c) /\ TreeOf(c)' = TreeOf(c)
  <2>1. /\ Len(commits') = Len(commits) + 1
        /\ \A n \in Commit : commits'[n] = commits[n] /\ Ancestors(n)' = Ancestors(n)
    BY <1>1, <1>3, AppendKeepsHistory
  <2>. QED
    BY <1>1, <2>1 DEF Commit, TreeOf
<1>4. CASE NewDirectory
  <2>1. /\ LastPublished \in 1 .. Len(commits) /\ remote[b] <= LastPublished
        /\ Len(commits') = LastPublished
        /\ \A n \in 1 .. LastPublished : commits'[n] = commits[n]
    BY <1>4, CloneShortens DEF Shortened, Commit
  <2>. DEFINE last == LastPublished
  <2>2. /\ last \in Nat /\ remote[b] \in Nat /\ c \in 1 .. Len(commits) /\ c <= last
        /\ Len(commits') = last
    BY <1>1, <2>1 DEF Commit, DInv, RemoteOK
  <2>3. \A n \in 1 .. c : commits[n] = commits'[n]
    BY <1>1, <2>1, <2>2
  <2>4. AncestorsIn(commits, c) = AncestorsIn(commits', c)
    BY <1>1, <2>2, <2>3, AncestorsStable
  <2>5. Ancestors(c) = AncestorsIn(commits, c) /\ Ancestors(c)' = AncestorsIn(commits', c)
    BY DEF Ancestors, AncestorsIn
  <2>. QED
    BY <1>1, <2>2, <2>3, <2>4, <2>5 DEF Commit, TreeOf
<1>. QED
  BY <1>2, <1>3, <1>4, HistoryMoves

(* Ancestors of a commit, here.                                            *)
LEMMA OwnAncestors ==
    ASSUME HistoryOK, Len(commits) \in Nat, NEW c \in Commit
    PROVE  c \in Ancestors(c) /\ Ancestors(c) \subseteq 1 .. c
BY AncestorsHere, AncestorsRange DEF HistoryOK, Commit

(* Only the team moves Main, and only forward.                             *)
LEMMA MainMoves ==
    ASSUME DInv, [DeliveryNext]_deliveryVars, remote'[Main] # remote[Main]
    PROVE  \E tree : OntoMain(tree) /\ remote'[Main] = Len(commits) + 1
<1>1. remote \in [Branch -> 0 .. Len(commits)] /\ branch \in Branch \ {Main} /\ Main \in Branch
  BY RepositoryAssumption DEF DInv, RemoteOK, IInv, TypeOK, RunTypeOK
<1>2. CASE Push
  BY <1>1, <1>2 DEF Push
<1>3. CASE LocalWork \/ PushRefused \/ UnknownWatermark \/ OpenChangeRequest
           \/ ChangeRequestRefused \/ NewDirectory \/ Pull \/ DeleteLocalBranch
           \/ UNCHANGED deliveryVars
  BY <1>3 DEF LocalWork, PushRefused, UnknownWatermark, OpenChangeRequest, ChangeRequestRefused,
              NewDirectory, Pull, CheckoutMain, DeleteLocalBranch, deliveryVars, remoteVars
<1>4. CASE Team
  <2>1. ASSUME NEW s \in Src, TeamCommit(s), UNCHANGED runVars
        PROVE  \E tree : OntoMain(tree) /\ remote'[Main] = Len(commits) + 1
    BY <1>1, <2>1 DEF TeamCommit, RemoteCommit, OntoMain
  <2>2. ASSUME NEW b \in Branch, MergeRequest(b), UNCHANGED runVars
        PROVE  \E tree : OntoMain(tree) /\ remote'[Main] = Len(commits) + 1
    <3>1. remote'[Main] = Len(commits) + 1
      BY <1>1, <2>2 DEF MergeRequest, EndRequest
    <3>2. OntoMain(Merged(remote[b], remote[Main]))
      BY <2>2 DEF MergeRequest, EndRequest, OntoMain
    <3>. QED
      BY <3>1, <3>2
  <2>3. ASSUME NEW b \in Branch, RivalJob(b) PROVE FALSE
    BY <1>1, <2>3 DEF RivalJob, RemoteCommit
  <2>4. ASSUME NEW b \in Branch, CloseRequest(b) \/ DeleteRemoteBranch(b) PROVE FALSE
    BY <1>1, <2>4 DEF CloseRequest, EndRequest, DeleteRemoteBranch
  <2>. QED
    BY <1>4, <2>1, <2>2, <2>3, <2>4 DEF Team
<1>. QED
  BY <1>2, <1>3, <1>4, DeliverySteps DEF DeliveryStep

(* So Main never loses a commit, and what it gains is new.                 *)
LEMMA MainGrows ==
    ASSUME DInv, HistoryOK, HistoryOK', [DeliveryNext]_deliveryVars
    PROVE  /\ Ancestors(remote[Main]) \subseteq Ancestors(remote[Main])'
           /\ Ancestors(remote[Main])' \subseteq Ancestors(remote[Main]) \cup {Len(commits) + 1}
           /\ \/ Ancestors(remote[Main])' = Ancestors(remote[Main])
              \/ \E tree : OntoMain(tree)
<1>1. /\ remote[Main] \in Commit /\ remote[Main] <= remote[Main] /\ Main \in Branch
      /\ RepoTypeOK /\ Rooted(commits) /\ Len(commits) \in Nat
  BY PublishedTrees, RepositoryAssumption DEF DInv, IInv, TypeOK, RepoTypeOK, HistoryOK, Commit
<1>2. CASE remote'[Main] = remote[Main]
  <2>1. ASSUME NEW c, c = remote[Main] PROVE Ancestors(c)' = Ancestors(c)
    BY <1>1, <2>1, PastStays
  <2>2. Ancestors(remote[Main])' = Ancestors(remote[Main])
    BY <1>2, <2>1
  <2>. QED
    BY <2>2
<1>3. CASE remote'[Main] # remote[Main]
  <2>1. PICK tree : OntoMain(tree) /\ remote'[Main] = Len(commits) + 1
    BY <1>3, MainMoves
  <2>2. /\ Len(commits') = Len(commits) + 1
        /\ \A n : n = Len(commits') => Ancestors(n)' = {n} \cup Ancestors(remote[Main])
    BY <1>1, <2>1, AppendKeepsHistory DEF OntoMain
  <2>3. Ancestors(remote[Main])' = {Len(commits) + 1} \cup Ancestors(remote[Main])
    BY <2>1, <2>2
  <2>. QED
    BY <2>1, <2>3
<1>. QED
  BY <1>2, <1>3

(* What is what, before a step and after it.                               *)
LEMMA PlatformTypes ==
    ASSUME DInv
    PROVE  /\ remote \in [Branch -> 0 .. Len(commits)] /\ refs \in [Branch -> 0 .. Len(commits)]
           /\ mr \in [Branch -> MRStates]
           /\ Len(commits) \in Nat /\ remote[Main] # 0
           /\ branch \in Branch /\ branch # Main /\ Main \in Branch
           /\ \A b \in Branch : remote[b] # 0 => remote[b] \in 1 .. Len(commits)
<1>1. RemoteOK /\ branch # Main /\ RepoTypeOK /\ RunTypeOK
  BY DEF DInv, IInv, TypeOK
<1>2. remote \in [Branch -> 0 .. Len(commits)] /\ refs \in [Branch -> 0 .. Len(commits)]
      /\ mr \in [Branch -> MRStates] /\ Len(commits) \in Nat
  BY <1>1 DEF RemoteOK, RepoTypeOK
<1>3. branch \in Branch /\ remote[Main] # 0
  BY <1>1 DEF RunTypeOK, RemoteOK
<1>. QED
  BY <1>1, <1>2, <1>3, RepositoryAssumption

(* The same in the next state.                                             *)
LEMMA PlatformTypesLater ==
    ASSUME DInv'
    PROVE  /\ branch' \in Branch /\ Len(commits') \in Nat
           /\ \A b \in Branch : remote'[b] # 0 => remote'[b] \in 1 .. Len(commits')
<1>1. RemoteOK' /\ RepoTypeOK' /\ RunTypeOK'
  BY DEF DInv, IInv, TypeOK
<1>2. remote' \in [Branch -> 0 .. Len(commits')] /\ Len(commits') \in Nat
  BY <1>1 DEF RemoteOK, RepoTypeOK
<1>. QED
  BY <1>1, <1>2 DEF RunTypeOK

(* Every variable keeps its type through runs in fresh, shallow and kept   *)
(* clones, lost answers, merges and other jobs: no branch of the platform  *)
(* names a commit it does not have, and Main is always there.              *)
THEOREM DeliveryTypeCorrect == DeliverySpec => []DeliveryTypeOK
<1>. DEFINE CloneOK == store \subseteq Nat /\ shallow \in Nat
<1>1. DInv /\ CloneOK => DeliveryTypeOK
  BY DEF DInv, IInv, RemoteOK, DeliveryTypeOK
<1>2. DeliveryInit => AgeInv /\ CloneOK
  BY InitAge DEF DeliveryInit
<1>3. DInv /\ DInv' /\ AgeInv /\ CloneOK /\ [DeliveryNext]_deliveryVars => CloneOK'
  <2>. SUFFICES ASSUME DInv, DInv', AgeInv, CloneOK, [DeliveryNext]_deliveryVars PROVE CloneOK'
    OBVIOUS
  <2>1. ASSUME NEW b \in Branch PROVE Ancestors(remote[b]) \subseteq Nat
    <3>1. HistoryOK /\ Len(commits) \in Nat /\ remote[b] \in 0 .. Len(commits)
      BY PlatformTypes DEF AgeInv
    <3>2. CASE remote[b] = 0
      BY <3>1, <3>2, NoAncestors, AncestorsHere DEF HistoryOK
    <3>3. CASE remote[b] \in Commit
      BY <3>1, <3>3, OwnAncestors DEF Commit
    <3>. QED
      BY <3>1, <3>2, <3>3 DEF Commit
  <2>2. Published \subseteq Nat /\ \A c : MainSince(c) \subseteq Nat
    BY <2>1, RepositoryAssumption DEF Published, MainSince
  <2>3. CASE LocalWork
    <3>1. Len(commits') \in Nat
      BY PlatformTypesLater
    <3>2. store' = store \cup (Commit' \ Commit) /\ shallow' = shallow
      BY <2>3 DEF LocalWork
    <3>3. Commit' \subseteq Nat
      BY <3>1 DEF Commit
    <3>. QED
      BY <3>2, <3>3
  <2>4. CASE Clone \/ ShallowClone \/ Pull
    <3>1. store' \subseteq Nat
      BY <2>2, <2>4 DEF Clone, ShallowClone, Pull
    <3>2. Ancestors(remote[Main]) \subseteq Nat
      BY <2>1, RepositoryAssumption
    <3>3. shallow' = 0 \/ shallow' \in Ancestors(remote[Main]) \/ shallow' = shallow
      BY <2>4 DEF Clone, ShallowClone, Pull
    <3>. QED
      BY <3>1, <3>2, <3>3
  <2>5. CASE UnknownWatermark \/ DeliveryStep \/ Team \/ DeleteLocalBranch
             \/ UNCHANGED deliveryVars
    BY <2>5 DEF UnknownWatermark, DeliveryStep, Push, PushRefused, OpenChangeRequest,
                ChangeRequestRefused, Team, DeleteLocalBranch, deliveryVars, cloneVars
  <2>. QED
    BY <2>3, <2>4, <2>5 DEF DeliveryNext
<1>. QED
  BY <1>1, <1>2, <1>3, DeliveryInitInv, DeliveryNextInv, DeliveryNextAge, PTL DEF DeliverySpec

(* A step leaves a branch of the platform alone, extends it, or removes it.*)
LEMMA RemoteMoves ==
    ASSUME DInv, DInv', HistoryOK, HistoryOK', [DeliveryNext]_deliveryVars,
           NEW b \in Branch, remote[b] # 0, remote'[b] # 0
    PROVE  \/ remote[b] \in Ancestors(remote[b])'
           \/ pc = "committed" /\ CutShort /\ b = branch /\ b # Main
<1>1. /\ remote \in [Branch -> 0 .. Len(commits)] /\ remote[b] \in Commit
      /\ remote'[b] \in Commit' /\ remote[Main] \in Commit
      /\ Len(commits) \in Nat /\ Len(commits') \in Nat /\ branch \in Branch
      /\ RepoTypeOK /\ Rooted(commits)
  BY PlatformTypes, PlatformTypesLater DEF Commit, HistoryOK, DInv, IInv, TypeOK
<1>2. CASE remote'[b] = remote[b]
  BY <1>1, <1>2, AncestorsRange DEF HistoryOK, Commit, Ancestors, AncestorsIn
<1>3. CASE b = Main /\ remote'[b] # remote[b]
  <2>1. remote[Main] \in Ancestors(remote[Main])
    BY <1>1, OwnAncestors
  <2>. QED
    BY <1>3, <2>1, MainGrows
<1>4. CASE b # Main /\ remote'[b] # remote[b]
  <2>1. CASE Push
    <3>1. remote' = [remote EXCEPT ![branch] = refs[branch]] /\ commits' = commits /\ Pushable
      BY <2>1 DEF Push, repoVars
    <3>2. b = branch /\ remote'[b] = refs[branch]
      BY <1>1, <1>4, <3>1
    <3>3. CASE remote[b] \in Ancestors(refs[branch])
      BY <3>1, <3>2, <3>3 DEF Ancestors
    <3>4. CASE CutShort
      BY <1>4, <2>1, <3>2, <3>4 DEF Push
    <3>. QED
      BY <1>1, <3>1, <3>2, <3>3, <3>4 DEF Pushable
  <2>2. CASE LocalWork \/ PushRefused \/ UnknownWatermark \/ OpenChangeRequest
             \/ ChangeRequestRefused \/ NewDirectory \/ Pull \/ DeleteLocalBranch
             \/ UNCHANGED deliveryVars
    BY <1>4, <2>2 DEF LocalWork, PushRefused, UnknownWatermark, OpenChangeRequest,
                      ChangeRequestRefused, NewDirectory, Pull, CheckoutMain, DeleteLocalBranch,
                      deliveryVars, remoteVars
  <2>3. CASE Team
    <3>1. ASSUME NEW s \in Src, TeamCommit(s) PROVE FALSE
      BY <1>1, <1>4, <3>1 DEF TeamCommit, RemoteCommit
    <3>2. ASSUME NEW c \in Branch, MergeRequest(c) PROVE FALSE
      BY <1>1, <1>4, <3>2 DEF MergeRequest, EndRequest
    <3>3. ASSUME NEW c \in Branch, RivalJob(c) PROVE FALSE
      BY <1>1, <1>4, <3>3 DEF RivalJob, RemoteCommit
    <3>4. ASSUME NEW c \in Branch, CloseRequest(c) \/ DeleteRemoteBranch(c) PROVE FALSE
      BY <1>1, <1>4, <3>4 DEF CloseRequest, EndRequest, DeleteRemoteBranch
    <3>. QED
      BY <2>3, <3>1, <3>2, <3>3, <3>4 DEF Team
  <2>. QED
    BY <2>1, <2>2, <2>3, DeliverySteps DEF DeliveryStep
<1>. QED
  BY <1>2, <1>3, <1>4

(* Nothing takes a commit away from a branch of the platform that stays,   *)
(* but the push of a run whose clone is shallow and whose branch reaches   *)
(* the end of it: doPush does not force, and go-git takes what it does not *)
(* find there for an ancestor.  Main is never replaced.                    *)
THEOREM BranchesOnlyGrow == DeliverySpec => RemoteOnlyGrows
<1>1. ASSUME DInv, DInv', AgeInv, AgeInv', [DeliveryNext]_deliveryVars
      PROVE  \A b \in Branch : remote[b] # 0 /\ remote'[b] # 0 =>
                \/ remote[b] \in Ancestors(remote[b])'
                \/ pc = "committed" /\ CutShort /\ b = branch /\ b # Main
  BY <1>1, RemoteMoves DEF AgeInv
<1>2. DeliveryInit => AgeInv
  BY InitAge DEF DeliveryInit
<1>. QED
  BY <1>1, <1>2, DeliveryInitInv, DeliveryNextInv, DeliveryNextAge, PTL
  DEF DeliverySpec, RemoteOnlyGrows

-----------------------------------------------------------------------------
(* Requests.  The run works on its own branch from the checkout on.        *)
OnBranch ==
    /\ pc \in {"write", "sidecar"} /\ ~dry => head = branch
    /\ pc \in {"stage", "commit", "committed"} => head = branch

(* No docs branch is part of Main: neither one that is published, nor the  *)
(* one that is about to be.                                                *)
Unmerged ==
    /\ \A b \in Branch : b # Main /\ remote[b] # 0 => remote[b] \notin Ancestors(remote[Main])
    /\ pc = "committed" => refs[branch] \notin Ancestors(remote[Main])

OpenHasBranch == \A b \in Branch : mr[b] = "open" => b # Main /\ remote[b] # 0

(* A run's branch stays the one it checked out.                            *)
LEMMA OnBranchNext ==
    ASSUME DInv, OnBranch, [DeliveryNext]_deliveryVars
    PROVE  OnBranch'
<1>1. CASE pc' \notin {"write", "sidecar", "stage", "commit", "committed"}
  BY <1>1 DEF OnBranch
<1>2. CASE AssembleStep \/ Start
  <2>1. pc' \in {"idle", "read", "diff", "resolve", "generate", "plan"}
    BY <1>2 DEF AssembleStep, ReadDoc, ComputeDiff, OverBudget, SkipEntry, ResolveHEAD, Generate,
                Start, Finish, FinishSkipping, AfterEntry
  <2>. QED
    BY <2>1 DEF OnBranch
<1>3. CASE ApplyStep /\ pc' # "idle"
  <2>1. CASE PlanWrites \/ ResolveBranch \/ CreateRef \/ CheckoutHead \/ ResetIndex
    BY <2>1 DEF OnBranch, PlanWrites, ResolveBranch, CreateRef, CheckoutHead, ResetIndex, settings
  <2>2. CASE ResetFiles
    BY <2>2 DEF OnBranch, ResetFiles, DInv, IInv, ControlOK
  <2>3. CASE WriteFile \/ WriteFileNoFrontmatter \/ SaveSidecar
    BY <1>3, <2>3
    DEF OnBranch, WriteFile, WriteFileNoFrontmatter, SaveSidecar, AfterWrite, Finish,
        FinishSkipping, settings, applyVars
  <2>4. CASE StageFiles \/ CommitIndex
    BY <1>3, <2>4
    DEF OnBranch, StageFiles, CommitIndex, Finish, FinishSkipping, settings, applyVars
  <2>5. CASE PlanNothing \/ BranchExists \/ CheckoutRefused
    BY <1>3, <2>5 DEF PlanNothing, BranchExists, CheckoutRefused, Finish, FinishSkipping
  <2>. QED
    BY <1>3, <2>1, <2>2, <2>3, <2>4, <2>5 DEF ApplyStep
<1>4. CASE Failure
  BY <1>4 DEF Failure, FailCleanly, FailTorn, FailStaging, Finish, FinishSkipping, OnBranch
<1>5. CASE DeliveryStep \/ UnknownWatermark
  BY <1>5 DEF DeliveryStep, Push, PushRefused, UnknownWatermark, OpenChangeRequest,
              ChangeRequestRefused, Finish, FinishSkipping, OnBranch
<1>6. CASE Team \/ UNCHANGED deliveryVars
  <2>1. UNCHANGED << pc, dry, branch, head >>
    BY <1>6, TeamPublishes
    DEF NothingPublished, OntoMain, deliveryVars, vars, runVars, repoVars, settings, applyVars
  <2>. QED
    BY <2>1 DEF OnBranch
<1>7. CASE NewDirectory \/ Pull \/ DeleteLocalBranch
  BY <1>7 DEF NewDirectory, Pull, CheckoutMain, DeleteLocalBranch, runVars, OnBranch
<1>. QED
  BY <1>1, <1>2, <1>3, <1>4, <1>5, <1>6, <1>7, DeliverySteps DEF LocalWork, LocalStep, OnBranch

(* The commit of a run is on its branch, and new.                          *)
LEMMA CommitIsNew ==
    ASSUME DInv, OnBranch, LocalStep, pc' = "committed"
    PROVE  branch' = branch /\ refs'[branch] = Len(commits) + 1
<1>1. CommitIndex
  BY DEF LocalStep, Start, AssembleStep, ReadDoc, ComputeDiff, OverBudget, SkipEntry, ResolveHEAD,
         Generate, AfterEntry, ApplyStep, PlanNothing, PlanWrites, ResolveBranch, BranchExists,
         CreateRef, CheckoutRefused, CheckoutHead, ResetIndex, ResetFiles, WriteFile,
         WriteFileNoFrontmatter, SaveSidecar, AfterWrite, StageFiles, Failure, FailCleanly,
         FailTorn, FailStaging, Finish, FinishSkipping
<1>2. refs \in [Branch -> 0 .. Len(commits)] /\ branch \in Branch
  BY DEF DInv, IInv, TypeOK, RepoTypeOK, RunTypeOK
<1>. QED
  BY <1>1, <1>2 DEF CommitIndex, AppendCommit, Finish, FinishSkipping, OnBranch, applyVars

(* Whatever is merged into Main, Main has only its squash.                 *)
LEMMA UnmergedNext ==
    ASSUME DInv, DInv', HistoryOK, HistoryOK', OnBranch, Unmerged, [DeliveryNext]_deliveryVars
    PROVE  Unmerged'
<1>. DEFINE new == Len(commits) + 1
<1>1. /\ remote \in [Branch -> 0 .. Len(commits)] /\ refs \in [Branch -> 0 .. Len(commits)]
      /\ Len(commits) \in Nat /\ branch \in Branch \ {Main} /\ branch' \in Branch
      /\ remote[Main] \in Commit /\ Main \in Branch
  BY PlatformTypes, PlatformTypesLater DEF Commit
<1>2. Ancestors(remote[Main]) \subseteq 1 .. Len(commits)
  BY <1>1, OwnAncestors DEF Commit
<1>3. Ancestors(remote[Main])' \subseteq Ancestors(remote[Main]) \cup {new}
  BY MainGrows
<1>4. ASSUME ~ \E tree : OntoMain(tree) PROVE new \notin Ancestors(remote[Main])'
  BY <1>1, <1>2, <1>4, MainGrows
<1>5. \A c \in 0 .. Len(commits) : c \notin Ancestors(remote[Main]) =>
                                       c \notin Ancestors(remote[Main])'
  BY <1>1, <1>3
<1>6. ASSUME NEW b \in Branch, b # Main, remote'[b] # 0
      PROVE  remote'[b] \notin Ancestors(remote[Main])'
  <2>1. CASE remote'[b] = remote[b]
    BY <1>1, <1>5, <1>6, <2>1 DEF Unmerged
  <2>2. CASE Push
    BY <1>1, <1>5, <1>6, <2>2 DEF Push, Unmerged
  <2>3. CASE Team /\ remote'[b] # remote[b]
    <3>1. ASSUME NEW s \in Src, TeamCommit(s) PROVE FALSE
      BY <1>1, <1>6, <2>3, <3>1 DEF TeamCommit, RemoteCommit
    <3>2. ASSUME NEW c \in Branch, MergeRequest(c) PROVE FALSE
      BY <1>1, <1>6, <2>3, <3>2 DEF MergeRequest, EndRequest
    <3>3. ASSUME NEW c \in Branch, CloseRequest(c) \/ DeleteRemoteBranch(c) PROVE FALSE
      BY <1>1, <1>6, <2>3, <3>3 DEF CloseRequest, EndRequest, DeleteRemoteBranch
    <3>4. ASSUME NEW c \in Branch, RivalJob(c)
          PROVE  remote'[b] = new /\ remote'[Main] = remote[Main]
      BY <1>1, <1>6, <2>3, <3>4 DEF RivalJob, RemoteCommit
    <3>5. remote'[b] = new /\ remote'[Main] = remote[Main]
      BY <2>3, <3>1, <3>2, <3>3, <3>4 DEF Team
    <3>6. ASSUME NEW c, c = remote[Main] PROVE Ancestors(c)' = Ancestors(c)
      BY <1>1, <3>6, PastStays DEF Commit
    <3>7. Ancestors(remote[Main])' = Ancestors(remote[Main])
      BY <3>5, <3>6
    <3>. QED
      BY <1>1, <1>2, <3>5, <3>7
  <2>4. CASE LocalWork \/ PushRefused \/ UnknownWatermark \/ OpenChangeRequest
             \/ ChangeRequestRefused \/ NewDirectory \/ Pull \/ DeleteLocalBranch
             \/ UNCHANGED deliveryVars
    BY <2>1, <2>4 DEF LocalWork, PushRefused, UnknownWatermark, OpenChangeRequest,
                      ChangeRequestRefused, NewDirectory, Pull, CheckoutMain, DeleteLocalBranch,
                      deliveryVars, remoteVars
  <2>. QED
    BY <2>1, <2>2, <2>3, <2>4, DeliverySteps DEF DeliveryStep
<1>7. ASSUME pc' = "committed" PROVE refs'[branch'] \notin Ancestors(remote[Main])'
  <2>1. CASE LocalWork
    <3>1. branch' = branch /\ refs'[branch] = new /\ ~ \E tree : OntoMain(tree)
      <4>1. branch' = branch /\ refs'[branch] = new
        BY <1>7, <2>1, CommitIsNew DEF LocalWork
      <4>2. refs[branch] # new
        BY <1>1
      <4>. QED
        BY <4>1, <4>2 DEF OntoMain
    <3>. QED
      BY <1>4, <3>1
  <2>2. CASE Team \/ UNCHANGED deliveryVars
    <3>1. UNCHANGED << pc, branch, refs >>
      BY <2>2, TeamPublishes
      DEF NothingPublished, OntoMain, deliveryVars, vars, runVars, repoVars, settings, applyVars
    <3>2. refs[branch] \in 0 .. Len(commits)
      BY <1>1
    <3>. QED
      BY <1>5, <1>7, <3>1, <3>2 DEF Unmerged
  <2>3. CASE DeliveryStep \/ UnknownWatermark \/ NewDirectory \/ Pull \/ DeleteLocalBranch
    BY <1>7, <2>3 DEF DeliveryStep, Push, PushRefused, UnknownWatermark, OpenChangeRequest,
                      ChangeRequestRefused, Finish, FinishSkipping, NewDirectory, Pull,
                      CheckoutMain, DeleteLocalBranch, runVars
  <2>. QED
    BY <2>1, <2>2, <2>3, DeliverySteps
<1>. QED
  BY <1>6, <1>7 DEF Unmerged

(* Where a request is open its branch is there.                            *)
LEMMA OpenHasBranchNext ==
    ASSUME DInv, HistoryOK, OpenHasBranch, [DeliveryNext]_deliveryVars
    PROVE  OpenHasBranch'
<1>1. /\ remote \in [Branch -> 0 .. Len(commits)] /\ mr \in [Branch -> MRStates]
      /\ refs \in [Branch -> 0 .. Len(commits)]
      /\ Len(commits) \in Nat /\ branch \in Branch \ {Main} /\ Main \in Branch
  BY PlatformTypes
<1>2. CASE Push
  <2>1. Ancestors(0) = {}
    BY <1>1, NoAncestors, AncestorsHere DEF HistoryOK
  <2>2. refs[branch] # 0
    BY <1>2, <2>1 DEF Push, Pushable, CutShort
  <2>. QED
    BY <1>1, <1>2, <2>2 DEF Push, OpenHasBranch
<1>3. CASE OpenChangeRequest
  BY <1>1, <1>3 DEF OpenChangeRequest, OpenHasBranch
<1>4. CASE Team
  <2>1. ASSUME NEW s \in Src, TeamCommit(s) PROVE OpenHasBranch'
    BY <1>1, <2>1 DEF TeamCommit, RemoteCommit, OpenHasBranch
  <2>2. ASSUME NEW b \in Branch, RivalJob(b) PROVE OpenHasBranch'
    BY <1>1, <2>2 DEF RivalJob, RemoteCommit, OpenHasBranch
  <2>3. ASSUME NEW b \in Branch, MergeRequest(b) PROVE OpenHasBranch'
    BY <1>1, <2>3 DEF MergeRequest, EndRequest, OpenHasBranch
  <2>4. ASSUME NEW b \in Branch, CloseRequest(b) PROVE OpenHasBranch'
    BY <1>1, <2>4 DEF CloseRequest, EndRequest, OpenHasBranch
  <2>5. ASSUME NEW b \in Branch, DeleteRemoteBranch(b) PROVE OpenHasBranch'
    BY <1>1, <2>5 DEF DeleteRemoteBranch, OpenHasBranch
  <2>. QED
    BY <1>4, <2>1, <2>2, <2>3, <2>4, <2>5 DEF Team
<1>5. CASE LocalWork \/ PushRefused \/ UnknownWatermark \/ ChangeRequestRefused \/ NewDirectory
           \/ Pull \/ DeleteLocalBranch \/ UNCHANGED deliveryVars
  BY <1>5 DEF LocalWork, PushRefused, UnknownWatermark, ChangeRequestRefused, NewDirectory, Pull,
              CheckoutMain, DeleteLocalBranch, deliveryVars, remoteVars, OpenHasBranch
<1>. QED
  BY <1>2, <1>3, <1>4, <1>5, DeliverySteps DEF DeliveryStep

(* An open request always has its branch, with something Main has not: the *)
(* request is opened after the push, and what is pushed is a new commit.   *)
THEOREM OpenRequestsHaveBranches == DeliverySpec => []RequestHasBranch
<1>1. DeliveryInit => AgeInv /\ OnBranch /\ Unmerged /\ OpenHasBranch
  BY InitAge DEF DeliveryInit, Init, RepoInit, OnBranch, Unmerged, OpenHasBranch
<1>2. ASSUME DInv, DInv', AgeInv, AgeInv', OnBranch, Unmerged, OpenHasBranch,
             [DeliveryNext]_deliveryVars
      PROVE  OnBranch' /\ Unmerged' /\ OpenHasBranch'
  BY <1>2, OnBranchNext, UnmergedNext, OpenHasBranchNext DEF AgeInv
<1>3. Unmerged /\ OpenHasBranch => RequestHasBranch
  BY DEF Unmerged, OpenHasBranch, RequestHasBranch
<1>. QED
  BY <1>1, <1>2, <1>3, DeliveryInitInv, DeliveryNextInv, DeliveryNextAge, PTL DEF DeliverySpec

-----------------------------------------------------------------------------
(* The truth of what is published.  Other jobs write frontmatter.          *)
SettledTeam == Settled /\ (FrontmatterOnly \/ Rivals = {})

(* Another job documents the head of Main, and stamps it.                  *)
LEMMA RivalExact ==
    ASSUME DInv, ExactInv, FrontmatterOnly
    PROVE  ExactTree(commits, mode, RivalTree)
<1>1. /\ remote[Main] \in Commit /\ remote[Main] # NoMark
      /\ RivalTree.side = TreeOf(remote[Main]).side
      /\ \A d \in Doc : RivalTree.doc[d] = RivalPage(d) /\ RivalPage(d) # Nil
  BY PublishedTrees DEF NoMark, Commit
<1>2. ExactTree(commits, mode, TreeOf(remote[Main])) /\ mode \in Modes
  BY <1>1 DEF ExactInv, CommitsExact
<1>3. ASSUME NEW d \in Doc PROVE Exact(commits, mode, RivalTree, d)
  <2>1. mode[d] = Nil /\ NoOtherMark(mode, TreeOf(remote[Main]), d)
    BY <1>2 DEF FrontmatterOnly, ExactTree, Exact
  <2>2. NoOtherMark(mode, RivalTree, d)
    BY <1>1, <2>1 DEF NoOtherMark, SidecarMark
  <2>3. RivalTree.doc[d] # Nil /\ RivalTree.doc[d].mark = remote[Main]
        /\ RivalTree.doc[d].shows =
             [s \in Src |-> IF s \in CoversOf(d) THEN TreeOf(remote[Main]).src[s] ELSE 0]
    <3>1. RivalTree.doc[d] = RivalPage(d) /\ RivalPage(d) # Nil
      BY <1>1
    <3>2. /\ RivalPage(d).mark = remote[Main]
          /\ RivalPage(d).shows =
               [s \in Src |-> IF s \in CoversOf(d) THEN TreeOf(remote[Main]).src[s] ELSE 0]
      BY DEF RivalPage
    <3>. QED
      BY <3>1, <3>2
  <2>4. OwnMark(mode, RivalTree, d) = remote[Main]
    BY <2>1, <2>3 DEF OwnMark, FrontmatterOf
  <2>5. CoversOf(d) \subseteq Src
    BY ManifestEntry DEF CoversOf
  <2>6. Tells(commits, TextOf(RivalTree.doc[d]), remote[Main], d)
    BY <1>1, <2>3, <2>5 DEF Tells, TextOf, Shown, TreeOf
  <2>. QED
    BY <2>2, <2>4, <2>6 DEF Exact
<1>. QED
  BY <1>3 DEF ExactTree

(* A commit that appears beside the run leaves what is true true.          *)
LEMMA PublishedExact ==
    ASSUME DInv, DInv', AgeInv, ExactInv, NEW tree \in Tree, MarksBefore(tree, Len(commits) + 1),
           ExactTree(commits, mode, tree), OntoMain(tree)
    PROVE  ExactInv'
<1>1. IInv /\ IInv' /\ RepoTypeOK /\ remote[Main] \in Commit
      /\ mode \in [Doc -> Sidecar \cup {Nil}]
  BY PublishedTrees DEF DInv, IInv, TypeOK, RunTypeOK
<1>2. UNCHANGED << refs, head, index, worktree, runVars, mode >>
      /\ commits' = Append(commits, [tree |-> tree, parent |-> remote[Main]])
  BY DEF OntoMain, runVars, settings
<1>3. CommitsExact' /\ SameTrees(commits, commits', Len(commits))
  BY <1>1, <1>2, AppendExact DEF AgeInv, ExactInv
<1>4. HeadTree' = HeadTree
  <2>1. HeadCommit \in Commit /\ HeadCommit' = HeadCommit
    BY <1>1, <1>2, HeadIsCommit DEF HeadCommit
  <2>2. \A c \in Commit : TreeOf(c)' = TreeOf(c)
    BY <1>1, <1>2, AppendAge DEF AgeInv
  <2>. QED
    BY <2>1, <2>2 DEF HeadTree
<1>5. /\ SameDocs(index', index) /\ SameDocs(worktree', worktree)
      /\ IsClean => IsClean'
  BY <1>2, <1>4 DEF SameDocs, IsClean
<1>. QED
  BY <1>1, <1>2, <1>3, <1>4, <1>5, BesideExact

(* So does a change of the platform alone.                                 *)
LEMMA NothingPublishedExact ==
    ASSUME ExactInv, NothingPublished
    PROVE  ExactInv'
<1>1. UNCHANGED << commits, refs, head, index, worktree, pc, mode, plan, asm, cur, base, removed, k,
                   touched >>
  BY DEF NothingPublished, runVars, settings, entryVars, applyVars
<1>2. CommitsExact' /\ RunExact'
  BY <1>1, SameCommitsExact
  DEF ExactInv, RunExact, PlanExact, AsmExact, BodyExact, DiffExact, StampExact, HeadTree,
      HeadCommit, TreeOf
<1>3. FilesTrue'
  BY <1>1
  DEF ExactInv, FilesTrue, FilesExact, TidyFiles, IsClean, HeadTree, HeadCommit, TreeOf,
      ToRestore, Untouched, PlannedDocs, Bodies, HalfWritten
<1>. QED
  BY <1>1, <1>2, <1>3 DEF ExactInv

(* So do the push and the request.                                         *)
LEMMA DeliveryStepExact == ExactInv /\ (DeliveryStep \/ UnknownWatermark) => ExactInv'
<1>. SUFFICES ASSUME ExactInv, DeliveryStep \/ UnknownWatermark PROVE ExactInv'
  OBVIOUS
<1>1. UNCHANGED repoVars
  BY DEF DeliveryStep, Push, PushRefused, UnknownWatermark, OpenChangeRequest,
         ChangeRequestRefused, repoVars
<1>2. CASE \E result : Finish(result)
  <2>1. UNCHANGED << commits, index, worktree, mode >>
    BY <1>1, <1>2 DEF repoVars, Finish, FinishSkipping
  <2>2. FrontmatterOnly => FilesExact'
    BY <2>1 DEF ExactInv, FilesTrue, FilesExact
  <2>. QED
    BY <1>2, <2>1, <2>2, EndExact DEF Finish
<1>3. CASE pc' = "request" /\ UNCHANGED << plan, settings, entryVars, applyVars, resultVars >>
  <2>1. UNCHANGED << commits, index, worktree, mode, plan >>
    BY <1>1, <1>3 DEF repoVars, settings
  <2>2. CommitsExact' /\ RunExact'
    BY <1>3, <2>1, SameCommitsExact, QuietRun DEF ExactInv
  <2>3. FilesTrue'
    BY <1>3, <2>1 DEF ExactInv, FilesTrue, FilesExact, TidyFiles, CleanPhases
  <2>. QED
    BY <2>1, <2>2, <2>3 DEF ExactInv
<1>. QED
  BY <1>2, <1>3 DEF DeliveryStep, Push, PushRefused, UnknownWatermark, OpenChangeRequest,
                    ChangeRequestRefused

(* A fresh clone, or a kept one brought up to date, has Main's files.      *)
LEMMA CloneExact ==
    ASSUME DInv, DInv', AgeInv, ExactInv, NewDirectory \/ Pull \/ DeleteLocalBranch
    PROVE  ExactInv'
<1>1. /\ IInv /\ RepoTypeOK /\ HistoryOK /\ Len(commits) \in Nat /\ remote[Main] \in Commit
      /\ mode \in [Doc -> Sidecar \cup {Nil}]
  <2>1. IInv /\ RepoTypeOK /\ RunTypeOK /\ HistoryOK
    BY DEF DInv, IInv, TypeOK, AgeInv
  <2>. QED
    BY <2>1, PublishedTrees DEF RepoTypeOK, RunTypeOK
<1>2. pc = "idle" /\ UNCHANGED << pc, mode, plan >>
  BY DEF NewDirectory, Pull, CheckoutMain, DeleteLocalBranch, runVars, settings
<1>3. CASE NewDirectory
  <2>. DEFINE n == LastPublished
  <2>1. Shortened(n) /\ remote[Main] <= n
    BY <1>3, CloneShortens, RepositoryAssumption
  <2>2. /\ n \in Nat /\ Len(commits') = n /\ remote[Main] \in Commit'
        /\ \A c \in Commit' : c \in Commit /\ c \in Nat /\ c <= n /\ TreeOf(c)' = TreeOf(c)
    BY <1>1, <2>1, ShortenedAge DEF Shortened, Commit
  <2>3. SameTrees(commits, commits', n)
    BY <2>1 DEF SameTrees, Shortened
  <2>. HIDE DEF n
  <2>4. ASSUME NEW c \in Commit' PROVE ExactTree(commits', mode, TreeOf(c))
    <3>1. /\ TreeOf(c) \in Tree /\ MarksBefore(TreeOf(c), c) /\ c \in Nat
          /\ n + 1 \in Nat /\ c <= n + 1
      BY <1>1, <2>2, CommittedTree DEF HistoryOK
    <3>2. MarksBefore(TreeOf(c), n + 1)
      BY <3>1, MarksBeforeLater
    <3>3. ExactTree(commits, mode, TreeOf(c))
      BY <2>2 DEF ExactInv, CommitsExact
    <3>. QED
      BY <1>1, <2>2, <2>3, <3>1, <3>2, <3>3, TreeLater
  <2>5. CommitsExact'
    BY <1>2, <2>2, <2>4 DEF CommitsExact
  <2>6. FilesExact'
    <3>1. index' = TreeOf(remote[Main]) /\ worktree' = TreeOf(remote[Main])
      BY <1>3 DEF NewDirectory, CheckoutMain
    <3>. QED
      BY <1>2, <2>2, <2>4, <3>1 DEF FilesExact
  <2>. QED
    BY <1>2, <2>5, <2>6, IdleExact
<1>4. CASE Pull
  <2>1. commits' = commits /\ index' = TreeOf(remote[Main]) /\ worktree' = TreeOf(remote[Main])
    BY <1>4 DEF Pull, CheckoutMain
  <2>2. CommitsExact' /\ FilesExact'
    BY <1>1, <1>2, <2>1, SameCommitsExact DEF ExactInv, CommitsExact, FilesExact
  <2>. QED
    BY <1>2, <2>2, IdleExact
<1>5. CASE DeleteLocalBranch
  <2>1. UNCHANGED << commits, index, worktree >>
    BY <1>5 DEF DeleteLocalBranch, DeleteBranch
  <2>2. CommitsExact' /\ (FrontmatterOnly => FilesExact')
    BY <1>2, <2>1, SameCommitsExact DEF ExactInv, FilesTrue, FilesExact
  <2>. QED
    BY <1>2, <2>2, IdleExact
<1>. QED
  BY <1>3, <1>4, <1>5

(* What the team and other jobs commit is as true as what they start from. *)
LEMMA TeamExact ==
    ASSUME SettledTeam, DInv, DInv', AgeInv, ExactInv, Team
    PROVE  ExactInv'
<1>1. /\ remote[Main] \in Commit /\ RepoTypeOK /\ HistoryOK
      /\ mode \in [Doc -> Sidecar \cup {Nil}]
      /\ ExactTree(commits, mode, TreeOf(remote[Main]))
  BY PublishedTrees DEF DInv, IInv, TypeOK, RunTypeOK, AgeInv, ExactInv, CommitsExact
<1>2. CASE NothingPublished
  BY <1>2, NothingPublishedExact
<1>3. ASSUME NEW s \in Src, OntoMain(TeamTree(s)) PROVE ExactInv'
  <2>1. ExactTree(commits, mode, TeamTree(s))
    BY <1>1, PublishedTrees, ExactSame
  <2>. QED
    BY <1>1, <1>3, <2>1, PublishedTrees, PublishedMarks, PublishedExact
<1>4. CASE Rivals # {} /\ OntoMain(RivalTree)
  <2>1. ExactTree(commits, mode, RivalTree)
    BY <1>4, RivalExact DEF SettledTeam
  <2>. QED
    BY <1>1, <1>4, <2>1, PublishedTrees, PublishedMarks, PublishedExact
<1>5. ASSUME NEW b \in Branch, remote[b] # 0, ~Conflict(remote[b], remote[Main]),
             OntoMain(Merged(remote[b], remote[Main]))
      PROVE  ExactInv'
  <2>1. remote[b] \in Commit
    BY <1>5, RemoteCommitType
  <2>2. ExactTree(commits, mode, Merged(remote[b], remote[Main]))
    BY <1>1, <1>5, <2>1, MergedCommitExact DEF ExactInv
  <2>. QED
    BY <1>1, <1>5, <2>2, PublishedMarks, PublishedExact
<1>. QED
  BY <1>2, <1>3, <1>4, <1>5, TeamPublishes

(* Every step.                                                             *)
LEMMA DeliveryNextExact ==
    ASSUME SettledTeam, DInv, DInv', AgeInv, ExactInv, [DeliveryNext]_deliveryVars
    PROVE  ExactInv'
<1>1. CASE LocalWork
  BY <1>1, LocalStepExact DEF LocalWork, DInv, SettledTeam
<1>2. CASE UNCHANGED deliveryVars
  BY <1>2, NothingPublishedExact DEF deliveryVars, vars, repoVars, NothingPublished
<1>. QED
  BY <1>1, <1>2, DeliveryStepExact, TeamExact, CloneExact, DeliverySteps

(* Every document on every branch of the platform is true to its watermark:*)
(* through pushes, squash merges, rival jobs and new clones.  The setting  *)
(* is that of WatermarksAreTruthful; HEAD needs no help here, since nobody *)
(* commits in the directory of a job.                                      *)
THEOREM PublishedIsTruthful ==
    ASSUME SettledTeam PROVE DeliverySpec => []PublishedTruthful
<1>1. DInv /\ ExactInv => PublishedTruthful
  <2>. SUFFICES ASSUME DInv, ExactInv, NEW b \in Branch, remote[b] # 0, NEW d \in Doc,
                       NEW m \in MarksOf(TreeOf(remote[b]), d), NEW s \in CoversOf(d)
                PROVE  TreeOf(m).src[s] <= TextOf(TreeOf(remote[b]).doc[d])[s]
    BY DEF PublishedTruthful
  <2>1. /\ TreeOf(remote[b]) \in Tree /\ remote[b] \in Commit
        /\ mode \in [Doc -> Sidecar \cup {Nil}]
    BY RemoteCommitType DEF DInv, IInv, TypeOK, RunTypeOK
  <2>2. Exact(commits, mode, TreeOf(remote[b]), d)
    BY <2>1 DEF ExactInv, CommitsExact, ExactTree
  <2>. QED
    BY <2>1, <2>2, ExactIsTruthful
<1>2. DeliveryInit => AgeInv /\ ExactInv
  BY InitAge, InitExact DEF DeliveryInit
<1>3. DInv /\ DInv' /\ AgeInv /\ ExactInv /\ [DeliveryNext]_deliveryVars => ExactInv'
  BY DeliveryNextExact
<1>. QED
  BY <1>1, <1>2, <1>3, DeliveryInitInv, DeliveryNextInv, DeliveryNextAge, PTL DEF DeliverySpec

-----------------------------------------------------------------------------
(* The commits the watermarks name.  Every watermark of the tree is one of *)
(* a set of commits.                                                       *)
MarksIn(tree, S) ==
    /\ \A d \in Doc : FrontmatterOf(tree.doc[d]) \in S \cup {NoMark}
    /\ \A w \in Sidecar, d \in Doc : SidecarMark(tree, w, d) \in S \cup {NoMark}

CommitsIn(S) == \A c \in Commit : MarksIn(TreeOf(c), S)

FilesIn(S) == MarksIn(index, S) /\ MarksIn(worktree, S)

(* HEAD is in the set until the stamps are taken, and so are the stamps.   *)
StampsIn(S) ==
    /\ pc \in {"read", "diff", "resolve", "generate"} => HeadCommit \in S
    /\ \A i \in DOMAIN plan : plan[i].sha \in S

(* What is made of two trees has their watermarks.                         *)
LEMMA InMixes ==
    ASSUME NEW S, NEW tree, NEW t, NEW u, Mixes(tree, t, u), MarksIn(t, S), MarksIn(u, S)
    PROVE  MarksIn(tree, S)
<1>1. ASSUME NEW d \in Doc PROVE FrontmatterOf(tree.doc[d]) \in S \cup {NoMark}
  BY DEF Mixes, MarksIn
<1>2. ASSUME NEW w \in Sidecar, NEW d \in Doc PROVE SidecarMark(tree, w, d) \in S \cup {NoMark}
  BY DEF Mixes, MarksIn, SidecarMark
<1>. QED
  BY <1>1, <1>2 DEF MarksIn

(* A write brings its stamp, or nothing.                                   *)
LEMMA WritesIn ==
    ASSUME NEW S, IInv, AgeInv, MarksIn(worktree, S), StampsIn(S),
           WriteFile \/ WriteFileNoFrontmatter \/ SaveSidecar \/ FailTorn
    PROVE  MarksIn(worktree', S)
<1>1. pc \in {"write", "sidecar"} /\ worktree \in Tree
  BY DEF WriteFile, WriteFileNoFrontmatter, SaveSidecar, FailTorn, IInv, TypeOK, RepoTypeOK
<1>2. /\ k \in DOMAIN plan /\ plan[k].doc \in Doc /\ plan[k].text \in Text
      /\ plan[k].sha \in Mark /\ plan[k].sha \in S
      /\ pc = "sidecar" => plan[k].side \in Sidecar
  BY <1>1, EntryAge DEF IInv, ControlOK, HasBodies, StampsIn
<1>3. ASSUME NEW page, WithPage(worktree', worktree, plan[k].doc, page),
             FrontmatterOf(page) \in S \cup {NoMark}
      PROVE  MarksIn(worktree', S)
  <2>1. \A d \in Doc : FrontmatterOf(worktree'.doc[d]) \in S \cup {NoMark}
    BY <1>3 DEF WithPage, MarksIn
  <2>. QED
    BY <1>3, <2>1 DEF WithPage, MarksIn, SidecarMark
<1>4. ASSUME NEW w \in Sidecar, NEW recs, recs # Nil, WithFile(worktree', worktree, w, recs),
             \A d \in Doc : Lookup(recs, d) \in S \cup {NoMark}
      PROVE  MarksIn(worktree', S)
  <2>1. ASSUME NEW d \in Doc, NEW v \in Sidecar
        PROVE  SidecarMark(worktree', v, d) \in S \cup {NoMark}
    <3>1. SidecarMark(worktree', w, d) = Lookup(recs, d)
          /\ (v # w => SidecarMark(worktree', v, d) = SidecarMark(worktree, v, d))
      BY <1>4, FileRecords
    <3>2. SidecarMark(worktree, v, d) \in S \cup {NoMark}
      BY DEF MarksIn
    <3>. QED
      BY <1>4, <3>1, <3>2
  <2>. QED
    BY <1>4, <2>1 DEF WithFile, MarksIn
<1>5. CASE WriteFile
  <2>1. WithPage(worktree', worktree, plan[k].doc, [mark |-> plan[k].sha, shows |-> plan[k].text])
    BY <1>1, <1>2, <1>5 DEF WriteFile, Tree, WithPage
  <2>2. FrontmatterOf([mark |-> plan[k].sha, shows |-> plan[k].text]) = plan[k].sha
    BY <1>2, PageParts
  <2>. QED
    BY <1>2, <1>3, <2>1, <2>2
<1>6. CASE WriteFileNoFrontmatter
  <2>1. WithPage(worktree', worktree, plan[k].doc, [mark |-> NoMark, shows |-> plan[k].text])
    BY <1>1, <1>2, <1>6 DEF WriteFileNoFrontmatter, Tree, WithPage
  <2>2. FrontmatterOf([mark |-> NoMark, shows |-> plan[k].text]) = NoMark
    BY <1>2, PageParts DEF NoMark, Mark
  <2>. QED
    BY <1>3, <2>1, <2>2
<1>7. CASE SaveSidecar
  <2>. DEFINE w == plan[k].side
              recs == Load(worktree.side[w])
              saved == Upsert(recs, plan[k].doc, plan[k].sha)
  <2>1. w \in Sidecar /\ WithFile(worktree', worktree, w, saved)
    BY <1>1, <1>2, <1>7 DEF SaveSidecar, Tree, WithFile
  <2>2. recs \in Records
    BY <1>1, <1>2, <2>1, MarkTypes
  <2>3. saved # Nil
    BY <1>2, <2>2, UpsertType, EmptyFile
  <2>4. ASSUME NEW d \in Doc PROVE Lookup(saved, d) \in S \cup {NoMark}
    <3>1. CASE d = plan[k].doc
      BY <1>2, <2>2, <3>1, LookupAfterUpsert
    <3>2. CASE d # plan[k].doc
      <4>1. Lookup(saved, d) = Lookup(recs, d)
        BY <1>2, <2>2, <3>2, UpsertKeepsOthers
      <4>. QED
        BY <2>1, <4>1 DEF MarksIn, SidecarMark
    <3>. QED
      BY <3>1, <3>2
  <2>. HIDE DEF saved, w
  <2>. QED
    BY <1>4, <2>1, <2>3, <2>4
<1>8. CASE FailTorn
  <2>1. CASE pc = "write" /\ worktree' = [worktree EXCEPT !.doc[plan[k].doc] = EmptyPage]
    <3>1. NoMark \in Mark /\ NoText \in Text
      BY DEF NoMark, Mark, NoText, Text
    <3>2. FrontmatterOf(EmptyPage) = NoMark
      BY <3>1, PageParts DEF EmptyPage
    <3>3. WithPage(worktree', worktree, plan[k].doc, EmptyPage)
      BY <1>1, <1>2, <2>1 DEF WithPage, Tree
    <3>. QED
      BY <1>3, <3>2, <3>3
  <2>2. CASE pc = "sidecar" /\ worktree' = [worktree EXCEPT !.side[plan[k].side] = << >>]
    <3>1. << >> # Nil /\ \A d \in Doc : Lookup(<< >>, d) = NoMark
      BY EmptyFile
    <3>2. plan[k].side \in Sidecar /\ WithFile(worktree', worktree, plan[k].side, << >>)
      BY <1>1, <1>2, <2>2 DEF WithFile, Tree
    <3>. QED
      BY <1>4, <3>1, <3>2
  <2>. QED
    BY <1>8, <2>1, <2>2 DEF FailTorn
<1>. QED
  BY <1>5, <1>6, <1>7, <1>8

(* No other step of a run brings the files a watermark.                    *)
LEMMA FilesStayIn ==
    ASSUME NEW S, IInv, AgeInv, CommitsIn(S), FilesIn(S), StampsIn(S), LocalStep
    PROVE  FilesIn(S)'
<1>1. index \in Tree /\ worktree \in Tree /\ MarksIn(index, S) /\ MarksIn(worktree, S)
  BY DEF IInv, TypeOK, RepoTypeOK, FilesIn
<1>2. CASE UNCHANGED << index, worktree >>
  BY <1>1, <1>2 DEF FilesIn
<1>3. CASE WriteFile \/ WriteFileNoFrontmatter \/ SaveSidecar \/ FailTorn
  <2>1. MarksIn(worktree', S)
    BY <1>1, <1>3, WritesIn
  <2>2. index' = index
    BY <1>3 DEF WriteFile, WriteFileNoFrontmatter, SaveSidecar, FailTorn
  <2>. QED
    BY <1>1, <2>1, <2>2 DEF FilesIn
<1>4. CASE StageFiles \/ FailStaging
  <2>1. worktree' = worktree /\ \E docs, sides : index' = Staged(index, worktree, docs, sides)
    BY <1>4 DEF StageFiles, FailStaging
  <2>2. Mixes(index', index, worktree)
    BY <1>1, <2>1, StagedMixes
  <2>. QED
    BY <1>1, <2>1, <2>2, InMixes DEF FilesIn
<1>5. CASE ResetIndex \/ ResetFiles
  <2>1. base \in Commit
    BY <1>5, BaseIsCommit DEF ResetIndex, ResetFiles
  <2>2. TreeOf(base) \in Tree /\ MarksIn(TreeOf(base), S)
    BY <2>1, CommittedTree DEF CommitsIn, IInv, TypeOK
  <2>3. CASE ResetIndex
    BY <1>1, <2>2, <2>3 DEF ResetIndex, FilesIn
  <2>4. CASE ResetFiles
    <3>1. index' = index /\ worktree' = RestoredTree(removed, index, TreeOf(base), worktree)
      BY <2>4 DEF ResetFiles
    <3>2. Mixes(worktree', TreeOf(base), worktree)
      BY <1>1, <2>2, <3>1, RestoredMixes
    <3>. QED
      BY <1>1, <2>2, <3>1, <3>2, InMixes DEF FilesIn
  <2>. QED
    BY <1>5, <2>3, <2>4
<1>6. Start \/ AssembleStep \/ FailCleanly \/ PlanNothing \/ PlanWrites \/ ResolveBranch
        \/ BranchExists \/ CreateRef \/ CheckoutRefused \/ CheckoutHead \/ CommitIndex
      => UNCHANGED << index, worktree >>
  BY DEF Start, AssembleStep, ReadDoc, ComputeDiff, OverBudget, SkipEntry, ResolveHEAD, Generate,
         FailCleanly, PlanNothing, PlanWrites, ResolveBranch, BranchExists, CreateRef,
         CheckoutRefused, CheckoutHead, CommitIndex, repoVars
<1>. QED
  BY <1>2, <1>3, <1>4, <1>5, <1>6 DEF LocalStep, ApplyStep, Failure

(* Nor does the commit bring the history one.                              *)
LEMMA CommitsStayIn ==
    ASSUME NEW S, IInv, AgeInv, CommitsIn(S), FilesIn(S), LocalStep
    PROVE  CommitsIn(S)'
<1>1. RepoTypeOK /\ HistoryOK /\ HeadCommit \in Commit /\ index \in Tree
      /\ MarksBefore(index, Len(commits) + 1)
  BY HeadIsCommit DEF IInv, TypeOK, AgeInv, FilesOK, RepoTypeOK
<1>2. CASE commits' = commits
  BY <1>2 DEF CommitsIn, Commit, TreeOf
<1>3. CASE AppendCommit(index)
  <2>1. /\ Len(commits) \in Nat /\ Len(commits') = Len(commits) + 1
        /\ \A c \in Commit : TreeOf(c)' = TreeOf(c)
        /\ \A c : c = Len(commits') => TreeOf(c)' = index
    BY <1>1, <1>3, AppendAge DEF AppendCommit
  <2>2. ASSUME NEW c \in Commit' PROVE MarksIn(TreeOf(c)', S)
    <3>1. c \in Commit \/ c = Len(commits')
      BY <2>1 DEF Commit
    <3>2. c \in Commit => MarksIn(TreeOf(c)', S)
      BY <2>1 DEF CommitsIn
    <3>3. c = Len(commits') => MarksIn(TreeOf(c)', S)
      BY <2>1 DEF FilesIn
    <3>. QED
      BY <3>1, <3>2, <3>3
  <2>. QED
    BY <2>2 DEF CommitsIn
<1>4. CASE CommitIndex
  BY <1>2, <1>3, <1>4 DEF CommitIndex
<1>5. CASE Start \/ AssembleStep \/ Failure \/ (ApplyStep /\ ~CommitIndex)
  <2>1. commits' = commits
    BY <1>5
    DEF Start, AssembleStep, ReadDoc, ComputeDiff, OverBudget, SkipEntry, ResolveHEAD, Generate,
        ApplyStep, PlanNothing, PlanWrites, ResolveBranch, BranchExists, CreateRef, CheckoutRefused,
        CheckoutHead, ResetIndex, ResetFiles, WriteFile, WriteFileNoFrontmatter, SaveSidecar,
        StageFiles, Failure, FailCleanly, FailTorn, FailStaging, repoVars
  <2>. QED
    BY <1>2, <2>1
<1>. QED
  BY <1>4, <1>5 DEF LocalStep

(* The stamps a run takes are its HEAD.                                    *)
LEMMA StampsStayIn ==
    ASSUME NEW S, IInv, StampsIn(S), LocalStep, pc = "idle" => HeadCommit \in S
    PROVE  StampsIn(S)'
<1>. DEFINE early == {"read", "diff", "resolve", "generate"}
<1>1. ASSUME plan' = << >>, pc' \notin early PROVE StampsIn(S)'
  BY <1>1 DEF StampsIn
<1>2. ASSUME plan' = plan, pc' \notin early PROVE StampsIn(S)'
  BY <1>2 DEF StampsIn
<1>3. ASSUME plan' = plan, pc \in early \cup {"idle"}, UNCHANGED repoVars PROVE StampsIn(S)'
  BY <1>3 DEF StampsIn, HeadCommit, repoVars
<1>4. \A result, docs : FinishSkipping(result, docs) => plan' = << >> /\ pc' \notin early
  BY DEF FinishSkipping
<1>5. CASE Start \/ ReadDoc \/ ComputeDiff \/ SkipEntry
  BY <1>3, <1>5 DEF Start, ReadDoc, ComputeDiff, SkipEntry
<1>6. CASE ResolveHEAD
  <2>1. PICK e \in {[doc |-> Manifest[cur].path, text |-> Nil, sha |-> HeadCommit,
                     audience |-> Manifest[cur].audience, side |-> mode[Manifest[cur].path]]} :
            plan' = Append(plan, e)
    BY <1>6 DEF ResolveHEAD
  <2>2. e.sha = HeadCommit /\ HeadCommit \in S /\ HeadCommit' = HeadCommit /\ plan \in Seq(Entry)
    BY <1>6, <2>1 DEF ResolveHEAD, StampsIn, HeadCommit, repoVars, IInv, TypeOK, RunTypeOK
  <2>. HIDE DEF early
  <2>3. \A i \in DOMAIN plan' : plan'[i] = e \/ (i \in DOMAIN plan /\ plan'[i] = plan[i])
    BY <2>1, <2>2
  <2>. QED
    BY <2>2, <2>3 DEF StampsIn
<1>7. CASE Generate
  <2>1. UNCHANGED repoVars /\ pc = "generate"
        /\ \E text : plan' = [plan EXCEPT ![Len(plan)].text = text]
    BY <1>7 DEF Generate
  <2>2. \A i \in DOMAIN plan' : i \in DOMAIN plan /\ plan'[i].sha = plan[i].sha
    BY <2>1
  <2>. QED
    BY <2>1, <2>2 DEF StampsIn, HeadCommit, repoVars
<1>8. CASE OverBudget \/ PlanNothing \/ BranchExists \/ CheckoutRefused \/ Failure
  BY <1>1, <1>4, <1>8
  DEF OverBudget, PlanNothing, BranchExists, CheckoutRefused, Failure, FailCleanly, FailTorn,
      FailStaging, Finish
<1>9. CASE PlanWrites \/ ResolveBranch \/ CreateRef \/ CheckoutHead \/ ResetIndex \/ ResetFiles
           \/ WriteFileNoFrontmatter \/ StageFiles
  BY <1>2, <1>9
  DEF PlanWrites, ResolveBranch, CreateRef, CheckoutHead, ResetIndex, ResetFiles,
      WriteFileNoFrontmatter, StageFiles
<1>10. CASE WriteFile \/ SaveSidecar \/ CommitIndex
  BY <1>1, <1>2, <1>4, <1>10 DEF WriteFile, SaveSidecar, AfterWrite, CommitIndex, Finish
<1>. QED
  BY <1>5, <1>6, <1>7, <1>8, <1>9, <1>10 DEF LocalStep, AssembleStep, ApplyStep

(* The watermarks a job can meet, all of them, name commits of Main.       *)
MainHistory == Ancestors(remote[Main])

ReachIn(S) == CommitsIn(S) /\ FilesIn(S) /\ StampsIn(S)

(* A commit that appears beside the run, with watermarks of the set.       *)
LEMMA PublishedIn ==
    ASSUME DInv, AgeInv, NEW S, ReachIn(S), NEW tree \in Tree, MarksIn(tree, S),
           MarksBefore(tree, Len(commits) + 1), OntoMain(tree)
    PROVE  ReachIn(S)'
<1>1. RepoTypeOK /\ HistoryOK /\ HeadCommit \in Commit /\ remote[Main] \in Commit
  BY HeadIsCommit, PublishedTrees DEF DInv, IInv, TypeOK, AgeInv
<1>2. /\ Len(commits) \in Nat /\ Len(commits') = Len(commits) + 1
      /\ \A c \in Commit : TreeOf(c)' = TreeOf(c)
      /\ \A c : c = Len(commits') => TreeOf(c)' = tree
  BY <1>1, AppendAge DEF OntoMain
<1>3. UNCHANGED << refs, head, index, worktree, pc, plan >>
  BY DEF OntoMain, runVars
<1>4. ASSUME NEW c \in Commit' PROVE MarksIn(TreeOf(c)', S)
  <2>1. c \in Commit \/ c = Len(commits')
    BY <1>2 DEF Commit
  <2>2. c \in Commit => MarksIn(TreeOf(c)', S)
    BY <1>2 DEF ReachIn, CommitsIn
  <2>3. c = Len(commits') => MarksIn(TreeOf(c)', S)
    BY <1>2
  <2>. QED
    BY <2>1, <2>2, <2>3
<1>. QED
  BY <1>3, <1>4 DEF ReachIn, CommitsIn, FilesIn, StampsIn, HeadCommit

(* A change of the platform alone.                                         *)
LEMMA NothingPublishedIn ==
    ASSUME NEW S, ReachIn(S), NothingPublished
    PROVE  ReachIn(S)'
BY DEF ReachIn, CommitsIn, FilesIn, StampsIn, HeadCommit, Commit, TreeOf, NothingPublished, runVars

(* What the team and other jobs commit names Main, or what Main named.     *)
LEMMA TeamIn ==
    ASSUME DInv, AgeInv, NEW S, ReachIn(S), remote[Main] \in S, Team
    PROVE  ReachIn(S)'
<1>1. /\ remote[Main] \in Commit /\ HistoryOK
      /\ TreeOf(remote[Main]) \in Tree /\ MarksIn(TreeOf(remote[Main]), S)
  BY PublishedTrees DEF AgeInv, ReachIn, CommitsIn
<1>2. ASSUME NEW s \in Src, OntoMain(TeamTree(s)) PROVE ReachIn(S)'
  <2>1. MarksIn(TeamTree(s), S)
    BY <1>1, PublishedTrees DEF SameDocs, MarksIn, SidecarMark
  <2>. QED
    BY <1>1, <1>2, <2>1, PublishedTrees, PublishedMarks, PublishedIn
<1>3. CASE OntoMain(RivalTree)
  <2>1. ASSUME NEW d \in Doc PROVE FrontmatterOf(RivalTree.doc[d]) \in S \cup {NoMark}
    <3>1. RivalTree.doc[d] = RivalPage(d) /\ RivalPage(d) # Nil
      BY PublishedTrees
    <3>2. RivalPage(d).mark = remote[Main]
      BY DEF RivalPage
    <3>. QED
      BY <3>1, <3>2 DEF FrontmatterOf
  <2>2. MarksIn(RivalTree, S)
    BY <1>1, <2>1, PublishedTrees DEF MarksIn, SidecarMark
  <2>. QED
    BY <1>1, <1>3, <2>2, PublishedTrees, PublishedMarks, PublishedIn
<1>4. ASSUME NEW b \in Branch, remote[b] # 0, OntoMain(Merged(remote[b], remote[Main]))
      PROVE  ReachIn(S)'
  <2>1. remote[b] \in Commit /\ TreeOf(remote[b]) \in Tree /\ MarksIn(TreeOf(remote[b]), S)
    BY <1>4, RemoteCommitType DEF ReachIn, CommitsIn
  <2>2. Mixes(Merged(remote[b], remote[Main]), TreeOf(remote[b]), TreeOf(remote[Main]))
    BY <1>1, <2>1, TakeChangesMixes DEF Merged
  <2>3. MarksIn(Merged(remote[b], remote[Main]), S)
    BY <1>1, <2>1, <2>2, InMixes
  <2>. QED
    BY <1>1, <1>4, <2>3, PublishedMarks, PublishedIn
<1>. QED
  BY <1>2, <1>3, <1>4, TeamPublishes, NothingPublishedIn

(* A new clone has the commits that were published, and Main's files.      *)
LEMMA CloneIn ==
    ASSUME DInv, AgeInv, NEW S, ReachIn(S), NewDirectory
    PROVE  ReachIn(S)'
<1>1. Len(commits) \in Nat /\ HistoryOK /\ remote[Main] \in Commit
  BY PublishedTrees DEF DInv, IInv, TypeOK, RepoTypeOK, AgeInv
<1>2. \A c \in Commit' : c \in Commit /\ TreeOf(c)' = TreeOf(c)
  BY <1>1, CloneShortens, ShortenedAge
<1>3. CommitsIn(S)'
  BY <1>2 DEF ReachIn, CommitsIn
<1>4. FilesIn(S)'
  BY <1>1 DEF NewDirectory, CheckoutMain, ReachIn, CommitsIn, FilesIn
<1>5. StampsIn(S)'
  BY DEF NewDirectory, runVars, ReachIn, StampsIn
<1>. QED
  BY <1>3, <1>4, <1>5 DEF ReachIn

(* The push and the request stamp nothing.                                 *)
LEMMA DeliveryStepIn ==
    ASSUME NEW S, ReachIn(S), DeliveryStep \/ UnknownWatermark
    PROVE  ReachIn(S)'
<1>1. UNCHANGED repoVars
  BY DEF DeliveryStep, Push, PushRefused, UnknownWatermark, OpenChangeRequest,
         ChangeRequestRefused, repoVars
<1>2. plan' \in {plan, << >>} /\ pc' \notin {"read", "diff", "resolve", "generate"}
  BY DEF DeliveryStep, Push, PushRefused, UnknownWatermark, OpenChangeRequest,
         ChangeRequestRefused, Finish, FinishSkipping
<1>3. StampsIn(S)'
  BY <1>2 DEF ReachIn, StampsIn
<1>. QED
  BY <1>1, <1>3 DEF ReachIn, CommitsIn, FilesIn, Commit, TreeOf, repoVars

(* Where every run starts in a new clone, every step stamps commits of     *)
(* Main: a run starts at Main's head, and Main never loses a commit.       *)
LEMMA DeliveryNextIn ==
    ASSUME "kept" \notin Clones, DInv, AgeInv, AgeInv', ReachIn(MainHistory),
           [DeliveryNext]_deliveryVars
    PROVE  ReachIn(MainHistory)'
<1>1. HistoryOK /\ HistoryOK' /\ remote[Main] \in Commit /\ Len(commits) \in Nat
  BY PublishedTrees, PlatformTypes DEF AgeInv
<1>2. remote[Main] \in MainHistory
  BY <1>1, OwnAncestors DEF MainHistory
<1>3. ASSUME NEW S, S = MainHistory PROVE ReachIn(S)'
  <2>1. remote[Main] \in S /\ ReachIn(S)
    BY <1>2, <1>3
  <2>2. CASE LocalWork
    <3>1. pc = "idle" => HeadCommit \in S
      <4>1. Main \in Branch
        BY RepositoryAssumption
      <4>2. pc = "idle" => IsFreshClone
        BY <2>2, <4>1 DEF LocalWork
      <4>3. IsFreshClone => refs[Main] = remote[Main] /\ head = Main
        BY <4>1 DEF IsFreshClone
      <4>. QED
        BY <2>1, <4>2, <4>3 DEF HeadCommit
    <3>2. IInv /\ LocalStep
      BY <2>2 DEF DInv, LocalWork
    <3>. QED
      BY <2>1, <3>1, <3>2, FilesStayIn, CommitsStayIn, StampsStayIn DEF ReachIn
  <2>3. CASE Team
    BY <2>1, <2>3, TeamIn
  <2>4. CASE NewDirectory
    BY <2>1, <2>4, CloneIn
  <2>5. CASE UNCHANGED deliveryVars
    BY <2>1, <2>5, NothingPublishedIn DEF deliveryVars, vars, repoVars, NothingPublished
  <2>6. CASE DeliveryStep \/ UnknownWatermark
    BY <2>1, <2>6, DeliveryStepIn
  <2>. QED
    BY <2>2, <2>3, <2>4, <2>5, <2>6, DeliverySteps DEF Pull, DeleteLocalBranch
<1>4. MainHistory \subseteq MainHistory'
  BY <1>1, MainGrows DEF MainHistory
<1>5. ASSUME NEW S, NEW T, S = MainHistory, T = MainHistory' PROVE ReachIn(T)'
  <2>1. S \subseteq T /\ ReachIn(S)'
    BY <1>3, <1>4, <1>5
  <2>2. \A tree : MarksIn(tree, S) => MarksIn(tree, T)
    BY <2>1 DEF MarksIn
  <2>. QED
    BY <2>1, <2>2 DEF ReachIn, CommitsIn, FilesIn, StampsIn
<1>. QED
  BY <1>5 DEF ReachIn, CommitsIn, FilesIn, StampsIn

(* Where every run starts in a fresh clone, each watermark on the platform *)
(* names a commit Main still has, so that computeDiff finds it in every    *)
(* later clone: through squash merges, closed requests, deleted branches   *)
(* and other jobs.                                                         *)
THEOREM MarksStayReachable == DeliverySpec => []MarksReachable
<1>1. CASE "kept" \notin Clones
  <2>1. DeliveryInit => AgeInv /\ ReachIn(MainHistory)
    <3>. SUFFICES ASSUME DeliveryInit PROVE AgeInv /\ ReachIn(MainHistory)
      OBVIOUS
    <3>1. AgeInv /\ DInv
      BY InitAge, DeliveryInitInv DEF DeliveryInit
    <3>2. ASSUME NEW tree \in Tree, MarksBefore(tree, 1) PROVE MarksIn(tree, MainHistory)
      BY <3>2, MarkTypes DEF MarksBefore, MarksIn, NoMark
    <3>3. Len(commits) = 1 /\ index = commits[1].tree /\ worktree = commits[1].tree
          /\ plan = << >> /\ pc = "idle"
      BY DEF DeliveryInit, Init, RepoInit
    <3>4. Commit = {1} /\ TreeOf(1) \in Tree /\ MarksBefore(TreeOf(1), 1)
          /\ index = TreeOf(1) /\ worktree = TreeOf(1)
      BY <3>1, <3>3, CommittedTree
      DEF Commit, AgeInv, HistoryOK, TreeOf, DInv, IInv, TypeOK
    <3>5. ReachIn(MainHistory)
      BY <3>2, <3>3, <3>4 DEF ReachIn, CommitsIn, FilesIn, StampsIn
    <3>. QED
      BY <3>1, <3>5
  <2>2. DInv /\ AgeInv /\ AgeInv' /\ ReachIn(MainHistory) /\ [DeliveryNext]_deliveryVars
          => ReachIn(MainHistory)'
    BY <1>1, DeliveryNextIn
  <2>3. DInv /\ ReachIn(MainHistory) => MarksReachable
    <3>. SUFFICES ASSUME DInv, ReachIn(MainHistory), NEW b \in Branch, remote[b] # 0, NEW d \in Doc
                  PROVE  MarksOf(TreeOf(remote[b]), d) \subseteq Ancestors(remote[Main])
      BY DEF MarksReachable
    <3>1. MarksIn(TreeOf(remote[b]), MainHistory)
      BY RemoteCommitType DEF ReachIn, CommitsIn
    <3>. QED
      BY <3>1 DEF MarksIn, MarksOf, SidecarMark, MainHistory
  <2>. QED
    BY <2>1, <2>2, <2>3, DeliveryInitInv, DeliveryNextInv, DeliveryNextAge, PTL DEF DeliverySpec
<1>2. CASE "kept" \in Clones
  <2>1. MarksReachable
    BY <1>2 DEF MarksReachable
  <2>. QED
    BY <2>1, PTL
<1>. QED
  BY <1>1, <1>2
=============================================================================
