------------------------------ MODULE Delivery ------------------------------
(***************************************************************************)
(* A whole run of memorialiste: LocalRun, then the push of the docs branch *)
(* and the request that opens its merge request (main.run, packages        *)
(* platform, gitlab and github), against a hosting platform where a team   *)
(* commits, reviews and merges, and where another CI job may be running    *)
(* memorialiste too.  The clone a run works in is either thrown away after *)
(* the run (CI) or kept from run to run (a workstation), and it may hold   *)
(* only the last commits of Main, as the clones of CI systems do.          *)
(***************************************************************************)
EXTENDS LocalRun

CONSTANTS
    Clones,     \* subset of {"fresh", "shallow", "kept"}: a clone of the platform in an
                \* empty directory, one of the last commits of Main, the directory
                \* of the last run
    Rivals,     \* the phases of a run during which another job may publish a docs branch
    Platform,   \* what may go wrong on the network: subset of {"lost", "refused"}
    Reviewers   \* subset of {"close", "keep"}: they close requests they could merge,
                \* they keep the branches of merged and closed requests

ASSUME DeliveryAssumption ==
    /\ Clones \subseteq {"fresh", "shallow", "kept"}
    /\ Rivals \subseteq Phases \cup {"idle"}

VARIABLES
    remote,     \* the branches of the platform; 0: no such branch
    mr,         \* the state of each branch's merge request
    store,      \* the commits of the object database of the clone
    shallow     \* the commit a shallow clone ends at; 0: it is not shallow

remoteVars == << remote, mr >>
cloneVars == << store, shallow >>
deliveryVars == << vars, remoteVars, cloneVars >>

MRStates == {"none", "open", "merged", "closed"}

DeliveryTypeOK ==
    /\ TypeOK
    /\ remote \in [Branch -> 0 .. Len(commits)]
    /\ remote[Main] # 0
    /\ mr \in [Branch -> MRStates]
    /\ store \subseteq Nat
    /\ shallow \in Nat

DeliveryInit ==
    /\ Init
    /\ remote = refs
    /\ mr = [b \in Branch |-> "none"]
    /\ store = {1}
    /\ shallow = 0

-----------------------------------------------------------------------------
(* Mutant: a forced push.                                                  *)
PushableByForce == remote[branch] # refs[branch]

(* The push has no force: go-git looks for the branch the platform has in  *)
(* the history of the one it pushes (isFastForward).  Where that history   *)
(* is cut short by the end of a shallow clone it takes what it did not find*)
(* for granted.  A branch that is already there is an error, for doPush    *)
(* too.                                                                    *)
CutShort == shallow # 0 /\ shallow \in Ancestors(refs[branch])

Pushable ==
    /\ remote[branch] # refs[branch]
    /\ remote[branch] \in Ancestors(refs[branch]) \cup {0} \/ CutShort

(* Mutant: the commit the branch was created at is pushed.                 *)
PushBase ==
    /\ pc = "committed" /\ Pushable
    /\ remote' = [remote EXCEPT ![branch] = base]
    /\ \/ pc' = "request"
          /\ UNCHANGED << plan, settings, entryVars, applyVars, resultVars >>
       \/ "lost" \in Platform /\ Finish("push failed")
    /\ UNCHANGED << repoVars, mr, cloneVars >>

Push ==
    /\ pc = "committed" /\ Pushable
    /\ remote' = [remote EXCEPT ![branch] = refs[branch]]
    /\ \/ pc' = "request"
          /\ UNCHANGED << plan, settings, entryVars, applyVars, resultVars >>
       \/ "lost" \in Platform /\ Finish("push failed")
    /\ UNCHANGED << repoVars, mr, cloneVars >>

(* Mutant: a refused push is taken for one that had nothing to do.         *)
PushRefusedIgnored ==
    /\ pc = "committed" /\ ~Pushable
    /\ pc' = "request"
    /\ UNCHANGED << plan, settings, entryVars, applyVars, resultVars >>
    /\ UNCHANGED << repoVars, remoteVars, cloneVars >>

PushRefused ==
    /\ pc = "committed"
    /\ ~Pushable \/ "refused" \in Platform
    /\ Finish("push failed")
    /\ UNCHANGED << repoVars, remoteVars, cloneVars >>

(* The platform opens one request for a branch at a time.  An answer that  *)
(* times out or cannot be decoded is an error to the run, whatever the     *)
(* platform did.                                                           *)
OpenChangeRequest ==
    /\ pc = "request" /\ mr[branch] # "open" /\ remote[branch] # 0
    /\ mr' = [mr EXCEPT ![branch] = "open"]
    /\ \/ Finish("opened")
       \/ "lost" \in Platform /\ Finish("request failed")
    /\ UNCHANGED << repoVars, remote, cloneVars >>

ChangeRequestRefused ==
    /\ pc = "request"
    /\ mr[branch] = "open" \/ remote[branch] = 0 \/ "refused" \in Platform
    /\ Finish("request failed")
    /\ UNCHANGED << repoVars, remoteVars, cloneVars >>

-----------------------------------------------------------------------------
(* The platform's other users.  They always leave room for the run's own   *)
(* commit.                                                                 *)
RoomBesideRun == Len(commits) + (IF pc = "idle" THEN 0 ELSE 1) < MaxCommits

RemoteCommit(tree, parent, b) ==
    /\ RoomBesideRun
    /\ commits' = Append(commits, [tree |-> tree, parent |-> parent])
    /\ remote' = [remote EXCEPT ![b] = Len(commits) + 1]

(* A change of a source file is merged into Main.                          *)
TeamCommit(s) ==
    /\ edits < MaxEdits
    /\ LET main == remote[Main]
       IN  RemoteCommit([TreeOf(main) EXCEPT !.src[s] = edits + 2], main, Main)
    /\ edits' = edits + 1
    /\ UNCHANGED << refs, head, index, worktree, mr >>

(* Another job documents the head of Main and opens its request.           *)
RivalJob(b) ==
    LET main == remote[Main]
        text(d) == [s \in Src |-> IF s \in CoversOf(d) THEN TreeOf(main).src[s] ELSE 0]
        page(d) == [mark |-> main, shows |-> text(d)]
    IN  /\ pc \in Rivals /\ b # Main /\ remote[b] = 0 /\ mr[b] # "open"
        /\ RemoteCommit([TreeOf(main) EXCEPT !.doc = [d \in Doc |-> page(d)]], main, b)
        /\ mr' = [mr EXCEPT ![b] = "open"]
        /\ UNCHANGED << refs, head, index, worktree, edits >>

(* A request is squash-merged or closed.  Whether its branch goes with it  *)
(* is a setting of the project; memorialiste does not ask for it.          *)
EndRequest(b, state, branches) ==
    /\ b # Main /\ mr[b] = "open" /\ remote[b] # 0
    /\ \/ /\ remote' = [branches EXCEPT ![b] = 0]
          /\ mr' = [mr EXCEPT ![b] = "none"]
       \/ /\ "keep" \in Reviewers
          /\ remote' = branches
          /\ mr' = [mr EXCEPT ![b] = state]
    /\ UNCHANGED << refs, head, index, worktree, edits >>

MergeRequest(b) ==
    /\ RoomBesideRun
    /\ ~Conflict(remote[b], remote[Main])
    /\ commits' = Append(commits, [tree |-> Merged(remote[b], remote[Main]),
                                   parent |-> remote[Main]])
    /\ EndRequest(b, "merged", [remote EXCEPT ![Main] = Len(commits) + 1])

CloseRequest(b) ==
    /\ "close" \in Reviewers \/ Conflict(remote[b], remote[Main])
    /\ EndRequest(b, "closed", remote)
    /\ UNCHANGED commits

DeleteRemoteBranch(b) ==
    /\ b # Main /\ remote[b] # 0 /\ mr[b] # "open"
    /\ mr[b] = "none" => "close" \in Reviewers
    /\ remote' = [remote EXCEPT ![b] = 0]
    /\ mr' = [mr EXCEPT ![b] = "none"]
    /\ UNCHANGED repoVars

Team ==
    /\ \/ \E s \in Src : TeamCommit(s)
       \/ \E b \in Branch : remote[b] = 0 /\ RivalJob(b)
       \/ \E b \in {c \in Branch : remote[c] # 0} :
            MergeRequest(b) \/ CloseRequest(b) \/ DeleteRemoteBranch(b)
    /\ UNCHANGED << runVars, cloneVars >>

-----------------------------------------------------------------------------
(* The clone.                                                              *)
IsFreshClone ==
    /\ \A c \in Commit : c > refs[Main] => \E b \in Branch : remote[b] >= c
    /\ refs = [b \in Branch |-> IF b = Main THEN remote[Main] ELSE 0]
    /\ head = Main /\ IsClean

(* The last commit the platform has.                                       *)
LastPublished == CHOOSE c \in Commit : /\ \E b \in Branch : remote[b] = c
                                       /\ \A b \in Branch : remote[b] <= c

(* Main is checked out where the platform has it.                          *)
CheckoutMain ==
    /\ head' = Main
    /\ index' = TreeOf(remote[Main])
    /\ worktree' = TreeOf(remote[Main])

(* A directory with nothing but Main.  The commits the last run made and   *)
(* could not push are gone.                                                *)
NewDirectory ==
    /\ pc = "idle"
    /\ commits' = SubSeq(commits, 1, LastPublished)
    /\ refs' = [b \in Branch |-> IF b = Main THEN remote[Main] ELSE 0]
    /\ CheckoutMain
    /\ UNCHANGED << edits, runVars, remoteVars >>

(* git clone.                                                              *)
Published == UNION {Ancestors(remote[b]) : b \in Branch}

Clone ==
    /\ "fresh" \in Clones /\ ~(IsFreshClone /\ shallow = 0)
    /\ NewDirectory
    /\ store' = Published /\ shallow' = 0

(* git clone --depth: the last commits of Main, unless that is all of them.*)
MainSince(c) == {a \in Ancestors(remote[Main]) : a >= c}

ShallowClone ==
    /\ "shallow" \in Clones
    /\ \E c \in Ancestors(remote[Main]) :
         /\ commits[c].parent # 0
         /\ ~(IsFreshClone /\ shallow = c)
         /\ store' = MainSince(c) /\ shallow' = c
    /\ NewDirectory

(* git checkout -f Main && git pull: the docs branches stay.               *)
Pull ==
    /\ "kept" \in Clones /\ pc = "idle"
    /\ refs' = [refs EXCEPT ![Main] = remote[Main]]
    /\ CheckoutMain
    /\ store' = store \cup (IF shallow = 0 THEN Published ELSE MainSince(shallow))
    /\ UNCHANGED << commits, edits, runVars, remoteVars, shallow >>

DeleteLocalBranch ==
    /\ "kept" \in Clones /\ pc = "idle"
    /\ \E b \in Branch : DeleteBranch(b)
    /\ UNCHANGED << runVars, remoteVars, cloneVars >>

(* A watermark the clone has is a commit to diff from (computeDiff).       *)
KnownWatermark == asm.wm \in store \cup {NoMark}

LocalWork ==
    /\ LocalStep
    /\ pc = "idle" /\ "kept" \notin Clones => IsFreshClone
    /\ pc = "diff" => KnownWatermark
    /\ store' = store \cup (Commit' \ Commit)
    /\ UNCHANGED << remoteVars, shallow >>

UnknownWatermark ==
    /\ pc = "diff" /\ ~KnownWatermark
    /\ Finish("failed")
    /\ UNCHANGED << repoVars, remoteVars, cloneVars >>

DeliveryStep == Push \/ PushRefused \/ OpenChangeRequest \/ ChangeRequestRefused

RunStep == (pc # "idle" /\ LocalWork) \/ UnknownWatermark \/ DeliveryStep

DeliveryNext ==
    \/ LocalWork \/ UnknownWatermark \/ DeliveryStep
    \/ Team
    \/ Clone \/ ShallowClone \/ Pull \/ DeleteLocalBranch

DeliverySpec == DeliveryInit /\ [][DeliveryNext]_deliveryVars

(* A run goes on until it ends; the scheduler of the CI system clones and  *)
(* starts again; somebody merges what is open, or closes it when it        *)
(* conflicts with Main, and its branch goes with it.                       *)
Fairness ==
    /\ WF_deliveryVars(RunStep)
    /\ WF_deliveryVars(pc = "idle" /\ LocalWork)
    /\ WF_deliveryVars(Clone)
    /\ \A b \in Branch : WF_deliveryVars(
            /\ remote[b] # 0 /\ (MergeRequest(b) \/ CloseRequest(b))
            /\ UNCHANGED << runVars, cloneVars >>)

LiveDelivery == DeliverySpec /\ Fairness

-----------------------------------------------------------------------------
(* Properties.                                                             *)

(* Nothing takes a commit away from a branch of the platform that stays,   *)
(* but the push of a run that works in a shallow clone: it replaces the    *)
(* branch of the run, and never Main (doPush pushes one branch, without    *)
(* force).                                                                 *)
RemoteOnlyGrows ==
    [][\A b \in Branch : remote[b] # 0 /\ remote'[b] # 0 =>
        \/ remote[b] \in Ancestors(remote[b])'
        \/ pc = "committed" /\ CutShort /\ b = branch /\ b # Main]_deliveryVars

(* An open request always has its branch, and the branch has something Main*)
(* has not: no request is opened before the push it is about.              *)
RequestHasBranch ==
    \A b \in Branch : mr[b] = "open" =>
        /\ remote[b] # 0
        /\ remote[b] \notin Ancestors(remote[Main])

(* A run that reports a merge request leaves one open for the commit it    *)
(* made.                                                                   *)
OpenedMeansOpen ==
    [][outcome' = "opened" /\ outcome # "opened" =>
        mr'[branch] = "open" /\ remote'[branch] = refs[branch]]_deliveryVars

(* Every documentation text on every branch of the platform is true to its *)
(* watermark (MarksTruthful, over what is published).                      *)
PublishedTruthful ==
    \A b \in Branch : remote[b] # 0 =>
        \A d \in Doc : \A m \in MarksOf(TreeOf(remote[b]), d), s \in CoversOf(d) :
            TreeOf(m).src[s] <= TextOf(TreeOf(remote[b]).doc[d])[s]

(* Where every run starts in a new clone, each watermark on the platform   *)
(* names a commit Main still has: no squash merge, deleted branch or closed*)
(* request takes it away, so computeDiff finds it in every later clone that*)
(* goes back far enough.                                                   *)
MarksReachable ==
    "kept" \notin Clones =>
        \A b \in Branch : remote[b] # 0 =>
            \A d \in Doc : MarksOf(TreeOf(remote[b]), d) \subseteq Ancestors(remote[Main])

(* Every change of a covered file that reaches Main is in the end told by  *)
(* the documents on Main.                                                  *)
Told(d, s, v) == TextOf(TreeOf(remote[Main]).doc[d])[s] >= v

EventuallyDocumented ==
    \A d \in Doc, s \in Src, v \in 1 .. MaxEdits + 1 :
        (s \in CoversOf(d) /\ TreeOf(remote[Main]).src[s] = v) ~> Told(d, s, v)
=============================================================================
