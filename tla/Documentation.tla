---------------------------- MODULE Documentation ----------------------------
(***************************************************************************)
(* What memorialiste promises to somebody who looks at the history only.   *)
(* Documentation appears in whole commits on branches of their own.  Such a*)
(* commit changes no source file, and every document it rewrites describes *)
(* at least what the sources were when the run began, and nothing that is  *)
(* not in the commit.  No watermark, index, worktree, failure or           *)
(* incremental diff is seen here: LocalRun has them all and implements     *)
(* this.                                                                   *)
(***************************************************************************)
EXTENDS Naturals, Sequences

CONSTANTS
    Doc,        \* documents
    Src,        \* source files
    Covers,     \* the source files each document covers
    Branch,     \* branch names
    Main        \* the branch documentation is merged into

VARIABLES
    history,    \* the commits: sources, what each document tells of them, parent
    tips,       \* the commit of each branch; 0: no such branch
    snapshot    \* the commit the last run began at; 0: none did

promiseVars == << history, tips, snapshot >>

(* A first commit without documentation.                                   *)
Init ==
    /\ \E sources \in [Src -> {0, 1}] :
         history = << [src |-> sources, told |-> [d \in Doc |-> [s \in Src |-> 0]],
                       parent |-> 0] >>
    /\ tips = [b \in Branch |-> IF b = Main THEN 1 ELSE 0]
    /\ snapshot = 0

(* A commit on top of a branch.                                            *)
NewCommit == history'[Len(history) + 1]

CommitOn(b) ==
    /\ tips[b] # 0
    /\ Len(history') = Len(history) + 1
    /\ history' = Append(history, NewCommit)
    /\ NewCommit.parent = tips[b]

Advance(b) ==
    /\ CommitOn(b)
    /\ tips' = [tips EXCEPT ![b] = Len(history) + 1]
    /\ UNCHANGED snapshot

(* A run begins at the head of some branch.                                *)
Begin(b) ==
    /\ tips[b] # 0
    /\ snapshot' = tips[b]
    /\ UNCHANGED << history, tips >>

(* Developers change sources and leave the documentation alone.            *)
Develop(b) ==
    /\ Advance(b)
    /\ NewCommit.told = history[tips[b]].told
    /\ \A s \in Src : NewCommit.src[s] >= history[tips[b]].src[s]

(* A run's one commit.                                                     *)
Document(b) ==
    /\ Advance(b)
    /\ b # Main
    /\ NewCommit.src = history[tips[b]].src
    /\ \A d \in Doc : NewCommit.told[d] # history[tips[b]].told[d] =>
         \A s \in Covers[d] : /\ NewCommit.told[d][s] >= history[snapshot].src[s]
                              /\ NewCommit.told[d][s] <= NewCommit.src[s]

(* A run's branch: its name was free, it starts in the history.            *)
CreateBranch(b) ==
    /\ tips[b] = 0
    /\ \E c \in 1 .. Len(history) : tips' = [tips EXCEPT ![b] = c]
    /\ UNCHANGED << history, snapshot >>

DeleteBranch(b) ==
    /\ b # Main
    /\ tips' = [tips EXCEPT ![b] = 0]
    /\ UNCHANGED << history, snapshot >>

(* A squash merge: each document comes from one side or the other, and each*)
(* source file from the side that has the newer version.                   *)
Merge(b) ==
    /\ CommitOn(Main)
    /\ tips' = [tips EXCEPT ![Main] = Len(history) + 1, ![b] = 0]
    /\ b # Main /\ tips[b] # 0
    /\ \A s \in Src : /\ NewCommit.src[s] \in {history[tips[x]].src[s] : x \in {b, Main}}
                      /\ \A x \in {b, Main} : NewCommit.src[s] >= history[tips[x]].src[s]
    /\ \A d \in Doc : NewCommit.told[d] \in {history[tips[x]].told[d] : x \in {b, Main}}
    /\ UNCHANGED snapshot

Next ==
    \E b \in Branch :
        Begin(b) \/ Develop(b) \/ Document(b) \/ CreateBranch(b) \/ DeleteBranch(b) \/ Merge(b)

Spec == Init /\ [][Next]_promiseVars
=============================================================================
