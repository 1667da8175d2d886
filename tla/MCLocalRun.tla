----------------------------- MODULE MCLocalRun -----------------------------
(* Small instances of LocalRun: at most two documents, two source files and *)
(* one sidecar, and the audiences and modes the runs need.                 *)
EXTENDS LocalRun, TLC

CONSTANTS guide, arch,      \* documents
          cmd, core,        \* source files
          sideA             \* a sidecar

ForUsers(d, files) == [path |-> d, covers |-> files, audience |-> "users"]
ForDevs(d, files) == [path |-> d, covers |-> files, audience |-> "dev"]
NoAudience(d, files) == [path |-> d, covers |-> files, audience |-> Nil]

MCGuide == << NoAudience(guide, Src) >>
MCSameAudience == << ForDevs(guide, Src), ForDevs(arch, {core}) >>
MCTwoAudiences == << ForUsers(guide, Src), ForDevs(arch, {core}) >>
MCBranches == {"main", "common", "multi", "dev", "users"}
MCOneSidecar == << sideA >>
MCNoSidecars == << >>

MCFrontmatter == {[d \in Doc |-> Nil]}
MCInSideA == {[d \in Doc |-> sideA]}
MCFrontmatterOrA == MCFrontmatter \cup MCInSideA
=============================================================================
