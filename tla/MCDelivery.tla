----------------------------- MODULE MCDelivery -----------------------------
(* Small instances of Delivery: one document over one source file.         *)
EXTENDS Delivery

CONSTANTS guide, core

MCManifest == << [path |-> guide, covers |-> {core}, audience |-> "users"] >>
MCFrontmatter == {[d \in Doc |-> Nil]}
MCNoSidecars == << >>
MCBranches == {"main", "common", "multi", "users"}
=============================================================================
