---------------------------- MODULE MCCodeSearch ----------------------------
(* Four files: two with declarations, one of them listed before the other  *)
(* although its path comes after (a directory beside a file of its name),  *)
(* one that is not Go, one that cannot be read.                            *)
EXTENDS CodeSearch

CONSTANTS nested, plain, broken, locked

MCWalk == << nested, broken, plain, locked >>
MCRank == [f \in File |-> CASE f = plain -> 1 [] f = nested -> 2
                            [] f = broken -> 3 [] OTHER -> 4]
MCMatches == [f \in File |-> CASE f = nested -> << 1, 4 >> [] f = plain -> << 2, 2 >>
                               [] OTHER -> << 1 >>]
MCLimits == {-1, 0, 1, 2, 3}
=============================================================================
