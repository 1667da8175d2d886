---------------------------- MODULE MCEnrichment ----------------------------
EXTENDS Enrichment

CONSTANTS first, second     \* paths

L(kind, path, old, new) ==
    [kind |-> kind, path |-> path, old |-> old, new |-> new, long |-> FALSE]

(* What is written: removed lines come before the added ones of a change,  *)
(* the remark after a last line; after it only the other file's last line. *)
Hunks ==
    {h \in UNION {[1 .. n -> HunkLines] : n \in 1 .. 4} :
        /\ h[1] # "remark"
        /\ \A i \in 1 .. Len(h) - 1 :
            /\ h[i] \in {"added", "plusplus"} => h[i + 1] # "removed"
            /\ h[i] = "remark" => h[i + 1] \in {"added", "plusplus"} /\ i > 1 /\ h[i - 1] = "removed"}

Lines(h, path) == [i \in DOMAIN h |-> L(h[i], path, 0, 0)]

Start(path) == << L("file", path, 0, 0), L("header", path, 0, 0) >>

(* One hunk at the head of the first file, maybe a second hunk further     *)
(* down, and maybe a second file, new or deleted.                          *)
Shapes ==
    {Start(first) \o << L("hunk", first, 1, 1) >> \o Lines(h, first) \o more :
        h \in Hunks,
        more \in {<< >>,
                  << L("hunk", first, 8, 7) >> \o Lines(<< "removed", "added" >>, first),
                  Start(second) \o << L("hunk", second, 0, 1) >>
                        \o Lines(<< "added", "added" >>, second),
                  Start(second) \o << L("hunk", second, 1, 0) >>
                        \o Lines(<< "removed", "removed" >>, second)}}

(* No line is overlong, or any one of either file is: a shape has at most  *)
(* twelve lines.                                                           *)
WithOverlong(d, long) == [i \in DOMAIN d |-> [d[i] EXCEPT !.long = (i = long)]]

MCDiffs == {WithOverlong(d, long) : d \in Shapes, long \in 0 .. 12}
=============================================================================
