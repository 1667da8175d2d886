----------------------------- MODULE Enrichment -----------------------------
(***************************************************************************)
(* AST enrichment of a diff (src/context/ast.go): parseDiffFiles scans the *)
(* diff line by line, counting lines of the new files, and enrichDiff asks *)
(* grep-ast, one file after the other, for a rendering with the changed    *)
(* lines marked; where there is none, the lines of the diff stand.         *)
(***************************************************************************)
EXTENDS Integers, Sequences, FiniteSets

CONSTANTS
    Path,       \* paths of changed files
    Diffs       \* the diffs of an instance: sequences of lines

HunkLines == {"context", "added", "plusplus", "removed", "remark"}
LineKinds == {"file", "header", "hunk"} \cup HunkLines

(* "plusplus" is an added line whose own text begins with two plus signs,  *)
(* "remark" git's remark on the line before it.  A hunk has the number of  *)
(* its first line in the old and in the new file, a file its path.         *)
Line == [kind : LineKinds, path : Path, old : Nat, new : Nat, long : BOOLEAN]

InHunkFrom(d, h, i) == \A j \in h + 1 .. i : d[j].kind \in HunkLines

(* What go-git's encoder writes (unified_encoder.go): a file's part begins *)
(* with its header, lines stand in hunks, and only the hunk of a file that *)
(* is gone has number 0, and no line of the new file.                      *)
WellFormed(d) ==
    /\ d[1].kind = "file"
    /\ \A i \in 2 .. Len(d) :
         /\ d[i].kind = "header" => d[i - 1].kind \in {"file", "header"}
         /\ d[i].kind \in HunkLines => d[i - 1].kind \in {"hunk"} \cup HunkLines
    /\ \A h \in 1 .. Len(d), i \in 1 .. Len(d) :
         h < i /\ d[h].kind = "hunk" /\ d[h].new = 0 /\ InHunkFrom(d, h, i) =>
            d[i].kind \in {"removed", "remark"}

ASSUME EnrichmentAssumption ==
    /\ Diffs \subseteq Seq(Line) \ {<< >>}
    /\ \A d \in Diffs : WellFormed(d)

VARIABLES
    diff,       \* the diff being enriched
    pc,
    pos,        \* the scanner's position
    lineNum,
    files,      \* parseDiffFiles' result; the last one is cur of the code
    sections    \* enrichDiff's output, one section a file

vars == << diff, pc, pos, lineNum, files, sections >>

File == [path : Path, raw : Seq(Nat), changedLines : Seq(Nat)]
Section == [path : Path, raw : Seq(Nat), marked : Seq(Nat)]

TypeOK ==
    /\ diff \in Seq(Line)
    /\ pc \in {"scan", "annotate", "done", "unchanged"}
    /\ pos \in 1 .. Len(diff) + 1
    /\ lineNum \in Nat
    /\ files \in Seq(File)
    /\ sections \in Seq(Section) /\ Len(sections) <= Len(files)

Init ==
    /\ diff \in Diffs
    /\ pc = "scan" /\ pos = 1 /\ lineNum = 0
    /\ files = << >> /\ sections = << >>

-----------------------------------------------------------------------------
(* parseDiffFiles.  bufio.Scanner ends at the end of the diff, and at a    *)
(* line longer than its buffer: Scan says no more in both cases.           *)
HasLine == pos <= Len(diff) /\ ~diff[pos].long

ScanFile ==
    /\ pc = "scan" /\ HasLine /\ diff[pos].kind = "file"
    /\ files' = Append(files, [path |-> diff[pos].path, raw |-> << pos >>,
                               changedLines |-> << >>])
    /\ lineNum' = 0
    /\ pos' = pos + 1
    /\ UNCHANGED << diff, pc, sections >>

(* Mutant: the numbers of the old file are counted.                        *)
AdvanceOverRemoved(kind) == kind \notin {"added", "plusplus"}

(* Every line of a section but a removed one advances the number: the      *)
(* header's lines too, before the hunk sets it, and git's remark.          *)
Advances(kind) == kind # "removed"

(* Mutant: the first number of a hunk header is taken.                     *)
ParseOldStart(line) == line.old

ParseHunkStart(line) == line.new

ScanLine ==
    LET line == diff[pos]
        cur == files[Len(files)]
    IN  /\ pc = "scan" /\ HasLine /\ line.kind # "file"
        /\ files' = [files EXCEPT ![Len(files)] =
                [path |-> cur.path, raw |-> Append(cur.raw, pos),
                 changedLines |-> IF line.kind = "added" THEN Append(cur.changedLines, lineNum)
                                                         ELSE cur.changedLines]]
        /\ lineNum' = IF line.kind = "hunk" THEN ParseHunkStart(line)
                      ELSE IF Advances(line.kind) THEN lineNum + 1
                      ELSE lineNum
        /\ pos' = pos + 1
        /\ UNCHANGED << diff, pc, sections >>

ScanEnds ==
    /\ pc = "scan" /\ ~HasLine
    /\ pc' = "annotate"
    /\ UNCHANGED << diff, pos, lineNum, files, sections >>

-----------------------------------------------------------------------------
(* enrichDiff.                                                             *)
Current == files[Len(sections) + 1]

Emit(raw, marked) ==
    /\ pc = "annotate" /\ Len(sections) < Len(files)
    /\ sections' = Append(sections, [path |-> Current.path, raw |-> raw, marked |-> marked])
    /\ UNCHANGED << diff, pc, pos, lineNum, files >>

(* grep-ast numbers lines from 0.                                          *)
LinesOfInterest(changedLines) == [i \in DOMAIN changedLines |-> changedLines[i] - 1]

(* grep-ast has rendered the file, with the changed lines marked.          *)
Render ==
    /\ Len(sections) < Len(files) /\ Current.changedLines # << >>
    /\ Emit(<< >>, LinesOfInterest(Current.changedLines))

(* Mutant: the fallback has the file's own lines only, not its header.     *)
FallBackToHunks == Len(sections) < Len(files) /\ Emit(Tail(Current.raw), << >>)

(* Nothing to mark, no python, an unknown language, a timeout.             *)
FallBack == Len(sections) < Len(files) /\ Emit(Current.raw, << >>)

Return ==
    /\ pc = "annotate" /\ files # << >> /\ Len(sections) = Len(files)
    /\ pc' = "done"
    /\ UNCHANGED << diff, pos, lineNum, files, sections >>

(* No file was found: the diff is returned as it came.                     *)
ReturnDiff ==
    /\ pc = "annotate" /\ files = << >>
    /\ pc' = "unchanged"
    /\ UNCHANGED << diff, pos, lineNum, files, sections >>

Next == ScanFile \/ ScanLine \/ ScanEnds \/ Render \/ FallBack \/ Return \/ ReturnDiff

Spec == Init /\ [][Next]_vars
-----------------------------------------------------------------------------
(* Properties.  The reference: what the lines of a diff mean, without a    *)
(* scanner.                                                                *)
Overlong == {i \in DOMAIN diff : diff[i].long}
Starts == {i \in DOMAIN diff : diff[i].kind = "file"}

(* The lines of the file whose part of the diff starts at a line.          *)
PartOf(start) == {i \in start .. Len(diff) : \A s \in Starts : s <= i => s <= start}

(* Where the parts start that the scanner reaches the end of.              *)
Reached == {s \in Starts : \A o \in Overlong : \A i \in PartOf(s) : i < o}

(* The section of such a part, by its place among the parts of the diff.   *)
Number(start) == Cardinality({s \in Starts : s <= start})
SectionOf(start) == sections[Number(start)]

(* A line the new file has, and its number there.                          *)
InNew(i) == diff[i].kind \in {"context", "added", "plusplus"}
HunkOf(i) == CHOOSE h \in 1 .. i : /\ diff[h].kind = "hunk"
                                   /\ \A j \in h + 1 .. i : diff[j].kind # "hunk"
NumberInNew(i) ==
    diff[HunkOf(i)].new + Cardinality({j \in HunkOf(i) + 1 .. i - 1 : InNew(j)})

(* Every file whose part of the diff ends before the first overlong line   *)
(* has its section, in the order of the diff: all of its part, or a        *)
(* rendering.  At most one section more is there, cut at that line.  The   *)
(* diff stands as it came when its first line is too long, and only then.  *)
SectionsWhole ==
    /\ pc = "unchanged" => 1 \in Overlong
    /\ pc = "done" =>
        /\ 1 \notin Overlong
        /\ Len(sections) \in Cardinality(Reached) .. Cardinality(Reached) + 1
        /\ Overlong = {} => Len(sections) = Cardinality(Starts)
        /\ \A s \in Reached :
            /\ SectionOf(s).path = diff[s].path
            /\ \/ SectionOf(s).raw = << >> /\ SectionOf(s).marked # << >>
               \/ SectionOf(s).raw = [i \in 1 .. Cardinality(PartOf(s)) |-> s + i - 1]

(* Where the numbers can be trusted: no added line starts with two plus    *)
(* signs of its own, and none comes after git's remark on a last line      *)
(* without a newline.                                                      *)
Plain(start) ==
    \A i \in PartOf(start) :
        /\ diff[i].kind # "plusplus"
        /\ diff[i].kind = "remark" =>
                \A j \in PartOf(start) : j > i => diff[j].kind # "added"

(* A rendering marks the added lines, all of them and no other, by their   *)
(* numbers in the new file: in each of several hunks, after removed lines  *)
(* and after another file's part of the diff.                              *)
MarksExact ==
    pc = "done" =>
        \A s \in Reached :
            Plain(s) /\ SectionOf(s).raw = << >> =>
                {SectionOf(s).marked[i] + 1 : i \in DOMAIN SectionOf(s).marked} =
                    {NumberInNew(i) : i \in {j \in PartOf(s) : diff[j].kind = "added"}}
=============================================================================
