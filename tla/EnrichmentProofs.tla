-------------------------- MODULE EnrichmentProofs --------------------------
(***************************************************************************)
(* The enrichment of a diff, for every diff go-git writes: parseDiffFiles  *)
(* cuts it into the parts of its files, a line read later than another     *)
(* never disturbs what was found before, and the counter is the number of  *)
(* the line in the new file wherever the diff is plain.                    *)
(***************************************************************************)
EXTENDS Enrichment, FiniteSetTheorems, SequenceTheorems, TLAPS

SeenStarts == {s \in Starts : s < pos}

Last(s) == \A t \in SeenStarts : t <= s

FileOf(s) == files[Number(s)]

(* The lines of a file, as far as they were scanned.                       *)
RawOK(s) ==
    /\ FileOf(s).path = diff[s].path
    /\ FileOf(s).raw = [i \in 1 .. Len(FileOf(s).raw) |-> s + i - 1]
    /\ PartOf(s) \cap 1 .. pos - 1 = s .. s + Len(FileOf(s).raw) - 1

Elements(seq) == {seq[i] : i \in DOMAIN seq}

AddedIn(s) == {i \in PartOf(s) : i < pos /\ diff[i].kind = "added"}

(* The lines to mark in a file.                                            *)
ChangedOK(s) ==
    Plain(s) => Elements(FileOf(s).changedLines) = {NumberInNew(i) : i \in AddedIn(s)}

FilesOK ==
    /\ Len(files) = Cardinality(SeenStarts)
    /\ \A s \in SeenStarts : RawOK(s) /\ ChangedOK(s)
    /\ pos > 1 => \E s \in SeenStarts : Last(s)
    /\ \A n \in DOMAIN files : \A l \in Elements(files[n].changedLines) : l > 0

(* The scanner is in a hunk, and the counter has the number of the next    *)
(* line, unless git's remark was counted.                                  *)
InHunk(h) ==
    /\ diff[h].kind = "hunk"
    /\ \A j \in h + 1 .. pos - 1 : diff[j].kind \in HunkLines

NewLines(h) == {j \in h + 1 .. pos - 1 : InNew(j)}

CountOK ==
    pos > 1 /\ diff[pos - 1].kind \in {"hunk"} \cup HunkLines =>
        \E h \in 1 .. pos - 1 :
            /\ InHunk(h) /\ lineNum >= diff[h].new
            /\ (\A j \in h + 1 .. pos - 1 : diff[j].kind # "remark") =>
                 lineNum = diff[h].new + Cardinality(NewLines(h))

ScanOK ==
    /\ \A i \in 1 .. pos - 1 : ~diff[i].long
    /\ pc # "scan" => ~HasLine

(* A section is the file's part of the diff, or its rendering.             *)
SectionFrom(section, file) ==
    /\ section.path = file.path
    /\ \/ section.raw = file.raw
       \/ /\ section.raw = << >> /\ file.changedLines # << >>
          /\ section.marked = LinesOfInterest(file.changedLines)

SectionsOK ==
    /\ \A n \in DOMAIN sections : SectionFrom(sections[n], files[n])
    /\ pc = "scan" => sections = << >>
    /\ pc = "done" => files # << >> /\ Len(sections) = Len(files)
    /\ pc = "unchanged" => files = << >>

(* The inductive invariant.                                                *)
EInv == TypeOK /\ diff \in Diffs /\ ScanOK /\ FilesOK /\ CountOK /\ SectionsOK

-----------------------------------------------------------------------------
(* What a diff is.                                                         *)
LEMMA DiffLines ==
    ASSUME diff \in Diffs
    PROVE  /\ diff \in Seq(Line) /\ Len(diff) \in Nat \ {0} /\ DOMAIN diff = 1 .. Len(diff)
           /\ \A i \in 1 .. Len(diff) : diff[i] \in Line
           /\ diff[1].kind = "file"
<1>1. diff \in Seq(Line) /\ diff # << >> /\ WellFormed(diff)
  BY EnrichmentAssumption
<1>2. Len(diff) \in Nat /\ DOMAIN diff = 1 .. Len(diff)
      /\ \A i \in 1 .. Len(diff) : diff[i] \in Line
  BY <1>1, LenProperties, ElementOfSeq
<1>3. diff[1].kind = "file"
  BY <1>1 DEF WellFormed
<1>4. Len(diff) # 0
  BY <1>1, EmptySeq
<1>. QED
  BY <1>1, <1>2, <1>3, <1>4

(* Where the lines of a hunk stand.                                        *)
LEMMA HunkLinesFollow ==
    ASSUME diff \in Diffs, NEW i \in 1 .. Len(diff), diff[i].kind \in HunkLines
    PROVE  /\ i > 1 /\ i - 1 \in 1 .. Len(diff)
           /\ diff[i - 1].kind \in {"hunk"} \cup HunkLines
           /\ \A h \in 1 .. Len(diff) :
                h < i /\ diff[h].kind = "hunk" /\ diff[h].new = 0 /\ InHunkFrom(diff, h, i) =>
                    diff[i].kind \in {"removed", "remark"}
<1>1. WellFormed(diff) /\ Len(diff) \in Nat /\ i \in Nat
  BY EnrichmentAssumption, DiffLines
<1>2. i # 1
  BY DiffLines DEF HunkLines
<1>3. i > 1 /\ i \in 2 .. Len(diff) /\ i - 1 \in 1 .. Len(diff)
  BY <1>1, <1>2
<1>4. diff[i - 1].kind \in {"hunk"} \cup HunkLines
  BY <1>1, <1>3 DEF WellFormed
<1>5. \A h \in 1 .. Len(diff) :
        h < i /\ diff[h].kind = "hunk" /\ diff[h].new = 0 /\ InHunkFrom(diff, h, i) =>
            diff[i].kind \in {"removed", "remark"}
  BY <1>1 DEF WellFormed
<1>. QED
  BY <1>3, <1>4, <1>5

(* Starts up to a line are finitely many, and more of them at a later one. *)
LEMMA NumberType ==
    ASSUME diff \in Diffs
    PROVE  /\ IsFiniteSet(Starts) /\ Starts \subseteq 1 .. Len(diff) /\ 1 \in Starts
           /\ \A s \in Starts : /\ Number(s) \in Nat \ {0}
                               /\ IsFiniteSet({t \in Starts : t <= s})
<1>1. Starts \subseteq 1 .. Len(diff) /\ 1 \in Starts
  BY DiffLines DEF Starts
<1>2. IsFiniteSet(1 .. Len(diff))
  BY DiffLines, FS_Interval
<1>3. IsFiniteSet(Starts)
  BY <1>1, <1>2, FS_Subset
<1>4. ASSUME NEW s \in Starts
      PROVE  Number(s) \in Nat \ {0} /\ IsFiniteSet({t \in Starts : t <= s})
  <2>. DEFINE S == {t \in Starts : t <= s}
  <2>1. IsFiniteSet(S)
    <3>1. S \in SUBSET Starts
      OBVIOUS
    <3>. QED
      BY <1>3, <3>1, FS_Subset
  <2>2. s \in S
    BY <1>1
  <2>3. Cardinality(S) \in Nat /\ Cardinality(S) # 0
    BY <2>1, <2>2, FS_CardinalityType, FS_EmptySet
  <2>. QED
    BY <2>1, <2>3 DEF Number
<1>. QED
  BY <1>1, <1>3, <1>4

LEMMA NumberGrows ==
    ASSUME diff \in Diffs, NEW s \in Starts, NEW t \in Starts, s < t
    PROVE  Number(s) < Number(t)
<1>. DEFINE S == {u \in Starts : u <= s}
            T == {u \in Starts : u <= t}
<1>1. S \in SUBSET T /\ t \in T /\ t \notin S
  BY NumberType
<1>2. IsFiniteSet(T) /\ Number(s) = Cardinality(S) /\ Number(t) = Cardinality(T)
  BY NumberType DEF Number
<1>3. Number(s) \in Nat /\ Number(t) \in Nat
  BY NumberType
<1>. HIDE DEF S, T
<1>4. Cardinality(S) <= Cardinality(T) /\ (Cardinality(T) = Cardinality(S) => T = S)
  BY <1>1, <1>2, FS_Subset
<1>. QED
  BY <1>1, <1>2, <1>3, <1>4

(* A part contains its start, and no line of a part that starts later.     *)
LEMMA Parts ==
    ASSUME diff \in Diffs, NEW s \in Starts
    PROVE  /\ s \in PartOf(s) /\ s \in 1 .. Len(diff) /\ PartOf(s) \subseteq s .. Len(diff)
           /\ \A t \in Starts : s < t => \A i \in PartOf(s) : i < t
BY NumberType DEF PartOf

-----------------------------------------------------------------------------
(* The files found so far are the parts that start before the position.    *)
LEMMA SeenFiles ==
    ASSUME EInv
    PROVE  /\ pos \in 1 .. Len(diff) + 1 /\ Len(files) \in Nat
           /\ DOMAIN files = 1 .. Len(files)
           /\ IsFiniteSet(SeenStarts) /\ SeenStarts \subseteq Starts
           /\ \A s \in SeenStarts : /\ Number(s) \in 1 .. Len(files)
                                   /\ (Number(s) = Len(files) <=> Last(s))
<1>1. /\ pos \in 1 .. Len(diff) + 1 /\ Len(files) \in Nat /\ DOMAIN files = 1 .. Len(files)
      /\ Len(files) = Cardinality(SeenStarts)
  BY LenProperties DEF EInv, TypeOK, FilesOK
<1>2. IsFiniteSet(SeenStarts) /\ SeenStarts \subseteq Starts
  BY NumberType, FS_Subset DEF EInv, SeenStarts
<1>3. ASSUME NEW s \in SeenStarts
      PROVE  /\ Number(s) \in 1 .. Len(files)
             /\ Number(s) = Len(files) <=> Last(s)
  <2>. DEFINE S == {t \in Starts : t <= s}
  <2>1. S \in SUBSET SeenStarts /\ s \in Starts
    BY <1>1, NumberType DEF EInv, SeenStarts
  <2>2. Number(s) = Cardinality(S) /\ Number(s) \in Nat \ {0}
    BY <2>1, NumberType DEF Number, EInv
  <2>3. SeenStarts = S <=> Last(s)
    BY <1>1, <2>1, NumberType DEF Last, SeenStarts, EInv
  <2>. HIDE DEF S
  <2>4. Cardinality(S) <= Cardinality(SeenStarts)
        /\ (Cardinality(SeenStarts) = Cardinality(S) => SeenStarts = S)
    BY <1>2, <2>1, FS_Subset
  <2>. QED
    BY <1>1, <2>2, <2>3, <2>4
<1>. QED
  BY <1>1, <1>2, <1>3

LEMMA SameInterval ==
    ASSUME NEW a \in Int, NEW b \in Int, NEW c \in Int, a <= b, a .. b = a .. c
    PROVE  b = c
<1>1. b \in a .. c
  OBVIOUS
<1>2. c \in a .. b
  BY <1>1
<1>. QED
  BY <1>1, <1>2

(* The last start is that of the file being scanned.                       *)
LEMMA CurrentFile ==
    ASSUME EInv, pos <= Len(diff), diff[pos].kind # "file"
    PROVE  \E s \in SeenStarts :
              /\ Last(s) /\ Number(s) = Len(files) /\ Len(files) > 0
              /\ pos \in PartOf(s)
              /\ Len(files[Len(files)].raw) = pos - s
              /\ \A t \in SeenStarts : t # s => pos \notin PartOf(t) /\ Number(t) # Len(files)
<1>1. pos \in 1 .. Len(diff) /\ pos > 1 /\ diff[1].kind = "file"
  BY SeenFiles, DiffLines DEF EInv, WellFormed
<1>2. PICK s \in SeenStarts : Last(s)
  BY <1>1 DEF EInv, FilesOK
<1>3. s \in Starts /\ s \in 1 .. Len(diff) /\ s < pos
  BY <1>2, NumberType DEF SeenStarts, EInv
<1>4. Number(s) = Len(files) /\ Number(s) \in 1 .. Len(files)
  BY <1>2, SeenFiles
<1>5. \A i \in s .. pos : i \in PartOf(s)
  <2>. SUFFICES ASSUME NEW i \in s .. pos, NEW t \in Starts, t <= i PROVE t <= s
    BY <1>1, <1>3 DEF PartOf
  <2>1. t # pos /\ t \in Nat
    BY NumberType DEF Starts, EInv
  <2>. QED
    BY <1>1, <1>2, <1>3, <2>1 DEF Last, SeenStarts
<1>6. Len(files[Len(files)].raw) = pos - s
  <2>1. files[Len(files)].raw \in Seq(Nat)
    <3>1. files \in Seq(File) /\ Len(files) \in 1 .. Len(files)
      BY <1>4 DEF EInv, TypeOK
    <3>2. files[Len(files)] \in File
      BY <3>1, ElementOfSeq
    <3>. QED
      BY <3>2 DEF File
  <2>. DEFINE n == Len(files[Len(files)].raw)
  <2>2. n \in Nat
    BY <2>1, LenProperties
  <2>3. PartOf(s) \cap 1 .. pos - 1 = s .. s + n - 1
    BY <1>2, <1>4 DEF EInv, FilesOK, RawOK, FileOf
  <2>4. PartOf(s) \cap 1 .. pos - 1 = s .. pos - 1
    BY <1>1, <1>3, <1>5, Parts DEF EInv
  <2>. HIDE DEF n
  <2>5. s .. pos - 1 = s .. s + n - 1
    BY <2>3, <2>4
  <2>6. n = pos - s
    <3>1. s \in Int /\ pos - 1 \in Int /\ s + n - 1 \in Int /\ s <= pos - 1
      BY <1>1, <1>3, <2>2
    <3>2. pos - 1 = s + n - 1
      BY <2>5, <3>1, SameInterval
    <3>. QED
      BY <1>1, <1>3, <2>2, <3>2
  <2>. QED
    BY <2>6 DEF n
<1>7. \A t \in SeenStarts : t # s => pos \notin PartOf(t) /\ Number(t) # Len(files)
  <2>. SUFFICES ASSUME NEW t \in SeenStarts, t # s
                PROVE  pos \notin PartOf(t) /\ Number(t) # Len(files)
    OBVIOUS
  <2>1. t \in Starts /\ t \in Nat /\ t < s
    BY <1>2, <1>3, NumberType DEF Last, SeenStarts, EInv
  <2>2. ~ Last(t)
    BY <1>2, <1>3, <2>1 DEF Last
  <2>. QED
    BY <1>1, <1>3, <2>1, <2>2, Parts, SeenFiles DEF EInv
<1>. QED
  BY <1>2, <1>4, <1>5, <1>6, <1>7, <1>1, <1>3

-----------------------------------------------------------------------------
LEMMA InitEnrichment == Init => EInv
<1>. SUFFICES ASSUME Init PROVE EInv
  OBVIOUS
<1>1. /\ diff \in Diffs /\ pc = "scan" /\ pos = 1 /\ lineNum = 0
      /\ files = << >> /\ sections = << >>
  BY DEF Init
<1>2. TypeOK
  BY <1>1, DiffLines, EmptySeq DEF TypeOK
<1>3. SeenStarts = {}
  BY <1>1, NumberType DEF SeenStarts
<1>4. FilesOK
  BY <1>1, <1>3, FS_EmptySet DEF FilesOK
<1>. QED
  BY <1>1, <1>2, <1>4 DEF EInv, ScanOK, CountOK, SectionsOK

(* The counter is the number of the line it stands at, where the diff is   *)
(* plain.                                                                  *)
LEMMA LineNumber ==
    ASSUME EInv, pos <= Len(diff), diff[pos].kind = "added"
    PROVE  /\ lineNum > 0
           /\ \A s \in SeenStarts : Last(s) /\ Plain(s) => lineNum = NumberInNew(pos)
<1>1. pos \in 1 .. Len(diff) /\ diff \in Diffs /\ diff[pos].kind \in HunkLines
  BY SeenFiles DEF EInv, HunkLines
<1>2. pos > 1 /\ diff[pos - 1].kind \in {"hunk"} \cup HunkLines
  BY <1>1, HunkLinesFollow
<1>3. PICK h \in 1 .. pos - 1 :
         /\ InHunk(h) /\ lineNum >= diff[h].new
         /\ (\A j \in h + 1 .. pos - 1 : diff[j].kind # "remark") =>
              lineNum = diff[h].new + Cardinality(NewLines(h))
  BY <1>1, <1>2 DEF EInv, CountOK
<1>4. h \in 1 .. Len(diff) /\ h < pos /\ diff[h].new \in Nat /\ diff[h].kind = "hunk"
  <2>1. h \in 1 .. Len(diff) /\ h < pos
    BY <1>1, <1>3, DiffLines
  <2>2. diff[h].new \in Nat
    BY <1>1, <2>1, DiffLines DEF Line
  <2>. QED
    BY <1>3, <2>1, <2>2 DEF InHunk
<1>5. lineNum > 0
  <2>1. InHunkFrom(diff, h, pos)
    BY <1>1, <1>3, <1>4 DEF InHunk, InHunkFrom
  <2>2. diff[h].new # 0
    BY <1>1, <1>4, <2>1, HunkLinesFollow
  <2>. QED
    BY <1>3, <1>4, <2>2 DEF EInv, TypeOK
<1>6. ASSUME NEW s \in SeenStarts, Last(s), Plain(s) PROVE lineNum = NumberInNew(pos)
  <2>1. s \in Starts /\ s \in Nat /\ s < pos
    BY NumberType DEF SeenStarts, EInv
  <2>2. s <= h
    <3>1. diff[s].kind = "file"
      BY <2>1 DEF Starts
    <3>. QED
      BY <1>1, <1>3, <1>4, <2>1, <3>1 DEF InHunk, HunkLines
  <2>3. \A j \in h .. pos : j \in PartOf(s)
    <3>. SUFFICES ASSUME NEW j \in h .. pos, NEW t \in Starts, t <= j PROVE t <= s
      BY <1>1, <1>4, <2>1, <2>2 DEF PartOf
    <3>1. t \in Nat /\ t # pos
      BY <1>1, NumberType DEF Starts
    <3>. QED
      BY <1>1, <1>4, <1>6, <3>1 DEF Last, SeenStarts
  <2>4. \A j \in h + 1 .. pos - 1 : diff[j].kind # "remark"
    <3>1. \A j \in h + 1 .. pos - 1 : j \in PartOf(s) /\ pos > j /\ pos \in PartOf(s)
      BY <1>1, <1>4, <2>3
    <3>. QED
      BY <1>1, <1>6, <3>1 DEF Plain
  <2>5. lineNum = diff[h].new + Cardinality(NewLines(h))
    BY <1>3, <2>4
  <2>6. HunkOf(pos) = h
    <3>1. /\ h \in 1 .. pos /\ diff[h].kind = "hunk"
          /\ \A j \in h + 1 .. pos : diff[j].kind # "hunk"
      BY <1>1, <1>3, <1>4 DEF InHunk, HunkLines
    <3>2. ASSUME NEW g \in 1 .. pos, diff[g].kind = "hunk",
                 \A j \in g + 1 .. pos : diff[j].kind # "hunk"
          PROVE  g = h
      BY <1>1, <3>1, <3>2
    <3>. QED
      BY <3>1, <3>2 DEF HunkOf
  <2>. QED
    BY <2>5, <2>6 DEF NumberInNew, NewLines
<1>. QED
  BY <1>5, <1>6

(* The counter goes on.                                                    *)
LEMMA CountLine ==
    ASSUME EInv, ScanLine
    PROVE  CountOK'
<1>1. /\ pos \in 1 .. Len(diff) /\ diff \in Diffs /\ diff' = diff /\ pos' = pos + 1
      /\ lineNum \in Nat
      /\ diff[pos].kind = "hunk" => lineNum' = diff[pos].new
      /\ diff[pos].kind \notin {"hunk", "removed"} => lineNum' = lineNum + 1
      /\ diff[pos].kind = "removed" => lineNum' = lineNum
  <2>1. /\ pos <= Len(diff) /\ diff' = diff /\ pos' = pos + 1
        /\ lineNum' = IF diff[pos].kind = "hunk" THEN diff[pos].new
                      ELSE IF diff[pos].kind # "removed" THEN lineNum + 1
                      ELSE lineNum
    BY DEF ScanLine, HasLine, ParseHunkStart, Advances
  <2>2. pos \in 1 .. Len(diff) + 1 /\ Len(diff) \in Nat /\ diff \in Diffs /\ lineNum \in Nat
    BY SeenFiles, DiffLines DEF EInv, TypeOK
  <2>3. pos \in 1 .. Len(diff)
    BY <2>1, <2>2
  <2>4. diff[pos].kind = "hunk" => lineNum' = diff[pos].new
    BY <2>1
  <2>5. diff[pos].kind \notin {"hunk", "removed"} => lineNum' = lineNum + 1
    BY <2>1
  <2>6. diff[pos].kind = "removed" => lineNum' = lineNum
    BY <2>1
  <2>. QED
    BY <2>1, <2>2, <2>3, <2>4, <2>5, <2>6
<1>2. diff[pos].new \in Nat
  BY <1>1, DiffLines DEF Line
<1>3. CASE diff[pos].kind = "hunk"
  <2>1. PICK h \in 1 .. Len(diff) : h = pos
    BY <1>1
  <2>2. InHunk(h)' /\ NewLines(h)' = {}
    BY <1>1, <1>3, <2>1 DEF InHunk, NewLines
  <2>3. lineNum' = diff'[h].new + 0 /\ lineNum' >= diff'[h].new /\ h \in 1 .. pos' - 1
    BY <1>1, <1>2, <1>3, <2>1
  <2>. QED
    BY <2>2, <2>3, FS_EmptySet DEF CountOK
<1>4. CASE diff[pos].kind \in HunkLines
  <2>1. pos > 1 /\ diff[pos - 1].kind \in {"hunk"} \cup HunkLines
    BY <1>1, <1>4, HunkLinesFollow
  <2>2. PICK h \in 1 .. pos - 1 :
           /\ InHunk(h) /\ lineNum >= diff[h].new
           /\ (\A j \in h + 1 .. pos - 1 : diff[j].kind # "remark") =>
                lineNum = diff[h].new + Cardinality(NewLines(h))
    BY <1>1, <2>1 DEF EInv, CountOK
  <2>3. h \in 1 .. Len(diff) /\ diff[h].new \in Nat
    BY <1>1, DiffLines DEF Line
  <2>4. InHunk(h)'
    BY <1>1, <1>4, <2>2 DEF InHunk
  <2>5. lineNum' >= diff[h].new
    BY <1>1, <1>4, <2>2, <2>3 DEF HunkLines
  <2>6. ASSUME \A j \in h + 1 .. pos : diff[j].kind # "remark"
        PROVE  lineNum' = diff[h].new + Cardinality(NewLines(h)')
    <3>1. lineNum = diff[h].new + Cardinality(NewLines(h))
      BY <1>1, <2>2, <2>6
    <3>2. IsFiniteSet(NewLines(h)) /\ Cardinality(NewLines(h)) \in Nat
      <4>1. NewLines(h) \in SUBSET (h + 1 .. pos - 1) /\ h + 1 \in Int /\ pos - 1 \in Int
        BY <1>1, <2>3 DEF NewLines
      <4>2. IsFiniteSet(h + 1 .. pos - 1)
        BY <4>1, FS_Interval
      <4>. QED
        BY <4>1, <4>2, FS_Subset, FS_CardinalityType
    <3>3. pos \notin NewLines(h)
      BY <1>1 DEF NewLines
    <3>4. CASE diff[pos].kind = "removed"
      <4>1. NewLines(h)' = NewLines(h)
        BY <1>1, <2>3, <3>4 DEF NewLines, InNew
      <4>. QED
        BY <1>1, <3>1, <3>4, <4>1
    <3>5. CASE diff[pos].kind # "removed"
      <4>1. NewLines(h)' = NewLines(h) \cup {pos}
        <5>1. InNew(pos)
          <6>1. pos \in h + 1 .. pos
            BY <1>1, <2>2
          <6>. QED
            BY <1>4, <2>6, <3>5, <6>1 DEF InNew, HunkLines
        <5>. QED
          BY <1>1, <2>2, <2>3, <5>1 DEF NewLines, InNew
      <4>2. Cardinality(NewLines(h)') = Cardinality(NewLines(h)) + 1
        BY <3>2, <3>3, <4>1, FS_AddElement
      <4>3. lineNum' = lineNum + 1
        BY <1>1, <1>4, <3>5 DEF HunkLines
      <4>. DEFINE n == Cardinality(NewLines(h))
                  m == Cardinality(NewLines(h)')
      <4>4. lineNum = diff[h].new + n /\ n \in Nat /\ m = n + 1
        BY <3>1, <3>2, <4>2
      <4>. HIDE DEF n, m
      <4>5. lineNum' = diff[h].new + m
        <5>. DEFINE k == diff[h].new
        <5>1. k \in Nat /\ lineNum = k + n /\ lineNum' = lineNum + 1
          BY <2>3, <4>3, <4>4
        <5>. HIDE DEF k
        <5>2. lineNum' = k + m
          BY <4>4, <5>1
        <5>. QED
          BY <5>2 DEF k
      <4>. QED
        BY <4>5 DEF m
    <3>. QED
      BY <3>4, <3>5
  <2>. QED
    BY <1>1, <2>2, <2>4, <2>5, <2>6 DEF CountOK
<1>5. CASE diff[pos].kind \notin {"hunk"} \cup HunkLines
  BY <1>1, <1>5 DEF CountOK
<1>. QED
  BY <1>3, <1>4, <1>5

(* A new file.                                                             *)
LEMMA ScanFileKeeps == EInv /\ ScanFile => EInv'
<1>. SUFFICES ASSUME EInv, ScanFile PROVE EInv'
  OBVIOUS
<1>. DEFINE new == [path |-> diff[pos].path, raw |-> << pos >>, changedLines |-> << >>]
<1>1. /\ pos \in 1 .. Len(diff) /\ diff \in Diffs /\ diff' = diff /\ pos' = pos + 1
      /\ pc = "scan" /\ pc' = "scan" /\ diff[pos].kind = "file" /\ ~diff[pos].long
      /\ files' = Append(files, new) /\ lineNum' = 0 /\ sections' = sections
  BY SeenFiles DEF ScanFile, HasLine, EInv
<1>2. new \in File /\ new.raw = << pos >> /\ new.path = diff[pos].path
      /\ new.changedLines = << >>
  BY <1>1, DiffLines, EmptySeq DEF File, Line
<1>. HIDE DEF new
<1>3. /\ files \in Seq(File) /\ files' \in Seq(File) /\ Len(files') = Len(files) + 1
      /\ Len(files) \in Nat /\ DOMAIN files' = 1 .. Len(files')
      /\ \A n \in 1 .. Len(files) : files'[n] = files[n]
      /\ files'[Len(files) + 1] = new
  BY <1>1, <1>2 DEF EInv, TypeOK
<1>4. TypeOK'
  BY <1>1, <1>3 DEF EInv, TypeOK, SectionsOK
<1>5. ScanOK'
  BY <1>1 DEF EInv, ScanOK
<1>6. CountOK'
  BY <1>1 DEF CountOK, HunkLines
<1>7. SectionsOK'
  BY <1>1 DEF EInv, SectionsOK
<1>8. pos \in Starts /\ Starts' = Starts
  BY <1>1, DiffLines DEF Starts
<1>9. SeenStarts' = SeenStarts \cup {pos} /\ pos \notin SeenStarts
      /\ {s \in Starts : s <= pos} = SeenStarts'
  <2>1. Starts \subseteq 1 .. Len(diff) /\ Len(diff) \in Nat /\ pos \in Nat
    BY <1>1, NumberType, DiffLines
  <2>2. \A s \in Starts : s \in Nat /\ (s < pos + 1 <=> s <= pos) /\ (s <= pos <=> s < pos \/ s = pos)
    BY <2>1
  <2>3. SeenStarts' = {s \in Starts : s < pos + 1}
    BY <1>1, <1>8 DEF SeenStarts
  <2>4. SeenStarts' = {s \in Starts : s <= pos}
    BY <2>2, <2>3
  <2>5. SeenStarts = {s \in Starts : s < pos} /\ pos \notin SeenStarts
    BY <2>1 DEF SeenStarts
  <2>. QED
    BY <1>8, <2>2, <2>4, <2>5
<1>10. Len(files') = Cardinality(SeenStarts')
  <2>1. IsFiniteSet(SeenStarts) /\ Len(files) = Cardinality(SeenStarts)
    BY SeenFiles DEF EInv, FilesOK
  <2>2. Cardinality(SeenStarts') = Cardinality(SeenStarts) + 1
    BY <1>9, <2>1, FS_AddElement
  <2>. QED
    BY <1>3, <2>1, <2>2
<1>. PICK p \in 1 .. Len(diff) : p = pos
  BY <1>1
<1>11. Last(p)'
  BY <1>1, <1>9, NumberType DEF Last, SeenStarts
<1>12. Number(p) = Len(files')
  BY <1>9, <1>10 DEF Number
<1>13. \A s : Number(s)' = Number(s) /\ PartOf(s)' = PartOf(s) /\ Plain(s)' = Plain(s)
  BY <1>1, <1>8 DEF Number, PartOf, Plain
<1>14. \A i : NumberInNew(i)' = NumberInNew(i)
  BY <1>1 DEF NumberInNew, HunkOf, InNew
<1>15. ASSUME NEW s \in SeenStarts PROVE RawOK(s)' /\ ChangedOK(s)'
  <2>1. RawOK(s) /\ ChangedOK(s) /\ FileOf(s)' = FileOf(s)
    BY <1>3, <1>13, SeenFiles DEF EInv, FilesOK, FileOf
  <2>2. pos \notin PartOf(s) /\ PartOf(s) \subseteq 1 .. Len(diff)
    BY <1>1, <1>8, Parts, NumberType DEF SeenStarts
  <2>3. AddedIn(s)' = AddedIn(s)
    BY <1>1, <1>13, <2>2 DEF AddedIn
  <2>4. PartOf(s) \cap 1 .. pos' - 1 = PartOf(s) \cap 1 .. pos - 1
    BY <1>1, <2>2
  <2>5. RawOK(s)'
    BY <1>1, <1>13, <2>1, <2>4 DEF RawOK
  <2>6. ChangedOK(s)'
    BY <1>13, <1>14, <2>1, <2>3 DEF ChangedOK, Elements
  <2>. QED
    BY <2>5, <2>6
<1>16. RawOK(p)' /\ ChangedOK(p)'
  <2>1. FileOf(p)' = new
    BY <1>3, <1>12, <1>13 DEF FileOf
  <2>2. PartOf(p) \cap 1 .. pos = {pos}
    BY <1>1, <1>8, Parts
  <2>3. AddedIn(p)' = {}
    <3>1. AddedIn(p)' = {i \in PartOf(p) : i < pos + 1 /\ diff[i].kind = "added"}
      BY <1>1, <1>13 DEF AddedIn
    <3>2. PartOf(p) \subseteq p .. Len(diff) /\ Len(diff) \in Nat
      BY <1>1, <1>8, Parts, DiffLines
    <3>3. \A i \in PartOf(p) : i < pos + 1 => i = pos
      BY <1>1, <3>2
    <3>. QED
      BY <1>1, <3>1, <3>3
  <2>4. RawOK(p)'
    <3>1. Len(<< pos >>) = 1 /\ << pos >> = [i \in 1 .. 1 |-> pos + i - 1]
      BY <1>1
    <3>2. PartOf(p)' \cap 1 .. pos' - 1 = pos .. pos + 1 - 1
      BY <1>1, <1>13, <2>2
    <3>. QED
      BY <1>1, <1>2, <2>1, <3>1, <3>2 DEF RawOK
  <2>5. ChangedOK(p)'
    <3>1. Elements(FileOf(p)'.changedLines) = {}
      BY <1>2, <2>1 DEF Elements
    <3>. QED
      BY <2>3, <3>1 DEF ChangedOK, Elements
  <2>. QED
    BY <2>4, <2>5
<1>17. \A n \in DOMAIN files' : \A l \in Elements(files'[n].changedLines) : l > 0
  BY <1>2, <1>3 DEF EInv, FilesOK, Elements
<1>18. FilesOK'
  <2>1. Len(files') = Cardinality(SeenStarts')
    BY <1>10
  <2>2. \A s \in SeenStarts' : RawOK(s)' /\ ChangedOK(s)'
    BY <1>9, <1>15, <1>16
  <2>3. \E s \in SeenStarts' : Last(s)'
    BY <1>9, <1>11
  <2>4. (\A n \in DOMAIN files : \A l \in Elements(files[n].changedLines) : l > 0)'
    BY <1>17 DEF Elements
  <2>. QED
    BY <2>1, <2>2, <2>3, <2>4 DEF FilesOK
<1>. QED
  BY <1>1, <1>4, <1>5, <1>6, <1>7, <1>18 DEF EInv

(* What a line appends to, element by element.                             *)
LEMMA AppendElements ==
    ASSUME NEW S, NEW seq \in Seq(S), NEW x \in S
    PROVE  /\ Append(seq, x) \in Seq(S)
           /\ Elements(Append(seq, x)) = Elements(seq) \cup {x}
<1>1. /\ Len(seq) \in Nat /\ DOMAIN seq = 1 .. Len(seq)
      /\ DOMAIN Append(seq, x) = 1 .. Len(seq) + 1
      /\ \A i \in 1 .. Len(seq) : Append(seq, x)[i] = seq[i]
      /\ Append(seq, x)[Len(seq) + 1] = x
      /\ Append(seq, x) \in Seq(S)
  OBVIOUS
<1>2. Elements(Append(seq, x)) = Elements(seq) \cup {x}
  BY <1>1 DEF Elements
<1>. QED
  BY <1>1, <1>2

(* A line of the file being scanned.                                       *)
LEMMA ScanLineKeeps == EInv /\ ScanLine => EInv'
<1>. SUFFICES ASSUME EInv, ScanLine PROVE EInv'
  OBVIOUS
<1>. DEFINE m == Len(files)
            old == files[m]
            marks == IF diff[pos].kind = "added" THEN Append(old.changedLines, lineNum)
                                                 ELSE old.changedLines
            new == [path |-> old.path, raw |-> Append(old.raw, pos), changedLines |-> marks]
<1>1. /\ pos \in 1 .. Len(diff) /\ diff \in Diffs /\ diff' = diff /\ pos' = pos + 1
      /\ pc = "scan" /\ pc' = "scan" /\ diff[pos].kind # "file" /\ ~diff[pos].long
      /\ sections' = sections /\ lineNum \in Nat
  BY SeenFiles DEF ScanLine, HasLine, EInv, TypeOK
<1>2. PICK s \in SeenStarts :
         /\ Last(s) /\ Number(s) = m /\ m > 0
         /\ pos \in PartOf(s)
         /\ Len(old.raw) = pos - s
         /\ \A t \in SeenStarts : t # s => pos \notin PartOf(t) /\ Number(t) # m
  BY <1>1, CurrentFile
<1>3. /\ files \in Seq(File) /\ m \in 1 .. Len(files) /\ DOMAIN files = 1 .. Len(files)
      /\ m \in Nat /\ old \in File
      /\ s \in Starts /\ s \in 1 .. Len(diff) /\ s < pos
  BY <1>1, <1>2, SeenFiles, ElementOfSeq, NumberType DEF EInv, TypeOK, SeenStarts
<1>4. old.raw \in Seq(Nat) /\ old.changedLines \in Seq(Nat)
      /\ old = [path |-> old.path, raw |-> old.raw, changedLines |-> old.changedLines]
      /\ old.path \in Path
  BY <1>3 DEF File
<1>5. /\ Append(old.raw, pos) \in Seq(Nat)
      /\ marks \in Seq(Nat)
      /\ Elements(marks) = Elements(old.changedLines)
                             \cup (IF diff[pos].kind = "added" THEN {lineNum} ELSE {})
  <2>1. pos \in Nat
    BY <1>1
  <2>2. Append(old.raw, pos) \in Seq(Nat)
    BY <1>4, <2>1, AppendElements
  <2>3. CASE diff[pos].kind = "added"
    <3>1. marks = Append(old.changedLines, lineNum)
      BY <2>3
    <3>. QED
      BY <1>1, <1>4, <2>2, <2>3, <3>1, AppendElements
  <2>4. CASE diff[pos].kind # "added"
    BY <1>4, <2>2, <2>4
  <2>. QED
    BY <2>3, <2>4
<1>6. files' = [files EXCEPT ![m] = new]
  BY DEF ScanLine
<1>7. new \in File /\ new.path = old.path /\ new.raw = Append(old.raw, pos)
      /\ new.changedLines = marks
  BY <1>4, <1>5 DEF File
<1>. HIDE DEF new, marks
<1>8. /\ files' \in Seq(File) /\ Len(files') = Len(files) /\ DOMAIN files' = DOMAIN files
      /\ files'[m] = new
      /\ \A n \in DOMAIN files : n # m => files'[n] = files[n]
  BY <1>3, <1>6, <1>7
<1>9. TypeOK'
  <2>1. lineNum' \in Nat
    <3>1. diff[pos].new \in Nat
      BY <1>1, DiffLines DEF Line
    <3>. QED
      BY <1>1, <3>1 DEF ScanLine, ParseHunkStart
  <2>. QED
    BY <1>1, <1>8, <2>1 DEF EInv, TypeOK
<1>10. ScanOK'
  BY <1>1 DEF EInv, ScanOK
<1>11. SectionsOK'
  BY <1>1 DEF EInv, SectionsOK
<1>12. SeenStarts' = SeenStarts /\ Starts' = Starts
  BY <1>1, NumberType DEF SeenStarts, Starts
<1>13. \A t : Number(t)' = Number(t) /\ PartOf(t)' = PartOf(t) /\ Plain(t)' = Plain(t)
  BY <1>1, <1>12 DEF Number, PartOf, Plain
<1>14. \A i : NumberInNew(i)' = NumberInNew(i)
  BY <1>1 DEF NumberInNew, HunkOf, InNew
<1>15. ASSUME NEW t \in SeenStarts, t # s PROVE RawOK(t)' /\ ChangedOK(t)'
  <2>1. RawOK(t) /\ ChangedOK(t) /\ FileOf(t)' = FileOf(t)
    BY <1>2, <1>3, <1>8, <1>13, <1>15, SeenFiles DEF EInv, FilesOK, FileOf
  <2>2. pos \notin PartOf(t) /\ PartOf(t) \subseteq 1 .. Len(diff)
    BY <1>1, <1>2, <1>15, Parts, NumberType DEF SeenStarts
  <2>3. AddedIn(t)' = AddedIn(t)
    BY <1>1, <1>13, <2>2 DEF AddedIn
  <2>4. PartOf(t) \cap 1 .. pos' - 1 = PartOf(t) \cap 1 .. pos - 1
    BY <1>1, <2>2
  <2>5. RawOK(t)'
    BY <1>1, <1>13, <2>1, <2>4 DEF RawOK
  <2>6. ChangedOK(t)'
    BY <1>13, <1>14, <2>1, <2>3 DEF ChangedOK, Elements
  <2>. QED
    BY <2>5, <2>6
<1>16. RawOK(s) /\ ChangedOK(s) /\ FileOf(s) = old /\ FileOf(s)' = new
  BY <1>2, <1>8, <1>13 DEF EInv, FilesOK, FileOf
<1>17. RawOK(s)'
  <2>. DEFINE n == Len(old.raw)
              raw == Append(old.raw, pos)
  <2>1. n \in Nat /\ pos = s + n /\ Len(raw) = n + 1
    <3>1. n \in Nat /\ Len(raw) = n + 1
      BY <1>4, LenProperties
    <3>2. pos \in Nat /\ s \in Nat /\ n = pos - s
      BY <1>1, <1>2, <1>3
    <3>. HIDE DEF n, raw
    <3>3. pos = s + n
      BY <3>1, <3>2
    <3>. QED
      BY <3>1, <3>3
  <2>2. raw = [i \in 1 .. n + 1 |-> s + i - 1]
    <3>1. /\ DOMAIN raw = 1 .. n + 1
          /\ \A i \in 1 .. n : raw[i] = old.raw[i]
          /\ raw[n + 1] = pos
          /\ raw = [i \in 1 .. n + 1 |-> raw[i]]
      BY <1>4
    <3>2. \A i \in 1 .. n : old.raw[i] = s + i - 1
      BY <1>16 DEF RawOK
    <3>. HIDE DEF raw, n
    <3>3. \A i \in 1 .. n + 1 : raw[i] = s + i - 1
      <4>. SUFFICES ASSUME NEW i \in 1 .. n + 1 PROVE raw[i] = s + i - 1
        OBVIOUS
      <4>1. s \in Nat
        BY <1>3
      <4>2. CASE i = n + 1
        BY <2>1, <3>1, <4>1, <4>2
      <4>3. CASE i # n + 1
        <5>1. i \in 1 .. n
          BY <2>1, <4>3
        <5>. QED
          BY <3>1, <3>2, <5>1
      <4>. QED
        BY <4>2, <4>3
    <3>. QED
      BY <3>1, <3>3
  <2>3. PartOf(s)' \cap 1 .. pos' - 1 = s .. s + (n + 1) - 1
    <3>1. PartOf(s) \cap 1 .. pos - 1 = s .. s + n - 1
      BY <1>16 DEF RawOK
    <3>. HIDE DEF n
    <3>2. PartOf(s)' = PartOf(s) /\ 1 .. pos' - 1 = (1 .. pos - 1) \cup {pos}
      BY <1>1, <1>13
    <3>3. PartOf(s)' \cap 1 .. pos' - 1 = (s .. s + n - 1) \cup {pos}
      BY <1>2, <3>1, <3>2
    <3>4. (s .. s + n - 1) \cup {pos} = s .. s + (n + 1) - 1
      <4>1. s \in Nat
        BY <1>3
      <4>. QED
        BY <2>1, <4>1
    <3>. QED
      BY <3>3, <3>4
  <2>. QED
    BY <1>1, <1>7, <1>16, <2>1, <2>2, <2>3 DEF RawOK
<1>18. ChangedOK(s)'
  <2>. SUFFICES ASSUME Plain(s)
                PROVE  Elements(new.changedLines) = {NumberInNew(i) : i \in AddedIn(s)'}
    BY <1>13, <1>14, <1>16 DEF ChangedOK, Elements
  <2>1. Elements(old.changedLines) = {NumberInNew(i) : i \in AddedIn(s)}
    BY <1>16 DEF ChangedOK
  <2>2. AddedIn(s)' = AddedIn(s) \cup (IF diff[pos].kind = "added" THEN {pos} ELSE {})
    BY <1>1, <1>2, <1>3, <1>13, Parts DEF AddedIn
  <2>3. diff[pos].kind = "added" => lineNum = NumberInNew(pos)
    BY <1>1, <1>2, LineNumber
  <2>. QED
    BY <1>5, <1>7, <2>1, <2>2, <2>3
<1>19. \A n \in DOMAIN files' : \A l \in Elements(files'[n].changedLines) : l > 0
  <2>1. \A l \in Elements(old.changedLines) : l > 0
    BY <1>3 DEF EInv, FilesOK
  <2>2. diff[pos].kind = "added" => lineNum > 0
    BY <1>1, LineNumber
  <2>. QED
    BY <1>5, <1>7, <1>8, <2>1, <2>2 DEF EInv, FilesOK
<1>20. FilesOK'
  <2>1. Last(s)'
    BY <1>2, <1>12 DEF Last
  <2>. QED
    BY <1>2, <1>8, <1>12, <1>15, <1>17, <1>18, <1>19, <2>1 DEF EInv, FilesOK, Elements
<1>. QED
  BY <1>1, <1>9, <1>10, <1>11, <1>20, CountLine DEF EInv

-----------------------------------------------------------------------------
(* No line is scanned: what was found stays.                               *)
LEMMA ScanStays ==
    ASSUME EInv, UNCHANGED << diff, pos, lineNum, files >>,
           pc = "scan" /\ HasLine => pc' = "scan",
           TypeOK', SectionsOK'
    PROVE  EInv'
<1>1. ScanOK'
  BY DEF EInv, ScanOK, HasLine
<1>2. FilesOK'
  <2>1. SeenStarts' = SeenStarts /\ \A s : Last(s)' = Last(s)
    BY DEF SeenStarts, Starts, Last
  <2>2. \A s : RawOK(s)' = RawOK(s)
    BY DEF RawOK, FileOf, Number, PartOf, Starts
  <2>3. \A s : ChangedOK(s)' = ChangedOK(s)
    <3>1. \A s : /\ Plain(s)' = Plain(s) /\ FileOf(s)' = FileOf(s)
                 /\ AddedIn(s)' = AddedIn(s)
      BY DEF Plain, FileOf, Number, AddedIn, PartOf, Starts
    <3>2. \A i : NumberInNew(i)' = NumberInNew(i)
      BY DEF NumberInNew, HunkOf, InNew
    <3>. QED
      BY <3>1, <3>2 DEF ChangedOK, Elements
  <2>4. (\A n \in DOMAIN files : \A l \in Elements(files[n].changedLines) : l > 0)'
    BY DEF EInv, FilesOK, Elements
  <2>. QED
    BY <2>1, <2>2, <2>3, <2>4 DEF EInv, FilesOK
<1>3. CountOK'
  BY DEF EInv, CountOK, InHunk, NewLines, InNew
<1>. QED
  BY <1>1, <1>2, <1>3 DEF EInv

(* The numbers grep-ast gets.                                              *)
LEMMA Interesting ==
    ASSUME NEW lines \in Seq(Nat), \A l \in Elements(lines) : l > 0
    PROVE  /\ LinesOfInterest(lines) \in Seq(Nat)
           /\ DOMAIN LinesOfInterest(lines) = DOMAIN lines
           /\ {LinesOfInterest(lines)[i] + 1 : i \in DOMAIN LinesOfInterest(lines)} =
                Elements(lines)
<1>1. Len(lines) \in Nat /\ DOMAIN lines = 1 .. Len(lines)
      /\ \A i \in DOMAIN lines : lines[i] \in Nat /\ lines[i] > 0
  BY LenProperties, ElementOfSeq DEF Elements
<1>2. \A i \in DOMAIN lines : lines[i] - 1 \in Nat /\ (lines[i] - 1) + 1 = lines[i]
  BY <1>1
<1>3. LinesOfInterest(lines) \in [1 .. Len(lines) -> Nat]
  BY <1>1, <1>2 DEF LinesOfInterest
<1>4. LinesOfInterest(lines) \in Seq(Nat)
  BY <1>1, <1>3, SeqDef
<1>. QED
  BY <1>1, <1>2, <1>4 DEF LinesOfInterest, Elements

(* A section of the next file.                                             *)
LEMMA EmitKeeps ==
    ASSUME EInv, NEW raw, NEW marked, Emit(raw, marked),
           raw \in Seq(Nat), marked \in Seq(Nat),
           \/ raw = Current.raw
           \/ /\ raw = << >> /\ Current.changedLines # << >>
              /\ marked = LinesOfInterest(Current.changedLines)
    PROVE  EInv'
<1>. DEFINE new == [path |-> Current.path, raw |-> raw, marked |-> marked]
            n == Len(sections) + 1
<1>1. /\ pc = "annotate" /\ pc' = "annotate" /\ Len(sections) < Len(files)
      /\ UNCHANGED << diff, pos, lineNum, files >> /\ sections' = Append(sections, new)
  BY DEF Emit
<1>2. /\ sections \in Seq(Section) /\ Len(sections) \in Nat /\ Len(files) \in Nat
      /\ DOMAIN sections = 1 .. Len(sections) /\ n \in 1 .. Len(files) /\ Current = files[n]
  BY <1>1, LenProperties DEF EInv, TypeOK, Current
<1>3. Current \in File
  BY <1>2, ElementOfSeq DEF EInv, TypeOK
<1>4. new \in Section /\ SectionFrom(new, files[n])
  BY <1>2, <1>3 DEF Section, File, SectionFrom
<1>. HIDE DEF new
<1>5. /\ sections' \in Seq(Section) /\ Len(sections') = n /\ DOMAIN sections' = 1 .. n
      /\ sections'[n] = new
      /\ \A i \in 1 .. Len(sections) : sections'[i] = sections[i]
  BY <1>1, <1>2, <1>4
<1>6. TypeOK'
  BY <1>1, <1>2, <1>5 DEF EInv, TypeOK
<1>7. SectionsOK'
  <2>1. \A i \in 1 .. n : SectionFrom(sections'[i], files[i])
    <3>. SUFFICES ASSUME NEW i \in 1 .. n PROVE SectionFrom(sections'[i], files[i])
      OBVIOUS
    <3>1. CASE i = n
      BY <1>4, <1>5, <3>1
    <3>2. CASE i # n
      <4>1. i \in 1 .. Len(sections)
        BY <1>2, <3>2
      <4>. QED
        BY <1>2, <1>5, <4>1 DEF EInv, SectionsOK
    <3>. QED
      BY <3>1, <3>2
  <2>. QED
    BY <1>1, <1>5, <2>1 DEF SectionsOK
<1>. QED
  BY <1>1, <1>6, <1>7, ScanStays

LEMMA NextEnrichment == EInv /\ [Next]_vars => EInv'
<1>. SUFFICES ASSUME EInv, [Next]_vars PROVE EInv'
  OBVIOUS
<1>1. CASE ScanFile
  BY <1>1, ScanFileKeeps
<1>2. CASE ScanLine
  BY <1>2, ScanLineKeeps
<1>3. CASE ScanEnds
  <2>1. TypeOK' /\ SectionsOK'
    BY <1>3, EmptySeq DEF ScanEnds, EInv, TypeOK, SectionsOK
  <2>. QED
    BY <1>3, <2>1, ScanStays DEF ScanEnds
<1>4. ASSUME Len(sections) < Len(files)
      PROVE  /\ Current \in File
             /\ \A l \in Elements(Current.changedLines) : l > 0
  <2>1. Len(sections) + 1 \in 1 .. Len(files)
    BY <1>4, LenProperties DEF EInv, TypeOK
  <2>. QED
    BY <2>1, SeenFiles, ElementOfSeq DEF EInv, TypeOK, FilesOK, Current
<1>5. CASE Render
  <2>1. Current.changedLines \in Seq(Nat)
    BY <1>4, <1>5 DEF Render, File
  <2>2. LinesOfInterest(Current.changedLines) \in Seq(Nat)
    BY <1>4, <1>5, <2>1, Interesting DEF Render
  <2>. QED
    BY <1>5, <2>2, EmitKeeps, EmptySeq DEF Render
<1>6. CASE FallBack
  <2>1. Current.raw \in Seq(Nat)
    BY <1>4, <1>6 DEF FallBack, File
  <2>. QED
    BY <1>6, <2>1, EmitKeeps, EmptySeq DEF FallBack
<1>7. CASE Return
  <2>1. TypeOK' /\ SectionsOK'
    BY <1>7 DEF Return, EInv, TypeOK, SectionsOK
  <2>. QED
    BY <1>7, <2>1, ScanStays DEF Return
<1>8. CASE ReturnDiff
  <2>1. TypeOK' /\ SectionsOK'
    BY <1>8 DEF ReturnDiff, EInv, TypeOK, SectionsOK
  <2>. QED
    BY <1>8, <2>1, ScanStays DEF ReturnDiff
<1>9. CASE UNCHANGED vars
  <2>1. UNCHANGED << diff, pc, pos, lineNum, files, sections >>
    BY <1>9 DEF vars
  <2>2. TypeOK' /\ SectionsOK'
    BY <2>1 DEF EInv, TypeOK, SectionsOK
  <2>. QED
    BY <2>1, <2>2, ScanStays
<1>. QED
  BY <1>1, <1>2, <1>3, <1>5, <1>6, <1>7, <1>8, <1>9 DEF Next

-----------------------------------------------------------------------------
(* When the scanner has stopped, a part is reached if it was scanned to its*)
(* end; only the last one of those begun may not be.                       *)
LEMMA ReachedSeen ==
    ASSUME EInv, pc # "scan"
    PROVE  /\ Reached \subseteq SeenStarts
           /\ \A s \in Reached : PartOf(s) \subseteq 1 .. pos - 1
           /\ \A s \in SeenStarts : ~ Last(s) => s \in Reached
           /\ Overlong = {} => SeenStarts = Starts
<1>1. /\ diff \in Diffs /\ pos \in 1 .. Len(diff) + 1 /\ Len(diff) \in Nat
      /\ DOMAIN diff = 1 .. Len(diff) /\ \A i \in 1 .. pos - 1 : ~diff[i].long
      /\ pos > Len(diff) \/ pos \in Overlong
  BY SeenFiles, DiffLines DEF EInv, ScanOK, HasLine, Overlong
<1>2. ASSUME NEW s \in Reached PROVE s \in SeenStarts /\ PartOf(s) \subseteq 1 .. pos - 1
  <2>1. /\ s \in Starts /\ s \in PartOf(s) /\ s \in 1 .. Len(diff)
        /\ PartOf(s) \subseteq s .. Len(diff)
    BY <1>1, Parts DEF Reached
  <2>2. \A i \in PartOf(s) : i < pos
    BY <1>1, <2>1 DEF Reached
  <2>. QED
    BY <1>1, <2>1, <2>2 DEF SeenStarts
<1>3. ASSUME NEW s \in SeenStarts, ~ Last(s) PROVE s \in Reached
  <2>1. PICK t \in SeenStarts : ~ (t <= s)
    BY <1>3 DEF Last
  <2>2. s \in Starts /\ t \in Starts /\ s \in Nat /\ t \in Nat /\ s < t /\ t < pos
    BY <1>1, <2>1, NumberType DEF SeenStarts
  <2>3. ASSUME NEW o \in Overlong, NEW i \in PartOf(s) PROVE i < o
    <3>1. i < t /\ i \in Nat
      BY <1>1, <2>2, Parts
    <3>2. o \in 1 .. Len(diff) /\ ~ (o \in 1 .. pos - 1)
      BY <1>1 DEF Overlong
    <3>. QED
      BY <1>1, <2>2, <3>1, <3>2
  <2>. QED
    BY <2>2, <2>3 DEF Reached
<1>4. ASSUME Overlong = {} PROVE SeenStarts = Starts
  BY <1>1, <1>4, NumberType DEF SeenStarts
<1>. QED
  BY <1>2, <1>3, <1>4

(* The section of a part that was reached, and the file it is made from.   *)
LEMMA ReachedSection ==
    ASSUME EInv, pc = "done", NEW s \in Reached
    PROVE  /\ s \in SeenStarts /\ FileOf(s) \in File
           /\ SectionFrom(SectionOf(s), FileOf(s))
           /\ FileOf(s).raw = [i \in 1 .. Cardinality(PartOf(s)) |-> s + i - 1]
           /\ Cardinality(PartOf(s)) \in Nat \ {0}
<1>1. s \in SeenStarts /\ PartOf(s) \subseteq 1 .. pos - 1
  BY ReachedSeen
<1>2. Number(s) \in 1 .. Len(files) /\ DOMAIN sections = 1 .. Len(files)
  BY <1>1, SeenFiles, LenProperties DEF EInv, TypeOK, SectionsOK
<1>3. SectionFrom(SectionOf(s), FileOf(s)) /\ FileOf(s) \in File
  BY <1>2, ElementOfSeq DEF EInv, TypeOK, SectionsOK, SectionOf, FileOf
<1>. DEFINE n == Len(FileOf(s).raw)
<1>4. n \in Nat
  BY <1>3, LenProperties DEF File
<1>5. FileOf(s).raw = [i \in 1 .. n |-> s + i - 1] /\ PartOf(s) = s .. s + n - 1
  BY <1>1 DEF EInv, FilesOK, RawOK
<1>6. s \in PartOf(s) /\ s \in Nat
  BY <1>1, Parts, NumberType DEF EInv, SeenStarts
<1>. HIDE DEF n
<1>7. Cardinality(s .. s + n - 1) = n /\ n # 0
  <2>1. s \in Int /\ s + n - 1 \in Int /\ s <= s + n - 1
    BY <1>4, <1>5, <1>6
  <2>2. Cardinality(s .. s + n - 1) = (s + n - 1) - s + 1
    BY <2>1, FS_Interval
  <2>. QED
    BY <1>4, <1>6, <2>1, <2>2
<1>. QED
  BY <1>1, <1>3, <1>4, <1>5, <1>7

(* Every variable of the scan keeps its type: no number handed to grep-ast *)
(* is negative (parseHunkStart and the counter of parseDiffFiles).         *)
THEOREM TypeCorrect == Spec => []TypeOK
<1>1. EInv => TypeOK
  BY DEF EInv
<1>. QED
  BY <1>1, InitEnrichment, NextEnrichment, PTL DEF Spec

(* Every file whose part of the diff ends before the first overlong line   *)
(* has its section, whole and in its place, for every diff go-git writes,  *)
(* whichever files are rendered (parseDiffFiles, enrichDiff).              *)
THEOREM SectionsAreWhole == Spec => []SectionsWhole
<1>1. ASSUME EInv, pc = "unchanged" PROVE 1 \in Overlong
  <2>1. files = << >> /\ ~HasLine /\ pos \in 1 .. Len(diff) + 1
    BY <1>1 DEF EInv, TypeOK, SectionsOK, ScanOK
  <2>2. SeenStarts = {}
    BY <1>1, <2>1, SeenFiles, FS_EmptySet DEF EInv, FilesOK
  <2>3. pos = 1 /\ Len(diff) \in Nat \ {0} /\ DOMAIN diff = 1 .. Len(diff)
    BY <1>1, <2>1, <2>2, DiffLines DEF EInv, FilesOK
  <2>. QED
    BY <2>1, <2>3 DEF HasLine, Overlong
<1>2. ASSUME EInv, pc = "done" PROVE SectionsWhole
  <2>. USE <1>2
  <2>0. 1 \notin Overlong
    <3>1. files # << >> /\ pos \in 1 .. Len(diff) + 1 /\ \A i \in 1 .. pos - 1 : ~diff[i].long
      BY DEF EInv, TypeOK, SectionsOK, ScanOK
    <3>2. SeenStarts # {}
      BY <3>1, FS_EmptySet, EmptySeq DEF EInv, TypeOK, FilesOK
    <3>3. pos > 1
      BY <3>1, <3>2, NumberType DEF EInv, SeenStarts
    <3>. QED
      BY <3>1, <3>3, DiffLines DEF EInv, Overlong
  <2>1. /\ Len(sections) = Cardinality(SeenStarts) /\ IsFiniteSet(SeenStarts)
        /\ Reached \in SUBSET SeenStarts
    BY SeenFiles, ReachedSeen DEF EInv, FilesOK, SectionsOK
  <2>2. Cardinality(SeenStarts) \in Nat /\ Cardinality(Reached) \in Nat
    BY <2>1, FS_Subset, FS_CardinalityType
  <2>3. Cardinality(SeenStarts) \in Cardinality(Reached) .. Cardinality(Reached) + 1
    <3>1. CASE \E s \in SeenStarts : Last(s)
      <4>1. PICK s \in SeenStarts : Last(s)
        BY <3>1
      <4>2. SeenStarts \ {s} \subseteq Reached
        <5>. SUFFICES ASSUME NEW t \in SeenStarts, t # s PROVE ~ Last(t)
          BY ReachedSeen
        <5>. QED
          BY <4>1, NumberType DEF Last, SeenStarts, EInv
      <4>3. IsFiniteSet(Reached) /\ SeenStarts \ {s} \in SUBSET Reached
        BY <2>1, <4>2, FS_Subset
      <4>4. Cardinality(SeenStarts \ {s}) = Cardinality(SeenStarts) - 1
        BY <2>1, FS_RemoveElement
      <4>5. Cardinality(SeenStarts \ {s}) <= Cardinality(Reached)
        BY <4>3, FS_Subset
      <4>6. Cardinality(Reached) <= Cardinality(SeenStarts)
        BY <2>1, FS_Subset
      <4>. QED
        BY <2>2, <4>4, <4>5, <4>6
    <3>2. CASE ~ \E s \in SeenStarts : Last(s)
      <4>1. SeenStarts \subseteq Reached
        BY <3>2, ReachedSeen
      <4>2. SeenStarts = Reached
        BY <2>1, <4>1
      <4>. QED
        BY <2>2, <4>2
    <3>. QED
      BY <3>1, <3>2
  <2>4. Overlong = {} => Len(sections) = Cardinality(Starts)
    BY <2>1, ReachedSeen
  <2>5. ASSUME NEW s \in Reached
        PROVE  /\ SectionOf(s).path = diff[s].path
               /\ \/ SectionOf(s).raw = << >> /\ SectionOf(s).marked # << >>
                  \/ SectionOf(s).raw = [i \in 1 .. Cardinality(PartOf(s)) |-> s + i - 1]
    <3>1. /\ s \in SeenStarts /\ FileOf(s) \in File
          /\ SectionFrom(SectionOf(s), FileOf(s))
          /\ FileOf(s).raw = [i \in 1 .. Cardinality(PartOf(s)) |-> s + i - 1]
      BY ReachedSection
    <3>2. FileOf(s).path = diff[s].path
      BY <3>1 DEF EInv, FilesOK, RawOK
    <3>3. FileOf(s).changedLines # << >> => LinesOfInterest(FileOf(s).changedLines) # << >>
      <4>1. FileOf(s).changedLines \in Seq(Nat)
        BY <3>1 DEF File
      <4>. QED
        BY <4>1 DEF LinesOfInterest
    <3>. QED
      BY <3>1, <3>2, <3>3 DEF SectionFrom
  <2>6. Len(sections) \in Cardinality(Reached) .. Cardinality(Reached) + 1
    BY <2>1, <2>3
  <2>7. pc # "unchanged"
    OBVIOUS
  <2>. QED
    BY ONLY <1>2, <2>0, <2>4, <2>5, <2>6, <2>7 DEF SectionsWhole
<1>3. EInv => SectionsWhole
  BY <1>1, <1>2 DEF SectionsWhole
<1>. QED
  BY <1>3, InitEnrichment, NextEnrichment, PTL DEF Spec

(* A rendering marks the added lines of its file, all of them and no other,*)
(* by their numbers in the new file, wherever the diff is plain: for any   *)
(* number of hunks and files (the counter of parseDiffFiles).              *)
THEOREM MarksAreExact == Spec => []MarksExact
<1>1. EInv => MarksExact
  <2>. SUFFICES ASSUME EInv, pc = "done", NEW s \in Reached, Plain(s),
                       SectionOf(s).raw = << >>
                PROVE  {SectionOf(s).marked[i] + 1 : i \in DOMAIN SectionOf(s).marked} =
                         {NumberInNew(i) : i \in {j \in PartOf(s) : diff[j].kind = "added"}}
    BY DEF MarksExact
  <2>1. /\ s \in SeenStarts /\ FileOf(s) \in File
        /\ SectionFrom(SectionOf(s), FileOf(s))
        /\ FileOf(s).raw = [i \in 1 .. Cardinality(PartOf(s)) |-> s + i - 1]
        /\ Cardinality(PartOf(s)) \in Nat \ {0}
    BY ReachedSection
  <2>2. FileOf(s).raw # << >>
    BY <2>1
  <2>3. SectionOf(s).marked = LinesOfInterest(FileOf(s).changedLines)
    BY <2>1, <2>2 DEF SectionFrom
  <2>4. /\ FileOf(s).changedLines \in Seq(Nat)
        /\ \A l \in Elements(FileOf(s).changedLines) : l > 0
    BY <2>1, SeenFiles DEF File, FileOf, EInv, FilesOK
  <2>5. {SectionOf(s).marked[i] + 1 : i \in DOMAIN SectionOf(s).marked} =
          Elements(FileOf(s).changedLines)
    BY <2>3, <2>4, Interesting
  <2>6. Elements(FileOf(s).changedLines) = {NumberInNew(i) : i \in AddedIn(s)}
    BY <2>1 DEF EInv, FilesOK, ChangedOK
  <2>7. AddedIn(s) = {j \in PartOf(s) : diff[j].kind = "added"}
    BY ReachedSeen, SeenFiles DEF AddedIn
  <2>. QED
    BY <2>5, <2>6, <2>7
<1>. QED
  BY <1>1, InitEnrichment, NextEnrichment, PTL DEF Spec
=============================================================================
