----------------------------- MODULE Watermarks -----------------------------
(***************************************************************************)
(* The sidecar file of package watermarks (src/watermarks/watermarks.go):  *)
(* a sequence of records, one per document, in the order of the file.      *)
(* A watermark is the commit a document was last generated against; commits*)
(* are numbered from 1 and NoMark is the empty generated_at of the code.   *)
(* The module has no state: the file itself is part of a tree, and every   *)
(* operation is Load, a change in memory, and Save.                        *)
(***************************************************************************)
EXTENDS Naturals, Sequences

CONSTANTS
    Doc,        \* the paths of the manifest's documents
    Nil         \* absence: of a file, of a sidecar, of a text

NoMark == 0

Mark == Nat

Record == [path : Doc, mark : Mark]

(* A File of the code; the contents of a sidecar are its records.          *)
Records == Seq(Record)

(* Load: a missing file, and an empty one, is a File without records.      *)
Load(contents) == IF contents = Nil THEN << >> ELSE contents

HasRecord(recs, d) == \E i \in DOMAIN recs : recs[i].path = d

(* The record both loops stop at: the first one of the document.           *)
IsFirst(recs, d, i) ==
    /\ recs[i].path = d
    /\ \A j \in DOMAIN recs : recs[j].path = d => i <= j

FirstRecord(recs, d) == CHOOSE i \in DOMAIN recs : IsFirst(recs, d, i)

(* Lookup; its second result, ok, is HasRecord.                            *)
Lookup(recs, d) ==
    IF HasRecord(recs, d) THEN recs[FirstRecord(recs, d)].mark ELSE NoMark

(* Upsert: a known document keeps its position, a new one is appended.     *)
Upsert(recs, d, m) ==
    IF HasRecord(recs, d)
    THEN [recs EXCEPT ![FirstRecord(recs, d)].mark = m]
    ELSE Append(recs, [path |-> d, mark |-> m])
=============================================================================
