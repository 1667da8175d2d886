-------------------------- MODULE CodeSearchProofs --------------------------
(***************************************************************************)
(* What a search reports is complete and counted, for every set of files,  *)
(* walk, limit and timing of the parsers.                                  *)
(***************************************************************************)
EXTENDS CodeSearch, FiniteSetTheorems, SequenceTheorems, TLAPS

Running == pc \notin {"done", "rejected"}

Found == UNION {Range(HitsOf(f)) : f \in scanned}

Distinct(seq) == \A i, j \in DOMAIN seq : seq[i] = seq[j] => i = j

(* Until the cut, the hits are those of the files scanned, each once.      *)
Collected == Running => Range(hits) = Found /\ Distinct(hits) /\ truncated = FALSE

(* The search begins at the first file, and a file is being read or parsed *)
(* only while there is one at the position.                                *)
AtFile ==
    /\ pc = "request" => pos = 1
    /\ pc \in {"read", "wait"} => pos \in 1 .. Len(Walk)

IInv == TypeOK /\ AtFile /\ FilesCounted /\ Collected /\ HitsComplete

-----------------------------------------------------------------------------
(* The hits of a file are hits, each once, and of no other file.           *)
LEMMA HitsOfFile ==
    ASSUME NEW f \in File
    PROVE  /\ HitsOf(f) \in Seq(Hit) /\ Distinct(HitsOf(f))
           /\ \A h \in Range(HitsOf(f)) : h.file = f
<1>1. Matches[f] \in Seq(Nat)
  BY CodeSearchAssumption
<1>2. /\ Len(Matches[f]) \in Nat /\ DOMAIN Matches[f] = 1 .. Len(Matches[f])
      /\ \A n \in 1 .. Len(Matches[f]) : Matches[f][n] \in Nat
  BY <1>1, LenProperties, ElementOfSeq
<1>3. /\ DOMAIN HitsOf(f) = 1 .. Len(Matches[f])
      /\ \A n \in DOMAIN HitsOf(f) :
            HitsOf(f)[n] = [file |-> f, line |-> Matches[f][n], nth |-> n]
  BY <1>2 DEF HitsOf
<1>4. ASSUME NEW n \in 1 .. Len(Matches[f]) PROVE HitsOf(f)[n] \in Hit
  <2>1. HitsOf(f)[n] = [file |-> f, line |-> Matches[f][n], nth |-> n]
    BY <1>3
  <2>2. n \in Nat /\ Matches[f][n] \in Nat
    BY <1>2
  <2>. QED
    BY <2>1, <2>2 DEF Hit
<1>5. HitsOf(f) \in [1 .. Len(Matches[f]) -> Hit]
  BY <1>2, <1>4 DEF HitsOf
<1>6. HitsOf(f) \in Seq(Hit)
  BY <1>2, <1>5, SeqDef
<1>7. ASSUME NEW n \in DOMAIN HitsOf(f)
      PROVE  HitsOf(f)[n].nth = n /\ HitsOf(f)[n].file = f
  <2>1. HitsOf(f)[n] = [file |-> f, line |-> Matches[f][n], nth |-> n]
    BY <1>3
  <2>. QED
    BY <2>1
<1>8. Distinct(HitsOf(f))
  BY <1>7 DEF Distinct
<1>9. \A h \in Range(HitsOf(f)) : h.file = f
  BY <1>7 DEF Range
<1>. QED
  BY <1>6, <1>8, <1>9

(* The file at a position of the walk was not seen before it.              *)
LEMMA CurrentIsNew ==
    ASSUME TypeOK, FilesCounted, pos \in 1 .. Len(Walk)
    PROVE  /\ Current \in File
           /\ Current \notin scanned \cup skipped
           /\ {Walk[i] : i \in 1 .. pos} = {Walk[i] : i \in 1 .. pos - 1} \cup {Current}
<1>1. Len(Walk) \in Nat /\ DOMAIN Walk = 1 .. Len(Walk)
  BY CodeSearchAssumption, LenProperties
<1>2. Current \in File
  BY CodeSearchAssumption, ElementOfSeq DEF Current
<1>3. ASSUME NEW i \in 1 .. pos - 1 PROVE Walk[i] # Walk[pos]
  <2>1. \A j, k \in 1 .. Len(Walk) : Walk[j] = Walk[k] => j = k
    BY <1>1, CodeSearchAssumption
  <2>2. i \in 1 .. Len(Walk) /\ i # pos
    BY <1>1
  <2>. QED
    BY <2>1, <2>2
<1>4. Current \notin {Walk[i] : i \in 1 .. pos - 1}
  BY <1>3 DEF Current
<1>5. \A i : i \in 1 .. pos <=> i \in 1 .. pos - 1 \/ i = pos
  BY <1>1
<1>. QED
  BY <1>2, <1>4, <1>5 DEF FilesCounted, Current

-----------------------------------------------------------------------------
(* The invariant holds for every request.                                  *)
LEMMA InitInv == Init => IInv
<1>. SUFFICES ASSUME Init PROVE IInv
  OBVIOUS
<1>1. Len(Walk) \in Nat
  BY CodeSearchAssumption, LenProperties
<1>2. hits \in Seq(Hit) /\ DOMAIN hits = {}
  BY EmptySeq DEF Init
<1>3. TypeOK
  <2>1. limit \in Int /\ pos \in 1 .. Len(Walk) + 1
    BY <1>1, CodeSearchAssumption DEF Init
  <2>. QED
    BY <1>2, <2>1 DEF Init, TypeOK
<1>4. Range(hits) = {} /\ Distinct(hits) /\ Found = {}
  BY <1>2 DEF Range, Distinct, Found, Init
<1>5. FilesCounted
  BY DEF Init, FilesCounted
<1>. QED
  BY <1>3, <1>4, <1>5 DEF Init, IInv, AtFile, Collected, HitsComplete

(* The step to the next file counts one file more, the current one.        *)
LEMMA NextFileCounts ==
    ASSUME IInv, pc \in {"read", "wait"}, NextFile,
           \/ scanned' = scanned /\ skipped' = skipped \cup {Current}
           \/ scanned' = scanned \cup {Current} /\ skipped' = skipped
    PROVE  /\ FilesCounted' /\ AtFile'
           /\ pos' \in 1 .. Len(Walk) + 1 /\ pc' \in {"read", "sort"}
           /\ scanned' \subseteq File /\ skipped' \subseteq File
<1>1. pos \in 1 .. Len(Walk) /\ Len(Walk) \in Nat
  BY CodeSearchAssumption, LenProperties DEF IInv, AtFile
<1>2. pos' = pos + 1 /\ pos' - 1 = pos /\ pc' = IF pos = Len(Walk) THEN "sort" ELSE "read"
  BY <1>1 DEF NextFile
<1>3. /\ Current \in File /\ Current \notin scanned \cup skipped
      /\ {Walk[i] : i \in 1 .. pos} = scanned \cup skipped \cup {Current}
      /\ scanned \cap skipped = {}
  BY <1>1, CurrentIsNew DEF IInv, FilesCounted
<1>4. FilesCounted'
  BY <1>2, <1>3 DEF FilesCounted
<1>5. AtFile' /\ pos' \in 1 .. Len(Walk) + 1
  BY <1>1, <1>2 DEF AtFile
<1>. QED
  BY <1>2, <1>3, <1>4, <1>5 DEF IInv, TypeOK

(* A request is taken, or refused.                                         *)
LEMMA AcceptInv == IInv /\ (Reject \/ Accept) => IInv'
<1>. SUFFICES ASSUME IInv, Reject \/ Accept PROVE IInv'
  OBVIOUS
<1>1. UNCHANGED << pos, parser, channel, hits, scanned, skipped, truncated >> /\ pc = "request"
  BY DEF Reject, Accept
<1>2. pc' \in {"sort", "read", "rejected"} /\ (pc' = "read" => Walk # << >>)
  BY DEF Reject, Accept
<1>3. TypeOK'
  BY <1>1, <1>2, CodeSearchAssumption DEF IInv, TypeOK, Reject, Accept
<1>4. FilesCounted' /\ Found' = Found
  BY <1>1 DEF IInv, FilesCounted, Found
<1>5. AtFile'
  <2>1. pos = 1 /\ pc' # "request" /\ pc' # "wait"
    BY <1>1, <1>2 DEF IInv, AtFile
  <2>2. pc' = "read" => Len(Walk) \in Nat \ {0}
    BY <1>2, CodeSearchAssumption, EmptySeq
  <2>. QED
    BY <1>1, <2>1, <2>2 DEF AtFile
<1>6. Collected'
  BY <1>1, <1>4 DEF IInv, Collected, Running, Range, Distinct
<1>. QED
  BY <1>2, <1>3, <1>4, <1>5, <1>6 DEF IInv, HitsComplete

(* A file that is skipped leaves the hits alone.                           *)
LEMMA SkipInv == IInv /\ (SkipUnreadable \/ Timeout) => IInv'
<1>. SUFFICES ASSUME IInv, SkipUnreadable \/ Timeout PROVE IInv'
  OBVIOUS
<1>1. /\ pc \in {"read", "wait"} /\ NextFile /\ skipped' = skipped \cup {Current}
      /\ UNCHANGED << limit, parser, channel, hits, scanned, truncated >>
  BY DEF SkipUnreadable, Timeout
<1>2. /\ FilesCounted' /\ AtFile'
      /\ pos' \in 1 .. Len(Walk) + 1 /\ pc' \in {"read", "sort"}
      /\ scanned' \subseteq File /\ skipped' \subseteq File
  BY <1>1, NextFileCounts
<1>3. TypeOK'
  BY <1>1, <1>2 DEF IInv, TypeOK
<1>4. Collected'
  BY <1>1, <1>2 DEF IInv, Collected, Running, Range, Distinct, Found
<1>. QED
  BY <1>2, <1>3, <1>4 DEF IInv, HitsComplete

(* Goroutines change their own state and their channel's.                  *)
LEMMA ParserInv ==
    IInv /\ (StartParser \/ \E f \in File : Parsed(f) \/ Send(f)) => IInv'
<1>. SUFFICES ASSUME IInv, StartParser \/ \E f \in File : Parsed(f) \/ Send(f) PROVE IInv'
  OBVIOUS
<1>1. /\ UNCHANGED << limit, pos, hits, scanned, skipped, truncated >>
      /\ pc' = pc \/ (pc = "read" /\ pc' = "wait")
  BY DEF StartParser, Parsed, Send
<1>2. TypeOK'
  <2>1. CASE StartParser
    BY <1>1, <2>1 DEF IInv, TypeOK, StartParser
  <2>2. CASE \E f \in File : Parsed(f)
    BY <1>1, <2>2 DEF IInv, TypeOK, Parsed
  <2>3. CASE \E f \in File : Send(f)
    BY <1>1, <2>3 DEF IInv, TypeOK, Send
  <2>. QED
    BY <2>1, <2>2, <2>3
<1>3. AtFile' /\ FilesCounted'
  BY <1>1 DEF IInv, AtFile, FilesCounted
<1>4. Collected'
  BY <1>1 DEF IInv, Collected, Running, Range, Distinct, Found
<1>5. HitsComplete'
  <2>1. pc' = "done" => pc = "done"
    BY <1>1
  <2>. QED
    BY <1>1, <2>1 DEF IInv, HitsComplete, Before
<1>. QED
  BY <1>2, <1>3, <1>4, <1>5 DEF IInv

(* Appending the hits of a file not seen before keeps hits distinct.       *)
LEMMA DistinctConcat ==
    ASSUME NEW s \in Seq(Hit), NEW t \in Seq(Hit), Distinct(s), Distinct(t),
           Range(s) \cap Range(t) = {}
    PROVE  Distinct(s \o t) /\ Range(s \o t) = Range(s) \cup Range(t)
<1>1. /\ Len(s) \in Nat /\ Len(t) \in Nat
      /\ DOMAIN s = 1 .. Len(s) /\ DOMAIN t = 1 .. Len(t)
  BY LenProperties
<1>2. /\ DOMAIN (s \o t) = 1 .. Len(s) + Len(t)
      /\ \A i \in 1 .. Len(s) + Len(t) :
            (s \o t)[i] = IF i <= Len(s) THEN s[i] ELSE t[i - Len(s)]
  BY ConcatProperties, LenProperties
<1>3. \A i \in 1 .. Len(s) + Len(t) : i <= Len(s) \/ i - Len(s) \in 1 .. Len(t)
  BY <1>1
<1>4. \A i \in DOMAIN s, j \in DOMAIN t : s[i] # t[j]
  BY DEF Range
<1>5. ASSUME NEW i \in DOMAIN (s \o t), NEW j \in DOMAIN (s \o t), (s \o t)[i] = (s \o t)[j]
      PROVE  i = j
  <2>1. CASE i <= Len(s) /\ j <= Len(s)
    BY <1>1, <1>2, <1>5, <2>1 DEF Distinct
  <2>2. CASE i > Len(s) /\ j > Len(s)
    BY <1>1, <1>2, <1>3, <1>5, <2>2 DEF Distinct
  <2>3. CASE i <= Len(s) /\ j > Len(s)
    BY <1>1, <1>2, <1>3, <1>4, <1>5, <2>3
  <2>4. CASE i > Len(s) /\ j <= Len(s)
    BY <1>1, <1>2, <1>3, <1>4, <1>5, <2>4
  <2>. QED
    BY <1>1, <1>2, <2>1, <2>2, <2>3, <2>4
<1>6. ASSUME NEW h \in Range(s) \cup Range(t) PROVE h \in Range(s \o t)
  <2>1. CASE h \in Range(s)
    <3>1. PICK i \in 1 .. Len(s) : s[i] = h
      BY <1>1, <2>1 DEF Range
    <3>2. i \in DOMAIN (s \o t) /\ (s \o t)[i] = h
      BY <1>1, <1>2, <3>1
    <3>. QED
      BY <3>2 DEF Range
  <2>2. CASE h \in Range(t)
    <3>1. PICK i \in 1 .. Len(t) : t[i] = h
      BY <1>1, <2>2 DEF Range
    <3>2. i + Len(s) \in DOMAIN (s \o t) /\ (s \o t)[i + Len(s)] = h
      BY <1>1, <1>2, <3>1
    <3>. QED
      BY <3>2 DEF Range
  <2>. QED
    BY <2>1, <2>2
<1>7. ASSUME NEW h \in Range(s \o t) PROVE h \in Range(s) \cup Range(t)
  <2>1. PICK i \in 1 .. Len(s) + Len(t) : (s \o t)[i] = h
    BY <1>2 DEF Range
  <2>. QED
    BY <1>1, <1>2, <1>3, <2>1 DEF Range
<1>. QED
  BY <1>5, <1>6, <1>7 DEF Distinct

(* A tree that came in time: the file's hits are taken, unless it does not *)
(* parse.                                                                  *)
LEMMA ReceiveInv == IInv /\ ReceiveTree => IInv'
<1>. SUFFICES ASSUME IInv, ReceiveTree PROVE IInv'
  OBVIOUS
<1>1. /\ pc = "wait" /\ NextFile /\ UNCHANGED << limit, parser, truncated >>
      /\ channel' = [channel EXCEPT ![Current] = "empty"]
  BY DEF ReceiveTree
<1>2. \/ scanned' = scanned /\ skipped' = skipped \cup {Current} /\ hits' = hits
      \/ /\ scanned' = scanned \cup {Current} /\ skipped' = skipped
         /\ hits' = hits \o HitsOf(Current)
  BY DEF ReceiveTree
<1>3. /\ FilesCounted' /\ AtFile'
      /\ pos' \in 1 .. Len(Walk) + 1 /\ pc' \in {"read", "sort"}
      /\ scanned' \subseteq File /\ skipped' \subseteq File
  BY <1>1, <1>2, NextFileCounts
<1>4. Current \in File /\ Current \notin scanned
  BY <1>1, CurrentIsNew DEF IInv, AtFile
<1>5. /\ hits \in Seq(Hit) /\ HitsOf(Current) \in Seq(Hit)
      /\ Distinct(hits) /\ Distinct(HitsOf(Current)) /\ Range(hits) = Found
  BY <1>1, <1>4, HitsOfFile DEF IInv, TypeOK, Collected, Running
<1>6. Range(hits) \cap Range(HitsOf(Current)) = {}
  <2>1. \A f \in scanned : \A h \in Range(HitsOf(f)) : h.file \in scanned
    BY HitsOfFile DEF IInv, TypeOK
  <2>2. \A h \in Range(hits) : h.file \in scanned
    BY <1>5, <2>1 DEF Found
  <2>3. \A h \in Range(HitsOf(Current)) : h.file = Current
    BY <1>4, HitsOfFile
  <2>. QED
    BY <1>4, <2>2, <2>3
<1>7. hits' \in Seq(Hit) /\ Distinct(hits') /\ Range(hits') = Found'
  <2>1. CASE scanned' = scanned /\ hits' = hits
    <3>1. Found' = Found
      BY <2>1 DEF Found
    <3>. QED
      BY <1>5, <2>1, <3>1
  <2>2. CASE scanned' = scanned \cup {Current} /\ hits' = hits \o HitsOf(Current)
    <3>1. Found' = Found \cup Range(HitsOf(Current))
      BY <2>2 DEF Found
    <3>. QED
      BY <1>5, <1>6, <2>2, <3>1, DistinctConcat, ConcatProperties
  <2>. QED
    BY <1>2, <2>1, <2>2
<1>8. TypeOK'
  BY <1>1, <1>3, <1>7 DEF IInv, TypeOK
<1>9. Collected'
  BY <1>1, <1>7 DEF IInv, Collected, Running
<1>. QED
  BY <1>3, <1>8, <1>9 DEF IInv, HitsComplete

(* A rearrangement of distinct hits that has them all has each once.       *)
LEMMA SortedDistinct ==
    ASSUME NEW s \in Seq(Hit), Distinct(s),
           NEW all \in [DOMAIN s -> Range(s)], Range(all) = Range(s)
    PROVE  Distinct(all) /\ all \in Seq(Hit) /\ Len(all) = Len(s)
<1>1. Len(s) \in Nat /\ DOMAIN s = 1 .. Len(s) /\ s \in [1 .. Len(s) -> Hit]
  BY LenProperties
<1>2. IsFiniteSet(DOMAIN s)
  <2>1. IsFiniteSet(1 .. Len(s))
    <3>1. 1 \in Int /\ Len(s) \in Int
      BY <1>1
    <3>. QED
      BY <3>1, FS_Interval, Zenon
  <2>. QED
    BY <1>1, <2>1
<1>3. s \in Bijection(DOMAIN s, Range(s))
  BY <1>1 DEF Bijection, Injection, IsInjective, Surjection, Range, Distinct
<1>4. Cardinality(Range(s)) = Cardinality(DOMAIN s)
  BY <1>2, <1>3, FS_Bijection DEF ExistsBijection
<1>5. all \in Surjection(DOMAIN s, Range(s))
  BY DEF Surjection, Range
<1>6. all \in Injection(DOMAIN s, Range(s))
  BY <1>2, <1>4, <1>5, FS_SurjSameCardinalityImpliesInj
<1>7. Distinct(all)
  BY <1>6 DEF Injection, IsInjective, Distinct
<1>8. Range(s) \subseteq Hit
  BY <1>1 DEF Range
<1>9. all \in [1 .. Len(s) -> Hit]
  BY <1>1, <1>8
<1>. QED
  BY <1>1, <1>7, <1>9, SeqDef

(* A number of distinct hits is the number of their places.                *)
LEMMA DistinctCount ==
    ASSUME NEW s \in Seq(Hit), Distinct(s)
    PROVE  Cardinality(Range(s)) = Len(s)
<1>1. Len(s) \in Nat /\ DOMAIN s = 1 .. Len(s) /\ s \in [1 .. Len(s) -> Hit]
  BY LenProperties
<1>2. IsFiniteSet(1 .. Len(s)) /\ Cardinality(1 .. Len(s)) = Len(s)
  BY <1>1, FS_Interval
<1>3. s \in Bijection(1 .. Len(s), Range(s))
  BY <1>1 DEF Bijection, Injection, IsInjective, Surjection, Range, Distinct
<1>. QED
  BY <1>2, <1>3, FS_Bijection DEF ExistsBijection

(* The cut of the sorted hits is the answer HitsComplete promises.         *)
LEMMA SortInv == IInv /\ SortAndCut => IInv'
<1>. SUFFICES ASSUME IInv, SortAndCut PROVE IInv'
  OBVIOUS
<1>1. /\ pc = "sort" /\ pc' = "done" /\ truncated' = (Len(hits) > limit)
      /\ UNCHANGED << limit, pos, parser, channel, scanned, skipped >>
  BY DEF SortAndCut
<1>2. PICK all \in [DOMAIN hits -> Range(hits)] :
         Sorted(hits, all) /\ hits' = SubSeq(all, 1, Kept)
  BY DEF SortAndCut
<1>3. /\ hits \in Seq(Hit) /\ Distinct(hits) /\ Range(hits) = Found /\ Len(hits) \in Nat
      /\ limit \in Nat \ {0}
  BY <1>1, LenProperties DEF IInv, TypeOK, Collected, Running
<1>4. /\ Range(all) = Found
      /\ \A i, j \in DOMAIN all : i < j => ~Before(all[j], all[i])
  BY <1>2, <1>3, Zenon DEF Sorted
<1>5. all \in Seq(Hit) /\ Distinct(all) /\ Len(all) = Len(hits)
  BY <1>3, <1>4, SortedDistinct
<1>6. DOMAIN all = 1 .. Len(hits)
  BY <1>5, LenProperties
<1>7. Kept \in 0 .. Len(hits) /\ Kept = IF Len(hits) > limit THEN limit ELSE Len(hits)
  BY <1>3 DEF Kept
<1>8. /\ hits' \in Seq(Hit) /\ Len(hits') = Kept
      /\ \A i \in 1 .. Kept : hits'[i] = all[i]
  <2>1. \A i \in 1 .. Kept : all[i] \in Hit
    BY <1>3, <1>5, <1>7, ElementOfSeq
  <2>2. /\ SubSeq(all, 1, Kept) \in Seq(Hit)
        /\ Len(SubSeq(all, 1, Kept)) = IF 1 <= Kept THEN Kept - 1 + 1 ELSE 0
        /\ \A i \in 1 .. Kept - 1 + 1 : SubSeq(all, 1, Kept)[i] = all[1 + i - 1]
    BY <1>7, <2>1, SubSeqProperties
  <2>. QED
    BY <1>2, <1>7, <2>2
<1>9. DOMAIN hits' = 1 .. Kept
  BY <1>8, LenProperties
<1>10. Distinct(hits')
  <2>1. ASSUME NEW i \in 1 .. Kept, NEW j \in 1 .. Kept, hits'[i] = hits'[j]
        PROVE  i = j
    <3>1. all[i] = all[j] /\ i \in DOMAIN all /\ j \in DOMAIN all
      BY <1>6, <1>7, <1>8, <2>1
    <3>. QED
      BY <1>5, <3>1 DEF Distinct
  <2>. QED
    BY <1>9, <2>1 DEF Distinct
<1>11. Range(hits') \subseteq Found
  BY <1>4, <1>6, <1>7, <1>8, <1>9 DEF Range
<1>12. \A i, j \in DOMAIN hits' : i < j => ~Before(hits'[j], hits'[i])
  BY <1>4, <1>6, <1>7, <1>8, <1>9
<1>13. ASSUME NEW h \in Found, h \notin Range(hits'), NEW g \in Range(hits')
       PROVE  ~Before(h, g)
  <2>1. PICK k \in 1 .. Len(hits) : all[k] = h
    BY <1>4, <1>6 DEF Range
  <2>2. PICK i \in 1 .. Kept : all[i] = g
    BY <1>8, <1>9 DEF Range
  <2>3. k > Kept
    <3>1. ASSUME k \in 1 .. Kept PROVE FALSE
      <4>1. k \in DOMAIN hits' /\ hits'[k] = h
        BY <1>8, <1>9, <2>1, <3>1
      <4>. QED
        BY <1>13, <4>1 DEF Range
    <3>. QED
      BY <1>7, <2>1, <3>1
  <2>4. i \in DOMAIN all /\ k \in DOMAIN all /\ i < k
    BY <1>6, <1>7, <2>3
  <2>. QED
    BY <1>4, <2>1, <2>2, <2>4
<1>14. truncated' = (Range(hits') # Found)
  <2>1. CASE Len(hits) > limit
    <3>1. Len(hits) \in DOMAIN all /\ Kept < Len(hits)
      BY <1>3, <1>6, <1>7, <2>1
    <3>2. all[Len(hits)] \in Found
      BY <1>4, <3>1 DEF Range
    <3>3. ASSUME NEW i \in 1 .. Kept PROVE hits'[i] # all[Len(hits)]
      <4>1. i \in DOMAIN all /\ i # Len(hits) /\ hits'[i] = all[i]
        BY <1>3, <1>6, <1>7, <1>8, <3>1
      <4>. QED
        BY <1>5, <3>1, <4>1 DEF Distinct
    <3>4. all[Len(hits)] \notin Range(hits')
      BY <1>9, <3>3 DEF Range
    <3>5. truncated' = TRUE
      BY <1>1, <2>1, Zenon
    <3>6. Range(hits') # Found
      BY <3>2, <3>4
    <3>. QED
      BY <3>5, <3>6, Zenon
  <2>2. CASE ~(Len(hits) > limit)
    <3>1. Range(hits') = Found
      BY <1>4, <1>6, <1>7, <1>8, <1>9, <2>2 DEF Range
    <3>2. truncated' = FALSE
      <4>1. (Len(hits) > limit) = FALSE
        BY <1>3, <2>2
      <4>. QED
        BY <1>1, <4>1, Zenon
    <3>. QED
      BY <3>1, <3>2, Zenon
  <2>. QED
    BY <2>1, <2>2
<1>15. truncated' => Len(hits') = limit'
  BY <1>1, <1>3, <1>7, <1>8
<1>16. Cardinality(Range(hits')) = Len(hits')
  BY <1>8, <1>10, DistinctCount
<1>17. Found' = Found /\ \A a, b : Before(a, b)' <=> Before(a, b)
  BY <1>1 DEF Found, Before
<1>18. HitsComplete'
  BY <1>1, <1>11, <1>12, <1>13, <1>14, <1>15, <1>16, <1>17 DEF HitsComplete, Found
<1>19. TypeOK'
  BY <1>1, <1>8 DEF IInv, TypeOK
<1>. QED
  BY <1>1, <1>18, <1>19 DEF IInv, AtFile, FilesCounted, Collected, Running

(* A step that changes nothing.                                            *)
LEMMA StutterInv == IInv /\ UNCHANGED vars => IInv'
<1>. SUFFICES ASSUME IInv, UNCHANGED vars PROVE IInv'
  OBVIOUS
<1>1. TypeOK' /\ AtFile' /\ FilesCounted'
  BY DEF vars, IInv, TypeOK, AtFile, FilesCounted
<1>2. Collected'
  BY DEF vars, IInv, Collected, Running, Range, Distinct, Found
<1>3. HitsComplete'
  BY DEF vars, IInv, HitsComplete, Before
<1>. QED
  BY <1>1, <1>2, <1>3 DEF IInv

(* The invariant is inductive.                                             *)
LEMMA NextInv == IInv /\ [Next]_vars => IInv'
BY AcceptInv, SkipInv, ParserInv, ReceiveInv, SortInv, StutterInv, Zenon
   DEF Next, Search, Goroutine

-----------------------------------------------------------------------------
(* The invariant holds throughout.                                         *)
LEMMA Invariant == Spec => []IInv
BY InitInv, NextInv, PTL DEF Spec

(* Every variable keeps its type, for any walk, limit and timing.          *)
THEOREM TypeCorrect == Spec => []TypeOK
<1>1. IInv => TypeOK
  BY DEF IInv
<1>. QED
  BY <1>1, Invariant, PTL

(* Every file listed is counted once, scanned or skipped, whichever case of*)
(* the select is taken (Search and parseGoFile).                           *)
THEOREM FilesAreCounted == Spec => []FilesCounted
<1>1. IInv => FilesCounted
  BY DEF IInv
<1>. QED
  BY <1>1, Invariant, PTL

(* The answer is the first hits, in order, of the files counted as scanned *)
(* and says when some were cut (the sort and the limit of Search).         *)
THEOREM HitsAreComplete == Spec => []HitsComplete
<1>1. IInv => HitsComplete
  BY DEF IInv
<1>. QED
  BY <1>1, Invariant, PTL
=============================================================================
