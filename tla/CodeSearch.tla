----------------------------- MODULE CodeSearch -----------------------------
(***************************************************************************)
(* One search_code request: codesearch.Search over the Go files of the     *)
(* scope, one after the other, each parsed by a goroutine of its own that  *)
(* the search stops waiting for after a timeout (parseGoFile).             *)
(* A declaration is a member of a file with a line; its text is left out.  *)
(***************************************************************************)
EXTENDS Integers, Sequences, FiniteSets, Functions

CONSTANTS
    File,           \* the files of the scope
    Walk,           \* the order in which walkGoFiles lists them
    Rank,           \* the place of each file in the order of the paths
    Matches,        \* the matching declarations of each file, in order: their lines
    Unreadable,     \* files os.ReadFile fails on
    Malformed,      \* files the parser rejects
    Limits,         \* the limits the model may give
    DefaultLimit    \* what stands for a limit that is not positive

ASSUME CodeSearchAssumption ==
    /\ Walk \in Seq(File) /\ \A i, j \in DOMAIN Walk : Walk[i] = Walk[j] => i = j
    /\ Rank \in [File -> Nat] /\ \A f, g \in File : Rank[f] = Rank[g] => f = g
    /\ Matches \in [File -> Seq(Nat)]
    /\ Unreadable \cup Malformed \subseteq File
    /\ Limits \subseteq Int /\ DefaultLimit \in Nat \ {0}

VARIABLES
    pc,         \* request, read, wait, sort; done or rejected
    limit,
    pos,        \* the position in Walk
    parser,     \* the goroutine of each file: none, parsing, sending, exited
    channel,    \* the channel of each file: empty or full
    hits,       \* allHits, then the hits of the result
    scanned,    \* FilesScanned and FilesSkipped, as the sets they count
    skipped,
    truncated

vars == << pc, limit, pos, parser, channel, hits, scanned, skipped, truncated >>

Hit == [file : File, line : Nat, nth : Nat]
HitsOf(f) ==
    [n \in DOMAIN Matches[f] |-> [file |-> f, line |-> Matches[f][n], nth |-> n]]

TypeOK ==
    /\ pc \in {"request", "read", "wait", "sort", "done", "rejected"}
    /\ limit \in IF pc \in {"request", "rejected"} THEN Int ELSE Nat \ {0}
    /\ pos \in 1 .. Len(Walk) + 1
    /\ parser \in [File -> {"none", "parsing", "sending", "exited"}]
    /\ channel \in [File -> {"empty", "full"}]
    /\ hits \in Seq(Hit)
    /\ scanned \subseteq File /\ skipped \subseteq File
    /\ truncated \in BOOLEAN

Init ==
    /\ pc = "request"
    /\ limit \in Limits
    /\ pos = 1
    /\ parser = [f \in File |-> "none"]
    /\ channel = [f \in File |-> "empty"]
    /\ hits = << >>
    /\ scanned = {} /\ skipped = {}
    /\ truncated = FALSE

Current == Walk[pos]
NextFile == pos' = pos + 1 /\ pc' = IF pos = Len(Walk) THEN "sort" ELSE "read"

(* A scope outside the repository, an invalid pattern, a failing walk.     *)
Reject ==
    /\ pc = "request"
    /\ pc' = "rejected"
    /\ UNCHANGED << limit, pos, parser, channel, hits, scanned, skipped, truncated >>

(* Mutant: the limit of the model is taken as it is.                       *)
AcceptAnyLimit ==
    /\ pc = "request"
    /\ pc' = IF Walk = << >> THEN "sort" ELSE "read"
    /\ UNCHANGED << limit, pos, parser, channel, hits, scanned, skipped, truncated >>

Accept ==
    /\ pc = "request"
    /\ limit' = IF limit <= 0 THEN DefaultLimit ELSE limit
    /\ pc' = IF Walk = << >> THEN "sort" ELSE "read"
    /\ UNCHANGED << pos, parser, channel, hits, scanned, skipped, truncated >>

SkipUnreadable ==
    /\ pc = "read" /\ Current \in Unreadable
    /\ skipped' = skipped \cup {Current}
    /\ NextFile
    /\ UNCHANGED << limit, parser, channel, hits, scanned, truncated >>

StartParser ==
    /\ pc = "read" /\ Current \notin Unreadable
    /\ parser' = [parser EXCEPT ![Current] = "parsing"]
    /\ pc' = "wait"
    /\ UNCHANGED << limit, pos, channel, hits, scanned, skipped, truncated >>

(* The goroutine, which nobody may be waiting for any more: its channel has*)
(* room for its one result.                                                *)
Parsed(f) ==
    /\ parser[f] = "parsing"
    /\ parser' = [parser EXCEPT ![f] = "sending"]
    /\ UNCHANGED << pc, limit, pos, channel, hits, scanned, skipped, truncated >>

(* Mutant: a channel without room, which takes a result only while the     *)
(* search receives.                                                        *)
SendUnbuffered(f) ==
    /\ parser[f] = "sending" /\ channel[f] = "empty"
    /\ pc = "wait" /\ Current = f
    /\ channel' = [channel EXCEPT ![f] = "full"]
    /\ parser' = [parser EXCEPT ![f] = "exited"]
    /\ UNCHANGED << pc, limit, pos, hits, scanned, skipped, truncated >>

Send(f) ==
    /\ parser[f] = "sending" /\ channel[f] = "empty"
    /\ channel' = [channel EXCEPT ![f] = "full"]
    /\ parser' = [parser EXCEPT ![f] = "exited"]
    /\ UNCHANGED << pc, limit, pos, hits, scanned, skipped, truncated >>

(* The two cases of the select.  Either may be taken when both are ready.  *)
ReceiveTree ==
    /\ pc = "wait" /\ channel[Current] = "full"
    /\ channel' = [channel EXCEPT ![Current] = "empty"]
    /\ IF Current \in Malformed
       THEN skipped' = skipped \cup {Current} /\ UNCHANGED << hits, scanned >>
       ELSE /\ scanned' = scanned \cup {Current}
            /\ hits' = hits \o HitsOf(Current)
            /\ UNCHANGED skipped
    /\ NextFile
    /\ UNCHANGED << limit, parser, truncated >>

(* Mutant: the timer is looked at when the parser is through.              *)
TimeoutAfterParsing ==
    /\ pc = "wait" /\ parser[Current] = "exited"
    /\ skipped' = skipped \cup {Current}
    /\ NextFile
    /\ UNCHANGED << limit, parser, channel, hits, scanned, truncated >>

(* Mutant: a file that timed out is not counted.                           *)
TimeoutUncounted ==
    /\ pc = "wait"
    /\ NextFile
    /\ UNCHANGED << limit, parser, channel, hits, scanned, skipped, truncated >>

Timeout ==
    /\ pc = "wait"
    /\ skipped' = skipped \cup {Current}
    /\ NextFile
    /\ UNCHANGED << limit, parser, channel, hits, scanned, truncated >>

(* slices.SortFunc is not stable: hits of one line come in any order.      *)
Before(a, b) ==
    \/ Rank[a.file] < Rank[b.file]
    \/ a.file = b.file /\ a.line < b.line

Sorted(old, new) ==
    /\ Range(new) = Range(old)
    /\ \A i, j \in DOMAIN new : i < j => ~Before(new[j], new[i])

Kept == IF Len(hits) > limit THEN limit ELSE Len(hits)

(* Mutant: the hits are cut before they are sorted.                        *)
CutAndSort ==
    /\ pc = "sort"
    /\ LET cut == SubSeq(hits, 1, Kept)
       IN  \E all \in [DOMAIN cut -> Range(cut)] : Sorted(cut, all) /\ hits' = all
    /\ truncated' = (Len(hits) > limit)
    /\ pc' = "done"
    /\ UNCHANGED << limit, pos, parser, channel, scanned, skipped >>

SortAndCut ==
    /\ pc = "sort"
    /\ \E all \in [DOMAIN hits -> Range(hits)] :
         /\ Sorted(hits, all)
         /\ hits' = SubSeq(all, 1, Kept)
    /\ truncated' = (Len(hits) > limit)
    /\ pc' = "done"
    /\ UNCHANGED << limit, pos, parser, channel, scanned, skipped >>

Search ==
    \/ Reject \/ Accept \/ SkipUnreadable \/ StartParser
    \/ ReceiveTree \/ Timeout \/ SortAndCut

Goroutine == \E f \in File : Parsed(f) \/ Send(f)

Next == Search \/ Goroutine

Spec == Init /\ [][Next]_vars

(* The search goes on, a timer goes off in the end, and a goroutine that   *)
(* can send does.  Parsing itself may take for ever.                       *)
FairSearch ==
    /\ Spec
    /\ WF_vars(Search)
    /\ \A f \in File : WF_vars(Send(f))

-----------------------------------------------------------------------------
(* Properties.                                                             *)

(* The answer the model reads is the first hits, in the order of path and  *)
(* line, of the files it says it scanned, and says when some were cut: a   *)
(* file whose parse came too late, or failed, contributes nothing, and one *)
(* that is counted contributes everything.                                 *)
HitsComplete ==
    pc = "done" =>
        LET found == UNION {Range(HitsOf(f)) : f \in scanned}
            given == Range(hits)
        IN  /\ given \subseteq found /\ Cardinality(given) = Len(hits)
            /\ \A i, j \in DOMAIN hits : i < j => ~Before(hits[j], hits[i])
            /\ \A h \in found \ given : \A g \in given : ~Before(h, g)
            /\ truncated = (given # found)
            /\ truncated => Len(hits) = limit

(* Every file listed is counted once, scanned or skipped, also when its    *)
(* parse ends at the moment of its timeout.                                *)
FilesCounted ==
    /\ scanned \cap skipped = {}
    /\ scanned \cup skipped = {Walk[i] : i \in 1 .. pos - 1}

(* A parse that never ends does not stop the search.                       *)
SearchEnds == <>(pc \in {"done", "rejected"})

(* A goroutine the search no longer waits for still exits (the comment on  *)
(* parseGoFile: abandoning it is acceptable because it terminates as soon  *)
(* as parsing finishes).                                                   *)
ParsersExit == \A f \in File : parser[f] = "sending" ~> parser[f] = "exited"
=============================================================================
