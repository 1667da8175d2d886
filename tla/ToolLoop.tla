------------------------------ MODULE ToolLoop ------------------------------
(***************************************************************************)
(* One call of generate.Generate: a single completion, or the loop in which*)
(* the model asks for code searches and reads their results before it      *)
(* answers (runToolLoop), over a provider that may answer, fail, or reject *)
(* tools.  A message keeps its role and the identities of its tool calls;  *)
(* the texts and the token counts are left out.                            *)
(***************************************************************************)
EXTENDS Integers, Sequences, FiniteSets

CONSTANTS
    CallId,             \* the identities the model gives its tool calls
    MaxTurnsSettings,   \* the values of --code-search-max-turns
    DefaultMaxTurns,    \* what stands for a setting of 0
    MaxCalls            \* bound on the tool calls of one answer

ASSUME ToolLoopAssumption ==
    /\ MaxTurnsSettings \subseteq Int
    /\ DefaultMaxTurns \in Nat /\ MaxCalls \in Nat

VARIABLES
    pc,         \* the next step: prepare, complete, ask, dispatch; done
    maxTurns,   \* the resolved ceiling
    turn,       \* the turn of the loop, from 1
    messages,   \* the conversation a request carries
    calls,      \* the tool calls of the last answer
    answered,   \* how many of them were dispatched
    outcome     \* what Generate returned

vars == << pc, maxTurns, turn, messages, calls, answered, outcome >>

Roles == {"system", "user", "assistant", "tool"}
CallSeq == UNION {[1 .. n -> CallId] : n \in 1 .. MaxCalls}
Message == [role : Roles, calls : CallSeq \cup {<< >>}, answers : CallId \cup {""}]

Said(role) == [role |-> role, calls |-> << >>, answers |-> ""]
AskedFor(ids) == [role |-> "assistant", calls |-> ids, answers |-> ""]
ResultOf(id) == [role |-> "tool", calls |-> << >>, answers |-> id]

Outcomes == {"none", "text", "no prompt", "unsupported", "failed", "exceeded"}

TypeOK ==
    /\ pc \in {"prepare", "complete", "ask", "dispatch", "done"}
    /\ maxTurns \in Int
    /\ turn \in Nat
    /\ messages \in Seq(Message)
    /\ calls \in CallSeq \cup {<< >>}
    /\ answered \in Nat
    /\ outcome \in Outcomes

Init ==
    /\ pc = "prepare"
    /\ maxTurns \in MaxTurnsSettings
    /\ turn = 1
    /\ messages = << >>
    /\ calls = << >> /\ answered = 0
    /\ outcome = "none"

Return(result) == pc' = "done" /\ outcome' = result

(* A system prompt file that cannot be read ends the call.                 *)
PromptUnreadable ==
    /\ pc = "prepare"
    /\ Return("no prompt")
    /\ UNCHANGED << maxTurns, turn, messages, calls, answered >>

(* The system prompt, the document with its diff, and the extra prompt if  *)
(* there is one.  The loop is taken with --code-search and a provider that *)
(* has tools.                                                              *)
Prepare ==
    /\ pc = "prepare"
    /\ messages' \in {<< Said("system"), Said("user") >>,
                      << Said("system"), Said("user"), Said("user") >>}
    /\ \/ pc' = "complete" /\ UNCHANGED maxTurns
       \/ /\ pc' = "ask"
          /\ maxTurns' = IF maxTurns = 0 THEN DefaultMaxTurns ELSE maxTurns
    /\ UNCHANGED << turn, calls, answered, outcome >>

Complete ==
    /\ pc = "complete"
    /\ \E result \in {"text", "failed"} : Return(result)
    /\ UNCHANGED << maxTurns, turn, messages, calls, answered >>

(* Mutant: the answer of the assistant is not recorded.                    *)
ToolCallsUnrecorded ==
    /\ pc = "ask" /\ turn <= maxTurns
    /\ calls' \in CallSeq
    /\ answered' = 0
    /\ pc' = "dispatch"
    /\ UNCHANGED << maxTurns, turn, messages, outcome >>

(* CompleteWithTools: an error, a final text, or tool calls, which are     *)
(* recorded as the assistant's message before any is dispatched.           *)
ProviderError ==
    /\ pc = "ask" /\ turn <= maxTurns
    /\ \E result \in {"unsupported", "failed"} : Return(result)
    /\ UNCHANGED << maxTurns, turn, messages, calls, answered >>

FinalText ==
    /\ pc = "ask" /\ turn <= maxTurns
    /\ Return("text")
    /\ UNCHANGED << maxTurns, turn, messages, calls, answered >>

ToolCalls ==
    /\ pc = "ask" /\ turn <= maxTurns
    /\ \E ids \in CallSeq :
         /\ messages' = Append(messages, AskedFor(ids))
         /\ calls' = ids
    /\ answered' = 0
    /\ pc' = "dispatch"
    /\ UNCHANGED << maxTurns, turn, outcome >>

(* Mutant: the turns are counted down.                                     *)
DispatchCountingDown ==
    /\ pc = "dispatch"
    /\ messages' = Append(messages, ResultOf(calls[answered + 1]))
    /\ answered' = answered + 1
    /\ \/ answered + 1 < Len(calls) /\ UNCHANGED << pc, turn >>
       \/ answered + 1 = Len(calls) /\ turn' = turn - 1 /\ pc' = "ask"
    /\ UNCHANGED << maxTurns, calls, outcome >>

(* Mutant: a search that fails leaves no result.                           *)
DispatchDroppingErrors ==
    /\ pc = "dispatch"
    /\ messages' \in {messages, Append(messages, ResultOf(calls[answered + 1]))}
    /\ answered' = answered + 1
    /\ \/ answered + 1 < Len(calls) /\ UNCHANGED << pc, turn >>
       \/ answered + 1 = Len(calls) /\ turn' = turn + 1 /\ pc' = "ask"
    /\ UNCHANGED << maxTurns, calls, outcome >>

(* Mutant: every call counts as a turn.                                    *)
DispatchCountingCalls ==
    /\ pc = "dispatch"
    /\ messages' = Append(messages, ResultOf(calls[answered + 1]))
    /\ answered' = answered + 1
    /\ turn' = turn + 1
    /\ pc' = IF answered + 1 = Len(calls) THEN "ask" ELSE pc
    /\ UNCHANGED << maxTurns, calls, outcome >>

(* dispatchSearchCode answers every call: arguments it cannot parse and a  *)
(* search that fails are results too.                                      *)
Dispatch ==
    /\ pc = "dispatch"
    /\ messages' = Append(messages, ResultOf(calls[answered + 1]))
    /\ answered' = answered + 1
    /\ \/ answered + 1 < Len(calls) /\ UNCHANGED << pc, turn >>
       \/ answered + 1 = Len(calls) /\ turn' = turn + 1 /\ pc' = "ask"
    /\ UNCHANGED << maxTurns, calls, outcome >>

(* Mutant: a conversation that took too long is begun again.               *)
ExceededAndRetried ==
    /\ pc = "ask" /\ turn > maxTurns
    /\ pc' = "prepare" /\ messages' = << >> /\ turn' = 1
    /\ calls' = << >> /\ answered' = 0
    /\ UNCHANGED << maxTurns, outcome >>

Exceeded ==
    /\ pc = "ask" /\ turn > maxTurns
    /\ Return("exceeded")
    /\ UNCHANGED << maxTurns, turn, messages, calls, answered >>

Next ==
    \/ PromptUnreadable \/ Prepare \/ Complete
    \/ ProviderError \/ FinalText \/ ToolCalls \/ Dispatch \/ Exceeded

Spec == Init /\ [][Next]_vars

(* Every request has a timeout, every search a timeout per file, and the   *)
(* loop does nothing else.                                                 *)
FairSpec == Spec /\ WF_vars(Next)

-----------------------------------------------------------------------------
(* Properties.                                                             *)

(* The results of the calls of message i that the conversation must hold.  *)
Due(i) == IF pc = "dispatch" /\ i + answered = Len(messages)
          THEN answered
          ELSE Len(messages[i].calls)

(* The protocol of the provider (marshalToolMessages): the results of the  *)
(* tool calls of an answer follow it, one per call and in their order,     *)
(* before anything else is said.                                           *)
CallsAnswered ==
    \A i \in DOMAIN messages : \A j \in 1 .. Due(i) :
        /\ i + j <= Len(messages)
        /\ messages[i + j] = ResultOf(messages[i].calls[j])

(* Every result in the conversation answers a call of the last answer      *)
(* before it.                                                              *)
ResultsWanted ==
    \A i \in DOMAIN messages : messages[i].role = "tool" =>
        \E j \in 1 .. i - 1 :
            /\ i - j <= Len(messages[j].calls)
            /\ messages[j].calls[i - j] = messages[i].answers

(* The model gets maxTurns answers with tool calls and no more, however    *)
(* many calls each of them makes; only then is the loop given up, and with *)
(* a ceiling below 1 it is given up before the model is asked.             *)
Answers == {i \in DOMAIN messages : messages[i].role = "assistant"}

TurnsCounted ==
    /\ Answers # {} => Cardinality(Answers) <= maxTurns
    /\ outcome = "exceeded" => \/ Cardinality(Answers) = maxTurns
                               \/ Answers = {} /\ maxTurns < 0

(* The loop ends whatever the model answers.                               *)
Terminates == <>(pc = "done")
=============================================================================
