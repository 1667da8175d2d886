--------------------------- MODULE ToolLoopProofs ---------------------------
(***************************************************************************)
(* The tool loop keeps the provider's protocol and its ceiling for every   *)
(* ceiling and every number of calls in an answer.                         *)
(***************************************************************************)
EXTENDS ToolLoop, FiniteSetTheorems, SequenceTheorems, TLAPS

(* Where the message that asked for the calls being dispatched is.         *)
AskedAt == Len(messages) - answered

Dispatching ==
    pc = "dispatch" =>
        /\ AskedAt \in 1 .. Len(messages)
        /\ messages[AskedAt].calls = calls
        /\ answered < Len(calls)

Counting ==
    /\ pc # "done" => outcome = "none"
    /\ pc \in {"prepare", "complete"} => Answers = {} /\ turn = 1
    /\ pc = "ask" => /\ Cardinality(Answers) = turn - 1
                     /\ turn = 1 \/ (1 < turn /\ turn - 1 <= maxTurns)
    /\ pc = "dispatch" => Cardinality(Answers) = turn /\ turn <= maxTurns
    /\ TurnsCounted

(* The inductive invariant.  Between the first and the last call of an     *)
(* answer the conversation ends in the results given so far, right after   *)
(* the message that asked for them; and there is one answer per turn.      *)
IInv == TypeOK /\ Dispatching /\ Counting /\ CallsAnswered /\ ResultsWanted

-----------------------------------------------------------------------------
(* The calls of an answer are a nonempty sequence of identities.           *)
LEMMA CallSeqType ==
    ASSUME NEW ids \in CallSeq
    PROVE  ids \in Seq(CallId) /\ Len(ids) \in Nat \ {0}
<1>1. PICK n \in 1 .. MaxCalls : ids \in [1 .. n -> CallId]
  BY DEF CallSeq
<1>2. n \in Nat \ {0}
  BY <1>1, ToolLoopAssumption
<1>. QED
  BY <1>1, <1>2

(* The calls of a message are a sequence of identities.                    *)
LEMMA MessageCalls ==
    ASSUME TypeOK, NEW i \in 1 .. Len(messages)
    PROVE  /\ messages[i] \in Message
           /\ messages[i].calls \in Seq(CallId) /\ Len(messages[i].calls) \in Nat
<1>1. messages[i] \in Message
  BY ElementOfSeq DEF TypeOK
<1>2. messages[i].calls \in CallSeq \/ messages[i].calls = << >>
  BY <1>1 DEF Message
<1>. QED
  BY <1>1, <1>2, CallSeqType, EmptySeq

(* One message more leaves the others where they are.                      *)
LEMMA Appended ==
    ASSUME TypeOK, NEW m \in Message, messages' = Append(messages, m)
    PROVE  /\ messages' \in Seq(Message)
           /\ Len(messages) \in Nat /\ Len(messages') = Len(messages) + 1
           /\ DOMAIN messages = 1 .. Len(messages)
           /\ DOMAIN messages' = 1 .. Len(messages) + 1
           /\ messages'[Len(messages) + 1] = m
           /\ \A i \in 1 .. Len(messages) : messages'[i] = messages[i]
BY DEF TypeOK

(* The answers of the model are finitely many.                             *)
LEMMA AnswersFinite ==
    ASSUME TypeOK
    PROVE  IsFiniteSet(Answers) /\ Cardinality(Answers) \in Nat
<1>1. Len(messages) \in Nat /\ DOMAIN messages = 1 .. Len(messages)
  BY LenProperties DEF TypeOK
<1>2. IsFiniteSet(1 .. Len(messages))
  BY <1>1, FS_Interval
<1>3. Answers \in SUBSET (1 .. Len(messages))
  BY <1>1 DEF Answers
<1>. QED
  BY <1>2, <1>3, FS_Subset, FS_CardinalityType

(* What the loop's steps add to a conversation are messages.               *)
LEMMA Messages ==
    /\ \A role \in Roles : Said(role) \in Message
    /\ \A ids \in CallSeq : AskedFor(ids) \in Message
    /\ \A id \in CallId : ResultOf(id) \in Message
BY DEF Said, AskedFor, ResultOf, Message, Roles

-----------------------------------------------------------------------------
(* The invariant holds before the first request.                           *)
LEMMA InitInv == Init => IInv
<1>. SUFFICES ASSUME Init PROVE IInv
  OBVIOUS
<1>1. messages = << >> /\ DOMAIN messages = {} /\ messages \in Seq(Message)
  BY EmptySeq DEF Init
<1>2. Answers = {} /\ Cardinality(Answers) = 0
  BY <1>1, FS_EmptySet DEF Answers
<1>3. TypeOK
  BY <1>1, ToolLoopAssumption DEF Init, TypeOK, Outcomes
<1>4. CallsAnswered /\ ResultsWanted
  BY <1>1, Zenon DEF CallsAnswered, ResultsWanted
<1>. QED
  BY <1>2, <1>3, <1>4 DEF Init, IInv, Dispatching, Counting, TurnsCounted

(* The prompt and the document: a conversation without calls.              *)
LEMMA PrepareInv == IInv /\ Prepare => IInv'
<1>. SUFFICES ASSUME IInv, Prepare PROVE IInv'
  OBVIOUS
<1>1. /\ messages' \in Seq(Message)
      /\ \A i \in DOMAIN messages' :
           /\ messages'[i].role \in {"system", "user"}
           /\ messages'[i].calls = << >>
  <2>1. Said("system") \in Message /\ Said("user") \in Message
    BY Messages DEF Roles
  <2>2. /\ Said("system").calls = << >> /\ Said("user").calls = << >>
        /\ Said("system").role = "system" /\ Said("user").role = "user"
    BY DEF Said
  <2>. DEFINE two == << Said("system"), Said("user") >>
              three == << Said("system"), Said("user"), Said("user") >>
  <2>3. two \in Seq(Message) /\ three \in Seq(Message)
    BY <2>1
  <2>4. /\ DOMAIN two = 1 .. 2 /\ two[1] = Said("system") /\ two[2] = Said("user")
        /\ DOMAIN three = 1 .. 3 /\ three[1] = Said("system")
        /\ three[2] = Said("user") /\ three[3] = Said("user")
    OBVIOUS
  <2>. HIDE DEF two, three
  <2>5. messages' = two \/ messages' = three
    BY DEF Prepare, two, three
  <2>6. CASE messages' = two
    BY <2>2, <2>3, <2>4, <2>6
  <2>7. CASE messages' = three
    BY <2>2, <2>3, <2>4, <2>7
  <2>. QED
    BY <2>5, <2>6, <2>7
<1>2. Answers' = {} /\ Cardinality(Answers') = 0
  BY <1>1, FS_EmptySet DEF Answers
<1>3. TypeOK'
  BY <1>1, ToolLoopAssumption DEF IInv, TypeOK, Prepare
<1>4. pc' # "dispatch" /\ Len(<< >>) = 0
  BY DEF Prepare
<1>5. CallsAnswered' /\ ResultsWanted'
  BY <1>1, <1>4 DEF CallsAnswered, Due, ResultsWanted
<1>6. Counting' /\ Dispatching'
  BY <1>2, <1>4 DEF IInv, Counting, TurnsCounted, Dispatching, Prepare
<1>. QED
  BY <1>3, <1>5, <1>6 DEF IInv

(* Whatever ends the loop leaves the conversation as it is; the ceiling is *)
(* exceeded only after maxTurns answers, or when it is negative.           *)
LEMMA EndInv ==
    IInv /\ (PromptUnreadable \/ Complete \/ ProviderError \/ FinalText \/ Exceeded) => IInv'
<1>. SUFFICES ASSUME IInv,
                     PromptUnreadable \/ Complete \/ ProviderError \/ FinalText \/ Exceeded
              PROVE  IInv'
  OBVIOUS
<1>1. /\ pc # "dispatch" /\ pc' = "done"
      /\ UNCHANGED << maxTurns, turn, messages, calls, answered >>
      /\ outcome' \in Outcomes
  BY DEF PromptUnreadable, Complete, ProviderError, FinalText, Exceeded, Return, Outcomes
<1>2. TypeOK'
  BY <1>1 DEF IInv, TypeOK
<1>3. CallsAnswered' /\ ResultsWanted'
  BY <1>1 DEF IInv, CallsAnswered, Due, ResultsWanted
<1>4. ASSUME outcome' = "exceeded"
      PROVE  Cardinality(Answers) = maxTurns \/ (Answers = {} /\ maxTurns < 0)
  <2>1. pc = "ask" /\ turn > maxTurns
    BY <1>4 DEF PromptUnreadable, Complete, ProviderError, FinalText, Exceeded, Return
  <2>2. /\ Cardinality(Answers) = turn - 1
        /\ turn = 1 \/ (1 < turn /\ turn - 1 <= maxTurns)
        /\ turn \in Nat /\ maxTurns \in Int
    BY <2>1 DEF IInv, Counting, TypeOK
  <2>3. Cardinality(Answers) = 0 => Answers = {}
    BY AnswersFinite, FS_EmptySet DEF IInv
  <2>. QED
    BY <2>1, <2>2, <2>3
<1>5. Answers' = Answers
  BY <1>1 DEF Answers
<1>6. Counting' /\ Dispatching'
  BY <1>1, <1>4, <1>5 DEF IInv, Counting, TurnsCounted, Dispatching
<1>. QED
  BY <1>2, <1>3, <1>6 DEF IInv

(* An answer with calls is recorded before any of them is dispatched.      *)
LEMMA ToolCallsInv == IInv /\ ToolCalls => IInv'
<1>. SUFFICES ASSUME IInv, ToolCalls PROVE IInv'
  OBVIOUS
<1>1. PICK ids \in CallSeq : messages' = Append(messages, AskedFor(ids)) /\ calls' = ids
  BY DEF ToolCalls
<1>. DEFINE m == AskedFor(ids)
<1>2. m \in Message /\ m.role = "assistant" /\ m.calls = ids
  BY Messages DEF AskedFor
<1>3. messages' = Append(messages, m) /\ TypeOK
  BY <1>1 DEF IInv
<1>. HIDE DEF m
<1>4. /\ messages' \in Seq(Message)
      /\ Len(messages) \in Nat /\ Len(messages') = Len(messages) + 1
      /\ DOMAIN messages = 1 .. Len(messages)
      /\ DOMAIN messages' = 1 .. Len(messages) + 1
      /\ messages'[Len(messages) + 1] = m
      /\ \A i \in 1 .. Len(messages) : messages'[i] = messages[i]
  BY <1>2, <1>3, Appended
<1>5. pc = "ask" /\ pc' = "dispatch" /\ answered' = 0
      /\ UNCHANGED << maxTurns, turn, outcome >> /\ turn <= maxTurns
  BY DEF ToolCalls
<1>6. TypeOK'
  BY <1>1, <1>4, <1>5 DEF IInv, TypeOK
<1>7. Dispatching'
  BY <1>1, <1>2, <1>4, <1>5, CallSeqType DEF Dispatching, AskedAt
<1>8. Counting'
  <2>1. Answers' = Answers \cup {Len(messages) + 1} /\ Len(messages) + 1 \notin Answers
    BY <1>2, <1>4 DEF Answers
  <2>2. Cardinality(Answers') = Cardinality(Answers) + 1
    BY <2>1, AnswersFinite, FS_AddElement DEF IInv
  <2>3. Cardinality(Answers) = turn - 1 /\ turn \in Nat /\ outcome = "none"
    BY <1>5 DEF IInv, Counting, TypeOK
  <2>. QED
    BY <1>5, <2>2, <2>3 DEF Counting, TurnsCounted
<1>9. CallsAnswered'
  <2>. SUFFICES ASSUME NEW i \in DOMAIN messages', NEW j \in 1 .. Due(i)'
                PROVE  /\ i + j <= Len(messages')
                       /\ messages'[i + j] = ResultOf(messages'[i].calls[j])
    BY DEF CallsAnswered
  <2>1. CASE i = Len(messages) + 1
    BY <1>4, <1>5, <2>1 DEF Due
  <2>2. CASE i \in 1 .. Len(messages)
    <3>1. Due(i)' = Due(i) /\ Len(messages[i].calls) \in Nat
      BY <1>4, <1>5, <2>2, MessageCalls DEF Due, IInv
    <3>2. i + j <= Len(messages) /\ messages[i + j] = ResultOf(messages[i].calls[j])
      BY <1>4, <2>2, <3>1 DEF IInv, CallsAnswered
    <3>. QED
      BY <1>4, <2>2, <3>1, <3>2 DEF Due
  <2>. QED
    BY <1>4, <2>1, <2>2
<1>10. ResultsWanted'
  <2>. SUFFICES ASSUME NEW i \in DOMAIN messages', messages'[i].role = "tool"
                PROVE  \E j \in 1 .. i - 1 :
                         /\ i - j <= Len(messages'[j].calls)
                         /\ messages'[j].calls[i - j] = messages'[i].answers
    BY DEF ResultsWanted
  <2>1. i \in 1 .. Len(messages)
    BY <1>2, <1>4
  <2>2. PICK j \in 1 .. i - 1 : /\ i - j <= Len(messages[j].calls)
                                /\ messages[j].calls[i - j] = messages[i].answers
    BY <1>4, <2>1 DEF IInv, ResultsWanted
  <2>3. j \in 1 .. Len(messages)
    BY <1>4, <2>1
  <2>. QED
    BY <1>4, <2>1, <2>2, <2>3
<1>. QED
  BY <1>6, <1>7, <1>8, <1>9, <1>10 DEF IInv

(* Each call's result follows the results of the calls before it.          *)
LEMMA DispatchInv == IInv /\ Dispatch => IInv'
<1>. SUFFICES ASSUME IInv, Dispatch PROVE IInv'
  OBVIOUS
<1>. DEFINE n == answered + 1
            m == ResultOf(calls[n])
<1>1. /\ calls \in Seq(CallId) /\ Len(calls) \in Nat \ {0}
      /\ answered \in Nat /\ answered < Len(calls)
      /\ AskedAt \in 1 .. Len(messages) /\ messages[AskedAt].calls = calls
  <2>1. /\ answered < Len(calls) /\ calls \in CallSeq \cup {<< >>}
        /\ AskedAt \in 1 .. Len(messages) /\ messages[AskedAt].calls = calls
        /\ answered \in Nat
    BY DEF IInv, Dispatching, Dispatch, TypeOK
  <2>. QED
    BY <2>1, CallSeqType, EmptySeq
<1>2. m \in Message /\ m.role = "tool" /\ m.calls = << >> /\ m.answers = calls[n]
  <2>1. calls[n] \in CallId
    BY <1>1, ElementOfSeq
  <2>. QED
    BY <2>1, Messages DEF ResultOf
<1>3. messages' = Append(messages, m) /\ TypeOK
  BY DEF IInv, Dispatch
<1>. HIDE DEF m
<1>4. /\ messages' \in Seq(Message)
      /\ Len(messages) \in Nat /\ Len(messages') = Len(messages) + 1
      /\ DOMAIN messages = 1 .. Len(messages)
      /\ DOMAIN messages' = 1 .. Len(messages) + 1
      /\ messages'[Len(messages) + 1] = m
      /\ \A i \in 1 .. Len(messages) : messages'[i] = messages[i]
  BY <1>2, <1>3, Appended
<1>5. /\ pc = "dispatch" /\ answered' = n /\ UNCHANGED << maxTurns, calls, outcome >>
      /\ \/ n < Len(calls) /\ pc' = "dispatch" /\ turn' = turn
         \/ n = Len(calls) /\ pc' = "ask" /\ turn' = turn + 1
  BY DEF Dispatch
<1>6. TypeOK'
  BY <1>1, <1>4, <1>5 DEF IInv, TypeOK
<1>7. AskedAt' = AskedAt /\ Dispatching'
  BY <1>1, <1>4, <1>5 DEF Dispatching, AskedAt
<1>8. Counting'
  <2>1. Answers' = Answers
    BY <1>2, <1>4 DEF Answers
  <2>2. /\ Cardinality(Answers) = turn /\ turn <= maxTurns
        /\ outcome = "none" /\ turn \in Nat /\ maxTurns \in Int
    BY <1>5 DEF IInv, Counting, TypeOK
  <2>3. Cardinality(Answers) = 0 \/ turn \in Nat \ {0}
    BY <2>2
  <2>4. pc' = "ask" => turn' = 1 \/ (1 < turn' /\ turn' - 1 <= maxTurns')
    BY <1>5, <2>2
  <2>. QED
    BY <1>5, <2>1, <2>2, <2>4 DEF Counting, TurnsCounted
<1>9. CallsAnswered'
  <2>. SUFFICES ASSUME NEW i \in DOMAIN messages', NEW j \in 1 .. Due(i)'
                PROVE  /\ i + j <= Len(messages')
                       /\ messages'[i + j] = ResultOf(messages'[i].calls[j])
    BY DEF CallsAnswered
  <2>1. CASE i = Len(messages) + 1
    <3>1. messages'[i].calls = << >> /\ Len(<< >>) = 0
      BY <1>2, <1>4, <2>1
    <3>2. i + answered' # Len(messages')
      BY <1>1, <1>4, <1>5, <2>1
    <3>. QED
      BY <3>1, <3>2 DEF Due
  <2>2. CASE i = AskedAt
    <3>1. Due(i) = answered /\ Due(i)' = n
      BY <1>1, <1>4, <1>5, <2>2 DEF Due, AskedAt
    <3>2. i \in 1 .. Len(messages) /\ messages'[i].calls = calls
      BY <1>1, <1>4, <2>2
    <3>3. CASE j = n
      <4>1. i + j = Len(messages) + 1
        BY <1>1, <1>4, <2>2, <3>3 DEF AskedAt
      <4>. QED
        BY <1>4, <3>2, <3>3, <4>1 DEF m
    <3>4. CASE j \in 1 .. answered
      <4>1. i + j <= Len(messages) /\ messages[i + j] = ResultOf(messages[i].calls[j])
        BY <1>4, <3>1, <3>2, <3>4 DEF IInv, CallsAnswered
      <4>2. i + j \in 1 .. Len(messages)
        BY <1>4, <3>2, <3>4, <4>1
      <4>. QED
        BY <1>4, <3>2, <4>1, <4>2
    <3>. QED
      BY <1>1, <3>1, <3>3, <3>4
  <2>3. CASE i \in 1 .. Len(messages) /\ i # AskedAt
    <3>1. Due(i) = Len(messages[i].calls) /\ Due(i)' = Due(i)
      BY <1>1, <1>4, <1>5, <2>3 DEF Due, AskedAt
    <3>2. Len(messages[i].calls) \in Nat
      BY <2>3, MessageCalls DEF IInv
    <3>3. i + j <= Len(messages) /\ messages[i + j] = ResultOf(messages[i].calls[j])
      BY <1>4, <2>3, <3>1 DEF IInv, CallsAnswered
    <3>4. i + j \in 1 .. Len(messages)
      BY <1>4, <2>3, <3>1, <3>2, <3>3
    <3>. QED
      BY <1>4, <2>3, <3>3, <3>4
  <2>. QED
    BY <1>4, <2>1, <2>2, <2>3
<1>10. ResultsWanted'
  <2>. SUFFICES ASSUME NEW i \in DOMAIN messages', messages'[i].role = "tool"
                PROVE  \E j \in 1 .. i - 1 :
                         /\ i - j <= Len(messages'[j].calls)
                         /\ messages'[j].calls[i - j] = messages'[i].answers
    BY DEF ResultsWanted
  <2>1. CASE i = Len(messages) + 1
    <3>1. AskedAt \in 1 .. i - 1 /\ i - AskedAt = n
      BY <1>1, <1>4, <2>1 DEF AskedAt
    <3>2. messages'[AskedAt].calls = calls
      BY <1>1, <1>4
    <3>3. messages'[i].answers = calls[n] /\ n <= Len(calls)
      BY <1>1, <1>2, <1>4, <2>1
    <3>. QED
      BY <3>1, <3>2, <3>3
  <2>2. CASE i \in 1 .. Len(messages)
    <3>1. PICK j \in 1 .. i - 1 : /\ i - j <= Len(messages[j].calls)
                                  /\ messages[j].calls[i - j] = messages[i].answers
      BY <1>4, <2>2 DEF IInv, ResultsWanted
    <3>2. j \in 1 .. Len(messages)
      BY <1>4, <2>2
    <3>. QED
      BY <1>4, <2>2, <3>1, <3>2
  <2>. QED
    BY <1>4, <2>1, <2>2
<1>. QED
  BY <1>6, <1>7, <1>8, <1>9, <1>10 DEF IInv

(* Every step keeps the invariant.                                         *)
LEMMA NextInv == IInv /\ [Next]_vars => IInv'
<1>. SUFFICES ASSUME IInv, UNCHANGED vars PROVE IInv'
  BY PrepareInv, EndInv, ToolCallsInv, DispatchInv DEF Next
<1>. QED
  BY DEF IInv, TypeOK, Dispatching, AskedAt, Counting, TurnsCounted, Answers, CallsAnswered,
         Due, ResultsWanted, vars

(* The conversation runToolLoop sends is always a sequence of well-formed  *)
(* messages, and its counters are numbers.                                 *)
THEOREM TypeCorrect == Spec => []TypeOK
<1>1. IInv => TypeOK
  BY DEF IInv
<1>. QED
  BY <1>1, InitInv, NextInv, PTL DEF Spec

(* Every tool call of an answer is followed by its result, in the order of *)
(* the calls and before anything else is said, however many calls the model*)
(* makes and whatever becomes of their searches (the inner loop of         *)
(* runToolLoop): what a provider demands of the next request.              *)
THEOREM EveryCallIsAnswered == Spec => []CallsAnswered
<1>1. IInv => CallsAnswered
  BY DEF IInv
<1>. QED
  BY <1>1, InitInv, NextInv, PTL DEF Spec

(* runToolLoop never sends a result nobody asked for.                      *)
THEOREM NoStrayResult == Spec => []ResultsWanted
<1>1. IInv => ResultsWanted
  BY DEF IInv
<1>. QED
  BY <1>1, InitInv, NextInv, PTL DEF Spec

(* The model answers with calls at most maxTurns times, for every setting  *)
(* of --code-search-max-turns, and ErrToolLoopExceeded comes after exactly *)
(* as many, or at once when the setting is negative.                       *)
THEOREM TurnsAreCounted == Spec => []TurnsCounted
<1>1. IInv => TurnsCounted
  BY DEF IInv, Counting
<1>. QED
  BY <1>1, InitInv, NextInv, PTL DEF Spec
=============================================================================
