--------------------------- MODULE SettingsProofs ---------------------------
(***************************************************************************)
(* For every command line, environment and manifest, kong and the scan of  *)
(* argv take the same flags, the layers of a setting are in the documented *)
(* order, and what a document gets is usable.                              *)
(***************************************************************************)
EXTENDS Settings, SequenceTheorems, WellFoundedInduction, TLAPS

(* The flags the scan of argv finds before a position.                     *)
DetectedBefore(n) == {argv[i].text : i \in {j \in 1 .. n - 1 : argv[j].dashes = 2}} \ {Empty}

TracedFlags == {path[i].flag : i \in DOMAIN path}

(* Whatever of argv the scanner has behind it, both readers see alike: the *)
(* tokens it took for values are not among what the scan finds.            *)
PathOK ==
    /\ argv \in Seq(Token)
    /\ pos \in 1 .. Len(argv) + 1
    /\ path \in Seq([flag : Flag, text : Text])
    /\ \A i \in Given : Decode(path[i].text) # Nil
    /\ TracedFlags = DetectedBefore(pos)

(* The inductive invariant: what each phase leaves for the next.           *)
IInv ==
    /\ kind \in Kinds /\ PathOK
    /\ pc \in {"manifest", "resolve", "resolved"} => Traced /\ Usable /\ cfg = Parsed
    /\ pc \in {"resolve", "resolved"} =>
        ValidOverride(defaults) /\ ValidOverride(entry) /\ explicit = DetectCLIExplicit
    /\ pc = "resolved" => eff = Resolved

(* A nonempty set of numbers up to a bound has a greatest element.         *)
LEMMA GreatestPosition ==
    ASSUME NEW n \in Nat, NEW S, S \subseteq 1 .. n, S # {}
    PROVE  \E m \in S : \A i \in S : i <= m
<1>. DEFINE less == OpToRel(<, Nat)
            T == {n - i : i \in S}
<1>1. IsWellFoundedOn(less, Nat)
  BY NatLessThanWellFounded
<1>2. \A x, y \in Nat : x < y => << x, y >> \in less
  BY DEF OpToRel
<1>. HIDE DEF less
<1>3. T \subseteq Nat /\ T # {}
  <2>1. \A i \in S : n - i \in Nat
    OBVIOUS
  <2>2. PICK i \in S : TRUE
    OBVIOUS
  <2>3. n - i \in T
    BY <2>2
  <2>. QED
    BY <2>1, <2>3
<1>4. PICK t \in T : \A u \in T : ~ (<< u, t >> \in less)
  BY <1>1, <1>3, WFMin
<1>5. \A u \in T : ~ (u < t)
  BY <1>2, <1>3, <1>4, Zenon
<1>6. PICK m \in S : t = n - m
  BY <1>4
<1>7. \A i \in S : n - i \in T
  OBVIOUS
<1>8. ASSUME NEW i \in S PROVE i <= m
  <2>1. ~ (n - i < n - m)
    BY <1>5, <1>6, <1>7
  <2>. QED
    BY <2>1
<1>. QED
  BY <1>8

(* The layer First takes, of four.                                         *)
LEMMA FirstOfFour ==
    ASSUME NEW a, NEW b, NEW c, NEW d, d # Nil
    PROVE  First(<< a, b, c, d >>) =
             IF a # Nil THEN a ELSE IF b # Nil THEN b ELSE IF c # Nil THEN c ELSE d
<1>. DEFINE layers == << a, b, c, d >>
            present == {i \in DOMAIN layers : layers[i] # Nil}
            least == IF a # Nil THEN 1 ELSE IF b # Nil THEN 2 ELSE IF c # Nil THEN 3 ELSE 4
<1>1. DOMAIN layers = 1 .. 4
  OBVIOUS
<1>2. /\ layers[1] = a /\ layers[2] = b /\ layers[3] = c /\ layers[4] = d
  OBVIOUS
<1>3. least \in present /\ \A j \in present : least <= j
  BY <1>1, <1>2
<1>4. \A i \in present : i \in Int /\ ((\A j \in present : i <= j) => i = least)
  BY <1>1, <1>3
<1>. HIDE DEF present, layers, least
<1>5. (CHOOSE i \in present : \A j \in present : i <= j) = least
  BY <1>3, <1>4, Zenon
<1>6. First(layers) = layers[least]
  BY <1>5 DEF First, present
<1>. QED
  BY <1>2, <1>6 DEF least, layers

(* And of five.                                                            *)
LEMMA FirstOfFive ==
    ASSUME NEW a, NEW b, NEW c, NEW d, NEW e, a # Nil \/ b # Nil \/ c # Nil \/ d # Nil \/ e # Nil
    PROVE  First(<< a, b, c, d, e >>) =
             IF a # Nil THEN a ELSE IF b # Nil THEN b ELSE IF c # Nil THEN c
             ELSE IF d # Nil THEN d ELSE e
<1>. DEFINE layers == << a, b, c, d, e >>
            present == {i \in DOMAIN layers : layers[i] # Nil}
            least == IF a # Nil THEN 1 ELSE IF b # Nil THEN 2 ELSE IF c # Nil THEN 3
                     ELSE IF d # Nil THEN 4 ELSE 5
<1>1. DOMAIN layers = 1 .. 5
  OBVIOUS
<1>2. /\ layers[1] = a /\ layers[2] = b /\ layers[3] = c /\ layers[4] = d /\ layers[5] = e
  OBVIOUS
<1>3. least \in present /\ \A j \in present : least <= j
  BY <1>1, <1>2
<1>4. \A i \in present : i \in Int /\ ((\A j \in present : i <= j) => i = least)
  BY <1>1, <1>3
<1>. HIDE DEF present, layers, least
<1>5. (CHOOSE i \in present : \A j \in present : i <= j) = least
  BY <1>3, <1>4, Zenon
<1>6. First(layers) = layers[least]
  BY <1>5 DEF First, present
<1>. QED
  BY <1>2, <1>6 DEF least, layers

(* When the command line has the setting, there is a last place.           *)
LEMMA LastGivenIsGiven ==
    ASSUME IInv, Given # {}
    PROVE  \E i \in Given : LastGiven = path[i].text
<1>1. Len(path) \in Nat /\ Given \subseteq 1 .. Len(path)
  BY LenProperties DEF IInv, PathOK, Given
<1>2. PICK m \in Given : \A i \in Given : i <= m
  BY <1>1, GreatestPosition
<1>. DEFINE last == CHOOSE i \in Given : \A j \in Given : j <= i
<1>3. last \in Given
  BY <1>2
<1>. QED
  BY <1>3 DEF LastGiven

-----------------------------------------------------------------------------
(* The invariant holds for every input.                                    *)
LEMMA InitInv == Init => IInv
<1>. SUFFICES ASSUME Init PROVE IInv
  OBVIOUS
<1>1. /\ kind \in Kinds /\ argv \in Seq(Token) /\ pc = "flags" /\ pos = 1 /\ path = << >>
  BY SettingsAssumption DEF Init
<1>2. Len(argv) \in Nat /\ DOMAIN path = {}
  BY <1>1, LenProperties, EmptySeq
<1>3. TracedFlags = {} /\ DetectedBefore(pos) = {} /\ Given = {}
  BY <1>1, <1>2 DEF TracedFlags, DetectedBefore, Given
<1>. QED
  BY <1>1, <1>2, <1>3, EmptySeq DEF IInv, PathOK

(* Nothing a run reads changes, and so does nothing computed from it.      *)
LEMMA Frame ==
    ASSUME UNCHANGED << inputs, pos, path >>
    PROVE  /\ kind' = kind /\ PathOK' = PathOK /\ Traced' = Traced
           /\ Usable' = Usable /\ Parsed' = Parsed
           /\ DetectCLIExplicit' = DetectCLIExplicit /\ Given' = Given
           /\ (ValidOverride(defaults) /\ ValidOverride(entry))'
                <=> ValidOverride(defaults) /\ ValidOverride(entry)
BY DEF inputs, Usable, Validate, Parsed, Traced, PathOK, TracedFlags, DetectedBefore, Given,
   LastGiven, FromEnvironment, Decode, DetectCLIExplicit, ValidOverride

(* What kong reads for a flag is a text, and what it takes from the next   *)
(* token is no flag to anybody.                                            *)
LEMMA PoppedText ==
    ASSUME IInv, AtFlag, Parses
    PROVE  /\ Popped \in Text
           /\ PopsNext => pos < Len(argv) /\ argv[pos + 1].dashes # 2
<1>1. Len(argv) \in Nat /\ DOMAIN argv = 1 .. Len(argv) /\ pos \in 1 .. Len(argv)
  BY LenProperties DEF IInv, PathOK, AtFlag
<1>2. argv[pos] \in Token /\ (pos < Len(argv) => pos + 1 \in 1 .. Len(argv))
  BY <1>1, ElementOfSeq DEF IInv, PathOK
<1>3. pos < Len(argv) => argv[pos + 1] \in Token
  BY <1>1, <1>2, ElementOfSeq DEF IInv, PathOK
<1>4. CASE argv[pos].val # Nil
  BY <1>2, <1>4 DEF Popped, PopsNext, Token
<1>5. CASE argv[pos].val = Nil /\ IsSwitch(argv[pos].text)
  BY <1>5, SettingsAssumption DEF Popped, PopsNext
<1>6. CASE argv[pos].val = Nil /\ ~IsSwitch(argv[pos].text)
  <2>1. pos < Len(argv) /\ IsValue(argv[pos + 1]) /\ Popped = ValueOf(argv[pos + 1])
    BY <1>6 DEF Popped, Parses
  <2>2. ValueOf(argv[pos + 1]) \in Text
    BY <1>3, <2>1, SettingsAssumption DEF ValueOf, Token
  <2>3. argv[pos + 1].dashes # 2
    BY <2>1 DEF IsValue
  <2>. QED
    BY <2>1, <2>2, <2>3
<1>. QED
  BY <1>4, <1>5, <1>6

(* The scan finds one flag more where kong's scanner moves on.             *)
LEMMA DetectedNext ==
    ASSUME IInv, AtFlag, Parses, NEW n \in {pos + 1, pos + 2},
           n = IF PopsNext THEN pos + 2 ELSE pos + 1
    PROVE  /\ n \in 1 .. Len(argv) + 1
           /\ DetectedBefore(n) = DetectedBefore(pos) \cup {argv[pos].text}
<1>1. Len(argv) \in Nat /\ pos \in 1 .. Len(argv) /\ argv[pos].dashes = 2
      /\ argv[pos].text # Empty
  BY LenProperties, SettingsAssumption DEF IInv, PathOK, AtFlag
<1>2. PopsNext => pos < Len(argv) /\ argv[pos + 1].dashes # 2
  BY PoppedText
<1>3. {j \in 1 .. n - 1 : argv[j].dashes = 2} = {j \in 1 .. pos - 1 : argv[j].dashes = 2} \cup {pos}
  <2>1. CASE PopsNext
    <3>1. 1 .. n - 1 = (1 .. pos - 1) \cup {pos, pos + 1}
      BY <1>1, <2>1
    <3>. QED
      BY <1>1, <1>2, <2>1, <3>1
  <2>2. CASE ~PopsNext
    <3>1. 1 .. n - 1 = (1 .. pos - 1) \cup {pos}
      BY <1>1, <2>2
    <3>. QED
      BY <1>1, <3>1
  <2>. QED
    BY <2>1, <2>2
<1>. QED
  BY <1>1, <1>2, <1>3 DEF DetectedBefore

(* kong takes one flag more.                                               *)
LEMMA TraceInv == IInv /\ TraceFlag => IInv'
<1>. SUFFICES ASSUME IInv, TraceFlag PROVE IInv'
  OBVIOUS
<1>. DEFINE flag == argv[pos].text
            new == [flag |-> flag, text |-> Popped]
<1>1. /\ pc = "flags" /\ pc' = "flags" /\ AtFlag /\ Parses /\ UNCHANGED inputs
      /\ path' = Append(path, new) /\ pos' = IF PopsNext THEN pos + 2 ELSE pos + 1
  BY DEF TraceFlag
<1>2. UNCHANGED << kind, argv >>
  BY <1>1 DEF inputs
<1>3. new \in [flag : Flag, text : Text] /\ flag \in Flag /\ Popped \in Text
  BY <1>1, PoppedText DEF AtFlag
<1>. DEFINE n == Len(path) + 1
<1>4. /\ path' \in Seq([flag : Flag, text : Text]) /\ DOMAIN path = 1 .. n - 1
      /\ DOMAIN path' = 1 .. n /\ n \in Nat \ {0}
      /\ path'[n] = new /\ \A i \in 1 .. n - 1 : path'[i] = path[i]
  BY <1>1, <1>3, LenProperties, AppendProperties DEF IInv, PathOK
<1>5. TracedFlags' = TracedFlags \cup {flag}
  <2>1. TracedFlags = {path[i].flag : i \in 1 .. n - 1}
    BY <1>4 DEF TracedFlags
  <2>2. TracedFlags' = {path'[i].flag : i \in 1 .. n}
    BY <1>4 DEF TracedFlags
  <2>3. 1 .. n = (1 .. n - 1) \cup {n}
    BY <1>4
  <2>. QED
    BY <1>4, <2>1, <2>2, <2>3
<1>6. /\ pos' \in 1 .. Len(argv) + 1
      /\ DetectedBefore(pos)' = DetectedBefore(pos) \cup {flag}
  <2>. DEFINE m == IF PopsNext THEN pos + 2 ELSE pos + 1
  <2>1. m \in 1 .. Len(argv) + 1 /\ DetectedBefore(m) = DetectedBefore(pos) \cup {flag}
    BY <1>1, DetectedNext
  <2>2. DetectedBefore(pos)' = {argv[i].text : i \in {j \in 1 .. m - 1 : argv[j].dashes = 2}} \ {Empty}
    BY <1>1, <1>2 DEF DetectedBefore
  <2>. QED
    BY <1>1, <2>1, <2>2 DEF DetectedBefore
<1>7. (\A i \in Given : Decode(path[i].text) # Nil)'
  <2>. SUFFICES ASSUME NEW i \in Given' PROVE Decode(path[i].text)' # Nil
    OBVIOUS
  <2>0. \A s : path'[i].text = s /\ Decode(s) # Nil => Decode(path[i].text)' # Nil
    BY <1>2 DEF Decode
  <2>1. i \in 1 .. n /\ path'[i].flag = Setting
    BY <1>4 DEF Given
  <2>2. CASE i = n
    <3>1. path'[i].text = Popped /\ Decode(Popped) # Nil
      BY <1>1, <1>4, <2>1, <2>2 DEF Parses
    <3>. QED
      BY <2>0, <3>1
  <2>3. CASE i # n
    <3>1. path'[i] = path[i] /\ Decode(path[i].text) # Nil
      BY <1>4, <2>1, <2>3 DEF IInv, PathOK, Given
    <3>. QED
      BY <2>0, <3>1
  <2>. QED
    BY <2>2, <2>3
<1>8. TracedFlags' = DetectedBefore(pos)'
  BY <1>5, <1>6 DEF IInv, PathOK
<1>9. PathOK'
  BY <1>2, <1>4, <1>6, <1>7, <1>8 DEF IInv, PathOK
<1>. QED
  BY <1>1, <1>2, <1>9 DEF IInv

(* kong has read the command line, or refused it.                          *)
LEMMA FlagsInv == IInv /\ (ParseFlags \/ FlagsRefused) => IInv'
<1>. SUFFICES ASSUME IInv, ParseFlags \/ FlagsRefused PROVE IInv'
  OBVIOUS
<1>1. UNCHANGED << inputs, pos, path >>
  BY DEF ParseFlags, FlagsRefused
<1>2. CASE ParseFlags
  BY <1>1, <1>2, Frame DEF ParseFlags, IInv
<1>3. CASE FlagsRefused
  BY <1>1, <1>3, Frame DEF FlagsRefused, IInv
<1>. QED
  BY <1>2, <1>3

(* The manifest is valid, or refused.                                      *)
LEMMA ManifestInv == IInv /\ (ParseManifest \/ ManifestRefused) => IInv'
<1>. SUFFICES ASSUME IInv, ParseManifest \/ ManifestRefused PROVE IInv'
  OBVIOUS
<1>1. UNCHANGED << inputs, pos, path >>
  BY DEF ParseManifest, ManifestRefused
<1>2. CASE ParseManifest
  BY <1>1, <1>2, Frame DEF ParseManifest, IInv
<1>3. CASE ManifestRefused
  BY <1>1, <1>3, Frame DEF ManifestRefused, IInv
<1>. QED
  BY <1>2, <1>3

(* The layers are put in order.                                            *)
LEMMA ResolveInv == IInv /\ Resolve => IInv'
<1>. SUFFICES ASSUME IInv, Resolve PROVE IInv'
  OBVIOUS
<1>1. UNCHANGED << inputs, pos, path >> /\ UNCHANGED << cfg, explicit >> /\ eff' = Resolved
  BY DEF Resolve
<1>2. FromEnv' = FromEnv
  BY <1>1 DEF inputs, FromEnv, ParseEnv
<1>3. Resolved' = Resolved
  BY <1>1, <1>2 DEF Resolved, inputs
<1>. QED
  BY <1>1, <1>3, Frame DEF Resolve, IInv

(* A step that changes nothing.                                            *)
LEMMA StutterInv == IInv /\ UNCHANGED vars => IInv'
<1>. SUFFICES ASSUME IInv, UNCHANGED vars PROVE IInv'
  OBVIOUS
<1>1. UNCHANGED << inputs, pos, path >> /\ UNCHANGED << pc, cfg, explicit, eff >>
  BY DEF vars
<1>2. FromEnv' = FromEnv
  BY <1>1 DEF inputs, FromEnv, ParseEnv
<1>3. Resolved' = Resolved
  BY <1>1, <1>2 DEF Resolved, inputs
<1>. QED
  BY <1>1, <1>3, Frame DEF IInv

(* The invariant is inductive.                                             *)
LEMMA NextInv == IInv /\ [Next]_vars => IInv'
BY TraceInv, FlagsInv, ManifestInv, ResolveInv, StutterInv DEF Next

-----------------------------------------------------------------------------
(* When kong is through, so is the comparison: a -- at the end is no flag  *)
(* to either reader.                                                       *)
LEMMA ScanAgrees ==
    ASSUME IInv, Traced
    PROVE  DetectCLIExplicit = TracedFlags
<1>1. Len(argv) \in Nat /\ DOMAIN argv = 1 .. Len(argv) /\ pos \in 1 .. Len(argv) + 1
      /\ TracedFlags = DetectedBefore(pos)
  BY LenProperties DEF IInv, PathOK
<1>2. CASE pos = Len(argv) + 1
  BY <1>1, <1>2 DEF DetectedBefore, DetectCLIExplicit
<1>3. CASE pos = Len(argv) /\ argv[pos] = [dashes |-> 2, text |-> Empty, val |-> Nil]
  <2>1. DOMAIN argv = (1 .. pos - 1) \cup {pos} /\ argv[pos].text = Empty
    BY <1>1, <1>3
  <2>. QED
    BY <1>1, <2>1 DEF DetectedBefore, DetectCLIExplicit
<1>4. pos > Len(argv) => pos = Len(argv) + 1
  BY <1>1
<1>5. \/ pos > Len(argv)
      \/ pos = Len(argv) /\ argv[pos] = [dashes |-> 2, text |-> Empty, val |-> Nil]
  BY DEF Traced
<1>. QED
  BY <1>2, <1>3, <1>4, <1>5

(* The same of the setting alone.                                          *)
LEMMA SettingExplicit ==
    ASSUME IInv, pc = "resolved"
    PROVE  Setting \in explicit <=> Given # {}
BY ScanAgrees DEF IInv, TracedFlags, Given

(* What the flags and the environment gave, in a phase that has it.        *)
LEMMA ParsedValue ==
    ASSUME IInv, Usable
    PROVE  /\ Given # {} => Parsed = Decode(LastGiven) /\ Decode(LastGiven) # Nil
           /\ Given = {} => Parsed = FromEnvironment
           /\ FromEnvironment # Nil /\ Validate(Parsed)
BY LastGivenIsGiven DEF Usable, Parsed, IInv, PathOK

(* The layers are in the documented order.                                 *)
LEMMA LayersInOrder == IInv => PrecedenceKept
<1>. SUFFICES ASSUME IInv, pc = "resolved", ReadAlike
              PROVE  eff = First(<< IF Given = {} THEN Nil ELSE Decode(LastGiven),
                                    IF environ = Nil THEN Nil ELSE Decode(environ),
                                    entry, defaults, DefaultOf(kind) >>)
  BY DEF PrecedenceKept
<1>1. /\ Usable /\ cfg = Parsed /\ eff = Resolved
      /\ Setting \in explicit <=> Given # {}
  BY SettingExplicit DEF IInv
<1>2. CASE Given # {}
  BY <1>1, <1>2, ParsedValue, FirstOfFive DEF Resolved
<1>3. CASE Given = {} /\ environ = Nil
  <2>1. cfg = DefaultOf(kind) /\ cfg # Nil /\ FromEnv = Nil
    BY <1>1, <1>3, ParsedValue DEF FromEnvironment, FromEnv
  <2>2. eff = First(<< Nil, entry, defaults, cfg >>)
    BY <1>1, <1>3, <2>1 DEF Resolved
  <2>. QED
    BY <1>3, <2>1, <2>2, FirstOfFour, FirstOfFive
<1>4. CASE Given = {} /\ environ # Nil
  <2>1. cfg = Decode(environ) /\ cfg # Nil /\ FromEnv = Decode(environ)
    BY <1>1, <1>4, ParsedValue DEF FromEnvironment, FromEnv, ReadAlike
  <2>2. eff = First(<< Decode(environ), entry, defaults, cfg >>)
    BY <1>1, <1>4, <2>1 DEF Resolved
  <2>. QED
    BY <1>4, <2>1, <2>2, FirstOfFour, FirstOfFive
<1>. QED
  BY <1>2, <1>3, <1>4

(* What a variable holds is usable for effective when kong found it so,    *)
(* though kong may have read another value.                                *)
LEMMA EnvironmentUsable ==
    ASSUME Validate(FromEnvironment), FromEnvironment # Nil, FromEnv # Nil, kind \in Kinds
    PROVE  Validate(FromEnv)
<1>1. environ # Nil /\ FromEnv = ParseEnv(environ) /\ FromEnvironment = Decode(environ)
  BY DEF FromEnv, FromEnvironment
<1>2. CASE kind = "budget"
  BY <1>1, <1>2 DEF ParseEnv, Decode, Validate
<1>3. CASE kind # "budget"
  BY <1>1, <1>3 DEF ParseEnv, Decode, Validate
<1>. QED
  BY <1>2, <1>3

(* The value a document ends up with is usable, whichever layer it is from.*)
LEMMA ValueUsable == IInv => EffectiveUsable
<1>. SUFFICES ASSUME IInv, pc = "resolved" PROVE Validate(eff)
  BY DEF EffectiveUsable, Validate
<1>1. /\ Usable /\ cfg = Parsed /\ eff = Resolved
      /\ ValidOverride(entry) /\ ValidOverride(defaults)
      /\ Setting \in explicit <=> Given # {}
  BY SettingExplicit DEF IInv
<1>2. Validate(cfg)
  BY <1>1 DEF Usable
<1>3. CASE Setting \in explicit
  BY <1>1, <1>2, <1>3 DEF Resolved
<1>4. CASE Setting \notin explicit
  <2>1. cfg = FromEnvironment /\ cfg # Nil
    BY <1>1, <1>4, ParsedValue
  <2>2. eff = First(<< FromEnv, entry, defaults, cfg >>)
    BY <1>1, <1>4 DEF Resolved
  <2>3. eff = IF FromEnv # Nil THEN FromEnv ELSE IF entry # Nil THEN entry
              ELSE IF defaults # Nil THEN defaults ELSE cfg
    BY <2>1, <2>2, FirstOfFour
  <2>4. FromEnv # Nil => Validate(FromEnv)
    BY <1>2, <2>1, EnvironmentUsable DEF IInv
  <2>5. (entry # Nil => Validate(entry)) /\ (defaults # Nil => Validate(defaults))
    BY <1>1 DEF ValidOverride, Validate
  <2>. QED
    BY <1>2, <2>3, <2>4, <2>5
<1>. QED
  BY <1>3, <1>4

-----------------------------------------------------------------------------
(* The invariant holds throughout.                                         *)
LEMMA Invariant == Spec => []IInv
<1>. QED
  BY InitInv, NextInv, PTL DEF Spec

(* The flags effective finds in argv are the flags kong took from it, for  *)
(* every command line kong accepts: a token kong gave to a flag as its     *)
(* value is not among them, and neither is the -- at the end               *)
(* (DetectCLIExplicit against kong's trace and PopValue).                  *)
THEOREM FlagsAgree == Spec => []ExplicitIsGiven
<1>1. IInv => ExplicitIsGiven
  BY ScanAgrees DEF IInv, ExplicitIsGiven, TracedFlags
<1>. QED
  BY <1>1, Invariant, PTL

(* The command line comes before the environment, before the entry, before *)
(* the defaults, before kong's default (effective.Resolve).                *)
THEOREM PrecedenceIsKept == Spec => []PrecedenceKept
BY Invariant, LayersInOrder, PTL

(* A budget is positive and a level known, although only the flags and the *)
(* manifest are validated and the environment is read again.               *)
THEOREM ValuesAreUsable == Spec => []EffectiveUsable
BY Invariant, ValueUsable, PTL
=============================================================================
