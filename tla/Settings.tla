------------------------------ MODULE Settings ------------------------------
(***************************************************************************)
(* How one setting of one document gets its value: cliconfig.Parse (kong)  *)
(* reads the command line and the environment, manifest.Parse validates the*)
(* overrides, and effective.Resolve reads the command line and the         *)
(* environment once more to put the layers in order.  Both read the same   *)
(* texts, each in its own way.                                             *)
(***************************************************************************)
EXTENDS Integers, Sequences, FiniteSets

CONSTANTS
    Nil,            \* absence: of a variable, of an override, of a value
    Kinds,          \* subset of {"budget", "switch", "level", "text"}
    Empty,          \* the empty text
    Text,           \* the texts of command lines
    Flag,           \* the names of the command line's flags
    Setting,        \* the flag of the setting
    ArgvOf(_),      \* the command lines tried for a kind: sequences of tokens
    Environment,    \* what the setting's variable holds: Nil, not set, or a text
    OverridesOf(_), \* the values, or Nil, the manifest gives a setting of a kind
    DefaultOf(_)    \* kong's default for the kind

(* A token as the shell hands it over: how many dashes it starts with, the *)
(* text after them and, of a token with two, the text before and after the *)
(* first equals sign (Nil: there is none).  What is a flag and what is a   *)
(* value its readers have to find out.                                     *)
Token == {t \in [dashes : 0 .. 2, text : Text, val : Text \cup {Nil}] :
             t.dashes < 2 => t.val = Nil}

ASSUME SettingsAssumption ==
    /\ Setting \in Flag /\ Flag \subseteq Text /\ Empty \notin Flag
    /\ {"true", "-"} \subseteq Text /\ Nil \notin Text
    /\ Kinds \subseteq {"budget", "switch", "level", "text"}
    /\ \A k \in Kinds : ArgvOf(k) \subseteq Seq(Token)

VARIABLES
    kind,       \* token-budget, ast-context, repo-meta or model, say
    argv, environ, entry, defaults,     \* the four layers above the default
    pc,
    pos,        \* where kong's scanner is in argv
    path,       \* the flags it took, each with its text (Context.Path)
    cfg,        \* the setting in cliconfig.Config
    explicit,   \* CLIExplicit
    eff         \* the setting in effective.Effective

inputs == << kind, argv, environ, entry, defaults >>
vars == << inputs, pc, pos, path, cfg, explicit, eff >>

Init ==
    /\ kind \in Kinds
    /\ argv \in ArgvOf(kind)
    /\ environ \in Environment
    /\ entry \in OverridesOf(kind) /\ defaults \in OverridesOf(kind)
    /\ pc = "flags" /\ pos = 1 /\ path = << >> /\ cfg = Nil /\ explicit = {} /\ eff = Nil

-----------------------------------------------------------------------------
(* kong.  An integer may have the prefix of a base and underscores, 010 is *)
(* eight, and a switch may say yes and no.  Nil: refused.                  *)
Decode(s) ==
    CASE kind = "budget" -> (CASE s = "7" -> 7 [] s = "010" -> 8 [] s = "0x10" -> 16
                               [] s = "1_000" -> 1000 [] s = "0" -> 0 [] s = "-3" -> -3
                               [] OTHER -> Nil)
      [] kind = "switch" -> (CASE s \in {"true", "yes", "1"} -> TRUE
                               [] s \in {"false", "no", "0"} -> FALSE [] OTHER -> Nil)
      [] OTHER -> s

IsSwitch(flag) == kind = "switch" /\ flag = Setting

(* Token.IsValue: a token with a dash in front is no value, but for a lone *)
(* dash.                                                                   *)
IsValue(t) == t.dashes = 0 \/ (t.dashes = 1 /\ t.text = Empty)
ValueOf(t) == IF t.dashes = 0 THEN t.text ELSE "-"

(* Where the scanner stands: at a flag of the command line, and what its   *)
(* mapper reads, the text after the equals sign or the next token; a       *)
(* switch reads no further token.  Nil: nothing to read.                   *)
AtFlag == pos <= Len(argv) /\ argv[pos].dashes = 2 /\ argv[pos].text \in Flag
PopsNext == argv[pos].val = Nil /\ ~IsSwitch(argv[pos].text)
Popped ==
    IF argv[pos].val # Nil THEN argv[pos].val
    ELSE IF IsSwitch(argv[pos].text) THEN "true"
    ELSE IF pos < Len(argv) /\ IsValue(argv[pos + 1]) THEN ValueOf(argv[pos + 1])
    ELSE Nil

Parses == Popped # Nil /\ (argv[pos].text = Setting => Decode(Popped) # Nil)

TraceFlag ==
    /\ pc = "flags" /\ AtFlag /\ Parses
    /\ path' = Append(path, [flag |-> argv[pos].text, text |-> Popped])
    /\ pos' = IF PopsNext THEN pos + 2 ELSE pos + 1
    /\ UNCHANGED << inputs, pc, cfg, explicit, eff >>

(* The end of the line, or the -- that ends the flags, after which kong    *)
(* has nothing to give a value to.                                         *)
Traced ==
    \/ pos > Len(argv)
    \/ pos = Len(argv) /\ argv[pos] = [dashes |-> 2, text |-> Empty, val |-> Nil]

(* What the setting was given on the command line; the last one counts.    *)
Given == {i \in DOMAIN path : path[i].flag = Setting}
LastGiven == path[CHOOSE i \in Given : \A j \in Given : j <= i].text

(* Value.Reset takes the variable's text as soon as it is set, empty or    *)
(* not, also when the command line has the flag; the getenv resolver takes *)
(* it again when it is not empty, which changes nothing.                   *)
FromEnvironment == IF environ = Nil THEN DefaultOf(kind) ELSE Decode(environ)

Parsed == IF Given # {} THEN Decode(LastGiven) ELSE FromEnvironment

(* Mutant: a budget of zero is let through.                                *)
ValidateNonNegative(v) ==
    /\ kind = "budget" => v >= 0
    /\ kind = "level" => v \in {"basic", "extended"}

(* Config.Validate, and the enum of --repo-meta.                           *)
Validate(v) ==
    /\ kind = "budget" => v > 0
    /\ kind = "level" => v \in {"basic", "extended"}

Usable == FromEnvironment # Nil /\ Validate(Parsed)

ParseFlags ==
    /\ pc = "flags" /\ Traced /\ Usable
    /\ cfg' = Parsed
    /\ pc' = "manifest"
    /\ UNCHANGED << inputs, pos, path, explicit, eff >>

(* Anything else where a flag should be, or a value kong or Validate does  *)
(* not take.  (--help and --version print and exit.)                       *)
FlagsRefused ==
    /\ pc = "flags"
    /\ IF Traced THEN ~Usable ELSE ~(AtFlag /\ Parses)
    /\ pc' = "refused"
    /\ UNCHANGED << inputs, pos, path, cfg, explicit, eff >>

-----------------------------------------------------------------------------
(* Mutant: the dashes are not looked at.                                   *)
DetectAnyText == {argv[i].text : i \in DOMAIN argv} \ {Empty}

(* DetectCLIExplicit: whatever starts with two dashes, up to the equals,   *)
(* wherever it stands.                                                     *)
DetectCLIExplicit == {argv[i].text : i \in {j \in DOMAIN argv : argv[j].dashes = 2}} \ {Empty}

(* validateOverrides, for the defaults and for the entry.                  *)
ValidOverride(v) ==
    v # Nil => /\ kind = "budget" => v > 0
               /\ kind = "level" => v \in {"basic", "extended"}

ParseManifest ==
    /\ pc = "manifest" /\ ValidOverride(defaults) /\ ValidOverride(entry)
    /\ explicit' = DetectCLIExplicit
    /\ pc' = "resolve"
    /\ UNCHANGED << inputs, pos, path, cfg, eff >>

ManifestRefused ==
    /\ pc = "manifest" /\ ~(ValidOverride(defaults) /\ ValidOverride(entry))
    /\ pc' = "refused"
    /\ UNCHANGED << inputs, pos, path, cfg, explicit, eff >>

(* strconv's reading of the variable: decimal digits only, and no yes and  *)
(* no.  What it refuses is passed over.                                    *)
ParseEnv(s) ==
    CASE kind = "budget" -> (CASE s = "7" -> 7 [] s = "010" -> 10 [] s = "0" -> 0
                               [] s = "-3" -> -3 [] OTHER -> Nil)
      [] kind = "switch" -> (CASE s \in {"true", "1"} -> TRUE
                               [] s \in {"false", "0"} -> FALSE [] OTHER -> Nil)
      [] OTHER -> s

FromEnv == IF environ \in {Nil, Empty} THEN Nil ELSE ParseEnv(environ)

First(layers) ==
    LET present == {i \in DOMAIN layers : layers[i] # Nil}
    IN  layers[CHOOSE i \in present : \A j \in present : i <= j]

(* Mutant: the defaults of the manifest come before its entry.             *)
DefaultsFirst ==
    IF Setting \in explicit THEN cfg ELSE First(<< FromEnv, defaults, entry, cfg >>)

(* resolveString, resolveBool and resolveInt.                              *)
Resolved == IF Setting \in explicit THEN cfg ELSE First(<< FromEnv, entry, defaults, cfg >>)

Resolve ==
    /\ pc = "resolve"
    /\ eff' = Resolved
    /\ pc' = "resolved"
    /\ UNCHANGED << inputs, pos, path, cfg, explicit >>

Next == TraceFlag \/ ParseFlags \/ FlagsRefused \/ ParseManifest \/ ManifestRefused \/ Resolve

Spec == Init /\ [][Next]_vars
-----------------------------------------------------------------------------
(* Properties.                                                             *)

(* The scan of argv in effective, which knows no flag and looks at each    *)
(* token by itself, finds the flags kong's parser took, and no other: a    *)
(* flag kong took is never overruled by the manifest, and no text kong     *)
(* gave to a flag as its value passes for a flag.                          *)
ExplicitIsGiven == pc = "resolve" => explicit = {path[i].flag : i \in DOMAIN path}

(* The document's value is the one of the highest layer that has any:      *)
(* command line, environment, entry, defaults, kong's default (the comment *)
(* on Resolve), for every variable that is not set, or is set to a text    *)
(* both parsers read alike.                                                *)
ReadAlike == environ = Nil \/ (environ # Empty /\ ParseEnv(environ) = Decode(environ))

PrecedenceKept ==
    pc = "resolved" /\ ReadAlike =>
        eff = First(<< IF Given = {} THEN Nil ELSE Decode(LastGiven),
                       IF environ = Nil THEN Nil ELSE Decode(environ),
                       entry, defaults, DefaultOf(kind) >>)

(* Nothing validates the value a document ends up with, only the flags and *)
(* the manifest it is chosen from, and the environment is read differently *)
(* the second time: it is usable all the same.                             *)
EffectiveUsable ==
    pc = "resolved" => /\ kind = "budget" => eff > 0
                       /\ kind = "level" => eff \in {"basic", "extended"}
=============================================================================
