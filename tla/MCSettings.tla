----------------------------- MODULE MCSettings -----------------------------
(* Small instances of Settings: command lines of at most three tokens, with *)
(* a second flag that takes a text, and every layer present or not.         *)
EXTENDS Settings

MCTexts(k) ==
    CASE k = "budget" -> {"7", "010", "0x10", "0"} [] k = "switch" -> {"no", "yes"}
      [] k = "level" -> {"extended", "full"} [] OTHER -> {"model-a", ""}

MCText == UNION {MCTexts(k) : k \in Kinds} \cup Flag \cup {"", "-", "3", "-3", "7", "true", "typo"}

Bare(dashes, text) == [dashes |-> dashes, text |-> text, val |-> Nil]
Assigned(flag, val) == [dashes |-> 2, text |-> flag, val |-> val]

(* What stands where a flag or its value may, the name of the flag as a    *)
(* value, a negative number, a lone dash and the -- among them.            *)
MCTokens(k) ==
    {Assigned(Setting, v) : v \in MCTexts(k) \cup {"-3"}} \cup {Bare(0, v) : v \in MCTexts(k)}
    \cup {Bare(2, Setting), Bare(2, "prompt"), Assigned("prompt", "7"), Bare(0, Setting),
          Bare(1, "3"), Bare(1, ""), Bare(2, ""), Assigned("", "7"), Bare(2, "typo")}

(* The ones that make a difference to what follows them.                   *)
MCShort(k) ==
    {Bare(2, Setting), Bare(2, "prompt"), Bare(0, Setting)}
    \cup {Bare(0, v) : v \in MCTexts(k) \ {"0", "0x10"}}

MCArgv(k) == UNION {[1 .. n -> MCTokens(k)] : n \in 0 .. 2} \cup [1 .. 3 -> MCShort(k)]

MCOverrides(k) ==
    {Nil} \cup CASE k = "budget" -> {0, 5, 9} [] k = "switch" -> {TRUE, FALSE}
                 [] k = "level" -> {"basic", "extended", "full"} [] OTHER -> {"m", "n"}

MCDefault(k) ==
    CASE k = "budget" -> 12 [] k = "switch" -> FALSE [] k = "level" -> "basic" [] OTHER -> "qwen"
=============================================================================
