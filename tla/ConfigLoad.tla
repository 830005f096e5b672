----------------------------- MODULE ConfigLoad -----------------------------
(***************************************************************************)
(* LoadConfig (internal/cdpbridge/config.go, internal/config) and what     *)
(* main does with its result: defaults, the YAML file, the environment and *)
(* the command line, laid over each other, then the check of the subject   *)
(* prefixes.  The path of the file is peeked from the arguments before the *)
(* flag package parses them.                                               *)
(*                                                                         *)
(* An operator types settings, each a flag and a value; the arguments are  *)
(* their words.  A word is a flag, perhaps with a value joined to it, or   *)
(* plain text.  Of the fields of Config, the two prefixes are checked; the *)
(* others differ in how their values are converted.                        *)
(***************************************************************************)
EXTENDS Subjects

CONSTANTS
    Character,      \* what texts consist of; the name of a flag counts as one
    PrefixField, IntField, BoolField,   \* the fields of Config
    Defaults,       \* field |-> value
    File,           \* what a path may hold: [readable, values]
    Path,           \* the paths there is a file for
    Environment,    \* environments: variable |-> text; "config" is CONFIG_FILE
    Setting,        \* what an operator may type: [flag, joined, value], value a word
    MaxTyped,       \* bound: settings typed
    Trailing,       \* words that may follow them: sequences of words
    Atoi, ParseInt, \* the integers strconv takes, in base 10 and in base 0
    ParseBool

Field == PrefixField \cup IntField \cup BoolField
Flag == Field \cup {"config"}
Text == Seq(Character)

\* A word that is spelled like a flag is one, as "-1" is the flag "1".
IsWord(word) == word.flag = "none" => Len(word.value) < 2 \/ word.value[1] # "-"
Word == {word \in [flag : Character, joined : BOOLEAN, value : Text] : IsWord(word)}

\* Each prefix of a layer is a text.
IsLayer(values) ==
    DOMAIN values \subseteq Field /\ \A f \in DOMAIN values \cap PrefixField : values[f] \in Text

ASSUME ConfigAssumption ==
    /\ PrefixField \cap IntField = {} /\ BoolField \cap (PrefixField \cup IntField) = {}
    /\ Field \cap {"config", "none", "help", "h", "-"} = {}
    /\ Flag \cup {"-", "=", ".", "x", "t"} \subseteq Character
    /\ IsLayer(Defaults) /\ DOMAIN Defaults = Field
    /\ \A file \in File : file.readable \in BOOLEAN /\ IsLayer(file.values)
    /\ \A e \in Environment : DOMAIN e \subseteq Flag /\ \A v \in DOMAIN e : e[v] \in Text
    /\ Setting \subseteq [flag : Flag, joined : BOOLEAN, value : Word]
    /\ Path \subseteq Text /\ Trailing \subseteq Seq(Word) /\ MaxTyped \in Nat

VARIABLES
    files,          \* path |-> file
    env,            \* the environment
    typed, trailing,    \* what the operator typed
    cfg,            \* Config
    configPath,
    rest,           \* arguments the flag package has not parsed yet
    configFlag,     \* the variable that --config sets
    step            \* where LoadConfig is, or the status main exits with

inputs == <<files, env, typed, trailing>>
vars == <<inputs, cfg, configPath, rest, configFlag, step>>

Plain(text) == [flag |-> "none", joined |-> FALSE, value |-> text]

\* The characters of a word.
TextOf(word) ==
    IF word.flag = "none" THEN word.value
    ELSE <<"-", word.flag>> \o IF word.joined THEN <<"=">> \o word.value ELSE <<>>

\* A flag without a joined value takes the next word, unless it is Boolean.
TakesNext(word) == ~ word.joined /\ word.flag \notin BoolField

WordsOf(setting) ==
    LET flag == [flag |-> setting.flag, joined |-> setting.joined,
                 value |-> IF setting.joined THEN TextOf(setting.value) ELSE <<>>]
    IN  IF TakesNext(flag) THEN <<flag, setting.value>> ELSE <<flag>>

\* The words of the first n settings.
FirstWords(settings, n) ==
    LET words[k \in 0..Len(settings)] ==
            IF k = 0 THEN <<>> ELSE words[k - 1] \o WordsOf(settings[k])
    IN  words[n]

Args == FirstWords(typed, Len(typed)) \o trailing

\* The values of a layer go over those below it.
Over(layer, below) ==
    [f \in DOMAIN below |-> IF f \in DOMAIN layer THEN layer[f] ELSE below[f]]

\* Conversions that strconv refuses leave no value; ints are read in base 10
\* from the environment and in any base from a flag.
Converts(ints, field, text) ==
    /\ field \in IntField => text \in DOMAIN ints
    /\ field \in BoolField => text \in DOMAIN ParseBool

Value(ints, field, text) ==
    CASE field \in IntField -> ints[text]
      [] field \in BoolField -> ParseBool[text]
      [] OTHER -> text

TrueText == <<"t">>     \* what a Boolean flag without a value is set to
ASSUME TrueAssumption == TrueText \in DOMAIN ParseBool
-----------------------------------------------------------------------------
Init ==
    /\ files \in [Path -> File] /\ env \in Environment
    /\ typed \in UNION {[1..n -> Setting] : n \in 0..MaxTyped}
    /\ trailing \in Trailing
    /\ cfg = Defaults
    /\ configPath = <<>> /\ rest = <<>> /\ configFlag = <<>>
    /\ step = "peek"

\* Mutant: a path joined with "=" is not seen.
PeekTwoWords ==
    LET names == {k \in DOMAIN Args : /\ Args[k].flag = "config"
                                      /\ ~ Args[k].joined /\ k < Len(Args)}
    IN  IF names # {} THEN TextOf(Args[Min(names) + 1])
        ELSE IF "config" \in DOMAIN env THEN env["config"] ELSE <<>>

findConfigPath ==
    LET names == {k \in DOMAIN Args : /\ Args[k].flag = "config"
                                      /\ Args[k].joined \/ k < Len(Args)}
        first == Args[Min(names)]
    IN  IF names # {}
        THEN IF first.joined THEN first.value ELSE TextOf(Args[Min(names) + 1])
        ELSE IF "config" \in DOMAIN env THEN env["config"] ELSE <<>>

Peek ==
    /\ step = "peek"
    /\ configPath' = findConfigPath
    /\ step' = "file"
    /\ UNCHANGED <<inputs, cfg, rest, configFlag>>

\* LoadConfig returns an error: main exits with status 2, or with 0 for help.
Fail(status) ==
    /\ step' = status
    /\ UNCHANGED <<inputs, cfg, configPath, rest, configFlag>>

Readable == configPath \in Path /\ files[configPath].readable

\* A missing file, a key or a value that Decode refuses, an empty file.
FileRefused ==
    /\ step = "file" /\ configPath # <<>> /\ ~ Readable
    /\ Fail("exit 2")

LoadYAMLInto ==
    /\ step = "file"
    /\ configPath = <<>> \/ Readable
    /\ cfg' = IF configPath = <<>> THEN cfg ELSE Over(files[configPath].values, cfg)
    /\ step' = "environment"
    /\ UNCHANGED <<inputs, configPath, rest, configFlag>>

\* Variables that do not convert are ignored with a warning; empty ones count.
EnvLayer ==
    [field \in {f \in DOMAIN env \cap Field : Converts(Atoi, f, env[f])} |->
        Value(Atoi, field, env[field])]

\* Mutant: the environment only fills what the file leaves at its default.
ApplyEnvBelowFile ==
    /\ step = "environment"
    /\ cfg' = [f \in Field |-> IF f \in DOMAIN EnvLayer /\ cfg[f] = Defaults[f]
                               THEN EnvLayer[f] ELSE cfg[f]]
    /\ rest' = Args
    /\ configFlag' = configPath
    /\ step' = "flags"
    /\ UNCHANGED <<inputs, configPath>>

\* The flags are then declared with the values so far as their defaults.
applyEnv ==
    /\ step = "environment"
    /\ cfg' = Over(EnvLayer, cfg)
    /\ rest' = Args
    /\ configFlag' = configPath
    /\ step' = "flags"
    /\ UNCHANGED <<inputs, configPath>>

\* The flag package stops at the first plain word, and at "--".
EndsFlags(word) == word.flag = "none" \/ (word.flag = "-" /\ ~ word.joined)

FlagWord == Head(rest)
FlagNext == step = "flags" /\ rest # <<>> /\ ~ EndsFlags(FlagWord)
Given == ~ TakesNext(FlagWord) \/ Len(rest) > 1
FlagText ==
    IF FlagWord.joined THEN FlagWord.value
    ELSE IF TakesNext(FlagWord) THEN TextOf(rest[2]) ELSE TrueText

FlagValid == FlagWord.flag \in Flag /\ Given /\ Converts(ParseInt, FlagWord.flag, FlagText)

\* An unknown flag, one without its value, or one whose value does not convert.
FlagRefused ==
    /\ FlagNext /\ ~ FlagValid
    /\ Fail(IF FlagWord.flag \in {"help", "h"} THEN "exit 0" ELSE "exit 2")

ParseFlag ==
    /\ FlagNext /\ FlagValid
    /\ IF FlagWord.flag = "config"
       THEN configFlag' = FlagText /\ UNCHANGED cfg
       ELSE /\ cfg' = [cfg EXCEPT ![FlagWord.flag] =
                          Value(ParseInt, FlagWord.flag, FlagText)]
            /\ UNCHANGED configFlag
    /\ rest' = SubSeq(rest, IF TakesNext(FlagWord) THEN 3 ELSE 2, Len(rest))
    /\ UNCHANGED <<inputs, configPath, step>>

\* Nobody looks at the words that are left.
ParseEnds ==
    /\ step = "flags"
    /\ rest # <<>> => EndsFlags(FlagWord)
    /\ step' = "prefixes"
    /\ UNCHANGED <<inputs, cfg, configPath, rest, configFlag>>

PrefixRefused ==
    /\ step = "prefixes" /\ \E f \in PrefixField : ~ ValidPrefix(cfg[f])
    /\ Fail("exit 2")

Loaded ==
    /\ step = "prefixes" /\ \A f \in PrefixField : ValidPrefix(cfg[f])
    /\ step' = "loaded"
    /\ UNCHANGED <<inputs, cfg, configPath, rest, configFlag>>

Next ==
    \/ Peek \/ FileRefused \/ LoadYAMLInto \/ applyEnv \/ ParseFlag \/ FlagRefused
    \/ ParseEnds \/ PrefixRefused \/ Loaded

Spec == Init /\ [][Next]_vars
-----------------------------------------------------------------------------
(***************************************************************************)
(* What the operator asked for, read off the settings and not the words.   *)
(***************************************************************************)
\* Nothing but settings was typed, the file at most once, and no value is
\* spelled like --config.
Unambiguous ==
    /\ trailing = <<>>
    /\ Cardinality({k \in DOMAIN typed : typed[k].flag = "config"}) <= 1
    /\ \A k \in DOMAIN typed : typed[k].value.flag # "config"

TypedFor(flag) == {k \in DOMAIN typed : typed[k].flag = flag}
Meant(setting) ==
    IF setting.flag \in BoolField /\ ~ setting.joined THEN TrueText ELSE TextOf(setting.value)
Typed(flag) == Meant(typed[Max(TypedFor(flag))])

NamedFile ==
    IF TypedFor("config") # {} THEN Typed("config")
    ELSE IF "config" \in DOMAIN env THEN env["config"] ELSE <<>>

\* Flags, then the environment, then the file, then the defaults.
Resolved(field) ==
    IF TypedFor(field) # {} THEN Value(ParseInt, field, Typed(field))
    ELSE IF field \in DOMAIN EnvLayer THEN EnvLayer[field]
    ELSE IF NamedFile # <<>> /\ field \in DOMAIN files[NamedFile].values
         THEN files[NamedFile].values[field]
    ELSE Defaults[field]

\* Every field has the value of the highest layer that gives it one, and the
\* file is the one that was named (config.go:75-142, README.md:253-260).
PriorityOrder ==
    step = "loaded" /\ Unambiguous => \A f \in Field : cfg[f] = Resolved(f)

Publishable(prefix) == IsSubject(prefix \o <<".", "x">>)

\* LoadConfig fails only for a file that cannot be read, a value that does not
\* convert, or a prefix that gives no subject; a mistake in the environment
\* stops nothing (config.go:80-152, 195-274).
ErrorsAreMistakes ==
    step = "exit 2" /\ Unambiguous =>
        \/ NamedFile # <<>> /\ ~ (NamedFile \in Path /\ files[NamedFile].readable)
        \/ \E k \in DOMAIN typed : ~ Converts(ParseInt, typed[k].flag, Meant(typed[k]))
        \/ \E f \in PrefixField : Resolved(f) # <<>> /\ ~ Publishable(Resolved(f))

\* A prefix that is not empty gives legal subjects, whatever layer it is from
\* (config.go:144-174).
PrefixesGiveSubjects ==
    step = "loaded" =>
        \A f \in PrefixField : cfg[f] # <<>> => Publishable(cfg[f])

\* config.go:154-157: the check "rejects characters and structures that produce
\* invalid NATS subjects: wildcards, whitespace, and empty tokens".
LoadedPrefixesPublish ==
    step = "loaded" => \A f \in PrefixField : Publishable(cfg[f])
-----------------------------------------------------------------------------
\* The inductive invariant: stage by stage, what cfg is made of.
FromFile == IF configPath = <<>> THEN Defaults ELSE Over(files[configPath].values, Defaults)
FromEnvironment == Over(EnvLayer, FromFile)

\* The first n settings on top of it, each flag as it was set last.
WithSettings(n) ==
    [f \in Field |->
        LET mine == TypedFor(f) \cap 1..n
        IN  IF mine = {} THEN FromEnvironment[f]
            ELSE Value(ParseInt, f, Meant(typed[Max(mine)]))]

\* The flag package stands between two settings and has applied those before.
BetweenSettings ==
    \E n \in 0..Len(typed) :
        /\ rest = SubSeq(Args, Len(FirstWords(typed, n)) + 1, Len(Args))
        /\ cfg = WithSettings(n)

LoadTypeOK ==
    /\ files \in [Path -> File] /\ env \in Environment
    /\ typed \in Seq(Setting) /\ trailing \in Seq(Word)
    /\ IsLayer(cfg) /\ DOMAIN cfg = Field
    /\ rest \in Seq(Word) /\ configPath \in Text
    /\ step \in {"peek", "file", "environment", "flags", "prefixes", "loaded", "exit 0", "exit 2"}

LoadInv ==
    /\ LoadTypeOK
    /\ step # "peek" /\ Unambiguous => configPath = NamedFile
    /\ step \in {"peek", "file"} => cfg = Defaults
    /\ step \in {"environment", "flags", "prefixes", "loaded"} => configPath = <<>> \/ Readable
    /\ step = "environment" => cfg = FromFile
    /\ step = "flags" /\ Unambiguous => BetweenSettings
    /\ step \in {"prefixes", "loaded"} /\ Unambiguous => cfg = WithSettings(Len(typed))
    /\ ErrorsAreMistakes /\ PrefixesGiveSubjects
=============================================================================
