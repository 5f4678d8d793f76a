------------------------------- MODULE Variables -------------------------------
(***************************************************************************)
(* The resolver of config variables: which variables a piece of            *)
(* configuration needs, in which order they are resolved, where the value  *)
(* of each comes from, and how values are put into the configuration.      *)
(*                                                                         *)
(* A text is a sequence of tokens: a literal word, ${NAME}, the escaped    *)
(* $${NAME}, or the expression $(echo $NAME), which is a text of its own.  *)
(* A field that may be missing is a set with at most one element. Of the   *)
(* types a value may have only "is a number" is kept; environment          *)
(* variables, answers and outputs are words, and no value is the empty     *)
(* word. The regular expressions for paths are sets of places.             *)
(***************************************************************************)
EXTENDS Integers, Sequences, SequencesExt, FiniteSets, TLC

CONSTANTS
    Names,          \* names of variables
    Predefined,     \* those DevSpace defines itself and always resolves
    Words,          \* literal values
    Numbers,        \* the words that are numbers
    Answers         \* what the user may answer

ASSUME WordsAssumption ==
    /\ Predefined \subseteq Names /\ Numbers \subseteq Words /\ Answers \subseteq Words
    /\ {"", "true", "false", "output"} \subseteq Words \ Numbers

Token == [k : {"lit", "ref", "esc", "sh"}, v : Words \cup Names]
Lit(w) == <<[k |-> "lit", v |-> w]>>
Ref(n) == <<[k |-> "ref", v |-> n]>>

\* latest.Variable, without what a question looks like. AlwaysResolve counts as set unless it is false.
NoDefinition == [value |-> {}, default |-> {}, command |-> {}, source |-> "all", noCache |-> FALSE, always |-> TRUE]

VARIABLES
    given,      \* the command: flags, environment, what the shell does, whether it may ask
    defs,       \* resolver.vars
    mem,        \* resolver.memoryCache
    answers,    \* localCache.Vars in memory
    fill,       \* the call of FillVariables under way
    asked,      \* history: the questions of this load
    origin      \* history: the definition a variable was resolved with

varVars == <<given, defs, mem, answers, fill, asked, origin>>

-----------------------------------------------------------------------------
(* Which variables are needed?                                             *)

Refs(text) == {text[i].v : i \in {j \in DOMAIN text : text[j].k = "ref"}}

\* An environment variable is its own definition.
DefinitionsIn(ds, n) ==
    IF n \in DOMAIN ds THEN {ds[n]}
    ELSE IF n \in DOMAIN given.env THEN {[NoDefinition EXCEPT !.value = {Lit(given.env[n])}]}
    ELSE {}

TextsOf(d) == d.value \cup d.default \cup d.command

Defined(ds, names) == {n \in names : DefinitionsIn(ds, n) # {}}

Parents(ds, n) == Defined(ds, UNION {Refs(t) : t \in UNION {TextsOf(d) : d \in DefinitionsIn(ds, n)}})

\* Mutant: only the variables themselves are inserted.
AncestorsNone(ds, names) == names

\* The graph that insertVariableGraph builds from some variables, one layer after another.
Ancestors(ds, names) ==
    LET Layer[i \in 0..Cardinality(Names)] ==
            IF i = 0 THEN names ELSE LET known == Layer[i-1] IN known \cup UNION {Parents(ds, n) : n \in known}
    IN Layer[Cardinality(Names)]

Cyclic(ds, names) == \E n \in Ancestors(ds, names) : n \in Ancestors(ds, Parents(ds, n))

FindVariables(ds, texts, skipUnused) ==
    LET used == UNION {Refs(texts[p]) : p \in DOMAIN texts}
                \cup IF skipUnused THEN {} ELSE {n \in DOMAIN ds : ds[n].always}
    IN Ancestors(ds, Defined(ds, used))

-----------------------------------------------------------------------------
(* Where does a value come from?                                           *)

\* ParseString with the values in the memory cache: unknown variables stay, an escaped one loses a $.
Substitute(text) ==
    FlattenSeq([i \in DOMAIN text |->
        CASE text[i].k = "ref" /\ text[i].v \in DOMAIN mem -> mem[text[i].v]
          [] text[i].k = "esc"                             -> Ref(text[i].v)
          [] OTHER                                         -> <<text[i]>>])

\* GetLastProfile stands for all predefined variables.
PredefinedVariable(n) == IF given.profiles = <<>> THEN Lit("") ELSE Lit(Last(given.profiles))

\* A definition with its texts filled: value counts as default, without any source.
FillDefinition(d) ==
    [d EXCEPT !.default = {Substitute(t) : t \in d.value \cup d.default},
              !.command = {Substitute(t) : t \in d.command},
              !.source  = IF d.value # {} THEN "none" ELSE @]

\* resolveDefinitionString finds a variable with a definition that has no value yet.
Unresolved(d) == Defined(defs, UNION {Refs(t) : t \in TextsOf(d)}) \ DOMAIN mem # {}

\* valueByType: where the default is a number, the value must be one.
FitsDefault(w, d) == (\E n \in Numbers : d.default = {Lit(n)}) => w \in Numbers

\* What became of a variable: a text, the need to ask, or the reason why the load fails.
Value(text)  == [is |-> "value", text |-> text]
Fails(why)   == [is |-> why]
OfType(w, d) == IF FitsDefault(w, d) THEN Value(Lit(w)) ELSE Fails("type")

DefaultOr(d, otherwise) == IF d.default # {} THEN Value(CHOOSE t \in d.default : TRUE) ELSE otherwise

CommandVariable(d) ==
    CASE d.command = {}        -> Fails("no command")
      [] given.shell = "fails" -> Fails("command")
      [] given.shell = "mute"  -> DefaultOr(d, Value(Lit("")))
      [] OTHER                 -> Value(Lit("output"))

Environment(n) == IF n \in DOMAIN given.env THEN given.env[n] ELSE ""

EnvVariable(n, d) == IF n \in DOMAIN given.env THEN Value(Lit(given.env[n])) ELSE DefaultOr(d, Fails("no environment"))

NoneVariable(d) == DefaultOr(d, Fails("no default"))

DefaultVariable(n, d) ==
    CASE d.command # {}                                  -> CommandVariable(d)
      [] d.source # "input" /\ n \in DOMAIN given.env    -> OfType(given.env[n], d)
      [] ~d.noCache /\ n \in DOMAIN answers              -> OfType(answers[n], d)
      [] given.silent                                    -> DefaultOr(d, Value(Lit(Environment(n))))
      [] OTHER                                           -> [is |-> "ask"]

\* fillVariableDefinition and fillVariable.
Load(n, d) ==
    CASE d.value # {} /\ d.default # {} -> Fails("value and default")
      [] Unresolved(d)                  -> Fails("order")
      [] OTHER -> LET f == FillDefinition(d) IN
                  CASE f.source = "env"     -> EnvVariable(n, f)
                    [] f.source = "none"    -> NoneVariable(f)
                    [] f.source = "command" -> CommandVariable(f)
                    [] OTHER                -> DefaultVariable(n, f)

-----------------------------------------------------------------------------
(* Filling a piece of configuration.                                       *)

NoFill == [texts |-> <<>>, skip |-> TRUE, keep |-> {}, round |-> 0, todo |-> {}, failed |-> "no"]

\* findAndFillVariables up to the resolution of what it found. The predefined variables
\* are resolved every time, errors ignored.
StartRound(ds, texts, skipUnused, keep, round) ==
    LET found == FindVariables(ds, texts, skipUnused)
        known == [n \in DOMAIN mem \cup Predefined |-> IF n \in DOMAIN mem THEN mem[n] ELSE PredefinedVariable(n)]
    IN /\ mem' = known
       /\ fill' = [texts |-> texts, skip |-> skipUnused, keep |-> keep, round |-> round,
                   todo |-> found \ DOMAIN known, failed |-> IF Cyclic(ds, found) THEN "cycle" ELSE "no"]

\* FillVariables, FillVariablesInclude (the texts are the included ones) and
\* FillVariablesExclude (keep are the excluded places, whose variables are resolved too).
StartFill(ds, texts, skipUnused, keep) == StartRound(ds, texts, skipUnused, keep, 1)

\* The order of the graph: what a definition uses comes first. Among unrelated variables any may be next.
Ready(n) == n \in fill.todo /\ Ancestors(defs, Parents(defs, n)) \cap fill.todo = {}

SetVariable(n, text) ==
    /\ mem' = (n :> text) @@ mem
    /\ origin' = (n :> DefinitionsIn(defs, n)) @@ origin
    /\ fill' = [fill EXCEPT !.todo = @ \ {n}]

\* resolve for a variable that is not in the memory cache, unless a question is to be asked.
Resolve(n) ==
    /\ fill.failed = "no" /\ Ready(n)
    /\ \E d \in DefinitionsIn(defs, n) : LET v == Load(n, d) IN
        /\ v.is # "ask"
        /\ IF v.is = "value" THEN SetVariable(n, v.text)
           ELSE fill' = [fill EXCEPT !.failed = v.is] /\ UNCHANGED <<mem, origin>>
    /\ UNCHANGED <<given, defs, answers, asked>>

\* Mutant: the answer is not remembered.
AskForgets(n, a) ==
    /\ fill.failed = "no" /\ Ready(n)
    /\ \E d \in DefinitionsIn(defs, n) :
        /\ Load(n, d).is = "ask"
        /\ answers' = answers
        /\ LET v == OfType(a, FillDefinition(d)) IN
           IF v.is = "value" THEN SetVariable(n, v.text)
           ELSE fill' = [fill EXCEPT !.failed = v.is] /\ UNCHANGED <<mem, origin>>
    /\ asked' = asked \cup {n}
    /\ UNCHANGED <<given, defs>>

\* askQuestion and its answer, which goes to the local cache before its type is looked at.
Ask(n, a) ==
    /\ fill.failed = "no" /\ Ready(n)
    /\ \E d \in DefinitionsIn(defs, n) :
        /\ Load(n, d).is = "ask"
        /\ answers' = IF d.noCache THEN answers ELSE (n :> a) @@ answers
        /\ LET v == OfType(a, FillDefinition(d)) IN
           IF v.is = "value" THEN SetVariable(n, v.text)
           ELSE fill' = [fill EXCEPT !.failed = v.is] /\ UNCHANGED <<mem, origin>>
    /\ asked' = asked \cup {n}
    /\ UNCHANGED <<given, defs>>

\* The user breaks off a question.
Interrupt(n) ==
    /\ fill.failed = "no" /\ Ready(n)
    /\ \E d \in DefinitionsIn(defs, n) : Load(n, d).is = "ask"
    /\ fill' = [fill EXCEPT !.failed = "interrupted"]
    /\ UNCHANGED <<given, defs, mem, answers, asked, origin>>

\* ResolveExpressions: the shell sees the variables resolved so far and the environment;
\* no output counts as true, a failure without output as false.
Evaluate(text) ==
    IF text = <<>> \/ Head(text).k # "sh" THEN text
    ELSE LET n == Head(text).v IN
         CASE given.shell = "fails"                        -> Lit("false")
           [] n \in DOMAIN mem /\ mem[n] # Lit("")         -> mem[n]
           [] n \notin DOMAIN mem /\ n \in DOMAIN given.env -> Lit(given.env[n])
           [] OTHER                                        -> Lit("true")

FilledTexts(Put(_)) == [p \in DOMAIN fill.texts |-> IF p \in fill.keep THEN fill.texts[p] ELSE Put(fill.texts[p])]

\* The values are put in; after the first round the expressions are evaluated and
\* everything is done again.
PutIn ==
    /\ fill.round \in {1, 2} /\ fill.todo = {} /\ fill.failed = "no"
    /\ IF fill.round = 1
       THEN StartRound(defs, FilledTexts(LAMBDA t : Evaluate(Substitute(t))), fill.skip, fill.keep, 2)
       ELSE fill' = [fill EXCEPT !.texts = FilledTexts(Substitute), !.round = 3] /\ UNCHANGED mem
    /\ UNCHANGED <<given, defs, answers, asked, origin>>

Fill == (\E n \in fill.todo : Resolve(n) \/ Interrupt(n) \/ \E a \in Answers : Ask(n, a)) \/ PutIn

FillDone   == fill.round = 3
FillFailed == fill.failed # "no"
=============================================================================
