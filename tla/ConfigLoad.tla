------------------------------ MODULE ConfigLoad ------------------------------
(***************************************************************************)
(* Loading devspace.yaml: imports, profiles, variables and the local cache *)
(* that remembers the answers of the user (configLoader.LoadWithParser).   *)
(*                                                                         *)
(* A file has the sections vars, images (any section that is a map),       *)
(* hooks (any section that is a list), profiles and imports. The texts of  *)
(* the RuntimeKeys of images stand for the runtime locations. Files,       *)
(* imports and parents of profiles are found in Files; downloading them,   *)
(* the upgrade to the latest version (see ConfigUpgrade), plugin hooks,    *)
(* the requirements and the remote cache are left out. One process uses    *)
(* the local cache at a time.                                              *)
(***************************************************************************)
EXTENDS Variables

CONSTANTS
    Files,          \* file name -> its content
    Objects,        \* what an expression that prints an object evaluates to
    Commands,       \* the commands that may be run: files, flags, environment, options
    Keys,           \* keys of images
    RuntimeKeys,    \* ... whose texts are filled when they are used
    Refused,        \* words that the validation refuses in images
    MaxDepth,       \* profile chains end with an error here, 50 in the code
    MaxLoads        \* bound: number of loads

VARIABLES
    pc,
    data,       \* copiedRawConfig
    frames,     \* the calls of ResolveImports: merged map and imports to go
    chain,      \* the profiles to be applied, strongest first
    at,         \* index into profiles or activations
    picked,     \* the profiles found activated
    disk,       \* the variables of the local cache on disk
    loads,
    read,       \* history: files in the order they were merged
    base,       \* history: the configuration before profiles were applied
    raw,        \* history: ... before variables were filled in
    applied,    \* history: the profiles in the order they were applied
    memo        \* history: the first load that was saved since the last reset

loadVars == <<pc, data, frames, chain, at, picked, disk, loads, read, base, raw, applied, memo>>
vars == <<varVars, loadVars>>

Nothing == <<>>
NoData  == [version |-> "", vars |-> Nothing, images |-> Nothing, hooks |-> <<>>, profiles |-> <<>>, imports |-> <<>>]

Idle == pc \in {"idle", "done", "failed"}

Init ==
    /\ given \in Commands
    /\ defs = Nothing /\ mem = Nothing /\ answers = Nothing /\ fill = NoFill /\ asked = {} /\ origin = Nothing
    /\ pc = "idle" /\ data = NoData /\ frames = <<>> /\ chain = <<>> /\ at = 1 /\ picked = <<>>
    /\ disk = Nothing /\ loads = 0
    /\ read = <<>> /\ base = NoData /\ raw = NoData /\ applied = <<>> /\ memo = {}

GoTo(p) == pc' = p

\* The load ends with an error: the local cache is not saved.
Fail == GoTo("failed") /\ UNCHANGED <<varVars, data, frames, chain, at, picked, disk, loads, read, base, raw, applied, memo>>

-----------------------------------------------------------------------------
(* A command begins; imports.                                              *)

\* LoadWithParser: the local cache is read, the flags are in the memory cache.
Start ==
    /\ Idle /\ loads < MaxLoads
    /\ given' \in Commands
    /\ loads' = loads + 1
    /\ answers' = disk /\ mem' = given'.flags /\ defs' = Nothing /\ fill' = NoFill /\ asked' = {} /\ origin' = Nothing
    /\ frames' = <<[data |-> Files[given'.file], rest |-> <<>>]>> /\ read' = <<given'.file>>
    /\ data' = NoData /\ chain' = <<>> /\ at' = 1 /\ picked' = <<>> /\ base' = NoData /\ raw' = NoData /\ applied' = <<>>
    /\ GoTo("enter")
    /\ UNCHANGED <<disk, memo>>

Frame == Last(frames)

\* The texts of the imports and nothing else (FillVariablesInclude).
ImportTexts(imports) ==
    [p \in {<<i, "source">> : i \in DOMAIN imports} \cup {<<i, "enabled">> : i \in {j \in DOMAIN imports : imports[j].enabled # {}}} |->
        IF p[2] = "source" THEN imports[p[1]].source ELSE CHOOSE t \in imports[p[1]].enabled : TRUE]

\* ResolveImports up to the call of FillVariablesInclude.
EnterImports ==
    /\ pc = "enter"
    /\ defs' = Frame.data.vars
    /\ StartFill(defs', ImportTexts(Frame.data.imports), TRUE, {})
    /\ GoTo("filling imports")
    /\ UNCHANGED <<given, answers, asked, origin, data, frames, chain, at, picked, disk, loads, read, base, raw, applied, memo>>

\* The filled imports are parsed: enabled must be a boolean.
ImportsFilled ==
    /\ pc = "filling imports" /\ FillDone
    /\ LET t == fill.texts
           Enabled(i) == IF <<i, "enabled">> \in DOMAIN t THEN t[<<i, "enabled">>] ELSE Lit("true")
       IN IF \E i \in DOMAIN Frame.data.imports : Enabled(i) \notin {Lit("true"), Lit("false")} THEN Fail
          ELSE /\ frames' = [frames EXCEPT ![Len(frames)].rest =
                                [i \in DOMAIN Frame.data.imports |-> [source |-> t[<<i, "source">>], enabled |-> Enabled(i) = Lit("true")]]]
               /\ GoTo("importing")
               /\ UNCHANGED <<varVars, data, chain, at, picked, disk, loads, read, base, raw, applied, memo>>

\* The file an import names; none if a variable in it is unknown.
FileOf(source) == {f \in DOMAIN Files : source = Lit(f)}

\* Keys that are there stay, lists are joined, and the imports are those of the import.
MergeImport(old, new) ==
    [old EXCEPT !.vars = @ @@ new.vars, !.images = @ @@ new.images,
                !.hooks = @ \o new.hooks, !.profiles = @ \o new.profiles, !.imports = new.imports]

\* One turn of the loop over the imports, up to the recursive call.
NextImport ==
    /\ pc = "importing" /\ Frame.rest # <<>>
    /\ LET i == Head(Frame.rest)
           rest == [frames EXCEPT ![Len(frames)].rest = Tail(@)]
       IN IF ~i.enabled THEN frames' = rest /\ UNCHANGED <<pc, varVars, data, chain, at, picked, disk, loads, read, base, raw, applied, memo>>
          ELSE IF ~\E f \in FileOf(i.source) : Files[f].version = Frame.data.version THEN Fail
          ELSE \E f \in FileOf(i.source) :
               /\ frames' = Append(rest, [data |-> MergeImport(Frame.data, Files[f]), rest |-> <<>>])
               /\ read' = Append(read, f)
               /\ GoTo("enter")
               /\ UNCHANGED <<varVars, data, chain, at, picked, disk, loads, base, raw, applied, memo>>

\* The loop is over: back to the caller, whose map is replaced, or on to the profiles.
ImportsDone ==
    /\ pc = "importing" /\ Frame.rest = <<>>
    /\ LET merged == [Frame.data EXCEPT !.imports = <<>>] IN
       IF Len(frames) = 1
       THEN data' = merged /\ base' = merged /\ frames' = <<>> /\ at' = 1 /\ GoTo("preparing")
       ELSE frames' = [Front(frames) EXCEPT ![Len(frames) - 1].data = merged] /\ UNCHANGED <<pc, data, base, at>>
    /\ UNCHANGED <<varVars, chain, picked, disk, loads, read, raw, applied, memo>>

-----------------------------------------------------------------------------
(* Which profiles are applied?                                             *)

\* prepareProfiles: a merge section given as a text is filled at once.
PrepareProfile ==
    /\ pc = "preparing"
    /\ IF at > Len(data.profiles)
       THEN at' = 1 /\ GoTo("activating") /\ UNCHANGED <<mem, fill>>
       ELSE /\ StartFill(defs, IF data.profiles[at].mergeFrom = {} THEN Nothing
                               ELSE "merge" :> (CHOOSE t \in data.profiles[at].mergeFrom : TRUE), TRUE, {})
            /\ GoTo("filling profile") /\ UNCHANGED at
    /\ UNCHANGED <<given, defs, answers, asked, origin, data, frames, chain, picked, disk, loads, read, base, raw, applied, memo>>

\* The text has become an object, or parsing the profiles will fail.
ProfileFilled ==
    /\ pc = "filling profile" /\ FillDone
    /\ IF fill.texts = Nothing THEN UNCHANGED data /\ at' = at + 1 /\ GoTo("preparing")
       ELSE \/ \E w \in DOMAIN Objects :
                 /\ fill.texts["merge"] = Lit(w)
                 /\ data' = [data EXCEPT !.profiles[at].merge = Objects[w]]
                 /\ at' = at + 1 /\ GoTo("preparing")
            \/ /\ \A w \in DOMAIN Objects : fill.texts["merge"] # Lit(w)
               /\ UNCHANGED <<data, at>> /\ GoTo("failed")
    /\ UNCHANGED <<varVars, frames, chain, picked, disk, loads, read, base, raw, applied, memo>>

\* The activations of all profiles in order.
Activations ==
    FlattenSeq([i \in DOMAIN data.profiles |->
        [j \in DOMAIN data.profiles[i].activation |-> [name |-> data.profiles[i].name, when |-> data.profiles[i].activation[j]]]])

\* getActivatedProfiles: the variables of an activation are resolved whether or not its
\* environment matches. (With several variables the code stops at the first mismatch.)
CheckActivation ==
    /\ pc = "activating"
    /\ IF ~given.activate \/ at > Len(Activations) THEN GoTo("chaining") /\ UNCHANGED <<mem, fill>>
       ELSE StartFill(defs, [c \in Activations[at].when.vars |-> Ref(c[1])], TRUE, {}) /\ GoTo("matching")
    /\ UNCHANGED <<given, defs, answers, asked, origin, data, frames, chain, at, picked, disk, loads, read, base, raw, applied, memo>>

MatchEnvironment(env) == \A c \in env : Environment(c[1]) = c[2]

MatchVars == \A c \in DOMAIN fill.texts : fill.texts[c] = Lit(c[2])

\* Mutant: an activation that does not match is looked at again.
ActivationCheckedAgain ==
    /\ pc = "matching" /\ FillDone
    /\ IF MatchEnvironment(Activations[at].when.env) /\ MatchVars
       THEN picked' = Append(picked, Activations[at].name) /\ at' = at + 1
       ELSE UNCHANGED <<picked, at>>
    /\ GoTo("activating")
    /\ UNCHANGED <<varVars, data, frames, chain, disk, loads, read, base, raw, applied, memo>>

ActivationChecked ==
    /\ pc = "matching" /\ FillDone
    /\ picked' = IF MatchEnvironment(Activations[at].when.env) /\ MatchVars THEN Append(picked, Activations[at].name) ELSE picked
    /\ at' = at + 1 /\ GoTo("activating")
    /\ UNCHANGED <<varVars, data, frames, chain, disk, loads, read, base, raw, applied, memo>>

\* filterProfileParents: of equal names the last one stays.
LastOnes(names) ==
    LET kept == {i \in DOMAIN names : \A j \in DOMAIN names : j > i => names[j] # names[i]}
    IN [i \in 1..Cardinality(kept) |-> names[CHOOSE j \in kept : Cardinality({k \in kept : k <= j}) = i]]

Selected == LastOnes(picked \o given.profiles)

\* getProfiles: the profile and its parents, the last parent first, in the profiles of this
\* configuration or those of another file; no element if one of them is missing or the chain
\* is too deep. A single parent is a list of one.
RECURSIVE GetProfiles(_, _, _)
GetProfiles(profiles, name, depth) ==
    LET found == {i \in DOMAIN profiles : profiles[i].name = name} IN
    IF depth > MaxDepth \/ found = {} THEN {}
    ELSE LET p == profiles[CHOOSE i \in found : \A j \in found : i <= j]
             Parent(i) == p.parents[Len(p.parents) + 1 - i]
             Found(q) == IF q.from = {} THEN GetProfiles(profiles, q.profile, depth + 1)
                         ELSE GetProfiles(Files[CHOOSE f \in q.from : TRUE].profiles, q.profile, depth + 1)
             With[i \in 0..Len(p.parents)] ==
                 IF i = 0 THEN {<<p>>} ELSE {a \o b : a \in With[i-1], b \in Found(Parent(i))}
         IN With[Len(p.parents)]

\* Mutant: the first profile first.
ChainOfFirst(profiles, names) ==
    LET From[i \in 0..Len(names)] ==
            IF i = 0 THEN {<<>>} ELSE {a \o b : a \in From[i-1], b \in GetProfiles(profiles, names[i], 1)}
    IN From[Len(names)]

\* ParseProfile after the activations: the last profile first.
ChainOf(profiles, names) ==
    LET From[i \in 0..Len(names)] ==
            IF i = 0 THEN {<<>>} ELSE {a \o b : a \in From[i-1], b \in GetProfiles(profiles, names[Len(names) + 1 - i], 1)}
    IN From[Len(names)]

ParseProfile ==
    /\ pc = "chaining"
    /\ IF ChainOf(data.profiles, Selected) = {} THEN Fail
       ELSE /\ chain' \in ChainOf(data.profiles, Selected)
            /\ data' = [data EXCEPT !.profiles = <<>>]
            /\ GoTo("applying")
            /\ UNCHANGED <<varVars, frames, at, picked, disk, loads, read, base, raw, applied, memo>>

-----------------------------------------------------------------------------
(* Applying a profile.                                                     *)

\* ApplyReplace: whole sections.
ApplyReplace(d, part) ==
    [d EXCEPT !.vars   = IF part.vars = {} THEN @ ELSE CHOOSE s \in part.vars : TRUE,
              !.images = IF part.images = {} THEN @ ELSE CHOOSE s \in part.images : TRUE,
              !.hooks  = IF part.hooks = {} THEN @ ELSE CHOOSE s \in part.hooks : TRUE]

Null == <<>>

\* A JSON merge patch: maps key by key, null removes, anything else is replaced. Join says
\* what becomes of one key.
MergePatch(old, new, Join(_, _)) ==
    [k \in (DOMAIN old \cup DOMAIN new) \ {n \in DOMAIN new : new[n] = Null} |->
        IF k \in DOMAIN new THEN Join(k, new[k]) ELSE old[k]]

ApplyMerge(d, part) ==
    LET Variable(n, v) == v @@ IF n \in DOMAIN d.vars THEN d.vars[n] ELSE NoDefinition
        Image(k, t) == t
    IN [d EXCEPT !.vars   = IF part.vars = {} THEN @ ELSE MergePatch(@, CHOOSE s \in part.vars : TRUE, Variable),
                 !.images = IF part.images = {} THEN @ ELSE MergePatch(@, CHOOSE s \in part.images : TRUE, Image),
                 !.hooks  = IF part.hooks = {} THEN @ ELSE CHOOSE s \in part.hooks : TRUE]

\* A patch is for images.KEY or for hooks[INDEX]; index 0 is hooks itself, which is only added to.
PathExists(d, p) == IF p.section = "images" THEN p.key \in DOMAIN d.images ELSE p.key \in 0..Len(d.hooks)

\* Operation.Perform; no element if it fails. An element of a list is inserted, a key must be new.
Perform(d, p, op) ==
    CASE p.section = "images" /\ op = "add" ->
            IF PathExists(d, p) THEN {} ELSE {[d EXCEPT !.images = (p.key :> p.value) @@ @]}
      [] p.section = "images" /\ op = "replace" ->
            IF ~PathExists(d, p) THEN {} ELSE {[d EXCEPT !.images = (p.key :> p.value) @@ @]}
      [] p.section = "images" /\ op = "remove" ->
            IF ~PathExists(d, p) THEN {} ELSE {[d EXCEPT !.images = [k \in DOMAIN @ \ {p.key} |-> @[k]]]}
      [] p.section = "hooks" /\ op = "add" ->
            IF ~PathExists(d, p) THEN {}
            ELSE {[d EXCEPT !.hooks = IF p.key = 0 THEN Append(@, p.value) ELSE InsertAt(@, p.key, p.value)]}
      [] p.section = "hooks" /\ op = "replace" ->
            IF ~PathExists(d, p) \/ p.key = 0 THEN {} ELSE {[d EXCEPT !.hooks[p.key] = p.value]}
      [] OTHER -> IF ~PathExists(d, p) \/ p.key = 0 THEN {} ELSE {[d EXCEPT !.hooks = RemoveAt(@, p.key)]}

\* What is done for a patch that is not strict (its path does not begin with a slash) is
\* decided with the configuration before any of the patches.
Operation(d, p) ==
    CASE ~p.strict /\ p.op = "remove" /\ ~PathExists(d, p)  -> "skip"
      [] ~p.strict /\ p.op = "replace" /\ ~PathExists(d, p) -> "add"
      [] OTHER                                              -> p.op

ApplyPatches(d, patches) ==
    LET Done[i \in 0..Len(patches)] ==
            IF i = 0 THEN {d}
            ELSE IF Operation(d, patches[i]) = "skip" THEN Done[i-1]
            ELSE UNION {Perform(e, patches[i], Operation(d, patches[i])) : e \in Done[i-1]}
    IN Done[Len(patches)]

\* One turn of the loop of applyProfiles, from the weakest profile to the strongest.
ApplyProfile ==
    /\ pc = "applying" /\ chain # <<>>
    /\ LET p == Last(chain)
           results == ApplyPatches(ApplyMerge(ApplyReplace(data, p.replace), p.merge), p.patches)
       IN IF results = {} THEN Fail
          ELSE /\ data' \in results
               /\ chain' = Front(chain) /\ applied' = Append(applied, p)
               /\ UNCHANGED <<pc, varVars, frames, at, picked, disk, loads, read, base, raw, memo>>

-----------------------------------------------------------------------------
(* Variables, parsing, and the local cache.                                *)

ImagePlaces(d) == {<<"images", k>> : k \in DOMAIN d.images}
HookPlaces(d)  == {<<"hooks", i>> : i \in DOMAIN d.hooks}
TextAt(d, p)   == IF p[1] = "images" THEN d.images[p[2]] ELSE d.hooks[p[2]]

\* The parsers: the default one leaves out the runtime locations, the eager one does not,
\* the one for commands has nothing but runtime locations.
ParsedPlaces(d) ==
    IF given.parser = "commands" THEN {p \in ImagePlaces(d) : p[2] \in RuntimeKeys} ELSE ImagePlaces(d) \cup HookPlaces(d)

ExcludedPlaces(d) == IF given.parser = "eager" THEN {} ELSE {p \in ImagePlaces(d) : p[2] \in RuntimeKeys}

\* reloadVariables, and the parser up to its call of FillVariablesExclude.
FillConfig ==
    /\ pc = "applying" /\ chain = <<>>
    /\ defs' = data.vars
    /\ StartFill(defs', [p \in ParsedPlaces(data) |-> TextAt(data, p)], FALSE, ExcludedPlaces(data))
    /\ raw' = data
    /\ GoTo("filling config")
    /\ UNCHANGED <<given, answers, asked, origin, data, frames, chain, at, picked, disk, loads, read, base, applied, memo>>

\* versions.Parse with its validation, and localCache.Save unless the load is dry.
Parse ==
    /\ pc = "filling config" /\ FillDone
    /\ IF \E p \in DOMAIN fill.texts : p[1] = "images" /\ \E w \in Refused : fill.texts[p] = Lit(w) THEN Fail
       ELSE /\ GoTo("done")
            /\ IF given.dry THEN UNCHANGED <<disk, memo>>
               ELSE /\ disk' = answers
                    /\ memo' = IF memo = {} THEN {[given |-> given, load |-> loads, texts |-> fill.texts]} ELSE memo
            /\ UNCHANGED <<varVars, data, frames, chain, at, picked, loads, read, base, raw, applied>>

\* FillVariables returns an error.
FillFails ==
    /\ FillFailed /\ ~Idle
    /\ Fail

\* A step of FillVariables.
FillStep ==
    /\ pc \in {"filling imports", "filling profile", "matching", "filling config"}
    /\ Fill
    /\ UNCHANGED loadVars

\* devspace reset vars.
ResetVars ==
    /\ Idle /\ disk # Nothing
    /\ disk' = Nothing /\ memo' = {}
    /\ UNCHANGED <<varVars, pc, data, frames, chain, at, picked, loads, read, base, raw, applied>>

Step ==
    \/ EnterImports \/ ImportsFilled \/ NextImport \/ ImportsDone
    \/ PrepareProfile \/ ProfileFilled \/ CheckActivation \/ ActivationChecked \/ ParseProfile
    \/ ApplyProfile \/ FillConfig \/ Parse \/ FillStep \/ FillFails

\* Nobody runs another command.
Finished == Idle /\ loads = MaxLoads /\ UNCHANGED vars

Next == Start \/ ResetVars \/ Step \/ Finished

\* A command under way goes on until it ends, which is WF_vars(Step): nothing but a
\* Step happens during a load, and one is always possible. A user who is asked answers.
Fairness == []<>Idle \/ []<><<~Idle>>_vars

Spec == Init /\ [][Next]_vars /\ Fairness

-----------------------------------------------------------------------------
(* Properties.                                                             *)

IsText(t) == t \in Seq(Token) \ {<<>>}

IsDefinition(d) == /\ DOMAIN d = DOMAIN NoDefinition
                   /\ \A t \in TextsOf(d) : IsText(t)

IsData(d) == /\ DOMAIN d = DOMAIN NoData
             /\ DOMAIN d.vars \subseteq Names /\ \A n \in DOMAIN d.vars : IsDefinition(d.vars[n])
             /\ DOMAIN d.images \subseteq Keys /\ \A k \in DOMAIN d.images : IsText(d.images[k])
             /\ \A i \in DOMAIN d.hooks : IsText(d.hooks[i])

\* Sections keep their shape through imports, profiles and patches, and what is
\* resolved is a text: a patch that puts null or an object where a text belongs would
\* break the parsing of the result.
TypeOK ==
    /\ given \in Commands /\ loads \in 0..MaxLoads /\ asked \subseteq Names
    /\ DOMAIN defs \subseteq Names /\ \A n \in DOMAIN defs : IsDefinition(defs[n])
    /\ DOMAIN mem \subseteq Names /\ \A n \in DOMAIN mem : IsText(mem[n])
    /\ \A a \in {answers, disk} : DOMAIN a \subseteq Names /\ \A n \in DOMAIN a : a[n] \in Words
    /\ \A d \in {data, base, raw} : IsData(d)
    /\ \A i \in DOMAIN frames : IsData(frames[i].data)
    /\ fill.round \in 0..3 /\ fill.todo \subseteq Names \ DOMAIN mem
    /\ \A p \in DOMAIN fill.texts : IsText(fill.texts[p])

\* The error "variable was not resolved yet, please define it before" of
\* resolveDefinitionString never comes up: whatever is filled, in whatever order the
\* graph is walked and however profiles change definitions, what a definition uses
\* has been found and resolved before it, or the definitions are cyclic.
UsesAreResolved == fill.failed # "order"

\* What is merged from imports (ResolveImports): a file that is merged earlier has its
\* keys kept, the file of the command before all others and an import with its own
\* imports before the next one; lists have the elements of all files in that order.
ImportsMerged ==
    base # NoData =>
        /\ \A section \in {"vars", "images"} : \A k \in Names \cup Keys :
            LET having == {i \in DOMAIN read : k \in DOMAIN Files[read[i]][section]} IN
            IF having = {} THEN k \notin DOMAIN base[section]
            ELSE \E i \in having : /\ \A j \in having : i <= j
                                   /\ base[section][k] = Files[read[i]][section][k]
        /\ base.hooks = FlattenSeq([i \in DOMAIN read |-> Files[read[i]].hooks])
        /\ Head(read) = given.file

AppliedNames == {applied[i].name : i \in DOMAIN applied}

\* The profiles a profile inherits from.
ParentNames(names) == UNION {{q.profile : q \in ToSet(applied[i].parents)} : i \in {j \in DOMAIN applied : applied[j].name \in names}}

InheritedBy(name) ==
    LET Up[i \in 0..Len(applied)] == IF i = 0 THEN ParentNames({name}) ELSE LET known == Up[i-1] IN known \cup ParentNames(known)
    IN Up[Len(applied)]

Once(name) == \E i \in DOMAIN applied : applied[i].name = name /\ \A j \in DOMAIN applied : applied[j].name = name => j = i

\* What a profile says of an image, leaving aside profiles with patches.
Says(name, k) ==
    LET merges == UNION {applied[i].merge.images : i \in {j \in DOMAIN applied : applied[j].name = name /\ applied[j].patches = <<>>}}
    IN {s[k] : s \in {t \in merges : k \in DOMAIN t}}

Before(names, a, b) == \E i, j \in DOMAIN names : i < j /\ names[i] = a /\ names[j] = b

\* Of two profiles that set the same thing the child beats the parent it inherits from,
\* and the profile selected later beats the one selected earlier, if neither is applied
\* twice. All that is selected, and all it inherits from, is applied.
ProfilesInOrder ==
    raw # NoData =>
        /\ ToSet(given.profiles) \cup ToSet(picked) \subseteq AppliedNames
        /\ ParentNames(AppliedNames) \subseteq AppliedNames
        /\ \A weak, strong \in {n \in AppliedNames : Once(n)} : \A k \in Keys :
            /\ weak \in InheritedBy(strong) \/ Before(Selected, weak, strong)
            /\ Says(weak, k) # {} /\ Says(strong, k) # {}
            /\ k \in DOMAIN raw.images
            => raw.images[k] \notin Says(weak, k) \ Says(strong, k)

\* Files and profiles are put over each other in the documented order.
MergedInOrder == ImportsMerged /\ ProfilesInOrder

\* The variables that imports, profiles given as texts and activations need.
NeededEarly ==
    LET texts == UNION {UNION {{i.source} \cup i.enabled : i \in ToSet(Files[f].imports)} : f \in ToSet(read)}
                 \cup UNION {p.mergeFrom : p \in ToSet(base.profiles)}
                 \cup UNION {UNION {{Ref(c[1]) : c \in a.vars} : a \in ToSet(p.activation)} : p \in ToSet(base.profiles)}
        direct == UNION {Refs(t) : t \in texts}
    IN Ancestors(base.vars, direct)

\* Profiles may change the definitions of variables, and a variable that has a value is
\* not looked at again. The value nevertheless comes from the definition that holds in
\* the end, except for those needed to load the imports and to find the profiles.
ResolvedAsDefined ==
    pc = "done" => \A n \in DOMAIN origin : origin[n] = DefinitionsIn(raw.vars, n) \/ n \in NeededEarly

Or(texts, otherwise) == IF texts = {} THEN otherwise ELSE texts

\* What a variable may be after its definition: the flag beats everything, the value is
\* fixed; else the environment (unless the user is to be asked), an earlier answer, the
\* answer of the user, or the default if there is nobody to ask.
Permitted(n, d) ==
    LET own      == {Substitute(t) : t \in d.value \cup d.default}
        env      == IF n \in DOMAIN given.env THEN {Lit(given.env[n])} ELSE {}
        kept     == IF n \in DOMAIN answers /\ ~d.noCache THEN {Lit(answers[n])} ELSE {}
        answered == IF given.silent THEN Or(own, Or(env, {Lit("")})) ELSE {Lit(a) : a \in Answers}
    IN CASE n \in DOMAIN given.flags                   -> {given.flags[n]}
         [] n \in Predefined                           -> {PredefinedVariable(n)}
         [] d.value # {} \/ d.source = "none"          -> own
         [] d.source = "env"                           -> Or(env, own)
         [] d.source = "command" \/ d.command # {}     -> IF given.shell = "mute" THEN Or(own, {Lit("")}) ELSE {Lit("output")}
         [] d.source = "input"                         -> Or(kept, answered)
         [] OTHER                                      -> Or(env, Or(kept, answered))

\* A configuration that was loaded has its variables filled in with such values: no
\* place but the runtime locations has a variable left that is defined, all variables
\* that are to be resolved always have a value, and every value is a permitted one.
FilledIn ==
    pc = "done" =>
        /\ \A n \in DOMAIN mem : \A d \in IF n \in DOMAIN origin THEN origin[n] ELSE {NoDefinition} : mem[n] \in Permitted(n, d)
        /\ \A n \in DOMAIN raw.vars : raw.vars[n].always => n \in DOMAIN mem
        /\ \A p \in DOMAIN fill.texts :
            IF p \in ExcludedPlaces(raw) THEN fill.texts[p] = TextAt(raw, p) /\ Defined(raw.vars, Refs(fill.texts[p])) \subseteq DOMAIN mem
            ELSE /\ Refs(fill.texts[p]) \cap (DOMAIN mem \cup DOMAIN raw.vars) = {}
                 /\ fill.texts[p] = Substitute(Evaluate(Substitute(TextAt(raw, p))))

\* Variables are resolved after what they use, from the definition that holds in the end,
\* with a value their source permits, wherever they occur.
VariablesResolved == UsesAreResolved /\ ResolvedAsDefined /\ FilledIn

\* The same command gives the same configuration again, a dry one too, and asks no
\* question it has had an answer for, whatever other commands were run in between: the
\* local cache keeps the answers, until they are reset.
Repeatable ==
    pc = "done" => \A m \in memo :
        m.given = [given EXCEPT !.dry = FALSE] /\ m.load # loads /\ ~given.silent =>
            /\ \A n \in asked : \E d \in origin[n] : d.noCache
            /\ asked = {} => fill.texts = m.texts

\* A load comes to an end, with a configuration or an error, whatever refers to itself:
\* profiles their own parents, variables their own definitions. The user answers.
LoadEnds == pc = "enter" ~> Idle
=============================================================================
