------------------------------ MODULE MCConfigLoad ------------------------------
EXTENDS ConfigLoad

V(w)  == [k |-> "lit", v |-> w]
R(n)  == [k |-> "ref", v |-> n]
E(n)  == [k |-> "esc", v |-> n]
Sh(n) == [k |-> "sh", v |-> n]

Default(t)  == [NoDefinition EXCEPT !.default = {t}]
Fixed(t)    == [NoDefinition EXCEPT !.value = {t}]
Source(s)   == [NoDefinition EXCEPT !.source = s]
Command(t)  == [NoDefinition EXCEPT !.command = {t}]

File   == [NoData EXCEPT !.version = "v2"]
NoPart == [vars |-> {}, images |-> {}, hooks |-> {}]
Profile(name) == [name |-> name, parents |-> <<>>, activation |-> <<>>, mergeFrom |-> {},
                  replace |-> NoPart, merge |-> NoPart, patches |-> <<>>]
Sets(name, images) == [Profile(name) EXCEPT !.merge.images = {images}]
Parent(name) == [profile |-> name, from |-> {}]
Patch(op, section, key, strict, t) == [op |-> op, section |-> section, key |-> key, strict |-> strict, value |-> t]
Import(t, enabled) == [source |-> t, enabled |-> enabled]

\* Sources of variables: a question with a default, a value made of another variable,
\* the environment, a number, a command, a question that is not remembered.
Sources ==
    [File EXCEPT
        !.vars = [x |-> Default(<<V("a")>>),
                  y |-> [Fixed(<<R("x"), V("b")>>) EXCEPT !.always = FALSE],
                  z |-> [Source("env") EXCEPT !.default = {<<R("y")>>}],
                  w |-> [Default(<<V("1")>>) EXCEPT !.source = "input", !.noCache = TRUE]],
        !.images = [app |-> <<R("z")>>, run |-> <<R("x"), R("y"), R("u")>>],
        !.hooks = <<<<Sh("x")>>, <<E("y"), R("P")>>>>]

\* A command, and definitions that refer to each other, which only the whole file uses.
Cyclics ==
    [File EXCEPT
        !.vars = [x |-> [Command(<<R("u")>>) EXCEPT !.source = "command"],
                  y |-> [Default(<<R("z")>>) EXCEPT !.source = "none", !.always = FALSE],
                  z |-> [Fixed(<<R("y")>>) EXCEPT !.always = FALSE]],
        !.images = [app |-> <<R("x")>>, run |-> <<R("x")>>],
        !.hooks = <<<<R("y")>>>>]

\* Imports found by a variable, switched by a variable, with imports of their own.
Importing ==
    [File EXCEPT
        !.vars = [x |-> Default(<<V("lib")>>)],
        !.images = [app |-> <<V("a")>>],
        !.hooks = <<<<R("y")>>>>,
        !.imports = <<Import(<<R("x")>>, {}), Import(<<V("other")>>, {<<R("u")>>})>>]
Lib ==
    [File EXCEPT
        !.vars = [x |-> Fixed(<<V("b")>>), y |-> Default(<<R("x")>>)],
        !.images = [app |-> <<V("b")>>, run |-> <<R("x")>>],
        !.hooks = <<<<V("b")>>>>,
        !.imports = <<Import(<<V("deep")>>, {})>>]
Deep  == [File EXCEPT !.vars = [z |-> Fixed(<<V("1")>>)], !.images = [db |-> <<R("z")>>], !.hooks = <<<<V("1")>>>>]
Other == [File EXCEPT !.vars = [z |-> Fixed(<<V("a")>>)], !.images = [db |-> <<V("a")>>, run |-> <<V("a")>>], !.hooks = <<<<V("a")>>>>]
Old   == [File EXCEPT !.version = "v1"]

\* Profiles: parents, activation, a change of definitions, patches, merge given as text.
Profiled ==
    [File EXCEPT
        !.vars = [x |-> Default(<<V("lib")>>), y |-> Fixed(<<R("x")>>), z |-> Fixed(<<V("more")>>)],
        !.images = [app |-> <<R("y")>>, db |-> <<V("a")>>],
        !.hooks = <<<<V("a")>>, <<V("b")>>>>,
        !.profiles = <<
            Sets("base", [app |-> <<V("base")>>, db |-> <<R("x")>>]),
            [Sets("child", [app |-> <<V("child")>>]) EXCEPT
                !.parents = <<Parent("base"), [profile |-> "far", from |-> {"far"}]>>,
                !.merge.vars = {[x |-> [default |-> {<<V("b")>>}], z |-> Null]}],
            [Sets("other", [app |-> <<V("other")>>, db |-> Null]) EXCEPT
                !.parents = <<Parent("base")>>,
                !.activation = <<[env |-> {<<"u", "b">>}, vars |-> {<<"x", "lib">>}]>>],
            [Profile("patch") EXCEPT
                !.replace.hooks = {<<<<R("x")>>, <<V("b")>>>>},
                !.patches = <<Patch("replace", "images", "run", FALSE, <<R("x")>>), Patch("remove", "images", "db", FALSE, <<>>),
                              Patch("add", "hooks", 0, FALSE, <<R("y")>>), Patch("remove", "hooks", 2, TRUE, <<>>)>>],
            [Profile("text") EXCEPT !.mergeFrom = {<<R("z")>>}, !.parents = <<Parent("child")>>],
            [Profile("loop") EXCEPT !.parents = <<Parent("loop")>>]>>]
Far == [File EXCEPT !.profiles = <<Sets("far", [app |-> <<V("far")>>, run |-> <<R("x")>>])>>]
More == [NoPart EXCEPT !.images = {[db |-> <<R("y")>>]}, !.vars = {[y |-> [value |-> {<<V("a")>>}]]}]

MCFiles == [sources |-> Sources, cyclics |-> Cyclics, importing |-> Importing, lib |-> Lib, deep |-> Deep,
            other |-> Other, old |-> Old, profiled |-> Profiled, far |-> Far]
MCObjects == [more |-> More]

Plain(f) == [file |-> f, flags |-> <<>>, env |-> <<>>, profiles |-> <<>>, parser |-> "default", activate |-> TRUE,
             shell |-> "works", silent |-> FALSE, dry |-> FALSE]

MCCommands ==
    {[Plain("sources") EXCEPT !.flags = f, !.env = e, !.silent = s] :
        f \in {<<>>, [y |-> Lit("b")]}, e \in {<<>>, [x |-> "b"], [z |-> "a", w |-> "a"], [u |-> "a"]}, s \in BOOLEAN}
    \cup {[Plain("sources") EXCEPT !.env = e, !.dry = TRUE] : e \in {<<>>, [x |-> "b"]}}
    \cup {[Plain("sources") EXCEPT !.env = e, !.parser = p] : e \in {<<>>, [u |-> "a"]}, p \in {"commands", "eager"}}
    \cup {[Plain("cyclics") EXCEPT !.flags = f, !.shell = s, !.env = e, !.parser = p] :
        f \in {<<>>, [z |-> Lit("a")]}, s \in {"works", "mute", "fails"}, e \in {<<>>, [u |-> "a"]}, p \in {"default", "commands"}}
    \cup {[Plain("importing") EXCEPT !.flags = f, !.env = e, !.silent = s] :
        f \in {<<>>, [x |-> Lit("old")]}, e \in {<<>>, [u |-> "true"], [u |-> "false"], [u |-> "true", x |-> "lib"]}, s \in BOOLEAN}
    \cup {[Plain("profiled") EXCEPT !.profiles = ps, !.env = e, !.silent = s] :
        ps \in {<<>>, <<"base">>, <<"child">>, <<"other", "child">>, <<"base", "patch">>, <<"patch", "text">>, <<"loop">>, <<"none">>},
        e \in {<<>>, [u |-> "b"]}, s \in BOOLEAN}
    \cup {[Plain("profiled") EXCEPT !.profiles = <<"child">>, !.env = [u |-> "b"], !.activate = FALSE]}

\* Only what the commands of one file do to each other: its cache is its own.
MCInit == Init /\ given \in {Plain(f) : f \in {"sources", "cyclics", "importing", "profiled"}}
OneFile == given'.file = given.file
MCNext == Next /\ OneFile
MCSpec == MCInit /\ [][MCNext]_vars /\ Fairness
=============================================================================
