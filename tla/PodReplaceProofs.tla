-------------------------- MODULE PodReplaceProofs --------------------------
(***************************************************************************)
(* Proofs about PodReplace: its types; that an application that is scaled  *)
(* down can be brought back, whatever commands, failures, crashes and      *)
(* deployments there are; that giving up a dev pod takes it from nobody    *)
(* else and brings the application back; that a dev pod is made of the     *)
(* application as it is; and that every dev container has what is asked    *)
(* for in its own container of it.                                         *)
(***************************************************************************)
EXTENDS PodReplace, TLAPS, WellFoundedInduction

-----------------------------------------------------------------------------
(* What a dev pod is built of (PodTemplate).                               *)

\* A set of numbers that is not empty has a least one.
LEMMA LeastNumber == ASSUME NEW T, T \subseteq Nat, T # {} PROVE \E x \in T : \A y \in T : x <= y
<1> DEFINE R == {ss \in Nat \X Nat : ss[1] < ss[2]}
<1>1. IsWellFoundedOn(R, Nat) BY NatLessThanWellFounded DEF OpToRel
<1> HIDE DEF R
<1>2. PICK x \in T : \A y \in T : ~(<<y, x>> \in R) BY <1>1, WFMin
<1>3. ASSUME NEW y \in T PROVE x <= y
  <2>1. x \in Nat /\ y \in Nat OBVIOUS
  <2>2. ~(y < x) BY <1>2, <2>1 DEF R
  <2>3. QED BY <2>1, <2>2
<1>4. QED BY <1>3

Clear(d) == d \in DevPod /\ AppContainers(d.app) /\ DevContainers(d.containers) /\ Unambiguous(d)

\* Strings, the literals among them (which the provers do not look into).
Strings == STRING \cup {AppImage, DevImage, Unnamed, "persistence", "restart"}
Volumes == [what : Strings, of : Strings]
Containers ==
    [name : Strings, image : Strings, probes : BOOLEAN, command : Values, args : Values,
     interactive : BOOLEAN, env : SUBSET {"config"}, workingDir : Values, resources : Values,
     readOnlyRoot : BOOLEAN, mounts : SUBSET Volumes]

\* The template of an application while it is modified: its containers keep their names and
\* have their image or that of the dev pod.
Template(n) ==
    [version : Nat, containers : [1 .. n -> Containers], initContainers : SUBSET Strings,
     volumes : SUBSET Volumes, patched : BOOLEAN, replaced : BOOLEAN, matched : {<<>>}]

TemplateOf(t, app) ==
    /\ t \in Template(Len(app))
    /\ \A i \in 1 .. Len(app) : /\ t.containers[i].name = app[i].name
                                /\ t.containers[i].image \in {app[i].image, DevImage}

\* A set with one index at most.
LEMMA OneIndex == ASSUME NEW S, S \subseteq Nat, \A i, j \in S : i = j PROVE FirstOf(S) = 0 \/ FirstOf(S) \in S
  BY DEF FirstOf

LEMMA ClearFacts ==
  ASSUME NEW d, Clear(d)
  PROVE  /\ d.app \in Seq(Containers) /\ Len(d.app) \in Nat /\ DOMAIN d.app = 1 .. Len(d.app)
         /\ d.containers \in Seq(DevContainer) /\ Len(d.containers) \in Nat
         /\ DOMAIN d.containers = 1 .. Len(d.containers)
         /\ \A i \in 1 .. Len(d.app) : d.app[i] \in Containers /\ d.app[i].name # Unnamed
         /\ \A k \in 1 .. Len(d.containers) : d.containers[k] \in DevContainer
         /\ d.imageSelector \in BOOLEAN /\ d.patches \in BOOLEAN
<1>1. Container \subseteq Containers BY DEF Container, Containers, Volumes, Strings
<1>2. d.app \in Seq(Containers)
  <2>1. d.app \in Seq(Container) BY DEF Clear, DevPod
  <2>2. QED BY <1>1, <2>1
<1>3. QED BY <1>2 DEF Clear, DevPod, AppContainers, DevContainers

\* The template keeps its shape.
LEMMA TemplateFacts ==
  ASSUME NEW d, Clear(d), NEW t, TemplateOf(t, d.app)
  PROVE  /\ DOMAIN t.containers = 1 .. Len(d.app) /\ Len(t.containers) = Len(d.app)
         /\ \A i \in 1 .. Len(d.app) : t.containers[i] \in Containers
<1>1. t.containers \in [1 .. Len(d.app) -> Containers] BY DEF TemplateOf, Template
<1>2. Len(d.app) \in Nat BY ClearFacts
<1>3. t.containers \in Seq(Containers) BY <1>1, <1>2
<1>4. QED BY <1>1, <1>2, <1>3

\* The container of a name.
LEMMA NamedFacts ==
  ASSUME NEW d, Clear(d), NEW t, TemplateOf(t, d.app), NEW name, name # Unnamed \/ Len(d.app) <= 1
  PROVE  LET i == ContainerNamed(t, name)
         IN  i # 0 => i \in 1 .. Len(d.app) /\ (name # Unnamed => d.app[i].name = name)
<1> DEFINE S == {i \in DOMAIN t.containers : name \in {Unnamed, t.containers[i].name}}
<1>1. DOMAIN t.containers = 1 .. Len(d.app) /\ Len(d.app) \in Nat BY TemplateFacts, ClearFacts
<1>2. \A i \in S : i \in 1 .. Len(d.app) /\ (name # Unnamed => d.app[i].name = name) BY <1>1 DEF TemplateOf
<1>3. \A i, j \in S : i = j
  <2>1. CASE name # Unnamed BY <1>2, <2>1, ClearFacts DEF Clear, AppContainers
  <2>2. CASE Len(d.app) <= 1 BY <1>1, <1>2, <2>2
  <2>3. QED BY <2>1, <2>2
<1>4. S \subseteq Nat BY <1>1
<1> HIDE DEF S
<1>5. FirstOf(S) = 0 \/ FirstOf(S) \in S BY <1>3, <1>4, OneIndex
<1>6. ContainerNamed(t, name) = FirstOf(S) BY DEF ContainerNamed, S
<1>7. QED BY <1>2, <1>5, <1>6

\* Wherever it is looked for and whatever has been modified before: the container that
\* getPodTemplateContainer finds is the one the dev container is about.
LEMMA FindsContainer ==
  ASSUME NEW d, Clear(d), NEW t, TemplateOf(t, d.app), NEW k \in 1 .. Len(d.containers)
  PROVE  LET c == d.containers[k]
             i == GetPodTemplateContainer(t, d, c)
         IN  i # 0 => /\ i \in 1 .. Len(d.app) /\ About(c, d.app, i)
                      /\ \A j \in 1 .. Len(d.app) : About(c, d.app, j) => j = i
<1> DEFINE c == d.containers[k]
           n == Len(d.app)
           x == GetPodTemplateContainer(t, d, c)
<1>1. n \in Nat /\ DOMAIN d.app = 1 .. n /\ c \in DevContainer /\ \A i \in 1 .. n : d.app[i].name # Unnamed BY ClearFacts
<1>2. \A i, j \in 1 .. n : d.app[i].name = d.app[j].name => i = j BY <1>1 DEF Clear, AppContainers
<1>3. DOMAIN t.containers = 1 .. n /\ Len(t.containers) = n BY TemplateFacts
<1>4. CASE c.container # Unnamed
  <2>1. x = ContainerNamed(t, c.container) BY <1>4 DEF GetPodTemplateContainer
  <2>2. x # 0 => x \in 1 .. n /\ d.app[x].name = c.container BY <1>4, <2>1, NamedFacts
  <2>3. QED BY <1>2, <1>4, <2>2 DEF About
<1>5. CASE c.container = Unnamed /\ n <= 1
  <2>1. x = ContainerNamed(t, c.container) BY <1>3, <1>5 DEF GetPodTemplateContainer
  <2>2. x # 0 => x \in 1 .. n
    <3>1. Unnamed # Unnamed \/ n <= 1 BY <1>5
    <3>2. ContainerNamed(t, Unnamed) # 0 => ContainerNamed(t, Unnamed) \in 1 .. n BY <3>1, NamedFacts
    <3>3. QED BY <1>5, <2>1, <3>2
  <2>3. x # 0 => n = 1 /\ x = 1
    <3>1. ASSUME NEW m \in Nat, m <= 1, NEW y \in 1 .. m PROVE m = 1 /\ y = 1 BY <3>1
    <3>2. QED BY <1>1, <1>5, <2>2, <3>1
  <2>4. QED BY <1>1, <1>5, <2>2, <2>3 DEF About
<1>6. CASE c.container = Unnamed /\ n > 1
  <2>1. DOMAIN d.containers = 1 .. Len(d.containers) /\ Len(d.containers) \in Nat BY ClearFacts
  <2>2. Len(d.containers) = 1 /\ k = 1
    <3>1. Len(d.containers) = 1 BY <1>6, <2>1 DEF Clear, DevContainers
    <3>2. QED BY <3>1
  <2>3. \A i, j \in 1 .. n : d.app[i].image = AppImage /\ d.app[j].image = AppImage => i = j
    BY <1>1, <1>6, <2>1 DEF Clear, Unambiguous
  <2>4. \A i \in 1 .. n : t.containers[i].image = AppImage => d.app[i].image = AppImage
    BY DEF TemplateOf, AppImage, DevImage
  <2> DEFINE S == {i \in DOMAIN t.containers : /\ c.container \in {Unnamed, t.containers[i].name}
                                               /\ t.containers[i].image = AppImage}
             m == Match(t, c)
  <2>5. S \subseteq Nat /\ S \subseteq 1 .. n /\ \A i, j \in S : i = j BY <1>1, <1>3, <2>3, <2>4
  <2>6. \A i \in S : d.app[i].image = AppImage BY <1>3, <2>4
  <2>7. m = FirstOf(S) BY DEF Match
  <2> HIDE DEF S
  <2>8. m # 0 => m \in 1 .. n /\ d.app[m].image = AppImage BY <2>5, <2>6, <2>7, OneIndex
  <2>9. x # 0 => /\ Matched(t, d) = {1} /\ m # 0
                 /\ x = ContainerNamed(t, MatchesImageSelector(t, d)[1])
    <3>1. SUFFICES ASSUME x # 0 PROVE /\ Matched(t, d) = {1} /\ m # 0
                                      /\ x = ContainerNamed(t, MatchesImageSelector(t, d)[1])
      OBVIOUS
    <3>2. PICK l \in DOMAIN d.containers : Matched(t, d) = {l}
      BY <1>3, <1>6, <3>1 DEF GetPodTemplateContainer
    <3>3. l = 1 BY <2>1, <2>2
    <3>4. (CHOOSE l2 \in Matched(t, d) : TRUE) = 1 BY <3>2, <3>3
    <3>5. x = ContainerNamed(t, MatchesImageSelector(t, d)[1])
      BY <1>3, <1>6, <3>2, <3>4 DEF GetPodTemplateContainer
    <3>6. m # 0 BY <2>2, <3>2, <3>3 DEF Matched
    <3>7. QED BY <3>2, <3>3, <3>5, <3>6
  <2>10. CASE x # 0
    <3>1. m \in 1 .. n /\ d.app[m].image = AppImage BY <2>8, <2>9, <2>10
    <3>2. MatchesImageSelector(t, d)[1] = d.app[m].name
      BY <2>2, <2>9, <2>10, <3>1 DEF MatchesImageSelector, TemplateOf
    <3>3. x \in 1 .. n /\ d.app[x].name = d.app[m].name BY <1>1, <2>9, <2>10, <3>1, <3>2, NamedFacts
    <3>4. x = m BY <1>2, <3>1, <3>3
    <3>5. \A j \in 1 .. n : About(c, d.app, j) <=> d.app[j].image = AppImage BY <1>1, <1>6 DEF About
    <3>6. QED BY <2>3, <3>1, <3>4, <3>5
  <2>11. QED BY <2>10
<1>7. QED BY <1>1, <1>4, <1>5, <1>6

-----------------------------------------------------------------------------
(* What every modification makes of its container.                         *)

ImageOf(k, c)     == IF c.devImage THEN [k EXCEPT !.probes = FALSE, !.image = DevImage] ELSE k
TerminalOf(k, c)  == IF c.terminal THEN [k EXCEPT !.probes = FALSE, !.command = "sleep", !.args = "none"] ELSE k
AttachOf(k, c)    == IF c.attach THEN [k EXCEPT !.probes = FALSE, !.interactive = TRUE] ELSE k
EnvOf(k, c)       == IF c.env THEN [k EXCEPT !.env = @ \cup {"config"}] ELSE k
CommandOf(k, c)   == IF Restarts(c) \/ c.command \/ c.args THEN Command(k, c) ELSE k
DirOf(k, c)       == IF c.workingDir THEN [k EXCEPT !.probes = FALSE, !.workingDir = "config"] ELSE k
SecurityOf(k, c)  == IF c.sync # "none" THEN [k EXCEPT !.readOnlyRoot = FALSE] ELSE k
ResourcesOf(k, c) == IF c.resources THEN [k EXCEPT !.resources = "config"] ELSE k
PathOf(k, c)      == IF c.persist # "none" THEN [k EXCEPT !.mounts = @ \cup {Persistence}] ELSE k

\* A modification leaves a container its name and its own image or that of the dev pod.
Remains(j, k) == j \in Containers /\ j.name = k.name /\ j.image \in {k.image, DevImage}

LEMMA PartsRemain ==
  ASSUME NEW k \in Containers, NEW c \in DevContainer
  PROVE  /\ Remains(ImageOf(k, c), k) /\ Remains(TerminalOf(k, c), k) /\ Remains(AttachOf(k, c), k)
         /\ Remains(EnvOf(k, c), k) /\ Remains(CommandOf(k, c), k) /\ Remains(DirOf(k, c), k)
         /\ Remains(SecurityOf(k, c), k) /\ Remains(ResourcesOf(k, c), k) /\ Remains(PathOf(k, c), k)
<1>0. /\ DevImage \in Strings
      /\ "sleep" \in Values /\ "none" \in Values /\ "config" \in Values
  BY DEF Strings, Values
<1>1. Remains(ImageOf(k, c), k) BY <1>0 DEF Remains, ImageOf, Containers
<1>2. Remains(TerminalOf(k, c), k) BY <1>0 DEF Remains, TerminalOf, Containers
<1>3. Remains(AttachOf(k, c), k) BY DEF Remains, AttachOf, Containers
<1>4. Remains(EnvOf(k, c), k) BY DEF Remains, EnvOf, Containers
<1>5. Remains(CommandOf(k, c), k)
  <2>1. RestartHelper(k) \in Volumes BY DEF RestartHelper, Volume, Volumes, Containers, Strings
  <2> DEFINE mounts == k.mounts \cup IF Restarts(c) THEN {RestartHelper(k)} ELSE {}
             started == IF Restarts(c) THEN "restart" ELSE IF c.command THEN "config" ELSE k.command
             args == IF c.args THEN "config" ELSE k.args
  <2>2. mounts \in SUBSET Volumes BY <2>1 DEF Containers
  <2>3. started \in Values /\ args \in Values BY DEF Values, Containers
  <2>4. Command(k, c) = [k EXCEPT !.probes = FALSE, !.command = started, !.args = args, !.mounts = mounts]
    BY DEF Command, Unprobed, Containers
  <2> HIDE DEF mounts, started, args
  <2>5. Remains(Command(k, c), k) BY <2>2, <2>3, <2>4 DEF Remains, Containers
  <2>6. Remains(k, k) BY DEF Remains
  <2>7. QED BY <2>5, <2>6 DEF CommandOf
<1>6. Remains(DirOf(k, c), k) BY <1>0 DEF Remains, DirOf, Containers
<1>7. Remains(SecurityOf(k, c), k) BY DEF Remains, SecurityOf, Containers
<1>8. Remains(ResourcesOf(k, c), k) BY <1>0 DEF Remains, ResourcesOf, Containers
<1>9. Remains(PathOf(k, c), k)
  <2>1. Persistence \in Volumes BY DEF Persistence, Volume, Volumes, Strings, Unnamed
  <2>2. QED BY <2>1 DEF Remains, PathOf, Containers
<1>10. QED BY <1>1, <1>2, <1>3, <1>4, <1>5, <1>6, <1>7, <1>8, <1>9

\* Setting a container of a template.
LEMMA ContainerSet ==
  ASSUME NEW n, NEW t \in Template(n), NEW x \in 1 .. n, NEW k \in Containers
  PROVE  LET u == [t EXCEPT !.containers[x] = k]
         IN  /\ u \in Template(n)
             /\ \A i \in 1 .. n : u.containers[i] = IF i = x THEN k ELSE t.containers[i]
  BY DEF Template

\* The container a dev container is about is modified, no other.
Modified(u, t, d, c, Of(_, _)) ==
    /\ TemplateOf(u, d.app)
    /\ \A i \in 1 .. Len(d.app) : u.containers[i] = IF About(c, d.app, i) THEN Of(t.containers[i], c)
                                                      ELSE t.containers[i]
Found(d, c) == \E i \in 1 .. Len(d.app) : About(c, d.app, i)

\* ... into the containers of a list.
Parts(k, t, d) == \A i \in 1 .. Len(d.app) : Remains(k[i], t.containers[i])
Becomes(u, t, d, c, k) ==
    /\ TemplateOf(u, d.app)
    /\ \A i \in 1 .. Len(d.app) : u.containers[i] = IF About(c, d.app, i) THEN k[i] ELSE t.containers[i]

Put(t, x, k) == [t EXCEPT !.containers[x] = k[x]]

\* Setting the container that is found modifies the one that the dev container is about.
LEMMA SetFound ==
  ASSUME NEW d, Clear(d), NEW t, TemplateOf(t, d.app), NEW l \in 1 .. Len(d.containers), NEW k, Parts(k, t, d),
         NEW x, x = GetPodTemplateContainer(t, d, d.containers[l]), x # 0,
         NEW u, u = Put(t, x, k)
  PROVE  Becomes(u, t, d, d.containers[l], k) /\ Found(d, d.containers[l])
<1> DEFINE c == d.containers[l]
<1>1. /\ x \in 1 .. Len(d.app) /\ About(c, d.app, x)
      /\ \A j \in 1 .. Len(d.app) : About(c, d.app, j) => j = x
  BY FindsContainer
<1> HIDE DEF c
<1>2. /\ u \in Template(Len(d.app))
      /\ \A i \in 1 .. Len(d.app) : u.containers[i] = IF i = x THEN k[x] ELSE t.containers[i]
  <2>1. k[x] \in Containers BY <1>1 DEF Parts, Remains
  <2>2. t \in Template(Len(d.app)) BY DEF TemplateOf
  <2>3. QED BY <1>1, <2>1, <2>2, ContainerSet DEF Put
<1>3. TemplateOf(u, d.app) BY <1>1, <1>2 DEF TemplateOf, Parts, Remains
<1>4. \A i \in 1 .. Len(d.app) : u.containers[i] = IF About(c, d.app, i) THEN k[i] ELSE t.containers[i]
  BY <1>1, <1>2
<1>5. Found(d, c) BY <1>1 DEF Found
<1>6. QED BY <1>3, <1>4, <1>5 DEF Becomes, c

\* Where a modification is asked for the container is found and modified.
LEMMA Changes ==
  ASSUME NEW d, Clear(d), NEW t, TemplateOf(t, d.app), NEW l \in 1 .. Len(d.containers), NEW k, Parts(k, t, d),
         NEW asked, ~asked => \A i \in 1 .. Len(d.app) : k[i] = t.containers[i],
         NEW x, x = GetPodTemplateContainer(t, d, d.containers[l]), NEW r, r.ok,
         r = IF ~asked THEN Ok(t) ELSE IF x = 0 THEN Fail ELSE Ok(Put(t, x, k))
  PROVE  Becomes(r.pod, t, d, d.containers[l], k) /\ (asked => Found(d, d.containers[l]))
<1>1. CASE ~asked
  <2>1. r.pod = t BY <1>1 DEF Ok
  <2>2. QED BY <1>1, <2>1 DEF Becomes
<1>2. CASE asked
  <2>1. x # 0 /\ r = Ok(Put(t, x, k)) BY <1>2 DEF Fail
  <2>2. r.pod = Put(t, x, k) BY <2>1 DEF Ok
  <2> DEFINE u == r.pod
  <2>3. u = Put(t, x, k) BY <2>2
  <2>4. x # 0 BY <2>1
  <2> HIDE DEF u
  <2>5. Becomes(u, t, d, d.containers[l], k) /\ Found(d, d.containers[l]) BY <2>3, <2>4, SetFound
  <2>6. QED BY <2>5 DEF u
<1>3. QED BY <1>1, <1>2

\* Every modification one by one.
LEMMA ImageModifies ==
  ASSUME NEW d, Clear(d), NEW t, TemplateOf(t, d.app), NEW l \in 1 .. Len(d.containers),
         ReplaceImage(t, d, d.containers[l]).ok
  PROVE  /\ Modified(ReplaceImage(t, d, d.containers[l]).pod, t, d, d.containers[l], ImageOf)
         /\ d.containers[l].devImage => Found(d, d.containers[l])
<1> DEFINE c == d.containers[l]
           k == [i \in 1 .. Len(d.app) |-> ImageOf(t.containers[i], c)]
           x == GetPodTemplateContainer(t, d, c)
           r == ReplaceImage(t, d, c)
<1>1. \A i \in 1 .. Len(d.app) : t.containers[i] \in Containers BY TemplateFacts
<1>2. Parts(k, t, d) BY <1>1, ClearFacts, PartsRemain DEF Parts
<1>3. ~c.devImage => \A i \in 1 .. Len(d.app) : k[i] = t.containers[i] BY DEF ImageOf
<1>4. x # 0 => x \in 1 .. Len(d.app) BY FindsContainer
<1>5. r = IF ~c.devImage THEN Ok(t) ELSE IF x = 0 THEN Fail ELSE Ok(Put(t, x, k))
  <2>1. CASE ~c.devImage BY <2>1 DEF ReplaceImage
  <2>2. CASE c.devImage /\ x = 0 BY <2>2 DEF ReplaceImage, InContainer
  <2>3. CASE c.devImage /\ x # 0
    <3>1. k[x] = ImageOf(t.containers[x], c) BY <1>4, <2>3
    <3>2. QED BY <2>3, <3>1 DEF ReplaceImage, InContainer, ImageOf, Put, Ok, Unprobed
  <2>4. QED BY <2>1, <2>2, <2>3
<1> HIDE DEF k, x, r
<1>6. Becomes(r.pod, t, d, c, k) /\ (c.devImage => Found(d, c)) BY <1>2, <1>3, <1>5, Changes DEF x, r
<1>7. QED BY <1>6 DEF Becomes, Modified, k, r

LEMMA TerminalModifies ==
  ASSUME NEW d, Clear(d), NEW t, TemplateOf(t, d.app), NEW l \in 1 .. Len(d.containers),
         ReplaceTerminal(t, d, d.containers[l]).ok
  PROVE  /\ Modified(ReplaceTerminal(t, d, d.containers[l]).pod, t, d, d.containers[l], TerminalOf)
         /\ d.containers[l].terminal => Found(d, d.containers[l])
<1> DEFINE c == d.containers[l]
           k == [i \in 1 .. Len(d.app) |-> TerminalOf(t.containers[i], c)]
           x == GetPodTemplateContainer(t, d, c)
           r == ReplaceTerminal(t, d, c)
<1>1. \A i \in 1 .. Len(d.app) : t.containers[i] \in Containers BY TemplateFacts
<1>2. Parts(k, t, d) BY <1>1, ClearFacts, PartsRemain DEF Parts
<1>3. ~c.terminal => \A i \in 1 .. Len(d.app) : k[i] = t.containers[i] BY DEF TerminalOf
<1>4. x # 0 => x \in 1 .. Len(d.app) BY FindsContainer
<1>5. r = IF ~c.terminal THEN Ok(t) ELSE IF x = 0 THEN Fail ELSE Ok(Put(t, x, k))
  <2>1. CASE ~c.terminal BY <2>1 DEF ReplaceTerminal
  <2>2. CASE c.terminal /\ x = 0 BY <2>2 DEF ReplaceTerminal, InContainer
  <2>3. CASE c.terminal /\ x # 0
    <3>1. k[x] = TerminalOf(t.containers[x], c) BY <1>4, <2>3
    <3>2. QED BY <2>3, <3>1 DEF ReplaceTerminal, InContainer, TerminalOf, Put, Ok, Unprobed
  <2>4. QED BY <2>1, <2>2, <2>3
<1> HIDE DEF k, x, r
<1>6. Becomes(r.pod, t, d, c, k) /\ (c.terminal => Found(d, c)) BY <1>2, <1>3, <1>5, Changes DEF x, r
<1>7. QED BY <1>6 DEF Becomes, Modified, k, r

LEMMA AttachModifies ==
  ASSUME NEW d, Clear(d), NEW t, TemplateOf(t, d.app), NEW l \in 1 .. Len(d.containers),
         ReplaceAttach(t, d, d.containers[l]).ok
  PROVE  /\ Modified(ReplaceAttach(t, d, d.containers[l]).pod, t, d, d.containers[l], AttachOf)
         /\ d.containers[l].attach => Found(d, d.containers[l])
<1> DEFINE c == d.containers[l]
           k == [i \in 1 .. Len(d.app) |-> AttachOf(t.containers[i], c)]
           x == GetPodTemplateContainer(t, d, c)
           r == ReplaceAttach(t, d, c)
<1>1. \A i \in 1 .. Len(d.app) : t.containers[i] \in Containers BY TemplateFacts
<1>2. Parts(k, t, d) BY <1>1, ClearFacts, PartsRemain DEF Parts
<1>3. ~c.attach => \A i \in 1 .. Len(d.app) : k[i] = t.containers[i] BY DEF AttachOf
<1>4. x # 0 => x \in 1 .. Len(d.app) BY FindsContainer
<1>5. r = IF ~c.attach THEN Ok(t) ELSE IF x = 0 THEN Fail ELSE Ok(Put(t, x, k))
  <2>1. CASE ~c.attach BY <2>1 DEF ReplaceAttach
  <2>2. CASE c.attach /\ x = 0 BY <2>2 DEF ReplaceAttach, InContainer
  <2>3. CASE c.attach /\ x # 0
    <3>1. k[x] = AttachOf(t.containers[x], c) BY <1>4, <2>3
    <3>2. QED BY <2>3, <3>1 DEF ReplaceAttach, InContainer, AttachOf, Put, Ok, Unprobed
  <2>4. QED BY <2>1, <2>2, <2>3
<1> HIDE DEF k, x, r
<1>6. Becomes(r.pod, t, d, c, k) /\ (c.attach => Found(d, c)) BY <1>2, <1>3, <1>5, Changes DEF x, r
<1>7. QED BY <1>6 DEF Becomes, Modified, k, r

LEMMA EnvModifies ==
  ASSUME NEW d, Clear(d), NEW t, TemplateOf(t, d.app), NEW l \in 1 .. Len(d.containers),
         ReplaceEnv(t, d, d.containers[l]).ok
  PROVE  /\ Modified(ReplaceEnv(t, d, d.containers[l]).pod, t, d, d.containers[l], EnvOf)
         /\ d.containers[l].env => Found(d, d.containers[l])
<1> DEFINE c == d.containers[l]
           k == [i \in 1 .. Len(d.app) |-> EnvOf(t.containers[i], c)]
           x == GetPodTemplateContainer(t, d, c)
           r == ReplaceEnv(t, d, c)
<1>1. \A i \in 1 .. Len(d.app) : t.containers[i] \in Containers BY TemplateFacts
<1>2. Parts(k, t, d) BY <1>1, ClearFacts, PartsRemain DEF Parts
<1>3. ~c.env => \A i \in 1 .. Len(d.app) : k[i] = t.containers[i] BY DEF EnvOf
<1>4. x # 0 => x \in 1 .. Len(d.app) BY FindsContainer
<1>5. r = IF ~c.env THEN Ok(t) ELSE IF x = 0 THEN Fail ELSE Ok(Put(t, x, k))
  <2>1. CASE ~c.env BY <2>1 DEF ReplaceEnv
  <2>2. CASE c.env /\ x = 0 BY <2>2 DEF ReplaceEnv, InContainer
  <2>3. CASE c.env /\ x # 0
    <3>1. k[x] = EnvOf(t.containers[x], c) BY <1>4, <2>3
    <3>2. QED BY <2>3, <3>1 DEF ReplaceEnv, InContainer, EnvOf, Put, Ok
  <2>4. QED BY <2>1, <2>2, <2>3
<1> HIDE DEF k, x, r
<1>6. Becomes(r.pod, t, d, c, k) /\ (c.env => Found(d, c)) BY <1>2, <1>3, <1>5, Changes DEF x, r
<1>7. QED BY <1>6 DEF Becomes, Modified, k, r

LEMMA DirModifies ==
  ASSUME NEW d, Clear(d), NEW t, TemplateOf(t, d.app), NEW l \in 1 .. Len(d.containers),
         ReplaceWorkingDir(t, d, d.containers[l]).ok
  PROVE  /\ Modified(ReplaceWorkingDir(t, d, d.containers[l]).pod, t, d, d.containers[l], DirOf)
         /\ d.containers[l].workingDir => Found(d, d.containers[l])
<1> DEFINE c == d.containers[l]
           k == [i \in 1 .. Len(d.app) |-> DirOf(t.containers[i], c)]
           x == GetPodTemplateContainer(t, d, c)
           r == ReplaceWorkingDir(t, d, c)
<1>1. \A i \in 1 .. Len(d.app) : t.containers[i] \in Containers BY TemplateFacts
<1>2. Parts(k, t, d) BY <1>1, ClearFacts, PartsRemain DEF Parts
<1>3. ~c.workingDir => \A i \in 1 .. Len(d.app) : k[i] = t.containers[i] BY DEF DirOf
<1>4. x # 0 => x \in 1 .. Len(d.app) BY FindsContainer
<1>5. r = IF ~c.workingDir THEN Ok(t) ELSE IF x = 0 THEN Fail ELSE Ok(Put(t, x, k))
  <2>1. CASE ~c.workingDir BY <2>1 DEF ReplaceWorkingDir
  <2>2. CASE c.workingDir /\ x = 0 BY <2>2 DEF ReplaceWorkingDir, InContainer
  <2>3. CASE c.workingDir /\ x # 0
    <3>1. k[x] = DirOf(t.containers[x], c) BY <1>4, <2>3
    <3>2. QED BY <2>3, <3>1 DEF ReplaceWorkingDir, InContainer, DirOf, Put, Ok, Unprobed
  <2>4. QED BY <2>1, <2>2, <2>3
<1> HIDE DEF k, x, r
<1>6. Becomes(r.pod, t, d, c, k) /\ (c.workingDir => Found(d, c)) BY <1>2, <1>3, <1>5, Changes DEF x, r
<1>7. QED BY <1>6 DEF Becomes, Modified, k, r

LEMMA ResourcesModifies ==
  ASSUME NEW d, Clear(d), NEW t, TemplateOf(t, d.app), NEW l \in 1 .. Len(d.containers),
         ReplaceResources(t, d, d.containers[l]).ok
  PROVE  /\ Modified(ReplaceResources(t, d, d.containers[l]).pod, t, d, d.containers[l], ResourcesOf)
         /\ d.containers[l].resources => Found(d, d.containers[l])
<1> DEFINE c == d.containers[l]
           k == [i \in 1 .. Len(d.app) |-> ResourcesOf(t.containers[i], c)]
           x == GetPodTemplateContainer(t, d, c)
           r == ReplaceResources(t, d, c)
<1>1. \A i \in 1 .. Len(d.app) : t.containers[i] \in Containers BY TemplateFacts
<1>2. Parts(k, t, d) BY <1>1, ClearFacts, PartsRemain DEF Parts
<1>3. ~c.resources => \A i \in 1 .. Len(d.app) : k[i] = t.containers[i] BY DEF ResourcesOf
<1>4. x # 0 => x \in 1 .. Len(d.app) BY FindsContainer
<1>5. r = IF ~c.resources THEN Ok(t) ELSE IF x = 0 THEN Fail ELSE Ok(Put(t, x, k))
  <2>1. CASE ~c.resources BY <2>1 DEF ReplaceResources
  <2>2. CASE c.resources /\ x = 0 BY <2>2 DEF ReplaceResources, InContainer
  <2>3. CASE c.resources /\ x # 0
    <3>1. k[x] = ResourcesOf(t.containers[x], c) BY <1>4, <2>3
    <3>2. QED BY <2>3, <3>1 DEF ReplaceResources, InContainer, ResourcesOf, Put, Ok
  <2>4. QED BY <2>1, <2>2, <2>3
<1> HIDE DEF k, x, r
<1>6. Becomes(r.pod, t, d, c, k) /\ (c.resources => Found(d, c)) BY <1>2, <1>3, <1>5, Changes DEF x, r
<1>7. QED BY <1>6 DEF Becomes, Modified, k, r

LEMMA SecurityModifies ==
  ASSUME NEW d, Clear(d), NEW t, TemplateOf(t, d.app), NEW l \in 1 .. Len(d.containers),
         ReplaceSecurityContext(t, d, d.containers[l]).ok
  PROVE  /\ Modified(ReplaceSecurityContext(t, d, d.containers[l]).pod, t, d, d.containers[l], SecurityOf)
         /\ d.containers[l].sync # "none" => Found(d, d.containers[l])
<1> DEFINE c == d.containers[l]
           k == [i \in 1 .. Len(d.app) |-> SecurityOf(t.containers[i], c)]
           x == GetPodTemplateContainer(t, d, c)
           r == ReplaceSecurityContext(t, d, c)
<1>1. \A i \in 1 .. Len(d.app) : t.containers[i] \in Containers BY TemplateFacts
<1>2. Parts(k, t, d) BY <1>1, ClearFacts, PartsRemain DEF Parts
<1>3. c.sync = "none" => \A i \in 1 .. Len(d.app) : k[i] = t.containers[i] BY DEF SecurityOf
<1>4. x # 0 => x \in 1 .. Len(d.app) BY FindsContainer
<1>5. r = IF c.sync = "none" THEN Ok(t) ELSE IF x = 0 THEN Fail ELSE Ok(Put(t, x, k))
  <2>1. CASE c.sync = "none" BY <2>1 DEF ReplaceSecurityContext
  <2>2. CASE c.sync # "none" /\ x = 0 BY <2>2 DEF ReplaceSecurityContext, InContainer
  <2>3. CASE c.sync # "none" /\ x # 0
    <3>1. k[x] = SecurityOf(t.containers[x], c) BY <1>4, <2>3
    <3>2. QED BY <2>3, <3>1 DEF ReplaceSecurityContext, InContainer, SecurityOf, Put, Ok
  <2>4. QED BY <2>1, <2>2, <2>3
<1> HIDE DEF k, x, r
<1>6. Becomes(r.pod, t, d, c, k) /\ (c.sync # "none" => Found(d, c)) BY <1>2, <1>3, <1>5, Changes DEF x, r
<1>7. QED BY <1>6 DEF Becomes, Modified, k, r

LEMMA CommandModifies ==
  ASSUME NEW d, Clear(d), NEW t, TemplateOf(t, d.app), NEW l \in 1 .. Len(d.containers),
         ReplaceCommand(t, d, d.containers[l]).ok
  PROVE  /\ Modified(ReplaceCommand(t, d, d.containers[l]).pod, t, d, d.containers[l], CommandOf)
         /\ Restarts(d.containers[l]) => d.containers[l].command
         /\ d.containers[l].command \/ d.containers[l].args => Found(d, d.containers[l])
<1> DEFINE c == d.containers[l]
           k == [i \in 1 .. Len(d.app) |-> CommandOf(t.containers[i], c)]
           x == GetPodTemplateContainer(t, d, c)
           r == ReplaceCommand(t, d, c)
           helper == IF Restarts(c) THEN {RestartHelper(t.containers[x])} ELSE {}
<1>1. \A i \in 1 .. Len(d.app) : t.containers[i] \in Containers BY TemplateFacts
<1>2. Parts(k, t, d) BY <1>1, ClearFacts, PartsRemain DEF Parts
<1>3. Restarts(c) => c.command BY DEF ReplaceCommand, Fail
<1>4. x # 0 => x \in 1 .. Len(d.app) BY FindsContainer
<1>5. CASE ~c.command /\ ~c.args
  <2>1. r.pod = t BY <1>3, <1>5 DEF ReplaceCommand, Ok
  <2>2. \A i \in 1 .. Len(d.app) : k[i] = t.containers[i] BY <1>3, <1>5 DEF CommandOf
  <2> HIDE DEF k, r
  <2>3. QED BY <1>3, <1>5, <2>1, <2>2 DEF Modified, k, r
<1>6. CASE c.command \/ c.args
  <2> DEFINE u == Put(t, x, k)
  <2>1. x # 0 /\ r = Ok([t EXCEPT !.containers[x] = Command(t.containers[x], c), !.volumes = @ \cup helper])
    BY <1>3, <1>6 DEF ReplaceCommand, Fail, Ok
  <2>2. x \in 1 .. Len(d.app) BY <1>4, <2>1
  <2>3. k[x] = Command(t.containers[x], c) BY <1>6, <2>2 DEF CommandOf
  <2>4. helper \subseteq Volumes
    <3>1. t.containers[x] \in Containers BY <1>1, <2>2
    <3>2. RestartHelper(t.containers[x]) \in Volumes
      BY <3>1 DEF RestartHelper, Volume, Volumes, Containers, Strings
    <3>3. QED BY <3>2
  <2> HIDE DEF k, x, helper
  <2>5. Becomes(u, t, d, c, k) /\ Found(d, c)
    <3>1. x = GetPodTemplateContainer(t, d, c) BY DEF x
    <3>2. QED BY <1>2, <2>1, <3>1, SetFound
  <2>6. /\ r.pod = [u EXCEPT !.volumes = @ \cup helper]
    <3>1. r.pod = [t EXCEPT !.containers[x] = k[x], !.volumes = @ \cup helper] BY <2>1, <2>3 DEF Ok
    <3>2. t \in Template(Len(d.app)) BY DEF TemplateOf
    <3>3. QED BY <3>1, <3>2 DEF Put, Template
  <2> HIDE DEF u, r, c
  <2>7. u \in Template(Len(d.app)) BY <2>5 DEF Becomes, TemplateOf
  <2>8. r.pod \in Template(Len(d.app)) /\ r.pod.containers = u.containers BY <2>4, <2>6, <2>7 DEF Template
  <2>9. Becomes(r.pod, t, d, c, k) BY <2>5, <2>8 DEF Becomes, TemplateOf
  <2>10. QED BY <1>3, <2>5, <2>9 DEF Becomes, Modified, k, r, c
<1>7. QED BY <1>5, <1>6

\* All that a dev container makes of its container.
AllOf(k, c) ==
    LET image    == ImageOf(k, c)
        terminal == TerminalOf(image, c)
        attach   == AttachOf(terminal, c)
        env      == EnvOf(attach, c)
        started  == CommandOf(env, c)
        dir      == DirOf(started, c)
        security == SecurityOf(dir, c)
    IN  ResourcesOf(security, c)

\* The modifications of a dev container are made one after the other if none fails.
LEMMA ModifyDevContainerModifies ==
  ASSUME NEW d, Clear(d), NEW t, TemplateOf(t, d.app), NEW l \in 1 .. Len(d.containers),
         ModifyDevContainer(t, d, d.containers[l]).ok
  PROVE  /\ Modified(ModifyDevContainer(t, d, d.containers[l]).pod, t, d, d.containers[l], AllOf)
         /\ Restarts(d.containers[l]) => d.containers[l].command
         /\ Modifies(d.containers[l]) => Found(d, d.containers[l])
<1> DEFINE c == d.containers[l]
           image    == ReplaceImage(t, d, c)
           terminal == Then(image, LAMBDA u : ReplaceTerminal(u, d, c))
           attach   == Then(terminal, LAMBDA u : ReplaceAttach(u, d, c))
           env      == Then(attach, LAMBDA u : ReplaceEnv(u, d, c))
           started  == Then(env, LAMBDA u : ReplaceCommand(u, d, c))
           dir      == Then(started, LAMBDA u : ReplaceWorkingDir(u, d, c))
           security == Then(dir, LAMBDA u : ReplaceSecurityContext(u, d, c))
           all      == Then(security, LAMBDA u : ReplaceResources(u, d, c))
<1>1. all = ModifyDevContainer(t, d, c) BY DEF ModifyDevContainer
<1> HIDE DEF c
<1>2. security.ok /\ all = ReplaceResources(security.pod, d, c) BY <1>1 DEF Then, c
<1>3. dir.ok /\ security = ReplaceSecurityContext(dir.pod, d, c)
  <2> HIDE DEF dir
  <2>1. QED BY <1>2 DEF Then
<1>4. started.ok /\ dir = ReplaceWorkingDir(started.pod, d, c)
  <2> HIDE DEF started
  <2>1. QED BY <1>3 DEF Then
<1>5. env.ok /\ started = ReplaceCommand(env.pod, d, c)
  <2> HIDE DEF env
  <2>1. QED BY <1>4 DEF Then
<1>6. attach.ok /\ env = ReplaceEnv(attach.pod, d, c)
  <2> HIDE DEF attach
  <2>1. QED BY <1>5 DEF Then
<1>7. terminal.ok /\ attach = ReplaceAttach(terminal.pod, d, c)
  <2> HIDE DEF terminal
  <2>1. QED BY <1>6 DEF Then
<1>8. image.ok /\ terminal = ReplaceTerminal(image.pod, d, c)
  <2> HIDE DEF image
  <2>1. QED BY <1>7 DEF Then
<1>9. image = ReplaceImage(t, d, c) OBVIOUS
<1> HIDE DEF image, terminal, attach, env, started, dir, security, all
<1>10. Modified(image.pod, t, d, c, ImageOf) /\ (c.devImage => Found(d, c))
  BY <1>8, <1>9, ImageModifies DEF c
<1>11. Modified(terminal.pod, image.pod, d, c, TerminalOf) /\ (c.terminal => Found(d, c))
  <2>1. TemplateOf(image.pod, d.app) BY <1>10 DEF Modified
  <2>2. QED BY <1>7, <1>8, <2>1, TerminalModifies DEF c
<1>12. Modified(attach.pod, terminal.pod, d, c, AttachOf) /\ (c.attach => Found(d, c))
  <2>1. TemplateOf(terminal.pod, d.app) BY <1>11 DEF Modified
  <2>2. QED BY <1>6, <1>7, <2>1, AttachModifies DEF c
<1>13. Modified(env.pod, attach.pod, d, c, EnvOf) /\ (c.env => Found(d, c))
  <2>1. TemplateOf(attach.pod, d.app) BY <1>12 DEF Modified
  <2>2. QED BY <1>5, <1>6, <2>1, EnvModifies DEF c
<1>14. /\ Modified(started.pod, env.pod, d, c, CommandOf) /\ (Restarts(c) => c.command)
       /\ c.command \/ c.args => Found(d, c)
  <2>1. TemplateOf(env.pod, d.app) BY <1>13 DEF Modified
  <2>2. QED BY <1>4, <1>5, <2>1, CommandModifies DEF c
<1>15. Modified(dir.pod, started.pod, d, c, DirOf) /\ (c.workingDir => Found(d, c))
  <2>1. TemplateOf(started.pod, d.app) BY <1>14 DEF Modified
  <2>2. QED BY <1>3, <1>4, <2>1, DirModifies DEF c
<1>16. Modified(security.pod, dir.pod, d, c, SecurityOf) /\ (c.sync # "none" => Found(d, c))
  <2>1. TemplateOf(dir.pod, d.app) BY <1>15 DEF Modified
  <2>2. QED BY <1>2, <1>3, <2>1, SecurityModifies DEF c
<1>17. Modified(all.pod, security.pod, d, c, ResourcesOf) /\ (c.resources => Found(d, c))
  <2>1. TemplateOf(security.pod, d.app) BY <1>16 DEF Modified
  <2>2. QED BY <1>1, <1>2, <2>1, ResourcesModifies DEF c
<1>18. Modified(all.pod, t, d, c, AllOf)
  BY <1>10, <1>11, <1>12, <1>13, <1>14, <1>15, <1>16, <1>17 DEF Modified, AllOf
<1>19. QED BY <1>1, <1>10, <1>11, <1>12, <1>13, <1>14, <1>15, <1>16, <1>17, <1>18 DEF Modifies, c

-----------------------------------------------------------------------------
(* The rounds through the dev containers.                                  *)

\* What is made of a template after each of the dev containers.
After(f, round, t, d) ==
    /\ f[0] = Ok(t)
    /\ \A l \in 1 .. Len(d.containers) : f[l] = Then(f[l-1], LAMBDA u : InTurn(round, u, d, d.containers[l]))

\* The function that EachDevContainer is defined by exists: a shortest part of it that did
\* not would be one longer than one that does.
LEMMA EachAfter ==
  ASSUME NEW round, NEW t, NEW d, Len(d.containers) \in Nat
  PROVE  \E f : After(f, round, t, d) /\ EachDevContainer(round, t, d) = f[Len(d.containers)]
<1> DEFINE n == Len(d.containers)
           G(r, l) == Then(r, LAMBDA u : InTurn(round, u, d, d.containers[l]))
           F(f, m) == f = [l \in 0 .. m |-> IF l = 0 THEN Ok(t) ELSE G(f[l-1], l)]
           Missing == {m \in 0 .. n : ~\E f : F(f, m)}
<1> HIDE DEF G
<1>1. Missing = {}
  <2>1. SUFFICES ASSUME Missing # {} PROVE FALSE OBVIOUS
  <2>2. Missing \subseteq Nat OBVIOUS
  <2> HIDE DEF Missing
  <2>3. PICK m \in Missing : \A q \in Missing : m <= q BY <2>1, <2>2, LeastNumber
  <2>4. m \in 0 .. n /\ ~\E f : F(f, m) BY DEF Missing
  <2>5. m # 0
    <3>1. F([l \in 0 .. 0 |-> Ok(t)], 0) OBVIOUS
    <3>2. QED BY <2>4, <3>1
  <2>6. m - 1 \in 0 .. n /\ ~(m <= m - 1) BY <2>4, <2>5
  <2>7. PICK f : F(f, m - 1) BY <2>3, <2>6 DEF Missing
  <2> DEFINE g == [l \in 0 .. m |-> IF l = m THEN G(f[m-1], m) ELSE f[l]]
  <2>8. \A l \in 0 .. m : g[l] = IF l = 0 THEN Ok(t) ELSE G(g[l-1], l)
    <3>1. TAKE l \in 0 .. m
    <3>2. CASE l = m
      <4>1. m - 1 \in 0 .. m /\ m - 1 # m BY <2>4, <2>5
      <4>2. g[m-1] = f[m-1] BY <4>1
      <4>3. g[l] = G(f[m-1], m) BY <3>2
      <4>4. QED BY <2>5, <3>2, <4>2, <4>3
    <3>3. CASE l # m
      <4>1. l \in 0 .. (m - 1) BY <2>4, <3>3
      <4>2. f[l] = IF l = 0 THEN Ok(t) ELSE G(f[l-1], l) BY <2>7, <4>1
      <4>3. g[l] = f[l] BY <3>3
      <4>4. l # 0 => g[l-1] = f[l-1]
        <5>1. l # 0 => l - 1 \in 0 .. m /\ l - 1 # m BY <2>4, <3>3
        <5>2. QED BY <5>1
      <4>5. QED BY <4>2, <4>3, <4>4
    <3>4. QED BY <3>2, <3>3
  <2>9. F(g, m)
    <3>1. g = [l \in 0 .. m |-> g[l]] OBVIOUS
    <3> HIDE DEF g
    <3>2. [l \in 0 .. m |-> g[l]] = [l \in 0 .. m |-> IF l = 0 THEN Ok(t) ELSE G(g[l-1], l)] BY <2>8
    <3>3. QED BY <3>1, <3>2
  <2>10. QED BY <2>4, <2>9
<1>2. PICK g : F(g, n) BY <1>1
<1> DEFINE after == CHOOSE f : F(f, n)
<1>3. F(after, n) BY <1>2
<1>4. EachDevContainer(round, t, d) = after[n] BY DEF EachDevContainer, G
<1> HIDE DEF after
<1>5. after[0] = Ok(t) BY <1>3
<1>6. \A l \in 1 .. n : after[l] = G(after[l-1], l) BY <1>3
<1>7. After(after, round, t, d) BY <1>5, <1>6 DEF After, G
<1>8. QED BY <1>4, <1>7

\* A container is what at most one dev container is about.
LEMMA AboutOne ==
  ASSUME NEW d, Clear(d), NEW l \in 1 .. Len(d.containers), NEW m \in 1 .. Len(d.containers), NEW i,
         About(d.containers[l], d.app, i), About(d.containers[m], d.app, i)
  PROVE  l = m
<1>1. DOMAIN d.containers = 1 .. Len(d.containers) /\ Len(d.containers) \in Nat BY ClearFacts
<1>2. CASE Len(d.containers) = 1 BY <1>1, <1>2
<1>3. CASE Len(d.containers) # 1
  <2>1. d.containers[l].container = d.app[i].name /\ d.containers[m].container = d.app[i].name
    BY <1>1, <1>3 DEF Clear, DevContainers, About
  <2>2. QED BY <1>1, <2>1 DEF Clear, DevContainers
<1>4. QED BY <1>2, <1>3

\* A round through the first dev containers has modified what they are about, no more.
Through(u, t, d, m, Of(_, _)) ==
    /\ TemplateOf(u, d.app)
    /\ \A i \in 1 .. Len(d.app) :
          /\ \A l \in 1 .. m : About(d.containers[l], d.app, i) => u.containers[i] = Of(t.containers[i], d.containers[l])
          /\ (\A l \in 1 .. m : ~About(d.containers[l], d.app, i)) => u.containers[i] = t.containers[i]

\* The first dev containers have a container and the restart helper a command.
Served(d, m) ==
    \A l \in 1 .. m : /\ Restarts(d.containers[l]) => d.containers[l].command
                      /\ Modifies(d.containers[l]) => Found(d, d.containers[l])

LEMMA ModifyRound ==
  ASSUME NEW d, Clear(d), NEW t, TemplateOf(t, d.app), EachDevContainer("modify", t, d).ok
  PROVE  /\ Through(EachDevContainer("modify", t, d).pod, t, d, Len(d.containers), AllOf)
         /\ Served(d, Len(d.containers))
<1> DEFINE n == Len(d.containers)
<1>1. n \in Nat BY ClearFacts
<1>2. PICK f : After(f, "modify", t, d) /\ EachDevContainer("modify", t, d) = f[n] BY <1>1, EachAfter
<1> DEFINE P(m) == f[m].ok => Through(f[m].pod, t, d, m, AllOf) /\ Served(d, m)
           Wrong == {m \in 0 .. n : ~P(m)}
<1>3. P(0)
  <2>1. f[0] = Ok(t) BY <1>2 DEF After
  <2>2. QED BY <2>1 DEF Ok, Through, Served
<1>4. ASSUME NEW m \in 1 .. n, P(m - 1) PROVE P(m)
  <2>1. SUFFICES ASSUME f[m].ok PROVE Through(f[m].pod, t, d, m, AllOf) /\ Served(d, m) OBVIOUS
  <2> DEFINE c == d.containers[m]
             u == f[m-1].pod
  <2>2. f[m] = IF f[m-1].ok THEN ModifyDevContainer(u, d, c) ELSE f[m-1] BY <1>2 DEF After, InTurn, Then
  <2>3. f[m-1].ok /\ f[m] = ModifyDevContainer(u, d, c) BY <2>1, <2>2
  <2>4. Through(u, t, d, m - 1, AllOf) /\ Served(d, m - 1) BY <1>4, <2>3
  <2>5. TemplateOf(u, d.app) BY <2>4 DEF Through
  <2> HIDE DEF u
  <2>6. /\ Modified(f[m].pod, u, d, c, AllOf) /\ (Restarts(c) => c.command)
        /\ Modifies(c) => Found(d, c)
    BY <2>1, <2>3, <2>5, ModifyDevContainerModifies
  <2> HIDE DEF c
  <2>7. \A l \in 1 .. m : l \in 1 .. (m - 1) \/ l = m BY <1>1
  <2>8. Served(d, m) BY <2>4, <2>6, <2>7 DEF c, Served
  <2>9. \A l \in 1 .. (m - 1) : l \in 1 .. n /\ l \in 1 .. m /\ l # m BY <1>1
  <2>10. m \in 1 .. m BY <1>1
  <2>11. ASSUME NEW i \in 1 .. Len(d.app), About(c, d.app, i)
         PROVE  /\ f[m].pod.containers[i] = AllOf(t.containers[i], c)
                /\ \A l \in 1 .. (m - 1) : ~About(d.containers[l], d.app, i)
    <3>1. \A l \in 1 .. (m - 1) : ~About(d.containers[l], d.app, i) BY <2>9, <2>11, AboutOne DEF c
    <3>2. u.containers[i] = t.containers[i] BY <2>4, <3>1 DEF Through
    <3>3. QED BY <2>6, <2>11, <3>1, <3>2 DEF Modified
  <2>12. ASSUME NEW i \in 1 .. Len(d.app), ~About(c, d.app, i)
         PROVE  f[m].pod.containers[i] = u.containers[i]
    BY <2>6, <2>12 DEF Modified
  <2>13. ASSUME NEW i \in 1 .. Len(d.app), NEW l \in 1 .. m, About(d.containers[l], d.app, i)
         PROVE  f[m].pod.containers[i] = AllOf(t.containers[i], d.containers[l])
    <3>1. CASE l = m BY <2>11, <2>13, <3>1 DEF c
    <3>2. CASE l \in 1 .. (m - 1)
      <4>1. ~About(c, d.app, i) BY <2>11, <2>13, <3>2
      <4>2. QED BY <2>4, <2>12, <2>13, <3>2, <4>1 DEF Through
    <3>3. QED BY <2>7, <3>1, <3>2
  <2>14. ASSUME NEW i \in 1 .. Len(d.app), \A l \in 1 .. m : ~About(d.containers[l], d.app, i)
         PROVE  f[m].pod.containers[i] = t.containers[i]
    <3>1. ~About(c, d.app, i) BY <2>10, <2>14 DEF c
    <3>2. \A l \in 1 .. (m - 1) : ~About(d.containers[l], d.app, i) BY <2>9, <2>14
    <3>3. QED BY <2>4, <2>12, <3>1, <3>2 DEF Through
  <2>15. TemplateOf(f[m].pod, d.app) BY <2>6 DEF Modified
  <2>16. QED BY <2>8, <2>13, <2>14, <2>15 DEF Through
<1> HIDE DEF P
<1>5. Wrong = {}
  <2>1. SUFFICES ASSUME Wrong # {} PROVE FALSE OBVIOUS
  <2>2. Wrong \subseteq Nat BY <1>1
  <2> HIDE DEF Wrong
  <2>3. PICK m \in Wrong : \A q \in Wrong : m <= q BY <2>1, <2>2, LeastNumber
  <2>4. m \in 1 .. n /\ ~P(m) BY <1>1, <1>3 DEF Wrong
  <2>5. m - 1 \in 0 .. n /\ ~(m <= m - 1) BY <1>1, <2>4
  <2>6. P(m - 1) BY <2>3, <2>5 DEF Wrong
  <2>7. QED BY <1>4, <2>4, <2>6
<1>6. P(n) BY <1>1, <1>5
<1>7. QED BY <1>2, <1>6 DEF P

\* The container a dev container is about is the one of its name.
LEMMA NamedAbout ==
  ASSUME NEW d, Clear(d), NEW t, TemplateOf(t, d.app), NEW l \in 1 .. Len(d.containers),
         d.containers[l].container # Unnamed \/ Len(d.app) <= 1
  PROVE  LET c == d.containers[l]
             x == ContainerNamed(t, c.container)
         IN  /\ x # 0 => x \in 1 .. Len(d.app)
             /\ \A i \in 1 .. Len(d.app) : About(c, d.app, i) <=> i = x
<1> DEFINE c == d.containers[l]
           n == Len(d.app)
           x == ContainerNamed(t, c.container)
           S == {i \in DOMAIN t.containers : c.container \in {Unnamed, t.containers[i].name}}
<1>1. /\ DOMAIN t.containers = 1 .. n /\ n \in Nat
      /\ \A i \in 1 .. n : d.app[i].name # Unnamed /\ t.containers[i].name = d.app[i].name
  BY TemplateFacts, ClearFacts DEF TemplateOf
<1>2. \A i, j \in 1 .. n : d.app[i].name = d.app[j].name => i = j BY ClearFacts DEF Clear, AppContainers
<1>3. S \subseteq 1 .. n /\ \A i \in 1 .. n : i \in S <=> About(c, d.app, i)
  <2>1. CASE c.container # Unnamed BY <1>1, <2>1 DEF About
  <2>2. CASE c.container = Unnamed
    <3>1. ASSUME NEW q \in Nat, q <= 1, NEW i \in 1 .. q PROVE q = 1 BY <3>1
    <3>2. \A i \in 1 .. n : n = 1 BY <1>1, <2>2, <3>1
    <3>3. QED BY <1>1, <2>2, <3>2 DEF About
  <2>3. QED BY <2>1, <2>2
<1>4. \A i, j \in S : i = j
  <2>1. CASE c.container # Unnamed BY <1>1, <1>2, <2>1
  <2>2. CASE c.container = Unnamed
    <3>1. ASSUME NEW q \in Nat, q <= 1, NEW i \in 1 .. q, NEW j \in 1 .. q PROVE i = j BY <3>1
    <3>2. QED BY <1>1, <2>2, <3>1
  <2>3. QED BY <2>1, <2>2
<1>5. x = FirstOf(S) BY DEF ContainerNamed
<1> HIDE DEF S, x, c
<1>6. S # {} => x \in S
  <2>1. S \subseteq Nat BY <1>1, <1>3
  <2>2. S # {} => \E i \in S : \A j \in S : i <= j BY <2>1, LeastNumber
  <2>3. QED BY <1>5, <2>2 DEF FirstOf
<1>7. S = {} => x = 0 BY <1>5 DEF FirstOf
<1>8. x # 0 => x \in 1 .. n BY <1>3, <1>6, <1>7
<1>9. ASSUME NEW i \in 1 .. n PROVE About(c, d.app, i) <=> i = x
  <2>1. i # 0 BY <1>1
  <2>2. i \in S <=> i = x BY <1>4, <1>6, <1>7, <2>1
  <2>3. QED BY <1>3, <2>2
<1>10. QED BY <1>8, <1>9 DEF x, c

LEMMA PersistPathModifies ==
  ASSUME NEW d, Clear(d), NEW t, TemplateOf(t, d.app), NEW l \in 1 .. Len(d.containers),
         PersistPath(t, d.containers[l]).ok
  PROVE  Modified(PersistPath(t, d.containers[l]).pod, t, d, d.containers[l], PathOf)
<1> DEFINE c == d.containers[l]
           n == Len(d.app)
           x == ContainerNamed(t, c.container)
           k == [i \in 1 .. n |-> PathOf(t.containers[i], c)]
           r == PersistPath(t, c)
<1>1. CASE c.persist = "none"
  <2>1. r.pod = t BY <1>1 DEF PersistPath, Ok
  <2>2. QED BY <1>1, <2>1 DEF Modified, PathOf
<1>2. CASE c.persist # "none"
  <2>1. Len(t.containers) = n /\ \A i \in 1 .. n : t.containers[i] \in Containers BY TemplateFacts
  <2>2. ~(n > 1 /\ c.container = Unnamed) BY <1>2, <2>1 DEF PersistPath, Fail
  <2>3. c.container # Unnamed \/ n <= 1 BY <2>2, ClearFacts
  <2>4. (x # 0 => x \in 1 .. n) /\ \A i \in 1 .. n : About(c, d.app, i) <=> i = x BY <2>3, NamedAbout
  <2>5. CASE x = 0
    <3>1. r.pod = t BY <1>2, <2>1, <2>2, <2>5 DEF PersistPath, Ok
    <3>2. \A i \in 1 .. n : ~About(c, d.app, i) BY <2>4, <2>5
    <3>3. QED BY <3>1, <3>2 DEF Modified
  <2>6. CASE x # 0
    <3> DEFINE inits == IF c.persist = "populate" THEN {t.containers[x].image} ELSE {}
               u == Put(t, x, k)
    <3>1. x \in 1 .. n BY <2>4, <2>6
    <3>2. r.pod = [t EXCEPT !.containers[x].mounts = @ \cup {Persistence}, !.initContainers = @ \cup inits]
      BY <1>2, <2>1, <2>2, <2>6 DEF PersistPath, Ok
    <3>3. k[x] = [t.containers[x] EXCEPT !.mounts = @ \cup {Persistence}] BY <1>2, <3>1 DEF PathOf
    <3>4. inits \subseteq Strings
      <4>1. t.containers[x] \in Containers BY <2>1, <3>1
      <4>2. t.containers[x].image \in Strings BY <4>1 DEF Containers
      <4>3. QED BY <4>2
    <3>5. \A i \in 1 .. n : Remains(k[i], t.containers[i]) BY <2>1, ClearFacts, PartsRemain
    <3>6. t \in Template(n) BY DEF TemplateOf
    <3> HIDE DEF k, x, inits, r
    <3>7. r.pod = [u EXCEPT !.initContainers = @ \cup inits] BY <3>2, <3>3, <3>6 DEF Put, Template
    <3>8. u \in Template(n) /\ \A i \in 1 .. n : u.containers[i] = IF i = x THEN k[x] ELSE t.containers[i]
      <4>1. k[x] \in Containers BY <3>1, <3>5 DEF Remains
      <4>2. ASSUME NEW w, w = Put(t, x, k)
            PROVE  w \in Template(n) /\ \A i \in 1 .. n : w.containers[i] = IF i = x THEN k[x] ELSE t.containers[i]
        BY <3>1, <3>6, <4>1, <4>2, ContainerSet DEF Put
      <4>3. QED BY <4>2
    <3> HIDE DEF u
    <3>9. r.pod \in Template(n) /\ r.pod.containers = u.containers BY <3>4, <3>7, <3>8 DEF Template
    <3>10. \A i \in 1 .. n : r.pod.containers[i] = IF About(c, d.app, i) THEN k[i] ELSE t.containers[i]
      BY <2>4, <3>8, <3>9
    <3>11. TemplateOf(r.pod, d.app) BY <3>5, <3>9, <3>10 DEF TemplateOf, Remains
    <3>12. QED BY <3>10, <3>11 DEF Modified, k, r
  <2>7. QED BY <2>5, <2>6
<1>3. QED BY <1>1, <1>2

LEMMA PersistRound ==
  ASSUME NEW d, Clear(d), NEW t, TemplateOf(t, d.app), EachDevContainer("persist", t, d).ok
  PROVE  Through(EachDevContainer("persist", t, d).pod, t, d, Len(d.containers), PathOf)
<1> DEFINE n == Len(d.containers)
<1>1. n \in Nat BY ClearFacts
<1>2. PICK f : After(f, "persist", t, d) /\ EachDevContainer("persist", t, d) = f[n] BY <1>1, EachAfter
<1> DEFINE P(m) == f[m].ok => Through(f[m].pod, t, d, m, PathOf)
           Wrong == {m \in 0 .. n : ~P(m)}
<1>3. P(0)
  <2>1. f[0] = Ok(t) BY <1>2 DEF After
  <2>2. QED BY <2>1 DEF Ok, Through
<1>4. ASSUME NEW m \in 1 .. n, P(m - 1) PROVE P(m)
  <2>1. SUFFICES ASSUME f[m].ok PROVE Through(f[m].pod, t, d, m, PathOf) OBVIOUS
  <2> DEFINE c == d.containers[m]
             u == f[m-1].pod
  <2>2. f[m] = IF f[m-1].ok THEN PersistPath(u, c) ELSE f[m-1] BY <1>2 DEF After, InTurn, Then
  <2>3. f[m-1].ok /\ f[m] = PersistPath(u, c) BY <2>1, <2>2
  <2>4. Through(u, t, d, m - 1, PathOf) BY <1>4, <2>3
  <2>5. TemplateOf(u, d.app) BY <2>4 DEF Through
  <2> HIDE DEF u
  <2>6. Modified(f[m].pod, u, d, c, PathOf)
    BY <2>1, <2>3, <2>5, PersistPathModifies
  <2> HIDE DEF c
  <2>7. \A l \in 1 .. m : l \in 1 .. (m - 1) \/ l = m BY <1>1
  <2>8. \A l \in 1 .. (m - 1) : l \in 1 .. n /\ l \in 1 .. m /\ l # m BY <1>1
  <2>9. m \in 1 .. m BY <1>1
  <2>10. ASSUME NEW i \in 1 .. Len(d.app), About(c, d.app, i)
         PROVE  /\ f[m].pod.containers[i] = PathOf(t.containers[i], c)
                /\ \A l \in 1 .. (m - 1) : ~About(d.containers[l], d.app, i)
    <3>1. \A l \in 1 .. (m - 1) : ~About(d.containers[l], d.app, i) BY <2>8, <2>10, AboutOne DEF c
    <3>2. u.containers[i] = t.containers[i] BY <2>4, <3>1 DEF Through
    <3>3. QED BY <2>6, <2>10, <3>1, <3>2 DEF Modified
  <2>11. ASSUME NEW i \in 1 .. Len(d.app), ~About(c, d.app, i)
         PROVE  f[m].pod.containers[i] = u.containers[i]
    BY <2>6, <2>11 DEF Modified
  <2>12. ASSUME NEW i \in 1 .. Len(d.app), NEW l \in 1 .. m, About(d.containers[l], d.app, i)
         PROVE  f[m].pod.containers[i] = PathOf(t.containers[i], d.containers[l])
    <3>1. CASE l = m BY <2>10, <2>12, <3>1 DEF c
    <3>2. CASE l \in 1 .. (m - 1)
      <4>1. ~About(c, d.app, i) BY <2>10, <2>12, <3>2
      <4>2. QED BY <2>4, <2>11, <2>12, <3>2, <4>1 DEF Through
    <3>3. QED BY <2>7, <3>1, <3>2
  <2>13. ASSUME NEW i \in 1 .. Len(d.app), \A l \in 1 .. m : ~About(d.containers[l], d.app, i)
         PROVE  f[m].pod.containers[i] = t.containers[i]
    <3>1. ~About(c, d.app, i) BY <2>9, <2>13 DEF c
    <3>2. \A l \in 1 .. (m - 1) : ~About(d.containers[l], d.app, i) BY <2>8, <2>13
    <3>3. QED BY <2>4, <2>11, <3>1, <3>2 DEF Through
  <2>14. TemplateOf(f[m].pod, d.app) BY <2>6 DEF Modified
  <2>15. QED BY <2>12, <2>13, <2>14 DEF Through
<1> HIDE DEF P
<1>5. Wrong = {}
  <2>1. SUFFICES ASSUME Wrong # {} PROVE FALSE OBVIOUS
  <2>2. Wrong \subseteq Nat BY <1>1
  <2> HIDE DEF Wrong
  <2>3. PICK m \in Wrong : \A q \in Wrong : m <= q BY <2>1, <2>2, LeastNumber
  <2>4. m \in 1 .. n /\ ~P(m) BY <1>1, <1>3 DEF Wrong
  <2>5. m - 1 \in 0 .. n /\ ~(m <= m - 1) BY <1>1, <2>4
  <2>6. P(m - 1) BY <2>3, <2>5 DEF Wrong
  <2>7. QED BY <1>4, <2>4, <2>6
<1>6. P(n) BY <1>1, <1>5
<1>7. QED BY <1>2, <1>6 DEF P

-----------------------------------------------------------------------------
(* The dev pod has what is asked for.                                      *)

\* Applied one after the other the modifications make what is asked for of a container of
\* the application: a later one does not undo an earlier one but for the command.
LEMMA AskedAll ==
  ASSUME NEW own \in Containers, own = AppContainer(own.name, own.image), NEW c \in DevContainer,
         Restarts(c) => c.command
  PROVE  Asked(PathOf(AllOf(own, c), c), own, c)
<1> DEFINE image == ImageOf(own, c)
           terminal == TerminalOf(image, c)
           attach == AttachOf(terminal, c)
           env == EnvOf(attach, c)
           started == CommandOf(env, c)
           dir == DirOf(started, c)
           security == SecurityOf(dir, c)
           resources == ResourcesOf(security, c)
           path == PathOf(resources, c)
<1>1. PathOf(AllOf(own, c), c) = path BY DEF AllOf
<1>2. /\ c.devImage \in BOOLEAN /\ c.terminal \in BOOLEAN /\ c.attach \in BOOLEAN /\ c.env \in BOOLEAN
      /\ c.command \in BOOLEAN /\ c.args \in BOOLEAN /\ c.workingDir \in BOOLEAN /\ c.resources \in BOOLEAN
  BY DEF DevContainer
<1> HIDE DEF image, terminal, attach, env, started, dir, security, resources, path
<1>3. image \in Containers /\ image.name = own.name BY PartsRemain DEF Remains, image
<1>4. /\ image.probes = (~c.devImage /\ own.probes)
      /\ image.image = (IF c.devImage THEN DevImage ELSE own.image)
      /\ image.command = own.command /\ image.args = own.args /\ image.interactive = own.interactive
      /\ image.env = own.env /\ image.workingDir = own.workingDir /\ image.resources = own.resources
      /\ image.readOnlyRoot = own.readOnlyRoot /\ image.mounts = own.mounts
  BY <1>2, <1>3 DEF image, ImageOf, Containers
<1>5. terminal \in Containers /\ terminal.name = image.name BY <1>3, PartsRemain DEF Remains, terminal
<1>6. /\ terminal.probes = (~c.terminal /\ image.probes)
      /\ terminal.command = (IF c.terminal THEN "sleep" ELSE image.command)
      /\ terminal.args = (IF c.terminal THEN "none" ELSE image.args)
      /\ terminal.image = image.image /\ terminal.interactive = image.interactive /\ terminal.env = image.env
      /\ terminal.workingDir = image.workingDir /\ terminal.resources = image.resources /\ terminal.readOnlyRoot = image.readOnlyRoot
      /\ terminal.mounts = image.mounts
  BY <1>2, <1>3, <1>5 DEF terminal, TerminalOf, Containers
<1>7. attach \in Containers /\ attach.name = terminal.name BY <1>5, PartsRemain DEF Remains, attach
<1>8. /\ attach.probes = (~c.attach /\ terminal.probes)
      /\ attach.interactive = (c.attach \/ terminal.interactive)
      /\ attach.image = terminal.image /\ attach.command = terminal.command /\ attach.args = terminal.args
      /\ attach.env = terminal.env /\ attach.workingDir = terminal.workingDir /\ attach.resources = terminal.resources
      /\ attach.readOnlyRoot = terminal.readOnlyRoot /\ attach.mounts = terminal.mounts
  BY <1>2, <1>5, <1>7 DEF attach, AttachOf, Containers
<1>9. env \in Containers /\ env.name = attach.name BY <1>7, PartsRemain DEF Remains, env
<1>10. /\ env.env = (IF c.env THEN attach.env \cup {"config"} ELSE attach.env)
       /\ env.image = attach.image /\ env.probes = attach.probes /\ env.command = attach.command
       /\ env.args = attach.args /\ env.interactive = attach.interactive /\ env.workingDir = attach.workingDir
       /\ env.resources = attach.resources /\ env.readOnlyRoot = attach.readOnlyRoot /\ env.mounts = attach.mounts
  BY <1>2, <1>7, <1>9 DEF env, EnvOf, Containers
<1>11. started \in Containers /\ started.name = env.name BY <1>9, PartsRemain DEF Remains, started
<1>12. /\ started.probes = (~c.command /\ ~c.args /\ env.probes)
       /\ started.command = (IF Restarts(c) THEN "restart" ELSE IF c.command THEN "config" ELSE env.command)
       /\ started.args = (IF c.args THEN "config" ELSE env.args)
       /\ started.mounts = (IF Restarts(c) THEN env.mounts \cup {RestartHelper(env)} ELSE env.mounts)
       /\ started.image = env.image /\ started.interactive = env.interactive /\ started.env = env.env
       /\ started.workingDir = env.workingDir /\ started.resources = env.resources /\ started.readOnlyRoot = env.readOnlyRoot
  <2>1. CASE Restarts(c) \/ c.command \/ c.args
    <3>1. started = Command(env, c) BY <2>1 DEF started, CommandOf
    <3>2. c.command \/ c.args BY <2>1
    <3>3. env.mounts \cup {} = env.mounts OBVIOUS
    <3>4. QED BY <1>2, <1>9, <3>1, <3>2, <3>3 DEF Containers, Command, Unprobed
  <2>2. CASE ~(Restarts(c) \/ c.command \/ c.args)
    <3>1. started = env BY <2>2 DEF started, CommandOf
    <3>2. env.probes \in BOOLEAN BY <1>9 DEF Containers
    <3>3. QED BY <2>2, <3>1, <3>2
  <2>3. QED BY <2>1, <2>2
<1>13. dir \in Containers /\ dir.name = started.name BY <1>11, PartsRemain DEF Remains, dir
<1>14. /\ dir.probes = (~c.workingDir /\ started.probes)
       /\ dir.workingDir = (IF c.workingDir THEN "config" ELSE started.workingDir)
       /\ dir.image = started.image /\ dir.command = started.command /\ dir.args = started.args
       /\ dir.interactive = started.interactive /\ dir.env = started.env /\ dir.resources = started.resources
       /\ dir.readOnlyRoot = started.readOnlyRoot /\ dir.mounts = started.mounts
  BY <1>2, <1>11, <1>13 DEF dir, DirOf, Containers
<1>15. security \in Containers /\ security.name = dir.name BY <1>13, PartsRemain DEF Remains, security
<1>16. /\ security.readOnlyRoot = (c.sync = "none" /\ dir.readOnlyRoot)
       /\ security.image = dir.image /\ security.probes = dir.probes /\ security.command = dir.command
       /\ security.args = dir.args /\ security.interactive = dir.interactive /\ security.env = dir.env
       /\ security.workingDir = dir.workingDir /\ security.resources = dir.resources /\ security.mounts = dir.mounts
  BY <1>2, <1>13, <1>15 DEF security, SecurityOf, Containers
<1>17. resources \in Containers /\ resources.name = security.name BY <1>15, PartsRemain DEF Remains, resources
<1>18. /\ resources.resources = (IF c.resources THEN "config" ELSE security.resources)
       /\ resources.image = security.image /\ resources.probes = security.probes /\ resources.command = security.command
       /\ resources.args = security.args /\ resources.interactive = security.interactive /\ resources.env = security.env
       /\ resources.workingDir = security.workingDir /\ resources.readOnlyRoot = security.readOnlyRoot /\ resources.mounts = security.mounts
  BY <1>2, <1>15, <1>17 DEF resources, ResourcesOf, Containers
<1>19. path \in Containers /\ path.name = resources.name BY <1>17, PartsRemain DEF Remains, path
<1>20. /\ path.mounts = (IF c.persist # "none" THEN resources.mounts \cup {Persistence} ELSE resources.mounts)
       /\ path.image = resources.image /\ path.probes = resources.probes /\ path.command = resources.command
       /\ path.args = resources.args /\ path.interactive = resources.interactive /\ path.env = resources.env
       /\ path.workingDir = resources.workingDir /\ path.resources = resources.resources /\ path.readOnlyRoot = resources.readOnlyRoot
  BY <1>2, <1>17, <1>19 DEF path, PathOf, Containers
<1>21. /\ own.probes = TRUE /\ own.command = "own" /\ own.args = "own" /\ own.interactive = FALSE
       /\ own.env = {} /\ own.workingDir = "own" /\ own.resources = "own"
       /\ own.readOnlyRoot = TRUE /\ own.mounts = {}
  BY DEF AppContainer
<1>22. path.name = own.name /\ path.image = (IF c.devImage THEN DevImage ELSE own.image)
  BY <1>4, <1>6, <1>8, <1>10, <1>12, <1>14, <1>16, <1>18, <1>20, <1>21, <1>3, <1>5, <1>7, <1>9, <1>11, <1>13, <1>15, <1>17, <1>19
<1>23. /\ path.command = (IF Restarts(c) THEN "restart" ELSE IF c.command THEN "config"
                         ELSE IF c.terminal THEN "sleep" ELSE "own")
       /\ path.args = (IF c.args THEN "config" ELSE IF c.terminal THEN "none" ELSE "own")
  BY <1>4, <1>6, <1>8, <1>10, <1>12, <1>14, <1>16, <1>18, <1>20, <1>21
<1>24. path.interactive = c.attach BY <1>2, <1>4, <1>6, <1>8, <1>10, <1>12, <1>14, <1>16, <1>18, <1>20, <1>21
<1>25. path.env = (IF c.env THEN {"config"} ELSE {}) BY <1>4, <1>6, <1>8, <1>10, <1>12, <1>14, <1>16, <1>18, <1>20, <1>21
<1>26. /\ path.workingDir = (IF c.workingDir THEN "config" ELSE "own")
       /\ path.resources = (IF c.resources THEN "config" ELSE "own")
  BY <1>4, <1>6, <1>8, <1>10, <1>12, <1>14, <1>16, <1>18, <1>20, <1>21
<1>27. path.readOnlyRoot = (c.sync = "none") BY <1>4, <1>6, <1>8, <1>10, <1>12, <1>14, <1>16, <1>18, <1>20, <1>21
<1>28. path.mounts = (IF c.persist # "none" THEN {Persistence} ELSE {})
                     \cup (IF Restarts(c) THEN {RestartHelper(own)} ELSE {})
  <2>1. RestartHelper(env) = RestartHelper(own) BY <1>3, <1>5, <1>7, <1>9 DEF RestartHelper
  <2>2. QED BY <2>1, <1>4, <1>6, <1>8, <1>10, <1>12, <1>14, <1>16, <1>18, <1>20, <1>21
<1>29. path.probes = ~(c.devImage \/ c.terminal \/ c.attach \/ c.command \/ c.args \/ c.workingDir)
  <2>1. attach.probes = ~(c.devImage \/ c.terminal \/ c.attach) BY <1>4, <1>6, <1>8, <1>21
  <2>2. env.probes = attach.probes /\ path.probes = dir.probes BY <1>10, <1>16, <1>18, <1>20
  <2>3. dir.probes = ~(c.devImage \/ c.terminal \/ c.attach \/ c.command \/ c.args \/ c.workingDir)
    BY <1>12, <1>14, <2>1, <2>2
  <2>4. QED BY <2>2, <2>3
<1>30. QED BY <1>1, <1>22, <1>23, <1>24, <1>25, <1>26, <1>27, <1>28, <1>29 DEF Asked

\* The template of the application before it is modified.
LEMMA AppTemplateFacts ==
  ASSUME NEW d, Clear(d), NEW v \in Nat
  PROVE  LET t == [AppTemplate(d.app, v) EXCEPT !.patched = @ \/ d.patches]
         IN  TemplateOf(t, d.app) /\ t.containers = d.app
<1> DEFINE t == [AppTemplate(d.app, v) EXCEPT !.patched = @ \/ d.patches]
           n == Len(d.app)
<1>1. d.app \in [1 .. n -> Containers] /\ n \in Nat BY ClearFacts
<1> DEFINE a == AppTemplate(d.app, v)
<1>2. a \in Template(n) /\ a.containers = d.app /\ a.patched = FALSE BY <1>1 DEF AppTemplate, Template
<1> HIDE DEF a
<1>3. t \in Template(n) /\ t.containers = d.app
  <2>1. (a.patched \/ d.patches) = d.patches BY <1>2, ClearFacts
  <2>2. t = [a EXCEPT !.patched = d.patches] BY <2>1 DEF a
  <2> HIDE DEF t
  <2>3. QED BY <1>2, <2>2, ClearFacts DEF Template
<1> HIDE DEF t
<1>4. QED BY <1>1, <1>3 DEF TemplateOf, t

\* The template that is made of the application, if one is.
LEMMA BuildsAll ==
  ASSUME NEW d, Clear(d), NEW v \in Nat, BuildPod(AppTemplate(d.app, v), d).ok
  PROVE  LET pod == BuildPod(AppTemplate(d.app, v), d).pod
         IN  /\ Served(d, Len(d.containers)) /\ DOMAIN pod.containers = 1 .. Len(d.app)
             /\ \A i \in 1 .. Len(d.app) :
                   /\ pod.containers[i] \in Containers
                   /\ \A l \in 1 .. Len(d.containers) : About(d.containers[l], d.app, i) =>
                         pod.containers[i] = PathOf(AllOf(d.app[i], d.containers[l]), d.containers[l])
                   /\ (\A l \in 1 .. Len(d.containers) : ~About(d.containers[l], d.app, i)) =>
                         pod.containers[i] = d.app[i]
<1> DEFINE n == Len(d.containers)
           t == [AppTemplate(d.app, v) EXCEPT !.patched = @ \/ d.patches]
           modified == EachDevContainer("modify", t, d)
           persisted == Then(modified, LAMBDA u : PersistPaths(u, d))
           built == Then(persisted, LAMBDA u : Ok([u EXCEPT !.replaced = TRUE,
                                                            !.matched = MatchesImageSelector(AppTemplate(d.app, v), d)]))
<1>1. built = BuildPod(AppTemplate(d.app, v), d) BY DEF BuildPod
<1>2. TemplateOf(t, d.app) /\ t.containers = d.app BY AppTemplateFacts
<1>3. n \in Nat BY ClearFacts
<1> HIDE DEF t
<1>4. persisted.ok /\ built = Ok([persisted.pod EXCEPT !.replaced = TRUE,
                                  !.matched = MatchesImageSelector(AppTemplate(d.app, v), d)])
  <2> HIDE DEF persisted
  <2>1. QED BY <1>1 DEF Then
<1>5. modified.ok /\ persisted = PersistPaths(modified.pod, d)
  <2> HIDE DEF modified
  <2>1. QED BY <1>4 DEF Then
<1>6. Through(modified.pod, t, d, n, AllOf) /\ Served(d, n) BY <1>2, <1>5, ModifyRound
<1> HIDE DEF modified
<1> DEFINE u == modified.pod
<1>7. Through(persisted.pod, u, d, n, PathOf)
  <2>1. TemplateOf(u, d.app) BY <1>6 DEF Through
  <2> HIDE DEF u
  <2>2. CASE Persists(d)
    <3> DEFINE w == [u EXCEPT !.volumes = @ \cup {Persistence}]
    <3>1. persisted = EachDevContainer("persist", w, d) BY <1>5, <2>2 DEF PersistPaths, u
    <3>2. w \in Template(Len(d.app)) /\ w.containers = u.containers
      <4>1. Persistence \in Volumes BY DEF Persistence, Volume, Volumes, Strings, Unnamed
      <4>2. u \in Template(Len(d.app)) BY <2>1 DEF TemplateOf
      <4>3. QED BY <4>1, <4>2 DEF Template
    <3> HIDE DEF w, persisted
    <3>3. TemplateOf(w, d.app) BY <2>1, <3>2 DEF TemplateOf
    <3>4. Through(persisted.pod, w, d, n, PathOf) BY <1>4, <3>1, <3>3, PersistRound
    <3>5. QED BY <3>2, <3>4 DEF Through
  <2>3. CASE ~Persists(d)
    <3> HIDE DEF persisted
    <3>1. persisted.pod = u BY <1>5, <2>3 DEF PersistPaths, Ok, u
    <3>2. \A l \in 1 .. n : d.containers[l].persist = "none" BY <2>3, ClearFacts DEF Persists
    <3>3. QED BY <2>1, <3>1, <3>2 DEF Through, PathOf
  <2>4. QED BY <2>2, <2>3
<1> HIDE DEF persisted, u
<1> DEFINE pod == built.pod
<1>8. TemplateOf(persisted.pod, d.app) BY <1>7 DEF Through
<1>9. pod.containers = persisted.pod.containers
  <2> HIDE DEF built
  <2>1. pod = [persisted.pod EXCEPT !.replaced = TRUE, !.matched = MatchesImageSelector(AppTemplate(d.app, v), d)]
    BY <1>4 DEF Ok
  <2>2. persisted.pod \in Template(Len(d.app)) BY <1>8 DEF TemplateOf
  <2>3. QED BY <2>1, <2>2 DEF Template
<1> HIDE DEF built
<1>10. DOMAIN pod.containers = 1 .. Len(d.app) /\ \A i \in 1 .. Len(d.app) : pod.containers[i] \in Containers
  BY <1>8, <1>9, TemplateFacts
<1>11. ASSUME NEW i \in 1 .. Len(d.app), NEW l \in 1 .. n, About(d.containers[l], d.app, i)
       PROVE  pod.containers[i] = PathOf(AllOf(d.app[i], d.containers[l]), d.containers[l])
  <2>1. u.containers[i] = AllOf(d.app[i], d.containers[l]) BY <1>2, <1>6, <1>11 DEF Through, u
  <2>2. QED BY <1>7, <1>9, <1>11, <2>1 DEF Through
<1>12. ASSUME NEW i \in 1 .. Len(d.app), \A l \in 1 .. n : ~About(d.containers[l], d.app, i)
       PROVE  pod.containers[i] = d.app[i]
  <2>1. u.containers[i] = d.app[i] BY <1>2, <1>6, <1>12 DEF Through, u
  <2>2. QED BY <1>7, <1>9, <1>12, <2>1 DEF Through
<1>13. QED BY <1>1, <1>6, <1>10, <1>11, <1>12

\* What is made of the containers of the application.
MadeAsAsked(made, d) ==
    /\ DOMAIN made = DOMAIN d.app
    /\ \A k \in DOMAIN d.containers : Modifies(d.containers[k]) =>
          \E i \in DOMAIN d.app : About(d.containers[k], d.app, i)
    /\ \A i \in DOMAIN d.app :
          LET about == {k \in DOMAIN d.containers : About(d.containers[k], d.app, i)}
          IN  /\ \A k \in about : Asked(made[i], d.app[i], d.containers[k])
              /\ about = {} => made[i] = d.app[i]

LEMMA BuildsAsked ==
  ASSUME NEW d, Clear(d), NEW v \in Nat, BuildPod(AppTemplate(d.app, v), d).ok
  PROVE  LET made == BuildPod(AppTemplate(d.app, v), d).pod.containers
         IN  /\ MadeAsAsked(made, d)
             /\ ~NeedPodReplace(d) => \A i \in DOMAIN d.app : [made[i] EXCEPT !.readOnlyRoot = TRUE] = d.app[i]
<1> DEFINE made == BuildPod(AppTemplate(d.app, v), d).pod.containers
           n == Len(d.containers)
<1>1. DOMAIN d.app = 1 .. Len(d.app) /\ DOMAIN d.containers = 1 .. n BY ClearFacts
<1>2. \A i \in DOMAIN d.app : d.app[i] \in Containers /\ d.app[i] = AppContainer(d.app[i].name, d.app[i].image)
  BY <1>1, ClearFacts DEF Clear, AppContainers
<1>3. \A l \in DOMAIN d.containers : d.containers[l] \in DevContainer BY <1>1, ClearFacts
<1>4. /\ DOMAIN made = DOMAIN d.app
      /\ \A i \in DOMAIN d.app :
            /\ made[i] \in Containers
            /\ \A l \in DOMAIN d.containers : About(d.containers[l], d.app, i) =>
                  made[i] = PathOf(AllOf(d.app[i], d.containers[l]), d.containers[l])
            /\ (\A l \in DOMAIN d.containers : ~About(d.containers[l], d.app, i)) => made[i] = d.app[i]
  BY <1>1, BuildsAll
<1>5. \A l \in DOMAIN d.containers : /\ Restarts(d.containers[l]) => d.containers[l].command
                                     /\ Modifies(d.containers[l]) => Found(d, d.containers[l])
  <2>1. Served(d, n) BY BuildsAll
  <2>2. ASSUME NEW l \in DOMAIN d.containers
        PROVE  /\ Restarts(d.containers[l]) => d.containers[l].command
               /\ Modifies(d.containers[l]) => Found(d, d.containers[l])
    <3>1. l \in 1 .. n BY <1>1
    <3> HIDE DEF n
    <3>2. \A m \in 1 .. n : /\ Restarts(d.containers[m]) => d.containers[m].command
                            /\ Modifies(d.containers[m]) => Found(d, d.containers[m])
      BY <2>1 DEF Served
    <3>3. QED BY <3>1, <3>2
  <2>3. QED BY <2>2
<1> HIDE DEF made
<1>6. ASSUME NEW i \in DOMAIN d.app, NEW l \in DOMAIN d.containers, About(d.containers[l], d.app, i)
      PROVE  Asked(made[i], d.app[i], d.containers[l])
  <2>1. Restarts(d.containers[l]) => d.containers[l].command BY <1>5
  <2>2. made[i] = PathOf(AllOf(d.app[i], d.containers[l]), d.containers[l]) BY <1>4, <1>6
  <2>3. d.app[i] \in Containers /\ d.app[i] = AppContainer(d.app[i].name, d.app[i].image) BY <1>2
  <2>4. d.containers[l] \in DevContainer BY <1>3
  <2>5. Asked(PathOf(AllOf(d.app[i], d.containers[l]), d.containers[l]), d.app[i], d.containers[l])
    BY <2>1, <2>3, <2>4, AskedAll
  <2>6. QED BY <2>2, <2>5
<1>7. MadeAsAsked(made, d)
  <2>1. \A l \in DOMAIN d.containers : Modifies(d.containers[l]) =>
           \E i \in DOMAIN d.app : About(d.containers[l], d.app, i)
    BY <1>1, <1>5 DEF Found
  <2>2. ASSUME NEW i \in DOMAIN d.app, {k \in DOMAIN d.containers : About(d.containers[k], d.app, i)} = {}
        PROVE  made[i] = d.app[i]
    <3>1. \A l \in DOMAIN d.containers : ~About(d.containers[l], d.app, i) BY <2>2
    <3>2. QED BY <1>4, <3>1
  <2>3. QED BY <1>4, <1>6, <2>1, <2>2 DEF MadeAsAsked
<1>8. ASSUME ~NeedPodReplace(d), NEW i \in DOMAIN d.app
      PROVE  [made[i] EXCEPT !.readOnlyRoot = TRUE] = d.app[i]
  <2> DEFINE own == d.app[i]
  <2>1. own \in Containers /\ own = AppContainer(own.name, own.image) BY <1>2
  <2> HIDE DEF own
  <2>2. /\ own.command = "own" /\ own.args = "own" /\ own.interactive = FALSE /\ own.env = {}
        /\ own.workingDir = "own" /\ own.resources = "own" /\ own.mounts = {} /\ own.probes = TRUE
        /\ own.readOnlyRoot = TRUE
    BY <2>1 DEF AppContainer
  <2>3. d.app[i].readOnlyRoot = TRUE /\ d.app[i] \in Containers BY <2>1, <2>2 DEF own
  <2>4. CASE \A l \in DOMAIN d.containers : ~About(d.containers[l], d.app, i)
    BY <1>4, <2>3, <2>4 DEF Containers
  <2>5. CASE \E l \in DOMAIN d.containers : About(d.containers[l], d.app, i)
    <3>1. PICK l \in DOMAIN d.containers : About(d.containers[l], d.app, i) BY <2>5
    <3> DEFINE c == d.containers[l]
    <3>2. /\ ~(c.devImage \/ c.terminal \/ c.attach \/ c.env \/ c.command \/ c.args)
          /\ ~(c.workingDir \/ c.resources) /\ c.persist = "none"
      <4> HIDE DEF c
      <4>1. QED BY <1>8, <3>1 DEF NeedPodReplace, c
    <3>3. ~Restarts(c) BY <1>5, <3>2
    <3>4. Asked(made[i], d.app[i], c) BY <1>6, <3>1
    <3> HIDE DEF c
    <3> DEFINE k == made[i]
    <3>5. k \in Containers BY <1>4
    <3> HIDE DEF k
    <3>6. own \in Containers /\ Asked(k, own, c) BY <2>1, <3>4 DEF own, k
    <3>7. /\ k.name = own.name /\ k.image = own.image /\ k.command = own.command /\ k.args = own.args
          /\ k.env = own.env /\ k.workingDir = own.workingDir /\ k.resources = own.resources
          /\ k.mounts = own.mounts
      BY <3>2, <3>3, <2>2, <3>6 DEF Asked
    <3>8. c \in DevContainer BY <1>3 DEF c
    <3>9. k.interactive = own.interactive /\ k.probes = own.probes
      BY <3>2, <2>2, <3>6, <3>8 DEF Asked, DevContainer
    <3>10. [k EXCEPT !.readOnlyRoot = TRUE] = own BY <2>2, <3>5, <3>6, <3>7, <3>9 DEF Containers
    <3>11. QED BY <3>10 DEF k, own
  <2>6. QED BY <2>4, <2>5
<1>9. QED BY <1>7, <1>8 DEF made

USE PodReplaceAssumption

-----------------------------------------------------------------------------
(* The invariant.                                                          *)

Known(w) == w = Absent \/ IsWorkload(w)

\* A workload of a level, which replaces the one below.
Placed(l, w) == Known(w) /\ (w # Absent /\ l # 0 => w.of = l - 1)

\* What a command has in hand at a step, and what of it is there.
Hand(at, f, c) ==
    /\ DOMAIN f = {"entry", "deployment", "target"}
    /\ f.entry \in Entries /\ Known(f.deployment) /\ Known(f.target)
    /\ at \in Steps \ {"find"} => f.entry.deployment # 0
    /\ at \in {"getTarget", "scaleTarget", "patch"} => f.deployment # Absent /\ Placed(f.entry.deployment, f.deployment)
    /\ at \in {"scaleTarget", "patch", "saveTarget", "scaleDown", "create", "scaleUp"} => f.target # Absent
    /\ at = "scaleUp" => f.target.saved # 0
    /\ at \in Steps \ {"deleteReplaced", "getParent", "scaleUp", "forget"} => c.name = "pipeline"

Typed ==
    /\ TypeOK /\ conf \in Confs /\ budget \in Budgets
    /\ DOMAIN apps = Levels /\ DOMAIN frame = Procs /\ \A l \in Levels : Placed(l, apps[l])
    /\ command \in [Procs -> Commands \cup {NoCommand}]
    /\ \A p \in Procs : Hand(pc[p], frame[p], command[p])

\* As long as nothing is deployed the application has all its replicas or has them noted,
\* and so has what any command has read of it, however they interleave.
Calm == budget.deploys = Budget(conf).deploys
FullOrNoted(w) == \/ w.replicas = MaxReplicas /\ w.saved = 0
                  \/ w.replicas = 0 /\ w.saved = MaxReplicas
Scaling(p) == pc[p] \in {"scaleTarget", "saveTarget", "scaleDown", "scaleUp"}
CalmInv ==
    /\ budget.deploys <= Budget(conf).deploys
    /\ Calm => /\ apps[0] # Absent /\ FullOrNoted(apps[0]) /\ wanted = MaxReplicas
               /\ \A p \in Procs : Scaling(p) /\ frame[p].entry.deployment = 1 => FullOrNoted(frame[p].target)

\* As long as commands run one after the other the cache in the cluster knows of the dev
\* pod and the application tells its replicas,
NoDev == \A l \in Levels : l >= 1 => apps[l] = Absent
Flat  == \A l \in Levels : l > 1 => apps[l] = Absent
Down  == apps[0] # Absent /\ apps[0].replicas = 0
Alone == \A p, q \in Procs : pc[p] # "none" /\ pc[q] # "none" => p = q
Agrees ==
    /\ secret.deployment \in {-1, 0, 1} /\ (secret.deployment < 1 => NoDev) /\ (Down => secret.deployment = 1 \/ forgotten)
    /\ apps[0] # Absent => /\ wanted # 0
                           /\ apps[0].replicas = 0 => apps[0].saved = wanted
                           /\ apps[0].replicas # 0 => apps[0].replicas = wanted
\* and a command knows what is in the cluster.
CacheFollows(p) ==
    /\ raw[p] = secret \/ (raw[p] = NoEntry /\ secret = NoSecret)
    /\ mem[p].deployment \in {0, 1} /\ (mem[p].deployment = 0 => NoDev /\ (Down => p \in unread))
StepFollows(p) ==
    /\ pc[p] \in Steps \ {"find"} => frame[p].entry.deployment = 1
    /\ pc[p] \in {"find", "saveTarget", "scaleDown", "create", "getParent", "scaleUp", "forget"} => NoDev
    /\ pc[p] \in {"getTarget", "scaleTarget"} => frame[p].deployment = apps[1]
    /\ Scaling(p) => frame[p].target = apps[0]
    /\ pc[p] \in {"scaleDown", "create"} => secret.deployment = 1 /\ mem[p].deployment = 1
    /\ pc[p] = "forget" => ~Down
Follows(p) == CacheFollows(p) /\ StepFollows(p)
Sequential == ~overlapped => Alone /\ Flat /\ Agrees /\ \A p \in Procs : pc[p] # "none" => Follows(p)

IInv == Typed /\ CalmInv /\ Sequential

-----------------------------------------------------------------------------
(* Workloads and their patches.                                            *)

LEMMA Constants ==
  /\ 0 \in Levels /\ 1 \in Levels /\ MaxLevel \in Nat /\ MaxReplicas \in Nat /\ MaxReplicas > 0
  /\ NoEntry \in Entries /\ NoEntry.deployment = 0 /\ NoEntry.projects = {}
  /\ NoSecret.deployment = -1 /\ NoSecret # NoEntry
  /\ DOMAIN NoFrame = {"entry", "deployment", "target"}
  /\ NoFrame.entry = NoEntry /\ NoFrame.deployment = Absent /\ NoFrame.target = Absent
  BY DEF Levels, NoEntry, Entries, NoSecret, NoFrame

\* A workload is not a missing one.
LEMMA WorkloadThere == ASSUME NEW w, IsWorkload(w) PROVE w # Absent
<1>1. DOMAIN Absent = {"absent"}
  BY DEF Absent
<1> QED
  BY <1>1 DEF IsWorkload

\* The application as it is deployed.
LEMMA AppFacts ==
  ASSUME NEW n \in 0 .. MaxReplicas, NEW v, NEW s
  PROVE  IsWorkload(App(n, v, s)) /\ App(n, v, s).replicas = n /\ App(n, v, s).saved = 0
  BY Constants DEF App, IsWorkload

\* What a merge patch leaves (patch of a deployment).
LEMMA MergeFacts ==
  ASSUME NEW c, NEW r, NEW w, IsWorkload(c)
  PROVE  /\ DOMAIN Merge(c, r, w) = DOMAIN c
         /\ Merge(c, r, w).replicas = IF w.replicas = r.replicas THEN c.replicas ELSE w.replicas
         /\ Merge(c, r, w).saved = IF w.saved = r.saved THEN c.saved ELSE w.saved
         /\ Merge(c, r, w).of = IF w.of = r.of THEN c.of ELSE w.of
  BY DEF Merge, IsWorkload

LEMMA ScaledDownMerge ==
  ASSUME NEW c, NEW t, IsWorkload(c), IsWorkload(t)
  PROVE  LET m == Merge(c, t, ScaledDown(t))
         IN  /\ IsWorkload(m) /\ m.of = c.of
             /\ t.replicas = 0 => m.replicas = c.replicas /\ m.saved = c.saved
             /\ t.replicas # 0 => /\ m.replicas = 0
                                  /\ m.saved = IF t.saved = t.replicas THEN c.saved ELSE t.replicas
<1> DEFINE w == ScaledDown(t)
<1>1. CASE t.replicas = 0
  <2>1. w = t
    BY <1>1 DEF ScaledDown
  <2> QED
    BY <1>1, <2>1, MergeFacts DEF IsWorkload
<1>2. CASE t.replicas # 0
  <2>1. w.replicas = 0 /\ w.saved = t.replicas /\ w.of = t.of
    BY <1>2 DEF ScaledDown, IsWorkload
  <2> HIDE DEF w
  <2>2. /\ DOMAIN Merge(c, t, w) = DOMAIN c /\ Merge(c, t, w).replicas = 0 /\ Merge(c, t, w).of = c.of
        /\ Merge(c, t, w).saved = IF t.saved = t.replicas THEN c.saved ELSE t.replicas
    BY <1>2, <2>1, MergeFacts
  <2> QED
    BY <1>2, <2>2, Constants DEF IsWorkload, w
<1> QED
  BY <1>1, <1>2

Raised(t) == [t EXCEPT !.replicas = t.saved, !.saved = 0]

LEMMA RaisedMerge ==
  ASSUME NEW c, NEW t, IsWorkload(c), IsWorkload(t), t.saved # 0
  PROVE  LET m == Merge(c, t, Raised(t))
         IN  /\ IsWorkload(m) /\ m.of = c.of /\ m.saved = 0
             /\ m.replicas = IF t.saved = t.replicas THEN c.replicas ELSE t.saved
<1> DEFINE w == Raised(t)
<1>1. w.replicas = t.saved /\ w.saved = 0 /\ w.of = t.of
  BY DEF Raised, IsWorkload
<1> HIDE DEF w
<1>2. /\ DOMAIN Merge(c, t, w) = DOMAIN c /\ Merge(c, t, w).saved = 0 /\ Merge(c, t, w).of = c.of
      /\ Merge(c, t, w).replicas = IF t.saved = t.replicas THEN c.replicas ELSE t.saved
  BY <1>1, MergeFacts
<1> QED
  BY <1>2, Constants DEF IsWorkload, w

\* The patch of a deployment that replaces: where it belongs to stays.
LEMMA UpdatedMerge ==
  ASSUME NEW c, IsWorkload(c), NEW p, IsWorkload(frame[p].deployment), IsWorkload(frame[p].target)
  PROVE  LET m == Merge(c, frame[p].deployment, Updated(p)) IN IsWorkload(m) /\ m.of = c.of
<1> DEFINE w == Updated(p)
           d == frame[p].deployment
<1>1. w.replicas = 1 /\ w.saved = frame[p].target.saved /\ w.of = d.of
  BY DEF Updated, IsWorkload
<1> HIDE DEF w
<1>2. /\ DOMAIN Merge(c, d, w) = DOMAIN c /\ Merge(c, d, w).of = c.of
      /\ Merge(c, d, w).saved \in {c.saved, frame[p].target.saved} /\ Merge(c, d, w).replicas \in {c.replicas, 1}
  BY <1>1, MergeFacts
<1> QED
  BY <1>2, Constants DEF IsWorkload, w

-----------------------------------------------------------------------------
(* Steps of a process.                                                     *)

Rest   == {"none", "ready", "replaced"}
Places == Steps \cup Rest

LEMMA RestFacts == Rest \cap Steps = {} /\ \A p \in Procs : AtRest(p) <=> pc[p] \in Rest
  BY DEF Rest, Steps, AtRest

\* Going to a step concerns one process.
LEMMA AtFacts ==
  ASSUME Typed, NEW p \in Procs, NEW at \in Places, NEW f, At(p, at, f)
  PROVE  /\ pc' \in [Procs -> Places] /\ pc'[p] = at /\ DOMAIN frame' = Procs
         /\ frame'[p] = IF at \in Rest THEN NoFrame ELSE f
         /\ \A q \in Procs \ {p} : pc'[q] = pc[q] /\ frame'[q] = frame[q]
<1>1. pc \in [Procs -> Places] /\ DOMAIN frame = Procs
  BY DEF Typed, TypeOK, Places, Rest
<1> QED
  BY <1>1 DEF At, Rest

\* A command at rest has nothing in hand.
LEMMA RestHand == ASSUME NEW at \in Rest, NEW c PROVE Hand(at, NoFrame, c)
  BY Constants, RestFacts DEF Hand, Rest, Known

\* The types of a step of a process, from what it does to the cluster, to the cache and to
\* what is in hand.
LEMMA TypedStep ==
  ASSUME Typed, NEW p \in Procs, NEW at \in Places, NEW f, At(p, at, f),
         conf' = conf, budget' \in Budgets,
         DOMAIN apps' = Levels, \A l \in Levels : Placed(l, apps'[l]),
         claims' \in [Levels -> {"none", "owned", "orphaned"}],
         secret' \in Entries \cup {NoSecret},
         mem' \in [Procs -> Entries], raw' \in [Procs -> Entries \cup {NoSecret}],
         unread' \subseteq Procs, forgotten' \in BOOLEAN,
         wanted' \in 0 .. MaxReplicas, inUse' \subseteq Roots, overlapped' \in BOOLEAN,
         command' \in [Procs -> Commands \cup {NoCommand}],
         \A q \in Procs \ {p} : command'[q] = command[q],
         at \notin Rest => Hand(at, f, command'[p])
  PROVE  Typed'
<1>1. /\ pc' \in [Procs -> Places] /\ pc'[p] = at /\ DOMAIN frame' = Procs
      /\ frame'[p] = IF at \in Rest THEN NoFrame ELSE f
      /\ \A q \in Procs \ {p} : pc'[q] = pc[q] /\ frame'[q] = frame[q]
  BY AtFacts
<1>2. ASSUME NEW q \in Procs PROVE Hand(pc'[q], frame'[q], command'[q])
  <2>1. CASE q = p
    BY <1>1, <2>1, RestHand
  <2>2. CASE q # p
    BY <1>1, <2>2 DEF Typed
  <2> QED
    BY <2>1, <2>2
<1>3. \A q \in Procs : frame'[q].entry \in Entries
  BY <1>2 DEF Hand
<1>4. pc' \in [Procs -> Steps \cup {"none", "ready", "replaced"}]
  BY <1>1 DEF Places, Rest
<1>5. TypeOK'
  BY <1>3, <1>4 DEF TypeOK, Known, Placed
<1> QED
  BY <1>1, <1>2, <1>5 DEF Typed

\* What stays typed if it stays.
LEMMA Kept ==
  ASSUME Typed
  PROVE  /\ budget \in Budgets /\ DOMAIN apps = Levels /\ \A l \in Levels : Placed(l, apps[l]) /\ Known(apps[l])
         /\ claims \in [Levels -> {"none", "owned", "orphaned"}] /\ secret \in Entries \cup {NoSecret}
         /\ mem \in [Procs -> Entries] /\ raw \in [Procs -> Entries \cup {NoSecret}]
         /\ unread \subseteq Procs /\ forgotten \in BOOLEAN
         /\ wanted \in 0 .. MaxReplicas /\ inUse \subseteq Roots /\ overlapped \in BOOLEAN
         /\ command \in [Procs -> Commands \cup {NoCommand}]
         /\ \A p \in Procs : Hand(pc[p], frame[p], command[p])
         /\ pc \in [Procs -> Places]
  BY DEF Typed, TypeOK, Known, Placed, Places, Rest

\* A pipeline has a project at the top.
LEMMA PipelineRoot ==
  ASSUME Typed, NEW p \in Procs, command[p].name = "pipeline" PROVE command[p].root \in Roots
<1>1. ResetPods.name = "reset" /\ NoCommand.name = "none"
  BY DEF ResetPods, NoCommand
<1> QED
  BY <1>1, Kept DEF Commands

\* Spending does not bring a deployment back.
LEMMA SpendFacts ==
  ASSUME Typed, NEW what \in {"commands", "deploys", "faults"}, Spend(what)
  PROVE  /\ budget' \in Budgets /\ budget'.deploys \in Nat /\ budget.deploys \in Nat
         /\ budget'.deploys <= budget.deploys
         /\ what # "deploys" => budget'.deploys = budget.deploys
         /\ what = "deploys" => budget'.deploys < budget.deploys
<1>1. budget \in Budgets
  BY Kept
<1>2. CASE what = "commands"
  BY <1>1, <1>2 DEF Spend, Budgets
<1>3. CASE what = "deploys"
  BY <1>1, <1>3 DEF Spend, Budgets
<1>4. CASE what = "faults"
  BY <1>1, <1>4 DEF Spend, Budgets
<1> QED
  BY <1>2, <1>3, <1>4

LEMMA SaveTypes ==
  ASSUME Typed, NEW p \in Procs, NEW data \in Entries, Save(p, data) \/ SetInMemory(p, data)
  PROVE  /\ secret' \in Entries \cup {NoSecret} /\ mem' \in [Procs -> Entries]
         /\ raw' \in [Procs -> Entries \cup {NoSecret}]
         /\ unread' \subseteq Procs /\ forgotten' \in BOOLEAN
         /\ mem'[p] = data
<1>1. /\ Noted(p, data)
      /\ \/ UNCHANGED <<secret, raw, forgotten>>
         \/ /\ raw' = [raw EXCEPT ![p] = data] /\ secret' \in {NoSecret, data}
            /\ forgotten' = (p \in unread')
  BY DEF Save, SetInMemory
<1>2. mem' = [mem EXCEPT ![p] = data] /\ unread' \in {unread, unread \ {p}}
  BY <1>1 DEF Noted
<1>3. mem' \in [Procs -> Entries] /\ mem'[p] = data /\ unread' \subseteq Procs
  BY <1>2, Kept
<1>4. forgotten' \in BOOLEAN
  <2>1. forgotten' = forgotten \/ forgotten' = (p \in unread')
    BY <1>1
  <2>2. forgotten \in BOOLEAN
    BY Kept
  <2>3. CASE forgotten' = forgotten
    BY <2>2, <2>3
  <2>4. CASE forgotten' = (p \in unread')
    <3>1. (p \in unread') = TRUE \/ (p \in unread') = FALSE
      OBVIOUS
    <3> QED
      BY <2>4, <3>1
  <2> QED
    BY <2>1, <2>3, <2>4
<1>5. secret' \in Entries \cup {NoSecret}
  BY <1>1, Kept
<1>6. raw' \in [Procs -> Entries \cup {NoSecret}]
  BY <1>1, Kept
<1> QED
  BY <1>3, <1>4, <1>5, <1>6

LEMMA EntryTypes ==
  ASSUME NEW e \in Entries
  PROVE  /\ e.projects \subseteq Roots /\ e.deployment \in Levels /\ e.deployment \in Nat
         /\ \A P \in SUBSET Roots : /\ [e EXCEPT !.projects = P] \in Entries
                                    /\ [e EXCEPT !.projects = P].deployment = e.deployment
         /\ \A l \in Levels : [e EXCEPT !.deployment = l] \in Entries /\ [e EXCEPT !.deployment = l].deployment = l
  BY Constants DEF Entries, Levels

-----------------------------------------------------------------------------
(* Type correctness.                                                       *)

LEMMA SetAppTypes ==
  ASSUME Typed, NEW l \in Levels, NEW w, Placed(l, w), SetApp(l, w)
  PROVE  /\ DOMAIN apps' = Levels /\ apps'[l] = w /\ \A k \in Levels \ {l} : apps'[k] = apps[k]
         /\ \A k \in Levels : Placed(k, apps'[k])
  BY Kept DEF SetApp

LEMMA LoadTyped == ASSUME Typed, NEW p \in Procs, Load(p) PROVE Typed'
<1>1. At(p, "ready", frame[p]) /\ Spend("commands")
  BY DEF Load, Goto
<1>2. /\ conf' = conf /\ apps' = apps /\ claims' = claims /\ wanted' = wanted /\ secret' = secret /\ inUse' = inUse
      /\ overlapped' \in BOOLEAN
  BY Kept DEF Load, cluster
<1>3. command' \in [Procs -> Commands \cup {NoCommand}] /\ \A q \in Procs \ {p} : command'[q] = command[q]
  BY Kept DEF Load
<1>4. /\ mem' \in [Procs -> Entries] /\ raw' \in [Procs -> Entries \cup {NoSecret}]
      /\ unread' \subseteq Procs /\ forgotten' \in BOOLEAN
  BY Kept, Constants DEF Load
<1> QED
  BY <1>1, <1>2, <1>3, <1>4, SpendFacts, Kept, TypedStep DEF Places, Rest

LEMMA EndedTyped ==
  ASSUME Typed, NEW p \in Procs, Ended(p), budget' \in Budgets PROVE Typed'
<1>1. At(p, "none", frame[p])
  BY DEF Ended, Goto
<1>2. /\ conf' = conf /\ apps' = apps /\ claims' = claims /\ wanted' = wanted /\ secret' = secret /\ inUse' = inUse
      /\ overlapped' = overlapped
  BY DEF Ended, cluster
<1>3. command' \in [Procs -> Commands \cup {NoCommand}] /\ \A q \in Procs \ {p} : command'[q] = command[q]
  BY Kept DEF Ended
<1>4. /\ mem' \in [Procs -> Entries] /\ raw' \in [Procs -> Entries \cup {NoSecret}]
      /\ unread' \subseteq Procs /\ forgotten' \in BOOLEAN
  BY Kept, Constants DEF Ended
<1> QED
  BY <1>1, <1>2, <1>3, <1>4, Kept, TypedStep DEF Places, Rest

\* A step that only reads or gives up.
LEMMA ReadTyped ==
  ASSUME Typed, NEW p \in Procs, NEW at \in Places, NEW f, At(p, at, f), budget' \in Budgets,
         UNCHANGED <<conf, cluster, command, inUse, overlapped>>,
         secret' \in Entries \cup {NoSecret}, mem' \in [Procs -> Entries],
         raw' \in [Procs -> Entries \cup {NoSecret}], unread' \subseteq Procs, forgotten' \in BOOLEAN,
         at \notin Rest => Hand(at, f, command[p])
  PROVE  Typed'
<1>1. /\ apps' = apps /\ claims' = claims /\ wanted' = wanted /\ conf' = conf /\ command' = command
      /\ inUse' = inUse /\ overlapped' = overlapped
  BY DEF cluster
<1> QED
  BY <1>1, Kept, TypedStep

\* The frame ReplacePod starts with.
LEMMA ReplacePodTypes ==
  ASSUME Typed, NEW p \in Procs, command[p].name = "pipeline", ReplacePod(p)
  PROVE  \E at \in {"find", "getDeployment"} : \E f :
            /\ At(p, at, f) /\ Hand(at, f, command[p])
            /\ at = "getDeployment" <=> mem[p].deployment # 0
            /\ f.entry.deployment = mem[p].deployment
<1> DEFINE e == [mem[p] EXCEPT !.projects = @ \cup {command[p].root}]
           at == IF e.deployment = 0 THEN "find" ELSE "getDeployment"
           f == [NoFrame EXCEPT !.entry = e]
<1>1. e \in Entries /\ e.deployment = mem[p].deployment
  <2>1. mem[p] \in Entries /\ mem[p].projects \cup {command[p].root} \in SUBSET Roots
    BY Kept, PipelineRoot, EntryTypes
  <2>2. e = [mem[p] EXCEPT !.projects = mem[p].projects \cup {command[p].root}]
    OBVIOUS
  <2> QED
    BY <2>1, <2>2, EntryTypes
<1>2. At(p, at, f)
  BY DEF ReplacePod
<1> HIDE DEF e
<1>3. /\ DOMAIN f = {"entry", "deployment", "target"} /\ f.entry = e /\ f.deployment = Absent /\ f.target = Absent
  BY Constants
<1> HIDE DEF f
<1>4. Hand(at, f, command[p])
  BY <1>1, <1>3 DEF Hand, Known
<1> QED
  BY <1>1, <1>2, <1>3, <1>4

LEMMA ReplaceTyped == ASSUME Typed, NEW p \in Procs, Replace(p) PROVE Typed'
<1>1. command[p].name = "pipeline" /\ ReplacePod(p) /\ UNCHANGED <<conf, cluster, cache, command, ghosts>>
  BY DEF Replace, Reads
<1>2. PICK at \in {"find", "getDeployment"} : \E f : At(p, at, f) /\ Hand(at, f, command[p])
  BY <1>1, ReplacePodTypes
<1>3. at \in Places
  BY <1>2 DEF Places, Steps
<1>4. UNCHANGED <<conf, cluster, command, inUse, overlapped>> /\ budget' = budget /\ mem' = mem /\ raw' = raw /\ unread' = unread /\ forgotten' = forgotten /\ secret' = secret
  BY <1>1 DEF cache, ghosts
<1> QED
  BY <1>2, <1>3, <1>4, Kept, ReadTyped

LEMMA GetDeploymentTyped == ASSUME Typed, NEW p \in Procs, GetDeployment(p) PROVE Typed'
<1> DEFINE found == apps[frame[p].entry.deployment]
           at == IF found = Absent THEN "find" ELSE "getTarget"
           f == [frame[p] EXCEPT !.deployment = found]
<1>1. Hand("getDeployment", frame[p], command[p])
  BY Kept DEF GetDeployment
<1>2. Placed(frame[p].entry.deployment, found) /\ Known(found)
  BY <1>1, EntryTypes, Kept DEF Hand
<1>3. At(p, at, f)
  BY DEF GetDeployment
<1>4. UNCHANGED <<conf, cluster, command, inUse, overlapped>> /\ budget' = budget /\ mem' = mem /\ raw' = raw /\ unread' = unread /\ forgotten' = forgotten /\ secret' = secret
  BY DEF GetDeployment, Reads, cache, ghosts
<1> HIDE DEF found
<1>5. /\ DOMAIN f = {"entry", "deployment", "target"} /\ f.entry = frame[p].entry /\ f.target = frame[p].target
      /\ f.deployment = found
  BY <1>1 DEF Hand
<1> HIDE DEF f
<1>6. Hand(at, f, command[p])
  BY <1>1, <1>2, <1>5 DEF Hand, Steps
<1> QED
  BY <1>3, <1>4, <1>6, Kept, ReadTyped DEF Places, Steps

LEMMA GetTargetTyped == ASSUME Typed, NEW p \in Procs, GetTarget(p) PROVE Typed'
<1> DEFINE found == apps[frame[p].deployment.of]
           ok == BuildPod(found.pod, conf).ok
           at == IF found = Absent THEN "deleteOld" ELSE IF ok THEN "scaleTarget" ELSE "ready"
           f == [frame[p] EXCEPT !.target = found]
<1>1. Hand("getTarget", frame[p], command[p])
  BY Kept DEF GetTarget
<1>2. Known(found)
  <2>1. frame[p].deployment.of \in Levels
    BY <1>1, EntryTypes, Constants DEF Hand, Placed, Steps, Levels
  <2> QED
    BY <2>1, Kept
<1>3. At(p, at, f)
  BY DEF GetTarget
<1>4. UNCHANGED <<conf, cluster, command, inUse, overlapped>> /\ budget' = budget /\ mem' = mem /\ raw' = raw /\ unread' = unread /\ forgotten' = forgotten /\ secret' = secret
  BY DEF GetTarget, Reads, cache, ghosts
<1> HIDE DEF found, ok
<1>5. /\ DOMAIN f = {"entry", "deployment", "target"} /\ f.entry = frame[p].entry /\ f.target = found
      /\ f.deployment = frame[p].deployment
  BY <1>1 DEF Hand
<1> HIDE DEF f
<1>6. at \notin Rest => Hand(at, f, command[p])
  BY <1>1, <1>2, <1>5 DEF Hand, Steps, Rest
<1> QED
  BY <1>3, <1>4, <1>6, Kept, ReadTyped DEF Places, Steps, Rest

\* A step that changes the workloads: the command and the cache stay.
LEMMA ClusterTyped ==
  ASSUME Typed, NEW p \in Procs, NEW at \in Places, NEW f, At(p, at, f),
         UNCHANGED <<conf, secret, mem, raw, unread, forgotten, command, budget, overlapped>>,
         DOMAIN apps' = Levels, \A l \in Levels : Placed(l, apps'[l]),
         claims' \in [Levels -> {"none", "owned", "orphaned"}],
         wanted' \in 0 .. MaxReplicas, inUse' \subseteq Roots,
         at \notin Rest => Hand(at, f, command[p])
  PROVE  Typed'
  BY Kept, TypedStep

LEMMA DeletedTypes ==
  ASSUME Typed, NEW p \in Procs, frame[p].entry.deployment \in Levels, Deleted(p)
  PROVE  /\ DOMAIN apps' = Levels /\ \A l \in Levels : Placed(l, apps'[l])
         /\ claims' \in [Levels -> {"none", "owned", "orphaned"}]
<1>1. Placed(frame[p].entry.deployment, Absent)
  BY DEF Placed, Known
<1> QED
  BY <1>1, SetAppTypes, Kept DEF Deleted

\* The level a working command is about.
LEMMA WorkLevel ==
  ASSUME Typed, NEW p \in Procs, pc[p] \in Steps \ {"find"}
  PROVE  /\ Hand(pc[p], frame[p], command[p])
         /\ frame[p].entry.deployment \in Levels /\ frame[p].entry.deployment \in Nat /\ frame[p].entry.deployment # 0
         /\ frame[p].entry.deployment - 1 \in Levels
<1>1. Hand(pc[p], frame[p], command[p])
  BY Kept
<1> QED
  BY <1>1, EntryTypes, Constants DEF Hand, Levels

LEMMA DeleteOldTyped == ASSUME Typed, NEW p \in Procs, DeleteOld(p) PROVE Typed'
<1>1. Hand("deleteOld", frame[p], command[p]) /\ frame[p].entry.deployment \in Levels
  BY WorkLevel DEF DeleteOld, Steps
<1>2. Deleted(p) /\ At(p, "find", frame[p])
  BY DEF DeleteOld, Goto
<1>3. UNCHANGED <<conf, wanted, secret, mem, raw, unread, forgotten, command, budget, overlapped, inUse>>
  BY DEF DeleteOld, cache, ghosts
<1>4. Hand("find", frame[p], command[p])
  BY <1>1 DEF Hand, Steps
<1> QED
  BY <1>1, <1>2, <1>3, <1>4, DeletedTypes, Kept, ClusterTyped DEF Places, Steps

\* Scaling down the target leaves a workload of the same level.
LEMMA ScaleDownTypes ==
  ASSUME Typed, NEW p \in Procs, NEW l \in Levels, frame[p].target # Absent, ScaleDownTarget(p, l)
  PROVE  DOMAIN apps' = Levels /\ \A k \in Levels : Placed(k, apps'[k])
<1>1. CASE apps[l] = Absent
  BY <1>1, Kept DEF ScaleDownTarget
<1>2. CASE apps[l] # Absent
  <2> DEFINE m == Merge(apps[l], frame[p].target, ScaledDown(frame[p].target))
  <2>1. IsWorkload(apps[l]) /\ IsWorkload(frame[p].target)
    BY <1>2, Kept DEF Hand, Known
  <2>2. IsWorkload(m) /\ m.of = apps[l].of
    BY <2>1, ScaledDownMerge
  <2>3. SetApp(l, m)
    BY <1>2 DEF ScaleDownTarget
  <2> HIDE DEF m
  <2>4. Placed(l, m)
    BY <1>2, <2>2, Kept DEF Placed, Known
  <2> QED
    BY <2>3, <2>4, SetAppTypes
<1> QED
  BY <1>1, <1>2

LEMMA ScaleTargetTyped == ASSUME Typed, NEW p \in Procs, ScaleTarget(p) PROVE Typed'
<1>1. Hand("scaleTarget", frame[p], command[p]) /\ frame[p].entry.deployment - 1 \in Levels /\ frame[p].entry.deployment # 0
  BY WorkLevel DEF ScaleTarget, Steps
<1>2. frame[p].target # Absent /\ frame[p].deployment.of = frame[p].entry.deployment - 1
  BY <1>1 DEF Hand, Placed
<1>3. DOMAIN apps' = Levels /\ \A k \in Levels : Placed(k, apps'[k])
  BY <1>1, <1>2, ScaleDownTypes DEF ScaleTarget
<1>4. At(p, "patch", frame[p]) /\ UNCHANGED <<conf, claims, wanted, secret, mem, raw, unread, forgotten, command, budget, overlapped, inUse>>
  BY DEF ScaleTarget, Goto, cache, ghosts
<1>5. Hand("patch", frame[p], command[p])
  BY <1>1, <1>2 DEF Hand, Steps
<1> QED
  BY <1>3, <1>4, <1>5, Kept, ClusterTyped DEF Places, Steps

LEMMA PatchDeploymentTyped == ASSUME Typed, NEW p \in Procs, PatchDeployment(p) PROVE Typed'
<1> DEFINE l == frame[p].entry.deployment
           m == Merge(apps[l], frame[p].deployment, Updated(p))
<1>1. Hand("patch", frame[p], command[p]) /\ l \in Levels
  BY WorkLevel DEF PatchDeployment, Steps
<1>2. IsWorkload(frame[p].deployment) /\ IsWorkload(frame[p].target)
  BY <1>1 DEF Hand, Known
<1>3. UNCHANGED <<conf, secret, mem, raw, unread, forgotten, command, budget, overlapped, inUse>>
  BY DEF PatchDeployment, cache, ghosts
<1>4. \A at \in {"save", "claimPatched"} : Hand(at, frame[p], command[p])
  BY <1>1 DEF Hand, Steps
<1>5. CASE (Goto(p, "save") \/ Goto(p, "ready")) /\ UNCHANGED cluster
  <2>1. PICK at \in {"save", "ready"} : At(p, at, frame[p])
    BY <1>5 DEF Goto
  <2>2. at \in Places /\ (at \notin Rest => at = "save")
    BY <2>1 DEF Places, Steps, Rest
  <2> QED
    BY <1>3, <1>4, <1>5, <2>1, <2>2, Kept, ClusterTyped DEF cluster
<1>6. CASE apps[l] # Absent /\ SetApp(l, m) /\ Goto(p, "claimPatched") /\ UNCHANGED <<claims, wanted>>
  <2>1. IsWorkload(apps[l])
    BY <1>1, <1>6, Kept DEF Known
  <2>2. IsWorkload(m) /\ m.of = apps[l].of
    BY <1>2, <2>1, UpdatedMerge
  <2> HIDE DEF m
  <2>3. Placed(l, m)
    BY <1>1, <1>6, <2>2, Kept DEF Placed, Known
  <2>4. At(p, "claimPatched", frame[p])
    BY <1>6 DEF Goto
  <2>5. DOMAIN apps' = Levels /\ \A k \in Levels : Placed(k, apps'[k])
    BY <1>1, <1>6, <2>3, SetAppTypes
  <2> QED
    BY <1>3, <1>4, <1>6, <2>4, <2>5, Kept, ClusterTyped DEF Places, Steps
<1> QED
  BY <1>5, <1>6 DEF PatchDeployment

LEMMA ClaimTypes ==
  ASSUME Typed, NEW p \in Procs, UpdatePVC(p) PROVE claims' \in [Levels -> {"none", "owned", "orphaned"}]
  BY Kept DEF UpdatePVC

LEMMA ClaimPatchedTyped == ASSUME Typed, NEW p \in Procs, ClaimPatched(p) PROVE Typed'
<1>1. Hand("save", frame[p], command[p])
  BY WorkLevel DEF ClaimPatched, Steps, Hand
<1>2. At(p, "save", frame[p]) /\ UpdatePVC(p)
      /\ UNCHANGED <<conf, apps, wanted, secret, mem, raw, unread, forgotten, command, budget, overlapped, inUse>>
  BY DEF ClaimPatched, Goto, cache, ghosts
<1> QED
  BY <1>1, <1>2, ClaimTypes, Kept, ClusterTyped DEF Places, Steps

\* A command that has replaced the pod uses it.
LEMMA InUseTypes ==
  ASSUME Typed, NEW p \in Procs, command[p].name = "pipeline"
  PROVE  (inUse \cup {command[p].root}) \subseteq Roots
  BY Kept, PipelineRoot

LEMMA SaveReplacedTyped == ASSUME Typed, NEW p \in Procs, SaveReplaced(p) PROVE Typed'
<1>1. Hand("save", frame[p], command[p])
  BY WorkLevel DEF SaveReplaced, Steps
<1>2. At(p, "replaced", frame[p]) /\ Save(p, frame[p].entry) /\ inUse' = inUse \cup {command[p].root}
      /\ UNCHANGED <<conf, apps, claims, wanted, command, budget, overlapped>>
  BY DEF SaveReplaced, Replaced, Goto, cluster
<1>3. inUse' \subseteq Roots /\ frame[p].entry \in Entries
  BY <1>1, <1>2, InUseTypes DEF Hand, Steps
<1> QED
  BY <1>2, <1>3, SaveTypes, Kept, TypedStep DEF Places, Rest

LEMMA ClaimCreatedTyped == ASSUME Typed, NEW p \in Procs, ClaimCreated(p) PROVE Typed'
<1>1. Hand("claimCreated", frame[p], command[p])
  BY WorkLevel DEF ClaimCreated, Steps
<1>2. At(p, "replaced", frame[p]) /\ UpdatePVC(p) /\ inUse' = inUse \cup {command[p].root}
      /\ UNCHANGED <<conf, apps, wanted, secret, mem, raw, unread, forgotten, command, budget, overlapped>>
  BY DEF ClaimCreated, Replaced, Goto, cache
<1>3. inUse' \subseteq Roots
  BY <1>1, <1>2, InUseTypes DEF Hand, Steps
<1> QED
  BY <1>2, <1>3, ClaimTypes, Kept, ClusterTyped DEF Places, Rest

\* Giving up leaves the cluster and the cache.
LEMMA FailsTyped ==
  ASSUME Typed, NEW p \in Procs, Fails(p), budget' \in Budgets, UNCHANGED <<conf, command, inUse, overlapped>>
  PROVE  Typed'
<1>1. At(p, "ready", frame[p]) /\ UNCHANGED cluster /\ mem' = mem /\ raw' = raw /\ unread' = unread /\ forgotten' = forgotten /\ secret' = secret
  BY DEF Fails, Goto, cache
<1> QED
  BY <1>1, Kept, ReadTyped DEF Places, Rest

LEMMA FoundHand ==
  ASSUME Typed, NEW p \in Procs, pc[p] = "find", NEW l \in Levels, l < MaxLevel, apps[l] # Absent
  PROVE  LET f == [frame[p] EXCEPT !.entry.deployment = l + 1, !.target = apps[l]]
         IN  /\ Hand("saveTarget", f, command[p]) /\ f.target = apps[l] /\ f.entry.deployment = l + 1
<1> DEFINE e == [frame[p].entry EXCEPT !.deployment = l + 1]
           f == [frame[p] EXCEPT !.entry.deployment = l + 1, !.target = apps[l]]
<1>1. Hand("find", frame[p], command[p])
  BY Kept
<1>2. l + 1 \in Levels /\ l + 1 # 0
  BY Constants DEF Levels
<1>3. e \in Entries /\ e.deployment = l + 1
  BY <1>1, <1>2, EntryTypes DEF Hand
<1>4. DOMAIN f = {"entry", "deployment", "target"} /\ f.target = apps[l] /\ f.deployment = frame[p].deployment
  BY <1>1 DEF Hand
<1>5. f.entry = e
  BY <1>1 DEF Hand
<1> HIDE DEF f, e
<1>6. Hand("saveTarget", f, command[p])
  BY <1>1, <1>2, <1>3, <1>4, <1>5, Kept DEF Hand, Steps
<1> QED
  BY <1>3, <1>4, <1>5, <1>6 DEF f

LEMMA FindTyped == ASSUME Typed, NEW p \in Procs, Find(p) PROVE Typed'
<1>1. UNCHANGED <<conf, command, budget, inUse, overlapped>>
  BY DEF Find, ghosts
<1>2. CASE Fails(p)
  BY <1>1, <1>2, Kept, FailsTyped
<1>3. ASSUME NEW found \in Candidates, found < MaxLevel,
             At(p, "saveTarget", [frame[p] EXCEPT !.entry.deployment = found + 1, !.target = apps[found]]),
             UNCHANGED <<cluster, cache>>
      PROVE  Typed'
  <2>1. found \in Levels /\ apps[found] # Absent /\ pc[p] = "find"
    BY <1>3 DEF Candidates, Find
  <2> DEFINE f == [frame[p] EXCEPT !.entry.deployment = found + 1, !.target = apps[found]]
  <2>2. Hand("saveTarget", f, command[p])
    BY <1>3, <2>1, FoundHand
  <2>3. At(p, "saveTarget", f) /\ mem' = mem /\ raw' = raw /\ unread' = unread /\ forgotten' = forgotten /\ secret' = secret
    BY <1>3 DEF cache
  <2> HIDE DEF f
  <2> QED
    BY <1>1, <1>3, <2>2, <2>3, Kept, ReadTyped DEF Places, Steps
<1> QED
  BY <1>2, <1>3 DEF Find

LEMMA SaveTargetTyped == ASSUME Typed, NEW p \in Procs, SaveTarget(p) PROVE Typed'
<1>1. Hand("saveTarget", frame[p], command[p])
  BY WorkLevel DEF SaveTarget, Steps
<1>2. PICK at \in {"scaleDown", "ready"} : At(p, at, frame[p])
  BY DEF SaveTarget, Goto
<1>3. Save(p, frame[p].entry) /\ UNCHANGED <<conf, cluster, command, budget, inUse, overlapped>>
  BY DEF SaveTarget, ghosts
<1>4. at \in Places /\ (at \notin Rest => Hand(at, frame[p], command[p]))
  BY <1>1, <1>2 DEF Hand, Steps, Places, Rest
<1> QED
  BY <1>1, <1>2, <1>3, <1>4, SaveTypes, Kept, ReadTyped DEF Hand

LEMMA ScaleDownTyped == ASSUME Typed, NEW p \in Procs, ScaleDown(p) PROVE Typed'
<1>1. Hand("scaleDown", frame[p], command[p]) /\ frame[p].entry.deployment - 1 \in Levels /\ frame[p].target # Absent
  BY WorkLevel DEF ScaleDown, Steps, Hand
<1>2. DOMAIN apps' = Levels /\ \A k \in Levels : Placed(k, apps'[k])
  BY <1>1, ScaleDownTypes DEF ScaleDown
<1>3. PICK at \in {"ready", "create"} : At(p, at, frame[p])
  BY DEF ScaleDown, Goto
<1>4. UNCHANGED <<conf, claims, wanted, secret, mem, raw, unread, forgotten, command, budget, overlapped, inUse>>
  BY DEF ScaleDown, cache, ghosts
<1>5. at \in Places /\ (at \notin Rest => Hand(at, frame[p], command[p]))
  BY <1>1, <1>3 DEF Hand, Steps, Places, Rest
<1> QED
  BY <1>2, <1>3, <1>4, <1>5, Kept, ClusterTyped

\* The deployment of a level, with the pod and the selector of its target.
Dev(t, pod, l) == [replicas |-> 1, saved |-> t.saved, pod |-> pod, selector |-> t.selector, of |-> l - 1]

LEMMA DevFacts ==
  ASSUME NEW t, IsWorkload(t), NEW l \in Levels, NEW pod PROVE Placed(l, Dev(t, pod, l)) /\ Dev(t, pod, l).of = l - 1
<1>1. IsWorkload(Dev(t, pod, l)) /\ Dev(t, pod, l).of = l - 1
  BY Constants DEF Dev, IsWorkload, Levels
<1> QED
  BY <1>1 DEF Placed, Known

LEMMA CreateTyped == ASSUME Typed, NEW p \in Procs, Create(p) PROVE Typed'
<1> DEFINE l == frame[p].entry.deployment
<1>1. Hand("create", frame[p], command[p]) /\ l \in Levels /\ frame[p].target # Absent
  BY WorkLevel DEF Create, Steps, Hand
<1>2. UNCHANGED <<conf, claims, wanted, secret, mem, raw, unread, forgotten, command, budget, overlapped, inUse>>
  BY DEF Create, cache
<1>3. CASE apps[l] # Absent
  <2>1. ReplacePod(p) /\ apps' = apps /\ command[p].name = "pipeline"
    BY <1>1, <1>3 DEF Create, Hand, Steps
  <2>2. PICK at \in {"find", "getDeployment"} : \E f : At(p, at, f) /\ Hand(at, f, command[p])
    BY <2>1, ReplacePodTypes
  <2>3. at \in Places
    BY DEF Places, Steps
  <2> QED
    BY <1>2, <2>1, <2>2, <2>3, Kept, ClusterTyped
<1>4. CASE apps[l] = Absent
  <2> DEFINE pod == Built(p).pod
  <2>1. SetApp(l, Dev(frame[p].target, pod, l)) /\ At(p, "claimCreated", frame[p])
    BY <1>4 DEF Create, Dev, Goto
  <2> HIDE DEF pod
  <2>2. Placed(l, Dev(frame[p].target, pod, l))
    BY <1>1, DevFacts DEF Hand, Known
  <2>3. DOMAIN apps' = Levels /\ \A k \in Levels : Placed(k, apps'[k])
    BY <1>1, <2>1, <2>2, SetAppTypes
  <2>4. Hand("claimCreated", frame[p], command[p])
    BY <1>1 DEF Hand, Steps
  <2> QED
    BY <1>2, <2>1, <2>3, <2>4, Kept, ClusterTyped DEF Places, Steps
<1> QED
  BY <1>3, <1>4

LEMMA RevertTyped == ASSUME Typed, NEW p \in Procs, Revert(p) PROVE Typed'
<1>1. UNCHANGED <<conf, apps, claims, wanted, command, budget, overlapped>> /\ inUse' \subseteq Roots
  BY Kept DEF Revert, cluster
<1>2. CASE InUseByOthers(p)
  <2> DEFINE data == [mem[p] EXCEPT !.projects = @ \ {command[p].root}]
  <2>1. data \in Entries
    <3>1. mem[p] \in Entries /\ mem[p].projects \ {command[p].root} \in SUBSET Roots
      BY Kept, EntryTypes
    <3>2. data = [mem[p] EXCEPT !.projects = mem[p].projects \ {command[p].root}]
      OBVIOUS
    <3> QED
      BY <3>1, <3>2, EntryTypes
  <2>2. Save(p, data) /\ At(p, "ready", frame[p])
    BY <1>2 DEF Revert, Goto
  <2> HIDE DEF data
  <2> QED
    BY <1>1, <2>1, <2>2, SaveTypes, Kept, TypedStep DEF Places, Rest
<1>3. CASE ~InUseByOthers(p)
  <2> DEFINE f == [NoFrame EXCEPT !.entry = mem[p]]
  <2>1. At(p, "deleteReplaced", f) /\ secret' = secret /\ mem' = mem /\ raw' = raw /\ unread' = unread /\ forgotten' = forgotten /\ mem[p].deployment # 0
    BY <1>3 DEF Revert, cache
  <2>2. DOMAIN f = {"entry", "deployment", "target"} /\ f.entry = mem[p] /\ f.deployment = Absent /\ f.target = Absent
    BY Constants
  <2> HIDE DEF f
  <2>3. Hand("deleteReplaced", f, command[p])
    BY <2>1, <2>2, Kept DEF Hand, Known, Steps
  <2> QED
    BY <1>1, <2>1, <2>3, Kept, TypedStep DEF Places, Steps
<1> QED
  BY <1>2, <1>3

LEMMA DeleteReplacedTyped == ASSUME Typed, NEW p \in Procs, DeleteReplaced(p) PROVE Typed'
<1>1. Hand("getParent", frame[p], command[p]) /\ frame[p].entry.deployment \in Levels
  BY WorkLevel DEF DeleteReplaced, Steps, Hand
<1>2. Deleted(p) /\ At(p, "getParent", frame[p]) /\ inUse' = {}
      /\ UNCHANGED <<conf, wanted, secret, mem, raw, unread, forgotten, command, budget, overlapped>>
  BY DEF DeleteReplaced, Goto, cache
<1> QED
  BY <1>1, <1>2, DeletedTypes, Kept, ClusterTyped DEF Places, Steps

LEMMA GiveUpTyped ==
  ASSUME Typed, NEW p \in Procs, GiveUpParent(p), budget' \in Budgets, UNCHANGED <<inUse, overlapped>> PROVE Typed'
<1>1. At(p, "ready", frame[p]) /\ UNCHANGED <<conf, cluster, command, secret, raw, forgotten>>
  BY DEF GiveUpParent, Goto
<1>2. mem' \in [Procs -> Entries] /\ unread' \subseteq Procs
  BY Kept, Constants DEF GiveUpParent
<1> QED
  BY <1>1, <1>2, Kept, ReadTyped DEF Places, Rest

LEMMA GetParentTyped == ASSUME Typed, NEW p \in Procs, GetParent(p) PROVE Typed'
<1> DEFINE parent == apps[frame[p].entry.deployment - 1]
           at == IF parent.saved = 0 THEN "forget" ELSE "scaleUp"
           f == [frame[p] EXCEPT !.target = parent]
<1>1. Hand("getParent", frame[p], command[p]) /\ frame[p].entry.deployment - 1 \in Levels
  BY WorkLevel DEF GetParent, Steps
<1>2. UNCHANGED <<budget, inUse, overlapped>>
  BY DEF GetParent, ghosts
<1>3. CASE GiveUpParent(p)
  BY <1>2, <1>3, GiveUpTyped, Kept
<1>4. CASE parent # Absent /\ At(p, at, f) /\ UNCHANGED <<conf, cluster, cache, command>>
  <2>1. Known(parent)
    BY <1>1, Kept
  <2> HIDE DEF parent
  <2>2. /\ DOMAIN f = {"entry", "deployment", "target"} /\ f.entry = frame[p].entry /\ f.target = parent
        /\ f.deployment = frame[p].deployment
    BY <1>1 DEF Hand
  <2> HIDE DEF f
  <2>3. Hand(at, f, command[p])
    BY <1>1, <1>4, <2>1, <2>2 DEF Hand, Steps
  <2>4. UNCHANGED <<conf, cluster, command>> /\ mem' = mem /\ raw' = raw /\ unread' = unread /\ forgotten' = forgotten /\ secret' = secret
    BY <1>4 DEF cache
  <2> QED
    BY <1>2, <1>4, <2>3, <2>4, Kept, ReadTyped DEF Places, Steps
<1> QED
  BY <1>3, <1>4 DEF GetParent

LEMMA ScaleUpTyped == ASSUME Typed, NEW p \in Procs, ScaleUp(p) PROVE Typed'
<1> DEFINE l == frame[p].entry.deployment - 1
           t == frame[p].target
           m == Merge(apps[l], t, Raised(t))
<1>1. Hand("scaleUp", frame[p], command[p]) /\ l \in Levels
  BY WorkLevel DEF ScaleUp, Steps
<1>2. IsWorkload(t) /\ t.saved # 0 /\ t.saved \in 0 .. MaxReplicas
  BY <1>1 DEF Hand, Known, IsWorkload
<1>3. UNCHANGED <<conf, claims, secret, mem, raw, unread, forgotten, command, budget, overlapped, inUse>>
  BY DEF ScaleUp, cache, ghosts
<1>4. CASE apps[l] = Absent
  BY <1>3, <1>4, Kept, ClusterTyped DEF ScaleUp, Goto, Places, Rest
<1>5. CASE apps[l] # Absent
  <2>1. SetApp(l, m) /\ At(p, "forget", frame[p])
    BY <1>5 DEF ScaleUp, Goto, Raised
  <2>2. wanted' \in {Raised(t).replicas, wanted}
    BY <1>5 DEF ScaleUp, Raised
  <2>3. Raised(t).replicas = t.saved
    BY <1>2 DEF Raised, IsWorkload
  <2>4. wanted' \in 0 .. MaxReplicas
    BY <1>2, <2>2, <2>3, Kept
  <2>5. IsWorkload(m) /\ m.of = apps[l].of
    BY <1>1, <1>2, <1>5, Kept, RaisedMerge DEF Known
  <2> HIDE DEF m
  <2>6. Placed(l, m)
    BY <1>1, <1>5, <2>5, Kept DEF Placed, Known
  <2>7. DOMAIN apps' = Levels /\ \A k \in Levels : Placed(k, apps'[k])
    BY <1>1, <2>1, <2>6, SetAppTypes
  <2>8. Hand("forget", frame[p], command[p])
    BY <1>1 DEF Hand, Steps
  <2> QED
    BY <1>3, <2>1, <2>4, <2>7, <2>8, Kept, ClusterTyped DEF Places, Steps
<1> QED
  BY <1>4, <1>5

LEMMA ForgetTyped == ASSUME Typed, NEW p \in Procs, Forget(p) PROVE Typed'
<1>1. At(p, "ready", frame[p]) /\ Save(p, NoEntry) /\ UNCHANGED <<conf, cluster, command, budget, inUse, overlapped>>
  BY DEF Forget, Goto, ghosts
<1> QED
  BY <1>1, SaveTypes, Constants, Kept, ReadTyped DEF Places, Rest

LEMMA ApiErrorTyped == ASSUME Typed, NEW p \in Procs, ApiError(p) PROVE Typed'
<1>1. budget' \in Budgets /\ UNCHANGED <<inUse, overlapped>>
  BY SpendFacts DEF ApiError
<1>2. CASE pc[p] = "scaleTarget"
  <2>1. At(p, "patch", frame[p]) /\ UNCHANGED <<conf, cluster, command>> /\ mem' = mem /\ raw' = raw /\ unread' = unread /\ forgotten' = forgotten /\ secret' = secret
    BY <1>2 DEF ApiError, Goto, cache
  <2>2. Hand("patch", frame[p], command[p])
    BY <1>2, WorkLevel DEF Hand, Steps
  <2> QED
    BY <1>1, <2>1, <2>2, Kept, ReadTyped DEF Places, Steps
<1>3. CASE pc[p] = "getParent"
  BY <1>1, <1>3, GiveUpTyped DEF ApiError
<1>4. CASE pc[p] \in {"save", "saveTarget"}
  <2>1. At(p, "ready", frame[p]) /\ SetInMemory(p, frame[p].entry) /\ UNCHANGED <<conf, cluster, command>>
    BY <1>4 DEF ApiError, Goto
  <2>2. frame[p].entry \in Entries
    BY Kept DEF Hand
  <2> QED
    BY <1>1, <2>1, <2>2, SaveTypes, Kept, ReadTyped DEF Places, Rest
<1>5. CASE pc[p] = "forget"
  <2>1. At(p, "ready", frame[p]) /\ SetInMemory(p, NoEntry) /\ UNCHANGED <<conf, cluster, command>>
    BY <1>5 DEF ApiError, Goto
  <2> QED
    BY <1>1, <2>1, SaveTypes, Constants, Kept, ReadTyped DEF Places, Rest
<1>6. CASE pc[p] \notin {"scaleTarget", "getParent", "save", "saveTarget", "forget"}
  <2>1. Fails(p) /\ UNCHANGED <<conf, command>>
    BY <1>6 DEF ApiError
  <2> QED
    BY <1>1, <2>1, FailsTyped
<1> QED
  BY <1>2, <1>3, <1>4, <1>5, <1>6

\* A step of no command.
LEMMA NobodyTyped ==
  ASSUME Typed, UNCHANGED <<conf, cache, pc, command, frame, inUse, overlapped>>,
         budget' \in Budgets, wanted' \in 0 .. MaxReplicas, DOMAIN apps' = Levels, \A l \in Levels : Placed(l, apps'[l]),
         claims' \in [Levels -> {"none", "owned", "orphaned"}]
  PROVE  Typed'
<1>1. /\ conf' = conf /\ secret' = secret /\ mem' = mem /\ raw' = raw /\ unread' = unread /\ forgotten' = forgotten /\ pc' = pc /\ command' = command /\ frame' = frame
      /\ inUse' = inUse /\ overlapped' = overlapped
  BY DEF cache
<1>2. TypeOK'
  BY <1>1 DEF Typed, TypeOK, Placed, Known
<1> QED
  BY <1>1, <1>2 DEF Typed

LEMMA AppPlaced == ASSUME Typed, NEW w, IsWorkload(w) PROVE Placed(0, w)
  BY DEF Placed, Known

\* What a deployment makes of the application.
Redeployed(w, n, pod) == [w EXCEPT !.replicas = n, !.pod = pod]

LEMMA RedeployedFacts ==
  ASSUME NEW w, IsWorkload(w), NEW n \in 1 .. MaxReplicas, NEW pod
  PROVE  /\ IsWorkload(Redeployed(w, n, pod)) /\ Redeployed(w, n, pod).replicas = n
         /\ Redeployed(w, n, pod).saved = w.saved
  BY Constants DEF Redeployed, IsWorkload

\* What the steps of no command do to the application.
LEMMA DeployFacts ==
  ASSUME Typed, Deploy \/ Install \/ Uninstall
  PROVE  /\ Spend("deploys") /\ UNCHANGED <<conf, claims, cache, pc, command, frame, inUse, overlapped>>
         /\ DOMAIN apps' = Levels /\ (\A l \in Levels : Placed(l, apps'[l])) /\ \A l \in Levels \ {0} : apps'[l] = apps[l]
         /\ \A p \in Procs : AtRest(p)
         /\ \/ apps'[0] = Absent /\ wanted' = 0
            \/ apps'[0] # Absent /\ wanted' \in 1 .. MaxReplicas /\ apps'[0].replicas = wanted'
<1>1. CASE Deploy
  <2>1. PICK n \in 1 .. MaxReplicas, v \in 1 .. 2 : SetApp(0, Redeployed(apps[0], n, AppPod(v))) /\ wanted' = n
    BY <1>1 DEF Deploy, Redeployed
  <2>2. IsWorkload(apps[0])
    BY <1>1, Kept, Constants DEF Deploy, Known
  <2> DEFINE w == Redeployed(apps[0], n, AppPod(v))
  <2>3. Placed(0, w) /\ w.replicas = n /\ w # Absent
    BY <2>2, RedeployedFacts, AppPlaced, WorkloadThere
  <2> HIDE DEF w
  <2> QED
    BY <1>1, <2>1, <2>3, SetAppTypes, Constants DEF Deploy, w
<1>2. CASE Install
  <2>1. PICK n \in 1 .. MaxReplicas, v \in 1 .. 2 : SetApp(0, App(n, 2, v)) /\ wanted' = n
    BY <1>2 DEF Install
  <2> DEFINE w == App(n, 2, v)
  <2>2. n \in 0 .. MaxReplicas
    BY Constants
  <2>3. Placed(0, w) /\ w.replicas = n /\ w # Absent
    BY <2>2, AppFacts, AppPlaced, WorkloadThere
  <2> HIDE DEF w
  <2> QED
    BY <1>2, <2>1, <2>3, SetAppTypes, Constants DEF Install, w
<1>3. CASE Uninstall
  <2>1. Placed(0, Absent)
    BY DEF Placed, Known
  <2> QED
    BY <1>3, <2>1, SetAppTypes, Constants DEF Uninstall
<1> QED
  BY <1>1, <1>2, <1>3

LEMMA DeployTyped == ASSUME Typed, Deploy \/ Install \/ Uninstall PROVE Typed'
<1>1. wanted' \in 0 .. MaxReplicas
  BY DeployFacts, Constants
<1>2. claims' = claims
  BY DeployFacts
<1> QED
  BY <1>1, <1>2, DeployFacts, SpendFacts, Kept, NobodyTyped

LEMMA CollectTyped == ASSUME Typed, NEW l \in Levels, CollectClaim(l) PROVE Typed'
<1>1. /\ UNCHANGED <<conf, cache, pc, command, frame, inUse, overlapped>>
      /\ budget' = budget /\ wanted' = wanted /\ apps' = apps
  BY DEF CollectClaim, ghosts
<1>2. claims' \in [Levels -> {"none", "owned", "orphaned"}]
  BY Kept DEF CollectClaim
<1> QED
  BY <1>1, <1>2, Kept, NobodyTyped

LEMMA NothingTyped == ASSUME Typed, UNCHANGED vars PROVE Typed'
<1>1. /\ UNCHANGED <<conf, cache, pc, command, frame, inUse, overlapped>>
      /\ budget' = budget /\ wanted' = wanted /\ apps' = apps /\ claims' = claims
  BY DEF vars, cluster, ghosts
<1> QED
  BY <1>1, Kept, NobodyTyped

LEMMA SaveElseTyped == ASSUME Typed, NEW p \in Procs, SaveElse(p) PROVE Typed'
<1>1. /\ UNCHANGED <<conf, apps, claims, wanted, mem, unread, pc, command, frame, budget, inUse, overlapped>>
      /\ secret' \in Entries \cup {NoSecret} /\ raw' \in [Procs -> Entries \cup {NoSecret}]
      /\ forgotten' \in BOOLEAN
  BY Kept DEF SaveElse, cluster, ghosts
<1>2. TypeOK'
  BY <1>1 DEF Typed, TypeOK, Placed, Known
<1> QED
  BY <1>1, <1>2 DEF Typed

LEMMA StepTyped == ASSUME Typed, NEW p \in Procs, Step(p) PROVE Typed'
<1>1. CASE End(p)
  BY <1>1, Kept, EndedTyped DEF End
<1>2. CASE Crash(p)
  BY <1>2, SpendFacts, EndedTyped DEF Crash
<1> QED
  BY <1>1, <1>2, LoadTyped, ApiErrorTyped, ReplaceTyped, GetDeploymentTyped, GetTargetTyped, DeleteOldTyped,
     ScaleTargetTyped, PatchDeploymentTyped, ClaimPatchedTyped, SaveReplacedTyped, FindTyped, SaveTargetTyped,
     ScaleDownTyped, CreateTyped, ClaimCreatedTyped, RevertTyped, DeleteReplacedTyped, GetParentTyped, ScaleUpTyped,
     ForgetTyped, SaveElseTyped
     DEF Step

LEMMA InitTyped == Init => Typed
<1> SUFFICES ASSUME Init PROVE Typed
  OBVIOUS
<1>1. MaxReplicas \in 0 .. MaxReplicas /\ IsWorkload(App(MaxReplicas, 1, 1))
  BY Constants, AppFacts
<1>2. \A l \in Levels : apps[l] = (IF l = 0 THEN App(MaxReplicas, 1, 1) ELSE Absent)
  BY DEF Init
<1>3. \A l \in Levels : Placed(l, apps[l])
  BY <1>1, <1>2 DEF Placed, Known
<1>4. \A p \in Procs : pc[p] = "none" /\ frame[p] = NoFrame
  BY DEF Init
<1>5. \A p \in Procs : Hand(pc[p], frame[p], command[p])
  BY <1>4, RestHand DEF Rest
<1>6. budget \in Budgets
  BY DEF Init
<1>7. DOMAIN apps = Levels /\ DOMAIN frame = Procs /\ command \in [Procs -> Commands \cup {NoCommand}] /\ conf \in Confs
  BY DEF Init
<1>8. TypeOK
  <2>1. \A l \in Levels : apps[l] = Absent \/ IsWorkload(apps[l])
    BY <1>3 DEF Placed, Known
  <2>2. claims \in [Levels -> {"none", "owned", "orphaned"}] /\ secret \in Entries \cup {NoSecret}
    BY DEF Init
  <2>3. pc \in [Procs -> Steps \cup {"none", "ready", "replaced"}]
    BY DEF Init
  <2>4. mem \in [Procs -> Entries] /\ raw \in [Procs -> Entries \cup {NoSecret}]
    BY Constants DEF Init
  <2>5. \A p \in Procs : frame[p].entry \in Entries
    BY <1>5 DEF Hand
  <2>6. wanted \in 0 .. MaxReplicas /\ inUse \subseteq Roots /\ overlapped \in BOOLEAN
    BY <1>1 DEF Init
  <2>7. unread \subseteq Procs /\ forgotten \in BOOLEAN
    BY DEF Init
  <2> QED
    BY <2>1, <2>2, <2>3, <2>4, <2>5, <2>6, <2>7 DEF TypeOK
<1> QED
  BY <1>3, <1>5, <1>6, <1>7, <1>8 DEF Typed

LEMMA NextTyped == ASSUME Typed, [Next]_vars PROVE Typed'
<1>1. CASE \E p \in Procs : Step(p)
  BY <1>1, StepTyped
<1>2. CASE Deploy \/ Install \/ Uninstall
  BY <1>2, DeployTyped
<1>3. CASE \E l \in Levels : CollectClaim(l)
  BY <1>3, CollectTyped
<1>4. CASE Finished \/ UNCHANGED vars
  BY <1>4, NothingTyped DEF Finished
<1> QED
  BY <1>1, <1>2, <1>3, <1>4 DEF Next

\* Workloads, entries and steps are what their types say (the objects of the API server and
\* of the remote cache), for all processes, levels and replicas.
THEOREM PodReplaceTypeCorrect == Spec => []TypeOK
<1>1. Init => Typed
  BY InitTyped
<1>2. Typed /\ [Next]_vars => Typed'
  BY NextTyped
<1>3. Typed => TypeOK
  BY DEF Typed
<1> QED
  BY <1>1, <1>2, <1>3, PTL DEF Spec

-----------------------------------------------------------------------------
(* Applications to which nothing is deployed.                              *)

\* A step of a process leaves the others where they are, and deploys nothing.
LEMMA OneProcess ==
  ASSUME Typed, NEW p \in Procs, Step(p)
  PROVE  /\ \A q \in Procs \ {p} : pc'[q] = pc[q] /\ frame'[q] = frame[q]
         /\ conf' = conf /\ budget'.deploys = budget.deploys
<1> DEFINE Kept1 == \A q \in Procs \ {p} : pc'[q] = pc[q] /\ frame'[q] = frame[q]
<1>0. DOMAIN frame = Procs /\ pc \in [Procs -> Places]
  BY Kept DEF Typed
<1>1. ASSUME NEW at, NEW f, At(p, at, f) PROVE Kept1
  BY <1>0, <1>1 DEF At
<1>2. CASE Load(p)
  BY <1>1, <1>2, SpendFacts DEF Load, Goto
<1>3. CASE End(p)
  BY <1>1, <1>3 DEF End, Ended, Goto
<1>4. CASE Crash(p)
  BY <1>1, <1>4, SpendFacts DEF Crash, Ended, Goto
<1>14. CASE SaveElse(p)
  BY <1>14 DEF SaveElse, ghosts
<1>5. CASE ApiError(p)
  <2>1. budget'.deploys = budget.deploys
    BY <1>5, SpendFacts DEF ApiError
  <2>2. conf' = conf /\ \E at : At(p, at, frame[p])
    BY <1>5 DEF ApiError, Goto, GiveUpParent, Fails
  <2> QED
    BY <1>1, <2>1, <2>2
<1>6. CASE Replace(p) \/ GetDeployment(p) \/ GetTarget(p)
  BY <1>1, <1>6 DEF Replace, ReplacePod, GetDeployment, GetTarget, Reads, ghosts
<1>7. CASE DeleteOld(p) \/ ScaleTarget(p) \/ PatchDeployment(p) \/ ClaimPatched(p)
  BY <1>1, <1>7 DEF DeleteOld, ScaleTarget, PatchDeployment, ClaimPatched, Goto, ghosts
<1>8. CASE SaveReplaced(p) \/ ClaimCreated(p)
  BY <1>1, <1>8 DEF SaveReplaced, ClaimCreated, Replaced, Goto
<1>9. CASE Find(p)
  BY <1>1, <1>9 DEF Find, Fails, Goto, ghosts
<1>10. CASE SaveTarget(p) \/ ScaleDown(p)
  BY <1>1, <1>10 DEF SaveTarget, ScaleDown, Goto, ghosts
<1>11. CASE Create(p)
  BY <1>1, <1>11 DEF Create, ReplacePod, Goto
<1>12. CASE Revert(p) \/ DeleteReplaced(p)
  BY <1>1, <1>12 DEF Revert, DeleteReplaced, Goto
<1>13. CASE GetParent(p) \/ ScaleUp(p) \/ Forget(p)
  BY <1>1, <1>13 DEF GetParent, GiveUpParent, ScaleUp, Forget, Goto, ghosts
<1> QED
  BY <1>2, <1>3, <1>4, <1>5, <1>6, <1>7, <1>8, <1>9, <1>10, <1>11, <1>12, <1>13, <1>14 DEF Step

\* But for scaling, a step leaves the application alone: what else it changes is above it.
LEMMA AppKept ==
  ASSUME Typed, NEW p \in Procs, Step(p), ~ScaleTarget(p), ~ScaleDown(p), ~ScaleUp(p)
  PROVE  apps'[0] = apps[0] /\ wanted' = wanted
<1>0. 0 \in Levels /\ DOMAIN apps = Levels
  BY Constants, Kept
<1>1. CASE DeleteOld(p) \/ DeleteReplaced(p)
  <2>1. frame[p].entry.deployment # 0
    BY <1>1, WorkLevel DEF DeleteOld, DeleteReplaced, Steps
  <2> QED
    BY <1>0, <1>1, <2>1 DEF DeleteOld, DeleteReplaced, Deleted, SetApp
<1>2. CASE PatchDeployment(p)
  <2>1. frame[p].entry.deployment # 0
    BY <1>2, WorkLevel DEF PatchDeployment, Steps
  <2> QED
    BY <1>0, <1>2, <2>1 DEF PatchDeployment, SetApp, cluster
<1>3. CASE Create(p)
  <2>1. frame[p].entry.deployment # 0
    BY <1>3, WorkLevel DEF Create, Steps
  <2> QED
    BY <1>0, <1>3, <2>1 DEF Create, SetApp
<1>4. CASE Load(p) \/ End(p) \/ Crash(p) \/ SaveElse(p)
  BY <1>4 DEF Load, End, Crash, Ended, SaveElse, cluster
<1>5. CASE ApiError(p)
  BY <1>5 DEF ApiError, GiveUpParent, Fails, cluster
<1>6. CASE Replace(p) \/ GetDeployment(p) \/ GetTarget(p) \/ ClaimPatched(p) \/ SaveReplaced(p) \/ ClaimCreated(p)
  BY <1>6 DEF Replace, GetDeployment, GetTarget, Reads, ClaimPatched, SaveReplaced, ClaimCreated, cluster
<1>7. CASE Find(p) \/ SaveTarget(p)
  BY <1>7 DEF Find, Fails, SaveTarget, cluster
<1>8. CASE Revert(p) \/ GetParent(p) \/ Forget(p)
  BY <1>8 DEF Revert, GetParent, GiveUpParent, Forget, cluster
<1> QED
  BY <1>1, <1>2, <1>3, <1>4, <1>5, <1>6, <1>7, <1>8 DEF Step

\* What the frame is after a step that does not come to rest.
LEMMA Arrives ==
  ASSUME Typed, NEW p \in Procs, NEW at \in Places, NEW f, At(p, at, f)
  PROVE  pc'[p] = at /\ (at \in Steps => frame'[p] = f)
  BY AtFacts, RestFacts

\* Only these steps lead to one that scales.
LEMMA WhoScales ==
  ASSUME Typed, NEW p \in Procs, Step(p), ~SaveElse(p), Scaling(p)'
  PROVE  GetTarget(p) \/ Find(p) \/ SaveTarget(p) \/ GetParent(p)
<1>0. pc \in [Procs -> Places]
  BY Kept
<1>1. CASE Load(p) \/ End(p) \/ Crash(p)
  BY <1>0, <1>1 DEF Load, End, Crash, Ended, Goto, At, Scaling
<1>2. CASE ApiError(p)
  <2>1. \E at \in {"patch", "ready"} : At(p, at, frame[p])
    BY <1>2 DEF ApiError, GiveUpParent, Fails, Goto
  <2> QED
    BY <1>0, <2>1 DEF At, Scaling
<1>3. CASE Replace(p)
  BY <1>0, <1>3 DEF Replace, ReplacePod, At, Scaling
<1>4. CASE GetDeployment(p)
  BY <1>0, <1>4 DEF GetDeployment, At, Scaling
<1>5. CASE DeleteOld(p) \/ ScaleTarget(p)
  BY <1>0, <1>5 DEF DeleteOld, ScaleTarget, Goto, At, Scaling
<1>6. CASE PatchDeployment(p)
  BY <1>0, <1>6 DEF PatchDeployment, Goto, At, Scaling
<1>7. CASE ClaimPatched(p) \/ SaveReplaced(p) \/ ClaimCreated(p)
  BY <1>0, <1>7 DEF ClaimPatched, SaveReplaced, ClaimCreated, Replaced, Goto, At, Scaling
<1>8. CASE ScaleDown(p)
  BY <1>0, <1>8 DEF ScaleDown, Goto, At, Scaling
<1>9. CASE Create(p)
  BY <1>0, <1>9 DEF Create, ReplacePod, Goto, At, Scaling
<1>10. CASE Revert(p) \/ DeleteReplaced(p)
  BY <1>0, <1>10 DEF Revert, DeleteReplaced, Goto, At, Scaling
<1>11. CASE ScaleUp(p) \/ Forget(p)
  BY <1>0, <1>11 DEF ScaleUp, Forget, Goto, At, Scaling
<1> QED
  BY <1>1, <1>2, <1>3, <1>4, <1>5, <1>6, <1>7, <1>8, <1>9, <1>10, <1>11 DEF Step

\* What a command is about to scale at level 0 it has just read there, or had read before.
LEMMA ScalingFrom ==
  ASSUME Typed, NEW p \in Procs, Step(p), Scaling(p)', frame'[p].entry.deployment = 1
  PROVE  \/ frame'[p].target = apps[0]
         \/ (SaveTarget(p) \/ SaveElse(p)) /\ Scaling(p) /\ frame'[p] = frame[p]
<1>1. CASE GetTarget(p)
  <2> DEFINE found == apps[frame[p].deployment.of]
             f == [frame[p] EXCEPT !.target = found]
  <2>1. Hand("getTarget", frame[p], command[p])
    BY <1>1, Kept DEF GetTarget
  <2>2. \E at \in {"deleteOld", "scaleTarget", "ready"} : At(p, at, f)
    BY <1>1 DEF GetTarget
  <2>3. f.target = found /\ f.entry = frame[p].entry
    BY <2>1 DEF Hand
  <2> HIDE DEF f
  <2>4. frame'[p] = f
    BY <2>2, Arrives DEF Scaling, Places, Steps, Rest
  <2>5. frame[p].deployment.of = 0
    BY <2>1, <2>3, <2>4 DEF Hand, Placed, Steps
  <2> QED
    BY <2>3, <2>4, <2>5
<1>2. CASE Find(p)
  <2>1. ~Fails(p)
    BY <1>2, Arrives DEF Fails, Goto, Scaling, Places, Rest
  <2>2. PICK found \in Candidates :
           /\ found < MaxLevel
           /\ At(p, "saveTarget", [frame[p] EXCEPT !.entry.deployment = found + 1, !.target = apps[found]])
    BY <1>2, <2>1 DEF Find
  <2>3. found \in Levels /\ apps[found] # Absent /\ pc[p] = "find" /\ found \in Nat
    <3>1. found \in Levels /\ apps[found] # Absent
      BY DEF Candidates
    <3>2. found \in Nat
      BY <3>1, Constants DEF Levels
    <3> QED
      BY <1>2, <3>1, <3>2 DEF Find
  <2> DEFINE f == [frame[p] EXCEPT !.entry.deployment = found + 1, !.target = apps[found]]
  <2>4. f.target = apps[found] /\ f.entry.deployment = found + 1
    BY <2>2, <2>3, FoundHand
  <2>5. At(p, "saveTarget", f)
    BY <2>2
  <2> HIDE DEF f
  <2>6. frame'[p] = f
    BY <2>5, Arrives DEF Places, Steps
  <2> QED
    BY <2>3, <2>4, <2>6
<1>3. CASE SaveTarget(p)
  <2>1. \E at \in {"scaleDown", "ready"} : At(p, at, frame[p])
    BY <1>3 DEF SaveTarget, Goto
  <2>2. frame'[p] = frame[p]
    BY <2>1, Arrives DEF Scaling, Places, Steps, Rest
  <2> QED
    BY <1>3, <2>2 DEF SaveTarget, Scaling
<1>4. CASE GetParent(p)
  <2> DEFINE parent == apps[frame[p].entry.deployment - 1]
             f == [frame[p] EXCEPT !.target = parent]
  <2>1. Hand("getParent", frame[p], command[p])
    BY <1>4, Kept DEF GetParent
  <2>2. ~GiveUpParent(p)
    BY Arrives DEF GiveUpParent, Goto, Scaling, Places, Rest
  <2>3. \E at \in {"forget", "scaleUp"} : At(p, at, f)
    BY <1>4, <2>2 DEF GetParent
  <2>4. f.target = parent /\ f.entry = frame[p].entry
    BY <2>1 DEF Hand
  <2> HIDE DEF f
  <2>5. frame'[p] = f
    BY <2>3, Arrives DEF Places, Steps
  <2> QED
    BY <2>4, <2>5
<1>5. CASE SaveElse(p)
  BY <1>5 DEF SaveElse, Scaling
<1> QED
  BY <1>1, <1>2, <1>3, <1>4, <1>5, WhoScales

\* Scaling down leaves what is full or noted so,
LEMMA DownStaysNoted ==
  ASSUME NEW c, NEW t, IsWorkload(c), IsWorkload(t), FullOrNoted(c), FullOrNoted(t)
  PROVE  FullOrNoted(Merge(c, t, ScaledDown(t)))
<1> DEFINE m == Merge(c, t, ScaledDown(t))
<1>1. /\ t.replicas = 0 => m.replicas = c.replicas /\ m.saved = c.saved
      /\ t.replicas # 0 => /\ m.replicas = 0
                           /\ m.saved = IF t.saved = t.replicas THEN c.saved ELSE t.replicas
  BY ScaledDownMerge
<1> HIDE DEF m
<1>2. FullOrNoted(m)
  BY <1>1, Constants DEF FullOrNoted
<1> QED
  BY <1>2 DEF m

\* and scaling up makes it full.
LEMMA UpIsFull ==
  ASSUME NEW c, NEW t, IsWorkload(c), IsWorkload(t), FullOrNoted(c), FullOrNoted(t), t.saved # 0
  PROVE  FullOrNoted(Merge(c, t, Raised(t))) /\ t.replicas = 0
<1> DEFINE m == Merge(c, t, Raised(t))
<1>1. m.saved = 0 /\ m.replicas = IF t.saved = t.replicas THEN c.replicas ELSE t.saved
  BY RaisedMerge
<1> HIDE DEF m
<1>2. FullOrNoted(m) /\ t.replicas = 0
  BY <1>1, Constants DEF FullOrNoted
<1> QED
  BY <1>2 DEF m

\* Scaling down, whoever does it.
LEMMA CalmDown ==
  ASSUME Typed, CalmInv, Calm, NEW p \in Procs, ScaleTarget(p) \/ ScaleDown(p)
  PROVE  apps'[0] # Absent /\ FullOrNoted(apps'[0]) /\ wanted' = MaxReplicas
<1> DEFINE l == frame[p].entry.deployment - 1
           t == frame[p].target
           m == Merge(apps[l], t, ScaledDown(t))
<1>1. /\ Hand(pc[p], frame[p], command[p]) /\ l \in Levels /\ frame[p].target # Absent
      /\ frame[p].entry.deployment \in Nat /\ frame[p].entry.deployment # 0
  BY WorkLevel DEF ScaleTarget, ScaleDown, Steps, Hand
<1>2. ScaleDownTarget(p, l) /\ wanted' = wanted /\ Scaling(p)
  <2>1. CASE ScaleTarget(p)
    <3>1. pc[p] = "scaleTarget" /\ ScaleDownTarget(p, frame[p].deployment.of) /\ wanted' = wanted
      BY <2>1 DEF ScaleTarget
    <3>2. frame[p].deployment.of = l
      BY <1>1, <3>1 DEF Hand, Placed
    <3> QED
      BY <3>1, <3>2 DEF Scaling
  <2>2. CASE ScaleDown(p)
    BY <2>2 DEF ScaleDown, Scaling
  <2> QED
    BY <2>1, <2>2
<1>3. 0 \in Levels /\ DOMAIN apps = Levels
  BY Constants, Kept
<1>4. CASE apps[l] = Absent \/ l # 0
  BY <1>2, <1>3, <1>4 DEF ScaleDownTarget, SetApp, CalmInv
<1>5. CASE apps[l] # Absent /\ l = 0
  <2>1. apps'[0] = m
    BY <1>2, <1>3, <1>5 DEF ScaleDownTarget, SetApp
  <2>2. IsWorkload(apps[l]) /\ IsWorkload(t)
    BY <1>1, <1>5, Kept DEF Hand, Known
  <2>3. FullOrNoted(apps[l]) /\ FullOrNoted(t)
    BY <1>1, <1>2, <1>5 DEF CalmInv
  <2>4. FullOrNoted(m) /\ IsWorkload(m)
    BY <2>2, <2>3, DownStaysNoted, ScaledDownMerge
  <2> HIDE DEF m
  <2> QED
    BY <1>2, <2>1, <2>4, WorkloadThere DEF CalmInv
<1> QED
  BY <1>4, <1>5

\* Scaling up.
LEMMA CalmUp ==
  ASSUME Typed, CalmInv, Calm, NEW p \in Procs, ScaleUp(p)
  PROVE  apps'[0] # Absent /\ FullOrNoted(apps'[0]) /\ wanted' = MaxReplicas
<1> DEFINE l == frame[p].entry.deployment - 1
           t == frame[p].target
           m == Merge(apps[l], t, Raised(t))
<1>1. Hand("scaleUp", frame[p], command[p]) /\ l \in Levels /\ frame[p].entry.deployment \in Nat
  BY WorkLevel DEF ScaleUp, Steps
<1>2. Scaling(p) /\ t.saved # 0 /\ IsWorkload(t)
  BY <1>1 DEF ScaleUp, Scaling, Hand, Known
<1>3. 0 \in Levels /\ DOMAIN apps = Levels
  BY Constants, Kept
<1>4. CASE apps[l] = Absent
  BY <1>4 DEF ScaleUp, CalmInv
<1>5. CASE apps[l] # Absent /\ l # 0
  BY <1>3, <1>5 DEF ScaleUp, SetApp, CalmInv
<1>6. CASE apps[l] # Absent /\ l = 0
  <2>1. apps'[0] = m
    BY <1>3, <1>6 DEF ScaleUp, SetApp, Raised
  <2>2. IsWorkload(apps[l])
    BY <1>6, <1>1, Kept DEF Known
  <2>3. FullOrNoted(apps[l]) /\ FullOrNoted(t)
    BY <1>1, <1>2, <1>6 DEF CalmInv
  <2>4. FullOrNoted(m) /\ IsWorkload(m) /\ t.replicas = 0
    BY <1>2, <2>2, <2>3, UpIsFull, RaisedMerge
  <2>5. wanted' = wanted
    BY <1>6, <2>4 DEF ScaleUp
  <2> HIDE DEF m
  <2> QED
    BY <2>1, <2>4, <2>5, WorkloadThere DEF CalmInv
<1> QED
  BY <1>4, <1>5, <1>6

LEMMA CalmStep == ASSUME Typed, CalmInv, NEW p \in Procs, Step(p) PROVE CalmInv'
<1> SUFFICES ASSUME Calm' PROVE CalmInv'
  BY OneProcess DEF CalmInv
<1>4. (budget.deploys <= Budget(conf).deploys)'
  BY OneProcess DEF CalmInv
<1>1. Calm
  BY OneProcess DEF Calm
<1>2. apps'[0] # Absent /\ FullOrNoted(apps'[0]) /\ wanted' = MaxReplicas
  BY <1>1, CalmDown, CalmUp, AppKept DEF CalmInv
<1>3. ASSUME NEW q \in Procs, Scaling(q)', frame'[q].entry.deployment = 1 PROVE FullOrNoted(frame'[q].target)
  <2>1. CASE q # p
    <3>1. pc'[q] = pc[q] /\ frame'[q] = frame[q]
      BY <2>1, OneProcess
    <3> QED
      BY <1>1, <1>3, <3>1 DEF CalmInv, Scaling
  <2>2. CASE q = p
    BY <1>1, <1>3, <2>2, ScalingFrom DEF CalmInv
  <2> QED
    BY <2>1, <2>2
<1> QED
  BY <1>2, <1>3, <1>4 DEF CalmInv

\* A deployment ends the calm; nothing else that is not a command's matters.
LEMMA CalmDeploy == ASSUME Typed, CalmInv, Deploy \/ Install \/ Uninstall PROVE CalmInv'
<1>1. conf' = conf /\ budget'.deploys < budget.deploys /\ budget.deploys \in Nat /\ budget'.deploys \in Nat
  BY DeployFacts, SpendFacts
<1>2. Budget(conf).deploys \in Nat
  BY DEF Typed, Budgets
<1>3. budget'.deploys < Budget(conf').deploys
  BY <1>1, <1>2 DEF CalmInv
<1> QED
  BY <1>1, <1>2, <1>3 DEF CalmInv, Calm

-----------------------------------------------------------------------------
(* Commands that run one after the other.                                  *)

\* Nobody else is at work, so what there is to show is about the command that steps.
LEMMA SequentialStep ==
  ASSUME Typed, Sequential, ~overlapped, NEW p \in Procs, Step(p), pc[p] # "none",
         Flat', Agrees', pc'[p] # "none" => Follows(p)'
  PROVE  Sequential'
<1>1. ASSUME NEW q \in Procs, q # p PROVE pc'[q] = "none"
  BY <1>1, OneProcess DEF Sequential, Alone
<1>2. Alone'
  BY <1>1 DEF Alone
<1>3. ASSUME NEW q \in Procs, pc'[q] # "none" PROVE Follows(q)'
  BY <1>1, <1>3
<1> QED
  BY <1>2, <1>3 DEF Sequential

\* What is known at the start of a step.
LEMMA SequentialFacts ==
  ASSUME Typed, Sequential, ~overlapped, NEW p \in Procs, pc[p] # "none"
  PROVE  /\ Flat /\ Agrees /\ CacheFollows(p) /\ StepFollows(p)
         /\ 0 \in Levels /\ 1 \in Levels /\ DOMAIN apps = Levels
         /\ NoDev <=> apps[1] = Absent
<1>1. Flat /\ Agrees /\ CacheFollows(p) /\ StepFollows(p)
  BY DEF Sequential, Follows
<1>2. \A l \in Levels : l >= 1 <=> (l = 1 \/ l > 1)
  BY Constants DEF Levels
<1>3. NoDev <=> apps[1] = Absent
  BY <1>1, <1>2, Constants DEF NoDev, Flat
<1> QED
  BY <1>1, <1>3, Constants, Kept

\* At rest nothing is in hand that could be outdated.
LEMMA RestFollows == ASSUME NEW p \in Procs, pc'[p] \in Rest PROVE StepFollows(p)'
  BY RestFacts DEF StepFollows, Scaling, Rest, Steps

\* A step that only reads.
LEMMA ReadFollows ==
  ASSUME Typed, Sequential, ~overlapped, NEW p \in Procs, Step(p), pc[p] # "none",
         apps' = apps, wanted' = wanted, secret' = secret, mem' = mem, raw' = raw, unread' = unread, forgotten' = forgotten,
         pc'[p] # "none" => StepFollows(p)'
  PROVE  Sequential'
<1>1. Flat' /\ Agrees'
  BY SequentialFacts DEF Flat, Agrees, NoDev, Down
<1>2. CacheFollows(p)'
  BY SequentialFacts DEF CacheFollows, NoDev, Down
<1> QED
  BY <1>1, <1>2, SequentialStep DEF Follows

\* A step that saves or remembers an entry.
LEMMA SavedFollows ==
  ASSUME Typed, NEW p \in Procs, CacheFollows(p), NEW data \in Entries, Save(p, data)
  PROVE  /\ raw'[p] = secret' \/ (raw'[p] = NoEntry /\ secret' = NoSecret)
         /\ mem'[p] = data
         /\ secret' = data \/ (secret' = NoSecret /\ data = NoEntry)
<1>1. mem'[p] = data
  BY SaveTypes
<1>2. CASE data = raw[p]
  BY <1>1, <1>2 DEF Save, Noted, CacheFollows
<1>3. CASE data # raw[p]
  BY <1>1, <1>3, Kept DEF Save, Noted
<1> QED
  BY <1>2, <1>3

LEMMA SaveDevSequential ==
  ASSUME Typed, Sequential, ~overlapped, NEW p \in Procs, Step(p), pc[p] # "none",
         apps' = apps, wanted' = wanted, NEW data \in Entries, data.deployment = 1, Save(p, data),
         pc'[p] # "none" /\ secret'.deployment = 1 /\ mem'[p].deployment = 1 => StepFollows(p)'
  PROVE  Sequential'
<1>1. /\ raw'[p] = secret' \/ (raw'[p] = NoEntry /\ secret' = NoSecret)
      /\ mem'[p] = data /\ secret' = data
  BY SequentialFacts, SavedFollows, Constants
<1>2. Flat' /\ Agrees'
  BY <1>1, SequentialFacts DEF Flat, Agrees, NoDev, Down
<1>3. CacheFollows(p)'
  BY <1>1 DEF CacheFollows
<1> QED
  BY <1>1, <1>2, <1>3, SequentialStep DEF Follows

\* A command that forgets its dev pod in memory has deleted it, and put the application
\* back unless it could not be read.
LEMMA ForgetSequential ==
  ASSUME Typed, Sequential, ~overlapped, NEW p \in Procs, Step(p), pc[p] # "none",
         apps' = apps, wanted' = wanted, NoDev, pc'[p] \in Rest, mem'[p] = NoEntry,
         \/ UNCHANGED <<secret, raw, forgotten>> /\ (Down => p \in unread')
         \/ ~Down /\ Save(p, NoEntry)
  PROVE  Sequential'
<1>1. mem'[p] = NoEntry
  OBVIOUS
<1>2. CASE UNCHANGED <<secret, raw, forgotten>> /\ (Down => p \in unread')
  <2>2. Flat' /\ Agrees'
    BY <1>2, SequentialFacts DEF Flat, Agrees, NoDev, Down
  <2>3. CacheFollows(p)'
    BY <1>1, <1>2, SequentialFacts, Constants DEF CacheFollows, NoDev, Down
  <2> QED
    BY <2>2, <2>3, RestFollows, SequentialStep DEF Follows
<1>3. CASE ~Down /\ Save(p, NoEntry)
  <2>1. /\ raw'[p] = secret' \/ (raw'[p] = NoEntry /\ secret' = NoSecret)
        /\ secret' \in {NoEntry, NoSecret}
    BY <1>3, SequentialFacts, SavedFollows, Constants
  <2>2. Flat' /\ Agrees'
    BY <1>3, <2>1, SequentialFacts, Constants DEF Flat, Agrees, NoDev, Down
  <2>3. CacheFollows(p)'
    BY <1>1, <1>3, <2>1, Constants DEF CacheFollows, NoDev, Down
  <2> QED
    BY <2>2, <2>3, RestFollows, SequentialStep DEF Follows
<1> QED
  BY <1>2, <1>3

\* A command that remembers its dev pod, without saving that.
LEMMA RememberSequential ==
  ASSUME Typed, Sequential, ~overlapped, NEW p \in Procs, Step(p), pc[p] # "none",
         apps' = apps, wanted' = wanted, pc'[p] \in Rest,
         NEW data \in Entries, data.deployment = 1, SetInMemory(p, data)
  PROVE  Sequential'
<1>1. mem'[p] = data /\ secret' = secret /\ raw' = raw /\ forgotten' = forgotten
  BY SaveTypes DEF SetInMemory, Noted
<1>2. Flat' /\ Agrees'
  BY <1>1, SequentialFacts DEF Flat, Agrees, NoDev, Down
<1>3. CacheFollows(p)'
  BY <1>1, SequentialFacts DEF CacheFollows, NoDev
<1> QED
  BY <1>2, <1>3, RestFollows, SequentialStep DEF Follows

\* Replacing starts from the cache in memory.
LEMMA ReplacePodFollows ==
  ASSUME Typed, NEW p \in Procs, CacheFollows(p), apps' = apps, command[p].name = "pipeline", ReplacePod(p)
  PROVE  StepFollows(p)'
<1>1. PICK at \in {"find", "getDeployment"} : \E f :
         /\ At(p, at, f)
         /\ at = "getDeployment" <=> mem[p].deployment # 0
         /\ f.entry.deployment = mem[p].deployment
  BY ReplacePodTypes
<1>2. PICK f : /\ At(p, at, f)
               /\ at = "getDeployment" <=> mem[p].deployment # 0
               /\ f.entry.deployment = mem[p].deployment
  BY <1>1
<1>3. pc'[p] = at /\ frame'[p] = f
  BY <1>2, Arrives DEF Places, Steps
<1>4. CASE at = "find"
  BY <1>2, <1>3, <1>4 DEF StepFollows, CacheFollows, Scaling, NoDev, Steps
<1>5. CASE at = "getDeployment"
  BY <1>2, <1>3, <1>5 DEF StepFollows, CacheFollows, Scaling, Steps
<1> QED
  BY <1>4, <1>5

LEMMA SequentialReplace ==
  ASSUME Typed, Sequential, ~overlapped, NEW p \in Procs, Replace(p) PROVE Sequential'
<1>1. /\ command[p].name = "pipeline" /\ ReplacePod(p) /\ Step(p) /\ pc[p] # "none"
      /\ apps' = apps /\ wanted' = wanted /\ secret' = secret /\ mem' = mem /\ raw' = raw /\ unread' = unread /\ forgotten' = forgotten
  BY DEF Replace, Reads, Step, cluster, cache
<1> QED
  BY <1>1, SequentialFacts, ReplacePodFollows, ReadFollows

LEMMA SequentialGetDeployment ==
  ASSUME Typed, Sequential, ~overlapped, NEW p \in Procs, GetDeployment(p) PROVE Sequential'
<1> DEFINE found == apps[frame[p].entry.deployment]
           at == IF found = Absent THEN "find" ELSE "getTarget"
           f == [frame[p] EXCEPT !.deployment = found]
<1>1. /\ Step(p) /\ pc[p] = "getDeployment" /\ At(p, at, f)
      /\ apps' = apps /\ wanted' = wanted /\ secret' = secret /\ mem' = mem /\ raw' = raw /\ unread' = unread /\ forgotten' = forgotten
  BY DEF GetDeployment, Reads, Step, cluster, cache
<1>2. Hand("getDeployment", frame[p], command[p])
  BY <1>1, Kept
<1>3. frame[p].entry.deployment = 1 /\ (NoDev <=> apps[1] = Absent)
  BY <1>1, SequentialFacts DEF StepFollows, Steps
<1>4. f.entry = frame[p].entry /\ f.deployment = apps[1]
  BY <1>2, <1>3 DEF Hand
<1> HIDE DEF f
<1>5. pc'[p] = at /\ frame'[p] = f
  BY <1>1, Arrives DEF Places, Steps
<1>6. StepFollows(p)'
  BY <1>1, <1>3, <1>4, <1>5 DEF StepFollows, Scaling, NoDev, Steps
<1> QED
  BY <1>1, <1>6, ReadFollows

LEMMA SequentialGetTarget ==
  ASSUME Typed, Sequential, ~overlapped, NEW p \in Procs, GetTarget(p) PROVE Sequential'
<1> DEFINE found == apps[frame[p].deployment.of]
           ok == BuildPod(found.pod, conf).ok
           at == IF found = Absent THEN "deleteOld" ELSE IF ok THEN "scaleTarget" ELSE "ready"
           f == [frame[p] EXCEPT !.target = found]
<1>1. /\ Step(p) /\ pc[p] = "getTarget" /\ At(p, at, f)
      /\ apps' = apps /\ wanted' = wanted /\ secret' = secret /\ mem' = mem /\ raw' = raw /\ unread' = unread /\ forgotten' = forgotten
  BY DEF GetTarget, Reads, Step, cluster, cache
<1>2. Hand("getTarget", frame[p], command[p])
  BY <1>1, Kept
<1>3. frame[p].entry.deployment = 1 /\ frame[p].deployment = apps[1]
  BY <1>1, SequentialFacts DEF StepFollows, Steps
<1>4. frame[p].deployment.of = 0
  BY <1>2, <1>3 DEF Hand, Placed
<1>5. f.entry = frame[p].entry /\ f.target = apps[0] /\ f.deployment = frame[p].deployment
  BY <1>2, <1>4 DEF Hand
<1> HIDE DEF f, found, ok
<1>6. pc'[p] = at /\ (at \in Steps => frame'[p] = f)
  BY <1>1, Arrives DEF Places, Steps, Rest
<1>7. StepFollows(p)'
  BY <1>1, <1>3, <1>5, <1>6 DEF StepFollows, Scaling, Steps
<1> QED
  BY <1>1, <1>7, ReadFollows

\* A step that deletes the dev pod.
LEMMA DeletedFollows ==
  ASSUME Typed, Sequential, ~overlapped, NEW p \in Procs, Step(p), pc[p] # "none",
         frame[p].entry.deployment = 1, Deleted(p), wanted' = wanted, secret' = secret, mem' = mem, raw' = raw, unread' = unread, forgotten' = forgotten,
         NoDev' => StepFollows(p)'
  PROVE  Sequential'
<1>1. apps' = [apps EXCEPT ![1] = Absent]
  BY DEF Deleted, SetApp
<1>2. apps'[0] = apps[0] /\ apps'[1] = Absent /\ \A l \in Levels : l > 1 => apps'[l] = apps[l]
  BY <1>1, SequentialFacts
<1>3. \A l \in Levels : l >= 1 <=> (l = 1 \/ l > 1)
  BY Constants DEF Levels
<1>4. Flat' /\ NoDev'
  BY <1>2, <1>3, SequentialFacts DEF Flat, NoDev
<1>5. Agrees'
  BY <1>2, <1>4, SequentialFacts DEF Agrees, Down
<1>6. CacheFollows(p)'
  BY <1>2, <1>4, SequentialFacts DEF CacheFollows, Down
<1> QED
  BY <1>4, <1>5, <1>6, SequentialStep DEF Follows

LEMMA SequentialDeleteOld ==
  ASSUME Typed, Sequential, ~overlapped, NEW p \in Procs, DeleteOld(p) PROVE Sequential'
<1>1. /\ Step(p) /\ pc[p] = "deleteOld" /\ Deleted(p) /\ At(p, "find", frame[p])
      /\ wanted' = wanted /\ secret' = secret /\ mem' = mem /\ raw' = raw /\ unread' = unread /\ forgotten' = forgotten
  BY DEF DeleteOld, Step, cache, Goto
<1>2. frame[p].entry.deployment = 1
  BY <1>1, SequentialFacts DEF StepFollows, Steps
<1>3. pc'[p] = "find"
  BY <1>1, Arrives DEF Places, Steps
<1>4. NoDev' => StepFollows(p)'
  BY <1>3 DEF StepFollows, Scaling, Steps
<1> QED
  BY <1>1, <1>2, <1>4, DeletedFollows

LEMMA SequentialDeleteReplaced ==
  ASSUME Typed, Sequential, ~overlapped, NEW p \in Procs, DeleteReplaced(p) PROVE Sequential'
<1>1. /\ Step(p) /\ pc[p] = "deleteReplaced" /\ Deleted(p) /\ At(p, "getParent", frame[p])
      /\ wanted' = wanted /\ secret' = secret /\ mem' = mem /\ raw' = raw /\ unread' = unread /\ forgotten' = forgotten
  BY DEF DeleteReplaced, Step, cache, Goto
<1>2. frame[p].entry.deployment = 1
  BY <1>1, SequentialFacts DEF StepFollows, Steps
<1>3. pc'[p] = "getParent" /\ frame'[p] = frame[p]
  BY <1>1, Arrives DEF Places, Steps
<1>4. NoDev' => StepFollows(p)'
  BY <1>2, <1>3 DEF StepFollows, Scaling, Steps
<1> QED
  BY <1>1, <1>2, <1>4, DeletedFollows

\* A step that scales the application down, which the cache in the cluster knows of.
LEMMA ScaledDownFollows ==
  ASSUME Typed, Sequential, ~overlapped, NEW p \in Procs, Step(p), pc[p] # "none", secret.deployment = 1,
         mem[p].deployment = 1, frame[p].target = apps[0], apps[0] # Absent, ScaleDownTarget(p, 0),
         wanted' = wanted, secret' = secret, mem' = mem, raw' = raw, unread' = unread, forgotten' = forgotten,
         apps'[1] = apps[1] /\ (NoDev => NoDev') => StepFollows(p)'
  PROVE  Sequential'
<1> DEFINE m == Merge(apps[0], apps[0], ScaledDown(apps[0]))
<1>1. apps' = [apps EXCEPT ![0] = m]
  BY DEF ScaleDownTarget, SetApp
<1>2. apps'[0] = m /\ \A l \in Levels \ {0} : apps'[l] = apps[l]
  BY <1>1, SequentialFacts
<1>3. IsWorkload(apps[0])
  BY Kept, Constants DEF Known
<1>4. IsWorkload(m) /\ m # Absent /\ m.replicas = 0 /\ m.saved = wanted /\ wanted # 0
  <2>1. /\ IsWorkload(m)
        /\ apps[0].replicas = 0 => m.replicas = apps[0].replicas /\ m.saved = apps[0].saved
        /\ apps[0].replicas # 0 => /\ m.replicas = 0
                                   /\ m.saved = IF apps[0].saved = apps[0].replicas THEN apps[0].saved
                                                ELSE apps[0].replicas
    BY <1>3, ScaledDownMerge
  <2> HIDE DEF m
  <2> QED
    BY <2>1, SequentialFacts, WorkloadThere DEF Agrees
<1> HIDE DEF m
<1>5. Flat' /\ (NoDev => NoDev') /\ apps'[1] = apps[1]
  BY <1>2, SequentialFacts, Constants DEF Flat, NoDev, Levels
<1>6. Agrees'
  BY <1>2, <1>4, <1>5, SequentialFacts DEF Agrees, Down
<1>7. CacheFollows(p)'
  BY <1>5, SequentialFacts DEF CacheFollows
<1> QED
  BY <1>5, <1>6, <1>7, SequentialStep DEF Follows

LEMMA SequentialScaleTarget ==
  ASSUME Typed, Sequential, ~overlapped, NEW p \in Procs, ScaleTarget(p) PROVE Sequential'
<1>1. /\ Step(p) /\ pc[p] = "scaleTarget" /\ ScaleDownTarget(p, frame[p].deployment.of) /\ At(p, "patch", frame[p])
      /\ wanted' = wanted /\ secret' = secret /\ mem' = mem /\ raw' = raw /\ unread' = unread /\ forgotten' = forgotten
  BY DEF ScaleTarget, Step, cache, Goto
<1>2. Hand("scaleTarget", frame[p], command[p])
  BY <1>1, Kept
<1>3. frame[p].entry.deployment = 1 /\ frame[p].deployment = apps[1] /\ frame[p].target = apps[0]
  BY <1>1, SequentialFacts DEF StepFollows, Steps, Scaling
<1>4. frame[p].deployment.of = 0 /\ apps[0] # Absent /\ apps[1] # Absent
  BY <1>2, <1>3 DEF Hand, Placed
<1>5. secret.deployment = 1 /\ mem[p].deployment = 1
  BY <1>1, <1>4, SequentialFacts DEF Agrees, CacheFollows
<1>6. pc'[p] = "patch" /\ frame'[p] = frame[p]
  BY <1>1, Arrives DEF Places, Steps
<1>7. StepFollows(p)'
  BY <1>3, <1>6 DEF StepFollows, Scaling, Steps
<1> QED
  BY <1>1, <1>3, <1>4, <1>5, <1>7, ScaledDownFollows

LEMMA SequentialScaleDown ==
  ASSUME Typed, Sequential, ~overlapped, NEW p \in Procs, ScaleDown(p) PROVE Sequential'
<1>1. /\ Step(p) /\ pc[p] = "scaleDown" /\ ScaleDownTarget(p, frame[p].entry.deployment - 1)
      /\ wanted' = wanted /\ secret' = secret /\ mem' = mem /\ raw' = raw /\ unread' = unread /\ forgotten' = forgotten
  BY DEF ScaleDown, Step, cache
<1>2. PICK at \in {"ready", "create"} : At(p, at, frame[p])
  BY DEF ScaleDown, Goto
<1>3. Hand("scaleDown", frame[p], command[p])
  BY <1>1, Kept
<1>4. /\ frame[p].entry.deployment = 1 /\ frame[p].target = apps[0] /\ secret.deployment = 1 /\ mem[p].deployment = 1
      /\ NoDev
  BY <1>1, SequentialFacts DEF StepFollows, Steps, Scaling
<1>5. apps[0] # Absent /\ ScaleDownTarget(p, 0)
  BY <1>1, <1>3, <1>4 DEF Hand
<1>6. pc'[p] = at /\ (at = "create" => frame'[p] = frame[p])
  BY <1>2, Arrives DEF Places, Steps, Rest
<1>7. NoDev' => StepFollows(p)'
  BY <1>1, <1>4, <1>6 DEF StepFollows, Scaling, Steps
<1> QED
  BY <1>1, <1>4, <1>5, <1>7, ScaledDownFollows

\* A step that makes or changes the dev pod, which the cache in the cluster knows of.
LEMMA DevChangedFollows ==
  ASSUME Typed, Sequential, ~overlapped, NEW p \in Procs, Step(p), pc[p] # "none", secret.deployment = 1,
         mem[p].deployment = 1, NEW w, SetApp(1, w),
         wanted' = wanted, secret' = secret, mem' = mem, raw' = raw, unread' = unread, forgotten' = forgotten,
         StepFollows(p)'
  PROVE  Sequential'
<1>1. apps' = [apps EXCEPT ![1] = w]
  BY DEF SetApp
<1>2. apps'[0] = apps[0] /\ \A l \in Levels : l > 1 => apps'[l] = apps[l]
  BY <1>1, SequentialFacts
<1>3. Flat' /\ Agrees'
  BY <1>2, SequentialFacts DEF Flat, Agrees, Down
<1>4. CacheFollows(p)'
  BY SequentialFacts DEF CacheFollows
<1> QED
  BY <1>3, <1>4, SequentialStep DEF Follows

LEMMA SequentialPatch ==
  ASSUME Typed, Sequential, ~overlapped, NEW p \in Procs, PatchDeployment(p) PROVE Sequential'
<1> DEFINE m == Merge(apps[1], frame[p].deployment, Updated(p))
<1>1. /\ Step(p) /\ pc[p] = "patch" /\ wanted' = wanted /\ secret' = secret /\ mem' = mem /\ raw' = raw /\ unread' = unread /\ forgotten' = forgotten
  BY DEF PatchDeployment, Step, cache, cluster
<1>2. frame[p].entry.deployment = 1
  BY <1>1, SequentialFacts DEF StepFollows, Steps
<1>3. PICK at \in {"save", "ready", "claimPatched"} : At(p, at, frame[p])
  BY DEF PatchDeployment, Goto
<1>4. pc'[p] = at /\ (at # "ready" => frame'[p] = frame[p])
  BY <1>3, Arrives DEF Places, Steps, Rest
<1>5. StepFollows(p)'
  BY <1>2, <1>4 DEF StepFollows, Scaling, Steps
<1>6. CASE apps' = apps
  BY <1>1, <1>5, <1>6, ReadFollows
<1>7. CASE apps[1] # Absent /\ SetApp(1, m)
  <2>1. secret.deployment = 1 /\ mem[p].deployment = 1
    BY <1>1, <1>7, SequentialFacts DEF Agrees, CacheFollows
  <2> HIDE DEF m
  <2> QED
    BY <1>1, <1>5, <1>7, <2>1, DevChangedFollows
<1> QED
  BY <1>2, <1>6, <1>7 DEF PatchDeployment, cluster

LEMMA SequentialClaims ==
  ASSUME Typed, Sequential, ~overlapped, NEW p \in Procs, ClaimPatched(p) \/ ClaimCreated(p) PROVE Sequential'
<1>1. /\ Step(p) /\ pc[p] \in {"claimPatched", "claimCreated"}
      /\ apps' = apps /\ wanted' = wanted /\ secret' = secret /\ mem' = mem /\ raw' = raw /\ unread' = unread /\ forgotten' = forgotten
  BY DEF ClaimPatched, ClaimCreated, Step, cache
<1>2. frame[p].entry.deployment = 1
  BY <1>1, SequentialFacts DEF StepFollows, Steps
<1>3. PICK at \in {"save", "replaced"} : At(p, at, frame[p])
  BY DEF ClaimPatched, ClaimCreated, Replaced, Goto
<1>4. pc'[p] = at /\ (at # "replaced" => frame'[p] = frame[p])
  BY <1>3, Arrives DEF Places, Steps, Rest
<1>5. StepFollows(p)'
  BY <1>2, <1>4 DEF StepFollows, Scaling, Steps
<1> QED
  BY <1>1, <1>5, ReadFollows

LEMMA SequentialSaveReplaced ==
  ASSUME Typed, Sequential, ~overlapped, NEW p \in Procs, SaveReplaced(p) PROVE Sequential'
<1>1. /\ Step(p) /\ pc[p] = "save" /\ Save(p, frame[p].entry) /\ At(p, "replaced", frame[p])
      /\ apps' = apps /\ wanted' = wanted
  BY DEF SaveReplaced, Replaced, Step, cluster, Goto
<1>2. frame[p].entry.deployment = 1 /\ frame[p].entry \in Entries
  BY <1>1, SequentialFacts, Kept DEF StepFollows, Steps, Hand
<1>3. pc'[p] \in Rest
  BY <1>1, Arrives DEF Places, Rest
<1> QED
  BY <1>1, <1>2, <1>3, RestFollows, SaveDevSequential

LEMMA SequentialFind ==
  ASSUME Typed, Sequential, ~overlapped, NEW p \in Procs, Find(p) PROVE Sequential'
<1>1. Step(p) /\ pc[p] = "find" /\ apps' = apps /\ wanted' = wanted /\ secret' = secret /\ mem' = mem /\ raw' = raw /\ unread' = unread /\ forgotten' = forgotten
  BY DEF Find, Fails, Step, cluster, cache
<1>2. CASE Fails(p)
  <2>1. pc'[p] \in Rest
    BY <1>2, Arrives DEF Fails, Goto, Places, Rest
  <2> QED
    BY <1>1, <2>1, RestFollows, ReadFollows
<1>3. ASSUME NEW found \in Candidates, found < MaxLevel,
             At(p, "saveTarget", [frame[p] EXCEPT !.entry.deployment = found + 1, !.target = apps[found]])
      PROVE  StepFollows(p)'
  <2> DEFINE f == [frame[p] EXCEPT !.entry.deployment = found + 1, !.target = apps[found]]
  <2>1. found \in Levels /\ apps[found] # Absent
    BY DEF Candidates
  <2>2. found = 0 /\ NoDev
    BY <1>1, <2>1, SequentialFacts, Constants DEF StepFollows, NoDev, Levels
  <2>3. f.target = apps[found] /\ f.entry.deployment = found + 1
    BY <1>1, <1>3, <2>1, FoundHand
  <2>4. At(p, "saveTarget", f)
    BY <1>3
  <2> HIDE DEF f
  <2>5. pc'[p] = "saveTarget" /\ frame'[p] = f
    BY <2>4, Arrives DEF Places, Steps
  <2>6. NoDev'
    BY <1>1, <2>2 DEF NoDev
  <2> QED
    BY <1>1, <2>2, <2>3, <2>5, <2>6 DEF StepFollows, Scaling, Steps
<1> QED
  BY <1>1, <1>2, <1>3, ReadFollows DEF Find

LEMMA SequentialSaveTarget ==
  ASSUME Typed, Sequential, ~overlapped, NEW p \in Procs, SaveTarget(p) PROVE Sequential'
<1>1. Step(p) /\ pc[p] = "saveTarget" /\ Save(p, frame[p].entry) /\ apps' = apps /\ wanted' = wanted
  BY DEF SaveTarget, Step, cluster
<1>2. PICK at \in {"scaleDown", "ready"} : At(p, at, frame[p])
  BY DEF SaveTarget, Goto
<1>3. /\ frame[p].entry.deployment = 1 /\ frame[p].entry \in Entries /\ frame[p].target = apps[0] /\ NoDev
  BY <1>1, SequentialFacts, Kept DEF StepFollows, Steps, Scaling, Hand
<1>4. pc'[p] = at /\ (at = "scaleDown" => frame'[p] = frame[p])
  BY <1>2, Arrives DEF Places, Steps, Rest
<1>5. secret'.deployment = 1 /\ mem'[p].deployment = 1 => StepFollows(p)'
  BY <1>1, <1>3, <1>4 DEF StepFollows, Scaling, NoDev, Steps
<1> QED
  BY <1>1, <1>3, <1>5, SaveDevSequential

LEMMA SequentialCreate ==
  ASSUME Typed, Sequential, ~overlapped, NEW p \in Procs, Create(p) PROVE Sequential'
<1> DEFINE pod == Built(p).pod
<1>1. Step(p) /\ pc[p] = "create" /\ wanted' = wanted /\ secret' = secret /\ mem' = mem /\ raw' = raw /\ unread' = unread /\ forgotten' = forgotten
  BY DEF Create, Step, cache
<1>2. /\ frame[p].entry.deployment = 1 /\ secret.deployment = 1 /\ mem[p].deployment = 1 /\ apps[1] = Absent
  BY <1>1, SequentialFacts DEF StepFollows, Steps, Scaling
<1>3. SetApp(1, Dev(frame[p].target, pod, 1)) /\ At(p, "claimCreated", frame[p])
  BY <1>2 DEF Create, Goto, Dev
<1>4. pc'[p] = "claimCreated" /\ frame'[p] = frame[p]
  BY <1>3, Arrives DEF Places, Steps
<1>5. StepFollows(p)'
  BY <1>2, <1>4 DEF StepFollows, Scaling, Steps
<1> HIDE DEF pod
<1> QED
  BY <1>1, <1>2, <1>3, <1>5, DevChangedFollows

LEMMA SequentialRevert ==
  ASSUME Typed, Sequential, ~overlapped, NEW p \in Procs, Revert(p) PROVE Sequential'
<1>1. Step(p) /\ pc[p] # "none" /\ apps' = apps /\ wanted' = wanted
  BY DEF Revert, Step, cluster
<1>2. mem[p].deployment = 1 /\ mem[p] \in Entries
  BY <1>1, SequentialFacts, Kept DEF Revert, CacheFollows
<1>3. CASE InUseByOthers(p)
  <2> DEFINE data == [mem[p] EXCEPT !.projects = mem[p].projects \ {command[p].root}]
  <2>1. data \in Entries /\ data.deployment = 1
    <3>1. mem[p].projects \ {command[p].root} \in SUBSET Roots
      BY <1>2, EntryTypes
    <3> QED
      BY <1>2, <3>1, EntryTypes
  <2>2. Save(p, data) /\ At(p, "ready", frame[p])
    BY <1>3 DEF Revert, Goto
  <2>3. pc'[p] \in Rest
    BY <2>2, Arrives DEF Places, Rest
  <2> HIDE DEF data
  <2> QED
    BY <1>1, <2>1, <2>2, <2>3, RestFollows, SaveDevSequential
<1>4. CASE ~InUseByOthers(p)
  <2> DEFINE f == [NoFrame EXCEPT !.entry = mem[p]]
  <2>1. At(p, "deleteReplaced", f) /\ secret' = secret /\ mem' = mem /\ raw' = raw /\ unread' = unread /\ forgotten' = forgotten
    BY <1>4 DEF Revert, cache
  <2>2. f.entry = mem[p]
    BY Constants
  <2> HIDE DEF f
  <2>3. pc'[p] = "deleteReplaced" /\ frame'[p] = f
    BY <2>1, Arrives DEF Places, Steps
  <2>4. StepFollows(p)'
    BY <1>2, <2>2, <2>3 DEF StepFollows, Scaling, Steps
  <2> QED
    BY <1>1, <2>1, <2>4, ReadFollows
<1> QED
  BY <1>3, <1>4

\* The application that is given up is there, or not scaled down.
LEMMA GiveUpSequential ==
  ASSUME Typed, Sequential, ~overlapped, NEW p \in Procs, Step(p), pc[p] = "getParent", wanted' = wanted, GiveUpParent(p)
  PROVE  Sequential'
<1>1. frame[p].entry.deployment = 1 /\ NoDev
  BY SequentialFacts DEF StepFollows, Steps
<1>2. /\ At(p, "ready", frame[p]) /\ apps' = apps /\ UNCHANGED <<secret, raw, forgotten>>
      /\ mem' = [mem EXCEPT ![p] = NoEntry]
      /\ unread' = IF apps[frame[p].entry.deployment - 1] = Absent THEN unread ELSE unread \cup {p}
  BY DEF GiveUpParent, Goto, cluster
<1>3. pc'[p] \in Rest /\ mem'[p] = NoEntry
  BY <1>2, Kept, Arrives DEF Places, Rest
<1>4. Down => p \in unread'
  BY <1>1, <1>2 DEF Down
<1> QED
  BY <1>1, <1>2, <1>3, <1>4, ForgetSequential

\* A parent that keeps no replicas has not been scaled down.
LEMMA SequentialGetParent ==
  ASSUME Typed, Sequential, ~overlapped, NEW p \in Procs, GetParent(p) PROVE Sequential'
<1> DEFINE parent == apps[frame[p].entry.deployment - 1]
           at == IF parent.saved = 0 THEN "forget" ELSE "scaleUp"
           f == [frame[p] EXCEPT !.target = parent]
<1>1. Step(p) /\ pc[p] = "getParent" /\ apps' = apps /\ wanted' = wanted
  BY DEF GetParent, GiveUpParent, Step, cluster
<1>2. Hand("getParent", frame[p], command[p])
  BY <1>1, Kept
<1>3. frame[p].entry.deployment = 1 /\ NoDev
  BY <1>1, SequentialFacts DEF StepFollows, Steps
<1>4. CASE GiveUpParent(p)
  <2> QED
    BY <1>1, <1>3, <1>4, GiveUpSequential
<1>5. CASE parent # Absent /\ At(p, at, f) /\ UNCHANGED <<conf, cluster, cache, command>>
  <2>1. secret' = secret /\ mem' = mem /\ raw' = raw /\ unread' = unread /\ forgotten' = forgotten
    BY <1>5 DEF cache
  <2>2. parent = apps[0]
    BY <1>3
  <2>3. at = "forget" => ~Down
    BY <1>5, <2>2, SequentialFacts, <1>1 DEF Down, Agrees
  <2>4. f.entry = frame[p].entry /\ f.target = apps[0]
    BY <1>2, <2>2 DEF Hand
  <2> HIDE DEF f
  <2>5. pc'[p] = at /\ frame'[p] = f
    BY <1>5, Arrives DEF Places, Steps
  <2> HIDE DEF parent
  <2>6. NoDev' /\ (Down' <=> Down)
    BY <1>1, <1>3 DEF NoDev, Down
  <2>7. StepFollows(p)'
    BY <1>1, <1>3, <2>3, <2>4, <2>5, <2>6 DEF StepFollows, Scaling, Steps
  <2> QED
    BY <1>1, <2>1, <2>7, ReadFollows
<1> QED
  BY <1>4, <1>5 DEF GetParent

LEMMA SequentialScaleUp ==
  ASSUME Typed, Sequential, ~overlapped, NEW p \in Procs, ScaleUp(p) PROVE Sequential'
<1> DEFINE t == frame[p].target
           m == Merge(apps[0], t, Raised(t))
<1>1. Step(p) /\ pc[p] = "scaleUp" /\ secret' = secret /\ mem' = mem /\ raw' = raw /\ unread' = unread /\ forgotten' = forgotten
  BY DEF ScaleUp, Step, cache
<1>2. Hand("scaleUp", frame[p], command[p])
  BY <1>1, Kept
<1>3. frame[p].entry.deployment = 1 /\ NoDev /\ t = apps[0]
  BY <1>1, SequentialFacts DEF StepFollows, Steps, Scaling
<1>4. IsWorkload(apps[0]) /\ apps[0].saved # 0 /\ apps[0] # Absent /\ apps[0].saved \in Nat
  BY <1>2, <1>3, Constants DEF Hand, Known, IsWorkload
<1>5. SetApp(0, m) /\ At(p, "forget", frame[p])
  BY <1>3, <1>4 DEF ScaleUp, Goto, Raised
<1>6. /\ apps[0].replicas # 0 => wanted' = Raised(t).replicas
      /\ apps[0].replicas = 0 => wanted' = wanted
  BY <1>3, <1>4 DEF ScaleUp, Raised
<1>7. Raised(t).replicas = apps[0].saved
  BY <1>3, <1>4 DEF Raised, IsWorkload
<1>8. /\ IsWorkload(m) /\ m # Absent
      /\ m.replicas = IF apps[0].saved = apps[0].replicas THEN apps[0].replicas ELSE apps[0].saved
  BY <1>3, <1>4, RaisedMerge, WorkloadThere
<1> HIDE DEF m
<1>9. m.replicas = apps[0].saved /\ wanted' = apps[0].saved
  BY <1>1, <1>4, <1>6, <1>7, <1>8, SequentialFacts DEF Agrees
<1>10. apps'[0] = m /\ \A l \in Levels \ {0} : apps'[l] = apps[l]
  BY <1>1, <1>5, SequentialFacts DEF SetApp
<1>11. Flat' /\ NoDev' /\ ~Down'
  BY <1>1, <1>3, <1>4, <1>8, <1>9, <1>10, SequentialFacts DEF Flat, NoDev, Down
<1>12. Agrees'
  BY <1>1, <1>4, <1>8, <1>9, <1>10, <1>11, SequentialFacts DEF Agrees
<1>13. CacheFollows(p)'
  BY <1>1, <1>11, SequentialFacts DEF CacheFollows
<1>14. pc'[p] = "forget" /\ frame'[p] = frame[p]
  BY <1>5, Arrives DEF Places, Steps
<1>15. StepFollows(p)'
  BY <1>3, <1>11, <1>14 DEF StepFollows, Scaling, Steps
<1> QED
  BY <1>1, <1>11, <1>12, <1>13, <1>15, SequentialStep DEF Follows

LEMMA SequentialForget ==
  ASSUME Typed, Sequential, ~overlapped, NEW p \in Procs, Forget(p) PROVE Sequential'
<1>1. Step(p) /\ pc[p] = "forget" /\ Save(p, NoEntry) /\ At(p, "ready", frame[p]) /\ apps' = apps /\ wanted' = wanted
  BY DEF Forget, Goto, Step, cluster
<1>2. NoDev /\ ~Down
  BY <1>1, SequentialFacts DEF StepFollows
<1>3. pc'[p] \in Rest
  BY <1>1, Arrives DEF Places, Rest
<1>4. mem'[p] = NoEntry /\ pc[p] # "none"
  BY <1>1, SaveTypes, Constants
<1> QED
  BY <1>1, <1>2, <1>3, <1>4, ForgetSequential

LEMMA SequentialError ==
  ASSUME Typed, Sequential, ~overlapped, NEW p \in Procs, ApiError(p) PROVE Sequential'
<1>1. Step(p) /\ pc[p] \in Steps /\ pc[p] # "none" /\ apps' = apps /\ wanted' = wanted
  BY RestFacts, Kept DEF ApiError, GiveUpParent, Fails, Step, cluster, Places, Rest
<1>2. CASE pc[p] = "scaleTarget"
  <2>1. At(p, "patch", frame[p]) /\ mem' = mem /\ raw' = raw /\ unread' = unread /\ forgotten' = forgotten /\ secret' = secret
    BY <1>2 DEF ApiError, Goto, cache
  <2>2. pc'[p] = "patch" /\ frame'[p] = frame[p]
    BY <2>1, Arrives DEF Places, Steps
  <2>3. StepFollows(p)'
    BY <1>2, <2>2, <1>1, SequentialFacts DEF StepFollows, Scaling, Steps
  <2> QED
    BY <1>1, <2>1, <2>3, ReadFollows
<1>3. CASE pc[p] = "forget"
  <2>1. SetInMemory(p, NoEntry) /\ At(p, "ready", frame[p])
    BY <1>3 DEF ApiError, Goto
  <2>2. pc'[p] \in Rest /\ NoDev /\ ~Down
    BY <1>1, <1>3, <2>1, Arrives, SequentialFacts DEF StepFollows, Places, Rest
  <2>3. mem'[p] = NoEntry /\ UNCHANGED <<secret, raw, forgotten>>
    BY <2>1, SaveTypes, Constants DEF SetInMemory
  <2> QED
    BY <1>1, <2>2, <2>3, ForgetSequential
<1>6. CASE pc[p] = "getParent"
  <2>1. GiveUpParent(p)
    BY <1>6 DEF ApiError
  <2> QED
    BY <1>1, <1>6, <2>1, GiveUpSequential
<1>4. CASE pc[p] \in {"save", "saveTarget"}
  <2>1. At(p, "ready", frame[p]) /\ SetInMemory(p, frame[p].entry)
    BY <1>4 DEF ApiError, Goto
  <2>2. frame[p].entry.deployment = 1 /\ frame[p].entry \in Entries
    BY <1>1, <1>4, SequentialFacts, Kept DEF StepFollows, Hand
  <2>3. pc'[p] \in Rest
    BY <2>1, Arrives DEF Places, Rest
  <2> QED
    BY <1>1, <2>1, <2>2, <2>3, RememberSequential
<1>5. CASE pc[p] \notin {"scaleTarget", "getParent", "forget", "save", "saveTarget"}
  <2>1. Fails(p)
    BY <1>5 DEF ApiError
  <2>2. At(p, "ready", frame[p]) /\ mem' = mem /\ raw' = raw /\ unread' = unread /\ forgotten' = forgotten /\ secret' = secret
    BY <2>1 DEF Fails, Goto, cache
  <2>3. pc'[p] \in Rest
    BY <2>2, Arrives DEF Places, Rest
  <2> QED
    BY <1>1, <2>2, <2>3, RestFollows, ReadFollows
<1> QED
  BY <1>2, <1>3, <1>4, <1>5, <1>6

\* Whatever else is saved, the dev pod is saved as the command has it in memory.
LEMMA SequentialSaveElse ==
  ASSUME Typed, Sequential, ~overlapped, NEW p \in Procs, SaveElse(p) PROVE Sequential'
<1>1. /\ Step(p) /\ pc[p] # "none" /\ UNCHANGED <<apps, wanted, mem, unread, pc, frame>>
      /\ raw' = [raw EXCEPT ![p] = mem[p]] /\ secret' = mem[p] /\ forgotten' = (p \in unread)
  BY DEF SaveElse, Step, cluster
<1>2. raw'[p] = secret'
  BY <1>1, Kept
<1>3. Flat' /\ Agrees'
  BY <1>1, SequentialFacts DEF Flat, Agrees, NoDev, Down, CacheFollows
<1>4. CacheFollows(p)'
  BY <1>1, <1>2, SequentialFacts DEF CacheFollows, NoDev, Down
<1>5. StepFollows(p)'
  BY <1>1, SequentialFacts DEF StepFollows, Scaling, NoDev, Down
<1> QED
  BY <1>1, <1>3, <1>4, <1>5, SequentialStep DEF Follows

\* A command that ends or crashes leaves the cluster to the next one.
LEMMA SequentialEnd ==
  ASSUME Typed, Sequential, ~overlapped, NEW p \in Procs, End(p) \/ Crash(p) PROVE Sequential'
<1>1. /\ Step(p) /\ pc[p] # "none" /\ At(p, "none", frame[p])
      /\ apps' = apps /\ wanted' = wanted /\ secret' = secret /\ forgotten' = forgotten
  BY DEF End, Crash, Ended, AtRest, Step, Goto, cluster
<1>2. pc'[p] = "none"
  BY <1>1, Arrives DEF Places, Rest
<1>3. Flat' /\ Agrees'
  BY <1>1, SequentialFacts DEF Flat, Agrees, NoDev, Down
<1> QED
  BY <1>1, <1>2, <1>3, SequentialStep

LEMMA SequentialLoad ==
  ASSUME Typed, Sequential, NEW p \in Procs, Load(p) PROVE Sequential'
<1> SUFFICES ASSUME ~overlapped' PROVE Sequential'
  BY DEF Sequential
<1>1. ~overlapped /\ \A q \in Procs : pc[q] = "none"
  BY DEF Load
<1>2. /\ At(p, "ready", frame[p]) /\ apps' = apps /\ wanted' = wanted /\ secret' = secret
      /\ forgotten' = forgotten /\ unread' = IF forgotten THEN unread \cup {p} ELSE unread
      /\ mem' = [mem EXCEPT ![p] = IF secret = NoSecret THEN NoEntry ELSE secret]
      /\ raw' = [raw EXCEPT ![p] = secret]
  BY DEF Load, Goto, cluster
<1>3. pc'[p] = "ready" /\ \A q \in Procs \ {p} : pc'[q] = "none"
  BY <1>1, <1>2, AtFacts DEF Places, Rest
<1>4. Alone'
  BY <1>3 DEF Alone
<1>5. Flat /\ Agrees
  BY <1>1 DEF Sequential
<1>6. Flat' /\ Agrees'
  BY <1>2, <1>5 DEF Flat, Agrees, NoDev, Down
<1>7. raw'[p] = secret /\ mem'[p] = IF secret = NoSecret THEN NoEntry ELSE secret
  BY <1>2, Kept
<1>8. mem'[p].deployment \in {0, 1} /\ (mem'[p].deployment = 0 => NoDev)
  <2>1. CASE secret = NoSecret
    BY <1>5, <1>7, <2>1, Constants DEF Agrees
  <2>2. CASE secret # NoSecret
    <3>1. secret \in Entries /\ secret.deployment \in Nat
      BY <2>2, Kept, EntryTypes
    <3> QED
      BY <1>5, <1>7, <2>2, <3>1 DEF Agrees
  <2> QED
    BY <2>1, <2>2
<1>12. mem'[p].deployment = 0 /\ Down => p \in unread'
  BY <1>2, <1>5, <1>7, Constants DEF Agrees
<1>9. CacheFollows(p)'
  BY <1>2, <1>7, <1>8, <1>12 DEF CacheFollows, NoDev, Down
<1>10. StepFollows(p)'
  BY <1>3, RestFollows DEF Rest
<1>11. ASSUME NEW q \in Procs, pc'[q] # "none" PROVE Follows(q)'
  BY <1>3, <1>9, <1>10, <1>11 DEF Follows
<1> QED
  BY <1>4, <1>6, <1>11 DEF Sequential

\* Deployments come between the commands: what is deployed is full, and the dev pod stays.
LEMMA SequentialDeploy ==
  ASSUME Typed, Sequential, Deploy \/ Install \/ Uninstall PROVE Sequential'
<1>1. /\ UNCHANGED <<secret, mem, raw, unread, forgotten, pc, frame, overlapped>>
      /\ \A l \in Levels \ {0} : apps'[l] = apps[l]
      /\ \A p \in Procs : AtRest(p)
      /\ \/ apps'[0] = Absent /\ wanted' = 0
         \/ apps'[0] # Absent /\ wanted' \in 1 .. MaxReplicas /\ apps'[0].replicas = wanted'
  BY DeployFacts DEF cache
<1> SUFFICES ASSUME ~overlapped PROVE Sequential'
  BY <1>1 DEF Sequential
<1>2. Alone /\ Flat /\ Agrees /\ \A p \in Procs : pc[p] # "none" => Follows(p)
  BY DEF Sequential
<1>3. Alone'
  BY <1>1, <1>2 DEF Alone
<1>4. Flat' /\ (NoDev' <=> NoDev)
  BY <1>1, <1>2, Constants DEF Flat, NoDev, Levels
<1>5. apps'[0] # Absent => wanted' # 0 /\ wanted' \in Nat
  BY <1>1, Constants
<1>6. Agrees'
  BY <1>1, <1>2, <1>4, <1>5 DEF Agrees, Down
<1>7. ASSUME NEW p \in Procs, pc'[p] # "none" PROVE Follows(p)'
  <2>1. CacheFollows(p)'
    BY <1>1, <1>2, <1>4, <1>5, <1>7 DEF Follows, CacheFollows, Down
  <2>2. pc'[p] \in Rest
    BY <1>1, RestFacts
  <2> QED
    BY <2>1, <2>2, RestFollows DEF Follows
<1> QED
  BY <1>3, <1>4, <1>6, <1>7 DEF Sequential

\* Only a command that starts can come to run beside another.
LEMMA OverlapKept == ASSUME NEW p \in Procs, Step(p), ~Load(p) PROVE overlapped' = overlapped
<1>1. CASE End(p) \/ Crash(p) \/ ApiError(p)
  BY <1>1 DEF End, Crash, Ended, ApiError
<1>2. CASE Replace(p) \/ GetDeployment(p) \/ GetTarget(p) \/ DeleteOld(p) \/ ScaleTarget(p)
  BY <1>2 DEF Replace, GetDeployment, GetTarget, Reads, DeleteOld, ScaleTarget, ghosts
<1>3. CASE PatchDeployment(p) \/ ClaimPatched(p) \/ SaveReplaced(p)
  BY <1>3 DEF PatchDeployment, ClaimPatched, SaveReplaced, ghosts
<1>4. CASE Find(p) \/ SaveTarget(p) \/ ScaleDown(p) \/ Create(p) \/ ClaimCreated(p)
  BY <1>4 DEF Find, SaveTarget, ScaleDown, Create, ClaimCreated, ghosts
<1>5. CASE Revert(p) \/ DeleteReplaced(p) \/ GetParent(p) \/ ScaleUp(p) \/ Forget(p) \/ SaveElse(p)
  BY <1>5 DEF Revert, DeleteReplaced, GetParent, ScaleUp, Forget, SaveElse, ghosts
<1> QED
  BY <1>1, <1>2, <1>3, <1>4, <1>5 DEF Step

LEMMA SequentialNext == ASSUME Typed, Sequential, [Next]_vars PROVE Sequential'
<1>1. ASSUME NEW p \in Procs, Step(p) PROVE Sequential'
  <2>1. CASE Load(p)
    BY <2>1, SequentialLoad
  <2>2. CASE ~Load(p) /\ overlapped
    <3>1. overlapped'
      BY <1>1, <2>2, OverlapKept
    <3> QED
      BY <3>1 DEF Sequential
  <2>3. CASE ~Load(p) /\ ~overlapped
    BY <1>1, <2>3, SequentialEnd, SequentialError, SequentialReplace, SequentialGetDeployment, SequentialGetTarget,
       SequentialDeleteOld, SequentialScaleTarget, SequentialPatch, SequentialClaims, SequentialSaveReplaced,
       SequentialFind, SequentialSaveTarget, SequentialScaleDown, SequentialCreate, SequentialRevert,
       SequentialDeleteReplaced, SequentialGetParent, SequentialScaleUp, SequentialForget,
       SequentialSaveElse
       DEF Step
  <2> QED
    BY <2>1, <2>2, <2>3
<1>2. CASE Deploy \/ Install \/ Uninstall
  BY <1>2, SequentialDeploy
<1>3. CASE (\E l \in Levels : CollectClaim(l)) \/ Finished \/ UNCHANGED vars
  <2>1. UNCHANGED <<apps, wanted, secret, mem, raw, unread, forgotten, pc, frame, overlapped>>
    BY <1>3 DEF CollectClaim, Finished, vars, cluster, cache, ghosts
  <2> QED
    BY <2>1 DEF Sequential, Alone, Flat, Agrees, Down, NoDev, Follows, CacheFollows, StepFollows, Scaling
<1> QED
  BY <1>1, <1>2, <1>3 DEF Next

-----------------------------------------------------------------------------
(* The application can be brought back.                                    *)

LEMMA InitInv == Init => IInv
<1> SUFFICES ASSUME Init PROVE IInv
  OBVIOUS
<1>1. Typed
  BY InitTyped
<1> DEFINE w == App(MaxReplicas, 1, 1)
<1>2. apps[0] = w /\ \A l \in Levels \ {0} : apps[l] = Absent
  BY Constants DEF Init
<1>3. w # Absent /\ w.replicas = MaxReplicas /\ w.saved = 0
  BY Constants, AppFacts, WorkloadThere
<1> HIDE DEF w
<1>4. \A p \in Procs : pc[p] = "none"
  BY DEF Init
<1>5. wanted = MaxReplicas /\ secret = NoSecret /\ budget = Budget(conf) /\ ~overlapped
  BY DEF Init
<1>6. CalmInv
  <2>1. Budget(conf).deploys \in Nat
    BY <1>1 DEF Typed, Budgets
  <2> QED
    BY <1>2, <1>3, <1>4, <1>5, <2>1 DEF CalmInv, FullOrNoted, Scaling
<1>7. Sequential
  <2>1. Flat /\ NoDev
    BY <1>2, Constants DEF Flat, NoDev, Levels
  <2>2. Agrees
    BY <1>2, <1>3, <1>5, <2>1, Constants DEF Agrees, Down
  <2> QED
    BY <1>4, <2>1, <2>2 DEF Sequential, Alone
<1> QED
  BY <1>1, <1>6, <1>7 DEF IInv

LEMMA NextInv == IInv /\ [Next]_vars => IInv'
<1> SUFFICES ASSUME Typed, CalmInv, Sequential, [Next]_vars PROVE IInv'
  BY DEF IInv
<1>1. Typed' /\ Sequential'
  BY NextTyped, SequentialNext
<1>2. CalmInv'
  <2>1. CASE \E p \in Procs : Step(p)
    BY <2>1, CalmStep
  <2>2. CASE Deploy \/ Install \/ Uninstall
    BY <2>2, CalmDeploy
  <2>3. CASE (\E l \in Levels : CollectClaim(l)) \/ Finished \/ UNCHANGED vars
    <3>1. UNCHANGED <<conf, apps, wanted, pc, frame, budget>>
      BY <2>3 DEF CollectClaim, Finished, vars, cluster, ghosts
    <3> QED
      BY <3>1 DEF CalmInv, Calm, Scaling
  <2> QED
    BY <2>1, <2>2, <2>3 DEF Next
<1> QED
  BY <1>1, <1>2 DEF IInv

LEMMA InvRecoverable == IInv => Recoverable
<1> SUFFICES ASSUME Typed, CalmInv, Sequential PROVE Recoverable
  BY DEF IInv
<1>1. ReplicasKept
  <2> SUFFICES ASSUME apps[0] # Absent, apps[0].replicas = 0, overlapped => Calm PROVE apps[0].saved = wanted
    BY DEF ReplicasKept, Calm
  <2>1. CASE overlapped
    BY <2>1, Constants DEF CalmInv, FullOrNoted
  <2>2. CASE ~overlapped
    BY <2>2 DEF Sequential, Agrees
  <2> QED
    BY <2>1, <2>2
<1>2. NotStranded
  BY DEF NotStranded, Sequential, Agrees, Down
<1> QED
  BY <1>1, <1>2 DEF Recoverable

\* The replicas of an application that is scaled down are noted on it, whatever commands do at
\* the same time as long as nothing is deployed between, and whatever is deployed between commands
\* that run one after the other; then the remote cache also knows of the dev pod (ReplacePod
\* saves it before it scales), so that a reset finds what to put back.
THEOREM RecoverableTheorem == Spec => []Recoverable
<1> QED
  BY InitInv, NextInv, InvRecoverable, PTL DEF Spec

-----------------------------------------------------------------------------
(* Who uses the dev pod.                                                   *)

\* As long as commands run one after the other the projects that use the dev pod are in the
\* entry of the cache, in the copy of the command and in the entry it works on; and where the
\* dev pod goes away for a project that was not forced, nobody uses it.
Replacing == Steps \ {"deleteReplaced", "getParent", "scaleUp", "forget"}
Users(p) ==
    /\ inUse \subseteq mem[p].projects
    /\ pc[p] \in Replacing => inUse \cup {command[p].root} \subseteq frame[p].entry.projects
    /\ pc[p] \in {"scaleDown", "create", "claimCreated"} => command[p].root \in mem[p].projects \cap secret.projects
    /\ pc[p] = "deleteReplaced" /\ command[p].name = "pipeline" /\ ~command[p].force => inUse = {}
    /\ pc[p] \in {"getParent", "scaleUp", "forget"} => inUse = {}
    /\ pc[p] = "forget" => apps[0] # Absent
UsersInv == ~overlapped => /\ inUse \subseteq secret.projects
                           /\ \A p \in Procs : pc[p] # "none" => Users(p)

LEMMA UsersStep ==
  ASSUME Typed, Sequential, ~overlapped, NEW p \in Procs, Step(p), pc[p] # "none",
         inUse' \subseteq secret'.projects, pc'[p] # "none" => Users(p)'
  PROVE  UsersInv'
<1>1. ASSUME NEW q \in Procs, q # p PROVE pc'[q] = "none"
  BY <1>1, OneProcess DEF Sequential, Alone
<1> QED
  BY <1>1 DEF UsersInv

\* Coming to rest: only the copy of the cache matters.
LEMMA UsersRest ==
  ASSUME Typed, Sequential, ~overlapped, NEW p \in Procs, Step(p), pc[p] # "none", pc'[p] \in Rest,
         inUse' \subseteq secret'.projects, inUse' \subseteq mem'[p].projects
  PROVE  UsersInv'
<1>1. pc'[p] \notin Steps
  BY RestFacts
<1>2. Users(p)'
  BY <1>1 DEF Users, Replacing, Steps
<1> QED
  BY <1>2, UsersStep

\* A step of replacing that leaves the cache alone.
LEMMA UsersReads ==
  ASSUME Typed, Sequential, UsersInv, ~overlapped, NEW p \in Procs, Step(p), pc[p] \in Replacing,
         UNCHANGED <<secret, mem, inUse, command>>,
         pc'[p] \in Replacing \cup Rest,
         pc'[p] \in Replacing => frame'[p].entry.projects = frame[p].entry.projects,
         pc'[p] \in {"scaleDown", "create", "claimCreated"} => pc[p] \in {"scaleDown", "create"}
  PROVE  UsersInv'
<1>1. pc[p] # "none" /\ pc[p] \in Steps
  BY RestFacts DEF Replacing, Rest
<1>2. Users(p) /\ inUse \subseteq secret.projects
  BY <1>1 DEF UsersInv
<1>3. CASE pc'[p] \in Rest
  BY <1>1, <1>2, <1>3, UsersRest DEF Users
<1>4. CASE pc'[p] \in Replacing
  <2>1. Users(p)'
    BY <1>2, <1>4 DEF Users, Replacing, Steps
  <2> QED
    BY <1>1, <1>2, <2>1, UsersStep
<1> QED
  BY <1>3, <1>4

LEMMA UsersReplace ==
  ASSUME Typed, Sequential, UsersInv, ~overlapped, NEW p \in Procs, Replace(p) PROVE UsersInv'
<1> DEFINE e == [mem[p] EXCEPT !.projects = @ \cup {command[p].root}]
           at == IF e.deployment = 0 THEN "find" ELSE "getDeployment"
           f == [NoFrame EXCEPT !.entry = e]
<1>1. /\ Step(p) /\ pc[p] # "none" /\ At(p, at, f)
      /\ secret' = secret /\ mem' = mem /\ inUse' = inUse /\ command' = command
  BY DEF Replace, ReplacePod, Reads, Step, cache, ghosts
<1>2. Users(p) /\ inUse \subseteq secret.projects
  BY <1>1 DEF UsersInv
<1>3. e.projects = mem[p].projects \cup {command[p].root}
  BY Kept DEF Entries
<1>4. f.entry = e
  BY Constants
<1> HIDE DEF e, f
<1>5. pc'[p] = at /\ frame'[p] = f
  BY <1>1, Arrives DEF Places, Steps
<1>6. Users(p)'
  BY <1>1, <1>2, <1>3, <1>4, <1>5 DEF Users, Replacing, Steps
<1> QED
  BY <1>1, <1>2, <1>6, UsersStep

\* The steps of replacing a pod between reading and saving.
LEMMA UsersWorks ==
  ASSUME Typed, Sequential, UsersInv, ~overlapped, NEW p \in Procs,
         \/ GetDeployment(p) \/ GetTarget(p) \/ DeleteOld(p) \/ ScaleTarget(p)
         \/ PatchDeployment(p) \/ ClaimPatched(p) \/ Find(p) \/ ScaleDown(p) \/ Create(p)
  PROVE  UsersInv'
<1>1. pc[p] \in Replacing \ {"saveTarget", "save", "claimCreated"} /\ Step(p) /\ pc[p] # "none"
  BY DEF GetDeployment, GetTarget, DeleteOld, ScaleTarget, PatchDeployment, ClaimPatched, Find, ScaleDown, Create, Step,
         Replacing, Steps
<1>2. Hand(pc[p], frame[p], command[p])
  BY Kept
<1>3. CASE GetDeployment(p) \/ GetTarget(p)
  <2> DEFINE found == apps[frame[p].entry.deployment]
             target == apps[frame[p].deployment.of]
             f == [frame[p] EXCEPT !.deployment = found]
             g == [frame[p] EXCEPT !.target = target]
  <2>1. /\ f.entry = frame[p].entry /\ g.entry = frame[p].entry
    BY <1>2 DEF Hand
  <2>2. UNCHANGED <<secret, mem, inUse, command>>
    BY <1>3 DEF GetDeployment, GetTarget, Reads, cache, ghosts
  <2>3. \E at \in {"find", "getTarget", "deleteOld", "scaleTarget", "ready"} : At(p, at, f) \/ At(p, at, g)
    BY <1>3 DEF GetDeployment, GetTarget
  <2> HIDE DEF f, g
  <2>4. PICK at \in {"find", "getTarget", "deleteOld", "scaleTarget", "ready"} : At(p, at, f) \/ At(p, at, g)
    BY <2>3
  <2>5. pc'[p] = at /\ (at # "ready" => frame'[p] \in {f, g})
    BY <2>4, Arrives DEF Places, Steps, Rest
  <2> QED
    BY <1>1, <2>1, <2>2, <2>5, UsersReads DEF Replacing, Steps, Rest
<1>4. CASE DeleteOld(p) \/ ScaleTarget(p) \/ PatchDeployment(p) \/ ClaimPatched(p) \/ ScaleDown(p)
  <2>1. UNCHANGED <<secret, mem, inUse, command>>
    BY <1>4 DEF DeleteOld, ScaleTarget, PatchDeployment, ClaimPatched, ScaleDown, cache, ghosts
  <2>2. PICK at \in {"find", "patch", "save", "claimPatched", "create", "ready"} :
            At(p, at, frame[p]) /\ (at = "create" => pc[p] = "scaleDown")
    BY <1>4 DEF DeleteOld, ScaleTarget, PatchDeployment, ClaimPatched, ScaleDown, Goto
  <2>3. pc'[p] = at /\ (at # "ready" => frame'[p] = frame[p])
    BY <2>2, Arrives DEF Places, Steps, Rest
  <2> QED
    BY <1>1, <2>1, <2>2, <2>3, UsersReads DEF Replacing, Steps, Rest
<1>5. CASE Find(p)
  <2>1. UNCHANGED <<secret, mem, inUse, command>>
    BY <1>5 DEF Find, Fails, cache, ghosts
  <2>2. CASE At(p, "ready", frame[p])
    <3>1. pc'[p] = "ready"
      BY <2>2, Arrives DEF Places, Rest
    <3> QED
      BY <1>1, <2>1, <3>1, UsersReads DEF Replacing, Steps, Rest
  <2>3. ASSUME NEW found \in Candidates, found < MaxLevel,
               At(p, "saveTarget", [frame[p] EXCEPT !.entry.deployment = found + 1, !.target = apps[found]])
        PROVE  UsersInv'
    <3> DEFINE f == [frame[p] EXCEPT !.entry.deployment = found + 1, !.target = apps[found]]
    <3>1. f.entry.projects = frame[p].entry.projects
      BY <1>2 DEF Hand, Entries
    <3>2. At(p, "saveTarget", f)
      BY <2>3
    <3> HIDE DEF f
    <3>3. pc'[p] = "saveTarget" /\ frame'[p] = f
      BY <3>2, Arrives DEF Places, Steps
    <3> QED
      BY <1>1, <2>1, <3>1, <3>3, UsersReads DEF Replacing, Steps
  <2> QED
    BY <1>5, <2>2, <2>3 DEF Find, Fails, Goto
<1>6. CASE Create(p)
  <2>1. pc[p] = "create" /\ secret' = secret /\ mem' = mem /\ command' = command
    BY <1>6 DEF Create, cache
  <2>2. frame[p].entry.deployment = 1 /\ apps[1] = Absent
    BY <1>1, <2>1, SequentialFacts DEF StepFollows, Steps
  <2>3. At(p, "claimCreated", frame[p]) /\ inUse' = inUse
    BY <1>6, <2>2 DEF Create, Goto
  <2>4. pc'[p] = "claimCreated" /\ frame'[p] = frame[p]
    BY <2>3, Arrives DEF Places, Steps
  <2> QED
    BY <1>1, <2>1, <2>3, <2>4, UsersReads DEF Replacing, Steps
<1> QED
  BY <1>3, <1>4, <1>5, <1>6

\* A command saves the entry it works on.
LEMMA UsersSaves ==
  ASSUME Typed, Sequential, UsersInv, ~overlapped, NEW p \in Procs, SaveTarget(p) \/ SaveReplaced(p)
  PROVE  UsersInv'
<1>1. /\ Step(p) /\ pc[p] \in {"saveTarget", "save"} /\ pc[p] # "none"
      /\ Save(p, frame[p].entry) /\ command' = command
  BY DEF SaveTarget, SaveReplaced, Step
<1>2. frame[p].entry \in Entries /\ frame[p].entry.deployment = 1
  BY <1>1, SequentialFacts, Kept DEF StepFollows, Steps, Scaling, Hand
<1>3. mem'[p] = frame[p].entry /\ secret' = frame[p].entry
  BY <1>1, <1>2, SequentialFacts, SavedFollows, Constants
<1>4. inUse \cup {command[p].root} \subseteq frame[p].entry.projects
  BY <1>1 DEF UsersInv, Users, Replacing, Steps
<1>5. CASE SaveTarget(p)
  <2>1. inUse' = inUse
    BY <1>5 DEF SaveTarget, ghosts
  <2>2. PICK at \in {"scaleDown", "ready"} : At(p, at, frame[p])
    BY <1>5 DEF SaveTarget, Goto
  <2>3. pc'[p] = at /\ (at = "scaleDown" => frame'[p] = frame[p])
    BY <2>2, Arrives DEF Places, Steps, Rest
  <2>4. Users(p)'
    BY <1>1, <1>3, <1>4, <2>1, <2>3 DEF Users, Replacing, Steps
  <2> QED
    BY <1>1, <1>3, <1>4, <2>1, <2>4, UsersStep
<1>6. CASE SaveReplaced(p)
  <2>1. inUse' = inUse \cup {command[p].root} /\ At(p, "replaced", frame[p])
    BY <1>6 DEF SaveReplaced, Replaced, Goto
  <2>2. pc'[p] \in Rest
    BY <2>1, Arrives DEF Places, Rest
  <2> QED
    BY <1>1, <1>3, <1>4, <2>1, <2>2, UsersRest
<1> QED
  BY <1>1, <1>5, <1>6

\* The dev pod that was made is used by the project that was saved before.
LEMMA UsersClaimCreated ==
  ASSUME Typed, Sequential, UsersInv, ~overlapped, NEW p \in Procs, ClaimCreated(p) PROVE UsersInv'
<1>1. /\ Step(p) /\ pc[p] = "claimCreated" /\ At(p, "replaced", frame[p])
      /\ secret' = secret /\ mem' = mem /\ inUse' = inUse \cup {command[p].root}
  BY DEF ClaimCreated, Replaced, Goto, Step, cache
<1>2. Users(p) /\ inUse \subseteq secret.projects
  BY <1>1 DEF UsersInv
<1>3. pc'[p] \in Rest
  BY <1>1, Arrives DEF Places, Rest
<1> QED
  BY <1>1, <1>2, <1>3, UsersRest DEF Users

\* A project gives up the dev pod: it goes away unless others use it.
LEMMA UsersRevert ==
  ASSUME Typed, Sequential, UsersInv, ~overlapped, NEW p \in Procs, Revert(p) PROVE UsersInv'
<1>1. Step(p) /\ pc[p] # "none" /\ inUse' = inUse \ {command[p].root} /\ command' = command
  BY DEF Revert, Step
<1>2. Users(p) /\ inUse \subseteq secret.projects /\ inUse \subseteq mem[p].projects
  BY <1>1 DEF UsersInv, Users
<1>3. mem[p].deployment = 1 /\ mem[p] \in Entries
  BY <1>1, SequentialFacts, Kept DEF Revert, CacheFollows
<1>4. CASE InUseByOthers(p)
  <2> DEFINE data == [mem[p] EXCEPT !.projects = mem[p].projects \ {command[p].root}]
  <2>1. data \in Entries /\ data.deployment = 1 /\ data.projects = mem[p].projects \ {command[p].root}
    <3>1. mem[p].projects \ {command[p].root} \in SUBSET Roots
      BY <1>3, EntryTypes
    <3> QED
      BY <1>3, <3>1, EntryTypes DEF Entries
  <2>2. Save(p, data) /\ At(p, "ready", frame[p])
    BY <1>4 DEF Revert, Goto
  <2>3. pc'[p] \in Rest
    BY <2>2, Arrives DEF Places, Rest
  <2> HIDE DEF data
  <2>4. mem'[p] = data /\ secret' = data
    BY <1>1, <2>1, <2>2, SequentialFacts, SavedFollows, Constants
  <2> QED
    BY <1>1, <1>2, <2>1, <2>3, <2>4, UsersRest
<1>5. CASE ~InUseByOthers(p)
  <2> DEFINE f == [NoFrame EXCEPT !.entry = mem[p]]
  <2>1. At(p, "deleteReplaced", f) /\ secret' = secret /\ mem' = mem
    BY <1>5 DEF Revert, cache
  <2> HIDE DEF f
  <2>2. pc'[p] = "deleteReplaced"
    BY <2>1, Arrives DEF Places, Steps
  <2>3. command[p].name = "pipeline" /\ ~command[p].force => inUse' = {}
    BY <1>1, <1>2, <1>5 DEF InUseByOthers
  <2>4. Users(p)'
    BY <1>1, <1>2, <2>1, <2>2, <2>3 DEF Users, Replacing, Steps
  <2> QED
    BY <1>1, <1>2, <2>1, <2>4, UsersStep
<1> QED
  BY <1>4, <1>5

\* Nobody uses a dev pod that is deleted.
LEMMA UsersUndoes ==
  ASSUME Typed, Sequential, UsersInv, ~overlapped, NEW p \in Procs,
         DeleteReplaced(p) \/ GetParent(p) \/ ScaleUp(p) \/ Forget(p)
  PROVE  UsersInv'
<1>1. Step(p) /\ pc[p] \in {"deleteReplaced", "getParent", "scaleUp", "forget"} /\ pc[p] # "none"
  BY DEF DeleteReplaced, GetParent, ScaleUp, Forget, Step
<1>2. inUse' = {}
  BY <1>1 DEF UsersInv, Users, DeleteReplaced, GetParent, ScaleUp, Forget, ghosts
<1>3. ASSUME pc'[p] \in Rest PROVE UsersInv'
  BY <1>1, <1>2, <1>3, UsersRest
<1>4. ASSUME pc'[p] \in {"getParent", "scaleUp"} PROVE UsersInv'
  <2>1. Users(p)'
    BY <1>2, <1>4 DEF Users, Replacing, Steps
  <2> QED
    BY <1>1, <1>2, <2>1, UsersStep
<1>5. ASSUME pc'[p] = "forget", apps'[0] # Absent PROVE UsersInv'
  <2>1. Users(p)'
    BY <1>2, <1>5 DEF Users, Replacing, Steps
  <2> QED
    BY <1>1, <1>2, <2>1, UsersStep
<1>6. CASE DeleteReplaced(p)
  <2>1. pc'[p] = "getParent"
    BY <1>6, Arrives DEF DeleteReplaced, Goto, Places, Steps
  <2> QED
    BY <1>4, <2>1
<1>7. CASE GetParent(p)
  <2>1. frame[p].entry.deployment = 1 /\ apps' = apps
    BY <1>1, <1>7, SequentialFacts DEF GetParent, GiveUpParent, StepFollows, Steps, cluster
  <2>2. CASE GiveUpParent(p)
    <3>1. pc'[p] \in Rest
      BY <2>2, Arrives DEF GiveUpParent, Goto, Places, Rest
    <3> QED
      BY <1>3, <3>1
  <2>3. CASE ~GiveUpParent(p)
    <3> DEFINE f == [frame[p] EXCEPT !.target = apps[0]]
    <3>1. apps[0] # Absent /\ \E at \in {"forget", "scaleUp"} : At(p, at, f)
      BY <1>7, <2>1, <2>3 DEF GetParent
    <3> HIDE DEF f
    <3>2. PICK at \in {"forget", "scaleUp"} : At(p, at, f)
      BY <3>1
    <3>3. pc'[p] = at
      BY <3>2, Arrives DEF Places, Steps
    <3> QED
      BY <1>4, <1>5, <2>1, <3>1, <3>3
  <2> QED
    BY <2>2, <2>3
<1>8. CASE ScaleUp(p)
  <2> DEFINE m == Merge(apps[0], frame[p].target, Raised(frame[p].target))
  <2>1. frame[p].entry.deployment = 1 /\ frame[p].target = apps[0]
    BY <1>8, SequentialFacts DEF ScaleUp, StepFollows, Steps, Scaling
  <2>2. Hand("scaleUp", frame[p], command[p])
    BY <1>8, Kept DEF ScaleUp
  <2>3. apps[0] # Absent /\ IsWorkload(apps[0]) /\ apps[0].saved # 0
    BY <2>1, <2>2 DEF Hand, Known
  <2>4. At(p, "forget", frame[p]) /\ SetApp(0, m)
    BY <1>8, <2>1, <2>3 DEF ScaleUp, Goto, Raised
  <2>5. m # Absent
    BY <2>1, <2>3, RaisedMerge, WorkloadThere
  <2> HIDE DEF m
  <2>6. apps'[0] = m /\ pc'[p] = "forget"
    BY <2>4, Kept, Constants, Arrives DEF SetApp, Places, Steps
  <2> QED
    BY <1>5, <2>5, <2>6
<1>9. CASE Forget(p)
  <2>1. pc'[p] \in Rest
    BY <1>9, Arrives DEF Forget, Goto, Places, Rest
  <2> QED
    BY <1>3, <2>1
<1> QED
  BY <1>6, <1>7, <1>8, <1>9

LEMMA UsersEnd ==
  ASSUME Typed, Sequential, UsersInv, ~overlapped, NEW p \in Procs, End(p) \/ Crash(p) PROVE UsersInv'
<1>1. Step(p) /\ pc[p] # "none" /\ At(p, "none", frame[p]) /\ secret' = secret /\ inUse' = inUse
  BY DEF End, Crash, Ended, AtRest, Step, Goto
<1>2. pc'[p] = "none"
  BY <1>1, Arrives DEF Places, Rest
<1> QED
  BY <1>1, <1>2, UsersStep DEF UsersInv

LEMMA UsersError ==
  ASSUME Typed, Sequential, UsersInv, ~overlapped, NEW p \in Procs, ApiError(p) PROVE UsersInv'
<1>1. Step(p) /\ pc[p] \in Steps /\ pc[p] # "none" /\ inUse' = inUse /\ command' = command /\ secret' = secret
  BY RestFacts, Kept DEF ApiError, GiveUpParent, Fails, Step, cache, SetInMemory, Places, Rest
<1>2. Users(p) /\ inUse \subseteq secret.projects
  BY <1>1 DEF UsersInv
<1>3. CASE pc[p] = "scaleTarget"
  <2>1. At(p, "patch", frame[p]) /\ mem' = mem
    BY <1>3 DEF ApiError, Goto, cache
  <2>2. pc'[p] = "patch" /\ frame'[p] = frame[p]
    BY <2>1, Arrives DEF Places, Steps
  <2> QED
    BY <1>1, <1>3, <2>1, <2>2, UsersReads DEF Replacing, Steps
<1>4. CASE pc[p] # "scaleTarget"
  <2>1. At(p, "ready", frame[p])
    BY <1>4 DEF ApiError, GiveUpParent, Fails, Goto
  <2>2. pc'[p] \in Rest
    BY <2>1, Arrives DEF Places, Rest
  <2>3. inUse \subseteq mem'[p].projects
    <3>1. CASE pc[p] \in {"getParent", "forget"}
      BY <1>2, <3>1 DEF Users
    <3>2. CASE pc[p] \in {"save", "saveTarget"}
      <4>1. SetInMemory(p, frame[p].entry) /\ frame[p].entry \in Entries
        BY <3>2, Kept DEF ApiError, Hand
      <4>2. mem'[p] = frame[p].entry
        BY <4>1, SaveTypes
      <4> QED
        BY <1>2, <3>2, <4>2 DEF Users, Replacing, Steps
    <3>3. CASE pc[p] \notin {"scaleTarget", "getParent", "forget", "save", "saveTarget"}
      <4>1. mem' = mem
        BY <3>3 DEF ApiError, Fails, cache
      <4> QED
        BY <1>2, <4>1 DEF Users
    <3> QED
      BY <1>4, <3>1, <3>2, <3>3
  <2> QED
    BY <1>1, <1>2, <2>2, <2>3, UsersRest
<1> QED
  BY <1>3, <1>4

LEMMA UsersLoad ==
  ASSUME Typed, UsersInv, NEW p \in Procs, Load(p) PROVE UsersInv'
<1> SUFFICES ASSUME ~overlapped' PROVE UsersInv'
  BY DEF UsersInv
<1>1. ~overlapped /\ \A q \in Procs : pc[q] = "none"
  BY DEF Load
<1>2. /\ At(p, "ready", frame[p]) /\ secret' = secret /\ inUse' = inUse
      /\ mem' = [mem EXCEPT ![p] = IF secret = NoSecret THEN NoEntry ELSE secret]
  BY DEF Load, Goto
<1>3. pc'[p] = "ready" /\ \A q \in Procs \ {p} : pc'[q] = "none"
  BY <1>1, <1>2, AtFacts DEF Places, Rest
<1>4. mem'[p] = IF secret = NoSecret THEN NoEntry ELSE secret
  BY <1>2, Kept
<1>5. inUse \subseteq secret.projects /\ (secret = NoSecret => inUse = {})
  BY <1>1 DEF UsersInv, NoSecret
<1>6. Users(p)'
  BY <1>2, <1>3, <1>4, <1>5 DEF Users, Replacing, Steps
<1> QED
  BY <1>2, <1>3, <1>5, <1>6 DEF UsersInv

\* Whatever else is saved, the users are saved as the command has them in memory.
LEMMA UsersSaveElse ==
  ASSUME Typed, Sequential, UsersInv, ~overlapped, NEW p \in Procs, SaveElse(p) PROVE UsersInv'
<1>1. /\ Step(p) /\ pc[p] # "none" /\ UNCHANGED <<apps, mem, pc, command, frame, inUse>> /\ secret' = mem[p]
  BY DEF SaveElse, Step, cluster, ghosts
<1>2. Users(p)
  BY <1>1 DEF UsersInv
<1>3. Users(p)'
  BY <1>1, <1>2 DEF Users
<1> QED
  BY <1>1, <1>2, <1>3, UsersStep DEF Users

LEMMA UsersNext == ASSUME Typed, Sequential, UsersInv, [Next]_vars PROVE UsersInv'
<1>1. ASSUME NEW p \in Procs, Step(p) PROVE UsersInv'
  <2>1. CASE Load(p)
    BY <2>1, UsersLoad
  <2>2. CASE ~Load(p) /\ overlapped
    <3>1. overlapped'
      BY <1>1, <2>2, OverlapKept
    <3> QED
      BY <3>1 DEF UsersInv
  <2>3. CASE ~Load(p) /\ ~overlapped
    BY <1>1, <2>3, UsersEnd, UsersError, UsersReplace, UsersWorks, UsersSaves, UsersClaimCreated, UsersRevert,
       UsersUndoes, UsersSaveElse DEF Step
  <2> QED
    BY <2>1, <2>2, <2>3
<1>2. CASE Deploy \/ Install \/ Uninstall
  <2>1. UNCHANGED <<secret, mem, pc, frame, command, inUse, overlapped>> /\ \A p \in Procs : pc[p] \in Rest
    BY <1>2, RestFacts DEF Deploy, Install, Uninstall, cache
  <2> QED
    BY <2>1 DEF UsersInv, Users, Rest, Replacing, Steps
<1>3. CASE (\E l \in Levels : CollectClaim(l)) \/ Finished \/ UNCHANGED vars
  <2>1. UNCHANGED <<apps, secret, mem, pc, frame, command, inUse, overlapped>>
    BY <1>3 DEF CollectClaim, Finished, vars, cluster, cache, ghosts
  <2> QED
    BY <2>1 DEF UsersInv, Users
<1> QED
  BY <1>1, <1>2, <1>3 DEF Next

\* A step that forgets the dev pod, or fails to save that, finds it gone and the application back.
LEMMA RevertedStep ==
  ASSUME Typed, Sequential, UsersInv, NEW p \in Procs PROVE SharedKept(p) /\ ResetRestores(p)
<1>1. SharedKept(p)
  BY DEF SharedKept, UsersInv, Users
<1>2. ResetRestores(p)
  <2> SUFFICES ASSUME pc[p] = "forget", ~overlapped
               PROVE  apps[0] # Absent /\ apps[0].replicas = wanted /\ apps[1] = Absent
    BY DEF ResetRestores
  <2>1. apps[0] # Absent
    BY DEF UsersInv, Users
  <2>2. NoDev /\ ~Down
    BY SequentialFacts DEF StepFollows
  <2> QED
    BY <2>1, <2>2, SequentialFacts DEF Agrees, Down
<1> QED
  BY <1>1, <1>2

\* Reverting by one project of several leaves the dev pod to the others, unless forced; a reset
\* that comes to its end leaves the application with the replicas it was deployed with and no
\* dev pod (RevertReplacePod, scaleUpTarget), wherever earlier commands failed or crashed.
THEOREM RevertedAsAskedTheorem == Spec => RevertedAsAsked
<1>1. Init => UsersInv
  BY DEF Init, UsersInv
<1>2. IInv /\ UsersInv /\ [Next]_vars => (IInv /\ UsersInv)'
  BY NextInv, UsersNext DEF IInv
<1>3. IInv /\ UsersInv /\ [Next]_vars => [\A p \in Procs : SharedKept(p) /\ ResetRestores(p)]_vars
  BY RevertedStep DEF IInv
<1> QED
  BY InitInv, <1>1, <1>2, <1>3, PTL DEF Spec, RevertedAsAsked

-----------------------------------------------------------------------------
(* What the dev pod is made of.                                            *)

\* As long as commands run one after the other, a command that makes or patches the dev pod
\* has the pod of the application in hand, which it has been able to build from; it has scaled
\* the application down, or a call has failed; and once it has made or patched the dev pod, that
\* is what was built.
Made   == {"claimPatched", "claimCreated", "save"}
Making == Made \cup {"scaleTarget", "patch", "scaleDown", "create"}
Makes(p) ==
    /\ pc[p] \in Making => apps[0] # Absent /\ frame[p].target.pod = apps[0].pod /\ Built(p).ok
    /\ pc[p] \in Made \cup {"patch", "create"} => apps[0].replicas = 0 \/ budget.faults < Budget(conf).faults
    /\ pc[p] = "patch" => frame[p].deployment = apps[1]
    /\ pc[p] \in Made => apps[1] # Absent /\ apps[1].replicas = 1 /\ apps[1].pod = Built(p).pod
MadeInv == /\ budget.faults <= Budget(conf).faults
           /\ ~overlapped => \A p \in Procs : pc[p] # "none" => Makes(p)

\* A failure is noted.
LEMMA FaultSpent ==
  ASSUME Typed, NEW what \in {"commands", "deploys", "faults"}, Spend(what)
  PROVE  /\ budget'.faults \in Nat /\ budget.faults \in Nat /\ Budget(conf).faults \in Nat
         /\ budget'.faults <= budget.faults
         /\ what = "faults" => budget'.faults < budget.faults
<1>1. budget \in Budgets /\ Budget(conf) \in Budgets
  BY DEF Typed
<1>2. CASE what = "commands"
  BY <1>1, <1>2 DEF Spend, Budgets
<1>3. CASE what = "deploys"
  BY <1>1, <1>3 DEF Spend, Budgets
<1>4. CASE what = "faults"
  BY <1>1, <1>4 DEF Spend, Budgets
<1> QED
  BY <1>2, <1>3, <1>4

\* What a step does to the bound of the faults.
LEMMA FaultsKept ==
  ASSUME Typed, budget.faults <= Budget(conf).faults, [Next]_vars
  PROVE  conf' = conf /\ budget'.faults <= budget.faults /\ budget'.faults <= Budget(conf').faults
<1>1. budget.faults \in Nat /\ Budget(conf).faults \in Nat
  BY DEF Typed, Budgets
<1>2. conf' = conf
  BY DEF Next, Step, vars, Load, End, Crash, Ended, ApiError, GiveUpParent, Replace, GetDeployment, GetTarget, Reads, DeleteOld,
     ScaleTarget, PatchDeployment, ClaimPatched, SaveReplaced, Find, SaveTarget, ScaleDown, Create, ClaimCreated, Revert,
     DeleteReplaced, GetParent, ScaleUp, Forget, SaveElse, Deploy, Install, Uninstall, CollectClaim, Finished
<1>3. budget' = budget \/ \E what \in {"commands", "deploys", "faults"} : Spend(what)
  BY DEF Next, Step, vars, ghosts, Load, End, Crash, ApiError, Replace, GetDeployment, GetTarget, Reads, DeleteOld,
     ScaleTarget, PatchDeployment, ClaimPatched, SaveReplaced, Find, SaveTarget, ScaleDown, Create, ClaimCreated, Revert,
     DeleteReplaced, GetParent, ScaleUp, Forget, SaveElse, Deploy, Install, Uninstall, CollectClaim, Finished
<1> QED
  BY <1>1, <1>2, <1>3, FaultSpent

LEMMA MadeStep ==
  ASSUME Typed, Sequential, MadeInv, ~overlapped, NEW p \in Procs, Step(p), pc[p] # "none",
         pc'[p] # "none" => Makes(p)'
  PROVE  MadeInv'
<1>1. ASSUME NEW q \in Procs, q # p PROVE pc'[q] = "none"
  BY <1>1, OneProcess DEF Sequential, Alone
<1>2. budget'.faults <= Budget(conf').faults
  BY FaultsKept DEF MadeInv, Next
<1> QED
  BY <1>1, <1>2 DEF MadeInv

\* A dev pod that is built is one that can be.
LEMMA BuiltOk == ASSUME NEW t, NEW d, BuildPod(t, d).ok PROVE Ok(BuildPod(t, d).pod) = BuildPod(t, d)
  BY DEF BuildPod, Then, Ok

\* Only these steps make the dev pod.
LEMMA WhoMakes ==
  ASSUME Typed, NEW p \in Procs, Step(p), ~SaveElse(p), pc'[p] \in Making
  PROVE  \/ GetTarget(p) \/ ScaleTarget(p) \/ PatchDeployment(p) \/ ClaimPatched(p) \/ SaveTarget(p) \/ ScaleDown(p)
         \/ Create(p) \/ (ApiError(p) /\ pc[p] = "scaleTarget")
<1>0. pc \in [Procs -> Places]
  BY Kept
<1>1. CASE Load(p) \/ End(p) \/ Crash(p)
  BY <1>0, <1>1 DEF Load, End, Crash, Ended, Goto, At, Making, Made
<1>2. CASE ApiError(p) /\ pc[p] # "scaleTarget"
  <2>1. At(p, "ready", frame[p])
    BY <1>2 DEF ApiError, GiveUpParent, Fails, Goto
  <2> QED
    BY <1>0, <2>1 DEF At, Making, Made
<1>3. CASE Replace(p)
  BY <1>0, <1>3 DEF Replace, ReplacePod, At, Making, Made
<1>4. CASE GetDeployment(p)
  BY <1>0, <1>4 DEF GetDeployment, At, Making, Made
<1>5. CASE DeleteOld(p)
  BY <1>0, <1>5 DEF DeleteOld, Goto, At, Making, Made
<1>6. CASE Find(p)
  BY <1>0, <1>6 DEF Find, Fails, Goto, At, Making, Made
<1>7. CASE SaveReplaced(p) \/ ClaimCreated(p)
  BY <1>0, <1>7 DEF SaveReplaced, ClaimCreated, Replaced, Goto, At, Making, Made
<1>8. CASE Revert(p) \/ DeleteReplaced(p)
  BY <1>0, <1>8 DEF Revert, DeleteReplaced, Goto, At, Making, Made
<1>9. CASE GetParent(p)
  BY <1>0, <1>9 DEF GetParent, GiveUpParent, Goto, At, Making, Made
<1>10. CASE ScaleUp(p) \/ Forget(p)
  BY <1>0, <1>10 DEF ScaleUp, Forget, Goto, At, Making, Made
<1> QED
  BY <1>1, <1>2, <1>3, <1>4, <1>5, <1>6, <1>7, <1>8, <1>9, <1>10 DEF Step

\* Scaling down leaves the pod as it is.
LEMMA ScaledPod ==
  ASSUME NEW w, IsWorkload(w)
  PROVE  LET m == Merge(w, w, ScaledDown(w)) IN m.pod = w.pod /\ m.replicas = 0 /\ m # Absent
<1> DEFINE m == Merge(w, w, ScaledDown(w))
<1>1. m.pod = w.pod
  BY DEF Merge, ScaledDown, IsWorkload
<1>2. IsWorkload(m) /\ m.replicas = 0
  BY ScaledDownMerge
<1> QED
  BY <1>1, <1>2, WorkloadThere

\* A dev pod that is patched as it was read becomes what was built.
LEMMA PatchedDev ==
  ASSUME NEW p \in Procs, IsWorkload(frame[p].deployment), IsWorkload(frame[p].target)
  PROVE  LET d == frame[p].deployment
             m == Merge(d, d, Updated(p))
         IN  /\ Updated(p).replicas = 1 /\ Updated(p).pod = Built(p).pod
             /\ m.replicas = 1 /\ m.pod = Built(p).pod /\ m # Absent
<1> DEFINE d == frame[p].deployment
           u == Updated(p)
           m == Merge(d, d, u)
<1>1. u.replicas = 1 /\ u.pod = Built(p).pod
  BY DEF Updated, IsWorkload
<1>2. IsWorkload(m)
  BY UpdatedMerge
<1> HIDE DEF u
<1>3. m.replicas = u.replicas /\ m.pod = u.pod
  BY DEF Merge, IsWorkload
<1> QED
  BY <1>1, <1>2, <1>3, WorkloadThere DEF u

\* What a step of making starts from.
LEMMA MadeFacts ==
  ASSUME Typed, Sequential, MadeInv, ~overlapped, NEW p \in Procs, pc[p] \in Making
  PROVE  /\ Makes(p) /\ pc[p] # "none" /\ frame[p].entry.deployment = 1
         /\ IsWorkload(apps[0]) /\ apps[0] # Absent
         /\ Hand(pc[p], frame[p], command[p])
         /\ pc[p] \notin Made => frame[p].target # Absent /\ IsWorkload(frame[p].target)
<1>1. Makes(p) /\ pc[p] # "none" /\ pc[p] \in Steps \ {"find"}
  BY DEF MadeInv, Making, Made, Steps
<1>2. Hand(pc[p], frame[p], command[p]) /\ frame[p].entry.deployment = 1 /\ Known(apps[0]) /\ apps[0] # Absent
  BY <1>1, SequentialFacts, Kept DEF StepFollows, Makes
<1>3. pc[p] \notin Made => frame[p].target # Absent /\ IsWorkload(frame[p].target)
  BY <1>2 DEF Hand, Known, Making
<1> QED
  BY <1>1, <1>2, <1>3 DEF Known

LEMMA MadeGetTarget ==
  ASSUME Typed, Sequential, MadeInv, ~overlapped, NEW p \in Procs, GetTarget(p), pc'[p] \in Making PROVE Makes(p)'
<1> DEFINE found == apps[frame[p].deployment.of]
           ok == BuildPod(found.pod, conf).ok
           at == IF found = Absent THEN "deleteOld" ELSE IF ok THEN "scaleTarget" ELSE "ready"
           f == [frame[p] EXCEPT !.target = found]
<1>1. /\ pc[p] = "getTarget" /\ At(p, at, f) /\ apps' = apps /\ conf' = conf
  BY DEF GetTarget, Reads, cluster
<1>2. Hand("getTarget", frame[p], command[p])
  BY <1>1, Kept
<1>3. frame[p].entry.deployment = 1
  BY <1>1, SequentialFacts DEF StepFollows, Steps
<1>4. found = apps[0] /\ f.target = found
  BY <1>2, <1>3 DEF Hand, Placed
<1> HIDE DEF f, found
<1>5. pc'[p] = at /\ (at \in Steps => frame'[p] = f)
  BY <1>1, Arrives DEF Places, Steps, Rest
<1>6. pc'[p] = "scaleTarget" /\ found # Absent /\ ok /\ frame'[p] = f
  BY <1>5 DEF Making, Made, Steps
<1>7. Built(p)' = BuildPod(found.pod, conf)
  BY <1>1, <1>4, <1>6 DEF Built
<1> HIDE DEF at
<1> QED
  BY <1>1, <1>4, <1>6, <1>7 DEF Makes, Made

\* The application is scaled down as it was read, or a fault is spent.
LEMMA MadeScales ==
  ASSUME Typed, Sequential, MadeInv, ~overlapped, NEW p \in Procs, pc'[p] \in Making,
         ScaleTarget(p) \/ ScaleDown(p) \/ (ApiError(p) /\ pc[p] = "scaleTarget")
  PROVE  Makes(p)'
<1> DEFINE m == Merge(apps[0], apps[0], ScaledDown(apps[0]))
<1>1. pc[p] \in {"scaleTarget", "scaleDown"}
  BY DEF ScaleTarget, ScaleDown
<1>2. /\ Makes(p) /\ frame[p].entry.deployment = 1 /\ IsWorkload(apps[0]) /\ apps[0] # Absent
      /\ Hand(pc[p], frame[p], command[p])
  BY <1>1, MadeFacts DEF Making
<1>3. /\ pc[p] \in {"scaleTarget", "scaleDown"} => frame[p].target = apps[0]
      /\ pc[p] = "scaleTarget" => frame[p].deployment = apps[1]
  BY <1>1, SequentialFacts, Constants DEF StepFollows, Scaling, Making, Steps, Made
<1>4. PICK at \in {"patch", "create", "ready"} :
         At(p, at, frame[p]) /\ (at = "patch" => pc[p] = "scaleTarget")
  BY DEF ScaleTarget, ScaleDown, ApiError, Goto
<1>5. pc'[p] = at /\ frame'[p] = frame[p] /\ at \in {"patch", "create"}
  BY <1>4, Arrives DEF Places, Steps, Rest, Making, Made
<1>6. CASE ApiError(p) /\ pc[p] = "scaleTarget"
  <2>1. apps' = apps /\ conf' = conf /\ Spend("faults")
    BY <1>6 DEF ApiError, cluster
  <2>2. budget'.faults < Budget(conf).faults
    BY <2>1, FaultSpent DEF MadeInv
  <2>3. Built(p)' = Built(p)
    BY <1>5, <2>1 DEF Built
  <2> QED
    BY <1>1, <1>2, <1>3, <1>5, <1>6, <2>1, <2>2, <2>3 DEF Makes, Made, Making
<1>7. CASE ScaleTarget(p) \/ ScaleDown(p)
  <2>1. conf' = conf
    BY <1>7 DEF ScaleTarget, ScaleDown
  <2>2. ScaleDownTarget(p, 0)
    BY <1>2, <1>3, <1>7 DEF ScaleTarget, ScaleDown, Hand, Placed
  <2>3. apps' = [apps EXCEPT ![0] = m]
    BY <1>1, <1>2, <1>3, <2>2 DEF ScaleDownTarget, SetApp
  <2>4. apps'[0] = m /\ apps'[1] = apps[1]
    BY <2>3, Kept, Constants
  <2>5. m.pod = apps[0].pod /\ m.replicas = 0 /\ m # Absent
    BY <1>2, ScaledPod
  <2> HIDE DEF m
  <2>6. Built(p)' = Built(p)
    BY <1>5, <2>1 DEF Built
  <2>7. apps'[0] # Absent /\ frame'[p].target.pod = apps'[0].pod /\ Built(p)'.ok /\ apps'[0].replicas = 0
    BY <1>1, <1>2, <1>5, <2>4, <2>5, <2>6 DEF Makes, Making
  <2>8. pc'[p] = "patch" => frame'[p].deployment = apps'[1]
    BY <1>3, <1>4, <1>5, <2>4
  <2>9. pc'[p] \notin Made
    BY <1>5 DEF Made
  <2> QED
    BY <2>7, <2>8, <2>9 DEF Makes
<1> QED
  BY <1>6, <1>7

\* A step that leaves application and bounds alone and what is in hand.
LEMMA MadeGoesOn ==
  ASSUME Typed, Sequential, MadeInv, ~overlapped, NEW p \in Procs, pc[p] \in Making, pc'[p] \in Making,
         conf' = conf, budget' = budget, apps'[0] = apps[0], frame'[p] = frame[p],
         pc'[p] \in Made \cup {"patch", "create"} => pc[p] \in Made \cup {"patch", "create"},
         pc'[p] \in Made => apps'[1] # Absent /\ apps'[1].replicas = 1 /\ apps'[1].pod = Built(p).pod,
         pc'[p] # "patch"
  PROVE  Makes(p)'
<1>1. Built(p)' = Built(p)
  BY DEF Built
<1>2. Makes(p)
  BY MadeFacts
<1> QED
  BY <1>1, <1>2 DEF Makes

LEMMA MadePatch ==
  ASSUME Typed, Sequential, MadeInv, ~overlapped, NEW p \in Procs, PatchDeployment(p), pc'[p] \in Making
  PROVE  Makes(p)'
<1> DEFINE d == frame[p].deployment
           m == Merge(d, d, Updated(p))
<1>1. pc[p] = "patch" /\ conf' = conf /\ budget' = budget
  BY DEF PatchDeployment, ghosts
<1>2. pc[p] \in Making \ Made
  BY <1>1 DEF Making, Made
<1>3. /\ Makes(p) /\ frame[p].entry.deployment = 1 /\ IsWorkload(frame[p].target) /\ Hand("patch", frame[p], command[p])
  BY <1>1, <1>2, MadeFacts
<1>4. d = apps[1] /\ d # Absent /\ IsWorkload(d)
  BY <1>1, <1>3 DEF Makes, Hand, Known
<1>5. /\ Updated(p).replicas = 1 /\ Updated(p).pod = Built(p).pod
      /\ m.replicas = 1 /\ m.pod = Built(p).pod /\ m # Absent
  BY <1>3, <1>4, PatchedDev
<1>6. PICK at \in {"save", "ready", "claimPatched"} : At(p, at, frame[p])
  BY DEF PatchDeployment, Goto
<1>7. pc'[p] = at /\ at \in Made /\ frame'[p] = frame[p]
  BY <1>6, Arrives DEF Places, Steps, Rest, Making, Made
<1>8. ~Goto(p, "ready")
  BY <1>7, Arrives DEF Goto, Places, Rest, Made
<1>9. CASE Updated(p) = d /\ UNCHANGED cluster
  <2>1. apps' = apps
    BY <1>9 DEF cluster
  <2> QED
    BY <1>1, <1>2, <1>4, <1>5, <1>7, <1>9, <2>1, MadeGoesOn DEF Made
<1>10. CASE SetApp(1, Merge(apps[1], d, Updated(p)))
  <2>1. apps' = [apps EXCEPT ![1] = m]
    BY <1>4, <1>10 DEF SetApp
  <2> HIDE DEF m
  <2>2. apps'[1] = m /\ apps'[0] = apps[0]
    BY <2>1, Kept, Constants
  <2> QED
    BY <1>1, <1>2, <1>5, <1>7, <2>2, MadeGoesOn DEF Made
<1> QED
  BY <1>3, <1>8, <1>9, <1>10 DEF PatchDeployment

LEMMA MadeClaimPatched ==
  ASSUME Typed, Sequential, MadeInv, ~overlapped, NEW p \in Procs, ClaimPatched(p) PROVE Makes(p)'
<1>1. pc[p] = "claimPatched" /\ conf' = conf /\ budget' = budget /\ apps' = apps /\ At(p, "save", frame[p])
  BY DEF ClaimPatched, ghosts, Goto
<1>2. pc'[p] = "save" /\ frame'[p] = frame[p]
  BY <1>1, Arrives DEF Places, Steps
<1>3. pc[p] \in Making /\ pc'[p] \in Making
  BY <1>1, <1>2 DEF Making, Made
<1>4. Makes(p)
  BY <1>3, MadeFacts
<1> QED
  BY <1>1, <1>2, <1>3, <1>4, MadeGoesOn DEF Makes, Made

LEMMA MadeSaveTarget ==
  ASSUME Typed, Sequential, MadeInv, ~overlapped, NEW p \in Procs, SaveTarget(p), pc'[p] \in Making PROVE Makes(p)'
<1>1. /\ pc[p] = "saveTarget" /\ conf' = conf /\ apps' = apps
      /\ At(p, IF Built(p).ok THEN "scaleDown" ELSE "ready", frame[p])
  BY DEF SaveTarget, cluster, Goto
<1>2. frame[p].target = apps[0] /\ Hand("saveTarget", frame[p], command[p])
  BY <1>1, SequentialFacts, Kept DEF StepFollows, Scaling
<1>3. pc'[p] = (IF Built(p).ok THEN "scaleDown" ELSE "ready") /\ (Built(p).ok => frame'[p] = frame[p])
  BY <1>1, Arrives DEF Places, Steps, Rest
<1>4. Built(p).ok /\ pc'[p] = "scaleDown"
  BY <1>3 DEF Making, Made
<1>5. Built(p)' = Built(p)
  BY <1>1, <1>3, <1>4 DEF Built
<1> QED
  BY <1>1, <1>2, <1>3, <1>4, <1>5 DEF Makes, Made, Hand

LEMMA MadeCreate ==
  ASSUME Typed, Sequential, MadeInv, ~overlapped, NEW p \in Procs, Create(p), pc'[p] \in Making PROVE Makes(p)'
<1> DEFINE pod == Built(p).pod
           w == Dev(frame[p].target, pod, 1)
<1>1. pc[p] = "create" /\ conf' = conf /\ budget' = budget
  BY DEF Create
<1>2. pc[p] \in Making \ Made
  BY <1>1 DEF Making, Made
<1>3. /\ Makes(p) /\ frame[p].entry.deployment = 1 /\ IsWorkload(frame[p].target)
  BY <1>2, MadeFacts
<1>4. apps[1] = Absent
  BY <1>1, SequentialFacts DEF StepFollows
<1>5. SetApp(1, w) /\ At(p, "claimCreated", frame[p])
  BY <1>3, <1>4 DEF Create, Goto, Dev
<1>6. pc'[p] = "claimCreated" /\ frame'[p] = frame[p]
  BY <1>5, Arrives DEF Places, Steps
<1> HIDE DEF pod
<1>7. w.replicas = 1 /\ w.pod = pod /\ w # Absent
  <2>1. w.replicas = 1 /\ w.pod = pod
    BY DEF Dev
  <2>2. IsWorkload(w)
    BY <1>3, Constants DEF Dev, IsWorkload
  <2> QED
    BY <2>1, <2>2, WorkloadThere
<1> HIDE DEF w
<1>8. apps'[1] = w /\ apps'[0] = apps[0]
  BY <1>5, Kept, Constants DEF SetApp
<1> QED
  BY <1>1, <1>2, <1>6, <1>7, <1>8, MadeGoesOn DEF Made, pod

LEMMA MadeNext == ASSUME Typed, Sequential, MadeInv, [Next]_vars PROVE MadeInv'
<1>0. budget'.faults <= Budget(conf').faults
  BY FaultsKept DEF MadeInv
<1>1. ASSUME NEW p \in Procs, Step(p) PROVE MadeInv'
  <2>1. CASE overlapped'
    BY <1>0, <2>1 DEF MadeInv
  <2>2. CASE Load(p) /\ ~overlapped'
    <3>1. (\A q \in Procs : pc[q] = "none") /\ At(p, "ready", frame[p])
      BY <2>2 DEF Load, Goto
    <3>2. pc'[p] = "ready" /\ \A q \in Procs \ {p} : pc'[q] = "none"
      BY <3>1, AtFacts DEF Places, Rest
    <3>3. Makes(p)'
      BY <3>2 DEF Makes, Making, Made
    <3> QED
      BY <1>0, <3>2, <3>3 DEF MadeInv
  <2>3. CASE ~Load(p) /\ ~overlapped
    <3>1. pc[p] # "none"
      BY <1>1, <2>3 DEF Step, End, Crash, ApiError, AtRest, Replace, GetDeployment, GetTarget, DeleteOld, ScaleTarget,
         PatchDeployment, ClaimPatched, SaveReplaced, Find, SaveTarget, ScaleDown, Create, ClaimCreated, Revert,
         DeleteReplaced, GetParent, ScaleUp, Forget, SaveElse
    <3>4. CASE SaveElse(p)
      <4>1. UNCHANGED <<conf, apps, pc, frame, budget>>
        BY <3>4 DEF SaveElse, cluster, ghosts
      <4>2. Makes(p)'
        BY <2>3, <3>1, <4>1 DEF MadeInv, Makes, Built
      <4> QED
        BY <1>1, <2>3, <3>1, <4>2, MadeStep
    <3>2. CASE pc'[p] \notin Making
      <4>1. Makes(p)'
        BY <3>2 DEF Makes, Making
      <4> QED
        BY <1>1, <2>3, <3>1, <4>1, MadeStep
    <3>3. CASE pc'[p] \in Making /\ ~SaveElse(p)
      BY <1>1, <2>3, <3>1, <3>3, WhoMakes, MadeGetTarget, MadeScales, MadePatch, MadeClaimPatched, MadeSaveTarget,
         MadeCreate, MadeStep
    <3> QED
      BY <3>2, <3>3, <3>4
  <2> QED
    BY <1>1, <2>1, <2>2, <2>3, OverlapKept
<1>2. CASE Deploy \/ Install \/ Uninstall
  <2>1. pc' = pc /\ \A p \in Procs : pc[p] \in Rest
    BY <1>2, RestFacts DEF Deploy, Install, Uninstall
  <2> QED
    BY <1>0, <2>1 DEF MadeInv, Makes, Rest, Making, Made
<1>3. CASE (\E l \in Levels : CollectClaim(l)) \/ Finished \/ UNCHANGED vars
  <2>1. UNCHANGED <<conf, apps, pc, frame, budget, overlapped>>
    BY <1>3 DEF CollectClaim, Finished, vars, cluster, ghosts
  <2> QED
    BY <2>1 DEF MadeInv, Makes, Built
<1> QED
  BY <1>1, <1>2, <1>3 DEF Next

\* A command that succeeds to start the dev pod.
UpToDateStep(p) ==
    pc[p] # "replaced" /\ pc'[p] = "replaced" /\ ~overlapped =>
        LET dev == apps[frame[p].entry.deployment]
        IN  /\ dev # Absent /\ dev.replicas = 1
            /\ Ok(dev.pod) = BuildPod(apps[0].pod, conf)
            /\ apps[0].replicas = 0 \/ budget.faults < Budget(conf).faults

\* Only a command that has made the dev pod succeeds.
LEMMA WhoSucceeds ==
  ASSUME Typed, [Next]_vars, NEW p \in Procs, pc[p] # "replaced", pc'[p] = "replaced"
  PROVE  pc[p] \in Made
<1>0. pc \in [Procs -> Places]
  BY Kept
<1>1. ASSUME NEW q \in Procs, Step(q), q # p PROVE FALSE
  BY <1>1, OneProcess
<1>2. ASSUME Step(p), pc[p] \notin Made PROVE FALSE
  <2>1. CASE Load(p) \/ End(p) \/ Crash(p)
    BY <1>0, <2>1 DEF Load, End, Crash, Ended, Goto, At
  <2>2. CASE ApiError(p)
    <3>1. At(p, "ready", frame[p]) \/ At(p, "patch", frame[p])
      BY <2>2 DEF ApiError, GiveUpParent, Fails, Goto
    <3> QED
      BY <1>0, <3>1 DEF At
  <2>3. CASE Replace(p)
    BY <1>0, <2>3 DEF Replace, ReplacePod, At
  <2>4. CASE GetDeployment(p) \/ GetTarget(p)
    BY <1>0, <2>4 DEF GetDeployment, GetTarget, At
  <2>5. CASE DeleteOld(p) \/ ScaleTarget(p)
    BY <1>0, <2>5 DEF DeleteOld, ScaleTarget, Goto, At
  <2>6. CASE PatchDeployment(p)
    BY <1>0, <2>6 DEF PatchDeployment, Goto, At
  <2>7. CASE ClaimPatched(p) \/ SaveReplaced(p) \/ ClaimCreated(p)
    BY <1>2, <2>7 DEF ClaimPatched, SaveReplaced, ClaimCreated, Made
  <2>8. CASE Find(p)
    BY <1>0, <2>8 DEF Find, Fails, Goto, At
  <2>9. CASE SaveTarget(p) \/ ScaleDown(p)
    BY <1>0, <2>9 DEF SaveTarget, ScaleDown, Goto, At
  <2>10. CASE Create(p)
    BY <1>0, <2>10 DEF Create, ReplacePod, Goto, At
  <2>11. CASE Revert(p) \/ DeleteReplaced(p)
    BY <1>0, <2>11 DEF Revert, DeleteReplaced, Goto, At
  <2>12. CASE GetParent(p)
    BY <1>0, <2>12 DEF GetParent, GiveUpParent, Goto, At
  <2>13. CASE ScaleUp(p) \/ Forget(p)
    BY <1>0, <2>13 DEF ScaleUp, Forget, Goto, At
  <2>14. CASE SaveElse(p)
    BY <2>14 DEF SaveElse
  <2> QED
    BY <1>2, <2>1, <2>2, <2>3, <2>4, <2>5, <2>6, <2>7, <2>8, <2>9, <2>10, <2>11, <2>12, <2>13, <2>14 DEF Step
<1>3. ASSUME pc' = pc PROVE FALSE
  BY <1>3
<1> QED
  BY <1>1, <1>2, <1>3 DEF Next, Deploy, Install, Uninstall, CollectClaim, Finished, vars

LEMMA UpToDateSteps ==
  ASSUME Typed, Sequential, MadeInv, [Next]_vars, NEW p \in Procs PROVE UpToDateStep(p)
<1> SUFFICES ASSUME pc[p] # "replaced", pc'[p] = "replaced", ~overlapped
             PROVE  LET dev == apps[frame[p].entry.deployment]
                    IN  /\ dev # Absent /\ dev.replicas = 1
                        /\ Ok(dev.pod) = BuildPod(apps[0].pod, conf)
                        /\ apps[0].replicas = 0 \/ budget.faults < Budget(conf).faults
  BY DEF UpToDateStep
<1>1. pc[p] \in Made /\ pc[p] \in Making
  BY WhoSucceeds DEF Making
<1>2. Makes(p) /\ frame[p].entry.deployment = 1
  BY <1>1, MadeFacts
<1>3. Built(p) = BuildPod(apps[0].pod, conf) /\ Built(p).ok
  BY <1>1, <1>2 DEF Makes, Built
<1>4. Ok(Built(p).pod) = Built(p)
  BY <1>3, BuiltOk
<1> QED
  BY <1>1, <1>2, <1>3, <1>4 DEF Makes

\* A command that succeeds to start the dev pod, by making it or by patching it, leaves it built
\* from the application as it is now, and the application scaled down unless a call has failed
\* (updateNeeded, replace).
THEOREM UpToDateTheorem == Spec => UpToDate
<1>1. Init => MadeInv
  <2> SUFFICES ASSUME Init PROVE MadeInv
    OBVIOUS
  <2>1. Budget(conf).faults \in Nat /\ budget = Budget(conf) /\ \A p \in Procs : pc[p] = "none"
    BY DEF Init, Budgets
  <2> QED
    BY <2>1 DEF MadeInv
<1>2. IInv /\ MadeInv /\ [Next]_vars => (IInv /\ MadeInv)'
  BY NextInv, MadeNext DEF IInv
<1>3. IInv /\ MadeInv /\ [Next]_vars => [\A p \in Procs : UpToDateStep(p)]_vars
  BY UpToDateSteps DEF IInv
<1>4. UpToDate <=> [][\A p \in Procs : UpToDateStep(p)]_vars
  BY PTL DEF UpToDate, UpToDateStep
<1> QED
  BY InitInv, <1>1, <1>2, <1>3, <1>4, PTL DEF Spec

\* Commands that run one after the other never take a dev pod for the application and replace
\* it once more (findTarget* does not leave out dev pods).
THEOREM NoDevOfDevTheorem == Spec => []NoDevOfDev
<1>1. IInv => NoDevOfDev
  BY DEF IInv, Sequential, Flat, NoDevOfDev
<1> QED
  BY InitInv, NextInv, <1>1, PTL DEF Spec

-----------------------------------------------------------------------------
(* The dev pod in the cluster.                                             *)

\* Whether or not commands run at the same time, the application has the template it was
\* deployed with, of one version or the other; a command that replaces it has that in hand and
\* goes on only if it has been able to build from it; and the dev pod is what was built.
FromApp(d, pod)   == \E v \in 1 .. 2 : pod = AppTemplate(d.app, v)
BuiltFrom(d, pod) == \E v \in 1 .. 2 : LET built == BuildPod(AppTemplate(d.app, v), d) IN built.ok /\ pod = built.pod

Going     == {"scaleTarget", "patch", "scaleDown", "create"}
Handed(p) ==
    /\ pc[p] \in Going \cup {"saveTarget"} /\ frame[p].entry.deployment = 1 => FromApp(conf, frame[p].target.pod)
    /\ pc[p] \in Going => Built(p).ok
PodsInv ==
    /\ apps[0] # Absent => FromApp(conf, apps[0].pod)
    /\ apps[1] # Absent => BuiltFrom(conf, apps[1].pod)
    /\ \A p \in Procs : Handed(p)

\* Scaling leaves the pod of a workload as it is.
LEMMA ScalingPod ==
  ASSUME NEW c, NEW t, IsWorkload(c), IsWorkload(t)
  PROVE  Merge(c, t, ScaledDown(t)).pod = c.pod /\ Merge(c, t, Raised(t)).pod = c.pod
<1>1. ScaledDown(t).pod = t.pod BY DEF ScaledDown, IsWorkload
<1>2. Raised(t).pod = t.pod BY DEF Raised, IsWorkload
<1>3. \A w : w.pod = t.pod => Merge(c, t, w).pod = c.pod BY DEF Merge, IsWorkload
<1>4. QED BY <1>1, <1>2, <1>3

\* What a step of a process does to the workload of a level: nothing, it deletes it, scales it,
\* or makes it what the process has built.
LEMMA PodsOfStep ==
  ASSUME Typed, NEW p \in Procs, Step(p), NEW l \in Levels, apps'[l] # Absent
  PROVE  \/ apps[l] # Absent /\ apps'[l].pod = apps[l].pod
         \/ pc[p] \in {"patch", "create"} /\ frame[p].entry.deployment = l /\ l # 0 /\ apps'[l].pod = Built(p).pod
<1>0. DOMAIN apps = Levels /\ Known(apps[l]) BY Kept
<1>1. CASE apps'[l] = apps[l] BY <1>1
<1>2. CASE DeleteOld(p) \/ DeleteReplaced(p)
  BY <1>0, <1>2 DEF DeleteOld, DeleteReplaced, Deleted, SetApp
<1>3. CASE ScaleTarget(p) \/ ScaleDown(p)
  <2>1. PICK k : ScaleDownTarget(p, k) BY <1>3 DEF ScaleTarget, ScaleDown
  <2>2. pc[p] \in {"scaleTarget", "scaleDown"} BY <1>3 DEF ScaleTarget, ScaleDown
  <2>3. IsWorkload(frame[p].target) BY <2>2, Kept DEF Hand, Known
  <2>4. CASE apps[k] = Absent \/ k # l
    <3>1. apps'[l] = apps[l] BY <1>0, <2>1, <2>4 DEF ScaleDownTarget, SetApp
    <3>2. QED BY <3>1
  <2>5. CASE apps[k] # Absent /\ k = l
    <3>1. apps'[l] = Merge(apps[l], frame[p].target, ScaledDown(frame[p].target))
      BY <1>0, <2>1, <2>5 DEF ScaleDownTarget, SetApp
    <3>2. QED BY <1>0, <2>3, <2>5, <3>1, ScalingPod DEF Known
  <2>6. QED BY <2>4, <2>5
<1>4. CASE ScaleUp(p)
  <2> DEFINE k == frame[p].entry.deployment - 1
  <2>1. IsWorkload(frame[p].target) BY <1>4, Kept DEF ScaleUp, Hand, Known
  <2>2. CASE apps[k] = Absent \/ k # l
    <3>1. apps'[l] = apps[l] BY <1>0, <1>4, <2>2 DEF ScaleUp, SetApp
    <3>2. QED BY <3>1
  <2>3. CASE apps[k] # Absent /\ k = l
    <3>1. apps'[l] = Merge(apps[l], frame[p].target, Raised(frame[p].target))
      BY <1>0, <1>4, <2>3 DEF ScaleUp, SetApp, Raised
    <3>2. QED BY <1>0, <2>1, <2>3, <3>1, ScalingPod DEF Known
  <2>4. QED BY <2>2, <2>3
<1>5. CASE PatchDeployment(p)
  <2> DEFINE k == frame[p].entry.deployment
             m == Merge(apps[k], frame[p].deployment, Updated(p))
  <2>1. pc[p] = "patch" BY <1>5 DEF PatchDeployment
  <2>2. k # 0 /\ IsWorkload(frame[p].deployment) BY <2>1, Kept DEF Hand, Known, Steps
  <2>3. apps' = apps \/ (apps[k] # Absent /\ SetApp(k, m)) BY <1>5 DEF PatchDeployment, cluster
  <2>4. CASE apps' = apps BY <2>4
  <2>5. CASE apps[k] # Absent /\ SetApp(k, m)
    <3>1. CASE k # l
      <4>1. apps'[l] = apps[l] BY <1>0, <2>5, <3>1 DEF SetApp
      <4>2. QED BY <4>1
    <3>2. CASE k = l
      <4>1. apps'[l] = m BY <1>0, <2>5, <3>2 DEF SetApp
      <4>2. Updated(p).pod = Built(p).pod BY <2>2 DEF Updated, IsWorkload
      <4>3. IsWorkload(apps[k]) BY <1>0, <2>5, <3>2 DEF Known
      <4>4. m.pod \in {apps[k].pod, Updated(p).pod} BY <4>3 DEF Merge, IsWorkload
      <4> HIDE DEF m
      <4>5. QED BY <2>1, <2>2, <2>5, <3>2, <4>1, <4>2, <4>4
    <3>3. QED BY <3>1, <3>2
  <2>6. QED BY <2>3, <2>4, <2>5
<1>6. CASE Create(p)
  <2> DEFINE k == frame[p].entry.deployment
             w == Dev(frame[p].target, Built(p).pod, k)
  <2>1. pc[p] = "create" BY <1>6 DEF Create
  <2>2. k # 0 BY <2>1, Kept DEF Hand, Steps
  <2>3. apps' = apps \/ SetApp(k, w) BY <1>6 DEF Create, Dev
  <2>4. CASE apps' = apps BY <2>4
  <2>5. CASE SetApp(k, w)
    <3>1. CASE k # l
      <4>1. apps'[l] = apps[l] BY <1>0, <2>5, <3>1 DEF SetApp
      <4>2. QED BY <4>1
    <3>2. CASE k = l
      <4>1. apps'[l] = w BY <1>0, <2>5, <3>2 DEF SetApp
      <4>2. w.pod = Built(p).pod BY DEF Dev
      <4> HIDE DEF w
      <4>3. QED BY <2>1, <2>2, <3>2, <4>1, <4>2
    <3>3. QED BY <3>1, <3>2
  <2>6. QED BY <2>3, <2>4, <2>5
<1>7. CASE Load(p) \/ End(p) \/ Crash(p) \/ ApiError(p)
  <2>1. apps' = apps BY <1>7 DEF Load, End, Crash, Ended, ApiError, GiveUpParent, Fails, cluster
  <2>2. QED BY <2>1
<1>8. CASE Replace(p) \/ GetDeployment(p) \/ GetTarget(p) \/ ClaimPatched(p) \/ SaveReplaced(p) \/ ClaimCreated(p)
  <2>1. apps' = apps
    BY <1>8 DEF Replace, GetDeployment, GetTarget, Reads, ClaimPatched, SaveReplaced, ClaimCreated, cluster
  <2>2. QED BY <2>1
<1>9. CASE Find(p) \/ SaveTarget(p) \/ Revert(p) \/ GetParent(p) \/ Forget(p) \/ SaveElse(p)
  <2>1. apps' = apps BY <1>9 DEF Find, Fails, SaveTarget, Revert, GetParent, GiveUpParent, Forget, SaveElse, cluster
  <2>2. QED BY <2>1
<1>10. QED BY <1>2, <1>3, <1>4, <1>5, <1>6, <1>7, <1>8, <1>9 DEF Step

\* What a process has in hand when it goes on is what it has read, or has had in hand.
LEMMA HandedStep ==
  ASSUME Typed, NEW p \in Procs, Step(p), Handed(p), apps[0] # Absent => FromApp(conf, apps[0].pod)
  PROVE  Handed(p)'
<1>0. pc \in [Procs -> Places] /\ conf' = conf BY Kept, OneProcess
<1>7. CASE SaveElse(p) BY <1>0, <1>7 DEF SaveElse, Handed, Built
<1> SUFFICES ASSUME ~SaveElse(p), pc'[p] \in Going \cup {"saveTarget"} PROVE Handed(p)'
  BY <1>7 DEF Handed
<1>1. \/ GetTarget(p) \/ ScaleTarget(p) \/ SaveTarget(p) \/ ScaleDown(p) \/ Find(p)
      \/ ApiError(p) /\ pc[p] = "scaleTarget"
  <2>1. CASE pc'[p] \in Going
    <3>1. ~PatchDeployment(p) /\ ~ClaimPatched(p) /\ ~Create(p)
      BY <1>0, <2>1 DEF Going, PatchDeployment, ClaimPatched, Create, ReplacePod, Goto, At
    <3>2. QED BY <2>1, <3>1, WhoMakes DEF Going, Making
  <2>2. CASE pc'[p] = "saveTarget"
    <3>1. Scaling(p)' BY <2>2 DEF Scaling
    <3>2. ~GetParent(p) BY <1>0, <2>2 DEF GetParent, GiveUpParent, Goto, At
    <3>3. QED BY <3>1, <3>2, WhoScales
  <2>3. QED BY <2>1, <2>2
<1>2. CASE GetTarget(p)
  <2> DEFINE found == apps[frame[p].deployment.of]
             ok == BuildPod(found.pod, conf).ok
             at == IF found = Absent THEN "deleteOld" ELSE IF ok THEN "scaleTarget" ELSE "ready"
             f == [frame[p] EXCEPT !.target = found]
  <2>1. pc[p] = "getTarget" /\ At(p, at, f) BY <1>2 DEF GetTarget
  <2>2. Hand("getTarget", frame[p], command[p]) BY <2>1, Kept
  <2>3. f.target = found /\ f.entry = frame[p].entry BY <2>2 DEF Hand
  <2>4. frame[p].entry.deployment = 1 => found = apps[0] BY <2>2 DEF Hand, Placed
  <2> HIDE DEF f, found
  <2>5. pc'[p] = at /\ (at \in Steps => frame'[p] = f) BY <2>1, Arrives DEF Places, Steps, Rest
  <2>6. pc'[p] = "scaleTarget" /\ found # Absent /\ ok /\ frame'[p] = f BY <2>5 DEF Going, Steps
  <2>7. Built(p)' = BuildPod(found.pod, conf) BY <1>0, <2>3, <2>6 DEF Built
  <2> HIDE DEF at
  <2>8. QED BY <1>0, <2>3, <2>4, <2>6, <2>7 DEF Handed, Going
<1>3. CASE Find(p)
  <2>1. ~Fails(p) BY <1>0 DEF Fails, Goto, At, Going
  <2>2. PICK l \in Candidates : /\ l < MaxLevel
           /\ At(p, "saveTarget", [frame[p] EXCEPT !.entry.deployment = l + 1, !.target = apps[l]])
    BY <1>3, <2>1 DEF Find
  <2>3. l \in Levels /\ apps[l] # Absent /\ pc[p] = "find" BY <1>3 DEF Candidates, Find
  <2> DEFINE f == [frame[p] EXCEPT !.entry.deployment = l + 1, !.target = apps[l]]
  <2>4. f.target = apps[l] /\ f.entry.deployment = l + 1 BY <2>2, <2>3, FoundHand
  <2> HIDE DEF f
  <2>5. At(p, "saveTarget", f) BY <2>2 DEF f
  <2>6. pc'[p] = "saveTarget" /\ frame'[p] = f BY <2>5, Arrives DEF Places, Steps
  <2>7. l + 1 = 1 => l = 0 BY <2>3, Constants DEF Levels
  <2>8. QED BY <1>0, <2>3, <2>4, <2>6, <2>7 DEF Handed, Going
<1>4. CASE SaveTarget(p)
  <2>1. pc[p] = "saveTarget" /\ At(p, IF Built(p).ok THEN "scaleDown" ELSE "ready", frame[p])
    BY <1>4 DEF SaveTarget, Goto
  <2>2. pc'[p] = (IF Built(p).ok THEN "scaleDown" ELSE "ready") /\ (Built(p).ok => frame'[p] = frame[p])
    BY <2>1, Arrives DEF Places, Steps, Rest
  <2>3. Built(p).ok /\ pc'[p] = "scaleDown" /\ frame'[p] = frame[p] BY <2>2 DEF Going
  <2>4. Built(p)' = Built(p) BY <1>0, <2>3 DEF Built
  <2>5. QED BY <1>0, <2>1, <2>3, <2>4 DEF Handed, Going
<1>5. CASE ScaleTarget(p) \/ ScaleDown(p) \/ (ApiError(p) /\ pc[p] = "scaleTarget")
  <2>1. pc[p] \in {"scaleTarget", "scaleDown"} BY <1>5 DEF ScaleTarget, ScaleDown
  <2>2. PICK at \in {"patch", "create", "ready"} : At(p, at, frame[p])
    BY <1>5 DEF ScaleTarget, ScaleDown, ApiError, Goto
  <2>3. pc'[p] = at /\ frame'[p] = frame[p]
    BY <2>2, Arrives DEF Places, Steps, Rest, Going
  <2>4. Built(p)' = Built(p) BY <1>0, <2>3 DEF Built
  <2>5. QED BY <1>0, <2>1, <2>3, <2>4 DEF Handed, Going
<1>6. QED BY <1>1, <1>2, <1>3, <1>4, <1>5

LEMMA PodsNext == ASSUME Typed, PodsInv, [Next]_vars PROVE PodsInv'
<1>1. ASSUME NEW p \in Procs, Step(p) PROVE PodsInv'
  <2>1. conf' = conf /\ \A q \in Procs \ {p} : pc'[q] = pc[q] /\ frame'[q] = frame[q] BY <1>1, OneProcess
  <2>2. ASSUME NEW q \in Procs PROVE Handed(q)'
    <3>1. CASE q = p BY <1>1, <3>1, HandedStep DEF PodsInv
    <3>2. CASE q # p
      <4>1. pc'[q] = pc[q] /\ frame'[q] = frame[q] BY <2>1, <3>2
      <4>2. Handed(q) BY DEF PodsInv
      <4>3. QED BY <2>1, <4>1, <4>2 DEF Handed, Built
    <3>3. QED BY <3>1, <3>2
  <2>3. apps'[0] # Absent => FromApp(conf, apps'[0].pod)
    <3>1. SUFFICES ASSUME apps'[0] # Absent PROVE FromApp(conf, apps'[0].pod) OBVIOUS
    <3>2. apps[0] # Absent /\ apps'[0].pod = apps[0].pod BY <1>1, <3>1, PodsOfStep, Constants
    <3>3. QED BY <3>2 DEF PodsInv
  <2>4. apps'[1] # Absent => BuiltFrom(conf, apps'[1].pod)
    <3>1. SUFFICES ASSUME apps'[1] # Absent PROVE BuiltFrom(conf, apps'[1].pod) OBVIOUS
    <3>2. CASE apps[1] # Absent /\ apps'[1].pod = apps[1].pod BY <3>2 DEF PodsInv
    <3>3. CASE pc[p] \in {"patch", "create"} /\ frame[p].entry.deployment = 1 /\ apps'[1].pod = Built(p).pod
      <4>1. FromApp(conf, frame[p].target.pod) /\ Built(p).ok BY <3>3 DEF PodsInv, Handed, Going
      <4>2. QED BY <3>3, <4>1 DEF FromApp, BuiltFrom, Built
    <3>4. QED BY <1>1, <3>1, <3>2, <3>3, PodsOfStep, Constants
  <2>5. QED BY <2>1, <2>2, <2>3, <2>4 DEF PodsInv
<1>2. CASE Deploy \/ Install \/ Uninstall
  <2>1. /\ conf' = conf /\ pc' = pc /\ frame' = frame
        /\ \A l \in Levels \ {0} : apps'[l] = apps[l]
    BY <1>2, DeployFacts
  <2>2. apps'[1] = apps[1] BY <2>1, Constants
  <2>3. \A q \in Procs : Handed(q)' <=> Handed(q) BY <2>1 DEF Handed, Built
  <2>4. apps'[0] # Absent => FromApp(conf, apps'[0].pod)
    <3>1. DOMAIN apps = Levels /\ 0 \in Levels /\ Known(apps[0]) BY Kept, Constants
    <3>2. CASE Deploy
      <4>1. PICK n \in 1 .. MaxReplicas, v \in 1 .. 2 : SetApp(0, [apps[0] EXCEPT !.replicas = n, !.pod = AppPod(v)])
        BY <3>2 DEF Deploy
      <4>2. IsWorkload(apps[0]) BY <3>1, <3>2 DEF Deploy, Known
      <4>3. [apps[0] EXCEPT !.replicas = n, !.pod = AppPod(v)].pod = AppPod(v) BY <4>2 DEF IsWorkload
      <4>4. apps'[0].pod = AppPod(v) BY <3>1, <4>1, <4>3 DEF SetApp
      <4>5. QED BY <4>4 DEF FromApp, AppPod
    <3>3. CASE Install
      <4>1. PICK n \in 1 .. MaxReplicas, s \in 1 .. 2 : SetApp(0, App(n, 2, s)) BY <3>3 DEF Install
      <4>2. App(n, 2, s).pod = AppPod(2) BY DEF App
      <4>3. apps'[0].pod = AppPod(2) BY <3>1, <4>1, <4>2 DEF SetApp
      <4>4. QED BY <4>3 DEF FromApp, AppPod
    <3>4. CASE Uninstall BY <3>1, <3>4 DEF Uninstall, SetApp
    <3>5. QED BY <1>2, <3>2, <3>3, <3>4
  <2>5. QED BY <2>1, <2>2, <2>3, <2>4 DEF PodsInv
<1>3. CASE (\E l \in Levels : CollectClaim(l)) \/ Finished \/ UNCHANGED vars
  <2>1. UNCHANGED <<conf, apps, pc, frame>> BY <1>3 DEF CollectClaim, Finished, vars, cluster
  <2>2. QED BY <2>1 DEF PodsInv, Handed, Built
<1>4. QED BY <1>1, <1>2, <1>3 DEF Next

LEMMA InitPods == ASSUME Init PROVE PodsInv
<1>1. DOMAIN apps = Levels /\ apps[0] = App(MaxReplicas, 1, 1) /\ apps[1] = Absent BY Constants DEF Init
<1>2. apps[0].pod = AppPod(1) BY <1>1 DEF App
<1>3. \A p \in Procs : Handed(p) BY DEF Init, Handed, Going
<1>4. QED BY <1>1, <1>2, <1>3 DEF PodsInv, FromApp, AppPod

\* What BuiltAsAsked says of a state.
LEMMA PodsAsAsked ==
  ASSUME Typed, Sequential, PodsInv, Unambiguous(conf) PROVE BuiltAsAsked
<1>1. Clear(conf) BY DEF Typed, Clear
<1>2. NoDevOfDev BY DEF Sequential, Flat, NoDevOfDev
<1>3. TemplateAsAsked
  <2>1. SUFFICES ASSUME apps[1] # Absent PROVE MadeAsAsked(apps[1].pod.containers, conf)
    BY DEF TemplateAsAsked, MadeAsAsked
  <2>2. PICK v \in 1 .. 2 : LET built == BuildPod(AppTemplate(conf.app, v), conf) IN built.ok /\ apps[1].pod = built.pod
    BY <2>1 DEF PodsInv, BuiltFrom
  <2> DEFINE built == BuildPod(AppTemplate(conf.app, v), conf)
  <2>3. built.ok /\ apps[1].pod.containers = built.pod.containers BY <2>2
  <2>4. v \in Nat OBVIOUS
  <2>5. MadeAsAsked(built.pod.containers, conf) BY <1>1, <2>3, <2>4, BuildsAsked
  <2> HIDE DEF built
  <2>6. QED BY <2>3, <2>5
<1>4. UnreplacedAsAsked
  <2>1. SUFFICES ASSUME ~NeedPodReplace(conf), BuildPod(AppPod(1), conf).ok, NEW i \in DOMAIN conf.app
                 PROVE  [BuildPod(AppPod(1), conf).pod.containers[i] EXCEPT !.readOnlyRoot = TRUE] = conf.app[i]
    BY DEF UnreplacedAsAsked
  <2>2. QED BY <1>1, <2>1, BuildsAsked DEF AppPod
<1>5. QED BY <1>2, <1>3, <1>4 DEF BuiltAsAsked

\* The dev pod is one of the application and every dev container has all that is asked for in its
\* own container of it, no other being touched, whatever commands, failures and deployments there
\* are and even if commands run at the same time (buildDeployment, modifyDevContainer,
\* persistPaths); where nothing is to be replaced the application has it already (needPodReplace).
THEOREM BuiltAsAskedTheorem == (\A d \in Confs : Unambiguous(d)) => (Spec => []BuiltAsAsked)
<1> SUFFICES ASSUME \A d \in Confs : Unambiguous(d) PROVE Spec => []BuiltAsAsked
  OBVIOUS
<1>1. Init => PodsInv BY InitPods
<1>2. IInv /\ PodsInv /\ [Next]_vars => (IInv /\ PodsInv)' BY NextInv, PodsNext DEF IInv
<1>3. IInv /\ PodsInv => BuiltAsAsked
  <2> SUFFICES ASSUME IInv, PodsInv PROVE BuiltAsAsked
    OBVIOUS
  <2>1. Unambiguous(conf) BY DEF IInv, Typed
  <2>2. QED BY <2>1, PodsAsAsked DEF IInv
<1>4. QED BY InitInv, <1>1, <1>2, <1>3, PTL DEF Spec
=============================================================================
