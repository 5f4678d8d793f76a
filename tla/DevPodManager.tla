--------------------------- MODULE DevPodManager ---------------------------
(***************************************************************************)
(* The manager of the dev pods of a pipeline: start_dev starts several of  *)
(* them, stop_dev stops one and reverts its replaced pod, Wait waits for   *)
(* all of them and Close cancels and waits. The commands come from jobs    *)
(* that run side by side: the main job of the pipeline, which the process  *)
(* waits for, and background pipelines, which it does not.                 *)
(*                                                                         *)
(* A dev pod is only known by what DevPodLife promises of it: after a      *)
(* retry of its restart loop its done may be closed while another attempt  *)
(* still runs, and the manager does not see that.                          *)
(***************************************************************************)
EXTENDS Naturals, Sequences

CONSTANTS
    Names,      \* the dev pods of the configuration
    Jobs,       \* the jobs of the pipeline
    Main,       \* its main job
    Scripts     \* what the jobs may run: functions from Jobs to sequences of commands

NoJob == "none"

\* start_dev or stop_dev, for one dev pod or several.
Command == [op : {"start", "stop"}, names : (SUBSET Names) \ {{}}]

ASSUME ManagerAssumption ==
    /\ Main \in Jobs /\ NoJob \notin Jobs
    /\ Scripts \subseteq [Jobs -> Seq(Command)]

VARIABLES
    script,     \* the commands each job still has to run; the first one is in progress
    job,        \* where the command of each job is
    starter,    \* the goroutines of StartMultiple, by job and dev pod
    devPods,    \* devPodManager.devPods: the dev pod of each name
    life,       \* the dev pods so far, in the order of their creation
    owner,      \* history: the name, the job and the call that created each of them
    lock,       \* the lock of each name: the job that holds it
    group,      \* the context of the latest StartMultiple of each job is cancelled
    devCtx,     \* the dev context is done
    closer,     \* where the process is: after the main job it waits and closes
    snapshot    \* the dev pods Wait waits for

managerVars == <<script, job, starter, devPods, life, owner, lock, group, devCtx, closer, snapshot>>

\* One dev pod, and its steps.
DP == INSTANCE DevPodLife WITH life <- life[1]

Ids == 1 .. Len(life)

IdleJob == [pc |-> "next", failed |-> "no", current |-> "none", pending |-> {}, errors |-> {},
            got |-> 0, unheard |-> FALSE, calls |-> 0]

\* Where the command of a job is, and what it knows of the dev pods it starts.
JobState ==
    [pc       : {"next", "register", "select", "blocked", "drain", "stop", "stopping", "revert", "end"},
     failed   : {"no", "start", "stop"}, \* the command that failed
     current  : Names \cup {"none"},    \* the dev pod it is at
     pending  : SUBSET Names,           \* the starts whose end it has still to hear of
     errors   : SUBSET Names,           \* the buffer of the channel of errors
     got      : Nat,                    \* errors received
     unheard  : BOOLEAN,                \* history: a start was counted as ended with an error there
     calls    : Nat]                    \* history: calls of StartMultiple

\* Type invariant: the jobs, the commands they run and the dev pods they share.
ManagerTypeOK ==
    /\ script \in [Jobs -> Seq(Command)] /\ job \in [Jobs -> JobState]
    /\ starter \in [Jobs -> [Names -> {"none", "lock", "starting", "report", "close", "closed"}]]
    /\ life \in Seq(DP!Lives) /\ Len(owner) = Len(life)
    /\ owner \in Seq([name : Names, job : Jobs, call : Nat])
    /\ devPods \in [Names -> 0 .. Len(life)]
    /\ lock \in [Names -> Jobs \cup {NoJob}]
    /\ group \in [Jobs -> BOOLEAN] /\ devCtx \in BOOLEAN /\ snapshot \subseteq Ids
    /\ closer \in {"running", "waiting", "closing", "draining", "closed"}

ManagerInit ==
    /\ script \in Scripts
    /\ job = [j \in Jobs |-> IdleJob]
    /\ starter = [j \in Jobs |-> [n \in Names |-> "none"]]
    /\ devPods = [n \in Names |-> 0]
    /\ life = <<>> /\ owner = <<>>
    /\ lock = [n \in Names |-> NoJob]
    /\ group = [j \in Jobs |-> FALSE]
    /\ devCtx = FALSE /\ closer = "running" /\ snapshot = {}

\* The dev pods whose context derives from the group of a job's latest StartMultiple.
Members(j) == {o \in Ids : owner[o].job = j /\ owner[o].call = job[j].calls}

\* The dev pods o of a set are cancelled.
CancelAll(os) == [o \in Ids |-> IF o \in os THEN [life[o] EXCEPT !.cancelled = TRUE] ELSE life[o]]

GroupDone(j) == group[j] \/ devCtx

\* Mutant: the context does not derive from the dev context.
CreateDetached(j, n) ==
    LET new == [DP!NewLife EXCEPT !.start = "starting", !.runs = "yes", !.cancelled = group[j]] IN
    /\ life' = Append(life, new)
    /\ owner' = Append(owner, [name |-> n, job |-> j, call |-> job[j].calls])
    /\ devPods' = [devPods EXCEPT ![n] = Len(life) + 1]

\* A new dev pod is created and started; its context may be done already.
Create(j, n) ==
    LET new == [DP!NewLife EXCEPT !.start = "starting", !.runs = "yes", !.cancelled = GroupDone(j)] IN
    /\ life' = Append(life, new)
    /\ owner' = Append(owner, [name |-> n, job |-> j, call |-> job[j].calls])
    /\ devPods' = [devPods EXCEPT ![n] = Len(life) + 1]

\* A job goes on with its next command; with failed it ends.
NextCommand(j, failed) ==
    /\ job' = [job EXCEPT ![j] = [IdleJob EXCEPT !.calls = job[j].calls, !.failed = failed,
                                    !.pc = IF failed = "no" THEN "next" ELSE "end"]]
    /\ script' = [script EXCEPT ![j] = IF failed = "no" THEN Tail(@) ELSE <<>>]

\* A command is started while the context of its job is not done; the other jobs
\* are cancelled when the main job has ended.
AtCommand(j, op) ==
    /\ job[j].pc = "next" /\ script[j] # <<>> /\ Head(script[j]).op = op
    /\ j = Main \/ job[Main].pc # "end"

\* A job ends after its last command, or it was killed or cancelled.
EndJob(j) ==
    /\ job[j].pc = "next"
    /\ script[j] = <<>> \/ j = Main \/ job[Main].pc = "end"
    /\ job' = [job EXCEPT ![j].pc = "end"]
    /\ script' = [script EXCEPT ![j] = <<>>]
    /\ UNCHANGED <<starter, devPods, life, owner, lock, group, devCtx, closer, snapshot>>

-----------------------------------------------------------------------------
(* start_dev: StartMultiple.                                               *)

\* It refuses to start anything on a dev context that is done.
StartMultiple(j) ==
    /\ AtCommand(j, "start")
    /\ IF devCtx THEN NextCommand(j, "start")
       ELSE job' = [job EXCEPT ![j].pc = "register"] /\ UNCHANGED script
    /\ UNCHANGED <<starter, devPods, life, owner, lock, group, devCtx, closer, snapshot>>

\* Its context is registered, a goroutine is started for every dev pod.
Register(j) ==
    LET names == Head(script[j]).names IN
    /\ job[j].pc = "register"
    /\ job' = [job EXCEPT ![j] = [IdleJob EXCEPT !.pc = "select", !.pending = names, !.calls = job[j].calls + 1]]
    /\ starter' = [starter EXCEPT ![j] = [n \in Names |-> IF n \in names THEN "lock" ELSE "none"]]
    /\ group' = [group EXCEPT ![j] = FALSE]
    /\ UNCHANGED <<script, devPods, life, owner, lock, devCtx, closer, snapshot>>

\* Start takes the lock of the name; a dev pod that is not done is left alone.
StartLocked(j, n) ==
    /\ starter[j][n] = "lock" /\ lock[n] = NoJob
    /\ IF devPods[n] # 0 /\ ~life[devPods[n]].done
       THEN /\ starter' = [starter EXCEPT ![j][n] = "report"]
            /\ UNCHANGED <<devPods, life, owner, lock>>
       ELSE /\ Create(j, n)
            /\ lock' = [lock EXCEPT ![n] = j]
            /\ starter' = [starter EXCEPT ![j][n] = "starting"]
    /\ UNCHANGED <<script, job, group, devCtx, closer, snapshot>>

\* Start returns and gives the lock back.
StartReturned(j, n) ==
    LET start == life[devPods[n]].start IN
    /\ starter[j][n] = "starting" /\ start \in {"started", "failed"}
    /\ lock' = [lock EXCEPT ![n] = NoJob]
    /\ starter' = [starter EXCEPT ![j][n] = IF start = "failed" THEN "report" ELSE "close"]
    /\ UNCHANGED <<script, job, devPods, life, owner, group, devCtx, closer, snapshot>>

\* The command cancels its context on an error.
CancelGroup(j) ==
    /\ group' = [group EXCEPT ![j] = TRUE]
    /\ life' = CancelAll(Members(j))

\* Mutant: the error is dropped unless the command waits for it.
ReportOrDrop(j, n) ==
    /\ starter[j][n] = "report"
    /\ starter' = [starter EXCEPT ![j][n] = "close"]
    /\ IF job[j].pc = "blocked"
       THEN CancelGroup(j) /\ job' = [job EXCEPT ![j].pc = "drain", ![j].got = @ + 1]
       ELSE UNCHANGED <<group, life, job>>
    /\ UNCHANGED <<script, devPods, owner, lock, devCtx, closer, snapshot>>

\* An error is sent: to the command if it waits, else into the buffer of the channel.
Report(j, n) ==
    /\ starter[j][n] = "report"
    /\ starter' = [starter EXCEPT ![j][n] = "close"]
    /\ IF job[j].pc = "blocked"
       THEN /\ CancelGroup(j)
            /\ job' = [job EXCEPT ![j].pc = "drain", ![j].got = @ + 1]
       ELSE /\ job' = [job EXCEPT ![j].errors = @ \cup {n}]
            /\ UNCHANGED <<group, life>>
    /\ UNCHANGED <<script, devPods, owner, lock, devCtx, closer, snapshot>>

\* initChan has been received from, the next one is waited for.
Received(r, n) == [r EXCEPT !.pending = @ \ {n}, !.current = "none", !.pc = "select"]

\* initChan is closed; the command goes on if it waits for it.
CloseInit(j, n) ==
    /\ starter[j][n] = "close"
    /\ starter' = [starter EXCEPT ![j][n] = "closed"]
    /\ job' = [job EXCEPT ![j] = IF @.pc = "blocked" /\ @.current = n THEN Received(@, n) ELSE @]
    /\ UNCHANGED <<script, devPods, life, owner, lock, group, devCtx, closer, snapshot>>

\* The select of StartMultiple: an error, the end of a start, whichever is
\* there, or wait for either.
SelectError(j, n) ==
    /\ job[j].pc = "select" /\ n \in job[j].pending /\ job[j].errors # {}
    /\ \E e \in job[j].errors :
         job' = [job EXCEPT ![j].errors = @ \ {e}, ![j].got = @ + 1, ![j].pc = "drain", ![j].current = n]
    /\ CancelGroup(j)
    /\ UNCHANGED <<script, starter, devPods, owner, lock, devCtx, closer, snapshot>>

SelectInit(j, n) ==
    /\ job[j].pc = "select" /\ n \in job[j].pending /\ starter[j][n] = "closed"
    /\ job' = [job EXCEPT ![j] = [Received(job[j], n) EXCEPT !.unheard = @ \/ job[j].errors # {}]]
    /\ UNCHANGED <<script, starter, devPods, life, owner, lock, group, devCtx, closer, snapshot>>

SelectBlocks(j, n) ==
    /\ job[j].pc = "select" /\ n \in job[j].pending /\ job[j].errors = {} /\ starter[j][n] # "closed"
    /\ job' = [job EXCEPT ![j].pc = "blocked", ![j].current = n]
    /\ UNCHANGED <<script, starter, devPods, life, owner, lock, group, devCtx, closer, snapshot>>

\* After an error the end of the start is waited for.
Drain(j) ==
    /\ job[j].pc = "drain" /\ starter[j][job[j].current] = "closed"
    /\ job' = [job EXCEPT ![j] = Received(@, @.current)]
    /\ UNCHANGED <<script, starter, devPods, life, owner, lock, group, devCtx, closer, snapshot>>

\* All have ended; the command fails with the errors it got.
Collected(j) ==
    /\ job[j].pc = "select" /\ job[j].pending = {}
    /\ NextCommand(j, IF job[j].got > 0 THEN "start" ELSE "no")
    /\ UNCHANGED <<starter, devPods, life, owner, lock, group, devCtx, closer, snapshot>>

-----------------------------------------------------------------------------
(* stop_dev: Reset, for one dev pod after the other.                       *)

Reset(j, n) ==
    /\ AtCommand(j, "stop") /\ n \in Head(script[j]).names
    /\ lock[n] = NoJob
    /\ lock' = [lock EXCEPT ![n] = j]
    /\ job' = [job EXCEPT ![j].pc = "stop", ![j].current = n]
    /\ UNCHANGED <<script, starter, devPods, life, owner, group, devCtx, closer, snapshot>>

\* Mutant: the dev pod is not waited for.
StopAtOnce(j) ==
    LET o == devPods[job[j].current] IN
    /\ job[j].pc = "stop"
    /\ job' = [job EXCEPT ![j].pc = "revert"]
    /\ devPods' = [devPods EXCEPT ![job[j].current] = 0]
    /\ life' = CancelAll({o} \ {0})
    /\ UNCHANGED <<script, starter, owner, lock, group, devCtx, closer, snapshot>>

\* stop: the dev pod is cancelled, ...
Stop(j) ==
    LET o == devPods[job[j].current] IN
    /\ job[j].pc = "stop"
    /\ job' = [job EXCEPT ![j].pc = IF o = 0 THEN "revert" ELSE "stopping"]
    /\ life' = CancelAll({o} \ {0})
    /\ UNCHANGED <<script, starter, devPods, owner, lock, group, devCtx, closer, snapshot>>

\* ... waited for, and removed.
Stopped(j) ==
    LET n == job[j].current IN
    /\ job[j].pc = "stopping" /\ life[devPods[n]].done
    /\ job' = [job EXCEPT ![j].pc = "revert"]
    /\ devPods' = [devPods EXCEPT ![n] = 0]
    /\ UNCHANGED <<script, starter, life, owner, lock, group, devCtx, closer, snapshot>>

\* Its replaced pod is reverted, which may fail; the lock is given back.
Reverted(j, failed) ==
    LET n == job[j].current
        left == Head(script[j]).names \ {n}
    IN /\ job[j].pc = "revert"
       /\ lock' = [lock EXCEPT ![n] = NoJob]
       /\ IF failed \/ left = {}
          THEN NextCommand(j, IF failed THEN "stop" ELSE "no")
          ELSE /\ job' = [job EXCEPT ![j].pc = "next"]
               /\ script' = [script EXCEPT ![j][1].names = left]
       /\ UNCHANGED <<starter, devPods, life, owner, group, devCtx, closer, snapshot>>

-----------------------------------------------------------------------------
(* The end: WaitDev after a main job that succeeded, and Close.            *)

Present == {devPods[n] : n \in Names} \ {0}

Wait ==
    /\ closer = "running" /\ job[Main].pc = "end" /\ job[Main].failed = "no"
    /\ closer' = "waiting" /\ snapshot' = Present
    /\ UNCHANGED <<script, job, starter, devPods, life, owner, lock, group, devCtx>>

\* Close, when the dev pods are done, the job failed, or somebody else closes
\* the pipeline: every context is cancelled, the dev context first of all.
Close ==
    /\ closer \in {"running", "waiting"} /\ job[Main].pc = "end"
    /\ closer' = "closing" /\ devCtx' = TRUE
    /\ life' = CancelAll(Ids)
    /\ UNCHANGED <<script, job, starter, devPods, owner, lock, group, snapshot>>

CloseWaits ==
    /\ closer = "closing"
    /\ closer' = "draining" /\ snapshot' = Present
    /\ UNCHANGED <<script, job, starter, devPods, life, owner, lock, group, devCtx>>

\* Mutant: Close waits for the map to be empty.
CloseReturnsEmpty ==
    /\ closer = "draining" /\ Present = {}
    /\ closer' = "closed"
    /\ UNCHANGED <<script, job, starter, devPods, life, owner, lock, group, devCtx, snapshot>>

CloseReturns ==
    /\ closer = "draining" /\ \A o \in snapshot : life[o].done
    /\ closer' = "closed"
    /\ UNCHANGED <<script, job, starter, devPods, life, owner, lock, group, devCtx, snapshot>>

-----------------------------------------------------------------------------
\* A dev pod takes a step its promise allows.
DevPodStep(o) ==
    /\ \E m \in DP!OneChange(life[o]) : DP!Step(life[o], m) /\ life' = [life EXCEPT ![o] = m]
    /\ UNCHANGED <<script, job, starter, devPods, owner, lock, group, devCtx, closer, snapshot>>

JobStep(j) ==
    \/ EndJob(j) \/ StartMultiple(j) \/ Register(j) \/ Drain(j) \/ Collected(j)
    \/ Stop(j) \/ Stopped(j)
    \/ \E failed \in BOOLEAN : Reverted(j, failed)
    \/ \E n \in Names : SelectError(j, n) \/ SelectInit(j, n) \/ SelectBlocks(j, n) \/ Reset(j, n)

StarterStep(j, n) == StartLocked(j, n) \/ StartReturned(j, n) \/ Report(j, n) \/ CloseInit(j, n)

ManagerNext ==
    \/ \E j \in Jobs : JobStep(j) \/ \E n \in Names : StarterStep(j, n)
    \/ \E o \in Ids : DevPodStep(o)
    \/ Wait \/ Close \/ CloseWaits \/ CloseReturns

\* The goroutines go on, and the dev pods keep their promise to end when they
\* are cancelled. No start has to succeed, and nothing has to be closed.
ManagerSpec ==
    /\ ManagerInit /\ [][ManagerNext]_managerVars
    /\ WF_managerVars(\E j \in Jobs : JobStep(j) \/ \E n \in Names : StarterStep(j, n))
    /\ WF_managerVars(\E o \in Ids : life[o].cancelled /\ DevPodStep(o))
    /\ WF_managerVars(CloseWaits \/ CloseReturns)

-----------------------------------------------------------------------------
(* Properties.                                                             *)

Named(n) == {o \in Ids : owner[o].name = n}

\* done is closed and nothing of the dev pod runs any more; only where an attempt to
\* restart it failed and was made again something may.
Over(o) == life[o].done /\ life[o].runs # "yes"

\* A name never has two dev pods that are not over, whichever jobs start and
\* stop it (devPodManager.Start, stop).
OnePerName ==
    \A n \in Names : \A o, p \in Named(n) : ~Over(o) /\ ~Over(p) => o = p

\* While Reset reverts the replaced pod no dev pod of that name runs or starts.
RevertAlone ==
    \A j \in Jobs : job[j].pc = "revert" => \A o \in Named(job[j].current) : Over(o)

\* There is one dev pod of a name at most, and none while its pod is reverted.
OnlyDevPod == OnePerName /\ RevertAlone

\* Once Close has cancelled the contexts every dev pod is cancelled, also one
\* whose start_dev was under way and that is created later.
NothingSurvivesClose == devCtx => \A o \in Ids : life[o].cancelled

\* A start_dev that fails leaves none of the dev pods running that it started
\* next to the one that failed.
FailTogether ==
    \A j \in Jobs : job[j].failed = "start" => \A o \in Members(j) : life[o].cancelled

\* A dev pod that could not be started makes start_dev fail; the error is lost
\* only if its start had ended, too, before the command came to wait for it.
ErrorsReported ==
    \A j \in Jobs :
        job[j].pc = "select" /\ job[j].pending = {} /\ job[j].got = 0
        => job[j].unheard \/ \A n \in Head(script[j]).names :
               \E o \in Members(j) : owner[o].name = n /\ life[o].start = "started"

\* start_dev of several names (StartMultiple) starts all of them or fails and leaves none.
AllOrNothing == FailTogether /\ ErrorsReported

\* A command returns unless a dev pod is still starting: no command waits for
\* another one, for a lock or for a channel for ever.
CommandsReturn ==
    \A j \in Jobs :
        job[j].pc \notin {"next", "end"} ~>
            (job[j].pc \in {"next", "end"} \/ \E o \in Ids : life[o].start = "starting" /\ ~life[o].cancelled)

\* Once it is closed the pipeline ends: Close returns, and so does every command.
EndsAfterClose == (closer = "closing") ~> (closer = "closed" /\ \A j \in Jobs : job[j].pc = "end")

\* Commands return, and all of them once the pipeline is closed.
ManagerGoesOn == CommandsReturn /\ EndsAfterClose
=============================================================================
