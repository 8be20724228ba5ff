------------------------------ MODULE Execution ------------------------------
(* The direct execution runner of execution.rs: one Renode process runs the    *)
(* application and the factory image, and then one more process per selected    *)
(* flash operation repeats the update with the power cut after it. A process    *)
(* writes to two pipes; a reader thread per pipe forwards lines to the runner.  *)
EXTENDS ProbeLimits, FiniteSets, Lists

CONSTANTS
    Launcher,       \* renode may be a launcher whose runtime child has the pipes
    PipeRoom        \* lines in a pipe that make its writer wait

VARIABLES
    job,            \* the board's execution settings and its architecture
    guest,          \* how the firmware behaves: external, the same in every process
    cut,            \* 0 in the first process, else the flash operation to cut after
    todo,           \* flash operations still to be cut
    script,         \* monitor commands the process has not carried out
    runtime,        \* "none", "busy", "idle" (waiting at the prompt) or "gone"
    child,          \* the process the runner waits for: "none", "alive", or its end
    pipe,           \* lines written and not yet read, per pipe
    reading,        \* pipes whose reader thread has not seen the end
    channel,        \* lines the readers have sent
    combined,       \* the transcript
    faulted,        \* execution_fault
    mishap,         \* "none" or what went wrong in a process
    results,        \* report of the cuts: operation -> outcome
    finished,       \* the outcome of the uncut update
    runner          \* control of the runner

procVars == <<script, runtime, child, pipe, reading, channel, combined, faulted>>
executionVars == <<job, guest, cut, todo, procVars, mishap, results, finished, runner>>

Pipes == {"stdout", "stderr"}

Cmd(name, arg) == [name |-> name, arg |-> arg]
Line(kind, arg) == [kind |-> kind, arg |-> arg]

-----------------------------------------------------------------------------
(* render_script: the commands one process is given. *)

If(condition, line) == IF condition THEN <<line>> ELSE <<>>

\* unacknowledged_can_controllers
CanControllers(architecture) ==
    CASE architecture = "g4"           -> <<"fdcan1", "fdcan2">>
      [] architecture \in {"h5", "u5"} -> <<"fdcan1">>
      [] OTHER                         -> <<>>

ErrorCount(controller) == <<controller, "tec">>
ErrorCode(controller) == <<controller, "psr">>

Named(probes, name) == {p \in DOMAIN probes : probes[p].name = name}

\* A probe without limits at a register, unless the layout names it already.
Sampling(settings, register) ==
    If(Named(settings.probes, register) = {},
       [name |-> register, register |-> register, gain |-> None, minimum |-> None,
        maximum |-> None, end_drop |-> None, ignore_zeroes |-> FALSE])

\* add_unacknowledged_can_probes: when no CAN frame is acknowledged the error
\* counter and the error code of every controller are sampled as well.
ProbesOf(settings) ==
    LET controllers == CanControllers(settings.architecture)
    IN  IF settings.can_acknowledged THEN settings.probes
        ELSE settings.probes \o FlattenSeq([c \in DOMAIN controllers |->
                 Sampling(settings, ErrorCount(controllers[c]))
                     \o Sampling(settings, ErrorCode(controllers[c]))])
Probes == ProbesOf(job)

\* There is a controller to sample, and a probe of the layout that has the name of
\* one of its registers is at that register.
ProbesAddable ==
    LET controllers == Elements(CanControllers(job.architecture))
        registers   == UNION {{ErrorCount(c), ErrorCode(c)} : c \in controllers}
    IN  /\ controllers # {}
        /\ \A r \in registers : \A p \in Named(job.probes, r) : job.probes[p].register = r

ProfileScript ==
    FlattenSeq([s \in 1..job.sample_count |->
        <<Cmd("run_firmware", s)>> \o [p \in DOMAIN Probes |-> Cmd("probe", <<p, s>>)]])

PowerCutting == job.firmware_driven /\ (job.every_operation \/ job.events # {})

\* render_ota_script
OtaScript(cutAfter) ==
    IF ~job.firmware_driven THEN <<>>
    ELSE <<Cmd("transfer", cutAfter)>>
            \o (IF cutAfter > 0 THEN <<Cmd("reboot", cutAfter)>> ELSE <<>>)

RenderScript(cutAfter) ==
    ProfileScript \o <<Cmd("registers", 0), Cmd("run_factory", 0)>>
        \o OtaScript(cutAfter) \o <<Cmd("report_flash", 0), Cmd("registers", 0)>>

-----------------------------------------------------------------------------
(* What a command prints: external, from the hooks and echoes of the script.   *)

CutHits(n) == n > 0 /\ n <= Len(guest.trace)

Printed(c) ==
    CASE c.name = "run_firmware" ->
             If(c.arg = 1 /\ guest.fault = "early", Line("firmware_fault", 0))
          \o If(c.arg = 1 /\ guest.boots, Line("firmware_boot", 0))
          \o If(c.arg = 1 /\ guest.fault = "late", Line("firmware_fault", 0))
          \o If(c.arg = 1 /\ guest.watchdog, Line("iwdg_reset", 0))
      [] c.name = "probe" ->
             <<Line("probe", [probe |-> c.arg[1], sample |-> c.arg[2],
                              value |-> guest.values[c.arg[1]][c.arg[2]]])>>
      [] c.name = "registers" -> <<Line("registers", 0)>>
      [] c.name = "run_factory" ->
             If(guest.factory_boots, Line("factory_boot", 0))
          \o If(guest.factory_fault, Line("factory_fault", 0))
          \o If(guest.early_outcome # None, Line("outcome", guest.early_outcome))
      [] c.name = "transfer" ->
             <<Line("transfer_begin", 0)>>
          \o If(~CutHits(c.arg) /\ guest.outcome # None, Line("outcome", guest.outcome))
      [] c.name = "reboot" ->
             <<Line("cut_triggered", CutHits(c.arg)), Line("reboot", 0)>>
          \o If(guest.after_cut[c.arg] # None, Line("outcome", guest.after_cut[c.arg]))
      [] c.name = "report_flash" -> <<Line("flash", guest.trace)>>

-----------------------------------------------------------------------------
(* Reading the transcript. *)

Observed(kind, text) == \E i \in DOMAIN text : text[i].kind = kind

FirstLine(kind, text) == text[SelectInSeq(text, LAMBDA l : l.kind = kind)]

ObservedAfter(first, kind, text) ==
    \E i, j \in DOMAIN text : i < j /\ text[i].kind = first /\ text[j].kind = kind

\* split_once: what follows the first such line.
Following(kind, text) ==
    SubSeq(text, 1 + SelectInSeq(text, LAMBDA l : l.kind = kind), Len(text))

Outcomes(text) == {l.arg : l \in {l \in Elements(text) : l.kind = "outcome"}}

\* unique_ota_outcome refuses a transcript with two of them.
UniqueOutcome(text) == Cardinality(Outcomes(text)) <= 1
OutcomeOf(text) == IF Outcomes(text) = {} THEN None ELSE CHOOSE o \in Outcomes(text) : TRUE

\* Samples are put in the order of their index, not of their arrival.
SamplesOf(text, p) ==
    LET lines     == {i \in DOMAIN text : text[i].kind = "probe" /\ text[i].arg.probe = p}
        sample(i) == text[i].arg.sample
        before(i) == {j \in lines : sample(j) < sample(i) \/ (sample(j) = sample(i) /\ j < i)}
        nth(n)    == CHOOSE i \in lines : Cardinality(before(i)) = n - 1
    IN  [n \in 1..Cardinality(lines) |-> text[nth(n)].arg.value]

WithinLimits(probe, s) ==
    /\ s # <<>>
    /\ CounterProgresses(s, probe.gain)
    /\ probe.minimum # None => Floor(s) >= probe.minimum
    /\ probe.maximum # None => Ceiling(s) <= probe.maximum
    /\ probe.end_drop # None => SustainedEndDrop(s) <= probe.end_drop

ProfileAccepted(text) ==
    \A p \in DOMAIN Probes :
        /\ Len(SamplesOf(text, p)) = job.sample_count
        /\ WithinLimits(Probes[p], Qualified(Probes[p], SamplesOf(text, p), job.warmup))

\* validate_unacknowledged_can_fault: some sample of some controller shows an error
\* count together with the error code of a missing acknowledgement.
AckError == 3
AckFault(tec, psr) == \E i \in DOMAIN tec : tec[i] % 256 # 0 /\ psr[i] % 8 = AckError
ProbeOf(register) == CHOOSE p \in Named(Probes, register) : TRUE
AckFaultSeen(text) ==
    ~job.can_acknowledged =>
        \E c \in Elements(CanControllers(job.architecture)) :
            AckFault(SamplesOf(text, ProbeOf(ErrorCount(c))), SamplesOf(text, ProbeOf(ErrorCode(c))))

-----------------------------------------------------------------------------
(* The process. A command that fails leaves the monitor at its prompt, which    *)
(* the open console input keeps waiting.                                      *)

Launch(n) ==
    /\ cut' = n
    /\ script' = RenderScript(n)
    /\ runtime' = "busy" /\ child' = "alive"
    /\ pipe' = [p \in Pipes |-> <<>>] /\ reading' = Pipes
    /\ channel' = <<>> /\ combined' = <<>>
    /\ faulted' = FALSE
    /\ runner' = "receive"

Busy == runtime = "busy" /\ script # <<>>
Write(p, lines) == Len(pipe[p]) < PipeRoom /\ pipe' = [pipe EXCEPT ![p] = @ \o lines]
RunnerUntouched == UNCHANGED <<job, guest, cut, todo, reading, channel, combined, faulted, results, finished, runner>>

CommandRuns ==
    /\ Busy
    /\ Write("stdout", Printed(Head(script)))
    /\ script' = Tail(script)
    /\ UNCHANGED <<runtime, child, mishap>> /\ RunnerUntouched

ScriptQuits ==
    /\ runtime = "busy" /\ script = <<>>
    /\ runtime' = "gone"
    /\ UNCHANGED <<script, child, pipe, mishap>> /\ RunnerUntouched

\* A command fails or the CPU aborts: the monitor prints it and stays, or dies of it.
CommandFails(p) ==
    /\ Busy /\ mishap = "none"
    /\ Write(p, <<Line("fault", 0)>>)
    /\ runtime' \in {"idle", "gone"}
    /\ mishap' = "fault" /\ script' = <<>>
    /\ UNCHANGED child /\ RunnerUntouched

\* An error is logged and the script goes on.
ErrorLogged(p) ==
    /\ Busy /\ mishap = "none"
    /\ Write(p, <<Line("error", 0)>>)
    /\ mishap' = "error"
    /\ UNCHANGED <<script, runtime, child>> /\ RunnerUntouched

RuntimeCrashes ==
    /\ Busy /\ mishap = "none"
    /\ runtime' = "gone" /\ mishap' = "crash" /\ script' = <<>>
    /\ UNCHANGED <<child, pipe>> /\ RunnerUntouched

ChildEnds ==
    /\ child = "alive" /\ runtime = "gone"
    /\ child' = IF mishap = "crash" THEN "failed" ELSE "ok"
    /\ UNCHANGED <<script, runtime, pipe, mishap>> /\ RunnerUntouched

Simulator ==
    \/ CommandRuns \/ ScriptQuits \/ ChildEnds \/ RuntimeCrashes
    \/ \E p \in Pipes : CommandFails(p) \/ ErrorLogged(p)

-----------------------------------------------------------------------------
(* spawn_output_reader: one thread per pipe.                                  *)

Closed(p) == pipe[p] = <<>> /\ runtime = "gone" /\ child # "alive"

Forward(p) ==
    /\ p \in reading /\ pipe[p] # <<>>
    /\ channel' = Append(channel, Head(pipe[p]))
    /\ pipe' = [pipe EXCEPT ![p] = Tail(@)]
    /\ UNCHANGED <<job, guest, cut, todo, script, runtime, child, reading, combined, faulted,
                   mishap, results, finished, runner>>

ReaderEnds(p) ==
    /\ p \in reading /\ Closed(p)
    /\ reading' = reading \ {p}
    /\ UNCHANGED <<job, guest, cut, todo, script, runtime, child, pipe, channel, combined, faulted,
                   mishap, results, finished, runner>>

Reader(p) == Forward(p) \/ ReaderEnds(p)

-----------------------------------------------------------------------------
(* run_renode_script: receive, poll, join.                                    *)

ProcessUntouched == UNCHANGED <<job, guest, cut, todo, script, pipe, reading, mishap, results, finished>>

Receive ==
    /\ runner = "receive" /\ channel # <<>>
    /\ combined' = Append(combined, Head(channel))
    /\ channel' = Tail(channel)
    /\ faulted' = (faulted \/ Head(channel).kind = "fault")
    /\ runner' = IF Head(channel).kind = "fault" THEN "kill" ELSE "poll"
    /\ UNCHANGED <<runtime, child>> /\ ProcessUntouched

ReceiveTimeout ==
    /\ runner = "receive" /\ channel = <<>>
    /\ runner' = "poll"
    /\ UNCHANGED <<runtime, child, channel, combined, faulted>> /\ ProcessUntouched

\* A plausible bug: the fault is noted and the process left at its prompt.
MutKillChild ==
    /\ runner = "kill"
    /\ runner' = "poll"
    /\ UNCHANGED <<runtime, child, channel, combined, faulted>> /\ ProcessUntouched

\* Only the process that was started is killed, not a runtime it has started.
KillChild ==
    /\ runner = "kill"
    /\ child' = IF child = "alive" THEN "killed" ELSE child
    /\ runtime' \in {"gone"} \cup (IF Launcher THEN {runtime} ELSE {})
    /\ runner' = "poll"
    /\ UNCHANGED <<channel, combined, faulted>> /\ ProcessUntouched

Poll ==
    /\ runner = "poll"
    /\ runner' = IF child = "alive" THEN "receive" ELSE "join"
    /\ UNCHANGED <<runtime, child, channel, combined, faulted>> /\ ProcessUntouched

\* A plausible bug: what is still in the channel is left there.
MutJoin ==
    /\ runner = "join" /\ reading = {}
    /\ runner' = "judge"
    /\ UNCHANGED <<runtime, child, channel, combined, faulted>> /\ ProcessUntouched

\* The readers have ended: what they sent after the last receive is added.
Join ==
    /\ runner = "join" /\ reading = {}
    /\ combined' = combined \o channel
    /\ channel' = <<>>
    /\ runner' = "judge"
    /\ UNCHANGED <<runtime, child, faulted>> /\ ProcessUntouched

TranscriptClean ==
    /\ ~faulted
    /\ child = "ok"
    /\ ~Observed("fault", combined) /\ ~Observed("error", combined)

-----------------------------------------------------------------------------
(* run: what the first process must show, and each cut after it.               *)

ExecutionValid ==
    /\ job.sample_count > 0
    /\ job.sample_count <= job.virtual_time
    /\ job.warmup < job.sample_count
    /\ job.can_acknowledged \/ ProbesAddable
    /\ job.require_stack_probe => \E p \in DOMAIN job.probes :
          job.probes[p].stack /\ job.probes[p].minimum # None /\ job.probes[p].minimum > 0

AfterTransfer ==
    IF Observed("transfer_begin", combined) THEN Following("transfer_begin", combined) ELSE combined

FlashTrace == FirstLine("flash", combined).arg

\* The operations to cut after: all, or those of the events that are named.
Selected(trace) ==
    LET picked[n \in 0..Len(trace)] ==
            IF n = 0 THEN <<>>
            ELSE IF job.every_operation \/ trace[n] \in job.events THEN Append(picked[n - 1], n)
            ELSE picked[n - 1]
    IN  picked[Len(trace)]

BaselineAccepted ==
    /\ TranscriptClean
    /\ ~Observed("iwdg_reset", combined)
    /\ ProfileAccepted(combined)
    /\ AckFaultSeen(combined)
    /\ Observed("firmware_boot", combined) /\ Observed("factory_boot", combined)
    /\ ~ObservedAfter("firmware_boot", "firmware_fault", combined)
    /\ ~ObservedAfter("factory_boot", "factory_fault", combined)
    /\ Observed("registers", combined)
    /\ UniqueOutcome(AfterTransfer)
    /\ job.firmware_driven => OutcomeOf(AfterTransfer) # None /\ FlashTrace # <<>>
    /\ PowerCutting => Selected(FlashTrace) # <<>>

CutAccepted ==
    /\ TranscriptClean
    /\ Observed("reboot", combined)
    /\ UniqueOutcome(Following("reboot", combined))
    /\ OutcomeOf(Following("reboot", combined)) # None
    /\ FirstLine("cut_triggered", combined).arg

SettingsUntouched == UNCHANGED <<job, guest, mishap>>
ProcessGone == UNCHANGED <<procVars, cut>>

ExecutionBegin ==
    /\ runner = "idle"
    /\ IF ExecutionValid THEN Launch(0)
                          ELSE runner' = "failed" /\ UNCHANGED <<procVars, cut>>
    /\ UNCHANGED <<todo, results, finished>> /\ SettingsUntouched

JudgeBaseline ==
    /\ runner = "judge" /\ cut = 0
    /\ IF BaselineAccepted
         THEN /\ finished' = OutcomeOf(AfterTransfer)
              /\ todo' = IF PowerCutting THEN Selected(FlashTrace) ELSE <<>>
              /\ runner' = "next"
         ELSE runner' = "failed" /\ UNCHANGED <<finished, todo>>
    /\ UNCHANGED results /\ ProcessGone /\ SettingsUntouched

NextCut ==
    /\ runner = "next" /\ todo # <<>>
    /\ todo' = Tail(todo)
    /\ Launch(Head(todo))
    /\ UNCHANGED <<results, finished>> /\ SettingsUntouched

JudgeCut ==
    /\ runner = "judge" /\ cut > 0
    /\ IF CutAccepted
         THEN /\ results' = Append(results, [after |-> cut,
                                  outcome |-> OutcomeOf(Following("reboot", combined))])
              /\ runner' = "next"
         ELSE runner' = "failed" /\ UNCHANGED results
    /\ UNCHANGED <<finished, todo>> /\ ProcessGone /\ SettingsUntouched

ExecutionEnd ==
    /\ runner = "next" /\ todo = <<>>
    /\ runner' = "done"
    /\ UNCHANGED <<todo, results, finished>> /\ ProcessGone /\ SettingsUntouched

Runner ==
    \/ Receive \/ ReceiveTimeout \/ KillChild \/ Poll \/ Join
    \/ JudgeBaseline \/ NextCut \/ JudgeCut \/ ExecutionEnd

ExecutionIdle ==
    /\ cut = 0 /\ todo = <<>> /\ results = <<>> /\ finished = None
    /\ script = <<>> /\ runtime = "none" /\ child = "none"
    /\ pipe = [p \in Pipes |-> <<>>] /\ reading = {} /\ channel = <<>> /\ combined = <<>>
    /\ faulted = FALSE /\ mishap = "none" /\ runner = "idle"

ExecutionStep == Runner \/ Simulator \/ \E p \in Pipes : Reader(p)

\* The operating system runs every thread and process; nothing forces a mishap.
ExecutionFairness ==
    /\ WF_executionVars(Runner)
    /\ WF_executionVars(CommandRuns \/ ScriptQuits \/ ChildEnds)
    /\ \A p \in Pipes : WF_executionVars(Reader(p))

-----------------------------------------------------------------------------
(* Properties. *)

\* What a careful reader of the firmware's whole behaviour would answer.
Healthy ==
    /\ mishap = "none"
    /\ guest.boots /\ guest.factory_boots
    /\ guest.fault # "late" /\ ~guest.factory_fault /\ ~guest.watchdog
    /\ \A p \in DOMAIN Probes : WithinLimits(Probes[p], Qualified(Probes[p], guest.values[p], job.warmup))
    /\ ~job.can_acknowledged =>
          \E c \in Elements(CanControllers(job.architecture)) :
              AckFault(guest.values[ProbeOf(ErrorCount(c))], guest.values[ProbeOf(ErrorCode(c))])
    /\ job.firmware_driven => guest.outcome # None /\ guest.trace # <<>>
    /\ PowerCutting => /\ Selected(guest.trace) # <<>>
                       /\ \A n \in ToSet(Selected(guest.trace)) : guest.after_cut[n] # None

\* Whatever order the threads run in, the runner passes exactly the firmware
\* that is healthy, and reports for every selected flash operation what the
\* board did after that cut: no line is lost between a pipe, the channel and
\* the transcript, and none is taken for a later one.
VerdictTruthful ==
    /\ runner = "done" =>
          /\ Healthy
          /\ PowerCutting =>
                results = [i \in DOMAIN Selected(guest.trace) |->
                              [after   |-> Selected(guest.trace)[i],
                               outcome |-> guest.after_cut[Selected(guest.trace)[i]]]]
    /\ runner = "failed" => ~Healthy \/ ~ExecutionValid

\* The launcher was killed at the prompt and its runtime still has the pipes.
Orphaned == runner = "join" /\ child = "killed" /\ runtime = "idle"

\* run_renode_script: an execution ends, with every reader joined and every process
\* at its end, however the firmware and the monitor fail; only a runtime that outlives
\* its killed launcher holds the join.
ExecutionEnds == runner # "idle" ~> runner \in {"done", "failed"} \/ Orphaned

\* "Renode's launcher can spawn a runtime child which inherits its console pipes.
\* Kill the owned process group on failure, otherwise reader joins can wait forever"
\* (terminate_simulator): every execution ends.
ExecutionReturns == runner # "idle" ~> runner \in {"done", "failed"}
=============================================================================
