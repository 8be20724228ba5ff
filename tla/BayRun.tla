-------------------------------- MODULE BayRun -------------------------------
(* One linked run of bay.rs. Renode carries out one script for all firmware     *)
(* nodes; a thread reads each of its two pipes; a bridge thread serves the      *)
(* Pico-Fi links; host processes use the terminals Renode created; the runner   *)
(* starts them, watches everything every 20 ms, power-cycles hosts, and gives   *)
(* the verdict.                                                               *)
EXTENDS BayQualification

CONSTANTS
    Bays,           \* pairs of a topology and the behaviour of its firmware
    Attainable,     \* topologies that are valid and whose limits a healthy bay meets
    Launcher,       \* renode is a launcher whose runtime child has the pipes
    PipeRoom,       \* lines in a pipe that make its writer wait
    FreeHeap        \* free memory after a reset

\* BayTopology is made of lists; counts are unsigned, and events have four kinds.
Listed(t) ==
    /\ List(t.nodes) /\ List(t.links) /\ List(t.events)
    /\ \A n \in Elements(t.nodes) : List(n.probes) /\ List(n.controllers)
    /\ \A l \in Elements(t.links) : List(l.endpoints)
    /\ \A e \in Elements(t.events) :
          e.after \in Nat /\ e.kind \in {"radio", "can_ack", "can_link", "reboot"}
    /\ t.sample_count \in Nat

ASSUME BaysAssumption == \A bay \in Bays : Listed(bay[1])

VARIABLES
    guest,          \* behaviour of the firmware: external
    script,         \* monitor commands not carried out
    runtime,        \* "none", "busy", "idle" (at its prompt) or "gone"
    child,          \* the process that was spawned: "none", "alive", or its end
    terminals,      \* the terminals Renode has created
    counters,       \* node -> what its probes read
    booted,         \* boot capture files
    applied,        \* events the simulator has applied, in order
    probe_file,     \* records of the probe file
    pipe,           \* lines written and not read, per pipe
    reading,        \* pipes whose reader thread runs
    console,        \* kinds of lines the readers have captured
    sample_file,    \* number in the sample file, or None while it is being written
    writing,        \* the number the stdout reader is writing, or None
    bridge_stop,    \* flag shared with the bridge
    bridge,         \* "none", "serving", "stopped", "failed" (unexpected) or "cut"
    channel,        \* failure lines not received
    hosts,          \* host -> state of its process, starts, lines in its log
    exclusive,      \* terminals a host has claimed with TIOCEXCL
    guards,         \* host_pty_guards: terminals the runner keeps open
    due,            \* host reboots seen due in this round
    completed,      \* completed_host_reboots
    mishap,         \* "none" or what went wrong
    unheeded,       \* the wait for the terminals has taken a failure line
    runner          \* control of the runner

simVars == <<script, runtime, child, terminals, counters, booted, applied, probe_file>>
readerVars == <<reading, console, sample_file, writing>>
hostVars == <<hosts, exclusive, guards>>
rounds == <<due, completed>>
vars == <<topology, guest, simVars, pipe, readerVars, bridge_stop, bridge, channel, hostVars,
          rounds, mishap, unheeded, runner>>

Pipes == {"stdout", "stderr"}
Cmd(name, arg) == [name |-> name, arg |-> arg]
Line(kind, arg) == [kind |-> kind, arg |-> arg]

-----------------------------------------------------------------------------
(* The script.                                                                *)

Each(s, name) == [i \in DOMAIN s |-> Cmd(name, s[i])]

\* Some of the events, in the order of the topology.
InOrder(some) ==
    FlattenSeq([i \in DOMAIN topology.events |->
                  IF topology.events[i] \in some THEN <<topology.events[i]>> ELSE <<>>])
EventsAt(kind, sample) == InOrder({e \in Events(kind) : e.after = sample})

\* Radio outages and detached CAN endpoints of sample zero precede the boot.
BeforeBoot == Each(EventsAt("radio", 0) \o EventsAt("can_link", 0), "apply")

AppliedAfter(sample) ==
    Each(EventsAt("radio", sample) \o EventsAt("can_ack", sample) \o EventsAt("can_link", sample)
           \o InOrder({e \in Events("reboot") : e.after = sample /\ e.node \in NodeNames}),
         "apply")

Captures(sample) ==
    LET Of(node, probes) ==
            [i \in DOMAIN probes |->
                Cmd("probe", [node |-> node.name, probe |-> probes[i].name, sample |-> sample])]
    IN  FlattenSeq([n \in DOMAIN topology.nodes |-> Of(topology.nodes[n], topology.nodes[n].probes)])
          \o FlattenSeq([n \in DOMAIN topology.nodes |->
                            Of(topology.nodes[n], FifoProbes(topology.nodes[n]))])

\* A plausible bug: the sample is published before its events are applied.
MutRenderSample(sample) ==
    <<Cmd("run", sample)>> \o Captures(sample) \o <<Cmd("done", sample)>> \o AppliedAfter(sample)

\* The sample is published after its probes are captured and its events applied.
RenderSample(sample) ==
    <<Cmd("run", sample)>> \o Captures(sample) \o AppliedAfter(sample) \o <<Cmd("done", sample)>>

Render ==
    Each(SetToSeq(Terminals), "terminal") \o Each(topology.nodes, "load") \o BeforeBoot
      \o FlattenSeq([s \in 1..topology.sample_count |-> RenderSample(s)])
      \o <<Cmd("complete", 0)>>

-----------------------------------------------------------------------------
(* Renode: external, as far as the script and the pipes show it.               *)

Reset == [progress |-> 0, heap |-> FreeHeap]

Advance(c, sample) ==
    [progress |-> IF sample \in guest.stalled THEN c.progress ELSE (c.progress + 1) % (WordMax + 1),
     heap |-> Max({0, c.heap - guest.leak})]

Reading(probe) ==
    IF probe.probe \in {"progress", "heap"} THEN counters[probe.node][probe.probe]
    ELSE IF guest.overflows THEN 1 ELSE 0

Record(probe) ==
    [node |-> probe.node, probe |-> probe.probe, sample |-> probe.sample, value |-> Reading(probe)]

IsReboot(c) == c.name = "apply" /\ c.arg.kind = "reboot"

Printed(c) ==
    CASE c.name = "done" -> <<Line("sample_done", c.arg)>>
      [] c.name = "complete" -> <<Line("complete", 0)>>
      [] c.name = "run" /\ c.arg = 1 /\ guest.watchdog -> <<Line("watchdog", 0)>>
      [] OTHER -> <<>>

RoomFor(p) == p \notin reading \/ Len(pipe[p]) < PipeRoom
Busy == runtime = "busy" /\ script # <<>>
Write(p, lines) == RoomFor(p) /\ pipe' = IF p \in reading THEN [pipe EXCEPT ![p] = @ \o lines] ELSE pipe
Others == UNCHANGED <<topology, guest, readerVars, bridge_stop, bridge, channel, hostVars, rounds, unheeded, runner>>

CommandRuns ==
    LET c == Head(script)
    IN  /\ Busy
        /\ Write("stdout", Printed(c))
        /\ script' = Tail(script)
        /\ terminals' = IF c.name = "terminal" THEN terminals \cup {c.arg} ELSE terminals
        /\ counters' = CASE c.name = "run" -> [n \in NodeNames |-> Advance(counters[n], c.arg)]
                         [] IsReboot(c) -> [counters EXCEPT ![c.arg.node] = Reset]
                         [] OTHER -> counters
        /\ booted' = IF c.name = "run" /\ guest.boots THEN NodeNames ELSE booted
        /\ applied' = IF c.name = "apply" THEN Append(applied, c.arg) ELSE applied
        /\ probe_file' = IF c.name = "probe"
                           THEN Append(probe_file, Record(c.arg)) ELSE probe_file
        /\ UNCHANGED <<runtime, child, mishap>> /\ Others

WorldUntouched == UNCHANGED <<terminals, counters, booted, applied, probe_file>>

ScriptQuits ==
    /\ runtime = "busy" /\ script = <<>>
    /\ runtime' = "gone"
    /\ UNCHANGED <<script, child, pipe, mishap>> /\ WorldUntouched /\ Others

\* "There was an error executing command": the include is abandoned.
CommandFails(p) ==
    /\ Busy /\ mishap = "none"
    /\ Write(p, <<Line("failed", 0)>>)
    /\ runtime' \in {"idle", "gone"}
    /\ mishap' = "command" /\ script' = <<>>
    /\ UNCHANGED child /\ WorldUntouched /\ Others

\* A fatal error or an access to RAM that is not there: the script goes on.
FaultLogged(p) ==
    /\ Busy /\ mishap = "none"
    /\ Write(p, <<Line("fault", 0)>>)
    /\ mishap' = "fault"
    /\ UNCHANGED <<script, runtime, child>> /\ WorldUntouched /\ Others

RuntimeCrashes ==
    /\ Busy /\ mishap = "none"
    /\ runtime' = "gone" /\ mishap' = "crash" /\ script' = <<>>
    /\ UNCHANGED <<child, pipe>> /\ WorldUntouched /\ Others

ChildEnds ==
    /\ child = "alive" /\ runtime = "gone"
    /\ child' = IF mishap = "crash" THEN "crashed" ELSE "ok"
    /\ UNCHANGED <<script, runtime, pipe, mishap>> /\ WorldUntouched /\ Others

SimulatorStep == CommandRuns \/ ScriptQuits \/ ChildEnds
SimulatorFault == RuntimeCrashes \/ \E p \in Pipes : CommandFails(p) \/ FaultLogged(p)

-----------------------------------------------------------------------------
(* The reader threads. console_execution_failed selects the lines that are       *)
(* failures at once.                                                          *)

ExecutionFailed(kind) == kind \in {"failed", "fault", "watchdog"}
ReaderOthers == UNCHANGED <<topology, guest, simVars, bridge, hostVars, rounds, unheeded, runner>>

ReadLine(p) ==
    LET line == Head(pipe[p])
    IN  /\ p \in reading /\ pipe[p] # <<>> /\ (p = "stdout" => writing = None)
        /\ pipe' = [pipe EXCEPT ![p] = Tail(@)]
        /\ channel' = IF ExecutionFailed(line.kind) THEN Append(channel, line.kind) ELSE channel
        /\ bridge_stop' = (bridge_stop \/ (p = "stdout" /\ line.kind = "complete"))
        /\ console' = console \cup {line.kind}
        /\ IF p = "stdout" /\ line.kind = "sample_done"
             THEN writing' = line.arg /\ sample_file' = None
             ELSE UNCHANGED <<writing, sample_file>>
        /\ UNCHANGED <<reading, mishap>> /\ ReaderOthers

\* fs::write empties the file before it writes it.
PublishSample ==
    /\ writing # None /\ "stdout" \in reading
    /\ sample_file' = writing /\ writing' = None
    /\ UNCHANGED <<reading, console, pipe, channel, bridge_stop, mishap>> /\ ReaderOthers

ReaderEnds(p) ==
    /\ p \in reading /\ pipe[p] = <<>> /\ runtime = "gone" /\ child # "alive"
    /\ p = "stdout" => writing = None
    /\ reading' = reading \ {p}
    /\ UNCHANGED <<console, sample_file, writing, pipe, channel, bridge_stop, mishap>> /\ ReaderOthers

\* A log or the sample file cannot be written: the thread ends and says so.
ReaderFails(p) ==
    /\ p \in reading /\ mishap = "none" /\ (pipe[p] # <<>> \/ (p = "stdout" /\ writing # None))
    /\ reading' = reading \ {p} /\ mishap' = "capture"
    /\ pipe' = [pipe EXCEPT ![p] = <<>>]
    /\ channel' = Append(channel, "capture")
    /\ writing' = IF p = "stdout" THEN None ELSE writing
    /\ UNCHANGED <<console, sample_file, bridge_stop>> /\ ReaderOthers

Reader(p) == ReadLine(p) \/ ReaderEnds(p) \/ (p = "stdout" /\ PublishSample)

-----------------------------------------------------------------------------
(* The Pico-Fi bridge and the host processes.                                  *)

Bridged == {t \in Terminals : Transport(t[1], t[2]) \in PicoTransports}
TerminalsOf(host) == {t \in Terminals : t[1] = host /\ t \notin Bridged}

BridgeOthers == UNCHANGED <<topology, guest, simVars, pipe, readerVars, bridge_stop, hostVars, rounds, unheeded, runner>>

\* A failure after the end of the script was announced is expected.
BridgeEnds(how) ==
    /\ bridge' = IF bridge_stop THEN "stopped" ELSE how
    /\ channel' = IF bridge_stop THEN channel ELSE Append(channel, "bridge")
    /\ BridgeOthers

BridgeFails == bridge = "serving" /\ mishap = "none" /\ mishap' = "bridge" /\ BridgeEnds("failed")

\* The terminals close with the simulator.
BridgeCut == bridge = "serving" /\ runtime = "gone" /\ UNCHANGED mishap /\ BridgeEnds("cut")

BridgeStops ==
    /\ bridge = "serving" /\ bridge_stop
    /\ bridge' = "stopped"
    /\ UNCHANGED <<channel, mishap>> /\ BridgeOthers

HostOthers == UNCHANGED <<topology, guest, simVars, pipe, readerVars, bridge_stop, bridge, channel,
                          guards, rounds, unheeded, runner>>

\* External: a host claims its terminals and logs that it did; a terminal that is
\* held cannot be opened.
HostOpens(h) ==
    /\ hosts[h].state = "starting"
    /\ IF TerminalsOf(h) \cap exclusive = {}
         THEN /\ exclusive' = exclusive \cup TerminalsOf(h)
              /\ hosts' = [hosts EXCEPT ![h].state = "open", ![h].log = @ + 1]
         ELSE hosts' = [hosts EXCEPT ![h].state = "refused"] /\ UNCHANGED exclusive
    /\ UNCHANGED mishap /\ HostOthers

HostExits(h) ==
    /\ hosts[h].state \in {"starting", "open"} /\ mishap = "none"
    /\ hosts' = [hosts EXCEPT ![h].state = "exited"]
    /\ mishap' = "host"
    /\ UNCHANGED exclusive /\ HostOthers

Dead == {"exited", "refused"}

-----------------------------------------------------------------------------
(* The runner.                                                                *)

RunnerOthers == UNCHANGED <<topology, guest, script, terminals, counters, booted, applied, probe_file,
                            pipe, bridge_stop, readerVars>>

\* A plausible bug: only the launcher is killed.
MutTerminate ==
    /\ child' = IF child = "alive" THEN "killed" ELSE child
    /\ runtime' = IF Launcher THEN runtime ELSE "gone"

\* terminate_simulator kills the process group.
Terminate ==
    /\ child' = IF child = "alive" THEN "killed" ELSE child
    /\ runtime' = "gone"

Validate ==
    /\ runner = "validate"
    /\ IF TopologyValid
         THEN /\ script' = Render
              /\ runtime' = "busy" /\ child' = "alive" /\ reading' = Pipes
              /\ runner' = IF topology.hosts = <<>> THEN "receive" ELSE "wait"
         ELSE runner' = "failed" /\ UNCHANGED <<script, runtime, child, reading>>
    /\ UNCHANGED <<topology, guest, terminals, counters, booted, applied, probe_file, pipe, console,
                   sample_file, writing, bridge_stop, bridge, channel, hostVars, rounds, mishap, unheeded>>

WaitOthers == UNCHANGED <<runtime, child, bridge, hostVars, rounds>> /\ RunnerOthers
TerminalsReady == terminals = Terminals

\* One look of the wait for the terminals: all there, or poll the simulator.
WaitLooks ==
    /\ runner = "wait"
    /\ runner' = IF TerminalsReady THEN "start" ELSE "wait_poll"
    /\ UNCHANGED <<channel, mishap, unheeded>> /\ WaitOthers

\* The simulator has gone, or a failure line is taken: both end the wait.
WaitPolls ==
    /\ runner = "wait_poll"
    /\ IF child = "alive" /\ channel = <<>>
         THEN runner' = "wait" ELSE runner' = "wait_last"
    /\ IF child = "alive" /\ channel # <<>>
         THEN channel' = Tail(channel) /\ unheeded' = TRUE
         ELSE UNCHANGED <<channel, unheeded>>
    /\ UNCHANGED mishap /\ WaitOthers

\* Only a terminal that is missing now gives the run up.
WaitLast ==
    /\ runner = "wait_last"
    /\ runner' = IF TerminalsReady THEN "start" ELSE "give_up"
    /\ UNCHANGED <<channel, mishap, unheeded>> /\ WaitOthers

WaitExpires ==
    /\ runner = "wait" /\ ~TerminalsReady /\ mishap = "none"
    /\ mishap' = "slow" /\ runner' = "give_up"
    /\ UNCHANGED <<channel, unheeded>> /\ WaitOthers

GiveUp ==
    /\ runner = "give_up"
    /\ Terminate
    /\ runner' = "give_up_join"
    /\ UNCHANGED <<channel, mishap, unheeded, bridge, hostVars, rounds>> /\ RunnerOthers

GiveUpJoins ==
    /\ runner = "give_up_join" /\ reading = {}
    /\ runner' = "failed"
    /\ UNCHANGED <<channel, mishap, unheeded>> /\ WaitOthers

\* spawn_host_node. The log of a restarted host is appended to.
Started(h, again) ==
    [state |-> "starting", starts |-> hosts[h].starts + 1, log |-> IF again THEN hosts[h].log ELSE 0]

StartHosts ==
    /\ runner = "start"
    /\ bridge' = IF Bridged = {} THEN "none" ELSE "serving"
    /\ guards' = Terminals \ Bridged
    /\ hosts' = [h \in HostNames |-> Started(h, FALSE)]
    /\ runner' = "receive"
    /\ UNCHANGED <<runtime, child, channel, exclusive, rounds, mishap, unheeded>> /\ RunnerOthers

\* A host binary or a bridge socket cannot be started: run returns at once.
StartFails ==
    /\ runner = "start" /\ mishap = "none"
    /\ mishap' = "start" /\ runner' = "failed"
    /\ UNCHANGED <<channel, unheeded>> /\ WaitOthers

Quietly == UNCHANGED <<mishap, unheeded>> /\ RunnerOthers

\* try_recv; a failure leaves 250 ms to the lines that follow it.
ReceiveFailure ==
    /\ runner = "receive"
    /\ IF channel = <<>> THEN runner' = "poll" /\ UNCHANGED channel
                         ELSE runner' = "kill" /\ channel' = Tail(channel)
    /\ UNCHANGED <<runtime, child, bridge, hostVars, rounds>> /\ Quietly

KillAfterFailure ==
    /\ runner = "kill"
    /\ Terminate
    /\ runner' = "poll"
    /\ UNCHANGED <<channel, bridge, hostVars, rounds>> /\ Quietly

PollSimulator ==
    /\ runner = "poll"
    /\ runner' = IF child # "alive" THEN "shutdown" ELSE "check_hosts"
    /\ UNCHANGED <<channel, runtime, child, bridge, hostVars, rounds>> /\ Quietly

\* exited_host
CheckHosts ==
    /\ runner = "check_hosts"
    /\ IF \E h \in HostNames : hosts[h].state \in Dead
         THEN Terminate /\ runner' = "shutdown"
         ELSE runner' = "read_sample" /\ UNCHANGED <<runtime, child>>
    /\ UNCHANGED <<channel, bridge, hostVars, rounds>> /\ Quietly

HostReboots == {i \in DOMAIN topology.events :
                    topology.events[i].kind = "reboot" /\ topology.events[i].node \in HostNames}

\* A file that is being written reads as zero.
SampleSeen == IF sample_file = None THEN 0 ELSE sample_file

ReadSample ==
    /\ runner = "read_sample"
    /\ due' = {i \in HostReboots \ completed : topology.events[i].after <= SampleSeen}
    /\ runner' = "reboot"
    /\ UNCHANGED <<channel, runtime, child, bridge, hostVars, completed>> /\ Quietly

\* A plausible bug: the dead host's claim on its terminals is left standing.
MutRelease(h) == UNCHANGED exclusive

\* release_host_pty_exclusive, through the descriptor the runner kept.
Release(h) == exclusive' = exclusive \ {t \in guards : t[1] = h}

\* Kill, reap, release, start again, in the order of the topology.
RebootHost ==
    LET i == Min(due)
        h == topology.events[i].node
    IN  /\ runner = "reboot" /\ due # {}
        /\ hosts' = [hosts EXCEPT ![h] = Started(h, TRUE)]
        /\ Release(h)
        /\ due' = due \ {i} /\ completed' = completed \cup {i}
        /\ UNCHANGED <<runner, channel, runtime, child, bridge, guards>> /\ Quietly

\* The host cannot be reaped, its terminals not be released or the binary not be
\* started: run returns at once, and the simulator goes on.
RebootFails ==
    LET h == topology.events[Min(due)].node
    IN  /\ runner = "reboot" /\ due # {} /\ mishap = "none"
        /\ hosts' = [hosts EXCEPT ![h].state = "killed"]
        /\ UNCHANGED exclusive \/ Release(h)
        /\ mishap' = "reboot" /\ runner' = "failed"
        /\ UNCHANGED <<channel, unheeded, runtime, child, bridge, guards, rounds>> /\ RunnerOthers

RoundEnds ==
    /\ runner = "reboot" /\ due = {}
    /\ runner' = "receive"
    /\ UNCHANGED <<channel, runtime, child, bridge, hostVars, rounds>> /\ Quietly

\* The bridge is told to stop and the hosts that still run are killed.
Shutdown ==
    /\ runner = "shutdown"
    /\ bridge_stop' = TRUE
    /\ hosts' = [h \in DOMAIN hosts |->
                    IF hosts[h].state \in Dead THEN hosts[h] ELSE [hosts[h] EXCEPT !.state = "killed"]]
    /\ runner' = "join"
    /\ UNCHANGED <<topology, guest, simVars, pipe, readerVars, bridge, channel, exclusive, guards,
                   rounds, mishap, unheeded>>

\* A plausible bug: what became of the hosts is not looked at.
MutRunClean ==
    /\ mishap # "capture"
    /\ child = "ok" /\ "complete" \in console
    /\ console \cap {"failed", "watchdog"} = {}
    /\ booted = NodeNames

\* What the run must show before its observations are judged.
RunClean ==
    /\ mishap # "capture"
    /\ \A h \in HostNames : hosts[h].state \notin Dead
    /\ child = "ok" /\ "complete" \in console
    /\ console \cap {"failed", "watchdog"} = {}
    /\ booted = NodeNames

Judge ==
    /\ runner = "join" /\ reading = {}
    /\ runner' = IF RunClean /\ Qualifies(probe_file, [h \in HostNames |-> hosts[h].log])
                   THEN "passed" ELSE "failed"
    /\ UNCHANGED <<channel, runtime, child, bridge, hostVars, rounds>> /\ Quietly

Runner ==
    \/ Validate \/ WaitLooks \/ WaitPolls \/ WaitLast \/ GiveUp \/ GiveUpJoins \/ StartHosts
    \/ ReceiveFailure \/ KillAfterFailure \/ PollSimulator \/ CheckHosts
    \/ ReadSample \/ RebootHost \/ RoundEnds \/ Shutdown \/ Judge

-----------------------------------------------------------------------------
Init ==
    /\ \E bay \in Bays : topology = bay[1] /\ guest = bay[2]
    /\ script = <<>> /\ runtime = "none" /\ child = "none"
    /\ terminals = {} /\ counters = [n \in NodeNames |-> Reset] /\ booted = {}
    /\ applied = <<>> /\ probe_file = <<>>
    /\ pipe = [p \in Pipes |-> <<>>] /\ reading = {} /\ console = {}
    /\ sample_file = 0 /\ writing = None
    /\ bridge_stop = FALSE /\ bridge = "none" /\ channel = <<>>
    /\ hosts = [h \in HostNames |-> [state |-> "absent", starts |-> 0, log |-> 0]]
    /\ exclusive = {} /\ guards = {} /\ due = {} /\ completed = {}
    /\ mishap = "none" /\ unheeded = FALSE /\ runner = "validate"

Over == runner \in {"passed", "failed"}

Mishap ==
    \/ SimulatorFault \/ BridgeFails \/ WaitExpires \/ StartFails \/ RebootFails
    \/ \E p \in Pipes : ReaderFails(p)
    \/ \E h \in HostNames : HostExits(h)

Next ==
    \/ Runner
    \/ ~Over /\ \/ SimulatorStep \/ BridgeCut \/ BridgeStops \/ Mishap
                \/ \E p \in Pipes : Reader(p)
                \/ \E h \in HostNames : HostOpens(h)

Spec == Init /\ [][Next]_vars

\* Threads and processes are scheduled; nothing forces a mishap or a host.
FairSpec ==
    /\ Spec
    /\ WF_vars(Runner)
    /\ WF_vars(SimulatorStep)
    /\ \A p \in Pipes : WF_vars(Reader(p))

-----------------------------------------------------------------------------
(* Properties. *)

ToApply(sample) ==
    {e \in Elements(topology.events) :
        e.after <= sample /\ ~(e.kind = "reboot" /\ e.node \in HostNames)}

\* The name of a probe is no other's in its node; the code leaves that to
\* validate_probe_indices, which refuses the records of a node where it is not so.
ProbesApart(node) ==
    LET probes == node.probes \o FifoProbes(node)
    IN  \A i, j \in DOMAIN probes : probes[i].name = probes[j].name => i = j

Recorded(node, probe, sample) ==
    LET records == {i \in DOMAIN probe_file :
                       /\ probe_file[i].node = node.name /\ probe_file[i].probe = probe
                       /\ probe_file[i].sample = sample}
    IN  records # {} /\ (ProbesApart(node) => Cardinality(records) = 1)

CapturedUpTo(sample) ==
    \A n \in Elements(topology.nodes) : \A probe \in ProbeNames(n.name) :
        \A s \in 1..sample : Recorded(n, probe, s)

\* The comment at bay.rs:1802-1804: whoever reads sample k in the sample file, or
\* will read it in a moment, finds the events after k applied and the probes of
\* k captured, however far the reader lags behind the simulator.
SampleHonest ==
    \A k \in {sample_file, writing} \ {None, 0} :
        ToApply(k) \subseteq Elements(applied) /\ CapturedUpTo(k)

\* A planned power cycle restarts a host once, and the host finds the terminals
\* its killed predecessor had claimed free again.
PowerCycles ==
    runner # "failed" =>
        \A h \in HostNames :
            /\ hosts[h].state # "refused"
            /\ guards # {} =>
                  hosts[h].starts = 1 + Cardinality({i \in completed : topology.events[i].node = h})

Planned(node) == {0} \cup ResetsOf(node)

\* A stall is visible between two samples of one epoch.
StallVisible == \E n \in NodeNames : \E s \in guest.stalled : s - 1 \notin Planned(n)

\* A bay that passed was executed to its end: all probes of all samples were
\* captured, the planned events and no others applied, every node booted, no
\* watchdog fired, and no host was dead when the run ended. A host that dies during
\* the run can go unnoticed only if a planned power cycle has started it again.
PassComplete ==
    runner = "passed" =>
        /\ child = "ok" /\ "complete" \in console
        /\ CapturedUpTo(topology.sample_count)
        /\ ToApply(topology.sample_count) = Elements(applied)
        /\ guest.boots /\ ~guest.watchdog
        /\ \A h \in HostNames : hosts[h].state = "killed"
        /\ mishap = "host" => completed # {}

\* Nor did a receive FIFO overflow or a task stall between planned resets: the
\* captured values show both.
PassJustified == runner = "passed" => ~guest.overflows /\ ~StallVisible

Healthy ==
    /\ guest.boots /\ ~guest.watchdog /\ ~guest.overflows
    /\ guest.stalled = {} /\ guest.leak = 0

\* Planned resets, host power cycles and detached links do not fail a bay in
\* which nothing went wrong. A bridge that saw its terminal close before the
\* end of the script was read is the one exception the code leaves.
HealthyBayPasses ==
    runner = "failed" /\ topology \in Attainable =>
        ~Healthy \/ mishap # "none" \/ bridge = "cut"

\* The run returns, with a launcher too (bay.rs:34): its group is killed, so the
\* readers see the end of the pipes. A failure line that the wait for the
\* terminals took is the one that nobody acts on afterwards.
BayReturns == <>(Over \/ (unheeded /\ runner = "receive"))

\* docs/hardware-fidelity.md:146: "Unexpected bridge errors fail the bay run".
BridgeErrorFailsRun == runner = "passed" => bridge # "failed"
=============================================================================
